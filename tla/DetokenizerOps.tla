--------------------------- MODULE DetokenizerOps ---------------------------
(***************************************************************************)
(* miniinfer/engine/detokenizer.py: what one request's DecodeState goes    *)
(* through.  A token is a whole character, the first or the last bytes of  *)
(* a character, or EOS, which the decode skips.  Bytes that make no        *)
(* character decode to the replacement character.                          *)
(***************************************************************************)
EXTENDS Integers, Sequences, SequencesExt

CONSTANT TokenIds   \* tokens the model can sample, of "char", "first", "last", "eos"

ASSUME TokenAssumption == TokenIds \subseteq {"char", "first", "last", "eos"}

REPLACEMENT_CHAR == "?"

\* The decode of one more token: d has the text and whether the first bytes of a
\* character are all that its last token left.
DecodeNext(d, t) ==
  CASE t = "char"  -> [text |-> Append(d.text, "x"), open |-> FALSE]
    [] t = "first" -> [text |-> Append(d.text, REPLACEMENT_CHAR), open |-> TRUE]
    [] t = "last"  -> IF d.open
                        THEN [text |-> Append(Front(d.text), "c"), open |-> FALSE]
                        ELSE [text |-> Append(d.text, REPLACEMENT_CHAR), open |-> FALSE]
    [] t = "eos"   -> d

\* tokenizer.decode(token_ids, skip_special_tokens=True).
Text(token_ids) ==
  LET decoded[i \in 0..Len(token_ids)] ==
        IF i = 0 THEN [text |-> << >>, open |-> FALSE]
        ELSE DecodeNext(decoded[i - 1], token_ids[i])
  IN decoded[Len(token_ids)].text

NewState == [token_ids |-> << >>, text |-> << >>, read_offset |-> 0,
             output_text |-> << >>, finished |-> FALSE]

\* Mutant of SafeEnd: nothing is held back.
SafeEndWhole(text, read_offset) == IF read_offset > Len(text) THEN read_offset ELSE Len(text)

\* _find_valid_utf8_boundary: the replacement characters at the end are kept back.
SafeEnd(text, read_offset) ==
  IF read_offset >= Len(text) THEN read_offset
  ELSE CHOOSE e \in read_offset..Len(text) :
         /\ \A i \in (e + 1)..Len(text) : text[i] = REPLACEMENT_CHAR
         /\ e = read_offset \/ text[e] # REPLACEMENT_CHAR

\* The part of _incremental_decode, and of decode_batch's loop over the states,
\* behind the decode: the text up to the boundary goes out.
Advance(st, full_text, final) ==
  LET end == IF final THEN Len(full_text) ELSE SafeEnd(full_text, st.read_offset)
  IN [st EXCEPT !.text = full_text,
        !.read_offset = IF end > @ THEN end ELSE @,
        !.output_text = @ \o SubSeq(full_text, st.read_offset + 1, end)]

\* What went out between two states of a request: delta_text.
Delta(old, new) == SubSeq(new.text, old.read_offset + 1, new.read_offset)

\* One token of decode or decode_batch, which differ in where full_text comes from.
Accept(st, t, full_text) ==
  IF st.finished THEN st
  ELSE [Advance([st EXCEPT !.token_ids = Append(@, t)], full_text, t = "eos")
          EXCEPT !.finished = (t = "eos")]

\* flush.
Flushed(st, full_text) ==
  IF st.token_ids = << >> THEN st ELSE Advance(st, full_text, TRUE)
=============================================================================
