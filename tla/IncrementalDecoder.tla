------------------------- MODULE IncrementalDecoder -------------------------
(***************************************************************************)
(* The class IncrementalDecoder of miniinfer/engine/detokenizer.py with    *)
(* its cache of decoded prefixes, used as its documentation says: a token  *)
(* at a time, alone or in a batch of different requests, flush at the end  *)
(* of a request that had no EOS, cleanup afterwards.                       *)
(***************************************************************************)
EXTENDS DetokenizerOps

CONSTANTS Requests,
          CacheSize,   \* _decode_cache_size, at least 1
          MaxDecoded   \* bound: tokens of a request

VARIABLES
  states,   \* _states: the requests known to the decoder
  cache,    \* _decode_cache, oldest entry first
  sent,     \* history: the text handed out for each request
  flushed   \* requests that have been flushed, to which no token is given any more

dvars == <<states, cache, sent, flushed>>

DecoderInit ==
  /\ states = << >>
  /\ cache = << >>
  /\ sent = [r \in Requests |-> << >>]
  /\ flushed = {}

Cached(key) == \E i \in DOMAIN cache : cache[i].key = key

\* Mutant of CacheKey: the order of the tokens is lost.
CacheKeyUnordered(ids) == Range(ids)

\* _get_cache_key; equal hashes of different sequences are not modelled.
CacheKey(ids) == ids

\* _decode_with_cache: what it returns, and the cache behind it.  At capacity the
\* oldest half goes first.
CacheText(ids) ==
  IF Cached(CacheKey(ids))
    THEN cache[CHOOSE i \in DOMAIN cache : cache[i].key = CacheKey(ids)].text
    ELSE Text(ids)

CacheAfter(ids) ==
  LET kept == IF Len(cache) >= CacheSize
                THEN SubSeq(cache, CacheSize \div 2 + 1, Len(cache)) ELSE cache
  IN IF Cached(CacheKey(ids)) THEN cache
     ELSE Append(kept, [key |-> CacheKey(ids), text |-> Text(ids)])

\* get_or_create_state.
StateOf(r) == IF r \in DOMAIN states THEN states[r] ELSE NewState

\* The states with those of new put in.
StatesWith(new) ==
  [r \in DOMAIN new \cup DOMAIN states |-> IF r \in DOMAIN new THEN new[r] ELSE states[r]]

Open(r) == r \notin flushed /\ Len(StateOf(r).token_ids) < MaxDecoded

\* decode: one request, through the cache.
Decode(r, t) ==
  LET ids == Append(StateOf(r).token_ids, t)
      new == Accept(StateOf(r), t, CacheText(ids))
  IN /\ Open(r)
     /\ states' = StatesWith([q \in {r} |-> new])
     /\ cache' = IF StateOf(r).finished THEN cache ELSE CacheAfter(ids)
     /\ sent' = [sent EXCEPT ![r] = @ \o Delta(StateOf(r), new)]
     /\ UNCHANGED flushed

\* decode_batch: different requests, decoded together without the cache.
DecodeBatch(toks) ==
  LET new == [r \in DOMAIN toks |->
                Accept(StateOf(r), toks[r], Text(Append(StateOf(r).token_ids, toks[r])))]
  IN /\ \A r \in DOMAIN toks : Open(r)
     /\ states' = StatesWith(new)
     /\ sent' = [r \in Requests |-> IF r \in DOMAIN toks
                                      THEN sent[r] \o Delta(StateOf(r), new[r]) ELSE sent[r]]
     /\ UNCHANGED <<cache, flushed>>

\* flush.
Flush(r) ==
  /\ r \in DOMAIN states
  /\ LET ids == states[r].token_ids
         new == Flushed(states[r], CacheText(ids))
     IN /\ states' = [states EXCEPT ![r] = new]
        /\ cache' = IF ids = << >> THEN cache ELSE CacheAfter(ids)
        /\ sent' = [sent EXCEPT ![r] = @ \o Delta(states[r], new)]
  /\ flushed' = flushed \cup {r}

\* cleanup; the next token given for r starts over.
Cleanup(r) ==
  /\ r \in DOMAIN states
  /\ states[r].finished \/ r \in flushed
  /\ states' = [q \in DOMAIN states \ {r} |-> states[q]]
  /\ sent' = [sent EXCEPT ![r] = << >>]
  /\ flushed' = flushed \ {r}
  /\ UNCHANGED cache

\* clear_cache.
ClearCache == cache' = << >> /\ UNCHANGED <<states, sent, flushed>>

DecoderNext ==
  \/ \E r \in Requests, t \in TokenIds : Decode(r, t)
  \/ \E R \in SUBSET Requests : \E toks \in [R -> TokenIds] : DecodeBatch(toks)
  \/ \E r \in Requests : Flush(r) \/ Cleanup(r)
  \/ ClearCache

---------------------------------------------------------------------------
DecoderTypeOK ==
  /\ DOMAIN states \subseteq Requests
  /\ \A r \in DOMAIN states :
       /\ states[r].token_ids \in Seq(TokenIds) /\ Len(states[r].token_ids) <= MaxDecoded
       /\ states[r].read_offset \in 0..Len(states[r].token_ids)
  /\ sent \in [Requests -> Seq({"x", "c", REPLACEMENT_CHAR})]
  /\ flushed \subseteq DOMAIN states

\* What has been handed out for a request is never taken back: it is a prefix of
\* the decode of all its tokens, now that more of them are known, and read_offset
\* and output_text say how far it goes.
SentIsPrefix ==
  \A r \in DOMAIN states :
    /\ sent[r] = SubSeq(Text(states[r].token_ids), 1, states[r].read_offset)
    /\ sent[r] = states[r].output_text
    /\ Len(sent[r]) = states[r].read_offset

\* Nothing but a possibly incomplete character waits: the text held back is only
\* replacement characters at the end, and none once the request has ended.
HeldBackIsIncomplete ==
  \A r \in DOMAIN states :
    LET text == Text(states[r].token_ids)
    IN /\ \A i \in (states[r].read_offset + 1)..Len(text) : text[i] = REPLACEMENT_CHAR
       /\ states[r].finished \/ r \in flushed => states[r].read_offset = Len(text)

\* The cache stays within its size (but for a size of 1, half of which is 0), and
\* is transparent: what it returns is the text of the tokens asked for.
CacheTransparent ==
  /\ Len(cache) <= CacheSize \/ CacheSize = 1
  /\ \A r \in DOMAIN states : CacheText(states[r].token_ids) = Text(states[r].token_ids)
  /\ \A i, j \in DOMAIN cache : cache[i].key = cache[j].key => i = j
=============================================================================
