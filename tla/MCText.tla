------------------------------- MODULE MCText -------------------------------
(***************************************************************************)
(* The text path for TLC.  Every behaviour runs one of its three parts,    *)
(* chosen at the start: the prompt tokenizer, the decoder on its own, as   *)
(* its documentation says it is driven, or the engine's callers with the   *)
(* decoder inside.                                                         *)
(***************************************************************************)
EXTENDS StreamingEngine, PromptTokenizer

CONSTANTS r1, r2, p1, p2, p3, CacheSize, MaxDecoded

ASSUME DecoderAssumption == CacheSize \in Nat \ {0} /\ MaxDecoded \in Nat

VARIABLES part, cache, sent, flushed

D == INSTANCE IncrementalDecoder

vars == <<svars, part, cache, sent, flushed, lru, answer, recency>>

Init ==
  /\ part \in {"tokenizer", "decoder", "engine"}
  /\ StreamingInit /\ D!DecoderInit /\ TokenizerInit
  /\ part # "engine" => ignore_eos = {}

Next ==
  /\ UNCHANGED part
  /\ \/ /\ part = "tokenizer" /\ TokenizerNext
        /\ UNCHANGED <<svars, cache, sent, flushed>>
     \/ /\ part = "decoder" /\ D!DecoderNext
        /\ UNCHANGED <<ignore_eos, caller, streaming, req, records, delivered, undecoded,
                       lru, answer, recency>>
     \/ /\ part = "engine" /\ StreamingNext
        /\ UNCHANGED <<cache, sent, flushed, lru, answer, recency>>

Spec == Init /\ [][Next]_vars

Symmetry == Permutations(Requests) \cup Permutations(Prompts)

\* Each property of a part, where that part runs.
PromptsAnswered      == AnswersInOrder /\ LeastRecentlyUsed
DeltasAreWhole       == part = "decoder" => D!SentIsPrefix /\ D!HeldBackIsIncomplete
CacheTransparent     == part = "decoder" => D!DecoderTypeOK /\ D!CacheTransparent
StatesCurrent        == part = "engine" => StreamingTypeOK /\ StatesAreCurrent
=============================================================================
