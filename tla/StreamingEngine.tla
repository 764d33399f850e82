-------------------------- MODULE StreamingEngine --------------------------
(***************************************************************************)
(* From sampled tokens to the text a caller gets: LLMEngine.generate,      *)
(* stream_generate and _process_step_result (engine/llm_engine.py) with    *)
(* the decoder states of IncrementalDecoder.  What the scheduler does is   *)
(* any launch of unfinished requests, with at most one earlier batch whose *)
(* result is still to come, and any retraction; OverlapEngine has the      *)
(* detail.  The decode cache is left out: IncrementalDecoder shows that it *)
(* changes no text.                                                        *)
(***************************************************************************)
EXTENDS DetokenizerOps, FiniteSets, TLC

CONSTANTS Requests,
          MaxTokens,    \* sampling_params.max_tokens
          MaxRetracts   \* bound: retractions

ASSUME StreamingAssumption == MaxTokens \in Nat \ {0} /\ MaxRetracts \in Nat

VARIABLES
  ignore_eos,   \* requests with sampling_params.ignore_eos
  caller,       \* who steps the engine: "none", "stream", "generate"
  streaming,    \* _streaming
  req,          \* the fields of every Req
  records,      \* batches launched whose results are to come, oldest first
  states,       \* detokenizer._states
  delivered,    \* history: text of the RequestOutputs of each request
  undecoded     \* history: requests with a token that stream_generate did not decode

svars == <<ignore_eos, caller, streaming, req, records, states, delivered, undecoded>>

Idle == [state |-> "new", output_ids |-> << >>, is_retracted |-> FALSE, ever_retracted |-> FALSE]

StreamingInit ==
  /\ ignore_eos \in SUBSET Requests
  /\ caller = "none" /\ streaming = FALSE
  /\ req = [r \in Requests |-> Idle]
  /\ records = << >> /\ states = << >>
  /\ delivered = [r \in Requests |-> << >>]
  /\ undecoded = {}

Live == {r \in Requests : req[r].state = "live"}
Done == {r \in Requests : req[r].state = "done"}

Finished == Live = {} /\ records = << >>

\* add_requests, by generate or by stream_generate.  generate may be called while
\* the caller holds a generator of stream_generate that is not exhausted.
Add(R) == req' = [r \in Requests |-> IF r \in R THEN [req[r] EXCEPT !.state = "live"] ELSE req[r]]

Start(R, who) ==
  /\ R # {} /\ \A r \in R : req[r].state = "new"
  /\ Add(R)
  /\ caller' = who
  /\ streaming' = (streaming \/ who = "stream")
  /\ UNCHANGED <<ignore_eos, records, states, delivered, undecoded>>

StreamGenerate(R) == caller = "none" /\ ~streaming /\ Start(R, "stream")
Generate(R)       == caller \in {"none", "stream"} /\ Start(R, "generate")

\* generate returns, or the generator is exhausted or closed half-way, when the
\* requests it has not finished stay in the scheduler.
Return ==
  /\ \/ caller = "generate" /\ Finished /\ UNCHANGED streaming
     \/ streaming /\ caller # "generate" /\ streaming' = FALSE
  /\ caller' = "none"
  /\ UNCHANGED <<ignore_eos, req, records, states, delivered, undecoded>>

\* schedule and run_batch_async: a batch of requests, one result still to come.
Launch(b) ==
  /\ caller # "none"
  /\ b # << >> /\ Len(records) <= 1
  /\ Range(b) \subseteq Live
  /\ records' = Append(records, b)
  /\ UNCHANGED <<ignore_eos, caller, streaming, req, states, delivered, undecoded>>

\* _check_decode_mem: back to the waiting queue, the output dropped.
Retract(r) ==
  /\ caller # "none" /\ Len(records) <= 1
  /\ r \in Live
  /\ req[r].output_ids # << >> \/ \E i \in DOMAIN records : r \in Range(records[i])
  /\ Cardinality({q \in Requests : req[q].ever_retracted}) < MaxRetracts
  /\ req' = [req EXCEPT ![r].output_ids = << >>, ![r].is_retracted = TRUE,
                        ![r].ever_retracted = TRUE]
  /\ UNCHANGED <<ignore_eos, caller, streaming, records, states, delivered, undecoded>>

\* Requests of a record that its result no longer concerns.
Skips(r) == req[r].state = "done" \/ req[r].is_retracted

IsEos(r, t) == t = "eos" /\ r \notin ignore_eos

\* Mutant of AfterToken: no flush when the request ends.
AfterTokenNoFlush(st, r, t, ends) == Accept(st, t, Text(Append(st.token_ids, t)))

\* decode_batch and, for a request that ends, flush.
AfterToken(st, r, t, ends) ==
  LET new == Accept(st, t, Text(Append(st.token_ids, t)))
  IN IF ends THEN Flushed(new, Text(new.token_ids)) ELSE new

\* Mutant of CleanedUp: the states of requests that end are kept.
CleanedUpRetracted(ends, gone) == gone

\* Requests whose decoder state is dropped: those that end and those retracted.
CleanedUp(ends, gone) == ends \cup gone

\* _process_step_result for the oldest record, toks being its tokens.  Without
\* streaming nothing is decoded here; generate decodes all tokens at the end.
ProcessStepResult(toks) ==
  LET rec   == Range(Head(records))
      gets  == {r \in rec : ~Skips(r)}
      gone  == {r \in rec : req[r].is_retracted /\ req[r].state # "done"}
      out   == [r \in gets |-> Append(req[r].output_ids, toks[r])]
      ends  == {r \in gets : IsEos(r, toks[r]) \/ Len(out[r]) >= MaxTokens}
      old   == [r \in gets |-> IF r \in DOMAIN states THEN states[r] ELSE NewState]
      new   == [r \in gets |->
                  IF streaming THEN AfterToken(old[r], r, toks[r], r \in ends)
                  ELSE IF r \in ends THEN Flushed(old[r], Text(old[r].token_ids))
                  ELSE old[r]]
      known == DOMAIN states \cup (IF streaming THEN gets ELSE {})
  IN /\ caller # "none" /\ records # << >>
     /\ records' = Tail(records)
     /\ req' = [r \in Requests |->
          IF r \in gets THEN [req[r] EXCEPT !.output_ids = out[r],
                                !.state = IF r \in ends THEN "done" ELSE @]
          ELSE IF r \in gone THEN [req[r] EXCEPT !.is_retracted = FALSE]
          ELSE req[r]]
     /\ states' = [r \in known \ CleanedUp(ends, gone) |->
                     IF r \in gets THEN new[r] ELSE states[r]]
     /\ delivered' = [r \in Requests |->
          IF r \in gets THEN delivered[r] \o Delta(old[r], new[r]) ELSE delivered[r]]
     /\ undecoded' = IF streaming THEN undecoded ELSE undecoded \cup gets
     /\ UNCHANGED <<ignore_eos, caller, streaming>>

StreamingNext ==
  \/ \E R \in SUBSET Requests : StreamGenerate(R) \/ Generate(R)
  \/ Return
  \/ \E R \in SUBSET Requests : \E b \in SetToSeqs(R) : Launch(b)
  \/ \E r \in Requests : Retract(r)
  \/ records # << >> /\ \E toks \in [Range(Head(records)) -> TokenIds] : ProcessStepResult(toks)

---------------------------------------------------------------------------
StreamingTypeOK ==
  /\ ignore_eos \subseteq Requests
  /\ caller \in {"none", "stream", "generate"} /\ streaming \in BOOLEAN
  /\ \A r \in Requests : /\ req[r].output_ids \in Seq(TokenIds)
                         /\ Len(req[r].output_ids) <= MaxTokens
  /\ Len(records) <= 2 /\ \A i \in DOMAIN records : IsInjective(records[i])
  /\ \A r \in DOMAIN states : states[r].token_ids \in Seq(TokenIds)

IgnoredEos(r) == r \in ignore_eos /\ "eos" \in Range(Front(req[r].output_ids))

\* The text streamed for a request is the text of its tokens: the deltas of a
\* finished request, put together, are the decode of all it generated - for
\* requests that were never retracted, whose EOS ended them.
StreamedIsOutput ==
  \A r \in Done \ undecoded :
    ~req[r].ever_retracted /\ ~IgnoredEos(r) => delivered[r] = Text(req[r].output_ids)

\* A decoder state belongs to an unfinished request and has seen no token that is
\* not in its output: none is left behind by a finished request, by a result that
\* came late, or by the output a retraction dropped.
StatesAreCurrent ==
  \A r \in DOMAIN states :
    /\ r \in Live
    /\ ~req[r].is_retracted /\ r \notin undecoded /\ ~IgnoredEos(r) /\ ~states[r].finished
         => states[r].token_ids = req[r].output_ids
=============================================================================
