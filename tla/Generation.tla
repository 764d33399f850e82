----------------------------- MODULE Generation -----------------------------
(***************************************************************************)
(* What the engine promises the caller of generate, stream_generate and    *)
(* submit_request (engine/llm_engine.py, RequestOutput): every request     *)
(* gets its tokens in order, one at a time, until one of them is EOS or    *)
(* max_tokens is reached, and nothing after that.  How the requests are    *)
(* batched, and which forward pass is in flight, is not visible.           *)
(***************************************************************************)
EXTENDS Integers, Sequences

CONSTANTS Requests, MaxTokens

VARIABLES output,    \* request -> tokens it has reported
          finished   \* request -> has it ended

vars == <<output, finished>>

Init == output = [r \in Requests |-> << >>] /\ finished = [r \in Requests |-> FALSE]

\* One result: the requests S of a batch report their next token, and those of S
\* in ended, or at their limit, end.
Report(S, ended) ==
  /\ \A r \in S : ~finished[r]
  /\ output' = [r \in Requests |->
       IF r \in S THEN Append(output[r], <<r, Len(output[r]) + 1>>) ELSE output[r]]
  /\ finished' = [r \in Requests |->
       finished[r] \/ (r \in S /\ (r \in ended \/ Len(output[r]) + 1 = MaxTokens[r]))]

Next == \E S \in SUBSET Requests : \E ended \in SUBSET S : Report(S, ended)

Spec == Init /\ [][Next]_vars
=============================================================================
