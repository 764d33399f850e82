---------------------------- MODULE KVWorkloads -----------------------------
(***************************************************************************)
(* KVCacheManager under a workload, chosen at the start: what the callers  *)
(* of the manager do and do not do.  Every workload refines KVCacheManager,*)
(* whose callers do anything.                                              *)
(***************************************************************************)
EXTENDS KVCacheManager

CONSTANT Workloads   \* those a behaviour may have

VARIABLE workload

Unrestricted == [in_page |-> FALSE, tail |-> FALSE, retracts |-> TRUE]
Sound        == [in_page |-> TRUE,  tail |-> TRUE,  retracts |-> TRUE]
AnyDecode    == [in_page |-> FALSE, tail |-> TRUE,  retracts |-> FALSE]

\* in_page: no decode adds the first or the second token of a page, what almost every
\* step of a workload with page_size = 256 does.
DecodeInPage == workload.in_page => \A r \in Running : req[r].seq_len % PageSize >= 2

\* tail: the last token has its KV index when the request is released, as when it ends
\* with EOS while its next forward pass is already under way.
TailWritten(r) == workload.tail => req[r].seq_len >= Len(req[r].tokens)

WorkloadInit == Init /\ workload \in Workloads

WorkloadNext ==
  /\ UNCHANGED workload
  /\ \/ \E r \in Requests : PrefixForWaitingReq(r)
     \/ \E b \in {<<r>> : r \in Requests} \cup (Requests \X Requests) :
          IsInjective(b) /\ PrepareForExtend(b)
     \/ DecodeInPage /\ PrepareForDecode
     \/ \E r \in Requests, t \in Tokens : AppendOutputToken(r, t)
     \/ \E r \in Requests : TailWritten(r) /\ UpdateFinished(r)
     \/ workload.retracts /\ running # << >> /\ TailWritten(Last(running)) /\ Retract

WorkloadSpec == WorkloadInit /\ [][WorkloadNext]_<<vars, workload>>

---------------------------------------------------------------------------
\* Under the sound workload every page of the pool is in one place (free list, tree, or
\* one request's own), so that no release gives away or loses a page of another request.
PagesOnePlace == workload = Sound => OnePlace

\* Under the sound workload the row of a running request is a table the attention
\* backends can read: whole pages in order, the last one filled from its start.
RowsLaidOut == workload = Sound => RowLayout
=============================================================================
