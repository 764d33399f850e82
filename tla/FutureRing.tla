----------------------------- MODULE FutureRing -----------------------------
(***************************************************************************)
(* The ring of future slots (engine/future_map.py) under step_overlap.  A  *)
(* launched batch takes the next slots, its sampled tokens are stored in   *)
(* them, and the running batch holds the slot of each request's last token *)
(* until a decode resolves it.  A prefill leaves the old requests' slots   *)
(* where they are, however many prefills run before the next decode.       *)
(*                                                                         *)
(* Stores and resolutions run on one CUDA stream in the order of the       *)
(* launches, so a step is atomic here.  The n-th token of r is <<r, n>>.   *)
(* Memory is ample: nothing is retracted.                                  *)
(***************************************************************************)
EXTENDS Integers, Sequences, FiniteSets

CONSTANTS Requests,
          Arrivals,       \* the requests in the order they come in
          MaxRunning,     \* max_running_requests
          MaxChunks,      \* max_chunks_per_request
          MaxNew          \* max_tokens of each request

ASSUME RingAssumption ==
  /\ Arrivals \in Seq(Requests)
  /\ \A i, j \in DOMAIN Arrivals : Arrivals[i] = Arrivals[j] => i = j
  /\ MaxRunning \in Nat \ {0}
  /\ MaxChunks \in Nat
  /\ MaxNew \in [Requests -> Nat \ {0}]

VARIABLES
  buf,        \* token_ids_buf
  future_ct,
  admitted,   \* how many of Arrivals were prefilled
  running,    \* running_batch.reqs
  slots,      \* running_batch.output_ids without the sign, << >> for None
  pending,    \* result_queue: the requests of the record in it, << >> for none
  sampled,    \* tokens sampled for each request
  processed,  \* len(output_ids) of each request
  finished,
  taken,      \* slots taken since the start
  taken_at    \* what taken was when each running request got its slot

ring  == <<buf, future_ct, taken, taken_at>>
batch == <<running, slots, admitted, sampled>>
rvars == <<ring, batch, pending, processed, finished>>

FutureLimit == MaxRunning * (3 + MaxChunks)
BufferLen   == FutureLimit + 2 * MaxRunning

Unset == <<"unset">>

RingInit ==
  /\ buf = [s \in 0..BufferLen - 1 |-> Unset] /\ future_ct = 0
  /\ admitted = 0 /\ running = << >> /\ slots = << >> /\ pending = << >>
  /\ sampled = [r \in Requests |-> 0] /\ processed = [r \in Requests |-> 0]
  /\ finished = {}
  /\ taken = 0 /\ taken_at = [r \in Requests |-> 0]

\* The requests of a sequence without repetition, and where one of them is.
In(s, r)    == \E i \in DOMAIN s : s[i] = r
Place(s, r) == CHOOSE i \in DOMAIN s : s[i] = r

---------------------------------------------------------------------------
\* alloc_future_indices(n): where the counter goes, and the i-th slot it hands out.
NextCt(n)  == (future_ct + n) % FutureLimit
NewSlot(i) == future_ct + i

\* run_forward_async and run_sample_async of a batch b: its slots, and its tokens
\* in them.  Its own placeholders were resolved before.
Launch(b) ==
  /\ future_ct' = NextCt(Len(b))
  /\ buf' = [s \in DOMAIN buf |->
               IF \E i \in DOMAIN b : s = NewSlot(i)
                 THEN <<b[s - future_ct], sampled[b[s - future_ct]] + 1>>
                 ELSE buf[s]]
  /\ sampled' = [r \in Requests |-> IF In(b, r) THEN sampled[r] + 1 ELSE sampled[r]]
  /\ taken' = taken + Len(b)
  /\ taken_at' = [r \in Requests |-> IF In(b, r) THEN taken + Place(b, r) ELSE taken_at[r]]

\* process_pending_batch: the requests of the record that go on get their token, and
\* end with it if it is EOS or their last.
Ends(eos) == {r \in Requests : /\ In(pending, r) /\ r \notin finished
                               /\ r \in eos \/ processed[r] + 1 >= MaxNew[r]}

Process(eos) ==
  /\ finished' = finished \cup Ends(eos)
  /\ processed' = [r \in Requests |->
       IF In(pending, r) /\ r \notin finished THEN processed[r] + 1 ELSE processed[r]]

---------------------------------------------------------------------------
\* Phase 1 of step_overlap.
CanUsePlaceholder ==
  /\ \A i \in DOMAIN running :
       running[i] \in finished \/ processed[running[i]] + 1 < MaxNew[running[i]]
  /\ running # << >> /\ slots # << >>

\* _filter_batch: the places of running_batch that stay when the requests in done are
\* finished, in their order (the one member of the set).
KeptPlaces(done) ==
  {places \in UNION {[1..n -> DOMAIN running] : n \in 0..Len(running)} :
     /\ \A j, k \in DOMAIN places : j < k => places[j] < places[k]
     /\ \A i \in DOMAIN running : running[i] \notin done <=> In(places, i)}

Selected(s, places) == [j \in DOMAIN places |-> s[places[j]]]

\* Mutant of Propagated: the new requests' slots come first.
PropagatedFirst(old, n, new) ==
  IF Len(old) < n THEN << >> ELSE [i \in 1..Len(new) |-> NewSlot(i)] \o old

\* _propagate_future_to_running_batch: the n requests already running keep the slots
\* in old, if each of them has one.
Propagated(old, n, new) ==
  IF Len(old) < n THEN << >> ELSE old \o [i \in 1..Len(new) |-> NewSlot(i)]

\* What a step sees finished when it schedules: with a placeholder the pending
\* result comes after, else before.
Seen == IF CanUsePlaceholder THEN finished ELSE finished'

\* A step that prefills the next n requests; how many the budget admits is the
\* scheduler's.
StepExtend(n) ==
  LET new == SubSeq(Arrivals, admitted + 1, admitted + n)
  IN /\ \E eos \in SUBSET {pending[i] : i \in DOMAIN pending} : Process(eos)
     /\ admitted + n <= Len(Arrivals)
     /\ \E places \in KeptPlaces(Seen) :
          /\ Len(places) + n <= MaxRunning
          /\ running' = Selected(running, places) \o new
          /\ slots' = Propagated(IF slots = << >> THEN << >> ELSE Selected(slots, places),
                                 Len(places), new)
     /\ Launch(new)
     /\ admitted' = admitted + n
     /\ pending' = new

\* A step that decodes the running batch, from the slots or from output_ids.
StepDecode ==
  /\ \E eos \in SUBSET {pending[i] : i \in DOMAIN pending} : Process(eos)
  /\ \E places \in KeptPlaces(Seen) :
       /\ places # << >>
       /\ running' = Selected(running, places)
       /\ slots' = [i \in DOMAIN places |-> NewSlot(i)]
  /\ Launch(running')
  /\ pending' = running'
  /\ UNCHANGED admitted

\* A step with nothing to run empties the queue.
StepNothing ==
  /\ \E eos \in SUBSET {pending[i] : i \in DOMAIN pending} : Process(eos)
  /\ << >> \in KeptPlaces(Seen)
  /\ running' = << >> /\ slots' = << >> /\ pending' = << >>
  /\ UNCHANGED <<ring, admitted, sampled>>

---------------------------------------------------------------------------
RingNext == \/ \E n \in 1..MaxRunning : StepExtend(n)
            \/ StepDecode
            \/ StepNothing

RingSpec == RingInit /\ [][RingNext]_rvars

---------------------------------------------------------------------------
RingTypeOK ==
  /\ buf \in [0..BufferLen - 1 -> {Unset} \cup (Requests \X Nat)]
  /\ future_ct \in 0..FutureLimit - 1
  /\ admitted \in 0..Len(Arrivals)
  /\ running \in Seq(Requests) /\ Len(running) <= MaxRunning
  /\ slots \in Seq(1..FutureLimit + MaxRunning - 1)
  /\ slots = << >> \/ Len(slots) = Len(running)
  /\ pending \in Seq(Requests)
  /\ sampled \in [Requests -> Nat] /\ processed \in [Requests -> Nat]
  /\ finished \subseteq Requests
  /\ taken \in Nat /\ taken_at \in [Requests -> Nat]

\* The slot of a request that is still running holds its last token, unless so many
\* slots were taken since that the ring has come round: as many as future_limit
\* (future_map.py:61-64).
SlotHoldsLast ==
  \A i \in DOMAIN slots :
    LET r == running[i]
    IN buf[slots[i]] = <<r, sampled[r]>> \/ taken - taken_at[r] >= FutureLimit

SlotsHoldLast == RingTypeOK /\ SlotHoldsLast
=============================================================================
