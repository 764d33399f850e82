--------------------------- MODULE ChunkedPrefill ---------------------------
(***************************************************************************)
(* Chunked prefill (enable_chunked_prefill, off by default): the budget of *)
(* prefill_adder.py with a chunk size, the chunking queue of the scheduler *)
(* and batches that mix chunks with decodes, under the overlapped engine,  *)
(* which processes a result before the next schedule or after it.          *)
(*                                                                         *)
(* Prompts share no prefix.  A row holds the first tokens of a prompt, so  *)
(* a length stands for them.  Three things end a behaviour: rows or pages  *)
(* are short (the code raises, or retracts: see OverlapEngine), a request  *)
(* is cut a second time (scheduler.py:347 and 415 both keep it, so that it *)
(* is in the next batch twice), and a chunk with fewer tokens than its     *)
(* extend length (the positions are built from the one, the inputs from    *)
(* the other).                                                             *)
(***************************************************************************)
EXTENDS Integers, FiniteSetsExt, SequencesExt

CONSTANTS Requests,
          PromptOf,      \* request -> len(origin_input_ids)
          MaxNew,        \* request -> max_tokens, below CLIP_MAX_NEW_TOKENS
          PageSize,
          Pools,         \* how many pages a pool may have
          ChunkSize,     \* chunked_prefill_size
          MaxExtendLen, MaxBatchSize,
          Orders         \* the waiting queues to start with

VARIABLES
  num_pages,  \* pages of the pool
  pc,         \* where the host is in step_overlap
  queue,      \* waiting_queue
  chunking,   \* chunking_reqs, each [req, cached_len, chunk_size]
  live,       \* running_batch.reqs
  lens,       \* running_batch.seq_lens
  mixed,      \* this step's batch: its requests, and the tokens it prefills, in whole pages
  record,     \* the batches whose results are to come
  fields,         \* the fields of every Req
  lost        \* history: pages and rows nobody gives back

cvars == <<num_pages, pc, queue, chunking, live, lens, mixed, record, fields, lost>>

NoBatch == [reqs |-> << >>, prefilled |-> 0]

\* fill is len(fill_ids), extend is extend_input_len; prompt and kv count the tokens
\* of the prompt, and all tokens, whose KV the request's row holds.
NewReq(r) == [fill |-> PromptOf[r], extend |-> 0, is_chunked |-> FALSE, has_row |-> FALSE,
              pages |-> 0, prompt |-> 0, kv |-> 0, output |-> 0, finished |-> FALSE]

ChunkedInit ==
  /\ num_pages \in Pools
  /\ pc = "begin" /\ queue \in Orders /\ chunking = << >> /\ live = << >> /\ lens = << >>
  /\ mixed = NoBatch /\ record = << >>
  /\ fields = [r \in Requests |-> NewReq(r)] /\ lost = [pages |-> 0, rows |-> 0]

Least(a, b) == IF a < b THEN a ELSE b
Floor(n)    == (n \div PageSize) * PageSize
Ceil(n)     == Floor(n + PageSize - 1)
SumOf(f, S) == FoldFunctionOnSet(+, 0, f, S)

FreePages == num_pages - lost.pages - SumOf([r \in Requests |-> fields[r].pages], Requests)
FreeRows  == MaxBatchSize - lost.rows - Cardinality({r \in Requests : fields[r].has_row})
---------------------------------------------------------------------------
(* The budget.  An adder has what is left of each budget, the requests it  *)
(* took with their extend lengths, those it cut, and what it left waiting. *)

NewAdder(reqs) ==
  [total |-> FreePages * PageSize
               - SumOf([r \in Requests |-> MaxNew[r] - fields[r].output], ToSet(reqs)),
   cur |-> FreePages * PageSize, input |-> MaxExtendLen, chunk |-> ChunkSize,
   takes |-> << >>, cut |-> {}, rest |-> << >>, closed |-> FALSE]

HasBudget(a) == a.total > 0 /\ a.cur > 0 /\ a.input > 0 /\ a.chunk > 0

\* Mutant of Spend: a chunk is not taken off the chunk budget.
SpendUnchunked(a, r, n, new) ==
  [a EXCEPT !.total = @ - Ceil(n) - new, !.cur = @ - Ceil(n), !.input = @ - Ceil(n),
            !.takes = Append(@, [req |-> r, extend |-> n])]

\* can_run_list.append and _update_prefill_budget, for n tokens and "new" to come.
Spend(a, r, n, new) ==
  [a EXCEPT !.total = @ - Ceil(n) - new, !.cur = @ - Ceil(n), !.input = @ - Ceil(n),
            !.chunk = @ - Ceil(n), !.takes = Append(@, [req |-> r, extend |-> n])]

\* _do_chunked_prefill of n tokens out of the whole prompt.
Cut(a, r, n) ==
  IF n < PromptOf[r] THEN [Spend(a, r, n, 0) EXCEPT !.cut = @ \cup {r}]
  ELSE Spend(a, r, n, MaxNew[r])

\* The chunk that fits when the total budget does not cover the request: at most the
\* prompt less a page.
BudgetChunk(a, r) ==
  LET n == Floor(Least(Least(Floor(a.total - 1), PromptOf[r]), a.chunk))
  IN IF n >= PromptOf[r] THEN n - PageSize ELSE n

Wait(a, r)  == [a EXCEPT !.rest = Append(@, r)]
Close(a, r) == [Wait(a, r) EXCEPT !.closed = TRUE]

\* try_add_prefill, and what the scheduler does with its answer.
TryAdd(a, r, slots) ==
  LET n == PromptOf[r]
  IN CASE a.closed \/ ~HasBudget(a) \/ Len(a.takes) >= slots -> Wait(a, r)
       [] n + MaxNew[r] > a.total ->
            IF BudgetChunk(a, r) < PageSize THEN Close(a, r) ELSE Cut(a, r, BudgetChunk(a, r))
       [] n + MaxNew[r] <= a.total /\ Ceil(n) >= a.input /\ a.takes # << >> -> Wait(a, r)
       [] Ceil(n) <= a.chunk -> Spend(a, r, n, MaxNew[r])
       [] OTHER -> IF Floor(a.chunk) <= 0 THEN Wait(a, r) ELSE Cut(a, r, Floor(a.chunk))

\* Tokens of the prompt a chunk leaves to be done, by the lengths its ChunkedReq has.
Remaining(c) == PromptOf[c.req] - c.cached_len - c.chunk_size

\* add_chunked_req: a request already cut is taken whatever is left of the budget.
AddChunked(a, c) ==
  LET left == Least(a.total, a.chunk)
      room == IF left > 0 THEN left ELSE IF a.chunk > 0 THEN a.chunk ELSE PageSize
      n    == Least(Remaining(c), room)
  IN IF Remaining(c) > room THEN [Spend(a, c.req, n, 0) EXCEPT !.cut = @ \cup {c.req}]
     ELSE Spend(a, c.req, n, MaxNew[c.req])

\* _get_new_batch_prefill up to the batch: the continuing chunks, then the queue.
Adder(reqs) ==
  IF ~HasBudget(NewAdder(reqs)) THEN [NewAdder(reqs) EXCEPT !.rest = queue]
  ELSE FoldLeft(LAMBDA a, r : TryAdd(a, r, MaxBatchSize - Len(reqs)),
                FoldLeft(AddChunked, NewAdder(reqs), chunking), queue)

\* all_extend_reqs: new prompts taken whole, continuing chunks, new chunks.
ExtendReqs(a) ==
  LET all == [i \in DOMAIN a.takes |-> a.takes[i].req]
      k   == IF all = << >> THEN 0 ELSE Len(chunking)
      new == SubSeq(all, k + 1, Len(all))
  IN SelectSeq(new, LAMBDA r : r \notin a.cut) \o SubSeq(all, 1, k)
       \o SelectSeq(new, LAMBDA r : r \in a.cut)
---------------------------------------------------------------------------
(* The step.                                                                *)

\* _process_step_result: a request that is a chunk when its result comes reports
\* nothing and leaves its row; its pages go nowhere, for the tree got no node for them.
Processed(rec, eos) ==
  [r \in Requests |->
     IF r \notin ToSet(rec) THEN fields[r]
     ELSE IF fields[r].is_chunked
       THEN [fields[r] EXCEPT !.fill = PromptOf[r], !.has_row = FALSE, !.pages = 0]
     ELSE IF fields[r].finished THEN fields[r]
     ELSE [fields[r] EXCEPT !.output = @ + 1,
                            !.finished = r \in eos \/ fields[r].output + 1 >= MaxNew[r]]]

LostIn(rec) ==
  [lost EXCEPT !.pages = @ + SumOf([r \in Requests |-> fields[r].pages],
                                   {r \in ToSet(rec) : fields[r].is_chunked})]

\* Phases 1 and 2: the placeholders of the running requests will do unless one of
\* them may be about to end; otherwise the result is processed first.
CanUsePlaceholder ==
  live # << >> /\ \A r \in ToSet(live) : fields[r].finished \/ fields[r].output + 1 < MaxNew[r]

Begin ==
  /\ pc = "begin" /\ pc' = "schedule"
  /\ \/ /\ CanUsePlaceholder \/ record = << >>
        /\ UNCHANGED <<record, fields, lost>>
     \/ /\ ~CanUsePlaceholder /\ record # << >>
        /\ \E eos \in SUBSET ToSet(Head(record)) : fields' = Processed(Head(record), eos)
        /\ lost' = LostIn(Head(record)) /\ record' = Tail(record)
  /\ UNCHANGED <<queue, chunking, live, lens, mixed>>

Kept == SelectSeq([i \in 1..Len(live) |-> i], LAMBDA i : ~fields[live[i]].finished)

\* _filter_batch of the requests, and of their lengths.
KeptReqs == [j \in DOMAIN Kept |-> live[Kept[j]]]
KeptLens == [j \in DOMAIN Kept |-> lens[Kept[j]]]

\* A request after add_chunked_req or try_add_prefill took n tokens of it: its
\* fill_ids are cut, off whatever they were.
Taken(r, a) ==
  LET n == (CHOOSE t \in ToSet(a.takes) : t.req = r).extend
  IN [fields[r] EXCEPT !.extend = n, !.fill = Least(@, n), !.is_chunked = r \in a.cut]

\* prepare_for_mixed, prepare_for_extend and prepare_for_decode: a page behind each
\* first token of one, a row and pages for each prompt or chunk; lengths grow by one.
Prepared(a, reqs, ls) ==
  [r \in Requests |->
     IF \E t \in ToSet(a.takes) : t.req = r
       THEN LET q == Taken(r, a)
            IN [q EXCEPT !.has_row = TRUE, !.pages = Ceil(q.fill) \div PageSize,
                         !.prompt = q.fill, !.kv = q.fill]
     ELSE IF r \in ToSet(reqs)
       THEN LET i == CHOOSE j \in DOMAIN reqs : reqs[j] = r
            IN [fields[r] EXCEPT !.kv = @ + 1, !.pages = IF ls[i] % PageSize = 1 THEN @ + 1 ELSE @]
     ELSE fields[r]]

\* schedule: chunks and new prompts with the running requests, or else those alone.
Schedule ==
  LET reqs  == KeptReqs
      a     == Adder(reqs)
      taken == ExtendReqs(a)
      again == a.cut \cap {chunking[i].req : i \in DOMAIN chunking}
      new   == Prepared(a, reqs, KeptLens)
      stale == {r \in ToSet(taken) : fields[r].has_row}
      cut   == SelectSeq(taken, LAMBDA r : r \in a.cut)
      ready == SelectSeq(taken, LAMBDA r : ~new[r].is_chunked)
      kept  == [r \in Requests |-> IF r \in stale THEN 0 ELSE fields[r].pages]
      short == \/ SumOf([r \in Requests |-> new[r].pages - kept[r]], Requests) > FreePages
               \/ Len(taken) > FreeRows
  IN /\ pc = "schedule"
     /\ queue' = a.rest
     /\ chunking' = IF taken = << >> THEN chunking
                    ELSE [i \in DOMAIN cut |-> [req |-> cut[i], cached_len |-> 0,
                                                chunk_size |-> new[cut[i]].extend]]
     /\ IF again # {} \/ short \/ \E r \in ToSet(taken) : new[r].fill # new[r].extend
          THEN /\ pc' = IF again # {} THEN "cut again"
                        ELSE IF short THEN "short" ELSE "shapes differ"
               /\ UNCHANGED <<live, lens, mixed, fields, lost>>
          ELSE /\ pc' = "process"
               /\ live' = reqs \o ready
               /\ lens' = [i \in DOMAIN reqs |-> KeptLens[i] + 1]
                            \o [i \in DOMAIN ready |-> new[ready[i]].fill]
               /\ mixed' = [reqs |-> taken \o reqs,
                            prefilled |-> SumOf([r \in Requests |-> Ceil(new[r].fill)],
                                               ToSet(taken))]
               /\ fields' = new
               /\ lost' = [pages |-> lost.pages
                                       + SumOf([r \in Requests |-> fields[r].pages], stale),
                           rows |-> lost.rows + Cardinality(stale)]
     /\ UNCHANGED record

\* Phases 3.5 and 5: a result not processed yet.
Process ==
  /\ pc = "process" /\ pc' = "drain"
  /\ IF record = << >> THEN UNCHANGED <<fields, lost>>
     ELSE /\ \E eos \in SUBSET ToSet(Head(record)) : fields' = Processed(Head(record), eos)
          /\ lost' = LostIn(Head(record))
  /\ record' = IF mixed.reqs = << >> THEN << >> ELSE <<mixed.reqs>>
  /\ UNCHANGED <<queue, chunking, live, lens, mixed>>

\* drain_pending_releases.
DrainReleases ==
  /\ pc = "drain" /\ pc' = "begin"
  /\ fields' = [r \in Requests |->
                  IF fields[r].finished THEN [fields[r] EXCEPT !.has_row = FALSE, !.pages = 0]
                  ELSE fields[r]]
  /\ UNCHANGED <<queue, chunking, live, lens, mixed, record, lost>>

ChunkedNext == UNCHANGED num_pages /\ (Begin \/ Schedule \/ Process \/ DrainReleases)
---------------------------------------------------------------------------
(* Properties.                                                             *)

\* While prompts are chunked, filtered and mixed with decodes, the lengths of the
\* running requests stay in step with the KV in their rows, and a batch prefills no
\* more than the chunk size (the decodes' wait for a step is bounded).
MixedBatchesSound ==
  /\ Len(lens) = Len(live)
  /\ \A i \in DOMAIN live : lens[i] = fields[live[i]].kv
  /\ mixed.prefilled <= ChunkSize

\* What test_memory_pressure.py:21 says, that an input too long is properly split: a
\* request decodes on the KV of its whole prompt.
PromptPrefilled ==
  \A r \in ToSet(live) : ~fields[r].finished => fields[r].prompt = PromptOf[r]
=============================================================================
