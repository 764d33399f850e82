--------------------------- MODULE OverlapEngine ---------------------------
(***************************************************************************)
(* The overlapped engine: LLMEngine.step_overlap with the scheduler it     *)
(* calls (scheduler/scheduler.py) and OverlapExecutor, which hold one      *)
(* forward pass in flight while the host processes the one before.  One    *)
(* action per phase of step_overlap, run by one thread; requests also come *)
(* in through submit_request from other threads at any moment.             *)
(*                                                                         *)
(* The n-th token a request samples is <<r, n>>.  A forward pass feeds a   *)
(* request its last token and samples the next; what it fed is the KV of   *)
(* the request behind its prompt.  A placeholder in output_ids stands for  *)
(* the token its FutureMap slot will hold, the slots being enough.         *)
(*                                                                         *)
(* KV memory is counted in pages, with nothing shared between requests (as *)
(* with enable_prefix_cache off): a request holds the pages allocated for  *)
(* it and releases them all.  Which pages these are is in KVCacheManager.  *)
(* Overlap is on and chunked prefill off, the defaults.                    *)
(***************************************************************************)
EXTENDS PrefillBudget

CONSTANTS Requests,
          NumPages,    \* pages of the KV cache
          MaxNumSeqs,  \* max_num_seqs: rows of the request pool, and max_batch_size
          Ratios       \* values of new_token_ratio, in percent

ASSUME EngineAssumption ==
  /\ IsFiniteSet(Requests)
  /\ PageSize \in Nat /\ PageSize > 1
  /\ NumPages \in Nat /\ MaxNumSeqs \in Nat /\ MaxExtendLen \in Nat
  /\ PromptLen \in [Requests -> Nat \ {0}]
  /\ MaxTokens \in [Requests -> Nat \ {0}]
  /\ Ratios \subseteq 0..100

VARIABLES
  pc,                   \* phase of step_overlap, "idle" outside, or what was raised
  fresh,                \* requests nobody has sent yet
  submitted,            \* LLMEngine._pending_requests
  waiting,              \* Scheduler.waiting_queue
  running,              \* running_batch.reqs
  seq_lens,             \* running_batch.seq_lens_cpu
  output_ids,           \* running_batch.output_ids, << >> for None
  can_use_placeholder,  \* path of this step
  batch,                \* what schedule() returned in this step
  last_extend,          \* _last_batch is an EXTEND batch
  result_queue,         \* OverlapExecutor.result_queue
  pinned,               \* cpu_next_token_ids_buf
  pending_release,      \* Scheduler.pending_release_reqs
  free_pages,           \* number of pages the allocator has left
  req                   \* the fields of every Req, and its KV

sched == <<waiting, running, seq_lens, output_ids, free_pages>>
exec  == <<result_queue, pinned>>
vars  == <<pc, fresh, submitted, can_use_placeholder, batch, last_extend,
           pending_release, req, sched, exec>>

NewReq == [output_ids |-> << >>, finished |-> FALSE, is_retracted |-> FALSE,
           has_row |-> FALSE, pages |-> 0, kv |-> << >>]

NoBatch == [mode |-> "none", reqs |-> << >>, input |-> << >>, sampled |-> << >>]

Init ==
  /\ pc = "idle" /\ fresh = Requests /\ submitted = << >>
  /\ waiting = << >> /\ running = << >> /\ seq_lens = << >> /\ output_ids = << >>
  /\ free_pages = NumPages
  /\ can_use_placeholder = FALSE /\ batch = NoBatch /\ last_extend = FALSE
  /\ result_queue = << >> /\ pinned = << >> /\ pending_release = << >>
  /\ req = [r \in Requests |-> NewReq]

---------------------------------------------------------------------------
\* The elements of s that are in X, in their order.
Among(s, X) == FoldLeft(LAMBDA t, x : IF x \in X THEN Append(t, x) ELSE t, << >>, s)

\* The pages of the requests S, r having n[r] of them.
PagesOf(S, n) == UNION {{r} \X (1..n[r]) : r \in S}

\* The pages the requests S hold, and how many.
Held(S)     == PagesOf(S, [r \in S |-> req[r].pages])
NumHeld(S)  == Cardinality(Held(S))

---------------------------------------------------------------------------
\* generate(prompts): a call adds its requests and then steps until none is left.
Generate(prompts) ==
  /\ pc = "idle"
  /\ waiting' = waiting \o prompts
  /\ fresh' = fresh \ Range(prompts)
  /\ pc' = "recv"
  /\ UNCHANGED <<submitted, running, seq_lens, output_ids, can_use_placeholder, batch,
                 last_extend, exec, pending_release, free_pages, req>>

\* submit_request, from any thread.
Submit(r) ==
  /\ r \in fresh
  /\ fresh' = fresh \ {r}
  /\ submitted' = Append(submitted, r)
  /\ UNCHANGED <<pc, sched, can_use_placeholder, batch, last_extend, exec,
                 pending_release, req>>

\* The next token of r may be its last.
NearMax(r) == Len(req[r].output_ids) + 1 >= MaxTokens[r]

\* Phases 0 and 1.
RecvRequests ==
  LET placeholder == /\ \A r \in Range(running) : req[r].finished \/ ~NearMax(r)
                     /\ running # << >>
                     /\ output_ids # << >>
  IN /\ pc = "recv"
     /\ waiting' = waiting \o submitted
     /\ submitted' = << >>
     /\ can_use_placeholder' = placeholder
     /\ pc' = IF ~placeholder /\ result_queue # << >> THEN "conservative" ELSE "schedule"
     /\ UNCHANGED <<fresh, running, seq_lens, output_ids, batch, last_extend, exec,
                    pending_release, free_pages, req>>

---------------------------------------------------------------------------
\* Mutant of Skipped: the token of a finished request is appended.
SkippedRetracted(r) == req[r].is_retracted

\* Requests of a record that get no token from it.
Skipped(r) == req[r].finished \/ req[r].is_retracted

\* len(req.output_ids) >= req.max_tokens after append_output_token.
AtLimit(r) == Len(req[r].output_ids) + 1 >= MaxTokens[r]

\* process_pending_batch: the oldest record, its tokens read from the pinned
\* buffer; eos are the requests whose token is EOS.
ProcessPending(eos) ==
  LET rec      == Head(result_queue).reqs
      place(r) == CHOOSE i \in DOMAIN rec : rec[i] = r
      gets     == {r \in Range(rec) : ~Skipped(r)}
      ends     == {r \in gets : r \in eos \/ AtLimit(r)}
  IN /\ result_queue' = Tail(result_queue)
     /\ pending_release' = pending_release \o Among(rec, ends)
     /\ req' = [r \in Requests |->
          IF r \in gets
            THEN [req[r] EXCEPT !.output_ids = Append(@, pinned[place(r)]),
                                !.finished = r \in ends]
          ELSE IF r \in Range(rec) /\ ~req[r].finished
            THEN [req[r] EXCEPT !.is_retracted = FALSE]
          ELSE req[r]]
     /\ UNCHANGED <<fresh, submitted, sched, can_use_placeholder, batch, last_extend, pinned>>

Ending == SUBSET Range(Head(result_queue).reqs)

\* Phase 2.
ProcessConservative ==
  /\ pc = "conservative" /\ pc' = "schedule"
  /\ \E eos \in Ending : ProcessPending(eos)

---------------------------------------------------------------------------
\* _filter_batch: the positions of running_batch that stay, and the parallel
\* sequences of the batch restricted to them.
Kept == Among([i \in 1..Len(running) |-> i], {i \in DOMAIN running : ~req[running[i]].finished})

AtKept(s) == LET k == Kept IN [j \in 1..Len(k) |-> s[k[j]]]

\* Mutant of Filtered: the placeholders are cut off behind, as after a retraction.
FilteredStale == [reqs |-> AtKept(running), seq_lens |-> AtKept(seq_lens),
                  output_ids |-> SubSeq(output_ids, 1, Len(Kept))]

Filtered ==
  [reqs |-> AtKept(running), seq_lens |-> AtKept(seq_lens),
   output_ids |-> IF output_ids = << >> THEN << >> ELSE AtKept(output_ids)]

\* _get_new_batch_prefill up to the choice of requests.
Admitted(ratio) ==
  LET reqs == Filtered.reqs
      kept == [i \in DOMAIN reqs |->
                 RunningReserve(reqs[i], Len(req[reqs[i]].output_ids), ratio)]
  IN Admit(waiting, free_pages * PageSize, Total(kept), MaxNumSeqs - Len(reqs))

PromptPages(r)  == CeilPages(PromptLen[r])
BatchPages(b)   == Cardinality(PagesOf(Range(b), [r \in Range(b) |-> PromptPages(r)]))
FreeRows        == MaxNumSeqs - Cardinality({r \in Requests : req[r].has_row})

\* _is_disable_overlap_for_batch: there is no batch, or this and the last are both
\* EXTEND.
DisableOverlap(mode) == mode = "none" \/ (mode = "extend" /\ last_extend)

\* Where step_overlap goes once it has a batch: phase 3.5 first, if overlap is
\* disabled for it and there is a result.
AfterSchedule(mode) ==
  IF DisableOverlap(mode) /\ result_queue # << >> THEN "consecutive" ELSE "launch"

\* Phase 3 with a prefill batch: rows and pages for the admitted requests, which
\* join running_batch.
SchedulePrefill(ratio) ==
  LET a == Admitted(ratio)
      b == a.taken
      f == Filtered
  IN /\ pc = "schedule" /\ b # << >>
     /\ waiting' = a.rest
     /\ output_ids' = f.output_ids
     /\ IF Len(b) > FreeRows \/ BatchPages(b) > free_pages
          THEN /\ pc' = IF Len(b) > FreeRows THEN "no rows" ELSE "no pages for extend"
               /\ running' = f.reqs /\ seq_lens' = f.seq_lens
               /\ UNCHANGED <<free_pages, req, batch>>
          ELSE /\ running' = f.reqs \o b
               /\ seq_lens' = f.seq_lens \o [i \in DOMAIN b |-> PromptLen[b[i]]]
               /\ free_pages' = free_pages - BatchPages(b)
               /\ req' = [r \in Requests |->
                            IF r \in Range(b)
                              THEN [req[r] EXCEPT !.has_row = TRUE, !.pages = PromptPages(r)]
                              ELSE req[r]]
               /\ batch' = [NoBatch EXCEPT !.mode = "extend", !.reqs = b]
               /\ pc' = AfterSchedule("extend")
     /\ UNCHANGED <<fresh, submitted, can_use_placeholder, last_extend, exec, pending_release>>

\* _check_decode_mem: pages it wants for the first k requests, and the one k it can
\* keep: requests are popped from the tail, their pages with them, until it fits.
Wanted(f, k) == Cardinality({i \in 1..k : f.seq_lens[i] % PageSize = 0})

PagesBehind(f, k) == NumHeld(Range(SubSeq(f.reqs, k + 1, Len(f.reqs))))

KeptByMem(f) ==
  LET fits(j) == free_pages + PagesBehind(f, j) >= Wanted(f, j)
  IN {k \in 0..Len(f.reqs) : (k = 0 \/ fits(k)) /\ \A j \in (k + 1)..Len(f.reqs) : ~fits(j)}

\* current_seq_len, which _rebuild_running_batch_metadata puts into seq_lens.
CurrentSeqLen(r) == PromptLen[r] + Len(req[r].output_ids)

\* running_batch after _check_decode_mem has kept its first k requests.
Retained(f, k) ==
  IF k = Len(f.reqs)
    THEN f
    ELSE [reqs |-> SubSeq(f.reqs, 1, k),
          seq_lens |-> [i \in 1..k |-> CurrentSeqLen(f.reqs[i])],
          output_ids |-> SubSeq(f.output_ids, 1, IF k < Len(f.output_ids) THEN k ELSE Len(f.output_ids))]

\* Positions for which alloc_pages_decode takes a page.  It is handed the lengths
\* from before seq_lens.add_(1), and opens a page behind one more token.
Grown(f) == {i \in DOMAIN f.seq_lens : f.seq_lens[i] % PageSize = 1}

\* A request after its retraction.
Retracted(r) == [NewReq EXCEPT !.is_retracted = TRUE]

\* The decode batch of the first k requests of f, the others being retracted.
Decode(f, k) ==
  LET kept   == Retained(f, k)
      out    == SubSeq(f.reqs, k + 1, Len(f.reqs))
      free   == free_pages + PagesBehind(f, k)
      untold == ~can_use_placeholder /\ \E r \in Range(kept.reqs) : req[r].output_ids = << >>
      short  == Cardinality(Grown(kept)) > free
  IN /\ waiting' = out \o waiting
     /\ running' = kept.reqs
     /\ output_ids' = << >>
     /\ result_queue' = [j \in DOMAIN result_queue |->
                           [result_queue[j] EXCEPT !.stale = @ \cup Range(out)]]
     /\ IF untold \/ short
          THEN /\ pc' = IF untold THEN "no last token" ELSE "no pages for decode"
               /\ seq_lens' = kept.seq_lens
               /\ free_pages' = free
               /\ req' = [r \in Requests |-> IF r \in Range(out) THEN Retracted(r) ELSE req[r]]
               /\ batch' = NoBatch
          ELSE /\ pc' = AfterSchedule(IF k = 0 THEN "none" ELSE "decode")
               /\ seq_lens' = [i \in 1..k |-> kept.seq_lens[i] + 1]
               /\ free_pages' = free - Cardinality(Grown(kept))
               /\ req' = [r \in Requests |->
                    IF r \in Range(out) THEN Retracted(r)
                    ELSE IF \E i \in Grown(kept) : kept.reqs[i] = r
                      THEN [req[r] EXCEPT !.pages = @ + 1]
                    ELSE req[r]]
               /\ batch' = IF k = 0 THEN NoBatch
                           ELSE [NoBatch EXCEPT !.mode = "decode", !.reqs = kept.reqs,
                                   !.input = IF can_use_placeholder
                                               THEN kept.output_ids
                                               ELSE [i \in 1..k |-> Last(req[kept.reqs[i]].output_ids)]]
     /\ UNCHANGED <<fresh, submitted, can_use_placeholder, last_extend, pinned, pending_release>>

\* Phase 3 without a prefill batch: retract what does not fit, then decode.
ScheduleDecode(ratio) ==
  /\ pc = "schedule" /\ Admitted(ratio).taken = << >> /\ Filtered.reqs # << >>
  /\ \E k \in KeptByMem(Filtered) : Decode(Filtered, k)

\* Phase 3 with nothing to run.
ScheduleNone(ratio) ==
  /\ pc = "schedule" /\ Admitted(ratio).taken = << >> /\ Filtered.reqs = << >>
  /\ running' = << >> /\ seq_lens' = << >> /\ output_ids' = << >>
  /\ batch' = NoBatch
  /\ pc' = AfterSchedule("none")
  /\ UNCHANGED <<fresh, submitted, waiting, free_pages, req, can_use_placeholder,
                 last_extend, exec, pending_release>>

\* Phase 3.5.
ProcessConsecutive ==
  /\ pc = "consecutive" /\ pc' = "launch"
  /\ \E eos \in Ending : ProcessPending(eos)

---------------------------------------------------------------------------
\* The token a forward pass of the batch samples for its i-th request.
Sample(i) ==
  LET r == batch.reqs[i]
  IN <<r, Len(req[r].kv) + (IF batch.mode = "decode" THEN 2 ELSE 1)>>

\* Mutant of Propagated: the new requests' placeholders come first.
PropagatedFirst(future) ==
  LET old == Len(running) - Len(future)
  IN IF Len(output_ids) < old THEN << >> ELSE future \o SubSeq(output_ids, 1, old)

\* _propagate_future_to_running_batch after an EXTEND batch: the placeholders of
\* the old requests stay, if there are any for all of them.
Propagated(future) ==
  LET old == Len(running) - Len(future)
  IN IF Len(output_ids) < old THEN << >> ELSE SubSeq(output_ids, 1, old) \o future

\* Mutant of AfterLaunch: phase 5 is left to the next step.
AfterLaunchNot == "sample"

\* Where phase 4 goes: phase 5 if a result is left to process.
AfterLaunch ==
  IF can_use_placeholder /\ ~DisableOverlap(batch.mode) /\ result_queue # << >>
    THEN "overlap"
    ELSE "sample"

\* Phase 4: placeholders for the tokens to come, and the forward pass.  Its inputs
\* are resolved in the order of launches, after the tokens they stand for.
Launch ==
  LET sampled == [i \in DOMAIN batch.reqs |-> Sample(i)]
  IN /\ pc = "launch" /\ batch.mode # "none"
     /\ batch' = [batch EXCEPT !.sampled = sampled]
     /\ output_ids' = IF batch.mode = "decode" THEN sampled ELSE Propagated(sampled)
     /\ req' = [r \in Requests |->
                  IF batch.mode = "decode" /\ r \in Range(batch.reqs)
                    THEN [req[r] EXCEPT !.kv =
                            Append(@, batch.input[CHOOSE i \in DOMAIN batch.reqs : batch.reqs[i] = r])]
                    ELSE req[r]]
     /\ pc' = AfterLaunch
     /\ UNCHANGED <<fresh, submitted, waiting, running, seq_lens, free_pages,
                    can_use_placeholder, last_extend, exec, pending_release>>

LaunchNothing ==
  /\ pc = "launch" /\ batch.mode = "none" /\ pc' = "drain"
  /\ UNCHANGED <<fresh, submitted, sched, can_use_placeholder, batch, last_extend, exec,
                 pending_release, req>>

\* Phase 5, with the forward pass of this step under way.
ProcessOverlap ==
  /\ pc = "overlap" /\ pc' = "sample"
  /\ \E eos \in Ending : ProcessPending(eos)

\* Phase 4.5: the sampled tokens are copied to the pinned buffer, and the record
\* waits for the next step.  stale collects the requests retracted while it waits;
\* no action reads it, it is there for DropsOnlyStale.
LaunchSample ==
  /\ pc = "sample" /\ pc' = "drain"
  /\ pinned' = batch.sampled
  /\ result_queue' = Append(result_queue, [reqs |-> batch.reqs, stale |-> {}])
  /\ UNCHANGED <<fresh, submitted, sched, can_use_placeholder, batch, last_extend,
                 pending_release, req>>

\* Mutant of Unreleased: the row is not given back.
UnreleasedRow(r) == [req[r] EXCEPT !.pages = 0]

\* A finished request after drain_pending_releases.
Unreleased(r) == [req[r] EXCEPT !.has_row = FALSE, !.pages = 0]

\* Mutant of HasUnfinished: requests that have finished do not count.
HasUnfinishedLive == waiting # << >> \/ \E r \in Range(running) : ~req[r].finished

\* has_unfinished, on which generate loops.
HasUnfinished == waiting # << >> \/ running # << >>

\* drain_pending_releases, and the end of the step.
Drain ==
  LET done == Range(pending_release)
  IN /\ pc = "drain"
     /\ IF ~IsInjective(pending_release) \/ \E r \in done : ~req[r].has_row
          THEN pc' = "released twice" /\ UNCHANGED <<free_pages, req>>
          ELSE /\ free_pages' = free_pages + NumHeld(done)
               /\ req' = [r \in Requests |-> IF r \in done THEN Unreleased(r) ELSE req[r]]
               /\ pc' = IF HasUnfinished THEN "recv" ELSE "idle"
     /\ pending_release' = << >>
     /\ last_extend' = (batch.mode = "extend")
     /\ batch' = NoBatch
     /\ UNCHANGED <<fresh, submitted, waiting, running, seq_lens, output_ids,
                    can_use_placeholder, exec>>

---------------------------------------------------------------------------
EngineStep ==
  \/ RecvRequests
  \/ ProcessConservative
  \/ \E ratio \in Ratios : SchedulePrefill(ratio)
  \/ \E ratio \in Ratios : ScheduleDecode(ratio)
  \/ \E ratio \in Ratios : ScheduleNone(ratio)
  \/ ProcessConsecutive
  \/ Launch
  \/ LaunchNothing
  \/ ProcessOverlap
  \/ LaunchSample
  \/ Drain

Next ==
  \/ \E prompts \in SetToAllKPermutations(fresh) \ {<< >>} : Generate(prompts)
  \/ \E r \in Requests : Submit(r)
  \/ EngineStep

Spec == Init /\ [][Next]_vars

\* The thread that called generate keeps stepping.
FairSpec == Spec /\ WF_vars(EngineStep)

---------------------------------------------------------------------------
Phases == {"idle", "recv", "conservative", "schedule", "consecutive", "launch",
           "overlap", "sample", "drain"}

\* Exceptions that end the engine.
Raised == {"no rows", "no pages for extend", "no pages for decode", "no last token",
           "released twice"}

Token(r) == {r} \X Nat

TypeOK ==
  /\ pc \in Phases \cup Raised
  /\ fresh \subseteq Requests
  /\ \A q \in {submitted, waiting, running, pending_release} : q \in Seq(Requests)
  /\ seq_lens \in Seq(Nat) /\ Len(seq_lens) = Len(running)
  /\ output_ids \in Seq(Requests \X Nat)
  /\ free_pages \in 0..NumPages
  /\ \A r \in Requests :
       /\ req[r].output_ids \in Seq(Token(r)) /\ Len(req[r].output_ids) <= MaxTokens[r]
       /\ req[r].kv \in Seq(Token(r))
       /\ req[r].pages \in 0..NumPages
       /\ {req[r].finished, req[r].is_retracted, req[r].has_row} \subseteq BOOLEAN

\* There is one pinned buffer for the sampled tokens, and a record reads it when
\* it is processed, which may be a step later: at most one record is ever left, and
\* what the buffer holds is its tokens.
PinnedIsTheirs ==
  /\ Len(result_queue) <= 1
  /\ \A rec \in Range(result_queue) :
       /\ DOMAIN pinned = DOMAIN rec.reqs
       /\ \A i \in DOMAIN pinned : pinned[i][1] = rec.reqs[i]

\* However steps, retractions and late results interleave, a request is in one
\* place: not sent, in the queue of submit_request, waiting, running, or finished.
\* None is lost, none is queued twice.
OnePlace ==
  pc \notin Raised =>
    LET queued == submitted \o waiting \o Among(running, {r \in Requests : ~req[r].finished})
    IN /\ IsInjective(queued) /\ IsInjective(running)
       /\ Range(queued) \cap fresh = {}
       /\ Requests \ (fresh \cup Range(queued)) = {r \in Requests : req[r].finished}

\* A request holds a row, and pages, exactly from its prefill until it is retracted
\* or its deferred release is drained, and what no request holds is free.
HoldingsReturned ==
  /\ \A r \in Requests : req[r].has_row <=>
       r \in Range(pending_release) \/ (r \in Range(running) /\ ~req[r].finished)
  /\ \A r \in Requests : req[r].pages > 0 <=> req[r].has_row
  /\ free_pages = NumPages - NumHeld(Requests)

\* Between steps the placeholders of running_batch, if it has any, are one for each
\* request, in the order of the requests, each for the last token sampled for it:
\* what the next decode will feed.
PlaceholdersAligned ==
  pc = "recv" /\ output_ids # << >> =>
    output_ids = [i \in DOMAIN running |-> <<running[i], Len(req[running[i]].kv) + 1>>]

\* The lists of the running batch are well formed and parallel, placeholders included.
BatchAligned == TypeOK /\ PlaceholdersAligned

\* The admission of prefill requests is sound: whatever it admits fits into memory.
PrefillFits == pc # "no pages for extend"

\* No result is left behind when generate returns, and nothing is held.
NothingLeft ==
  pc = "idle" => /\ result_queue = << >> /\ pending_release = << >> /\ running = << >>
                 /\ free_pages = NumPages

InOrder(s, r) == s = [i \in DOMAIN s |-> <<r, i>>]

\* The tokens a request reports and those it fed are the same: the KV behind its
\* prompt is that of its output, one token less or as many.
OutputMatchesKV ==
  \A r \in Requests :
    /\ InOrder(req[r].output_ids, r) /\ InOrder(req[r].kv, r)
    /\ pc = "recv" => Len(req[r].output_ids) \in Len(req[r].kv)..(Len(req[r].kv) + 1)

\* The lengths of running_batch say how many KV entries each request has.
SeqLensCountKV ==
  pc = "recv" => \A i \in DOMAIN running : seq_lens[i] = PromptLen[running[i]] + Len(req[running[i]].kv)

\* The tokens reported, the tokens fed and the lengths kept of a request agree.
LengthsAgree == OutputMatchesKV /\ SeqLensCountKV

\* What RequestOutput reports of the requests.
Service == INSTANCE Generation WITH
             output   <- [r \in Requests |-> req[r].output_ids],
             finished <- [r \in Requests |-> req[r].finished]

\* Two batches in flight, late results and skipped ones do not show: the engine
\* implements the service that reports token after token.
ImplementsGeneration == Service!Spec

\* Every request that a call of generate or of submit_request hands to the
\* scheduler finishes.
EveryRequestFinishes == \A r \in Requests : r \in Range(waiting) ~> req[r].finished

---------------------------------------------------------------------------
\* _process_step_result takes is_retracted for the mark of a record that was
\* launched before the request was retracted.
DropsOnlyStale ==
  \A rec \in Range(result_queue) : \A r \in Range(rec.reqs) : req[r].is_retracted => r \in rec.stale

\* A batch never needs more rows than the request pool has left.
RowsSuffice == pc # "no rows"
=============================================================================
