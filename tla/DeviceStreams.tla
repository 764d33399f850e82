--------------------------- MODULE DeviceStreams ---------------------------
(***************************************************************************)
(* The overlapped engine on the device.  The host enqueues the work of a   *)
(* step on three CUDA streams and goes on; a stream runs its own work in   *)
(* order and waits for the others only where it was told to.  Memory the   *)
(* host writes, and tensors a later step changes in place, are shared with *)
(* work that has not run.                                                  *)
(*                                                                         *)
(* Batches are numbered; the first prefills and the others decode the same *)
(* requests, so that batch n runs with lengths n and reads the token that  *)
(* batch n - 1 sampled.  A value is abstracted to the batch it belongs to. *)
(***************************************************************************)
EXTENDS SamplerRoutes, FiniteSets

CONSTANTS Batches,      \* bound: how many batches are run
          RowsOfBatch   \* the parameter kinds a batch may have, row by row

VARIABLES
  use_cuda_graph,
  work,       \* of each stream: what was enqueued and has not run
  ran,        \* of each stream: how much has run
  host, next, \* where the host is in step_overlap, and after the wait it is in
  n, rows,    \* the batch of the step, and the kinds of every batch's rows
  can_use_placeholder, disable_overlap,
  result_queue,  \* the records of batches not processed
  overlapped, \* batches built while the one before was unprocessed
  seq_lens,   \* running_batch.seq_lens, changed in place
  pinned, pinned_input,  \* what the host last wrote to the staging buffers
  dev,        \* of each batch: its device tensors
  stored,     \* batches whose tokens are in the future map
  cpu_buf, results  \* cpu_next_token_ids_buf, and what each record was given from it

dvars == <<use_cuda_graph, work, ran, host, next, n, rows, can_use_placeholder,
           disable_overlap, result_queue, overlapped, seq_lens, pinned, pinned_input, dev, stored,
           cpu_buf, results>>

Streams == {"schedule", "forward", "copy"}

\* Nothing has been written to a batch's tensors.
Blank == [seq_lens |-> 0, params |-> 0, input |-> 0, used |-> << >>, tokens |-> << >>]

StreamsInit ==
  /\ use_cuda_graph \in BOOLEAN
  /\ work = [s \in Streams |-> << >>] /\ ran = [s \in Streams |-> 0]
  /\ host = "begin" /\ next = "begin" /\ n = 0 /\ rows = << >>
  /\ can_use_placeholder = FALSE /\ disable_overlap = FALSE
  /\ result_queue = << >> /\ overlapped = {}
  /\ seq_lens = 1 /\ pinned = 0 /\ pinned_input = 0
  /\ dev = [b \in 1..Batches |-> Blank] /\ stored = {} /\ cpu_buf = 0
  /\ results = [b \in 1..Batches |-> 0]

\* Everything enqueued on a stream so far, and a wait for it.
Sent(s)     == ran[s] + Len(work[s])
WaitFor(s)  == [op |-> "wait", on |-> s, for |-> Sent(s), batch |-> n]
Op(name)    == [op |-> name, on |-> "", for |-> 0, batch |-> n]
---------------------------------------------------------------------------
(* The host.                                                                *)
device == <<ran, seq_lens, dev, stored, cpu_buf>>

\* Wait for the record first, when there is one and "first" holds.
Then(first, place) == IF first /\ result_queue # << >> THEN host' = "sync" /\ next' = place
                      ELSE host' = place /\ UNCHANGED next

\* Phases 1 and 2: without placeholders, the record is processed before schedule.
Begin ==
  /\ host = "begin" /\ n < Batches
  /\ \E kinds \in RowsOfBatch : rows' = Append(rows, kinds)
  /\ can_use_placeholder' \in (IF n = 0 THEN {FALSE} ELSE BOOLEAN)
  /\ disable_overlap' \in BOOLEAN
  /\ n' = n + 1
  /\ Then(~can_use_placeholder', "schedule")
  /\ UNCHANGED <<device, use_cuda_graph, work, result_queue, overlapped, pinned, pinned_input,
                 results>>

\* Phases 3 and 3.5, on schedule_stream: prepare_for_decode.
Schedule ==
  /\ host = "schedule"
  /\ LET wait  == IF use_cuda_graph THEN <<WaitFor("forward")>> ELSE << >>
         input == IF n = 1 \/ can_use_placeholder THEN << >> ELSE <<Op("input")>>
         add   == IF n = 1 THEN << >> ELSE <<Op("add")>>
     IN work' = [work EXCEPT !["schedule"] = @ \o wait \o input \o add]
  /\ pinned_input' = IF n = 1 \/ can_use_placeholder THEN pinned_input ELSE n - 1
  /\ Then(disable_overlap, "init_new")
  /\ UNCHANGED <<device, use_cuda_graph, n, rows, can_use_placeholder, disable_overlap,
                 result_queue, overlapped, pinned, results>>

\* Phase 4: ForwardBatch.init_new writes the staging buffer and enqueues its copy.
InitNew ==
  /\ host = "init_new"
  /\ pinned' = n
  /\ work' = [work EXCEPT !["schedule"] = @ \o <<Op("clone"), Op("params")>>]
  /\ overlapped' = IF result_queue = << >> THEN overlapped ELSE overlapped \cup {n}
  /\ host' = "run_forward"
  /\ UNCHANGED <<device, use_cuda_graph, next, n, rows, can_use_placeholder, disable_overlap,
                 result_queue, pinned_input, results>>

\* Phases 4 and 5: run_forward_async, then the record if it still waits.
RunForward ==
  /\ host = "run_forward"
  /\ LET resolve == IF can_use_placeholder THEN <<Op("resolve")>> ELSE << >>
     IN work' = [work EXCEPT !["forward"] =
                   @ \o <<WaitFor("schedule")>> \o resolve \o <<Op("forward")>>]
  /\ Then(can_use_placeholder /\ ~disable_overlap, "run_sample")
  /\ UNCHANGED <<device, use_cuda_graph, n, rows, can_use_placeholder, disable_overlap,
                 result_queue, overlapped, pinned, pinned_input, results>>

\* Phase 4.5: run_sample_async.  The last step drains what it left.
RunSample ==
  /\ host = "run_sample"
  /\ LET sampling == <<WaitFor("schedule"), Op("sample"), Op("store")>>
         sampled  == [WaitFor("forward") EXCEPT !.for = @ + Len(sampling)]
     IN /\ work' = [work EXCEPT !["forward"] = @ \o sampling,
                                !["copy"] = @ \o <<sampled, Op("copy")>>]
        /\ result_queue' = Append(result_queue, [batch |-> n, event |-> Sent("copy") + 2])
  /\ IF n < Batches THEN host' = "begin" /\ UNCHANGED next ELSE host' = "sync" /\ next' = "begin"
  /\ UNCHANGED <<device, use_cuda_graph, n, rows, can_use_placeholder, disable_overlap,
                 overlapped, pinned, pinned_input, results>>

\* pop_and_sync_pending: copy_done_event.synchronize(), then the clone.
Sync ==
  /\ host = "sync" /\ ran["copy"] >= Head(result_queue).event
  /\ host' = "clone"
  /\ UNCHANGED <<device, use_cuda_graph, work, next, n, rows, can_use_placeholder,
                 disable_overlap, result_queue, overlapped, pinned, pinned_input, results>>

CloneResult ==
  /\ host = "clone"
  /\ results' = [results EXCEPT ![Head(result_queue).batch] = cpu_buf]
  /\ result_queue' = Tail(result_queue)
  /\ host' = IF Len(result_queue) > 1 THEN "sync" ELSE next
  /\ UNCHANGED <<device, use_cuda_graph, work, next, n, rows, can_use_placeholder,
                 disable_overlap, overlapped, pinned, pinned_input>>
---------------------------------------------------------------------------
(* The device.                                                              *)

\* Mutant: the lengths are the tensor the scheduler goes on to change.
SeqLensShared(b) == seq_lens

\* The lengths the forward pass of a batch reads: the clone of init_new.
SeqLensOf(b) == dev[b].seq_lens

\* What a piece of work does to its batch's tensors.
Effect(op, b) ==
  CASE op = "clone"   -> [dev EXCEPT ![b].seq_lens = seq_lens]
    [] op = "params"  -> [dev EXCEPT ![b].params = pinned]
    [] op = "input"   -> [dev EXCEPT ![b].input = pinned_input]
    [] op = "resolve" -> [dev EXCEPT ![b].input = IF b - 1 \in stored THEN b - 1 ELSE 0]
    [] op = "forward" -> [dev EXCEPT ![b].used = <<SeqLensOf(b), dev[b].input>>]
    [] op = "sample"  -> [dev EXCEPT ![b].tokens = Sampled(rows[b], rows[dev[b].params])]
    [] OTHER          -> dev

Execute(s) ==
  /\ work[s] # << >>
  /\ LET w == Head(work[s])
     IN /\ w.op = "wait" => ran[w.on] >= w.for
        /\ dev' = Effect(w.op, w.batch)
        /\ seq_lens' = IF w.op = "add" THEN seq_lens + 1 ELSE seq_lens
        /\ stored' = IF w.op = "store" THEN stored \cup {w.batch} ELSE stored
        /\ cpu_buf' = IF w.op = "copy" THEN w.batch ELSE cpu_buf
  /\ work' = [work EXCEPT ![s] = Tail(@)] /\ ran' = [ran EXCEPT ![s] = @ + 1]
  /\ UNCHANGED <<use_cuda_graph, host, next, n, rows, can_use_placeholder, disable_overlap,
                 result_queue, overlapped, pinned, pinned_input, results>>

StreamsNext ==
  \/ Begin \/ Schedule \/ InitNew \/ RunForward \/ RunSample \/ Sync \/ CloneResult
  \/ \E s \in Streams : Execute(s)

StreamsSpec == StreamsInit /\ [][StreamsNext]_dvars

\* All batches are processed and every stream is empty.
StreamsDone == host = "begin" /\ n = Batches /\ \A s \in Streams : work[s] = << >>
---------------------------------------------------------------------------
(* Properties.                                                             *)

\* Whatever the streams' relative speed, a forward pass reads the lengths of its own
\* step and the tokens of the batch before, and a record is given its own batch's
\* tokens: although lengths change in place, slots are filled by a batch still
\* running, and one host buffer serves all records.  The sampling parameters are the
\* batch's own too, unless the next batch was built before it was processed.
BatchReadsOwn ==
  \A b \in 1..Batches :
    /\ dev[b].used # << >> => dev[b].used = <<b, b - 1>>
    /\ results[b] \in {0, b}
    /\ dev[b].params \in {0, b} \/ (dev[b].params = b + 1 /\ b + 1 \in overlapped)

\* A row gets a token its own parameters allow.  Left out: rows whose parameters were
\* overwritten before they were copied, and cut rows of a batch that mixes greedy and
\* sampled rows, where the mixed route ignores top-k and top-p.
TokensObeyParams ==
  \A b \in 1..Batches : \A i \in DOMAIN dev[b].tokens :
    \/ dev[b].tokens[i] \subseteq Allowed(rows[b][i])
    \/ dev[b].params # b /\ ~AllGreedy(rows[b])
    \/ ~AllGreedy(rows[b]) /\ ~AllNonGreedy(rows[b]) /\ rows[b][i] = "narrow"
=============================================================================
