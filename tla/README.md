# MiniInfer in TLA+

MiniInfer (`src/miniinfer`) is an LLM inference engine: a paged KV cache with
radix prefix sharing, continuous batching with retraction, an engine loop that
keeps one forward pass in flight while the host processes the one before, and a
serving mode that puts tokenizer, scheduler and detokenizer into processes of
their own. This directory models the part of it that decides *who owns which
memory*, *in which order things happen* and *whose data a computation reads*,
model-checks it with TLC, and proves most of its safety with TLAPS. Numbers are
abstracted to what they were computed from.

Paths below are relative to `src/miniinfer/`.

## 1. Inventory

| component | state it keeps | operations | what makes it correct |
|---|---|---|---|
| **Paged allocator** `kvcache/memory_pool.py` `PagedTokenAllocator` and its kernels | `free_pages` (sorted), `free_group`, `is_not_in_free_group` | `alloc`, `alloc_extend`, `alloc_decode`, `free`, `begin/flush/end_free_group` | a page has one owner; none is lost; every row of slots is a sound page table |
| **Request pool** `memory_pool.py` `RequestPool` | `req_to_token` (rows are never cleared), FIFO of free rows | `alloc`, `free`, `read`, `write` | a row belongs to one request |
| **Radix cache** `kvcache/radix_cache.py` | tree of nodes with key, value, `lock_ref`, `last_access_time`; `evictable_size_`, `protected_size_` | `match_prefix` (splits nodes), `insert`, `inc/dec_lock_ref`, `evict` | a hit returns the KV of the tokens asked for; nothing a request uses is evicted; the sizes are true |
| **KV cache manager** `kvcache/kv_cache_manager.py` | the KV fields of `Req` (`req_pool_idx`, `prefix_indices`, `last_node`, `cache_protected_len`) | `prefix_for_waiting_req`, `prepare_for_extend/decode/mixed`, `release_request`, `update_(un)finished_req_radix_cache` | pages are in one place; a prefix in use stays locked, and its pages in the tree |
| **Prefill budget** `scheduler/prefill_adder.py` | token offsets of one prefill batch, with or without a chunk size | `try_add_prefill`, `add_chunked_req`, `budget_state` | what it admits fits |
| **Scheduler** `scheduler/scheduler.py`, `scheduler_batch.py` | `waiting_queue`, `running_batch` with parallel `seq_lens` and `output_ids`, `chunking_reqs`, `pending_release_reqs`, `new_token_ratio` | `schedule`, `_filter_batch`, `_check_decode_mem` (retracts), `drain_pending_releases` | a request is in one place; parallel metadata stay aligned; a release happens once; a prompt is prefilled once and whole |
| **Engine loop** `engine/llm_engine.py`, `engine/overlap_executor.py` | `_pending_requests`, `_last_batch`, `result_queue`, one pinned token buffer | `generate`, `stream_generate`, `submit_request`, `step_overlap` and its phases | overlap is not visible: every request gets its tokens in order and ends |
| **Future map** `engine/future_map.py` | a ring of token slots and `future_ct` | `alloc_future_indices`, `store_to_map`, `resolve_future` | a placeholder resolves to the token it was made for |
| **Device streams** `engine/overlap_executor.py`, `llm_engine.py`, `scheduler_batch.py` | work enqueued on the schedule, forward and copy streams; staging buffers and pinned results | enqueue, wait for a stream or event, synchronise | a batch reads its own inputs, whatever the relative speed of the streams |
| **Sampler** `layers/sample.py`, `scheduler/scheduler_batch.py` | flags of a batch and its rows' parameters | three routes for a whole batch | a row's token obeys its request's parameters |
| **Model execution** `engine/model_runner.py`, `cuda_graph_runner.py`, `layers/attention_backend/` | page tables, last-token indices, buffers of captured graphs | extend, decode, replay of a padded graph | a row of logits attends to its request's KV, in order, and to nothing else |
| **Mixture of experts** `layers/fused_moe/` | alignment of pairs to tiles, a workspace shared between calls and graphs | align, two grouped GEMMs, reductions over ranks | the fused result is the sum each token asks for |
| **Multi-process engine** `engine/multi_process_engine.py`, `engine/workers/`, `engine/ipc/` | four ZMQ channels, request ids, `req_id_map`, `decode_states` | `generate`, `stream_generate`, `start`, `stop`, a timeout of 600 s, failing workers | every call is answered, by its own answers, or ends |
| **Detokenizer** `engine/detokenizer.py` | a `DecodeState` per request, a cache of decoded prefixes | incremental and batch decode, `flush`, `cleanup` | the deltas add up to the whole text; none splits a character |
| **Prompt tokenizer** `engine/incremental_batch_tokenizer.py` | an LRU cache of encoded prompts | encode one, encode a batch | each prompt gets its own ids, cached or not |
| **Piecewise CUDA graphs, model layers, loader, process controller, crash logger** | device state, start-up and logs | | not modelled |

How they interact. `LLMEngine.step_overlap` calls `Scheduler.schedule`, which
asks the KV cache manager for a prefix match (radix cache, takes a lock) and
`PrefillAdder` for admission, and has the manager prepare the batch (request
pool, eviction, allocator). The executor launches the forward pass on its own
stream (model runner, attention backend, experts, sampler), stores the sampled
tokens in the future map, copies them to the host and queues a record; a
*later* phase, of this step or of the next one, processes the record, feeds the
detokenizer and queues finished requests for release; `drain_pending_releases`
at the end of the step returns their KV to the radix cache and the allocator.
Requests arrive from other threads through a locked list or, with several
processes, through the tokenizer worker's channel; tokens leave through the
detokenizer worker's.

What is hard here: a batch is scheduled before the result of the one before is
known, so a finished or retracted request may still be in a batch under way;
lengths, placeholders and requests are parallel tensors that different
functions filter, cut and append; rows and graph buffers are reused without
being cleared; sizes are kept incrementally and read for admission; splits
happen under locks; boundaries between pages come up in the host, in two
kernels, in the scheduler and in the attention backends, each with a formula of
its own; three streams share tensors that the host overwrites; a call that
times out leaves its answers under way; text is cut by length where tokens
can end inside a character. `PROJECT.json` lists these hazards with the line where
each bites and the properties that watch it.

## 2. Modules

| module | models | role |
|---|---|---|
| `PagePool` | the pages and the sorted list of free ones | operators |
| `PagedAllocOps` | page arithmetic and both kernels: prefix sums, the three parts of an extend, the decode slot, the host's page count, the attention backend's demand on a row (`SoundRow`) | operators |
| `PagedTokenAllocator` | the allocator with callers that honour its contract | state machine |
| `PageLedger` | every page has one owner | abstract specification of it |
| `RadixTreeOps` | the tree: walk and split, insert, locks, eviction | operators |
| `RadixCache` | the tree with requests that match, prefill, grow and release, counted in pages | state machine |
| `PrefixStore` | a map from prefixes to pages with pinned prefixes | abstract specification of it |
| `KVCacheManager` | allocator + tree + request pool, token by token | composition |
| `KVWorkloads` | what the callers of the manager do; every workload refines `KVCacheManager` | composition |
| `PrefillBudget` | `PrefillAdder` over the waiting queue, without chunks | operators |
| `OverlapEngine` | `step_overlap` phase by phase, scheduler, executor | state machine, uses `PrefillBudget` |
| `Generation` | tokens in order, one at a time, until the end | abstract specification of it |
| `ChunkedPrefill` | the budget with a chunk size, the chunking queue, mixed batches, the release of chunks | state machine |
| `FutureRing` | the future map under a loop of launches and results, over several turns | state machine |
| `DeviceStreams` | the three streams, their waits, the buffers the host reuses | state machine, uses `SamplerRoutes` |
| `SamplerRoutes` | which tokens a row may get on each route | operators |
| `ForwardPass` | what an extend, a decode and a replayed graph write to the KV and read from it | state machine |
| `GroupedExperts` | tiles, two GEMMs whose programs run in any order, workspace, reductions over ranks | state machine |
| `DetokenizerOps` | one `DecodeState`: the safe end of a text, acceptance of a token, flush | operators |
| `IncrementalDecoder` | the decoder and its cache driven as its documentation says | state machine |
| `StreamingEngine` | `generate`, `stream_generate`, `_process_step_result` and the decoder states | state machine |
| `PromptTokenizer` | the LRU cache, single and batched lookups | state machine |
| `ServingPipeline` | client, three workers, four bounded channels | composition, uses `DetokenizerOps` |
| `MC*` | instances for TLC | |
| `CacheLemmas` | page arithmetic, rows and shares built by the kernels; every operation of the tree as what it does to the map from paths to pages | lemmas |
| `PagedTokenAllocatorProofs` | the allocator's theorems and its refinement | proofs |
| `RadixCacheProofs` | locks, sizes, places and contents of the prefix cache; its refinement | proofs |
| `KVCacheManagerProofs` | rows, locks and prefixes of the manager under any workload; places of pages and page tables under the sound one | proofs |
| `OverlapEngineProofs` | pinned buffer, places, memory, records, batches, admission; the refinement of `Generation` | proofs |
| `ExecutionProofs` | the future map; the three streams and the buffers between them | proofs |
| `TextProofs` | the decoder and its cache, its states inside the engine, the LRU cache of prompts | proofs |
| `ServingPipelineProofs` | client, workers and channels | proofs |

`KVWorkloads` chooses a `workload` at the start, which restricts the callers of
`KVCacheManager`. Two of the `MC` modules do more than give values: `MCExecution` and
`MCText` choose a `part` at the start and run that one: five
state machines that execute a batch (`FutureRing`, `ForwardPass`,
`GroupedExperts`, `DeviceStreams`, `ChunkedPrefill`) and three of the text path
(`PromptTokenizer`, `IncrementalDecoder`, `StreamingEngine`). The parts share no
state; their properties are conditional on the part.

### Correspondence

**Allocator.** `free_pages` is a set: the code keeps the list sorted, so "the
first n" is `Smallest(free_pages, n)` and entry k is `NthFree`. The kernels run
one program per row; their `sum` over the rows before is `NeedBefore`, and
`ExtendSlot` gives the slot a position receives from the part of the kernel that
writes it (rest of the last page, whole pages, partial page). The host
subtracts `DecodePagesCpu`, the kernel takes by `DecodeNeed`: they are separate
definitions, as in the code, and it is a result that they agree. `row` is what
the callers keep.

**Radix tree.** A node is identified by the path of page contents from the root
to its end, so `tree.value`, `tree.lock` and `tree.atime` are functions on a set
of paths and a parent is the longest proper prefix in it. A split adds a path.
Access times are kept as ranks; equal ranks are broken in every way. `Grow` and
`Release` change the content a page stands for (`content`, a history variable
for `ContentMatchesPath`). `Lookup` is `prefix_for_waiting_req`: the scheduler calls it
for a waiting request in every step until the request is admitted, and each call
locks the match, while only the last one is ever unlocked. The matches that were
replaced are in `lost`, a history variable, and their locks stay.

**KV manager.** One action per method. `AppendOutputToken` is when the host
learns a token; it may come before or after the next `PrepareForDecode`, which is
what distinguishes the synchronous from the overlapped engine. `req_to_token`
keeps what it held when a row is taken again. Steps in which the code raises
`RuntimeError` are not enabled.

**Engine.** `pc` is the phase of `step_overlap`; each action is a phase, or an
alternative of one:

| action | phase in `llm_engine.py` |
|---|---|
| `RecvRequests` | 0 and 1: receive, and decide whether placeholders can be used |
| `ProcessConservative` | 2: not usable, so process what is pending first |
| `SchedulePrefill`, `ScheduleDecode`, `ScheduleNone` | 3: the outcomes of `Scheduler.schedule` |
| `ProcessConsecutive` | 3.5: two EXTEND batches in a row, or nothing to run |
| `Launch`, `LaunchNothing` | 4: forward pass, placeholders for what it will sample |
| `ProcessOverlap` | 5: process the pending record while the pass runs |
| `LaunchSample` | 4.5: sample, copy to the pinned buffer, queue the record |
| `Drain` | drain, remember the batch, loop of `generate` |

The sampled token is `<<r, n>>`, the n-th of request r; whether it is EOS is
chosen when the record is processed. Exceptions are values of `pc` (`Raised`) at
which the engine stops. `new_token_ratio` is any of `Ratios` at each schedule,
which covers whatever its adaptation does between these values.

**Chunked prefill.** `record` is the batch whose result is still to come,
`chunking` the queue of `ChunkedReq`, `fields` what `Req` keeps. `Schedule` is one
call of `schedule` with `_do_chunked_prefill`, `add_chunked_req`,
`try_add_prefill` and `prepare_for_mixed`; `Process` is `_process_step_result` with
its branch for a chunk, which frees the row. `lost` counts rows and pages nobody
holds any more. A behaviour ends where the code raises, retracts, cuts a request
a second time, or builds tensors of different lengths.

**Future ring.** A launch takes slots from `future_ct`, stores its tokens there,
and the running batch keeps a slot per request until a decode resolves it.
`StepExtend`, `StepDecode` and `StepNothing` are the turns of the loop. The limit
and the length of the buffer are those of the code (`FutureLimit`, `BufferLen`).

**Device streams.** The host's actions are the phases of a step; each appends
work to streams. `Execute(s)` runs the oldest work of stream s, or nothing while
it waits. What is shared is a variable of its own: `seq_lens`, changed in place by
the next decode; `pinned` and `pinned_input`, the staging buffers; `cpu_buf`, the
result buffer.

**Forward pass.** A KV entry is the token and the position it was written for;
a row of logits is the sequence of entries its query attended to, so that
"the right result" is an equality with the request's own sequence (`Own`). The two
attention backends read different tables (`Csr` for FlashInfer, a block table
for FlashAttention 2), and a replayed graph reads buffers that keep what earlier,
longer batches left (`Padded`, `Filled`). `row` and pages are reused.

**Experts.** `Align` gives the tiles of both alignment kernels (the one for small
inputs and the general one), in every order of pairs within an expert that the
kernel's atomics allow. `Program` is one tile and column block of a GEMM; they run
in any order. A cell of memory holds the term of which it is a value; `Combine`
reduces over the expert-parallel and the tensor-parallel group.

**Text.** A token is a whole character, the first or the last bytes of one, or
EOS. `Text` is the tokenizer's decode: bytes that make no character become the
replacement character. `Accept`, `SafeEnd` and `Flushed` are the methods of the
decode state. `StreamingEngine` has any launch and any retraction with at most one
earlier result to come; `OverlapEngine` has the detail, and the two are not formally related.

**Serving pipeline.** The client's state is its counter and the local variables
of each call; `Enter` starts a call or resumes a suspended generator,
`SendRequest`, `RecvResponse` and `RecvTimeout` are its loops. A worker sends what it
has (`Send`, blocking on a full channel) before it takes its next message
(`Tokenize`, `AddRequest`, `EngineStep`, `Detokenize`). The tables are
`pending_requests` of the tokenizer, of which no line removes anything, `req_id_map` of
the scheduler and `decode_states` of the detokenizer (`prev_text`). `Fail` is an exception in a
worker, which leaves with its sockets' last messages in doubt; `Shutdown` follows
a scheduler that left; `Stop` and `Start` make fresh processes while the ids go on.
`patient` chooses whether the 600 s may pass while an answer is still to come.

## 3. What the runs check

| run | instance | what it shows |
|---|---|---|
| `allocator` | 4 pages of 2, two requests, rows to 5 tokens, batches of 2 | `PagesExclusive`, `PagesConserved`, `RowLayout`; implements `PageLedger` |
| `radix_cache` | 3 pages, 2 page contents, paths to 3, two requests, one refused and matched again | `TreeWellFormed`, `LockAccounting`, `OnePlace`, `ContentMatchesPath`, `EvictableIsReal`; implements `PrefixStore` |
| `kv_manager` | 4 pages of 4, two requests, two rows; any workload, and the sound one | `RowsAreExclusive` and `PrefixStays` under both; `PagesOnePlace`, `RowsLaidOut` when decodes stay inside a page and requests end with their last token written |
| `kv_any_decode` | the same with decodes across page boundaries | violated: disagreement 1 |
| `overlap_pressure` | 5 pages of 2 for four requests: retractions occur | `PinnedIsTheirs`, `OnePlace`, `HoldingsReturned`, `BatchAligned`, `PrefillFits`, `NothingLeft` |
| `overlap_ample` | 15 pages: room for every prompt and a page per token fed (`Ample`) | `LengthsAgree`; implements `Generation`; every request finishes |
| `overlap_retracted`, `overlap_rows` | 5 pages; two rows | violated: disagreements 2 and 3 |
| `execution` | the five parts of `MCExecution`, see below | `SlotsHoldLast`, `PassesAreExact`, `ExpertsSumUp`, `BatchReadsOwn`, `TokensObeyParams`, `MixedBatchesSound` |
| `chunked_prompt` | its chunked part | violated: disagreement 4 |
| `text` | the three parts of `MCText` | `PromptsAnswered`, `DeltasAreWhole`, `CacheTransparent`, `StreamedIsOutput`, `StatesCurrent` |
| `pipeline` | a stream of one prompt and a `generate` of two, with one disturbance; or a `generate` of five alone; channels of 1 | `OwnAnswers`, `TextMatchesTokens`, `AnswersNotLost`, `TablesAreLive`, `HangsOnlyJammed` |

Type invariants are conjuncts of the properties of each component (`TypeOK` of
the allocator, `TreeWellFormed`, `RowsAreExclusive`, `BatchAligned`,
`TablesAreLive` and so on).

**Bounds.** Two tokens a page is the least with an inside and a boundary; the
`kv_*` runs take four, because the code's two page formulas (`% = 0` and
`% = 1`) and an interior differ only from three on. Two requests are enough for
every pairwise conflict over pages and nodes; two contents and three pages make a
branch below a shared page, splits under a lock and eviction with a shortage.
Batches of two cross a row boundary of the kernels' prefix sums. Four engine
requests let two wait, one run and one finish or be retracted in the same step,
and outputs of 3 and 4 tokens separate "next token may be the last" (conservative
path) from the placeholder path. `MaxRematches` bounds the matches of refused requests
in `radix_cache` (one is enough for a lock that outlives its request, on a node that
is then split, matched by others and passed over by eviction), `MaxLocks` bounds how
often a request of `kv_manager` is matched before it is admitted, `MaxOutput`, `MaxLen` and
`MaxDepth` how long it gets.

For the parts of `execution`:

- *ring*: two running requests make a ring of 6 slots; seven requests go round it
  more than twice, with prefills between decodes of both.
- *forward*: prompts of 1 and 3 tokens with 2 shared ones, pages of 2, sequences to
  4: a shared page, a partial one, batches of 1 to 4 rows, graphs of 1, 2 and 4
  rows that are replayed for fewer.
- *experts*: four experts over 2 × 2 ranks, tiles of 2, both alignment paths
  (`SmallNumel` separates them), a second call that does or does not fit the
  workspace of the first; routings with an expert that gets nothing, one that
  gets more than a tile, and the same token on two ranks.
- *streams*: three batches in flight at every relative speed of three streams, all
  ways to take or leave the placeholder path, and five pairs of parameter kinds.
- *chunked*: prompts of 8, 3 and 2 tokens with a chunk size of 6 in every order,
  with 5 to 9 pages: one prompt is cut, another shares the chunk's batch, decodes
  are mixed in, and every way of ending a behaviour is reached.

In `text` an answer of three tokens holds a split character with a token before or
after it; the caches hold two entries, so that three prompts or prefixes evict.
In `pipeline` a channel holds one message, so that each worker blocks on the next;
one disturbance (a failure, a stop or a retraction) at every point is what the
code's comments consider, and `patient` makes the timeout race with late answers.
To fill the whole ring takes a message in each of four channels, one in the hands of
each of three workers and one the client cannot send: four answers of the first prompt
of `many` on the way back and its other four prompts on the way out. `Alone` keeps this
call apart from the others and from disturbances, which bounds the run and not the ring.
In all runs the interesting case occurs: the mutants of `PROJECT.json`, one per
property, are found under the same bounds.

**Deadlock.** It is checked for the allocator. The pipeline does deadlock, in one way:
`generate` sends all its prompts before it reads an answer
(`multi_process_engine.py:204-208`), and no send has a timeout (`zmq_channel.py:85-100`), so
with more prompts than the channels hold and answers that come meanwhile, client and
workers all wait in a send (`Jammed`); a send to a full channel whose worker is gone
blocks for ever too. `HangsOnlyJammed` says that every call ends unless it is jammed like this, and
TLC reaches the jam within the bounds. The check is switched off where the modelled system may
stop: in `RadixCache` and `KVCacheManager` when requests are done, their bounds
used up, or the memory short (the code raises there), in `OverlapEngine` when
every request has ended or an exception was raised, in the parts of `MCExecution`
and `MCText` when their requests, batches or calls are used up, and in
`ServingPipeline` when every call has ended and nobody calls again.

**Fairness.** `FairSpec` of `OverlapEngine` is weak fairness of `EngineStep`: the
thread that called `generate` is in a loop and keeps stepping. Nothing is assumed of
the threads that call `submit_request` or of the order of phases. Which ratio is
used and whether a token is EOS are not subject to fairness: requests end at
`max_tokens` at the latest. `Fairness` of `ServingPipeline` is weak fairness of the
client inside a call and of one turn of each worker's loop (`BaseWorker.run`): each
is a process of its own that polls or blocks in a loop. The client's step includes the
end of its 600 s poll. A call that reads therefore ends, but nothing makes a
caller resume a generator, start, or stop, and nothing makes a worker fail.

## 4. What is proved

Each theorem holds for every value of the constants that satisfies the
assumptions named in the modules: page sizes above one, pools, batches, depths,
capacities, budgets of any size, any finite set of requests. None depends on the bounds of section 3.

**Allocator** (`CacheLemmas`, `PagedTokenAllocatorProofs`: `TypeCorrect`, `Exclusive`, `Conserved`,
`Layout`, `Refinement`, from `Invariance`). The
invariants are not inductive one by one: exclusion needs the row to be sound
(otherwise a free from a page boundary on returns a page the request still
uses), and sound rows need the pages to be exclusive. `IInv` is their
conjunction with the type. The argument for a call is `Grow`: if the pages a
batch takes are dealt out to its rows as disjoint shares, exclusion and
conservation stay. `SharesOfBatch` shows that the kernels' prefix sums deal
them so; `ExtendRow` that the slots of one row form a sound table;
`DecodeIsExtend` that a decode is an extend by one, which includes that the
host's page count and the kernel's agree for callers that count the new token.

**Prefix cache** (`CacheLemmas`, `RadixCacheProofs`). The lemmas replace the
nodes by what they mean: a tree is a map from paths to pages (`Known`, `PageAt`),
with each path in one node (`At`). A walk with its split leaves the map alone, an
insert adds the paths of the key, a deletion removes those of a leaf. The
invariant says that a node's `lock_ref` is the number of requests whose path runs
through it and of replaced matches of refused requests that do (`Counted`), so that a split
may copy it; that the two sizes count the
paths without and with such locks (`Sized`); that a page names the path it was
written for, which makes `PageAt` injective (`TreePlaces`, `RowPlaces`). An eviction
is unrolled round by round (`Rounds`, `OutcomesAre`), since its operator is a recursive
function. `EvictableIsReal` needs that the heap is empty only when every
remaining node is locked (`HeapEmpty`): a locked node has locked ancestors, so an
unlocked node has an unlocked leaf below it. `StoreRefinement` is the refinement
of `PrefixStore`: nothing is bound twice to different pages, and nothing pinned forgotten.

**KV manager** (`KVCacheManagerProofs`). Here allocator and tree meet, under callers
that do anything: decodes that open a page late, releases whose last index was
never written. `ManagerInv` is inductive all the same, since it says only what
holds in spite of them. `TreeOK`: the tree is a tree and its pages are
page-sized. `RequestOK`, for each request: its matched prefix is what the tree
has for the start of its prompt (`PrefixAt`), and its node and all above it are locked at
least once for each request that holds them (`Locked`, with `HeldCount`: a waiting request
that is matched again leaves a lock behind, so "exactly once" is false).
`SlotsOK`, `TableOK`: free rows and rows in use are disjoint, and a running
request's row begins with its prefix (`Begins`). Every operation is shown to keep
the pages of known and locked paths (`MatchKeeps`, `ExtendKeeps`, `DecodeKeeps`,
`ReleaseKeeps`); `RowsAreExclusiveTheorem` and `PrefixStaysTheorem` follow, and
`WorkloadRefinement` carries them to every workload.

Where pages are needs the sound workload. `Places`, inductive together with
`ManagerInv`, says that each path of the tree has a whole page of the pool to itself
(`WholePages`), that the row of a running request is a sound page table
(`RowFits`), and that each page is free, in the tree, or behind the prefix of one
running request (`Placed`). Both conditions of the workload are used. A decode
in a page keeps the row sound although the lengths come from before `add_(1)`
(`DecodePlaces`); at the start of a page it would not (disagreement 1). A release
hands the tree whole pages of the row and returns the rest (`ReleasePlaces`). It
reads one index per token, and an index that was never written may name another
request's page. The long step is a release whose prompt is in the tree already, in part or as
a whole, on a path other requests inserted: what it returns is then exactly its
own pages that the tree did not take. `PagesOnePlaceTheorem` and
`RowsLaidOutTheorem` follow.

**Engine** (`OverlapEngineProofs`). `PinnedSafe`: `PinnedIsTheirs`
says at most one record waits and the buffer holds its tokens; why a record is
processed before the next is queued depends on the phase, and `PinnedInv` says for
each when the queue must be empty. `EngineInv` adds where each request is
(`Places`), what it holds and that the rest is free (`Holdings`), which records
and batches name which requests in which phase (`Records`, `Batches`), what the
parallel sequences are (`Limits`, `Types`), and what holds when `generate` returns
(`Ends`). `PrefillFits` rests on `ConsiderFits` and `AdmitIs`: the
budget counts tokens and the allocator pages, and rounding every
prompt up to pages is what makes the first bound the second.

**Generation** (same module). With a retraction the engine does not implement the
service of `Generation` (disagreement 2: a token is dropped). The theorems
`GenerationTheorem` and `LengthsTheorem` have the hypothesis that no request is ever
retracted (`[]NoneRetracted`, a behaviour's own property), and `AmpleTheorem` shows
that this is met whenever the pool has room for every prompt and one page for
each token that may be fed (`Ample`, a condition on constants); `AmpleService`
puts them together. The invariant `ReportInv` relates what has been reported to what is
under way: tokens come in order (`Ordered`), a request's next token is in exactly one
record, the running pass or the batch to come (`Owed`, `OnTheWay`, `Unstarted`,
`Reported`), and `seq_lens` counts the KV (`Lengths`).

**Future map** (`ExecutionProofs`). `SlotsHoldLast` relates a slot number modulo
`FutureLimit` to the slots taken since the start, which are counted without the
modulus: a slot is the residue of the number at which it was taken, so it is
written again only after as many slots as the ring has; until then it holds the
token its request sampled last, through any filtering and merging of the batch.
That the ring may come round under many prefills between two decodes is the
exception the property names (`future_map.py:61-64`).

**Streams** (same module). For any relative speed of the three streams.
`StreamsInv` has four parts: what the host has recorded (`HostInv`, `RecordInv`), what each
stream can still hold and what stands in front of it (`QueueInv`), and what the
shared tensors are at each point in between (`TensorInv`). `BatchReadsOwn` and `TokensObeyParams`
follow for the piece of work at the head of a stream. The theorems
have the hypothesis that the parameter `Batches` is a number and rows are
sequences of the modelled kinds.

**Text path** (`TextProofs`). For any sets of requests, prompts and tokens and any cache
sizes. *Decoder.* The decode is a recursive function over the tokens; its values are
sequences of characters because a run of any step function exists and is unique
(`Iterates`, `Climb`, both from the well-foundedness of `<`). The key lemma is that one
more token either appends a character or replaces a replacement character at the end
(`TextGrows`), so what ends before the trailing replacement characters stays. `Fine`, for
each state, says that the output is the decode up to `read_offset`, that it ends with no
replacement character, and that it is everything once the request ended; `CacheInv`
that an entry of the cache holds the decode of its key and that no key is there twice. `DeltasAreWholeTheorem`
and `CacheTransparentTheorem` follow.
*States in the engine.* `Standing` relates a request to its decoder state: while it
runs the state has seen exactly its output, unless a retraction has dropped the
output and the result that carries it is still queued, or the state stopped at an EOS
the request ignores (`Unfinished`); when it ended, what was handed out is the decode of
the output (`Ended`). `RecordsInv` says that a record names only requests that were
admitted. `StreamedIsOutputTheorem` and `StatesCurrentTheorem` follow.
*Prompt tokenizer.* `Sync`: the cache is the tail of the prompts in the order of their last use, each
with its ids; `Full`: it has all of them or as many as it may. A batch exceeds the size
until the eviction at its end, so `Sync` and `Full` hold from prompt to prompt and the
size bound, the third part of `TokenizerInv`, between calls only.

**Pipeline** (`ServingPipelineProofs`). `PipelineInvariant` is layered: each prompt
is in one place on its way (client, channel, worker, channel), its request
id means it in every table that mentions it, and whatever a call waits for is
on its way, unless a worker failed or the timeout was impatient. `OwnAnswers`,
`TablesAreLive` and `AnswersNotLost` follow. `TablesAreLive` says of `req_id_map` and
`decode_states` that they keep nothing of a request that is over, and of
`pending_requests`, which keeps everything, that whatever is in `req_id_map` is in it
too (`PendingOK`).
`TextInv` is for `TextMatchesTokens`: the messages about a request that is still waited for,
read from the client back over four channels and outboxes to the engine,
form a chain in which each has one token more than the one before (`FlowAt`), and the
state of the detokenizer is where the chain passes it. For outputs of whole characters a
token only appends to the text (`WholeText`, `Climb`), so the piece behind the old length is what the client lacks
(`WholeDelta`).

**Not proved, only model-checked.** Liveness under fairness
(`EveryRequestFinishes`, `HangsOnlyJammed`) and anything about ENABLED are out of reach of TLAPS here, as are
the library's induction theorems that take an operator. Where a proof needs
induction over data it goes by the least counterexample (`LeastNat`,
`IndexInduction`) or by one step of a fold; the kernels' prefix sums are stated as
the cardinality of a set of pairs (`NeedBefore`), so that those proofs need
none. Left to TLC: `PassesAreExact` (what a forward pass reads through the page
tables of six kernels), `ExpertsSumUp` and `MixedBatchesSound`, whose modules are built from
folds over batches inside the actions.

## 5. Where code and documentation disagree

Four runs are expected to be violated; each states what a comment, an assertion or
a test says.

1. `kv_any_decode`: `prepare_for_decode` passes lengths from before `add_(1)` to an
   allocator that wants the new token counted. Pages open one token late.
2. `overlap_retracted`: on the conservative path a retraction finds no record
   pending, so the mark it sets drops the first token of the next prefill.
3. `overlap_rows`: rows of requests that finished in phase 2 are still taken when
   the batch is sized.
4. `chunked_prompt`: `update_unfinished_req_radix_cache` no longer inserts the chunk
   and the row is freed, so that the next chunk starts at the beginning of the
   prompt again and the request decodes on part of its prompt.

Seen on the way, without a run of their own:

- A release reads one row entry per token (`kvcache/kv_cache_manager.py:685-687`,
  `docs/整体框架设计.md:226`); a request whose last token was never fed has one entry
  less, and reads what an earlier occupant left. The sound workload of `kv_manager`
  excludes it.
- A waiting request that is considered again is locked again
  (`kvcache/kv_cache_manager.py:200`); only the last lock is undone, while
  `docs/整体框架设计.md:295` pairs each lock with an unlock. `RadixCache` does the same, and
  `LockAccounting` counts the locks left behind: they stay when all requests are gone,
  and their pages are never evicted.
- A `generate` with more prompts than the channels hold may never return
  (`engine/multi_process_engine.py:204-208`, `engine/ipc/zmq_channel.py:85-100`): see
  **Deadlock** in section 3.
- `pending_requests` of the tokenizer process gets an entry for each request and loses
  none (`engine/workers/tokenizer_worker.py:90`); nothing reads it.
- A request that can never fit blocks the queue (`scheduler/prefill_adder.py:13`).
- `_check_decode_mem` counts pages where the length is 0 modulo the page size and
  `prepare_for_decode` takes them where it is 1. Both are in `OverlapEngine`
  (`Wanted`, `Grown`); the exception `"no pages for decode"` is reachable.
- `_rebuild_running_batch_metadata` after a retraction takes lengths from the
  output, which on the conservative path is one token ahead of the KV:
  `SeqLensCountKV` is checked with memory for all requests, and does not hold
  with 5 pages.
- A new leaf keeps access time 0 until it is matched, so the newest leaf is
  evicted first; `docs/整体框架设计.md:301` calls the policy an approximate LRU.
- With chunked prefill: a request cut a second time is kept twice
  (`scheduler/scheduler.py:347`, `:415`); pages of a freed chunk are held by nobody
  (`engine/llm_engine.py:1180`); a result that is processed after the next
  schedule tests `is_chunked` of a request that has moved on (`llm_engine.py:1170`).
- `engine/workers/detokenizer_worker.py:90` takes the delta by the length of the text
  before: a character whose bytes come in two tokens keeps its replacement
  character, and after a retraction text is repeated or skipped.
  `TextMatchesTokens` excludes both. It excludes streams during whose suspension another
  call reads, too: that call drops the stream's pieces (`multi_process_engine.py:216`,
  `:256-258`), and the text of the stream has a gap.
- `decode_batch` marks a state finished at an EOS the engine ignores
  (`engine/detokenizer.py:322`), so the text after it is not streamed.
  `StreamedIsOutput` excludes it.
- A `stream_generate` that is abandoned leaves requests whose outputs appear in the
  results of the next `generate` (`llm_engine.py:965-972`).
- The mixed route of the sampler ignores top-k and top-p of its rows
  (`layers/sample.py:123-128`); staging buffers for sampling parameters are one per
  process and are overwritten while a copy may be under way
  (`scheduler/scheduler_batch.py:272-277`). `TokensObeyParams` and `BatchReadsOwn` name
  both exceptions.
- A comment in `layers/fused_moe/experts.py:82` says the workspace is allocated once, by
  `warmup_model`, which does not exist; a graph captured before a larger call keeps
  the address of the old one.

## 6. What the models leave out

- `OverlapEngine` counts pages and shares none between requests (as with the
  prefix cache off). Which pages, and sharing, are in `KVCacheManager`; the two are
  not composed, the product is too large for TLC. `PrefillFits` therefore says
  nothing on admission against evictable pages.
- `enable_overlap=False` and the older `step()`, which share the handlers of
  `OverlapEngine` and run them in sequence; `process_batch_result` of the scheduler,
  which the engine does not call.
- `ChunkedPrefill` has no retraction, no prefix cache hits, and ends where the code's
  own tensors stop matching.
- `FutureRing` has ample memory (a retraction resets a request and its slot with it,
  see `OverlapEngine`).
- The flush after the loop of `generate`, and the one in the `sync` branch of
  `step_overlap`: `NothingLeft` and `PinnedIsTheirs` show they find nothing to do.
- `ForwardPass`: the FlashAttention 3 backend (version 2 and FlashInfer are there), hidden states, vocabulary masks, custom logits processors.
- Piecewise CUDA graphs: the captured pieces are `torch.compile`'s.
- Numerics of models, layers and kernels; weight loading; warm-ups; statistics,
  logging, progress bars; the crash logger. `process_controller.py` is commented out.
- `TokenAllocator` (page size 1), `MHAKVCacheStorage`, benchmarks.
- `ServingPipeline`: the engine in its scheduler process is any progress of requests,
  not `OverlapEngine`; ports, pickling and process start-up are instantaneous.

## 7. Plan

Done, in this order: allocator and its proofs; radix cache; KV manager; budget
and engine; pinned-buffer proof; future ring; text path; serving pipeline; forward
passes, experts, streams and sampler; chunked prefill; the proofs of section 4. Next:

1. Proofs: forward passes, experts, chunked prefill.
2. `StreamingEngine` as an abstraction of `OverlapEngine`, by a refinement mapping.
3. Engine with the radix cache: admission against `available + evictable` while the
   match locks nodes; exceptions of `prepare_for_extend`.
4. The mode `enable_overlap=False`, against the same `Generation`.
