---------------------------- MODULE MCExecution ----------------------------
(***************************************************************************)
(* The execution of a batch for TLC.  Every behaviour runs one of five     *)
(* parts, chosen at the start: the ring of future slots, the forward       *)
(* passes of the model runner, the experts of a layer, the CUDA streams    *)
(* with the sampler, or batches with chunked prompts.                      *)
(***************************************************************************)
EXTENDS FutureRing, GroupedExperts, DeviceStreams, TLC

CONSTANTS Prompts, PromptLen, Shared, PageSize, NumPages, MaxBatch, MaxLen,
          Pools, ChunkSize, Orders

VARIABLES part,
          backend, forward_graph, kv, req_to_token, row, seq_len, prefilled, decoding,
          buffers, logits,
          num_pages, pc, queue, chunking, live, lens, mixed, record, fields, lost

F == INSTANCE ForwardPass WITH
       Requests <- {Prompts[i] : i \in DOMAIN Prompts}, Arrivals <- Prompts,
       running <- decoding, graphs <- buffers, use_cuda_graph <- forward_graph

C == INSTANCE ChunkedPrefill WITH
       Requests <- {1, 2, 3}, PromptOf <- <<8, 3, 2>>, MaxNew <- <<2, 3, 2>>,
       MaxExtendLen <- 12, MaxBatchSize <- 4

MCPools    == 5..9
MCOrders   == {<<1, 2, 3>>, <<2, 1, 3>>, <<3, 1>>, <<1, 3, 2>>, <<2, 3, 1>>}
MCArrivals == [i \in Requests |-> i]
MCMaxNew   == [r \in Requests |-> IF r \in {1, 7} THEN 3 ELSE IF r = 4 THEN 1 ELSE 2]
MCPrompts  == <<"b", "a", "c", "d", "e">>
MCLen      == [r \in {"a", "b", "c", "d", "e"} |-> IF r \in {"a", "d"} THEN 1 ELSE 3]
MCRoutings == {<< <<1>>, <<1>>, <<1>>, <<1>>, <<1>> >>, << <<2>>, <<0>> >>, << <<0, 2>> >>,
               << <<1, 0>>, <<3, 0>> >>, << <<0, 2>>, <<0, 1>>, <<0, 3>> >>}
MCRows     == {<<"greedy", "greedy">>, <<"greedy", "wide">>, <<"narrow", "greedy">>,
               <<"narrow", "wide">>, <<"wide", "wide">>}

fvars == <<backend, forward_graph, kv, req_to_token, row, seq_len, prefilled, decoding,
           buffers, logits>>
cvars == <<num_pages, pc, queue, chunking, live, lens, mixed, record, fields, lost>>
vars  == <<part, rvars, evars, fvars, dvars, cvars>>

\* The parts that do not run have one initial state.
Init ==
  /\ part \in {"ring", "forward", "experts", "streams", "chunked"}
  /\ RingInit /\ F!ForwardInit /\ ExpertsInit /\ StreamsInit /\ C!ChunkedInit
  /\ part # "forward" => backend = "flashinfer" /\ ~forward_graph
  /\ part # "experts" => top_k = 1 /\ workspace = 0
  /\ part # "streams" => ~use_cuda_graph
  /\ part # "chunked" => queue = <<1, 2, 3>> /\ num_pages = 5

Next ==
  /\ UNCHANGED part
  /\ \/ part = "ring"    /\ RingNext      /\ UNCHANGED <<evars, fvars, dvars, cvars>>
     \/ part = "forward" /\ F!ForwardNext /\ UNCHANGED <<rvars, evars, dvars, cvars>>
     \/ part = "experts" /\ ExpertsNext   /\ UNCHANGED <<rvars, fvars, dvars, cvars>>
     \/ part = "streams" /\ StreamsNext /\ UNCHANGED <<rvars, evars, fvars, cvars>>
     \/ part = "chunked" /\ C!ChunkedNext /\ UNCHANGED <<rvars, evars, fvars, dvars>>

Spec == Init /\ [][Next]_vars

\* Each property of a part, where that part runs.
PassesAreExact   == part = "forward" => F!ForwardTypeOK /\ F!LogitsAreOwn /\ F!KVUndisturbed
ExpertsSumUp     == part = "experts" => ExpertsTypeOK /\ FusedIsEager /\ CombinedIsDense
MixedBatchesSound == part = "chunked" => C!MixedBatchesSound
PromptPrefilled  == part = "chunked" => C!PromptPrefilled
=============================================================================
