--------------------------- MODULE GroupedExperts ---------------------------
(***************************************************************************)
(* The experts of a mixture-of-experts layer: the alignment of the routed  *)
(* (token, k) pairs to tiles of one expert each, the two grouped GEMMs     *)
(* whose programs run in any order, the workspace they share from call to  *)
(* call and with the captured CUDA graphs, and the sum over the ranks of   *)
(* the expert- and tensor-parallel groups.                                 *)
(*                                                                         *)
(* A number is abstracted to what it was computed from.  The intermediate  *)
(* size of a rank is one cell of memory.  The ranks share no memory before *)
(* they reduce, so they are run one after the other.                       *)
(***************************************************************************)
EXTENDS Integers, FiniteSets, FiniteSetsExt, SequencesExt

CONSTANTS NumExperts, EPSize, TPSize,
          BlockM,                    \* rows of a tile
          SmallNumel, SmallExperts,  \* 1024 and 64: what the single-program alignment takes
          HiddenCols,                \* cells of a row of hidden states
          CaptureSizes,              \* batch sizes of the captured graphs
          Routings,                  \* the topk_ids a router may give: by token, by k, an expert
          MaxCalls

ASSUME ExpertsAssumption ==
  /\ NumExperts % EPSize = 0
  /\ \A r \in Routings : \A t \in DOMAIN r :
       Len(r[t]) = Len(r[1]) /\ IsInjective(r[t]) /\ ToSet(r[t]) \subseteq 0..NumExperts - 1

VARIABLES
  top_k, graphs,  \* graphs: the workspace each captured graph writes to, by size
  workspace,      \* which allocation _workspace is, 0 for none
  mem,            \* the cells of every allocation, by rank
  calls, phase, rank,
  topk_ids, used, \* of the call being made: its routing, and the allocation it writes to
  aligned,        \* sorted_token_ids, expert_ids and num_tokens_post_padded
  todo,           \* the programs of the second GEMM that have not run
  partial, out    \* of each rank: the rows it computed, and after the reductions

evars == <<top_k, graphs, workspace, mem, calls, phase, rank, topk_ids, used, aligned, todo,
           partial, out>>

\* A rank is its place in the expert-parallel and in the tensor-parallel group.
Ranks    == (0..EPSize - 1) \X (0..TPSize - 1)
RankList == [i \in 1..EPSize * TPSize |-> <<(i - 1) \div TPSize, (i - 1) % TPSize>>]

Garbage == <<"garbage">>
Zero    == <<"zero">>
---------------------------------------------------------------------------
(* Weights: load_expert_weight keeps the experts of the rank, and of each   *)
(* the slice of the intermediate dimension of its tensor-parallel rank.     *)
PerRank == NumExperts \div EPSize

Local(r, e) == r[1] * PerRank <= e /\ e < (r[1] + 1) * PerRank

\* w13_weight and w2_weight, by local expert.
Loaded(r) == [l \in 0..PerRank - 1 |-> CHOOSE w \in (0..NumExperts - 1) \X {r[2]} :
                                          Local(r, w[1]) /\ w[1] - r[1] * PerRank = l]

\* expert_map
ExpertMap(r) == [e \in 0..NumExperts - 1 |-> IF Local(r, e) THEN e - r[1] * PerRank ELSE -1]
---------------------------------------------------------------------------
(* moe_align_block_size.                                                    *)
Numel(ids)     == Len(ids) * Len(ids[1])
Pairs(ids)     == 0..Numel(ids) - 1
ExpertOf(ids, p) == ids[(p \div Len(ids[1])) + 1][(p % Len(ids[1])) + 1]

Of(ids, e)        == {p \in Pairs(ids) : ExpertOf(ids, p) = e}
Count(ids, e)     == Cardinality(Of(ids, e))
Tiles(ids, e)     == (Count(ids, e) + BlockM - 1) \div BlockM
FirstTile(ids, e) == MapThenSumSet(LAMBDA f : Tiles(ids, f), 0..e - 1)
Base(ids, e)      == FirstTile(ids, e) * BlockM
Experts           == 0..NumExperts - 1

\* What the single-program alignment takes, and its lanes for the tiles of an expert.
IsSmall(ids) == Numel(ids) <= SmallNumel /\ NumExperts <= SmallExperts

BlockB       == Max({BlockM, 2})

\* The place of each pair in its expert's bucket: in order, or as the atomic adds come.
Rankings(ids) ==
  IF IsSmall(ids)
  THEN {[p \in Pairs(ids) |-> Cardinality({q \in Of(ids, ExpertOf(ids, p)) : q < p})]}
  ELSE {f \in [Pairs(ids) -> 0..Numel(ids) - 1] :
          \A e \in Experts : {f[p] : p \in Of(ids, e)} = 0..Count(ids, e) - 1}

\* sorted_token_ids: the pairs, then the sentinel up to a whole tile; the rest is not written.
SortedIds(ids, ranking) ==
  [i \in 0..Numel(ids) + NumExperts * (BlockM - 1) - 1 |->
     LET here == {p \in Pairs(ids) : Base(ids, ExpertOf(ids, p)) + ranking[p] = i}
         pad  == \E e \in Experts : /\ Base(ids, e) + Count(ids, e) <= i
                                    /\ i < Base(ids, e) + Tiles(ids, e) * BlockM
     IN IF here # {} THEN CHOOSE p \in here : TRUE ELSE IF pad THEN Numel(ids) ELSE -2]

\* expert_ids, zero where it is not written.
ExpertIds(ids) ==
  LET Written(e) == IF IsSmall(ids) THEN Min({Tiles(ids, e), BlockB}) ELSE Tiles(ids, e)
      Filled(e)  == FirstTile(ids, e)..FirstTile(ids, e) + Written(e) - 1
  IN [b \in 0..FirstTile(ids, NumExperts) - 1 |->
        IF \E e \in Experts : b \in Filled(e)
        THEN CHOOSE e \in Experts : b \in Filled(e) ELSE 0]
---------------------------------------------------------------------------
(* The workspace: n rows of w13's output, or of w2's input and then output. *)
Need(n)       == n * Max({2, 1 + HiddenCols})
C1(p, half)   == 2 * p + half
C2(p)         == p
C3(n, p, col) == n + (p * HiddenCols) + col

\* _ensure_workspace: a larger allocation, or the one there is.
Fits(n)        == workspace # 0 /\ Need(n) <= Cardinality(DOMAIN mem[Head(RankList)][workspace])
WorkspaceFor(n) == IF Fits(n) THEN workspace ELSE Len(mem[Head(RankList)]) + 1
MemoryFor(n)   == IF Fits(n) THEN mem
                  ELSE [r \in Ranks |-> Append(mem[r], [i \in 0..Need(n) - 1 |-> Garbage])]

\* With CUDA graphs, the capture of the largest size comes first and allocates.
ExpertsInit ==
  /\ top_k \in {Len(r[1]) : r \in Routings}
  /\ workspace \in {0, 1}
  /\ graphs = [s \in IF workspace = 0 THEN {} ELSE CaptureSizes |-> workspace]
  /\ mem = [r \in Ranks |-> [a \in 1..workspace |->
              [i \in 0..Need(Max(CaptureSizes) * top_k) - 1 |-> Garbage]]]
  /\ calls = 0 /\ phase = "idle" /\ rank = 0 /\ topk_ids = << >> /\ used = 0
  /\ aligned = << >> /\ todo = {} /\ partial = << >> /\ out = << >>

\* A layer is called with a batch: as it is, or by the graph captured for its size.
Call(ids, replayed) ==
  /\ phase = "idle" /\ calls < MaxCalls /\ Len(ids[1]) = top_k
  /\ replayed => Len(ids) \in DOMAIN graphs
  /\ calls' = calls + 1 /\ topk_ids' = ids /\ phase' = "align" /\ rank' = 1
  /\ IF replayed THEN used' = graphs[Len(ids)] /\ UNCHANGED <<workspace, mem>>
     ELSE /\ workspace' = WorkspaceFor(Numel(ids)) /\ used' = workspace'
          /\ mem' = MemoryFor(Numel(ids))
  /\ partial' = << >> /\ out' = << >>
  /\ UNCHANGED <<top_k, graphs, aligned, todo>>

me == RankList[rank]

\* Align, and map the experts to the rank's.
Align ==
  /\ phase = "align"
  /\ \E ranking \in Rankings(topk_ids) :
       aligned' = [ids |-> SortedIds(topk_ids, ranking), experts |-> ExpertIds(topk_ids)]
  /\ phase' = "gemm1"
  /\ UNCHANGED <<top_k, graphs, workspace, mem, calls, rank, topk_ids, used, todo, partial, out>>

\* The pairs of a tile, without the padding, and the rank's own number of its expert.
TileRows(b)   == {aligned.ids[i] : i \in b * BlockM..((b + 1) * BlockM) - 1} \cap Pairs(topk_ids)
TileExpert(b) == ExpertMap(me)[aligned.experts[b]]
GEMMTiles     == DOMAIN aligned.experts

\* A store to the workspace of the call: values by place, for the places of each row.
Store(values) == [mem EXCEPT ![me][used] = [i \in DOMAIN @ |-> IF i \in DOMAIN values
                                                                THEN values[i] ELSE @[i]]]
At(i) == mem[me][used][i]

\* A tile of an expert of another rank stores zeros.
RemoteTile(cell) == Zero

\* First GEMM, by w13: its programs read the hidden states only and write apart.
Gate(t, half, w) == <<half, t, w>>

GEMM1 ==
  /\ phase = "gemm1"
  /\ LET tile(p)  == CHOOSE b \in GEMMTiles : p \in TileRows(b)
         Value(p, half) == IF TileExpert(tile(p)) = -1
                           THEN RemoteTile(At(C1(p, half)))
                           ELSE Gate(p \div top_k, half, Loaded(me)[TileExpert(tile(p))])
         rows == UNION {TileRows(b) : b \in GEMMTiles}
     IN mem' = Store([i \in {C1(p, half) : p \in rows, half \in 0..1} |-> Value(i \div 2, i % 2)])
  /\ phase' = "silu"
  /\ UNCHANGED <<top_k, graphs, workspace, calls, rank, topk_ids, used, aligned, todo,
                 partial, out>>

\* silu(gate) * up, whole before it is copied over what it was made from.
Mid(gate, up) == IF gate = Zero /\ up = Zero THEN Zero ELSE <<"mid", gate, up>>

Silu ==
  /\ phase = "silu"
  /\ mem' = Store([i \in {C2(p) : p \in Pairs(topk_ids)} |-> Mid(At(C1(i, 0)), At(C1(i, 1)))])
  /\ phase' = "gemm2" /\ todo' = GEMMTiles \X (0..HiddenCols - 1)
  /\ UNCHANGED <<top_k, graphs, workspace, calls, rank, topk_ids, used, aligned, partial, out>>

\* Second GEMM, by w2 and the pair's weight: one program of it.
Weighted(p, col, w, mid) == <<"out", p, col, w, mid>>

Program(b, col) ==
  /\ phase = "gemm2"
  /\ LET n == Numel(topk_ids)
         Value(p) == IF TileExpert(b) = -1 THEN RemoteTile(At(C3(n, p, col)))
                     ELSE Weighted(p, col, Loaded(me)[TileExpert(b)], At(C2(p)))
     IN mem' = Store([i \in {C3(n, p, col) : p \in TileRows(b)} |->
                        Value(CHOOSE p \in TileRows(b) : C3(n, p, col) = i)])
  /\ todo' = todo \ {<<b, col>>}
  /\ UNCHANGED <<top_k, graphs, workspace, calls, phase, rank, topk_ids, used, aligned,
                 partial, out>>

\* The sum over k: what each token's row adds up, by column.
Reduced ==
  [t \in 1..Len(topk_ids) |-> [col \in 0..HiddenCols - 1 |->
     {<<p, At(C3(Numel(topk_ids), p, col))>> : p \in ((t - 1) * top_k)..(t * top_k) - 1}]]

Finish ==
  /\ phase = "gemm2" /\ todo = {}
  /\ partial' = partial @@ (me :> Reduced)
  /\ IF rank < Len(RankList) THEN rank' = rank + 1 /\ phase' = "align"
     ELSE rank' = 0 /\ phase' = "combine"
  /\ UNCHANGED <<top_k, graphs, workspace, mem, calls, topk_ids, used, todo, out>>
  /\ aligned' = << >>

\* The all-reduces, each over a group of more than one rank.  A term keeps its rank.
Terms(r, t, col) == {<<r, x[1], x[2]>> : x \in {y \in partial[r][t][col] : y[2] # Zero}}
\* Mutant: no reduction of the tensor-parallel group once there was one of the other.
TPGroupWithoutEP(r) == IF TPSize > 1 /\ EPSize = 1 THEN {q \in Ranks : q[1] = r[1]} ELSE {r}

EPGroup(r) == IF EPSize > 1 THEN {q \in Ranks : q[2] = r[2]} ELSE {r}
TPGroup(r) == IF TPSize > 1 THEN {q \in Ranks : q[1] = r[1]} ELSE {r}

Combine ==
  /\ phase = "combine"
  /\ out' = [r \in Ranks |-> [t \in 1..Len(topk_ids) |-> [col \in 0..HiddenCols - 1 |->
               UNION {UNION {Terms(g, t, col) : g \in EPGroup(h)} : h \in TPGroup(r)}]]]
  /\ phase' = "idle" /\ partial' = << >>
  /\ UNCHANGED <<top_k, graphs, workspace, mem, calls, rank, topk_ids, used, aligned, todo>>

ExpertsNext ==
  \/ \E ids \in Routings, replayed \in BOOLEAN : Call(ids, replayed)
  \/ Align \/ GEMM1 \/ Silu \/ Finish \/ Combine
  \/ \E x \in todo : Program(x[1], x[2])
---------------------------------------------------------------------------
(* Properties.                                                             *)

\* Places of memory and programs are within their ranges.
ExpertsTypeOK ==
  /\ workspace \in 0..Len(mem[Head(RankList)]) /\ used \in 0..Len(mem[Head(RankList)])
  /\ phase \in {"idle", "align", "gemm1", "silu", "gemm2", "combine"}
  /\ rank \in 0..Len(RankList) /\ calls \in 0..MaxCalls
  /\ DOMAIN partial \subseteq Ranks

\* _eager_forward: the terms of a token on a rank, expert by expert.
Eager(r, t, col) ==
  {<<p, Weighted(p, col, w, Mid(Gate(t - 1, 0, w), Gate(t - 1, 1, w)))>> :
     <<p, w>> \in {<<q, v>> \in (((t - 1) * top_k)..(t * top_k) - 1) \X (Experts \X {r[2]}) :
                     ExpertOf(topk_ids, q) = v[1] /\ Local(r, v[1])}}

\* The fused path computes on every rank what the eager path computes there,
\* whatever order the programs ran in and whatever calls left in the workspace.
FusedIsEager ==
  \A r \in DOMAIN partial : \A t \in DOMAIN partial[r] : \A col \in 0..HiddenCols - 1 :
    {x \in partial[r][t][col] : x[2] # Zero} = Eager(r, t, col)

\* After the reductions every rank has, once each, the terms of every expert of
\* the token and of every slice of it.
CombinedIsDense ==
  phase = "idle" /\ out # << >> =>
    \A r \in Ranks : \A t \in DOMAIN out[r] : \A col \in 0..HiddenCols - 1 :
      /\ {<<x[2], x[3]>> : x \in out[r][t][col]} = UNION {Eager(q, t, col) : q \in Ranks}
      /\ Cardinality(out[r][t][col]) = top_k * TPSize
=============================================================================
