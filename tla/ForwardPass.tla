---------------------------- MODULE ForwardPass ----------------------------
(***************************************************************************)
(* One forward pass of the model runner: the ForwardBatch built from a     *)
(* scheduled batch, the metadata the attention backends derive from it,    *)
(* and the replay of a captured CUDA graph, whose buffers keep what the    *)
(* replays before have left in them.                                       *)
(*                                                                         *)
(* The model's numbers are abstracted to what they are computed from: a KV *)
(* entry is the token and the position it was written for, and a row of    *)
(* logits is the sequence of KV entries its query attended to.             *)
(*                                                                         *)
(* Pages come from the allocator in order.  Decodes stay inside a page,    *)
(* where the allocator's rows are laid out as the backends expect (see     *)
(* KVCacheManager).  Hidden states and vocabulary masks are not asked for. *)
(***************************************************************************)
EXTENDS Integers, FiniteSets, SequencesExt

CONSTANTS Requests,
          Arrivals,    \* the requests in the order they are prefilled, each once
          PromptLen,   \* the length of each prompt, from 1 to MaxLen
          Shared,      \* how many leading tokens all prompts have in common
          PageSize, NumPages,
          MaxBatch,    \* max_num_seqs: the largest captured size, and rows of the pool
          MaxLen       \* max_context_len

VARIABLES
  backend,        \* attn_backend.type()
  use_cuda_graph,
  kv,             \* the KV storage, by location
  req_to_token,   \* RequestPool: a row of locations for every row number
  row, seq_len,   \* of each request: its row, 0 for none, and its KV entries
  prefilled,      \* how many of Arrivals were
  running,        \* the requests of a decode batch
  graphs,         \* CudaGraphRunner.graphs: the static buffers of each captured size
  logits          \* what the last pass returned, by request

fvars == <<backend, use_cuda_graph, kv, req_to_token, row, seq_len, prefilled, running,
           graphs, logits>>

Rows == 1..MaxBatch
Locs == 0..PageSize * (NumPages + 1) - 1

Page(loc)   == loc \div PageSize
NumPagesOf(n) == (n + PageSize - 1) \div PageSize

\* max_blocks_per_seq
MaxBlocks == NumPagesOf(MaxLen)

\* The captured sizes: powers of two, and max_batch_size.
GraphSizes == ({2 ^ i : i \in 0..MaxBatch} \cap Rows) \cup {MaxBatch}

\* _get_padded_batch_size
PaddedSize(n) == CHOOSE s \in GraphSizes : s >= n /\ \A t \in GraphSizes : t >= n => s <= t

---------------------------------------------------------------------------
\* The p-th token of a request, from 1, and the KV entry of it.
TokenAt(r, p) == IF p <= Shared /\ p <= PromptLen[r] THEN <<"shared", p>> ELSE <<r, p>>
Entry(token, position) == <<token, position>>

Zero == <<"zero">>

\* _capture_graph: the warm-up writes page 0, the buffers keep the capture's values.
Captured(size) ==
  [input_ids |-> [i \in 1..size |-> Zero], positions |-> [i \in 1..size |-> 1],
   block_table |-> [i \in 1..size |-> [b \in 1..MaxBlocks |-> 0]],
   cache_seqlens |-> [i \in 1..size |-> 2], out_cache_loc |-> [i \in 1..size |-> i - 1]]

ForwardInit ==
  /\ backend \in {"flash_attention2", "flashinfer"}
  /\ use_cuda_graph \in BOOLEAN
  /\ kv = [l \in Locs |-> Entry(Zero, IF use_cuda_graph /\ l < MaxBatch THEN 1 ELSE 0)]
  /\ req_to_token = [i \in Rows |-> [p \in 1..MaxLen |-> 0]]
  /\ row = [r \in Requests |-> 0] /\ seq_len = [r \in Requests |-> 0]
  /\ prefilled = 0 /\ running = << >>
  /\ graphs = IF use_cuda_graph THEN [s \in GraphSizes |-> Captured(s)] ELSE << >>
  /\ logits = << >>

---------------------------------------------------------------------------
\* cumsum padded with a zero, and the concatenation of n sequences.
Cumsum(s)  == [i \in 1..Len(s) + 1 |-> FoldLeft(+, 0, SubSeq(s, 1, i - 1))]
Concat(s)  == FlattenSeq(s)

\* compute_positions_extend: prefix_len + 0, 1, ... for each sequence.
PositionsExtend(prefix_lens, extend_lens) ==
  Concat([i \in DOMAIN extend_lens |-> [j \in 1..extend_lens[i] |-> prefix_lens[i] + j - 1]])

\* clamp_position
ClampPosition(n) == IF n > 0 THEN n - 1 ELSE 0

\* The place of the last token of each sequence in the flat batch.
LastTokenIndices(extend_lens) == [i \in DOMAIN extend_lens |-> Cumsum(extend_lens)[i + 1]]

\* set_kv_buffer: of the values set at one location any may stay.
Written(locs, entries) ==
  LET at(l)   == {entries[i] : i \in {i \in DOMAIN locs : locs[i] = l}}
      written == {locs[i] : i \in DOMAIN locs}
  IN {[l \in Locs |-> IF l \in written THEN w[l] ELSE kv[l]] :
        w \in {f \in [written -> UNION {at(l) : l \in written}] : \A l \in written : f[l] \in at(l)}}

\* get_page_table, every page_size-th location of it, divided by the page size.
BlockTable(rows, max_seq_len, table) ==
  [i \in DOMAIN rows |->
     [b \in 1..NumPagesOf(max_seq_len) |-> Page(table[rows[i]][(b - 1) * PageSize + 1])]]

\* What attention reads through one row of a block table.
ReadBlocks(blocks, len, k) ==
  [p \in 1..len |-> k[blocks[(p - 1) \div PageSize + 1] * PageSize + ((p - 1) % PageSize)]]

\* FlashInfer's form of a block table: the pages of all rows in one sequence, where
\* each row begins in it, and how much of its last page a row uses.
Csr(block_table, seq_lens) ==
  LET num_pages == [i \in DOMAIN seq_lens |-> NumPagesOf(seq_lens[i])]
  IN [indptr |-> Cumsum(num_pages),
      indices |-> Concat([i \in DOMAIN seq_lens |-> SubSeq(block_table[i], 1, num_pages[i])]),
      last_page_len |-> [i \in DOMAIN seq_lens |-> ((seq_lens[i] - 1) % PageSize) + 1]]

ReadCsr(csr, i, k) ==
  LET pages == SubSeq(csr.indices, csr.indptr[i] + 1, csr.indptr[i + 1])
  IN ReadBlocks(pages, (Len(pages) - 1) * PageSize + csr.last_page_len[i], k)

\* What a decode's query in row i attends to, by backend.
ReadRow(block_table, seq_lens, i, k) ==
  IF backend = "flashinfer"
    THEN ReadCsr(Csr(block_table, seq_lens), i, k)
    ELSE ReadBlocks(block_table[i], seq_lens[i], k)

---------------------------------------------------------------------------
\* A pass over an EXTEND batch, of which the flat entries were written: the sequence
\* each query attends to.  FlashAttention-2 takes the keys of the pass when no request
\* of it has a prefix, else it packs those of the whole sequences out of the cache;
\* FlashInfer reads the pages.  Queries are aligned with the end of their sequence.
AttendedExtend(b, entries, k) ==
  LET hit  == \E i \in DOMAIN b.prefix_lens : b.prefix_lens[i] > 0
      cu_q == Cumsum(IF hit \/ backend = "flashinfer" THEN b.extend_lens ELSE b.seq_lens)
      cu_k == Cumsum(b.seq_lens)
      packed == IF hit
                  THEN Concat([i \in DOMAIN b.rows |->
                         [p \in 1..b.seq_lens[i] |-> k[b.table[b.rows[i]][p]]]])
                  ELSE entries
      keys(i) == IF backend = "flashinfer"
                   THEN ReadCsr(Csr(BlockTable(b.rows, b.max_seq_len, b.table), b.seq_lens), i, k)
                   ELSE SubSeq(packed, cu_k[i] + 1, cu_k[i + 1])
      seqOf(q) == CHOOSE i \in DOMAIN b.rows : cu_q[i] < q /\ q <= cu_q[i + 1]
  IN [q \in DOMAIN entries |->
        LET i == seqOf(q)
        IN SubSeq(keys(i), 1, Len(keys(i)) - (cu_q[i + 1] - q))]

\* Mutant of Padded: the rows past the batch keep what they had.
PaddedStale(g, b, new) ==
  [i \in DOMAIN g |-> IF i <= Len(b.rows) THEN new[i] ELSE g[i]]

\* One of the static buffers g after a batch b was copied into it: the rows past the
\* batch repeat the first.
Padded(g, b, new) ==
  [i \in DOMAIN g |-> IF i <= Len(b.rows) THEN new[i] ELSE new[1]]

\* The blocks of a row go over the first of the columns; what is behind stays.
CopyBlocks(old, new) ==
  [c \in DOMAIN old |-> IF c <= Len(new) THEN new[c] ELSE old[c]]

\* replay, up to the graph itself.
Filled(g, b) ==
  LET blocks == BlockTable(b.rows, b.max_seq_len, b.table)
      copied == [i \in DOMAIN b.rows |-> CopyBlocks(g.block_table[i], blocks[i])]
  IN [input_ids     |-> Padded(g.input_ids, b, b.input_ids),
      positions     |-> Padded(g.positions, b, b.positions),
      block_table   |-> Padded(g.block_table, b, copied),
      cache_seqlens |-> Padded(g.cache_seqlens, b, b.seq_lens),
      out_cache_loc |-> Padded(g.out_cache_loc, b, b.out_cache_loc)]

---------------------------------------------------------------------------
Live == {r \in Requests : row[r] # 0}
UsedBy(r) == {Page(req_to_token[row[r]][p]) : p \in 1..seq_len[r]}
FreePages == (1..NumPages) \ UNION {UsedBy(r) : r \in Live}
FreeRows    == Rows \ {row[r] : r \in Live}
Nth(S, n)   == CHOOSE x \in S : Cardinality({y \in S : y < x}) = n - 1

\* The longest prefix of whole pages that a live request has in the cache, and whose
\* it is.
PrefixLen(r) ==
  Max({0} \cup {n \in 1..(PromptLen[r] - 1) :
                  n % PageSize = 0 /\ n <= Shared /\ \E q \in Live : PromptLen[q] >= n})

Holder(n) == CHOOSE q \in Live : PromptLen[q] >= n

\* The locations of a prompt: its prefix's, then those of new pages from the
\* from-th free one on.
PromptLocs(r, prefix, from) ==
  [p \in 1..PromptLen[r] |->
     IF p <= prefix
       THEN req_to_token[row[Holder(prefix)]][p]
       ELSE Nth(FreePages, from + NumPagesOf(p) - NumPagesOf(prefix)) * PageSize + ((p - 1) % PageSize)]

\* prepare_for_extend and ForwardBatch.init_new of an EXTEND batch.
ExtendBatch(reqs, prefix) ==
  LET need(i) == NumPagesOf(PromptLen[reqs[i]]) - NumPagesOf(prefix[i])
      from    == Cumsum([i \in DOMAIN reqs |-> need(i)])
      locs(i) == PromptLocs(reqs[i], prefix[i], from[i])
      rows    == [i \in DOMAIN reqs |-> Nth(FreeRows, i)]
      lens    == [i \in DOMAIN reqs |-> PromptLen[reqs[i]]]
      extend  == [i \in DOMAIN reqs |-> lens[i] - prefix[i]]
  IN [rows |-> rows, seq_lens |-> lens, prefix_lens |-> prefix, extend_lens |-> extend,
      max_seq_len |-> Max(ToSet(lens)),
      table |-> [n \in Rows |->
        IF \E i \in DOMAIN rows : rows[i] = n
          THEN LET i == CHOOSE j \in DOMAIN rows : rows[j] = n
               IN [p \in 1..MaxLen |-> IF p <= lens[i] THEN locs(i)[p] ELSE req_to_token[n][p]]
          ELSE req_to_token[n]],
      input_ids |-> Concat([i \in DOMAIN reqs |->
                      [j \in 1..extend[i] |-> TokenAt(reqs[i], prefix[i] + j)]]),
      positions |-> PositionsExtend(prefix, extend),
      out_cache_loc |-> Concat([i \in DOMAIN reqs |->
                          [j \in 1..extend[i] |-> locs(i)[prefix[i] + j]]])]

\* forward_extend of the next n requests, and the rows sample() takes from it.
Extend(n) ==
  LET reqs     == SubSeq(Arrivals, prefilled + 1, prefilled + n)
      prefix   == [i \in 1..n |-> PrefixLen(reqs[i])]
      b        == ExtendBatch(reqs, prefix)
      entries  == [q \in DOMAIN b.input_ids |-> Entry(b.input_ids[q], b.positions[q])]
      needed   == FoldLeft(LAMBDA m, i : m + NumPagesOf(PromptLen[reqs[i]]) - NumPagesOf(prefix[i]),
                           0, [i \in DOMAIN reqs |-> i])
  IN /\ prefilled + n <= Len(Arrivals) /\ Len(running) + n <= MaxBatch
     /\ prefilled' = prefilled + n
     /\ needed <= Cardinality(FreePages)
     /\ kv' = [l \in Locs |-> IF l \in ToSet(b.out_cache_loc)
                                THEN entries[CHOOSE q \in DOMAIN entries : b.out_cache_loc[q] = l]
                                ELSE kv[l]]
     /\ req_to_token' = b.table
     /\ row' = [r \in Requests |-> IF r \in ToSet(reqs)
                                     THEN b.rows[CHOOSE i \in DOMAIN reqs : reqs[i] = r]
                                     ELSE row[r]]
     /\ seq_len' = [r \in Requests |-> IF r \in ToSet(reqs) THEN PromptLen[r] ELSE seq_len[r]]
     /\ running' = running \o reqs
     /\ LET attended == AttendedExtend(b, entries, kv')
            last     == LastTokenIndices(b.extend_lens)
        IN logits' = [r \in ToSet(reqs) |->
                        attended[last[CHOOSE i \in DOMAIN reqs : reqs[i] = r]]]
     /\ UNCHANGED <<backend, use_cuda_graph, graphs>>

\* prepare_for_decode and ForwardBatch.init_new of a DECODE batch.
DecodeBatch ==
  LET lens == [i \in DOMAIN running |-> seq_len[running[i]] + 1]
      rows == [i \in DOMAIN running |-> row[running[i]]]
      locs == [i \in DOMAIN running |-> req_to_token[rows[i]][lens[i] - 1] + 1]
  IN [rows |-> rows, seq_lens |-> lens, max_seq_len |-> Max(ToSet(lens)),
      table |-> [n \in Rows |->
        IF \E i \in DOMAIN rows : rows[i] = n
          THEN LET i == CHOOSE j \in DOMAIN rows : rows[j] = n
               IN [req_to_token[n] EXCEPT ![lens[i]] = locs[i]]
          ELSE req_to_token[n]],
      input_ids |-> [i \in DOMAIN running |-> TokenAt(running[i], lens[i])],
      positions |-> [i \in DOMAIN running |-> ClampPosition(lens[i])],
      out_cache_loc |-> locs]

\* forward_decode: a replay if graphs are captured, else eager over the same inputs.
Decode ==
  LET b      == DecodeBatch
      size   == PaddedSize(Len(running))
      static == IF use_cuda_graph
                  THEN Filled(graphs[size], b)
                  ELSE [input_ids |-> b.input_ids, positions |-> b.positions,
                        block_table |-> BlockTable(b.rows, b.max_seq_len, b.table),
                        cache_seqlens |-> b.seq_lens, out_cache_loc |-> b.out_cache_loc]
      entries == [i \in DOMAIN static.input_ids |->
                    Entry(static.input_ids[i], static.positions[i])]
  IN /\ running # << >>
     /\ \A r \in Live : seq_len[r] < MaxLen /\ seq_len[r] % PageSize # 0
     /\ \E k \in Written(static.out_cache_loc, entries) :
          /\ kv' = k
          /\ logits' = [r \in ToSet(running) |->
               ReadRow(static.block_table, static.cache_seqlens,
                       CHOOSE i \in DOMAIN running : running[i] = r, k)]
     /\ req_to_token' = b.table
     /\ seq_len' = [r \in Requests |-> IF r \in Live THEN seq_len[r] + 1 ELSE seq_len[r]]
     /\ graphs' = IF use_cuda_graph THEN [graphs EXCEPT ![size] = static] ELSE graphs
     /\ UNCHANGED <<backend, use_cuda_graph, row, prefilled, running>>

\* A request leaves the running batch; its row and pages are free, with their contents.
Leave(r) ==
  /\ r \in Live
  /\ row' = [row EXCEPT ![r] = 0] /\ seq_len' = [seq_len EXCEPT ![r] = 0]
  /\ running' = SelectSeq(running, LAMBDA q : q # r)
  /\ logits' = << >>
  /\ UNCHANGED <<backend, use_cuda_graph, kv, req_to_token, prefilled, graphs>>

ForwardNext ==
  \/ \E n \in 1..MaxBatch : Extend(n)
  \/ Decode
  \/ \E r \in Live : Leave(r)

ForwardSpec == ForwardInit /\ [][ForwardNext]_fvars

---------------------------------------------------------------------------
ForwardTypeOK ==
  /\ backend \in {"flash_attention2", "flashinfer"} /\ use_cuda_graph \in BOOLEAN
  /\ DOMAIN kv = Locs
  /\ req_to_token \in [Rows -> [1..MaxLen -> Locs]]
  /\ row \in [Requests -> 0..MaxBatch] /\ seq_len \in [Requests -> 0..MaxLen]
  /\ ToSet(running) = Live /\ Len(running) = Cardinality(Live)
  /\ DOMAIN graphs = IF use_cuda_graph THEN GraphSizes ELSE {}

Own(r, n) == [p \in 1..n |-> Entry(TokenAt(r, p), p - 1)]

\* The logits a request's next token is sampled from were computed over its own tokens,
\* each at its position and none missing, whoever shares the batch, whatever a row, a
\* page or a graph's buffers held before, on either backend and with or without a graph.
LogitsAreOwn == \A r \in DOMAIN logits : logits[r] = Own(r, seq_len[r])

\* No pass writes over the KV of a live request: not the padding rows of a replay, nor
\* a row from before.
KVUndisturbed ==
  \A r \in Live : [p \in 1..seq_len[r] |-> kv[req_to_token[row[r]][p]]] = Own(r, seq_len[r])
=============================================================================
