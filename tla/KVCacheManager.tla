--------------------------- MODULE KVCacheManager ---------------------------
(***************************************************************************)
(* miniinfer/kvcache/kv_cache_manager.py: the KV memory of a request from  *)
(* the match of its prompt to its release.  Composes the page allocator    *)
(* (PagedAllocOps), the radix cache (RadixTreeOps) and RequestPool, whose  *)
(* rows keep the indices of earlier occupants when they are reused.        *)
(*                                                                         *)
(* Requests run as the engine runs them.  A forward pass gives every       *)
(* request of the batch a token; the token is known to the host            *)
(* (Req.output_ids) at once in the synchronous engine and one forward pass *)
(* later in the overlapped one, so a decode may be prepared with or        *)
(* without the token it feeds on being known.  Requests finish with either *)
(* one more token than row entries or as many.                             *)
(*                                                                         *)
(* Where the code raises RuntimeError (a full request pool, too few pages  *)
(* after eviction) the engine stops: those steps are not enabled here.     *)
(***************************************************************************)
EXTENDS PagedAllocOps, RadixTreeOps

CONSTANTS Requests,
          Prompt,       \* origin_input_ids of each request
          Tokens,       \* tokens the model can sample
          MaxRequests,  \* rows of the request pool
          MaxOutput,    \* bound: sampling_params.max_tokens
          MaxLocks      \* bound: times a request is matched

ASSUME ManagerAssumption ==
  /\ IsFiniteSet(Requests) /\ Tokens \subseteq Nat
  /\ \A r \in Requests : Prompt[r] \in Seq(Nat) \ {<< >>}
  /\ MaxRequests \in Nat /\ MaxOutput \in Nat /\ MaxLocks \in Nat

VARIABLES
  free_pages,    \* PagedTokenAllocator.free_pages
  tree,          \* RadixCache
  req_to_token,  \* RequestPool: row -> KV index by token position
  free_slots,    \* RequestPool: free rows, first in first out
  running,       \* the requests of running_batch, in batch order
  req            \* the KV fields of every Req

vars == <<free_pages, tree, req_to_token, free_slots, running, req>>

MaxPrompt == CHOOSE m \in {Len(Prompt[r]) : r \in Requests} :
               \A r \in Requests : Len(Prompt[r]) <= m
MaxLen    == MaxPrompt + MaxOutput
Rows      == 0..(MaxRequests - 1)

\* A request before it has matched anything.
Fresh(r) == [state |-> "waiting", tokens |-> Prompt[r], req_pool_idx |-> -1,
             last_node |-> << >>, prefix_indices |-> << >>, matches |-> 0, seq_len |-> 0]

Protected(r) == Len(req[r].prefix_indices)   \* cache_protected_len

\* The KV indices of r's tokens that are in its row, and the pages among them
\* that r does not share with the tree.
Row(r)      == [x \in 1..req[r].seq_len |-> req_to_token[req[r].req_pool_idx][x]]
OwnPages(r) == PagesOf({Row(r)[x] : x \in (Protected(r) + 1)..req[r].seq_len})

Running == {r \in Requests : req[r].state = "running"}

---------------------------------------------------------------------------
\* Page-sized chunks of a sequence of tokens or of KV indices; the radix cache
\* keeps whole chunks only.
ChunksOf(s) == [i \in 1..(Len(s) \div PageSize) |->
                  SubSeq(s, (i - 1) * PageSize + 1, i * PageSize)]

\* The pages free() makes of a chunk of indices.
ChunkPages == [chunk \in [1..PageSize -> Nat] |-> Freeable(Range(chunk))]

AvailableSize == Cardinality(free_pages) * PageSize

\* radix.evict when `need` tokens are more than available_size().  The shortage
\* is rounded up to whole pages.
EvictFor(need) ==
  EvictOutcomes(tree, free_pages,
                IF AvailableSize < need THEN CeilPages(need - AvailableSize) ELSE 0,
                ChunkPages)

Init ==
  /\ free_pages = Pages
  /\ tree = EmptyTree
  /\ req_to_token = [i \in Rows |-> [x \in 1..MaxLen |-> 0]]
  /\ free_slots = [i \in 1..MaxRequests |-> i - 1]
  /\ running = << >>
  /\ req = [r \in Requests |-> Fresh(r)]

\* fill_ids without the last token, whose logits the prefill has to produce.
MatchKey(r) == ChunksOf(Front(req[r].tokens))

\* prefix_for_waiting_req: match all tokens but the last, and lock the match.  A
\* request that is not admitted is matched again when it is considered next.
PrefixForWaitingReq(r) ==
  LET w == Walk(tree, MatchKey(r))
      n == Matched(tree, MatchKey(r))
  IN /\ req[r].state \in {"waiting", "matched"}
     /\ req[r].matches < MaxLocks
     /\ tree' = IncLock(w, n)
     /\ req' = [req EXCEPT ![r].state = "matched", ![r].last_node = n,
                           ![r].prefix_indices = FlattenSeq(ValueTo(w, n)),
                           ![r].matches = @ + 1]
     /\ UNCHANGED <<free_pages, req_to_token, free_slots, running>>

\* prepare_for_extend on the batch b: rows from the request pool, eviction, pages
\* behind every request's prefix, and the indices of both into the rows.
PrepareForExtend(b) ==
  LET n    == Len(b)
      pre  == [i \in 1..n |-> Protected(b[i])]
      seq  == [i \in 1..n |-> Len(req[b[i]].tokens)]
      need == [i \in 1..n |-> NewPages(pre[i], seq[i])]
      last == [i \in 1..n |-> IF pre[i] = 0 THEN -1 ELSE Last(req[b[i]].prefix_indices)]
      extend_num_tokens == FoldFunction(+, 0, [i \in 1..n |-> seq[i] - pre[i]])
  IN /\ \A i \in 1..n : req[b[i]].state = "matched"
     /\ n <= Len(free_slots)
     /\ \E e \in EvictFor(extend_num_tokens) :
          /\ NeedTotal(need, n) <= Cardinality(e.free)
          /\ tree' = e.tree
          /\ free_pages' = e.free \ Smallest(e.free, NeedTotal(need, n))
          /\ req_to_token' = [j \in Rows |->
               IF \E i \in 1..n : free_slots[i] = j
                 THEN LET i == CHOOSE i \in 1..n : free_slots[i] = j
                      IN [x \in 1..MaxLen |->
                            IF x <= pre[i] THEN req[b[i]].prefix_indices[x]
                            ELSE IF x <= seq[i] THEN ExtendSlot(e.free, pre, need, last, i, x - 1)
                            ELSE req_to_token[j][x]]
                 ELSE req_to_token[j]]
     /\ free_slots' = SubSeq(free_slots, n + 1, Len(free_slots))
     /\ running' = running \o b
     /\ req' = [r \in Requests |->
                  IF \E i \in 1..n : b[i] = r
                    THEN [req[r] EXCEPT !.state = "running", !.seq_len = Len(req[r].tokens),
                            !.req_pool_idx = free_slots[CHOOSE i \in 1..n : b[i] = r]]
                    ELSE req[r]]

\* Mutant of NewPos: seq_lens - 1 of the lengths before add_(1).
NewPosBefore(r) == req[r].seq_len

\* Where the row gets the new index: seq_lens - 1 after seq_lens.add_(1), here
\* counted from 1.
NewPos(r) == req[r].seq_len + 1

\* prepare_for_decode on the running batch.  The lengths handed to
\* alloc_pages_decode do not count the new token: seq_lens.add_(1) comes after.
PrepareForDecode ==
  LET n    == Len(running)
      seq  == [i \in 1..n |-> req[running[i]].seq_len]
      last == [i \in 1..n |-> req_to_token[req[running[i]].req_pool_idx][seq[i]]]
  IN /\ n > 0
     /\ \A i \in 1..n : /\ seq[i] <= Len(req[running[i]].tokens)
                        /\ seq[i] + 1 < Len(Prompt[running[i]]) + MaxOutput
     /\ \E e \in EvictFor(n) :
          /\ DecodePagesCpu(seq) <= Cardinality(e.free)
          /\ tree' = e.tree
          /\ free_pages' = e.free \ Smallest(e.free, DecodePagesCpu(seq))
          /\ req_to_token' = [j \in Rows |->
               IF \E i \in 1..n : req[running[i]].req_pool_idx = j
                 THEN LET i == CHOOSE i \in 1..n : req[running[i]].req_pool_idx = j
                      IN [req_to_token[j] EXCEPT ![NewPos(running[i])] = DecodeSlot(e.free, seq, last, i)]
                 ELSE req_to_token[j]]
     /\ req' = [r \in Requests |->
                  IF r \in Running THEN [req[r] EXCEPT !.seq_len = @ + 1] ELSE req[r]]
     /\ UNCHANGED <<free_slots, running>>

\* append_output_token: the result of a forward pass over seq_len tokens.
AppendOutputToken(r, t) ==
  /\ req[r].state = "running"
  /\ Len(req[r].tokens) <= req[r].seq_len
  /\ Len(req[r].tokens) < Len(Prompt[r]) + MaxOutput
  /\ req' = [req EXCEPT ![r].tokens = Append(@, t)]
  /\ UNCHANGED <<free_pages, tree, req_to_token, free_slots, running>>

\* Mutant of FreedOnRelease: what the tree had already is kept.
FreedTailOnly(r, known) ==
  LET n == Len(req[r].tokens)
  IN (n - (n % PageSize) + 1)..n

\* Positions whose indices release_request frees: behind the request's protected
\* prefix, what the tree had from others, and what is behind the last full page.
FreedOnRelease(r, known) ==
  LET n == Len(req[r].tokens)
  IN ((Protected(r) + 1)..known) \cup ((n - (n % PageSize) + 1)..n)

\* Mutant of FreeRow: the row stays taken.
FreeRowNever(i) == free_slots

\* RequestPool.free.
FreeRow(i) == Append(free_slots, i)

\* release_request(is_insert=True), and update_finished_req_radix_cache, which is
\* the same: num_tokens entries of the row are read, the full pages inserted.
Release(r, after) ==
  LET kv    == [x \in 1..Len(req[r].tokens) |-> req_to_token[req[r].req_pool_idx][x]]
      key   == ChunksOf(req[r].tokens)
      known == Len(Matched(tree, key)) * PageSize
  IN /\ tree' = DecLock(Insert(tree, key, ChunksOf(kv)), req[r].last_node)
     /\ free_pages' = free_pages \cup Freeable({kv[x] : x \in FreedOnRelease(r, known)})
     /\ free_slots' = FreeRow(req[r].req_pool_idx)
     /\ running' = RemoveAt(running, CHOOSE i \in DOMAIN running : running[i] = r)
     /\ req' = [req EXCEPT ![r] = after]
     /\ UNCHANGED req_to_token

\* A finished request is released and leaves.
UpdateFinished(r) ==
  /\ req[r].state = "running"
  /\ Len(req[r].tokens) > Len(Prompt[r])
  /\ Release(r, [Fresh(r) EXCEPT !.state = "done"])

\* _check_decode_mem retracts the last request of the batch: released, its output
\* dropped, back to the waiting queue.
Retract ==
  /\ running # << >>
  /\ LET r == Last(running)
     IN Release(r, [Fresh(r) EXCEPT !.matches = req[r].matches])

Next ==
  \/ \E r \in Requests : PrefixForWaitingReq(r)
  \/ \E b \in {<<r>> : r \in Requests} \cup (Requests \X Requests) :
       IsInjective(b) /\ PrepareForExtend(b)
  \/ PrepareForDecode
  \/ \E r \in Requests, t \in Tokens : AppendOutputToken(r, t)
  \/ \E r \in Requests : UpdateFinished(r)
  \/ Retract

Spec == Init /\ [][Next]_vars

---------------------------------------------------------------------------
TypeOK ==
  /\ free_pages \subseteq Pages
  /\ \A i \in Rows : DOMAIN req_to_token[i] = 1..MaxLen /\ Range(req_to_token[i]) \subseteq Nat
  /\ running \in Seq(Requests)
  /\ \A r \in Requests :
       /\ req[r].state \in {"waiting", "matched", "running", "done"}
       /\ req[r].tokens \in Seq(Range(Prompt[r]) \cup Tokens)
       /\ req[r].req_pool_idx \in Rows \cup {-1}
       /\ Protected(r) = Len(req[r].last_node) * PageSize
       /\ Protected(r) < Len(req[r].tokens)
       /\ req[r].seq_len \in 0..MaxLen

\* The row a request writes and reads is its own: every row of the pool is free
\* once or belongs to one request of the running batch.
RowsExclusive ==
  /\ Range(running) = Running /\ IsInjective(running) /\ IsInjective(free_slots)
  /\ Range(free_slots) \cup {req[r].req_pool_idx : r \in Running} = Rows
  /\ Len(free_slots) + Len(running) = MaxRequests

\* Rows of the pool and the requests in them, with the types of all fields.
RowsAreExclusive == TypeOK /\ RowsExclusive

Holders(n) == {r \in Requests : req[r].state \in {"matched", "running"}
                                   /\ IsPrefix(n, req[r].last_node)}

\* The prefix a request was given stays its own until it is released: the nodes
\* it locked are in the tree with the indices it was given, locked at least once
\* for each request on them, and its row still begins with these indices.
PrefixStays ==
  /\ \A r \in Requests : req[r].state \in {"matched", "running"} =>
       /\ req[r].last_node \in Nodes(tree) \cup {<< >>}
       /\ req[r].prefix_indices = FlattenSeq(ValueTo(tree, req[r].last_node))
       /\ req[r].state = "running" => IsPrefix(req[r].prefix_indices, Row(r))
  /\ \A n \in Nodes(tree) : tree.lock[n] >= Cardinality(Holders(n))

TreePages == UNION {UNION {ChunkPages[c] : c \in Range(tree.value[n])} : n \in Nodes(tree)}

\* Every page of the pool is in exactly one place: free, in the tree, or behind
\* the shared prefix of one running request.
OnePlace ==
  /\ Pages = free_pages \cup TreePages \cup UNION {OwnPages(r) : r \in Running}
  /\ free_pages \cap TreePages = {}
  /\ \A r \in Running :
       /\ OwnPages(r) \cap (free_pages \cup TreePages) = {}
       /\ \A q \in Running \ {r} : OwnPages(r) \cap OwnPages(q) = {}

\* The page table of every running request is sound, the shared prefix included:
\* one block of tokens, one page, every token at its offset.
RowLayout == \A r \in Running : SoundRow(Row(r))
=============================================================================
