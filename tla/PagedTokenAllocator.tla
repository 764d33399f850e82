------------------------ MODULE PagedTokenAllocator ------------------------
(***************************************************************************)
(* miniinfer/kvcache/memory_pool.py, class PagedTokenAllocator: the pool   *)
(* of KV pages.  alloc, alloc_extend and alloc_decode take pages from the  *)
(* front of the sorted free list; free returns the pages of a slice of a   *)
(* request's KV indices, at once or, between begin_free_group and          *)
(* end_free_group, by a later flush.                                       *)
(*                                                                         *)
(* The callers are requests.  Each keeps its KV indices in a row, indexed  *)
(* by token position as RequestPool.req_to_token keeps them, and honours   *)
(* the contract the allocator states: last_loc is the slot before the new  *)
(* tokens (the debug assertion of alloc_extend), a decode call passes the  *)
(* length that counts the new token (the debug assertion of alloc_decode   *)
(* and the comment in get_num_new_pages), and a request frees its own      *)
(* slots, from a page boundary on, once.                                   *)
(***************************************************************************)
EXTENDS PagedAllocOps, Sequences

CONSTANTS Requests,    \* the callers
          MaxBatch,    \* bound: requests in one call
          MaxLen       \* bound: tokens in a row

ASSUME BoundsAssumption == MaxBatch \in Nat /\ MaxLen \in Nat

VARIABLES
  free_pages,            \* set of allocatable pages
  is_not_in_free_group,  \* free() takes effect at once
  free_group,            \* slots freed since begin_free_group
  row                    \* KV indices each request holds

vars == <<free_pages, is_not_in_free_group, free_group, row>>

TypeOK ==
  /\ free_pages \subseteq Pages
  /\ is_not_in_free_group \in BOOLEAN
  /\ free_group \subseteq Slots
  /\ row \in [Requests -> Seq(Slots)]

\* Pages request r has KV slots on.
Held(r) == PagesOfRow(row[r])

---------------------------------------------------------------------------
Init ==
  /\ free_pages = Pages
  /\ is_not_in_free_group = TRUE
  /\ free_group = {}
  /\ row = [r \in Requests |-> << >>]

\* The batches of a call: up to MaxBatch different requests in some order.
Batches == {b \in UNION {[1..n -> Requests] : n \in 1..MaxBatch} :
              \A i, j \in DOMAIN b : b[i] = b[j] => i = j}

LastLoc(r) == IF row[r] = << >> THEN -1 ELSE row[r][Len(row[r])]

\* alloc: n whole pages in one piece, for a request that holds nothing.
Alloc(r, n) ==
  /\ row[r] = << >>
  /\ n <= Cardinality(free_pages)
  /\ row' = [row EXCEPT ![r] =
               [x \in 1..(n * PageSize) |->
                  (NthFree(free_pages, (x - 1) \div PageSize) * PageSize)
                    + ((x - 1) % PageSize)]]
  /\ free_pages' = free_pages \ Smallest(free_pages, n)
  /\ UNCHANGED <<is_not_in_free_group, free_group>>

\* alloc_extend: row b[i] grows to `to[i]` tokens.  Without enough free pages
\* the call returns None and changes nothing.
AllocExtend(b, to) ==
  LET n    == Len(b)
      pre  == [i \in 1..n |-> Len(row[b[i]])]
      need == [i \in 1..n |-> NewPages(pre[i], to[i])]
      last == [i \in 1..n |-> LastLoc(b[i])]
      new(i) == [x \in 1..to[i] |->
                   IF x <= pre[i]
                     THEN row[b[i]][x]
                     ELSE ExtendSlot(free_pages, pre, need, last, i, x - 1)]
  IN /\ \A i \in 1..n : pre[i] < to[i]
     /\ NeedTotal(need, n) <= Cardinality(free_pages)
     /\ row' = [r \in Requests |->
                  IF \E i \in 1..n : b[i] = r
                    THEN new(CHOOSE i \in 1..n : b[i] = r)
                    ELSE row[r]]
     /\ free_pages' = free_pages \ Smallest(free_pages, NeedTotal(need, n))
     /\ UNCHANGED <<is_not_in_free_group, free_group>>

\* alloc_decode: every request of the batch gets the slot of one more token.
\* The host subtracts its own page count, not the kernel's.
AllocDecode(b) ==
  LET n    == Len(b)
      seq  == [i \in 1..n |-> Len(row[b[i]]) + 1]
      last == [i \in 1..n |-> LastLoc(b[i])]
  IN /\ \A i \in 1..n : row[b[i]] # << >> /\ seq[i] <= MaxLen
     /\ DecodePagesCpu(seq) <= Cardinality(free_pages)
     /\ row' = [r \in Requests |->
                  IF \E i \in 1..n : b[i] = r
                    THEN Append(row[r],
                                DecodeSlot(free_pages, seq, last,
                                           CHOOSE i \in 1..n : b[i] = r))
                    ELSE row[r]]
     /\ free_pages' = free_pages \ Smallest(free_pages, DecodePagesCpu(seq))
     /\ UNCHANGED <<is_not_in_free_group, free_group>>

\* free: request r gives back its slots from position k on, a page boundary.
Free(r, k) ==
  /\ k < Len(row[r]) /\ k % PageSize = 0
  /\ LET freed == {row[r][x] : x \in (k + 1)..Len(row[r])}
     IN IF is_not_in_free_group
          THEN /\ free_pages' = free_pages \cup Freeable(freed)
               /\ UNCHANGED free_group
          ELSE /\ free_group' = free_group \cup freed
               /\ UNCHANGED free_pages
  /\ row' = [row EXCEPT ![r] = SubSeq(@, 1, k)]
  /\ UNCHANGED is_not_in_free_group

BeginFreeGroup ==
  /\ is_not_in_free_group' = FALSE
  /\ UNCHANGED <<free_pages, free_group, row>>

\* Mutant of FlushFreeGroup: the group is not emptied.
FlushKeepsGroup ==
  /\ free_pages' = free_pages \cup Freeable(free_group)
  /\ UNCHANGED <<free_group, is_not_in_free_group, row>>

\* flush_free_group: one merge of everything freed since the group began.
FlushFreeGroup ==
  /\ free_pages' = free_pages \cup Freeable(free_group)
  /\ free_group' = {}
  /\ UNCHANGED <<is_not_in_free_group, row>>

\* Mutant of EndFreeGroup: the group is dropped without the flush.
EndWithoutFlush ==
  /\ free_group' = {}
  /\ is_not_in_free_group' = TRUE
  /\ UNCHANGED <<free_pages, row>>

\* end_free_group flushes and then leaves the group.
EndFreeGroup ==
  /\ free_pages' = free_pages \cup Freeable(free_group)
  /\ free_group' = {}
  /\ is_not_in_free_group' = TRUE
  /\ UNCHANGED row

Next ==
  \/ \E r \in Requests, n \in 1..(MaxLen \div PageSize) : Alloc(r, n)
  \/ \E b \in Batches : \E to \in [DOMAIN b -> 1..MaxLen] : AllocExtend(b, to)
  \/ \E b \in Batches : AllocDecode(b)
  \/ \E r \in Requests, k \in 0..MaxLen : Free(r, k)
  \/ BeginFreeGroup
  \/ FlushFreeGroup
  \/ EndFreeGroup

Spec == Init /\ [][Next]_vars

---------------------------------------------------------------------------
\* No page has two owners: requests hold different pages, and a page that is
\* free or waits in the free group is held by nobody.  A kernel that read a
\* page outside the host's count, or a prefix sum that let two rows of a
\* batch share a page, would break it.
PagesExclusive ==
  /\ \A r, q \in Requests : r # q => Held(r) \cap Held(q) = {}
  /\ \A r \in Requests : Held(r) \cap (free_pages \cup PagesOf(free_group)) = {}
  /\ free_pages \cap PagesOf(free_group) = {}

\* No page is lost: each is free, waits in the free group or is held.
PagesConserved ==
  Pages = free_pages \cup PagesOf(free_group) \cup UNION {Held(r) : r \in Requests}

\* Every request's page table is sound, whatever calls built it: the kernels'
\* slots stay at their offsets, and one block of tokens is on one page.
RowLayout == \A r \in Requests : SoundRow(row[r])

---------------------------------------------------------------------------
\* Who has a page, in the vocabulary of the abstract specification.
Owner(p) ==
  IF p \in free_pages THEN "free"
  ELSE IF p \in PagesOf(free_group) THEN "returned"
  ELSE IF \E r \in Requests : p \in Held(r)
         THEN CHOOSE r \in Requests : p \in Held(r)
         ELSE "lost"

Ledger == INSTANCE PageLedger WITH owner <- [p \in Pages |-> Owner(p)]

\* The allocator implements the page ledger: a page goes from free to one
\* request, from there to the free group or to free, and what was freed inside
\* a group is allocatable only after a flush.
ImplementsLedger == Ledger!Spec
=============================================================================
