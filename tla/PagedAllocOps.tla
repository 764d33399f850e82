--------------------------- MODULE PagedAllocOps ---------------------------
(***************************************************************************)
(* The address arithmetic of miniinfer's paged KV-cache allocator: the two *)
(* Triton kernels alloc_extend_kernel and alloc_decode_kernel, and the     *)
(* host-side page count get_num_new_pages.  Constant-level operators only; *)
(* the allocator and the KV-cache manager both extend this module.         *)
(*                                                                         *)
(* A KV slot is a number, slot \div PageSize is its page.  Token positions *)
(* count from 0.                                                           *)
(* A batch is a pair of functions over 1..n that give, for the request in  *)
(* row i of the batch, its lengths before and after the step.              *)
(***************************************************************************)
EXTENDS PagePool

CONSTANT PageSize      \* tokens per page (EngineConfig.page_size)

\* A page holds at least two tokens: with page_size = 1 the host's count of
\* decode pages (seq_lens % page_size == 1) is 0 while the kernel takes one.
ASSUME PageAssumption ==
  /\ PageSize \in Nat /\ PageSize >= 2
  /\ NumPages \in Nat

PageOf(slot) == slot \div PageSize

\* The KV slots of real pages, and with them the padded slots of page 0.
Slots    == PageSize .. (PageSize * (NumPages + 1) - 1)
AnySlots == 0 .. (PageSize * (NumPages + 1) - 1)

PagesOf(slots) == {PageOf(s) : s \in slots}

CeilPages(len) == (len + PageSize - 1) \div PageSize

---------------------------------------------------------------------------
(***************************************************************************)
(* Prefix sums, as both kernels compute them: the number of new pages that *)
(* the rows before row i of the batch take.                                *)
(***************************************************************************)
NeedBefore(need, i) == Cardinality(UNION {{j} \X (1..need[j]) : j \in 1..(i - 1)})
NeedTotal(need, n)  == NeedBefore(need, n + 1)

\* New pages of a request that grows from pre to seq tokens (both kernels).
NewPages(pre, seq) == CeilPages(seq) - CeilPages(pre)

\* Mutant of ExtendSlot: the continuation of the partial page starts on the last
\* slot in use.
ExtendSlotFromLast(free, pre, need, last, i, x) ==
  IF x < CeilPages(pre[i]) * PageSize
    THEN last[i] + (x - pre[i])
    ELSE (NthFree(free, NeedBefore(need, i) + (x \div PageSize - CeilPages(pre[i])))
            * PageSize) + (x % PageSize)

\* alloc_extend_kernel: the slot of token position x of row i, pre[i] <= x.
\* Part 1 continues the partial page behind last[i]; parts 2 and 3 take the
\* row's share of free_pages, whole pages first and a partial one last.
ExtendSlot(free, pre, need, last, i, x) ==
  IF x < CeilPages(pre[i]) * PageSize
    THEN last[i] + 1 + (x - pre[i])
    ELSE (NthFree(free, NeedBefore(need, i) + (x \div PageSize - CeilPages(pre[i])))
            * PageSize) + (x % PageSize)

\* What alloc_decode_kernel counts per row.
DecodeNeed(seq) == [i \in DOMAIN seq |-> NewPages(seq[i] - 1, seq[i])]

\* Mutant of DecodeSlot: the page number is taken for an address.
DecodeSlotUnscaled(free, seq, last, i) ==
  IF DecodeNeed(seq)[i] = 0
    THEN last[i] + 1
    ELSE NthFree(free, NeedBefore(DecodeNeed(seq), i))

\* alloc_decode_kernel: the slot of the one new token of row i.  seq is the
\* seq_lens argument of the call, which the kernel takes to count the new token.
DecodeSlot(free, seq, last, i) ==
  IF DecodeNeed(seq)[i] = 0
    THEN last[i] + 1
    ELSE NthFree(free, NeedBefore(DecodeNeed(seq), i)) * PageSize

\* Mutant of DecodePagesCpu: the host reads seq as the length before the new token.
DecodePagesCpuEarly(seq) == Cardinality({i \in DOMAIN seq : seq[i] % PageSize = 0})

\* get_num_new_pages(decode=True): the host's page count for the same call.
DecodePagesCpu(seq) == Cardinality({i \in DOMAIN seq : seq[i] % PageSize = 1})

\* The pages of freed indices that enter free_pages: page 0 and pages out of
\* range are dropped by valid_mask.
Freeable(slots) == PagesOf(slots) \cap Pages

---------------------------------------------------------------------------
(***************************************************************************)
(* Rows of req_to_token: the KV slots of a request by token position, here *)
(* a sequence whose entry x is the token at position x - 1.                *)
(***************************************************************************)
BlockOf(x) == (x - 1) \div PageSize

PagesOfRow(rho) == PagesOf({rho[x] : x \in DOMAIN rho})

\* The page table of a row is sound: every token sits at its offset in its page,
\* and two tokens share a page exactly when they belong to the same page-sized
\* block of the sequence.  The attention backends read only the first entry of
\* every block of a row and rely on this for the others.
SoundRow(rho) ==
  \A x, y \in DOMAIN rho :
    /\ rho[x] % PageSize = (x - 1) % PageSize
    /\ BlockOf(x) = BlockOf(y) <=> PageOf(rho[x]) = PageOf(rho[y])
=============================================================================
