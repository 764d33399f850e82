--------------------- MODULE PagedTokenAllocatorProofs ---------------------
(***************************************************************************)
(* The safety of the page allocator and its refinement of PageLedger, for  *)
(* every page size, pool size, batch bound and set of requests.  Address   *)
(* arithmetic and the kernels' rows are in CacheLemmas; here is the        *)
(* inductive invariant of PagedTokenAllocator.                             *)
(***************************************************************************)
EXTENDS PagedTokenAllocator, CacheLemmas

---------------------------------------------------------------------------
(* The allocator.                                                          *)

\* The inductive invariant.  No conjunct is inductive alone: exclusiveness of
\* the pages an extension takes needs them to be free and held by nobody, the
\* slot that continues a partial page is the holder's only because the row is
\* sound, and a freed tail leaves the kept pages alone for the same reason.
IInv == TypeOK /\ RowLayout /\ PagesExclusive /\ PagesConserved

\* A step that extends the rows of a batch b by shares of the front of the free
\* list, as every kernel does.
Grows(n, m, need, b) ==
  /\ row' \in [Requests -> Seq(Slots)]
  /\ n \in Nat /\ m \in Nat /\ need \in [1..n -> 0..m]
  /\ b \in [1..n -> Requests] /\ \A i, j \in 1..n : b[i] = b[j] => i = j
  /\ NeedTotal(need, n) <= Cardinality(free_pages)
  /\ \A i \in 1..n :
       /\ SoundRow(row'[b[i]])
       /\ PagesOfRow(row'[b[i]]) = PagesOfRow(row[b[i]]) \cup ShareOf(free_pages, need, i)
  /\ \A r \in Requests : (\A i \in 1..n : b[i] # r) => row'[r] = row[r]
  /\ free_pages' = free_pages \ Smallest(free_pages, NeedTotal(need, n))
  /\ free_group' = free_group
  /\ is_not_in_free_group' = is_not_in_free_group

\* What the invariant says of owners.
OwnerKnown(p) ==
  /\ p \in free_pages => Owner(p) = "free"
  /\ p \in PagesOf(free_group) => Owner(p) = "returned"
  /\ \A r \in Requests : p \in Held(r) => Owner(p) = r
  /\ \/ p \in free_pages
     \/ p \in PagesOf(free_group)
     \/ \E r \in Requests : p \in Held(r)

OwnersKnown == \A p \in Pages : OwnerKnown(p)

\* Under the invariant a page has the one owner its place says.
LEMMA OwnerSpec ==
  ASSUME IInv
  PROVE  OwnersKnown
<1> SUFFICES ASSUME NEW p \in Pages
             PROVE  OwnerKnown(p)
  BY DEF OwnersKnown
<1>1. p \in free_pages => Owner(p) = "free"
  BY DEF Owner
<1>2. p \in PagesOf(free_group) => Owner(p) = "returned"
  BY DEF Owner, IInv, PagesExclusive
<1>3. ASSUME NEW r \in Requests, p \in Held(r) PROVE Owner(p) = r
  <2>1. p \notin free_pages /\ p \notin PagesOf(free_group)
    BY <1>3 DEF IInv, PagesExclusive
  <2>2. \A q \in Requests : p \in Held(q) => q = r
    BY <1>3 DEF IInv, PagesExclusive
  <2> QED BY <1>3, <2>1, <2>2 DEF Owner
<1>4. \/ p \in free_pages
      \/ p \in PagesOf(free_group)
      \/ \E r \in Requests : p \in Held(r)
  BY DEF IInv, PagesConserved
<1> QED
  BY <1>1, <1>2, <1>3, <1>4 DEF OwnerKnown

\* The same after a step.
LEMMA OwnerSpecPrime == IInv' => OwnersKnown'
<1>1. IInv => OwnersKnown
  BY OwnerSpec
<1> QED
  BY <1>1, PTL

\* A step that only takes free pages is a Grant of the ledger.
LEMMA GrantStep ==
  ASSUME IInv, IInv', free_group' = free_group, free_pages' \subseteq free_pages,
         \A r \in Requests : Held(r) \subseteq Held(r)'
  PROVE  Ledger!Grant
<1>1. OwnersKnown /\ OwnersKnown'
  BY OwnerSpec, OwnerSpecPrime
<1>2. ASSUME NEW p \in Pages
      PROVE  /\ Owner(p)' \in Requests \cup {"free", "returned"}
             /\ Owner(p)' # Owner(p) => Owner(p) = "free" /\ Owner(p)' \in Requests
  <2>1. OwnerKnown(p) /\ OwnerKnown(p)'
    BY <1>1 DEF OwnersKnown
  <2>2. PagesOf(free_group)' = PagesOf(free_group)
    OBVIOUS
  <2>3. p \in free_pages => p \notin PagesOf(free_group)
    BY DEF IInv, PagesExclusive
  <2> HIDE DEF IInv
  <2> QED BY <2>1, <2>2, <2>3 DEF OwnerKnown
<1> QED
  BY <1>2 DEF Ledger!Grant, Ledger!Free, Ledger!Returned

\* Extending rows by shares of the free list keeps the invariant, and is a Grant of
\* the ledger: the three allocation kernels are instances of it.
LEMMA Grow ==
  ASSUME IInv, NEW n, NEW m, NEW need, NEW b, Grows(n, m, need, b)
  PROVE  IInv' /\ Ledger!Grant
<1> SUFFICES ASSUME row' \in [Requests -> Seq(Slots)],
                    n \in Nat, m \in Nat, need \in [1..n -> 0..m],
                    b \in [1..n -> Requests], \A i, j \in 1..n : b[i] = b[j] => i = j,
                    NeedTotal(need, n) <= Cardinality(free_pages),
                    \A i \in 1..n :
                      /\ SoundRow(row'[b[i]])
                      /\ PagesOfRow(row'[b[i]]) =
                           PagesOfRow(row[b[i]]) \cup ShareOf(free_pages, need, i),
                    \A r \in Requests : (\A i \in 1..n : b[i] # r) => row'[r] = row[r],
                    free_pages' = free_pages \ Smallest(free_pages, NeedTotal(need, n)),
                    UNCHANGED <<is_not_in_free_group, free_group>>
             PROVE  IInv' /\ Ledger!Grant
  BY DEF Grows
<1> DEFINE F == free_pages
           taken == Smallest(F, NeedTotal(need, n))
           new(i) == ShareOf(F, need, i)
<1>1. F \in SUBSET Pages /\ taken \subseteq F
  BY DEF IInv, TypeOK, Smallest
<1>2. /\ \A i \in 1..n : new(i) \subseteq taken
      /\ \A p \in taken : \E i \in 1..n : p \in new(i)
      /\ \A i, j \in 1..n : \A p : p \in new(i) /\ p \in new(j) => i = j
  BY ONLY <1>1, n \in Nat, m \in Nat, need \in [1..n -> 0..m],
          NeedTotal(need, n) <= Cardinality(free_pages), SharesOfBatch
<1> HIDE DEF new, taken
<1>3. \A i \in 1..n : Held(b[i])' = Held(b[i]) \cup new(i)
  BY DEF new, Held
<1>4. \A r \in Requests : (\A i \in 1..n : b[i] # r) => Held(r)' = Held(r)
  BY DEF Held
<1>5. free_pages' = F \ taken /\ UNCHANGED free_group
  BY DEF taken
<1>6. TypeOK'
  BY <1>1, <1>5 DEF IInv, TypeOK
<1>7. RowLayout'
  <2> SUFFICES ASSUME NEW r \in Requests PROVE SoundRow(row'[r])
    BY DEF RowLayout
  <2>1. CASE \A i \in 1..n : b[i] # r
    BY <2>1 DEF IInv, RowLayout
  <2>2. CASE \E i \in 1..n : b[i] = r
    BY <2>2
  <2> QED BY <2>1, <2>2
<1>8. ASSUME NEW r \in Requests, NEW p \in Held(r)'
      PROVE  p \in Held(r) \/ \E i \in 1..n : b[i] = r /\ p \in new(i)
  BY <1>3, <1>4, <1>8
<1>9. ASSUME NEW r \in Requests PROVE Held(r) \subseteq Held(r)'
  BY <1>3, <1>4
<1>10. PagesExclusive'
  <2>1. ASSUME NEW r \in Requests, NEW q \in Requests, r # q,
               NEW p \in Held(r)', p \in Held(q)'
        PROVE  FALSE
    <3>1. Held(r) \cap Held(q) = {} /\ Held(r) \cap F = {} /\ Held(q) \cap F = {}
      BY <2>1 DEF IInv, PagesExclusive
    <3>2. CASE p \in Held(r) /\ p \in Held(q)
      BY <3>1, <3>2
    <3>3. CASE p \in taken
      BY <1>1, <1>2, <1>8, <2>1, <3>1, <3>3
    <3> QED BY <1>2, <1>8, <2>1, <3>2, <3>3
  <2>2. ASSUME NEW r \in Requests, NEW p \in Held(r)'
        PROVE  p \notin F \ taken /\ p \notin PagesOf(free_group)
    <3>1. Held(r) \cap (F \cup PagesOf(free_group)) = {} /\ F \cap PagesOf(free_group) = {}
      BY DEF IInv, PagesExclusive
    <3> QED BY <1>1, <1>2, <1>8, <2>2, <3>1
  <2>3. (F \ taken) \cap PagesOf(free_group) = {}
    BY DEF IInv, PagesExclusive
  <2> QED BY <1>5, <2>1, <2>2, <2>3 DEF PagesExclusive
<1>11. PagesConserved'
  <2>1. ASSUME NEW p \in Pages
        PROVE  p \in (F \ taken) \cup PagesOf(free_group)
               \/ \E r \in Requests : p \in Held(r)'
    <3>1. p \in F \cup PagesOf(free_group) \/ \E r \in Requests : p \in Held(r)
      BY DEF IInv, PagesConserved
    <3>2. CASE p \in taken
      BY <1>2, <1>3, <3>2
    <3> QED BY <1>9, <3>1, <3>2
  <2>2. ASSUME NEW r \in Requests PROVE Held(r)' \subseteq Pages
    BY <1>6, HeldPages DEF TypeOK, Held
  <2>3. PagesOf(free_group) \subseteq Pages
    BY PagesOfSlots DEF IInv, TypeOK
  <2> QED BY <1>1, <1>5, <2>1, <2>2, <2>3 DEF PagesConserved
<1>12. IInv'
  BY <1>6, <1>7, <1>10, <1>11 DEF IInv
<1>13. Ledger!Grant
  BY <1>1, <1>5, <1>9, <1>12, GrantStep
<1> QED
  BY <1>12, <1>13
---------------------------------------------------------------------------
\* A batch is a function from 1..n, without repetitions.
LEMMA BatchType ==
  ASSUME NEW b \in Batches
  PROVE  /\ Len(b) \in Nat /\ DOMAIN b = 1..Len(b)
         /\ b \in [1..Len(b) -> Requests]
         /\ \A i, j \in 1..Len(b) : b[i] = b[j] => i = j
<1>1. PICK n \in 1..MaxBatch : b \in [1..n -> Requests]
  BY DEF Batches
<1>2. n \in Nat
  BY <1>1, BoundsAssumption
<1>3. b \in Seq(Requests) /\ DOMAIN b = 1..n
  BY <1>1, <1>2
<1>4. Len(b) = n
  BY <1>1, <1>2, <1>3
<1> QED
  BY <1>1, <1>2, <1>3, <1>4 DEF Batches

\* alloc_extend keeps the invariant.
LEMMA AllocExtendStep ==
  ASSUME IInv, NEW b \in Batches, NEW to \in [DOMAIN b -> 1..MaxLen], AllocExtend(b, to)
  PROVE  IInv' /\ Ledger!Grant
<1> DEFINE n == Len(b)
           pre == [i \in 1..n |-> Len(row[b[i]])]
           need == [i \in 1..n |-> NewPages(pre[i], to[i])]
           last == [i \in 1..n |-> LastLoc(b[i])]
           new(i) == [x \in 1..to[i] |-> IF x <= pre[i]
                        THEN row[b[i]][x]
                        ELSE ExtendSlot(free_pages, pre, need, last, i, x - 1)]
           m == CeilPages(MaxLen)
<1>1. /\ n \in Nat /\ DOMAIN b = 1..n /\ b \in [1..n -> Requests]
      /\ \A i, j \in 1..n : b[i] = b[j] => i = j
  BY BatchType
<1>2. \A i \in 1..n : pre[i] = Len(row[b[i]]) /\ last[i] = LastLoc(b[i])
                     /\ need[i] = NewPages(pre[i], to[i])
  OBVIOUS
<1>3. /\ \A i \in 1..n : pre[i] < to[i]
      /\ NeedTotal(need, n) <= Cardinality(free_pages)
      /\ row' = [r \in Requests |-> IF \E i \in 1..n : b[i] = r
                                     THEN new(CHOOSE i \in 1..n : b[i] = r)
                                     ELSE row[r]]
      /\ free_pages' = free_pages \ Smallest(free_pages, NeedTotal(need, n))
      /\ UNCHANGED <<is_not_in_free_group, free_group>>
  BY Zenon DEF AllocExtend
<1>4. \A i \in 1..n : to[i] \in Nat /\ to[i] <= MaxLen /\ row[b[i]] \in Seq(Slots)
                     /\ Len(row[b[i]]) \in Nat
  BY <1>1, BoundsAssumption DEF IInv, TypeOK
<1>5. m \in Nat
  BY CeilSpec, BoundsAssumption
<1>6. need \in [1..n -> 0..m]
  <2> SUFFICES ASSUME NEW i \in 1..n PROVE NewPages(pre[i], to[i]) \in 0..m
    BY <1>2
  <2> HIDE DEF pre, m
  <2>1. pre[i] \in Nat /\ to[i] \in Nat /\ pre[i] <= to[i] /\ to[i] <= MaxLen /\ MaxLen \in Nat
    <3>1. pre[i] = Len(row[b[i]]) /\ pre[i] < to[i] /\ to[i] \in Nat /\ to[i] <= MaxLen
          /\ Len(row[b[i]]) \in Nat
      BY ONLY i \in 1..n, <1>2, <1>3, <1>4
    <3> QED BY ONLY <3>1, BoundsAssumption
  <2>2. NewPages(pre[i], to[i]) \in Nat /\ CeilPages(to[i]) <= CeilPages(MaxLen)
    BY <2>1, CeilMono
  <2>3. CeilPages(to[i]) \in Nat /\ CeilPages(pre[i]) \in Nat
    BY <2>1, CeilSpec
  <2> QED BY <1>5, <2>2, <2>3 DEF NewPages, m
<1> HIDE DEF n, pre, need, last, m
<1>7. \A i \in 1..n : (CHOOSE j \in 1..n : b[j] = b[i]) = i
  BY <1>1
<1>8. \A i \in 1..n : row'[b[i]] = new(i)
  <2> SUFFICES ASSUME NEW i \in 1..n PROVE row'[b[i]] = new(i)
    OBVIOUS
  <2>1. b[i] \in Requests
    BY <1>1
  <2>2. row'[b[i]] = IF \E j \in 1..n : b[j] = b[i]
                       THEN new(CHOOSE j \in 1..n : b[j] = b[i])
                       ELSE row[b[i]]
    BY <1>3, <2>1
  <2> HIDE DEF new
  <2> QED BY <1>7, <2>2
<1>9. \A r \in Requests : (\A i \in 1..n : b[i] # r) => row'[r] = row[r]
  BY <1>3
<1>10. ASSUME NEW i \in 1..n
       PROVE  /\ new(i) \in Seq(Slots)
              /\ SoundRow(new(i))
              /\ PagesOfRow(new(i)) =
                   PagesOfRow(row[b[i]]) \cup ShareOf(free_pages, need, i)
  <2>1. /\ pre[i] = Len(row[b[i]]) /\ last[i] = LastLoc(b[i])
        /\ to[i] \in Nat /\ Len(row[b[i]]) <= to[i]
        /\ need[i] = NewPages(Len(row[b[i]]), to[i])
    BY <1>2, <1>3, <1>4
  <2>2. row[b[i]] \in Seq(Slots) /\ SoundRow(row[b[i]])
        /\ PagesOfRow(row[b[i]]) \cap free_pages = {} /\ free_pages \in SUBSET Pages
    BY <1>1 DEF IInv, TypeOK, RowLayout, PagesExclusive, Held
  <2>3. row[b[i]] # << >> => last[i] = row[b[i]][Len(row[b[i]])]
    BY <2>1 DEF LastLoc
  <2>4. new(i) = [x \in 1..to[i] |-> IF x <= Len(row[b[i]])
                    THEN row[b[i]][x]
                    ELSE ExtendSlot(free_pages, pre, need, last, i, x - 1)]
    BY <2>1
  <2> HIDE DEF new
  <2>5. ExtendsRow(new(i), row[b[i]], to[i], free_pages, n, m, need, pre, last, i)
    BY <1>1, <1>3, <1>5, <1>6, <2>1, <2>2, <2>3, <2>4, Zenon DEF ExtendsRow
  <2>6. new(i) \in [1..to[i] -> Slots]
        /\ SoundRow(new(i))
        /\ PagesOfRow(new(i)) = PagesOfRow(row[b[i]]) \cup ShareOf(free_pages, need, i)
    BY <2>5, ExtendRow
  <2> QED BY <2>1, <2>6
<1> HIDE DEF new
<1>11. row' \in [Requests -> Seq(Slots)]
  <2>1. ASSUME NEW r \in Requests PROVE row'[r] \in Seq(Slots)
    <3>1. CASE \A i \in 1..n : b[i] # r
      BY <1>9, <3>1 DEF IInv, TypeOK
    <3>2. CASE \E i \in 1..n : b[i] = r
      BY <1>8, <1>10, <3>2
    <3> QED BY <3>1, <3>2
  <2>2. row' = [r \in Requests |-> row'[r]]
    BY <1>3
  <2> QED BY <2>1, <2>2
<1>12. \A i \in 1..n :
         /\ SoundRow(row'[b[i]])
         /\ PagesOfRow(row'[b[i]]) = PagesOfRow(row[b[i]]) \cup ShareOf(free_pages, need, i)
  BY <1>8, <1>10
<1> QED
  <2>1. Grows(n, m, need, b)
    BY <1>1, <1>3, <1>5, <1>6, <1>9, <1>11, <1>12, Zenon DEF Grows
  <2> QED BY <2>1, Grow
---------------------------------------------------------------------------
\* A function on 1..k is a sequence.
LEMMA FunctionSeq ==
  ASSUME NEW S, NEW k \in Nat, NEW f \in [1..k -> S]
  PROVE  f \in Seq(S)
OBVIOUS

\* Append, position by position.
LEMMA AppendFunction ==
  ASSUME NEW S, NEW seq \in Seq(S), NEW elt
  PROVE  Append(seq, elt) = [x \in 1..(Len(seq) + 1) |-> IF x <= Len(seq) THEN seq[x] ELSE elt]
<1> DEFINE T == S \cup {elt}
           app == Append(seq, elt)
<1>1. seq \in Seq(T) /\ elt \in T /\ Len(seq) \in Nat
  OBVIOUS
<1>2. /\ app \in Seq(T) /\ Len(app) = Len(seq) + 1
      /\ \A x \in 1..Len(seq) : app[x] = seq[x]
      /\ app[Len(seq) + 1] = elt
  <2> HIDE DEF T
  <2> QED BY <1>1, AppendProperties
<1> HIDE DEF app
<1>3. app = [x \in 1..Len(app) |-> app[x]]
  BY <1>2
<1>4. \A x \in 1..(Len(seq) + 1) : app[x] = IF x <= Len(seq) THEN seq[x] ELSE elt
  BY <1>1, <1>2
<1> QED
  BY <1>2, <1>3, <1>4 DEF app

\* alloc_decode keeps the invariant.
LEMMA AllocDecodeStep ==
  ASSUME IInv, NEW b \in Batches, AllocDecode(b)
  PROVE  IInv' /\ Ledger!Grant
<1> DEFINE n == Len(b)
           seq == [i \in 1..n |-> Len(row[b[i]]) + 1]
           pre == [i \in 1..n |-> Len(row[b[i]])]
           last == [i \in 1..n |-> LastLoc(b[i])]
           need == DecodeNeed(seq)
           new(i) == Append(row[b[i]], DecodeSlot(free_pages, seq, last, i))
<1>1. /\ n \in Nat /\ DOMAIN b = 1..n /\ b \in [1..n -> Requests]
      /\ \A i, j \in 1..n : b[i] = b[j] => i = j
  BY BatchType
<1>2. /\ \A i \in 1..n : row[b[i]] # << >>
      /\ DecodePagesCpu(seq) <= Cardinality(free_pages)
      /\ row' = [r \in Requests |->
                   IF \E i \in 1..n : b[i] = r
                     THEN Append(row[r], DecodeSlot(free_pages, seq, last,
                                                    CHOOSE i \in 1..n : b[i] = r))
                     ELSE row[r]]
      /\ free_pages' = free_pages \ Smallest(free_pages, DecodePagesCpu(seq))
      /\ UNCHANGED <<is_not_in_free_group, free_group>>
  BY Zenon DEF AllocDecode
<1>3. \A i \in 1..n : /\ row[b[i]] \in Seq(Slots) /\ Len(row[b[i]]) \in Nat
                     /\ row[b[i]][Len(row[b[i]])] \in Int
  <2> SUFFICES ASSUME NEW i \in 1..n
               PROVE  /\ row[b[i]] \in Seq(Slots) /\ Len(row[b[i]]) \in Nat
                      /\ row[b[i]][Len(row[b[i]])] \in Int
    OBVIOUS
  <2>1. row[b[i]] \in Seq(Slots) /\ row[b[i]] # << >>
    BY <1>1, <1>2 DEF IInv, TypeOK
  <2>2. row[b[i]][Len(row[b[i]])] \in Slots /\ Len(row[b[i]]) \in Nat
    BY <2>1
  <2> QED BY <2>1, <2>2 DEF Slots
<1>4. seq \in [1..n -> Nat \ {0}]
  BY <1>3
<1>5. \A i \in 1..n : /\ seq[i] = Len(row[b[i]]) + 1 /\ pre[i] = Len(row[b[i]])
                     /\ last[i] = row[b[i]][Len(row[b[i]])]
  BY <1>2 DEF LastLoc
<1>6. \A i \in 1..n : need[i] = NewPages(pre[i], seq[i]) /\ need[i] \in 0..1
  <2> SUFFICES ASSUME NEW i \in 1..n
               PROVE  need[i] = NewPages(pre[i], seq[i]) /\ need[i] \in 0..1
    OBVIOUS
  <2>1. need[i] = NewPages(seq[i] - 1, seq[i])
    BY DEF DecodeNeed
  <2>2. seq[i] \in Nat /\ seq[i] >= 1 /\ pre[i] = seq[i] - 1
    BY <1>3, <1>5
  <2> HIDE DEF seq, pre, need
  <2> QED BY <2>1, <2>2, DecodeNewPage
<1>7. need \in [1..n -> 0..1]
  BY <1>4, <1>6 DEF DecodeNeed
<1>8. NeedTotal(need, n) = DecodePagesCpu(seq)
  BY <1>1, <1>4, DecodeTotal
<1> HIDE DEF n, seq, pre, last, need
<1>9. \A i \in 1..n : (CHOOSE j \in 1..n : b[j] = b[i]) = i
  BY <1>1
<1>10. \A i \in 1..n : row'[b[i]] = new(i)
  BY <1>1, <1>2, <1>9
<1>11. \A r \in Requests : (\A i \in 1..n : b[i] # r) => row'[r] = row[r]
  BY <1>2
<1>12. ASSUME NEW i \in 1..n
       PROVE  /\ new(i) \in Seq(Slots)
              /\ SoundRow(new(i))
              /\ PagesOfRow(new(i)) = PagesOfRow(row[b[i]]) \cup ShareOf(free_pages, need, i)
  <2> DEFINE rho == row[b[i]]
             slot == DecodeSlot(free_pages, seq, last, i)
  <2>1. /\ rho \in Seq(Slots) /\ SoundRow(rho)
        /\ PagesOfRow(rho) \cap free_pages = {} /\ free_pages \in SUBSET Pages
    BY <1>1 DEF IInv, TypeOK, RowLayout, PagesExclusive, Held
  <2>2. /\ pre[i] = Len(rho) /\ seq[i] = Len(rho) + 1 /\ Len(rho) \in Nat
        /\ last[i] = rho[Len(rho)] /\ last[i] \in Int
        /\ need[i] = NewPages(Len(rho), Len(rho) + 1)
    BY <1>3, <1>5, <1>6
  <2>3. slot = ExtendSlot(free_pages, pre, need, last, i, Len(rho))
    <3>1. pre[i] = seq[i] - 1 /\ NeedTotal(DecodeNeed(seq), n) <= Cardinality(free_pages)
      BY <1>2, <1>8, <2>2 DEF need
    <3>2. DecodeSlot(free_pages, seq, last, i) =
            ExtendSlot(free_pages, pre, DecodeNeed(seq), last, i, pre[i])
      <4>1. PICK F, k, s, l, p : /\ F = free_pages /\ k = n /\ s = seq /\ l = last /\ p = pre
        OBVIOUS
      <4>2. /\ F \in SUBSET Pages /\ k \in Nat /\ s \in [1..k -> Nat \ {0}]
            /\ NeedTotal(DecodeNeed(s), k) <= Cardinality(F)
            /\ i \in 1..k /\ l[i] \in Int /\ p[i] = s[i] - 1
        BY <1>1, <1>4, <2>1, <2>2, <3>1, <4>1
      <4>3. DecodeSlot(F, s, l, i) = ExtendSlot(F, p, DecodeNeed(s), l, i, p[i])
        BY ONLY <4>2, DecodeIsExtend
      <4> QED BY <4>1, <4>3
    <3> QED BY <2>2, <3>2 DEF need
  <2> HIDE DEF rho, slot
  <2>4. Append(rho, slot) = [x \in 1..(Len(rho) + 1) |->
          IF x <= Len(rho) THEN rho[x]
                           ELSE ExtendSlot(free_pages, pre, need, last, i, x - 1)]
    <3>1. Append(rho, slot) = [x \in 1..(Len(rho) + 1) |->
             IF x <= Len(rho) THEN rho[x] ELSE slot]
      BY ONLY <2>1, AppendFunction
    <3>2. \A x \in 1..(Len(rho) + 1) : ~(x <= Len(rho)) => x - 1 = Len(rho)
      BY <2>2
    <3> QED BY <2>3, <3>1, <3>2
  <2>5. Len(rho) + 1 \in Nat /\ Len(rho) <= Len(rho) + 1
    BY <2>2
  <2>6. NeedTotal(need, n) <= Cardinality(free_pages)
    BY <1>2, <1>8
  <2>7. ExtendsRow(Append(rho, slot), rho, Len(rho) + 1, free_pages, n, 1, need, pre, last, i)
    <3>1. rho # << >> => last[i] = rho[Len(rho)]
      BY <2>2
    <3>2. 1 \in Nat
      OBVIOUS
    <3> QED BY <1>1, <1>7, <2>1, <2>2, <2>4, <2>5, <2>6, <3>1, <3>2, Zenon DEF ExtendsRow
  <2>8. /\ Append(rho, slot) \in [1..(Len(rho) + 1) -> Slots]
        /\ SoundRow(Append(rho, slot))
        /\ PagesOfRow(Append(rho, slot)) = PagesOfRow(rho) \cup ShareOf(free_pages, need, i)
    BY <2>7, ExtendRow
  <2>9. Append(rho, slot) \in Seq(Slots)
    BY ONLY <2>5, <2>8, FunctionSeq
  <2> QED BY <2>8, <2>9 DEF rho, slot
<1> HIDE DEF new
<1>13. row' \in [Requests -> Seq(Slots)]
  <2>1. ASSUME NEW r \in Requests PROVE row'[r] \in Seq(Slots)
    <3>1. CASE \A i \in 1..n : b[i] # r
      BY <1>11, <3>1 DEF IInv, TypeOK
    <3>2. CASE \E i \in 1..n : b[i] = r
      BY <1>10, <1>12, <3>2
    <3> QED BY <3>1, <3>2
  <2>2. row' = [r \in Requests |-> row'[r]]
    BY <1>2
  <2> QED BY <2>1, <2>2
<1>14. \A i \in 1..n :
         /\ SoundRow(row'[b[i]])
         /\ PagesOfRow(row'[b[i]]) = PagesOfRow(row[b[i]]) \cup ShareOf(free_pages, need, i)
  BY <1>10, <1>12
<1> QED
  <2>1. 1 \in Nat
    OBVIOUS
  <2>2. Grows(n, 1, need, b)
    BY <1>1, <1>2, <1>7, <1>8, <1>11, <1>13, <1>14, <2>1, Zenon DEF Grows
  <2> QED BY <2>2, Grow
---------------------------------------------------------------------------
\* alloc keeps the invariant: it is the extension of one empty row.
LEMMA AllocStep ==
  ASSUME IInv, NEW r \in Requests, NEW k \in Nat, Alloc(r, k)
  PROVE  IInv' /\ Ledger!Grant
<1> DEFINE F == free_pages
           b == [i \in 1..1 |-> r]
           need == [i \in 1..1 |-> k]
           pre == [i \in 1..1 |-> 0]
           last == [i \in 1..1 |-> -1]
           len == k * PageSize
           new == [x \in 1..len |->
                     (NthFree(F, (x - 1) \div PageSize) * PageSize) + ((x - 1) % PageSize)]
<1>1. /\ row[r] = << >> /\ k <= Cardinality(F)
      /\ row' = [row EXCEPT ![r] = new]
      /\ F' = F \ Smallest(F, k)
      /\ free_group' = free_group /\ is_not_in_free_group' = is_not_in_free_group
  BY DEF Alloc
<1>2. /\ NeedBefore(need, 1) = 0 /\ NeedTotal(need, 1) = k
      /\ len \in Nat /\ CeilPages(len) = k /\ CeilPages(0) = 0
  BY NeedOne, CeilMultiple
<1>3. /\ 1 \in Nat /\ 1 \in 1..1 /\ need \in [1..1 -> 0..k] /\ b \in [1..1 -> Requests]
      /\ \A i, j \in 1..1 : b[i] = b[j] => i = j
      /\ \A i \in 1..1 : i = 1 /\ b[i] = r
      /\ b[1] = r /\ need[1] = k /\ pre[1] = 0
  OBVIOUS
<1>4. /\ << >> \in Seq(Slots) /\ SoundRow(<< >>) /\ PagesOfRow(<< >>) \cap F = {}
      /\ F \in SUBSET Pages /\ Len(<< >>) = 0
      /\ (<< >> # << >> => last[1] = << >>[Len(<< >>)])
  BY <1>1 DEF IInv, TypeOK, RowLayout, PagesExclusive, Held
<1> HIDE DEF b, need, last, len
<1>5. new = [x \in 1..len |-> IF x <= Len(<< >>)
                               THEN << >>[x]
                               ELSE ExtendSlot(F, pre, need, last, 1, x - 1)]
  <2>1. ASSUME NEW x \in 1..len
        PROVE  /\ ~(x <= Len(<< >>))
               /\ ExtendSlot(F, pre, need, last, 1, x - 1) =
                    (NthFree(F, (x - 1) \div PageSize) * PageSize) + ((x - 1) % PageSize)
    <3>1. x \in Nat /\ x >= 1 /\ PageSize \in Nat
      BY <1>2, PageAssumption
    <3>2. ~(x - 1 < CeilPages(pre[1]) * PageSize)
      BY <1>2, <1>3, <3>1
    <3>3. (x - 1) \div PageSize \in Int
      BY <3>1, DivMod
    <3>4. NeedBefore(need, 1) + ((x - 1) \div PageSize - CeilPages(pre[1]))
            = (x - 1) \div PageSize
      BY <1>2, <1>3, <3>3
    <3>5. ~(x <= Len(<< >>))
      BY <1>4, <3>1
    <3> QED BY <3>2, <3>4, <3>5 DEF ExtendSlot
  <2> QED BY <2>1
<1> HIDE DEF new, pre
<1>6. ExtendsRow(new, << >>, len, F, 1, k, need, pre, last, 1)
  <2>1. /\ need[1] = NewPages(Len(<< >>), len) /\ pre[1] = Len(<< >>)
        /\ Len(<< >>) <= len /\ NeedTotal(need, 1) <= Cardinality(F)
    BY <1>1, <1>2, <1>3, <1>4 DEF NewPages
  <2> QED BY <1>2, <1>3, <1>4, <1>5, <2>1, Zenon DEF ExtendsRow
<1>7. /\ new \in [1..len -> Slots] /\ SoundRow(new)
      /\ PagesOfRow(new) = PagesOfRow(<< >>) \cup ShareOf(F, need, 1)
  BY <1>6, ExtendRow
<1>8. new \in Seq(Slots)
  BY ONLY <1>2, <1>7, FunctionSeq
<1>9. /\ row' \in [Requests -> Seq(Slots)] /\ row'[r] = new
      /\ \A q \in Requests : q # r => row'[q] = row[q]
  BY <1>1, <1>8 DEF IInv, TypeOK
<1>10. Grows(1, k, need, b)
  <2>1. \A i \in 1..1 :
          /\ SoundRow(row'[b[i]])
          /\ PagesOfRow(row'[b[i]]) = PagesOfRow(row[b[i]]) \cup ShareOf(F, need, i)
    BY <1>1, <1>3, <1>7, <1>9
  <2>2. \A q \in Requests : (\A i \in 1..1 : b[i] # q) => row'[q] = row[q]
    BY <1>3, <1>9
  <2>3. NeedTotal(need, 1) <= Cardinality(F) /\ F' = F \ Smallest(F, NeedTotal(need, 1))
    BY <1>1, <1>2
  <2> QED BY <1>1, <1>3, <1>9, <2>1, <2>2, <2>3, Zenon DEF Grows
<1> QED
  BY <1>10, Grow
---------------------------------------------------------------------------
\* free keeps the invariant: the freed tail begins on a page boundary, so no
\* page of it is also a page of the kept part.
LEMMA FreeStep ==
  ASSUME IInv, NEW r \in Requests, NEW k \in Nat, Free(r, k)
  PROVE  IInv'
<1> DEFINE rho == row[r]
           kept == SubSeq(rho, 1, k)
           freed == {rho[x] : x \in (k + 1)..Len(rho)}
<1>1. /\ k < Len(rho) /\ k % PageSize = 0
      /\ row' = [row EXCEPT ![r] = kept]
      /\ IF is_not_in_free_group
           THEN free_pages' = free_pages \cup Freeable(freed) /\ free_group' = free_group
           ELSE free_group' = free_group \cup freed /\ free_pages' = free_pages
      /\ is_not_in_free_group' = is_not_in_free_group
  BY DEF Free
<1>2. rho \in Seq(Slots) /\ Len(rho) \in Nat /\ SoundRow(rho) /\ DOMAIN rho = 1..Len(rho)
      /\ \A x \in 1..Len(rho) : rho[x] \in Slots
  BY DEF IInv, TypeOK, RowLayout
<1>3. /\ kept \in Seq(Slots) /\ DOMAIN kept = 1..k
      /\ \A x \in 1..k : kept[x] = rho[x] /\ x \in 1..Len(rho)
  <2>1. kept = [x \in 1..k |-> rho[x]]
    BY <1>1, <1>2
  <2>2. \A x \in 1..k : x \in 1..Len(rho)
    BY <1>1, <1>2
  <2>3. [x \in 1..k |-> rho[x]] \in [1..k -> Slots]
    BY <1>2, <2>2
  <2> QED BY <2>1, <2>2, <2>3, FunctionSeq
<1>4. freed \subseteq Slots
  BY <1>1, <1>2
<1> HIDE DEF kept
<1>5. PagesOfRow(kept) \cup PagesOf(freed) = PagesOfRow(rho)
  <2>1. ASSUME NEW p \in PagesOfRow(kept) PROVE p \in PagesOfRow(rho)
    BY <1>2, <1>3 DEF PagesOfRow, PagesOf
  <2>2. ASSUME NEW p \in PagesOf(freed) PROVE p \in PagesOfRow(rho)
    BY <1>1, <1>2 DEF PagesOfRow, PagesOf
  <2>3. ASSUME NEW p \in PagesOfRow(rho) PROVE p \in PagesOfRow(kept) \cup PagesOf(freed)
    <3>1. PICK x \in 1..Len(rho) : p = PageOf(rho[x])
      BY <1>2 DEF PagesOfRow, PagesOf
    <3>2. CASE x <= k
      <4>1. x \in 1..k
        BY <1>2, <3>2
      <4> QED BY <1>3, <3>1, <4>1 DEF PagesOfRow, PagesOf
    <3>3. CASE ~(x <= k)
      <4>1. x \in (k + 1)..Len(rho)
        BY <1>2, <3>3
      <4> QED BY <3>1, <4>1 DEF PagesOf
    <3> QED BY <3>2, <3>3
  <2> QED BY <2>1, <2>2, <2>3
<1>6. PagesOfRow(kept) \cap PagesOf(freed) = {}
  <2> SUFFICES ASSUME NEW x \in 1..k, NEW y \in (k + 1)..Len(rho),
                      PageOf(rho[x]) = PageOf(rho[y])
               PROVE  FALSE
    BY <1>3 DEF PagesOfRow, PagesOf
  <2>1. x \in 1..Len(rho) /\ y \in 1..Len(rho) /\ x \in Nat /\ x >= 1 /\ y \in Nat /\ y >= 1
    BY <1>2, <1>3
  <2>2. BlockOf(x) = BlockOf(y)
    BY <1>2, <2>1 DEF SoundRow
  <2> DEFINE bx == BlockOf(x)
             rx == (x - 1) % PageSize
             ry == (y - 1) % PageSize
             q == k \div PageSize
  <2>3. /\ bx \in Nat /\ rx \in 0..(PageSize - 1) /\ ry \in 0..(PageSize - 1)
        /\ x - 1 = PageSize * bx + rx /\ y - 1 = PageSize * bx + ry
    BY <2>1, <2>2, BlockSpec
  <2>4. q \in Int /\ k = PageSize * q + 0
    BY <1>1, DivMod
  <2>5. PageSize \in Nat /\ PageSize >= 2 /\ PageSize * bx \in Int /\ PageSize * q \in Int
    <3>1. bx \in Nat /\ q \in Int /\ PageSize \in Nat /\ PageSize >= 2
      BY <2>3, <2>4, PageAssumption
    <3> HIDE DEF bx, q
    <3> QED BY ONLY <3>1
  <2>6. x - 1 < k /\ k <= y - 1
    OBVIOUS
  <2> HIDE DEF bx, rx, ry, q
  <2>7. CASE bx < q
    <3>1. PageSize * bx + PageSize <= PageSize * q
      BY <2>3, <2>4, <2>7, MulOrder
    <3>2. y \in Int /\ k \in Int /\ ry \in Int /\ ry < PageSize
      BY <2>1, <2>3, <2>5
    <3> QED BY ONLY <2>3, <2>4, <2>5, <2>6, <3>1, <3>2
  <2>8. CASE q <= bx
    <3>1. PageSize * q <= PageSize * bx
      BY <2>3, <2>4, <2>8, MulMono
    <3>2. x \in Int /\ k \in Int /\ rx \in Int /\ rx >= 0
      BY <2>1, <2>3, <2>5
    <3> QED BY ONLY <2>3, <2>4, <2>5, <2>6, <3>1, <3>2
  <2> QED BY <2>3, <2>4, <2>7, <2>8
<1>7. /\ row'[r] = kept /\ row' \in [Requests -> Seq(Slots)]
      /\ \A q \in Requests : q # r => row'[q] = row[q]
  BY <1>1, <1>3 DEF IInv, TypeOK
<1>8. /\ Held(r) = PagesOfRow(kept) \cup PagesOf(freed) /\ Held(r)' = PagesOfRow(kept)
      /\ \A q \in Requests : q # r => Held(q)' = Held(q)
  BY <1>5, <1>7 DEF Held
<1>9. Freeable(freed) = PagesOf(freed) /\ PagesOf(freed) \subseteq Pages
      /\ PagesOf(free_group \cup freed) = PagesOf(free_group) \cup PagesOf(freed)
  BY <1>4, PagesOfSlots, PagesOfUnion
<1>10. SoundRow(kept)
  <2>1. \A x, y \in 1..k :
          /\ rho[x] % PageSize = (x - 1) % PageSize
          /\ BlockOf(x) = BlockOf(y) <=> PageOf(rho[x]) = PageOf(rho[y])
    BY <1>2, <1>3 DEF SoundRow
  <2> QED BY <1>3, <2>1 DEF SoundRow
<1> HIDE DEF rho, freed
<1>11. TypeOK'
  BY <1>1, <1>4, <1>7, <1>9 DEF IInv, TypeOK
<1>12. RowLayout'
  BY <1>7, <1>10 DEF IInv, RowLayout
<1>13. free_pages' \cup PagesOf(free_group)' =
         free_pages \cup PagesOf(free_group) \cup PagesOf(freed)
  BY <1>1, <1>9
<1>14. PagesExclusive'
  <2>1. \A q \in Requests : Held(q)' \subseteq Held(q)
    BY <1>8
  <2>2. \A p, q \in Requests : p # q => Held(p)' \cap Held(q)' = {}
    BY <2>1 DEF IInv, PagesExclusive
  <2>3. \A q \in Requests : Held(q)' \cap (free_pages \cup PagesOf(free_group)) = {}
    BY <2>1 DEF IInv, PagesExclusive
  <2>4. \A q \in Requests : Held(q)' \cap PagesOf(freed) = {}
    <3> SUFFICES ASSUME NEW q \in Requests PROVE Held(q)' \cap PagesOf(freed) = {}
      OBVIOUS
    <3>1. CASE q = r
      BY <1>6, <1>8, <3>1
    <3>2. CASE q # r
      BY <1>8, <3>2 DEF IInv, PagesExclusive
    <3> QED BY <3>1, <3>2
  <2>5. free_pages' \cap PagesOf(free_group)' = {}
    <3>1. PagesOf(freed) \cap (free_pages \cup PagesOf(free_group)) = {}
      BY <1>8 DEF IInv, PagesExclusive
    <3>2. free_pages \cap PagesOf(free_group) = {}
      BY DEF IInv, PagesExclusive
    <3> QED BY <1>1, <1>9, <3>1, <3>2
  <2>6. \A q \in Requests : Held(q)' \cap (free_pages' \cup PagesOf(free_group)') = {}
    BY <1>13, <2>3, <2>4
  <2> QED BY <2>2, <2>5, <2>6 DEF PagesExclusive
<1>15. PagesConserved'
  <2>1. Pages = free_pages \cup PagesOf(free_group) \cup UNION {Held(q) : q \in Requests}
    BY DEF IInv, PagesConserved
  <2>2. \A p : p \in UNION {Held(q) : q \in Requests} <=> \E q \in Requests : p \in Held(q)
    OBVIOUS
  <2>3. \A p : (\E q \in Requests : p \in Held(q)) <=>
              (\E q \in Requests : p \in Held(q)') \/ p \in PagesOf(freed)
    BY <1>8
  <2>4. \A p : p \in UNION {Held(q)' : q \in Requests} <=> \E q \in Requests : p \in Held(q)'
    OBVIOUS
  <2>5. Pages = free_pages' \cup PagesOf(free_group)' \cup UNION {Held(q)' : q \in Requests}
    BY <1>13, <2>1, <2>2, <2>3, <2>4
  <2> QED BY <2>5 DEF PagesConserved
<1> QED
  BY <1>11, <1>12, <1>14, <1>15 DEF IInv
---------------------------------------------------------------------------
\* A flush moves the pages of the free group to the free list and no others.
LEMMA FlushStep ==
  ASSUME IInv, free_pages' = free_pages \cup Freeable(free_group), free_group' = {},
         row' = row, is_not_in_free_group' \in BOOLEAN
  PROVE  IInv'
<1>1. /\ Freeable(free_group) = PagesOf(free_group) /\ PagesOf(free_group) \subseteq Pages
      /\ PagesOf(free_group)' = {}
  BY PagesOfSlots DEF IInv, TypeOK, PagesOf
<1>2. \A r \in Requests : Held(r)' = Held(r)
  BY DEF Held
<1>3. TypeOK' /\ RowLayout'
  BY <1>1 DEF IInv, TypeOK, RowLayout
<1>4. PagesExclusive'
  BY <1>1, <1>2 DEF IInv, PagesExclusive
<1>5. PagesConserved'
  <2>1. UNION {Held(r)' : r \in Requests} = UNION {Held(r) : r \in Requests}
    BY <1>2
  <2> QED BY <1>1, <2>1 DEF IInv, PagesConserved
<1> QED
  BY <1>3, <1>4, <1>5 DEF IInv

\* The invariant holds at the start.
LEMMA InitIInv ==
  ASSUME Init
  PROVE  IInv
<1>1. \A r \in Requests : Held(r) = {}
  BY DEF Init, Held, PagesOfRow, PagesOf
<1>2. PagesOf(free_group) = {}
  BY DEF Init, PagesOf
<1>3. TypeOK /\ RowLayout
  BY DEF Init, TypeOK, RowLayout, SoundRow
<1>4. PagesExclusive /\ PagesConserved
  BY <1>1, <1>2 DEF Init, PagesExclusive, PagesConserved
<1> QED
  BY <1>3, <1>4 DEF IInv

\* Every step of the allocator keeps the invariant.
LEMMA NextIInv ==
  ASSUME IInv, [Next]_vars
  PROVE  IInv'
<1>1. CASE UNCHANGED vars
  BY <1>1 DEF vars, IInv, TypeOK, RowLayout, PagesExclusive, PagesConserved, Held
<1>2. ASSUME NEW r \in Requests, NEW n \in 1..(MaxLen \div PageSize), Alloc(r, n)
      PROVE  IInv'
  <2>1. n \in Nat
    BY DivMod, BoundsAssumption
  <2> QED BY <1>2, <2>1, AllocStep
<1>3. ASSUME NEW b \in Batches, NEW to \in [DOMAIN b -> 1..MaxLen], AllocExtend(b, to)
      PROVE  IInv'
  BY <1>3, AllocExtendStep
<1>4. ASSUME NEW b \in Batches, AllocDecode(b)
      PROVE  IInv'
  BY <1>4, AllocDecodeStep
<1>5. ASSUME NEW r \in Requests, NEW k \in 0..MaxLen, Free(r, k)
      PROVE  IInv'
  BY <1>5, BoundsAssumption, FreeStep
<1>6. CASE BeginFreeGroup
  BY <1>6 DEF BeginFreeGroup, IInv, TypeOK, RowLayout, PagesExclusive, PagesConserved, Held
<1>7. CASE FlushFreeGroup
  BY <1>7, FlushStep DEF FlushFreeGroup, IInv, TypeOK
<1>8. CASE EndFreeGroup
  BY <1>8, FlushStep DEF EndFreeGroup
<1> QED
  BY <1>1, <1>2, <1>3, <1>4, <1>5, <1>6, <1>7, <1>8 DEF Next

\* IInv holds in every reachable state, for every value of the constants.
THEOREM Invariance == Spec => []IInv
<1>1. Init => IInv
  BY InitIInv
<1>2. IInv /\ [Next]_vars => IInv'
  BY NextIInv
<1> QED
  BY <1>1, <1>2, PTL DEF Spec

\* The allocator's state keeps its types; in particular no call ever hands out
\* a slot of the padded page 0 or beyond the pool.
THEOREM TypeCorrect == Spec => []TypeOK
<1>1. IInv => TypeOK
  BY DEF IInv
<1> QED
  BY <1>1, Invariance, PTL

\* alloc, alloc_extend, alloc_decode and free never give one page two owners.
THEOREM Exclusive == Spec => []PagesExclusive
<1>1. IInv => PagesExclusive
  BY DEF IInv
<1> QED
  BY <1>1, Invariance, PTL

\* No sequence of calls loses a page.
THEOREM Conserved == Spec => []PagesConserved
<1>1. IInv => PagesConserved
  BY DEF IInv
<1> QED
  BY <1>1, Invariance, PTL

\* The page tables that the attention kernels read off the rows are right.
THEOREM Layout == Spec => []RowLayout
<1>1. IInv => RowLayout
  BY DEF IInv
<1> QED
  BY <1>1, Invariance, PTL
---------------------------------------------------------------------------
\* No request is called like one of the ledger's other owners.
NamesDistinct == Requests \cap {"free", "returned", "lost"} = {}

\* A free is a GiveBack of the ledger by the caller.
LEMMA GiveBackStep ==
  ASSUME IInv, NEW r \in Requests, NEW k \in Nat, Free(r, k)
  PROVE  Ledger!GiveBack(r, "free") \/ Ledger!GiveBack(r, "returned")
<1> DEFINE freed == {row[r][x] : x \in (k + 1)..Len(row[r])}
           S == Held(r) \ Held(r)'
           to == IF is_not_in_free_group THEN "free" ELSE "returned"
<1>1. OwnersKnown /\ OwnersKnown' /\ IInv'
  BY OwnerSpec, OwnerSpecPrime, FreeStep
<1>2. Freeable(freed) = PagesOf(freed)
      /\ PagesOf(free_group \cup freed) = PagesOf(free_group) \cup PagesOf(freed)
  <2>1. freed \subseteq Slots
    <3>1. row[r] \in Seq(Slots) /\ Len(row[r]) \in Nat
      BY DEF IInv, TypeOK
    <3>2. \A x \in (k + 1)..Len(row[r]) : row[r][x] \in Slots
      BY <3>1
    <3> QED BY <3>2
  <2> QED BY <2>1, PagesOfSlots, PagesOfUnion
<1>3. /\ IF is_not_in_free_group
           THEN free_pages' = free_pages \cup Freeable(freed) /\ free_group' = free_group
           ELSE free_group' = free_group \cup freed /\ free_pages' = free_pages
      /\ \A q \in Requests : q # r => Held(q)' = Held(q)
  BY DEF Free, Held, IInv, TypeOK
<1>4. Held(r)' \subseteq Held(r)
  <2>1. row'[r] = SubSeq(row[r], 1, k) /\ row[r] \in Seq(Slots) /\ k < Len(row[r])
    BY DEF Free, IInv, TypeOK
  <2>2. DOMAIN row'[r] = 1..k /\ \A x \in 1..k : row'[r][x] = row[r][x]
        /\ DOMAIN row[r] = 1..Len(row[r]) /\ Len(row[r]) \in Nat
    BY <2>1
  <2>3. \A x \in 1..k : x \in 1..Len(row[r])
    BY <2>1, <2>2
  <2> QED BY <2>2, <2>3 DEF Held, PagesOfRow, PagesOf
<1> HIDE DEF freed
<1>5. ASSUME NEW p \in Pages
      PROVE  /\ p \in S => Owner(p) = r /\ Owner(p)' = to
             /\ p \notin S => Owner(p)' = Owner(p)
  <2>1. OwnerKnown(p) /\ OwnerKnown(p)'
    BY <1>1 DEF OwnersKnown
  <2>2. CASE p \in S
    <3>1. \A q \in Requests : p \notin Held(q)'
      <4>1. \A q \in Requests : q # r => p \notin Held(q)
        BY <2>2 DEF IInv, PagesExclusive
      <4> QED BY <1>3, <2>2, <4>1
    <3>2. p \notin free_pages /\ p \notin PagesOf(free_group)
      BY <2>2 DEF IInv, PagesExclusive
    <3> HIDE DEF S
    <3>3. CASE is_not_in_free_group
      <4>1. PagesOf(free_group)' = PagesOf(free_group)
        BY <1>3, <3>3
      <4> QED BY <2>1, <2>2, <3>1, <3>2, <3>3, <4>1 DEF OwnerKnown, S
    <3>4. CASE ~is_not_in_free_group
      <4>1. free_pages' = free_pages
        BY <1>3, <3>4
      <4> QED BY <2>1, <2>2, <3>1, <3>2, <3>4, <4>1 DEF OwnerKnown, S
    <3> QED BY <3>3, <3>4
  <2>3. CASE p \notin S
    <3>1. \A q \in Requests : p \in Held(q) => p \in Held(q)'
      BY <1>3, <2>3
    <3>2. p \in free_pages => p \in free_pages'
      BY <1>3
    <3>3. p \in PagesOf(free_group) => p \in PagesOf(free_group)'
      BY <1>2, <1>3
    <3> QED BY <2>1, <3>1, <3>2, <3>3 DEF OwnerKnown
  <2> QED BY <2>2, <2>3
<1>6. S \in SUBSET Pages
  <2>1. row[r] \in Seq(Slots)
    BY DEF IInv, TypeOK
  <2> QED BY <2>1, HeldPages DEF Held
<1> HIDE DEF S
<1>7. /\ \A p \in S : [q \in Pages |-> Owner(q)][p] = r
      /\ [q \in Pages |-> Owner(q)]' =
           [p \in Pages |-> IF p \in S THEN to ELSE [q \in Pages |-> Owner(q)][p]]
  BY <1>5, <1>6
<1> HIDE DEF to
<1>8. Ledger!GiveBack(r, to)
  BY <1>6, <1>7 DEF Ledger!GiveBack
<1> QED
  BY <1>8 DEF to

\* A flush is the ledger's Settle.
LEMMA SettleStep ==
  ASSUME NamesDistinct,
         IInv, free_pages' = free_pages \cup Freeable(free_group), free_group' = {},
         row' = row, is_not_in_free_group' \in BOOLEAN
  PROVE  Ledger!Settle
<1>1. OwnersKnown /\ OwnersKnown'
  BY OwnerSpec, OwnerSpecPrime, FlushStep
<1>2. /\ Freeable(free_group) = PagesOf(free_group)
      /\ PagesOf(free_group)' = {}
      /\ \A r \in Requests : Held(r)' = Held(r)
  BY PagesOfSlots DEF IInv, TypeOK, PagesOf, Held
<1>3. ASSUME NEW p \in Pages
      PROVE  Owner(p)' = IF Owner(p) = "returned" THEN "free" ELSE Owner(p)
  <2>1. OwnerKnown(p) /\ OwnerKnown(p)'
    BY <1>1 DEF OwnersKnown
  <2>2. \A r \in Requests : r # "returned"
    BY DEF NamesDistinct
  <2> QED BY <1>2, <2>1, <2>2 DEF OwnerKnown
<1> QED
  BY <1>3 DEF Ledger!Settle, Ledger!Free, Ledger!Returned

\* Without a change of the allocator or of a row, no page changes its owner.
LEMMA StutterStep ==
  ASSUME UNCHANGED <<free_pages, free_group, row>>
  PROVE  UNCHANGED [p \in Pages |-> Owner(p)]
<1>1. \A p \in Pages : Owner(p)' = Owner(p)
  BY DEF Owner, Held
<1> QED
  BY <1>1

\* Every step of the allocator is a step of the ledger or leaves owners alone.
LEMMA LedgerStep ==
  ASSUME NamesDistinct, IInv, [Next]_vars
  PROVE  [Ledger!Next]_([p \in Pages |-> Owner(p)])
<1>1. CASE UNCHANGED vars
  BY <1>1, StutterStep DEF vars
<1>2. ASSUME NEW r \in Requests, NEW n \in 1..(MaxLen \div PageSize), Alloc(r, n)
      PROVE  Ledger!Next
  <2>1. n \in Nat
    BY DivMod, BoundsAssumption
  <2> QED BY <1>2, <2>1, AllocStep DEF Ledger!Next
<1>3. ASSUME NEW b \in Batches, NEW to \in [DOMAIN b -> 1..MaxLen], AllocExtend(b, to)
      PROVE  Ledger!Next
  BY <1>3, AllocExtendStep DEF Ledger!Next
<1>4. ASSUME NEW b \in Batches, AllocDecode(b)
      PROVE  Ledger!Next
  BY <1>4, AllocDecodeStep DEF Ledger!Next
<1>5. ASSUME NEW r \in Requests, NEW k \in 0..MaxLen, Free(r, k)
      PROVE  Ledger!Next
  <2>1. k \in Nat
    BY BoundsAssumption
  <2> QED BY <1>5, <2>1, GiveBackStep DEF Ledger!Next, Ledger!Free, Ledger!Returned
<1>6. CASE BeginFreeGroup
  BY <1>6, StutterStep DEF BeginFreeGroup
<1>7. CASE FlushFreeGroup
  <2>1. Ledger!Settle
    BY <1>7, SettleStep DEF FlushFreeGroup, IInv, TypeOK
  <2> QED BY <2>1 DEF Ledger!Next
<1>8. CASE EndFreeGroup
  <2>1. Ledger!Settle
    BY <1>8, SettleStep DEF EndFreeGroup
  <2> QED BY <2>1 DEF Ledger!Next
<1> QED
  BY <1>1, <1>2, <1>3, <1>4, <1>5, <1>6, <1>7, <1>8 DEF Next

\* At the start the ledger has every page free.
LEMMA LedgerInit ==
  ASSUME Init
  PROVE  Ledger!Init
BY DEF Init, Ledger!Init, Ledger!Free, Owner

\* Address arithmetic, batching, the free list and the free group implement the
\* page ledger.
THEOREM Refinement ==
  ASSUME NamesDistinct
  PROVE  Spec => ImplementsLedger
<1>1. Init => Ledger!Init
  BY LedgerInit
<1>2. IInv /\ [Next]_vars => [Ledger!Next]_([p \in Pages |-> Owner(p)])
  BY LedgerStep
<1> QED
  BY <1>1, <1>2, Invariance, PTL DEF Spec, ImplementsLedger, Ledger!Spec
=============================================================================
