---------------------------- MODULE CacheLemmas ----------------------------
(***************************************************************************)
(* What the operators of the KV cache compute, for every page size, pool,  *)
(* batch and tree: the address arithmetic of PagedAllocOps and the tree    *)
(* operations of RadixTreeOps.  The proofs of the allocator, of the prefix *)
(* cache and of the KV cache manager cite these lemmas.                    *)
(*                                                                         *)
(* The first part has two layers: addresses (the sorted free list, prefix  *)
(* sums over a batch, page counts); rows of KV slots and their page tables *)
(* (a sound row of len tokens is the same thing as an injective page table *)
(* over the blocks 0..CeilPages(len)-1, and alloc_extend_kernel appends    *)
(* the row's share of the free list to it).                                *)
(*                                                                         *)
(* In the second part a tree is seen as a map from the paths it knows to   *)
(* pages: At(t, p) is the node whose own key path p ends in, PageAt(t, p)  *)
(* its page.  Walks and splits leave that map alone, an insert extends it, *)
(* locks do not touch it, and eviction takes the ends of paths away.  The  *)
(* sizes count paths, so that no lemma has to add up lengths of nodes.     *)
(***************************************************************************)
EXTENDS PagedAllocOps, RadixTreeOps, FiniteSetTheorems, SequenceTheorems, TLAPS

---------------------------------------------------------------------------
(* Addresses.                                                              *)

\* Set extensionality of the free list: ranks are numbers below the size.
LEMMA RankRange ==
  ASSUME NEW S \in SUBSET Int, IsFiniteSet(S), NEW p \in S
  PROVE  /\ Cardinality(S) \in Nat
         /\ Rank(S, p) \in 0..(Cardinality(S) - 1)
<1> DEFINE B == {q \in S : q < p}
<1>1. B \in SUBSET S /\ B # S
  OBVIOUS
<1>2. /\ Cardinality(S) \in Nat /\ Cardinality(B) \in Nat
      /\ Cardinality(B) <= Cardinality(S)
      /\ Cardinality(S) # Cardinality(B)
  BY <1>1, FS_Subset, FS_CardinalityType
<1> QED
  BY <1>2 DEF Rank

\* A smaller page has a smaller rank.
LEMMA RankMono ==
  ASSUME NEW S \in SUBSET Int, IsFiniteSet(S), NEW p \in S, NEW q \in S, p < q
  PROVE  Rank(S, p) < Rank(S, q)
<1> DEFINE A == {x \in S : x < p}
           B == {x \in S : x < q}
<1>1. A \in SUBSET B /\ A # B
  <2>1. p \in B /\ p \notin A
    OBVIOUS
  <2>2. \A x \in S : x \in Int
    OBVIOUS
  <2>3. ASSUME NEW x \in A
        PROVE  x \in B
    <3>1. x \in Int /\ p \in Int /\ q \in Int /\ x \in S /\ x < p
      BY <2>2, <2>3
    <3>2. x < q
      BY <3>1
    <3> QED BY <3>1, <3>2
  <2> HIDE DEF A, B
  <2> QED BY <2>1, <2>3
<1>2. IsFiniteSet(B)
  BY FS_Subset
<1>3. /\ Cardinality(A) \in Nat /\ Cardinality(B) \in Nat
      /\ Cardinality(A) <= Cardinality(B)
      /\ Cardinality(B) # Cardinality(A)
  BY <1>1, <1>2, FS_Subset, FS_CardinalityType
<1> QED
  BY <1>3 DEF Rank

\* free_pages[k] exists for every index below the length of the list.
LEMMA NthFreeExists ==
  ASSUME NEW S \in SUBSET Int, IsFiniteSet(S), NEW k \in 0..(Cardinality(S) - 1)
  PROVE  \E p \in S : Rank(S, p) = k
<1> SUFFICES ASSUME \A p \in S : Rank(S, p) # k
             PROVE  FALSE
  OBVIOUS
<1> DEFINE c == Cardinality(S)
           T == (0..(c - 1)) \ {k}
           f == [p \in S |-> Rank(S, p)]
<1>1. c \in Nat
  BY FS_CardinalityType
<1>2. IsFiniteSet(0..(c - 1)) /\ Cardinality(0..(c - 1)) = c
  BY <1>1, FS_Interval
<1>3. IsFiniteSet(T) /\ Cardinality(T) = c - 1
  <2> DEFINE I == 0..(c - 1)
  <2>1. IsFiniteSet(I) /\ Cardinality(I) = c /\ k \in I /\ T = I \ {k}
    BY <1>2
  <2> HIDE DEF I, T, c
  <2>2. /\ IsFiniteSet(I \ {k})
        /\ Cardinality(I \ {k}) = IF k \in I THEN Cardinality(I) - 1 ELSE Cardinality(I)
    BY ONLY <2>1, FS_RemoveElement
  <2> QED BY ONLY <2>1, <2>2
<1>4. f \in [S -> T]
  BY RankRange
<1>5. PICK x \in S, y \in S : x # y /\ f[x] = f[y]
  <2>1. Cardinality(T) < Cardinality(S)
    BY <1>1, <1>3
  <2> HIDE DEF f, T, c
  <2> QED BY <1>3, <1>4, <2>1, FS_PigeonHole
<1>6. x < y \/ y < x
  BY <1>5
<1> QED
  BY <1>5, <1>6, RankMono, RankRange

\* What free_pages[k] is: an element, at index k, the only one there.
LEMMA NthFreeProp ==
  ASSUME NEW S \in SUBSET Int, IsFiniteSet(S), NEW k \in 0..(Cardinality(S) - 1)
  PROVE  NthFree(S, k) \in S /\ Rank(S, NthFree(S, k)) = k
BY NthFreeExists DEF NthFree

\* The first n entries are those at the indices below n.
LEMMA NthFreeSmallest ==
  ASSUME NEW S \in SUBSET Int, IsFiniteSet(S), NEW n \in Nat, n <= Cardinality(S),
         NEW p
  PROVE  p \in Smallest(S, n) <=> \E k \in 0..(n - 1) : p = NthFree(S, k)
<1>1. Cardinality(S) \in Nat
  BY FS_CardinalityType
<1>2. ASSUME p \in Smallest(S, n)
      PROVE  \E k \in 0..(n - 1) : p = NthFree(S, k)
  <2>1. p \in S /\ Rank(S, p) \in 0..(n - 1) /\ Rank(S, p) \in 0..(Cardinality(S) - 1)
    BY <1>2, RankRange DEF Smallest
  <2> DEFINE q == NthFree(S, Rank(S, p))
  <2>2. q \in S /\ Rank(S, q) = Rank(S, p)
    BY <2>1, NthFreeProp
  <2>3. p \in Int /\ q \in Int /\ Rank(S, q) = Rank(S, p) /\ Rank(S, p) \in Int
    <3>1. \A x \in S : x \in Int
      OBVIOUS
    <3> HIDE DEF q
    <3> QED BY <2>1, <2>2, <3>1
  <2>4. ~(p < q)
    <3> HIDE DEF q
    <3> QED BY <2>1, <2>2, <2>3, RankMono
  <2>5. ~(q < p)
    <3> HIDE DEF q
    <3> QED BY <2>1, <2>2, <2>3, RankMono
  <2>6. p = q
    <3> HIDE DEF q
    <3> QED BY <2>3, <2>4, <2>5
  <2> QED BY <2>1, <2>6
<1>3. ASSUME NEW k \in 0..(n - 1), p = NthFree(S, k)
      PROVE  p \in Smallest(S, n)
  BY <1>1, <1>3, NthFreeProp DEF Smallest
<1> QED
  BY <1>2, <1>3

\* An initial interval has as many elements as its bound says.
LEMMA IntervalCard ==
  ASSUME NEW d \in Nat
  PROVE  IsFiniteSet(1..d) /\ Cardinality(1..d) = d
BY FS_Interval

\* The prefix sums of a batch are numbers, and each row's share ends before
\* the share of any later row begins.
LEMMA NeedBeforeStep ==
  ASSUME NEW n \in Nat, NEW m \in Nat, NEW need \in [1..n -> 0..m],
         NEW i \in 1..n, NEW j \in (i + 1)..(n + 1)
  PROVE  /\ NeedBefore(need, i) \in Nat
         /\ NeedBefore(need, j) \in Nat
         /\ NeedBefore(need, i) + need[i] <= NeedBefore(need, j)
<1> DEFINE P(k) == UNION {{l} \X (1..need[l]) : l \in 1..(k - 1)}
           A == P(i)
           B == {i} \X (1..need[i])
           C == P(j)
           U == (1..n) \X (1..m)
<1>1. IsFiniteSet(U)
  <2>1. IsFiniteSet(1..n) /\ IsFiniteSet(1..m)
    BY FS_Interval
  <2> QED BY <2>1, FS_Product
<1>2. A \subseteq U /\ C \subseteq U /\ B \subseteq U
  OBVIOUS
<1>3. IsFiniteSet(A) /\ IsFiniteSet(B) /\ IsFiniteSet(C)
  BY <1>1, <1>2, FS_Subset
<1>4. Cardinality(B) = need[i]
  <2>1. IsFiniteSet({i}) /\ Cardinality({i}) = 1
    BY FS_Singleton
  <2>2. need[i] \in Nat
    OBVIOUS
  <2>3. IsFiniteSet(1..need[i]) /\ Cardinality(1..need[i]) = need[i]
    BY <2>2, IntervalCard
  <2>4. Cardinality({i} \X (1..need[i])) = 1 * need[i]
    <3> DEFINE E == {i}
               F == 1..need[i]
    <3>1. /\ IsFiniteSet(E) /\ Cardinality(E) = 1 /\ IsFiniteSet(F) /\ Cardinality(F) = need[i]
      BY <2>1, <2>3
    <3> HIDE DEF E, F
    <3>2. Cardinality(E \X F) = Cardinality(E) * Cardinality(F)
      BY ONLY <3>1, FS_Product
    <3> QED BY ONLY <3>1, <3>2 DEF E, F
  <2> QED BY <2>2, <2>4
<1>5. A \cap B = {}
  OBVIOUS
<1>6. A \cup B \in SUBSET C
  OBVIOUS
<1>7. IsFiniteSet(A \cup B) /\ Cardinality(A \cup B) = Cardinality(A) + need[i]
  <2>1. Cardinality(A) \in Nat
    BY <1>3, FS_CardinalityType
  <2>2. Cardinality(A \cap B) = 0
    BY <1>5, FS_EmptySet
  <2>3. need[i] \in Nat
    OBVIOUS
  <2>4. IsFiniteSet(A \cup B)
        /\ Cardinality(A \cup B) = Cardinality(A) + Cardinality(B) - Cardinality(A \cap B)
    <3> HIDE DEF A, B
    <3> QED BY <1>3, FS_Union
  <2> HIDE DEF A, B
  <2> QED BY <1>4, <2>1, <2>2, <2>3, <2>4
<1>8. Cardinality(A \cup B) <= Cardinality(C)
  <2> HIDE DEF A, B, C
  <2> QED BY <1>3, <1>6, FS_Subset
<1>9. Cardinality(A) \in Nat /\ Cardinality(C) \in Nat
  BY <1>3, FS_CardinalityType
<1>10. NeedBefore(need, i) = Cardinality(A) /\ NeedBefore(need, j) = Cardinality(C)
  BY DEF NeedBefore
<1> QED
  BY <1>7, <1>8, <1>9, <1>10
---------------------------------------------------------------------------
\* Division by the page size, in the form the other lemmas use.
LEMMA DivMod ==
  ASSUME NEW a \in Int
  PROVE  /\ a \div PageSize \in Int
         /\ a % PageSize \in 0..(PageSize - 1)
         /\ a = PageSize * (a \div PageSize) + (a % PageSize)
BY PageAssumption

\* Products with the page size keep the order, with a page to spare.
LEMMA MulOrder ==
  ASSUME NEW a \in Int, NEW b \in Int, a < b
  PROVE  PageSize * a + PageSize <= PageSize * b
<1>1. PageSize \in Nat /\ PageSize * (a + 1) = PageSize * a + PageSize
  BY PageAssumption
<1>2. \A c \in Nat : PageSize * c >= 0
  BY PageAssumption
<1>3. b - (a + 1) \in Nat
  OBVIOUS
<1>4. PageSize * (b - (a + 1)) = PageSize * b - PageSize * (a + 1)
  BY PageAssumption
<1>5. PageSize * a \in Int /\ PageSize * b \in Int /\ PageSize * (a + 1) \in Int
  BY PageAssumption
<1>6. PageSize * (b - (a + 1)) >= 0
  BY <1>2, <1>3
<1> QED
  BY <1>1, <1>4, <1>5, <1>6

\* Quotient and remainder are unique.
LEMMA DivUnique ==
  ASSUME NEW q \in Int, NEW r \in 0..(PageSize - 1)
  PROVE  /\ (PageSize * q + r) \div PageSize = q
         /\ (PageSize * q + r) % PageSize = r
<1> DEFINE a == PageSize * q + r
<1>1. PageSize \in Nat /\ PageSize * q \in Int /\ a \in Int
  BY PageAssumption
<1> DEFINE q2 == a \div PageSize
           r2 == a % PageSize
<1>2. /\ q2 \in Int /\ r2 \in 0..(PageSize - 1)
      /\ a = PageSize * q2 + r2
  BY <1>1, DivMod
<1>3. PageSize * q2 \in Int
  BY <1>1, <1>2
<1>4. ~(q < q2)
  <2> HIDE DEF q2, r2
  <2> SUFFICES ASSUME q < q2 PROVE FALSE
    OBVIOUS
  <2>1. PageSize * q + PageSize <= PageSize * q2
    BY <1>2, MulOrder
  <2> QED BY <1>1, <1>2, <1>3, <2>1
<1>5. ~(q2 < q)
  <2> HIDE DEF q2, r2
  <2> SUFFICES ASSUME q2 < q PROVE FALSE
    OBVIOUS
  <2>1. PageSize * q2 + PageSize <= PageSize * q
    BY <1>2, MulOrder
  <2> QED BY <1>1, <1>2, <1>3, <2>1
<1>6. q = q2 /\ r = r2
  <2> HIDE DEF q2, r2
  <2>1. q = q2
    BY <1>2, <1>4, <1>5
  <2> QED BY <1>1, <1>2, <2>1
<1> QED
  BY <1>6

\* A slot built from a page and an offset lies on that page at that offset.
LEMMA SlotParts ==
  ASSUME NEW p \in Int, NEW r \in 0..(PageSize - 1)
  PROVE  /\ PageOf((p * PageSize) + r) = p
         /\ ((p * PageSize) + r) % PageSize = r
<1>1. p * PageSize = PageSize * p
  BY PageAssumption
<1> QED
  BY <1>1, DivUnique DEF PageOf

\* CeilPages is the number of pages that len tokens need.
LEMMA CeilSpec ==
  ASSUME NEW len \in Nat
  PROVE  /\ CeilPages(len) \in Nat
         /\ len <= PageSize * CeilPages(len)
         /\ PageSize * CeilPages(len) < len + PageSize
<1> DEFINE a == len + PageSize - 1
           q == a \div PageSize
           r == a % PageSize
<1>1. PageSize \in Nat /\ PageSize >= 2 /\ a \in Int /\ a >= 1
  BY PageAssumption
<1>2. /\ q \in Int /\ r \in 0..(PageSize - 1)
      /\ a = PageSize * q + r
  BY <1>1, DivMod
<1>3. PageSize * q \in Int
  BY <1>1, <1>2
<1>4. len <= PageSize * q /\ PageSize * q < len + PageSize
  <2> HIDE DEF q, r
  <2> QED BY <1>1, <1>2, <1>3
<1>5. q \in Nat
  <2> HIDE DEF q, r
  <2> SUFFICES ASSUME q < 0 PROVE FALSE
    BY <1>2
  <2>1. PageSize * q + PageSize <= PageSize * 0
    BY <1>2, MulOrder
  <2> QED BY <1>1, <1>3, <1>4, <2>1
<1> QED
  BY <1>4, <1>5 DEF CeilPages

\* A longer sequence needs no fewer pages.
LEMMA CeilMono ==
  ASSUME NEW a \in Nat, NEW b \in Nat, a <= b
  PROVE  /\ CeilPages(a) <= CeilPages(b)
         /\ NewPages(a, b) \in Nat
<1>1. /\ CeilPages(a) \in Nat /\ CeilPages(b) \in Nat
      /\ b <= PageSize * CeilPages(b)
      /\ PageSize * CeilPages(a) < a + PageSize
  BY CeilSpec
<1>2. PageSize \in Nat /\ PageSize * CeilPages(a) \in Int /\ PageSize * CeilPages(b) \in Int
  BY <1>1, PageAssumption
<1>3. ~(CeilPages(b) < CeilPages(a))
  <2> SUFFICES ASSUME CeilPages(b) < CeilPages(a) PROVE FALSE
    OBVIOUS
  <2>1. PageSize * CeilPages(b) + PageSize <= PageSize * CeilPages(a)
    BY <1>1, MulOrder
  <2> QED BY <1>1, <1>2, <2>1
<1> QED
  BY <1>1, <1>3 DEF NewPages

\* Host and kernel agree on a decode step: one more token takes a new page
\* exactly when the length that counts it is 1 past a page boundary.
LEMMA DecodeNewPage ==
  ASSUME NEW s \in Nat, s >= 1
  PROVE  NewPages(s - 1, s) = IF s % PageSize = 1 THEN 1 ELSE 0
<1> DEFINE q == s \div PageSize
           r == s % PageSize
<1>1. /\ q \in Int /\ r \in 0..(PageSize - 1) /\ s = PageSize * q + r
  BY DivMod
<1>2. PageSize \in Nat /\ PageSize >= 2 /\ PageSize * q \in Int
  BY <1>1, PageAssumption
<1>3. PageSize * (q + 1) = PageSize * q + PageSize
  BY <1>1, PageAssumption
<1>4. CASE r = 0
  <2>1. CeilPages(s) = q
    <3>1. s + PageSize - 1 = PageSize * q + (PageSize - 1)
      BY <1>1, <1>2, <1>4
    <3>2. PageSize - 1 \in 0..(PageSize - 1)
      BY <1>2
    <3> HIDE DEF q, r
    <3> QED BY <1>1, <3>1, <3>2, DivUnique DEF CeilPages
  <2>2. CeilPages(s - 1) = q
    <3>1. (s - 1) + PageSize - 1 = PageSize * q + (PageSize - 2)
      BY <1>1, <1>2, <1>4
    <3>2. PageSize - 2 \in 0..(PageSize - 1)
      BY <1>2
    <3> HIDE DEF q, r
    <3> QED BY <1>1, <3>1, <3>2, DivUnique DEF CeilPages
  <2> HIDE DEF q
  <2> QED BY <1>1, <1>4, <2>1, <2>2 DEF NewPages
<1>5. CASE r = 1
  <2>1. CeilPages(s) = q + 1
    <3>1. s + PageSize - 1 = PageSize * (q + 1) + 0
      BY <1>1, <1>2, <1>3, <1>5
    <3>2. 0 \in 0..(PageSize - 1) /\ q + 1 \in Int
      BY <1>1, <1>2
    <3> HIDE DEF q, r
    <3> QED BY <3>1, <3>2, DivUnique DEF CeilPages
  <2>2. CeilPages(s - 1) = q
    <3>1. (s - 1) + PageSize - 1 = PageSize * q + (PageSize - 1)
      BY <1>1, <1>2, <1>5
    <3>2. PageSize - 1 \in 0..(PageSize - 1)
      BY <1>2
    <3> HIDE DEF q, r
    <3> QED BY <1>1, <3>1, <3>2, DivUnique DEF CeilPages
  <2> HIDE DEF q
  <2> QED BY <1>1, <1>5, <2>1, <2>2 DEF NewPages
<1>6. CASE r >= 2
  <2>1. CeilPages(s) = q + 1
    <3>1. s + PageSize - 1 = PageSize * (q + 1) + (r - 1)
      BY <1>1, <1>2, <1>3, <1>6
    <3>2. r - 1 \in 0..(PageSize - 1) /\ q + 1 \in Int
      BY <1>1, <1>2, <1>6
    <3> HIDE DEF q, r
    <3> QED BY <3>1, <3>2, DivUnique DEF CeilPages
  <2>2. CeilPages(s - 1) = q + 1
    <3>1. (s - 1) + PageSize - 1 = PageSize * (q + 1) + (r - 2)
      BY <1>1, <1>2, <1>3, <1>6
    <3>2. r - 2 \in 0..(PageSize - 1) /\ q + 1 \in Int
      BY <1>1, <1>2, <1>6
    <3> HIDE DEF q, r
    <3> QED BY <3>1, <3>2, DivUnique DEF CeilPages
  <2> HIDE DEF q
  <2> QED BY <1>1, <1>6, <2>1, <2>2 DEF NewPages
<1> HIDE DEF q, r
<1> QED
  BY <1>1, <1>2, <1>4, <1>5, <1>6
---------------------------------------------------------------------------
\* Slots are exactly the addresses of the pool's pages.
LEMMA SlotRange ==
  /\ \A p \in Pages, r \in 0..(PageSize - 1) : (p * PageSize) + r \in Slots
  /\ \A s \in Slots : /\ PageOf(s) \in Pages
                      /\ s % PageSize \in 0..(PageSize - 1)
                      /\ s = (PageOf(s) * PageSize) + (s % PageSize)
<1>0. PageSize \in Nat /\ PageSize >= 2 /\ NumPages \in Nat
      /\ PageSize * (NumPages + 1) \in Int
  BY PageAssumption
<1>1. ASSUME NEW p \in Pages, NEW r \in 0..(PageSize - 1)
      PROVE  (p * PageSize) + r \in Slots
  <2>1. p \in Int /\ 1 <= p /\ p <= NumPages /\ PageSize * p \in Int /\ p * PageSize = PageSize * p
    BY <1>0 DEF Pages
  <2>2. PageSize * p + PageSize <= PageSize * (NumPages + 1)
    BY <1>0, <2>1, MulOrder
  <2>3. PageSize <= PageSize * p
    <3>1. PageSize * 0 + PageSize <= PageSize * p
      BY <2>1, MulOrder
    <3> QED BY <1>0, <2>1, <3>1
  <2> QED BY <1>0, <2>1, <2>2, <2>3 DEF Slots
<1>2. ASSUME NEW s \in Slots
      PROVE  /\ PageOf(s) \in Pages
             /\ s % PageSize \in 0..(PageSize - 1)
             /\ s = (PageOf(s) * PageSize) + (s % PageSize)
  <2> DEFINE q == s \div PageSize
             r == s % PageSize
  <2>1. s \in Int /\ PageSize <= s /\ s < PageSize * (NumPages + 1)
    BY <1>0 DEF Slots
  <2>2. q \in Int /\ r \in 0..(PageSize - 1) /\ s = PageSize * q + r
    BY <2>1, DivMod
  <2>3. PageSize * q \in Int /\ q * PageSize = PageSize * q
    BY <1>0, <2>2
  <2>4. 1 <= q
    <3> HIDE DEF q, r
    <3> SUFFICES ASSUME q < 1 PROVE FALSE
      BY <2>2
    <3>1. PageSize * q + PageSize <= PageSize * 1
      BY <2>2, MulOrder
    <3> QED BY <1>0, <2>1, <2>2, <2>3, <3>1
  <2>5. q <= NumPages
    <3> HIDE DEF q, r
    <3> SUFFICES ASSUME NumPages + 1 <= q PROVE FALSE
      BY <1>0, <2>2
    <3>1. PageSize * (NumPages + 1) <= PageSize * q
      <4>1. CASE NumPages + 1 < q
        BY <1>0, <2>2, <2>3, <4>1, MulOrder
      <4>2. CASE NumPages + 1 = q
        BY <1>0, <2>3, <4>2
      <4> QED BY <1>0, <2>2, <4>1, <4>2
    <3> QED BY <1>0, <2>1, <2>2, <2>3, <3>1
  <2> QED
    BY <1>0, <2>2, <2>3, <2>4, <2>5 DEF PageOf, Pages
<1> QED
  BY <1>1, <1>2

\* The host's page count of a decode batch is the kernel's.
LEMMA DecodeTotal ==
  ASSUME NEW n \in Nat, NEW seq \in [1..n -> Nat \ {0}]
  PROVE  NeedTotal(DecodeNeed(seq), n) = DecodePagesCpu(seq)
<1> DEFINE need == DecodeNeed(seq)
           D == {i \in 1..n : seq[i] % PageSize = 1}
           X == UNION {{j} \X (1..need[j]) : j \in 1..n}
<1>1. \A j \in 1..n : need[j] = IF j \in D THEN 1 ELSE 0
  BY DecodeNewPage DEF DecodeNeed
<1>2. X = D \X {1}
  <2> HIDE DEF need, D
  <2>1. D \subseteq 1..n
    BY DEF D
  <2>2. ASSUME NEW z \in X PROVE z \in D \X {1}
    <3>1. PICK j \in 1..n : z \in {j} \X (1..need[j])
      BY <2>2
    <3> QED BY <1>1, <3>1
  <2>3. ASSUME NEW z \in D \X {1} PROVE z \in X
    <3>1. PICK j \in D : z = <<j, 1>>
      BY <2>3
    <3>2. z \in {j} \X (1..need[j])
      BY <1>1, <2>1, <3>1
    <3> QED BY <2>1, <3>2
  <2> HIDE DEF X
  <2> QED BY <2>2, <2>3
<1>3. IsFiniteSet(D) /\ IsFiniteSet({1}) /\ Cardinality({1}) = 1
  <2>1. D \in SUBSET (1..n)
    OBVIOUS
  <2>2. IsFiniteSet(1..n)
    BY FS_Interval
  <2> HIDE DEF D
  <2>3. IsFiniteSet(D)
    BY <2>1, <2>2, FS_Subset
  <2>4. IsFiniteSet({1}) /\ Cardinality({1}) = 1
    BY FS_Singleton
  <2> QED BY <2>3, <2>4
<1>4. Cardinality(D \X {1}) = Cardinality(D)
  <2>1. Cardinality(D \X {1}) = Cardinality(D) * Cardinality({1})
    <3> HIDE DEF D
    <3> QED BY <1>3, FS_Product
  <2>2. Cardinality(D) \in Nat
    BY <1>3, FS_CardinalityType
  <2> HIDE DEF D
  <2> QED BY <1>3, <2>1, <2>2
<1>5. NeedTotal(need, n) = Cardinality(X)
  BY DEF NeedTotal, NeedBefore
<1>6. DecodePagesCpu(seq) = Cardinality(D)
  BY DEF DecodePagesCpu
<1> QED
  BY <1>2, <1>4, <1>5, <1>6

\* Every index below the total belongs to the share of some row of the batch.
LEMMA NeedShares ==
  ASSUME NEW n \in Nat, NEW m \in Nat, NEW need \in [1..n -> 0..m],
         NEW k \in 0..(NeedTotal(need, n) - 1)
  PROVE  \E i \in 1..n : k \in NeedBefore(need, i)..(NeedBefore(need, i) + need[i] - 1)
<1> DEFINE X == UNION {{j} \X (1..need[j]) : j \in 1..n}
           total == NeedTotal(need, n)
           T == 0..(total - 1)
           f == [z \in X |-> NeedBefore(need, z[1]) + z[2] - 1]
<1>1. IsFiniteSet(X)
  <2>1. IsFiniteSet(1..n) /\ IsFiniteSet(1..m)
    BY FS_Interval
  <2>2. IsFiniteSet((1..n) \X (1..m))
    BY <2>1, FS_Product
  <2>3. X \in SUBSET ((1..n) \X (1..m))
    OBVIOUS
  <2> HIDE DEF X
  <2> QED BY <2>2, <2>3, FS_Subset
<1>2. total = Cardinality(X) /\ total \in Nat
  BY <1>1, FS_CardinalityType DEF NeedTotal, NeedBefore
<1>3. \A z \in X : z[1] \in 1..n /\ z[2] \in 1..need[z[1]] /\ z = <<z[1], z[2]>>
  OBVIOUS
<1>4. \A j \in 1..n : /\ NeedBefore(need, j) \in Nat
                      /\ NeedBefore(need, j) + need[j] <= total
  BY NeedBeforeStep, SMTT(30) DEF NeedTotal
<1>5. f \in [X -> T]
  <2> SUFFICES ASSUME NEW z \in X
               PROVE  NeedBefore(need, z[1]) + z[2] - 1 \in T
    OBVIOUS
  <2>1. z[1] \in 1..n /\ z[2] \in 1..need[z[1]] /\ need[z[1]] \in Nat
    BY <1>3
  <2>2. total \in Nat /\ NeedBefore(need, z[1]) \in Nat
        /\ NeedBefore(need, z[1]) + need[z[1]] <= total
    BY <1>2, <1>4, <2>1
  <2>3. z[2] \in Int /\ 1 <= z[2] /\ z[2] <= need[z[1]]
    BY <2>1
  <2> HIDE DEF X, total
  <2> QED BY <2>1, <2>2, <2>3, SMTT(30)
<1>6. \A y, z \in X : f[y] = f[z] => y = z
  <2> SUFFICES ASSUME NEW y \in X, NEW z \in X, f[y] = f[z] PROVE y = z
    OBVIOUS
  <2>1. /\ y[1] \in 1..n /\ y[2] \in 1..need[y[1]] /\ y = <<y[1], y[2]>>
        /\ z[1] \in 1..n /\ z[2] \in 1..need[z[1]] /\ z = <<z[1], z[2]>>
    BY <1>3
  <2>2. NeedBefore(need, y[1]) + y[2] - 1 = NeedBefore(need, z[1]) + z[2] - 1
    OBVIOUS
  <2>3. need[y[1]] \in Nat /\ need[z[1]] \in Nat
    BY <2>1
  <2>4. NeedBefore(need, y[1]) \in Nat /\ NeedBefore(need, z[1]) \in Nat
    BY <1>4, <2>1
  <2> HIDE DEF X, f
  <2>5. ~(y[1] < z[1])
    <3> SUFFICES ASSUME y[1] < z[1] PROVE FALSE
      OBVIOUS
    <3> DEFINE i == y[1]
               j == z[1]
    <3>0. i \in 1..n /\ j \in (i + 1)..(n + 1)
      BY <2>1
    <3>1. NeedBefore(need, i) + need[i] <= NeedBefore(need, j)
      <4> HIDE DEF i, j
      <4> QED BY <3>0, NeedBeforeStep
    <3> QED BY <2>1, <2>2, <2>3, <2>4, <3>1, SMTT(30)
  <2>6. ~(z[1] < y[1])
    <3> SUFFICES ASSUME z[1] < y[1] PROVE FALSE
      OBVIOUS
    <3> DEFINE i == z[1]
               j == y[1]
    <3>0. i \in 1..n /\ j \in (i + 1)..(n + 1)
      BY <2>1
    <3>1. NeedBefore(need, i) + need[i] <= NeedBefore(need, j)
      <4> HIDE DEF i, j
      <4> QED BY <3>0, NeedBeforeStep
    <3> QED BY <2>1, <2>2, <2>3, <2>4, <3>1, SMTT(30)
  <2>7. y[1] = z[1]
    BY <2>1, <2>5, <2>6
  <2>8. y[2] = z[2]
    BY <2>1, <2>2, <2>3, <2>4, <2>7
  <2> QED BY <2>1, <2>7, <2>8
<1>7. IsFiniteSet(T) /\ Cardinality(T) = Cardinality(X)
  <2> HIDE DEF total, X
  <2>1. 0 \in Int /\ total - 1 \in Int /\ total \in Nat
    BY <1>2
  <2>2. IsFiniteSet(0..(total - 1))
        /\ Cardinality(0..(total - 1)) = IF 0 > total - 1 THEN 0 ELSE (total - 1) - 0 + 1
    BY <2>1, FS_Interval
  <2>3. Cardinality(0..(total - 1)) = total
    BY <2>1, <2>2
  <2> QED BY <1>2, <2>2, <2>3
<1>8. f \in Surjection(X, T)
  <2>1. f \in Injection(X, T)
    BY <1>5, <1>6 DEF Injection, IsInjective
  <2> HIDE DEF f, X, T
  <2> QED BY <1>7, <2>1, FS_Injection
<1>9. PICK z \in X : f[z] = k
  BY <1>8 DEF Surjection
<1>10. z[1] \in 1..n /\ z[2] \in 1..need[z[1]] /\ need[z[1]] \in Nat
       /\ NeedBefore(need, z[1]) \in Nat
  BY <1>3, <1>4
<1>11. k = NeedBefore(need, z[1]) + z[2] - 1
  BY <1>9
<1> HIDE DEF X, f, total
<1> QED
  BY <1>10, <1>11

---------------------------------------------------------------------------
(* Rows and their page tables.                                             *)

\* Products with the page size are monotonic.
LEMMA MulMono ==
  ASSUME NEW a \in Int, NEW b \in Int, a <= b
  PROVE  PageSize * a <= PageSize * b
<1>1. CASE a = b
  BY <1>1, PageAssumption
<1>2. CASE a < b
  <2>1. PageSize * a + PageSize <= PageSize * b
    BY <1>2, MulOrder
  <2>2. PageSize * a \in Int /\ PageSize * b \in Int /\ PageSize \in Nat
    BY PageAssumption
  <2> QED BY <2>1, <2>2
<1> QED
  BY <1>1, <1>2

\* A token position is its block and its offset in the block.
LEMMA BlockSpec ==
  ASSUME NEW x \in Nat, x >= 1
  PROVE  /\ BlockOf(x) \in Nat
         /\ (x - 1) % PageSize \in 0..(PageSize - 1)
         /\ x - 1 = PageSize * BlockOf(x) + ((x - 1) % PageSize)
<1>1. /\ BlockOf(x) \in Int
      /\ (x - 1) % PageSize \in 0..(PageSize - 1)
      /\ x - 1 = PageSize * BlockOf(x) + ((x - 1) % PageSize)
  BY DivMod DEF BlockOf
<1>2. ~(BlockOf(x) < 0)
  <2> SUFFICES ASSUME BlockOf(x) < 0 PROVE FALSE
    OBVIOUS
  <2>1. PageSize * BlockOf(x) + PageSize <= PageSize * 0
    BY <1>1, MulOrder
  <2>2. PageSize \in Nat /\ PageSize * 0 = 0 /\ PageSize * BlockOf(x) \in Int
    BY <1>1, PageAssumption
  <2> QED BY <1>1, <2>1, <2>2
<1> QED
  BY <1>1, <1>2

\* The position with block b and offset r is unique.
LEMMA BlockUnique ==
  ASSUME NEW b \in Nat, NEW r \in 0..(PageSize - 1), NEW x \in Nat,
         x = PageSize * b + r + 1
  PROVE  BlockOf(x) = b /\ (x - 1) % PageSize = r
<1>1. PageSize * b \in Int /\ x - 1 = PageSize * b + r
  BY PageAssumption
<1> QED
  BY <1>1, DivUnique DEF BlockOf

\* The blocks of a row of len tokens are the numbers below CeilPages(len).
LEMMA BlockBelow ==
  ASSUME NEW len \in Nat, NEW x \in Nat, x >= 1
  PROVE  /\ x - 1 < CeilPages(len) * PageSize <=> BlockOf(x) < CeilPages(len)
         /\ x <= len => BlockOf(x) < CeilPages(len)
<1> DEFINE c == CeilPages(len)
           b == BlockOf(x)
           r == (x - 1) % PageSize
<1>1. /\ c \in Nat /\ len <= PageSize * c /\ PageSize * c \in Int
      /\ c * PageSize = PageSize * c
  BY CeilSpec, PageAssumption
<1>2. b \in Nat /\ r \in 0..(PageSize - 1) /\ x - 1 = PageSize * b + r
  BY BlockSpec
<1>3. PageSize \in Nat /\ PageSize * b \in Int
  BY <1>2, PageAssumption
<1> HIDE DEF c, b, r
<1>4. ASSUME b < c PROVE x - 1 < PageSize * c
  <2>1. PageSize * b + PageSize <= PageSize * c
    BY <1>1, <1>2, <1>4, MulOrder
  <2> QED BY <1>1, <1>2, <1>3, <2>1
<1>5. ASSUME c <= b PROVE ~(x - 1 < PageSize * c)
  <2>1. PageSize * c <= PageSize * b
    BY <1>1, <1>2, <1>5, MulMono
  <2> QED BY <1>1, <1>2, <1>3, <2>1
<1>6. x - 1 < c * PageSize <=> b < c
  BY <1>1, <1>2, <1>4, <1>5
<1>7. x <= len => b < c
  BY <1>1, <1>2, <1>4, <1>5
<1> QED
  BY <1>6, <1>7 DEF c, b

\* Every block of a row has its first token in the row.
LEMMA BlockFirst ==
  ASSUME NEW len \in Nat, NEW b \in 0..(CeilPages(len) - 1)
  PROVE  /\ PageSize * b + 1 \in 1..len
         /\ BlockOf(PageSize * b + 1) = b
<1> DEFINE c == CeilPages(len)
<1>1. /\ c \in Nat /\ PageSize * c < len + PageSize /\ PageSize * c \in Int
      /\ PageSize \in Nat /\ PageSize >= 2
  BY CeilSpec, PageAssumption
<1>2. b \in Nat /\ b < c /\ PageSize * b \in Nat
  BY <1>1
<1> HIDE DEF c
<1>3. PageSize * b + PageSize <= PageSize * c
  BY <1>1, <1>2, MulOrder
<1>4. PageSize * b + 1 \in 1..len
  BY <1>1, <1>2, <1>3
<1>5. 0 \in 0..(PageSize - 1) /\ PageSize * b + 1 = PageSize * b + 0 + 1
  BY <1>1, <1>2
<1>6. BlockOf(PageSize * b + 1) = b
  BY <1>2, <1>4, <1>5, BlockUnique
<1> QED
  BY <1>4, <1>6
---------------------------------------------------------------------------
\* A row whose slots follow an injective page table is sound, and its pages
\* are the table's.
LEMMA TableSound ==
  ASSUME NEW len \in Nat, NEW T \in [0..(CeilPages(len) - 1) -> Pages],
         \A b, c \in 0..(CeilPages(len) - 1) : T[b] = T[c] => b = c,
         NEW rho, rho = [x \in 1..len |-> rho[x]],
         \A x \in 1..len : rho[x] = (T[BlockOf(x)] * PageSize) + ((x - 1) % PageSize)
  PROVE  /\ rho \in [1..len -> Slots]
         /\ SoundRow(rho)
         /\ PagesOfRow(rho) = {T[b] : b \in 0..(CeilPages(len) - 1)}
<1> DEFINE B == 0..(CeilPages(len) - 1)
<1>0. CeilPages(len) \in Nat
  BY CeilSpec
<1>1. ASSUME NEW x \in 1..len
      PROVE  /\ BlockOf(x) \in B
             /\ rho[x] \in Slots
             /\ PageOf(rho[x]) = T[BlockOf(x)]
             /\ rho[x] % PageSize = (x - 1) % PageSize
  <2>1. x \in Nat /\ x >= 1 /\ x <= len
    OBVIOUS
  <2>2. BlockOf(x) \in Nat /\ (x - 1) % PageSize \in 0..(PageSize - 1)
    BY <2>1, BlockSpec
  <2>3. BlockOf(x) \in B
    BY <1>0, <2>1, <2>2, BlockBelow
  <2>4. T[BlockOf(x)] \in Pages /\ T[BlockOf(x)] \in Int
    BY <2>3 DEF Pages
  <2>5. rho[x] = (T[BlockOf(x)] * PageSize) + ((x - 1) % PageSize)
    OBVIOUS
  <2>6. rho[x] \in Slots
    BY <2>2, <2>4, <2>5, SlotRange
  <2>7. PageOf(rho[x]) = T[BlockOf(x)] /\ rho[x] % PageSize = (x - 1) % PageSize
    BY <2>2, <2>4, <2>5, SlotParts
  <2> QED BY <2>3, <2>6, <2>7
<1>2. rho \in [1..len -> Slots] /\ DOMAIN rho = 1..len
  <2>1. \A x \in 1..len : rho[x] \in Slots
    BY <1>1
  <2>2. [x \in 1..len |-> rho[x]] \in [1..len -> Slots]
    BY <2>1, Zenon
  <2> QED BY <2>2, Zenon
<1>3. SoundRow(rho)
  <2> SUFFICES ASSUME NEW x \in 1..len, NEW y \in 1..len
               PROVE  /\ rho[x] % PageSize = (x - 1) % PageSize
                      /\ BlockOf(x) = BlockOf(y) <=> PageOf(rho[x]) = PageOf(rho[y])
    BY <1>2 DEF SoundRow
  <2>1. /\ BlockOf(x) \in B /\ PageOf(rho[x]) = T[BlockOf(x)]
        /\ rho[x] % PageSize = (x - 1) % PageSize
        /\ BlockOf(y) \in B /\ PageOf(rho[y]) = T[BlockOf(y)]
    BY <1>1
  <2> QED BY <2>1
<1>4. ASSUME NEW p \in PagesOfRow(rho) PROVE p \in {T[b] : b \in B}
  <2>1. PICK x \in 1..len : p = PageOf(rho[x])
    BY <1>2, <1>4 DEF PagesOfRow, PagesOf
  <2> QED BY <1>1, <2>1
<1>5. ASSUME NEW p \in {T[b] : b \in B} PROVE p \in PagesOfRow(rho)
  <2>1. PICK b \in B : p = T[b]
    BY <1>5
  <2>2. PageSize * b + 1 \in 1..len /\ BlockOf(PageSize * b + 1) = b
    BY BlockFirst
  <2>3. PageOf(rho[PageSize * b + 1]) = p
    BY <1>1, <2>1, <2>2
  <2> QED BY <1>2, <2>2, <2>3 DEF PagesOfRow, PagesOf
<1> QED
  BY <1>2, <1>3, <1>4, <1>5

\* The page table of a row: the pages of its blocks' first tokens, which is what
\* the attention backends read.
PageTable(rho) ==
  [b \in 0..(CeilPages(Len(rho)) - 1) |-> PageOf(rho[PageSize * b + 1])]

\* A sound row follows its page table.
LEMMA SoundTable ==
  ASSUME NEW rho \in Seq(Slots), SoundRow(rho)
  PROVE  /\ PageTable(rho) \in [0..(CeilPages(Len(rho)) - 1) -> Pages]
         /\ \A b, c \in 0..(CeilPages(Len(rho)) - 1) :
              PageTable(rho)[b] = PageTable(rho)[c] => b = c
         /\ \A x \in 1..Len(rho) :
              rho[x] = (PageTable(rho)[BlockOf(x)] * PageSize) + ((x - 1) % PageSize)
         /\ PagesOfRow(rho) = {PageTable(rho)[b] : b \in 0..(CeilPages(Len(rho)) - 1)}
<1> DEFINE T == PageTable(rho)
           len == Len(rho)
           B == 0..(CeilPages(len) - 1)
           first(b) == PageSize * b + 1
<1>0. len \in Nat /\ CeilPages(len) \in Nat /\ DOMAIN rho = 1..len
      /\ \A x \in 1..len : rho[x] \in Slots
  BY CeilSpec
<1>1. ASSUME NEW b \in B
      PROVE  first(b) \in 1..len /\ BlockOf(first(b)) = b
  BY <1>0, BlockFirst
<1>2. \A b \in B : T[b] = PageOf(rho[first(b)])
  BY DEF PageTable
<1>3. T \in [B -> Pages]
  <2>1. \A b \in B : PageOf(rho[first(b)]) \in Pages
    BY <1>0, <1>1, SlotRange
  <2>2. [b \in B |-> PageOf(rho[first(b)])] \in [B -> Pages]
    BY <2>1, Zenon
  <2> QED BY <2>2, Zenon DEF PageTable
<1>4. ASSUME NEW b \in B, NEW c \in B, T[b] = T[c]
      PROVE  b = c
  <2> HIDE DEF first, B
  <2>1. PageOf(rho[first(b)]) = PageOf(rho[first(c)])
    BY <1>2, <1>4
  <2>2. first(b) \in DOMAIN rho /\ first(c) \in DOMAIN rho
    BY <1>0, <1>1
  <2>3. BlockOf(first(b)) = BlockOf(first(c))
    BY <2>1, <2>2 DEF SoundRow
  <2> QED BY <1>1, <2>3
<1>5. ASSUME NEW x \in 1..len
      PROVE  /\ BlockOf(x) \in B
             /\ PageOf(rho[x]) = T[BlockOf(x)]
             /\ rho[x] = (T[BlockOf(x)] * PageSize) + ((x - 1) % PageSize)
  <2>1. x \in Nat /\ x >= 1 /\ x <= len
    BY <1>0
  <2>2. BlockOf(x) \in Nat
    BY <2>1, BlockSpec
  <2>3. BlockOf(x) \in B
    BY <1>0, <2>1, <2>2, BlockBelow
  <2> HIDE DEF first, B
  <2>4. x \in DOMAIN rho /\ first(BlockOf(x)) \in DOMAIN rho
    BY <1>0, <1>1, <2>3
  <2>5. PageOf(rho[x]) = PageOf(rho[first(BlockOf(x))])
    BY <1>1, <2>3, <2>4 DEF SoundRow
  <2>6. rho[x] % PageSize = (x - 1) % PageSize
    BY <2>4 DEF SoundRow
  <2>7. rho[x] = (PageOf(rho[x]) * PageSize) + (rho[x] % PageSize)
    BY <1>0, SlotRange
  <2> QED BY <1>2, <2>3, <2>5, <2>6, <2>7
<1>6. PagesOfRow(rho) = {T[b] : b \in B}
  <2>1. ASSUME NEW p \in PagesOfRow(rho) PROVE p \in {T[b] : b \in B}
    <3>1. PICK x \in 1..len : p = PageOf(rho[x])
      BY <1>0, <2>1 DEF PagesOfRow, PagesOf
    <3> QED BY <1>5, <3>1
  <2>2. ASSUME NEW p \in {T[b] : b \in B} PROVE p \in PagesOfRow(rho)
    <3>1. PICK b \in B : p = T[b]
      BY <2>2
    <3> HIDE DEF first
    <3> QED BY <1>0, <1>1, <1>2, <3>1 DEF PagesOfRow, PagesOf
  <2> QED BY <2>1, <2>2
<1> QED
  BY <1>3, <1>4, <1>5, <1>6
---------------------------------------------------------------------------
\* The pages of the free list that row i of a batch takes.
ShareOf(F, need, i) ==
  {NthFree(F, k) : k \in NeedBefore(need, i)..(NeedBefore(need, i) + need[i] - 1)}

\* A call of alloc_extend_kernel that finds what it expects: new is the sound row
\* rho, extended to `to` tokens as row i of a batch of n from the free pages F.
ExtendsRow(new, rho, to, F, n, m, need, pre, last, i) ==
  /\ F \in SUBSET Pages
  /\ n \in Nat /\ m \in Nat /\ i \in 1..n
  /\ need \in [1..n -> 0..m]
  /\ NeedTotal(need, n) <= Cardinality(F)
  /\ rho \in Seq(Slots) /\ SoundRow(rho) /\ PagesOfRow(rho) \cap F = {}
  /\ pre[i] = Len(rho)
  /\ to \in Nat /\ Len(rho) <= to /\ need[i] = NewPages(Len(rho), to)
  /\ rho # << >> => last[i] = rho[Len(rho)]
  /\ new = [x \in 1..to |-> IF x <= Len(rho)
                             THEN rho[x]
                             ELSE ExtendSlot(F, pre, need, last, i, x - 1)]

\* The slots alloc_extend_kernel computes for row i make a sound row out of a
\* sound one: its page table is continued by the row's share of the free list.
LEMMA ExtendRow ==
  ASSUME NEW new, NEW rho, NEW to, NEW F, NEW n, NEW m, NEW need, NEW pre, NEW last, NEW i,
         ExtendsRow(new, rho, to, F, n, m, need, pre, last, i)
  PROVE  /\ new \in [1..to -> Slots]
         /\ SoundRow(new)
         /\ PagesOfRow(new) = PagesOfRow(rho) \cup ShareOf(F, need, i)
<1> SUFFICES ASSUME F \in SUBSET Pages,
                    n \in Nat, m \in Nat, i \in 1..n, need \in [1..n -> 0..m],
                    NeedTotal(need, n) <= Cardinality(F),
                    rho \in Seq(Slots), SoundRow(rho), PagesOfRow(rho) \cap F = {},
                    pre[i] = Len(rho),
                    to \in Nat, Len(rho) <= to, need[i] = NewPages(Len(rho), to),
                    rho # << >> => last[i] = rho[Len(rho)]
             PROVE  /\ new \in [1..to -> Slots]
                    /\ SoundRow(new)
                    /\ PagesOfRow(new) = PagesOfRow(rho) \cup ShareOf(F, need, i)
  BY Zenon DEF ExtendsRow
<1> DEFINE len == Len(rho)
           c == CeilPages(len)
           d == CeilPages(to)
           nb == NeedBefore(need, i)
           T == PageTable(rho)
           U == [b \in 0..(d - 1) |-> IF b < c THEN T[b] ELSE NthFree(F, nb + (b - c))]
           share == nb..(nb + need[i] - 1)
<1>0. /\ len \in Nat /\ c \in Nat /\ d \in Nat /\ c <= d /\ need[i] = d - c
      /\ \A x \in 1..len : rho[x] \in Slots
  <2>1. len \in Nat /\ \A x \in 1..len : rho[x] \in Slots
    OBVIOUS
  <2>2. len <= to /\ need[i] = d - c
    BY DEF NewPages
  <2> HIDE DEF len
  <2>3. c \in Nat /\ d \in Nat /\ c <= d
    BY <2>1, <2>2, CeilSpec, CeilMono
  <2> QED BY <2>1, <2>2, <2>3
<1>1. /\ T \in [0..(c - 1) -> Pages]
      /\ \A b, e \in 0..(c - 1) : T[b] = T[e] => b = e
      /\ \A x \in 1..len : rho[x] = (T[BlockOf(x)] * PageSize) + ((x - 1) % PageSize)
      /\ PagesOfRow(rho) = {T[b] : b \in 0..(c - 1)}
  BY ONLY rho \in Seq(Slots), SoundRow(rho), SoundTable
<1>2. F \in SUBSET Int /\ IsFiniteSet(F) /\ Cardinality(F) \in Nat
  <2>1. IsFiniteSet(Pages) /\ Pages \subseteq Int
    BY FS_Interval, PageAssumption DEF Pages
  <2> QED BY <2>1, FS_Subset, FS_CardinalityType
<1>3. nb \in Nat /\ nb + need[i] <= Cardinality(F)
  <2>1. n + 1 \in (i + 1)..(n + 1)
    OBVIOUS
  <2>2. nb \in Nat /\ nb + need[i] <= NeedBefore(need, n + 1) /\ NeedBefore(need, n + 1) \in Nat
    BY <2>1, NeedBeforeStep
  <2>3. NeedBefore(need, n + 1) <= Cardinality(F)
    BY DEF NeedTotal
  <2>4. need[i] \in Nat
    BY <1>0
  <2> HIDE DEF nb
  <2> QED BY ONLY <1>2, <2>2, <2>3, <2>4, SMTT(30)
<1>4. ASSUME NEW k \in share
      PROVE  NthFree(F, k) \in F /\ Rank(F, NthFree(F, k)) = k
  <2>1. PICK size : size = Cardinality(F)
    OBVIOUS
  <2>2. size \in Nat /\ nb \in Nat /\ need[i] \in Nat /\ nb + need[i] <= size
    BY ONLY <1>0, <1>2, <1>3, <2>1
  <2>3. k \in 0..(size - 1)
    <3> HIDE DEF nb
    <3> QED BY ONLY <2>2, k \in share
  <2> QED BY ONLY <1>2, <2>1, <2>3, NthFreeProp
<1> HIDE DEF nb, c, d, T
<1>5. ASSUME NEW b \in 0..(d - 1), ~(b < c)
      PROVE  nb + (b - c) \in share
  BY <1>0, <1>3, <1>5
<1>6. U \in [0..(d - 1) -> Pages]
  <2>1. ASSUME NEW b \in 0..(d - 1)
        PROVE  (IF b < c THEN T[b] ELSE NthFree(F, nb + (b - c))) \in Pages
    <3>1. CASE b < c
      <4>1. b \in 0..(c - 1)
        BY <1>0, <3>1
      <4> QED BY <1>1, <3>1, <4>1
    <3>2. CASE ~(b < c)
      BY <1>4, <1>5, <3>2
    <3> QED BY <3>1, <3>2
  <2> QED BY <2>1, Zenon
<1>7. ASSUME NEW b \in 0..(d - 1), NEW e \in 0..(d - 1), U[b] = U[e]
      PROVE  b = e
  <2>1. /\ U[b] = IF b < c THEN T[b] ELSE NthFree(F, nb + (b - c))
        /\ U[e] = IF e < c THEN T[e] ELSE NthFree(F, nb + (e - c))
    OBVIOUS
  <2> HIDE DEF U
  <2>2. CASE b < c /\ e < c
    <3>1. b \in 0..(c - 1) /\ e \in 0..(c - 1)
      BY <1>0, <2>2
    <3> QED BY <1>1, <1>7, <2>1, <2>2, <3>1
  <2>3. CASE b < c /\ ~(e < c)
    <3>1. b \in 0..(c - 1)
      BY <1>0, <2>3
    <3>2. U[b] \in PagesOfRow(rho)
      BY <1>1, <2>1, <2>3, <3>1
    <3>3. U[e] \in F
      BY <1>4, <1>5, <2>1, <2>3
    <3> QED BY <1>7, <3>2, <3>3
  <2>4. CASE ~(b < c) /\ e < c
    <3>1. e \in 0..(c - 1)
      BY <1>0, <2>4
    <3>2. U[e] \in PagesOfRow(rho)
      BY <1>1, <2>1, <2>4, <3>1
    <3>3. U[b] \in F
      BY <1>4, <1>5, <2>1, <2>4
    <3> QED BY <1>7, <3>2, <3>3
  <2>5. CASE ~(b < c) /\ ~(e < c)
    <3>1. nb + (b - c) \in share /\ nb + (e - c) \in share
      BY <1>5, <2>5
    <3>2. Rank(F, U[b]) = nb + (b - c) /\ Rank(F, U[e]) = nb + (e - c)
      BY <1>4, <2>1, <2>5, <3>1
    <3> QED BY <1>0, <1>3, <1>7, <3>2
  <2> QED BY <2>2, <2>3, <2>4, <2>5
<1>8. ASSUME NEW x \in 1..to
      PROVE  new[x] = (U[BlockOf(x)] * PageSize) + ((x - 1) % PageSize)
  <2> DEFINE b == BlockOf(x)
             r == (x - 1) % PageSize
  <2>1. x \in Nat /\ x >= 1 /\ x <= to
    OBVIOUS
  <2>2. b \in Nat /\ r \in 0..(PageSize - 1) /\ x - 1 = PageSize * b + r
    BY <2>1, BlockSpec
  <2>3. /\ x - 1 < c * PageSize <=> b < c
        /\ x <= len => b < c
        /\ b < d
    <3>1. len \in Nat /\ to \in Nat /\ x \in Nat /\ x >= 1 /\ x <= to
      BY <1>0, <2>1
    <3> HIDE DEF len, b
    <3>2. /\ x - 1 < CeilPages(len) * PageSize <=> BlockOf(x) < CeilPages(len)
          /\ x <= len => BlockOf(x) < CeilPages(len)
      BY ONLY <3>1, BlockBelow
    <3>3. BlockOf(x) < CeilPages(to)
      BY ONLY <3>1, BlockBelow
    <3> QED BY <3>2, <3>3 DEF b, c, d
  <2>4. b \in 0..(d - 1)
    BY <1>0, <2>2, <2>3
  <2>5. U[b] = IF b < c THEN T[b] ELSE NthFree(F, nb + (b - c))
    BY <2>4
  <2>6. new[x] = IF x <= len THEN rho[x] ELSE ExtendSlot(F, pre, need, last, i, x - 1)
    BY DEF ExtendsRow
  <2>7. ExtendSlot(F, pre, need, last, i, x - 1) =
          IF x - 1 < c * PageSize
            THEN last[i] + 1 + ((x - 1) - len)
            ELSE (NthFree(F, nb + (b - c)) * PageSize) + r
    BY DEF ExtendSlot, BlockOf, c, nb
  <2> HIDE DEF U, b, r
  <2>8. CASE x <= len
    <3>1. x \in 1..len
      BY <1>0, <2>1, <2>8
    <3>2. rho[x] = (T[b] * PageSize) + r
      BY <1>1, <3>1 DEF b, r
    <3> QED BY <2>3, <2>5, <2>6, <2>8, <3>2 DEF b, r
  <2>9. CASE ~(x <= len) /\ b < c
    <3>1. rho # << >> /\ len >= 1
      <4>1. c # 0
        BY <1>0, <2>2, <2>9
      <4>2. CeilPages(0) = 0
        <5>1. CeilPages(0) \in Nat /\ PageSize * CeilPages(0) < PageSize
          BY CeilSpec, PageAssumption
        <5>2. CASE CeilPages(0) >= 1
          <6>1. PageSize * 1 <= PageSize * CeilPages(0)
            BY <5>1, <5>2, MulMono
          <6> QED BY <5>1, <6>1, PageAssumption
        <5> QED BY <5>1, <5>2
      <4>3. len # 0
        BY <4>1, <4>2 DEF c
      <4> QED BY <1>0, <4>3
    <3> DEFINE bl == BlockOf(len)
               rl == (len - 1) % PageSize
    <3>2. bl \in Nat /\ rl \in 0..(PageSize - 1) /\ len - 1 = PageSize * bl + rl /\ bl < c
      BY <1>0, <3>1, BlockSpec, BlockBelow DEF c
    <3>3. last[i] = (T[bl] * PageSize) + rl
      <4>1. len \in 1..len
        BY <1>0, <3>1
      <4> QED BY <1>1, <3>1, <4>1
    <3> HIDE DEF bl, rl
    <3>4. PageSize * c < len + PageSize /\ PageSize \in Nat /\ PageSize >= 2
      BY <1>0, CeilSpec, PageAssumption DEF c
    <3>5. PageSize * b \in Int /\ PageSize * bl \in Int /\ PageSize * c \in Int
      BY <1>0, <2>2, <3>2, PageAssumption
    <3>0. len \in Nat /\ c \in Nat /\ x \in Nat /\ ~(x <= len)
      BY <1>0, <2>9
    <3> HIDE DEF len
    <3>6. ~(b < bl)
      <4> SUFFICES ASSUME b < bl PROVE FALSE
        OBVIOUS
      <4>1. PageSize * b + PageSize <= PageSize * bl
        BY <2>2, <3>2, MulOrder
      <4>2. len <= x - 1 /\ x - 1 = PageSize * b + r /\ r < PageSize
        BY ONLY <3>0, <2>2, <3>4
      <4>3. PageSize * bl <= len - 1
        BY ONLY <3>0, <3>2, <3>5, <3>4
      <4>4. x \in Int /\ len \in Int /\ r \in Int /\ PageSize \in Int
            /\ PageSize * b \in Int /\ PageSize * bl \in Int
        BY ONLY <3>0, <2>2, <3>4, <3>5
      <4> QED BY ONLY <4>1, <4>2, <4>3, <4>4
    <3>7. ~(bl < b)
      <4> SUFFICES ASSUME bl < b PROVE FALSE
        OBVIOUS
      <4>1. PageSize * b + PageSize <= PageSize * c
        BY <1>0, <2>2, <2>9, MulOrder
      <4>2. PageSize * bl + PageSize <= PageSize * b
        BY <2>2, <3>2, MulOrder
      <4>3. len <= PageSize * bl + PageSize
        BY ONLY <3>0, <3>2, <3>4, <3>5
      <4>4. len \in Int /\ PageSize \in Int /\ PageSize * c \in Int
            /\ PageSize * b \in Int /\ PageSize * bl \in Int
        BY ONLY <3>0, <3>4, <3>5
      <4> QED BY ONLY <3>4, <4>1, <4>2, <4>3, <4>4
    <3>8. b = bl
      BY <2>2, <3>2, <3>6, <3>7
    <3>9. r = rl + (x - len)
      BY <3>0, <2>2, <3>2, <3>4, <3>5, <3>8
    <3>10. T[b] \in Int
      <4>1. b \in 0..(c - 1)
        BY <1>0, <2>2, <2>9
      <4>2. T[b] \in Pages
        BY ONLY <1>1, <4>1
      <4> QED BY ONLY <4>2 DEF Pages
    <3>11. T[b] * PageSize \in Int
      BY <3>10, PageAssumption
    <3>12. new[x] = last[i] + 1 + ((x - 1) - len)
      BY <2>3, <2>6, <2>7, <2>9
    <3>13. last[i] = (T[b] * PageSize) + rl
      BY <3>3, <3>8
    <3>14. new[x] = (T[b] * PageSize) + r
      BY <3>0, <2>2, <3>2, <3>4, <3>9, <3>11, <3>12, <3>13, SMTT(30)
    <3> QED BY <2>5, <2>9, <3>14 DEF b, r
  <2>10. CASE ~(x <= len) /\ ~(b < c)
    BY <2>3, <2>5, <2>6, <2>7, <2>10 DEF b, r
  <2> QED BY <2>8, <2>9, <2>10
<1>9. /\ new \in [1..to -> Slots]
      /\ SoundRow(new)
      /\ PagesOfRow(new) = {U[b] : b \in 0..(d - 1)}
  <2>1. new = [x \in 1..to |-> new[x]]
    BY DEF ExtendsRow
  <2> HIDE DEF U
  <2>2. /\ U \in [0..(CeilPages(to) - 1) -> Pages]
        /\ \A b, e \in 0..(CeilPages(to) - 1) : U[b] = U[e] => b = e
    BY <1>6, <1>7 DEF d
  <2>3. \A x \in 1..to : new[x] = (U[BlockOf(x)] * PageSize) + ((x - 1) % PageSize)
    BY <1>8
  <2>4. /\ new \in [1..to -> Slots]
        /\ SoundRow(new)
        /\ PagesOfRow(new) = {U[b] : b \in 0..(CeilPages(to) - 1)}
    BY ONLY to \in Nat, <2>1, <2>2, <2>3, TableSound
  <2> QED BY <2>4 DEF d
<1>10. {U[b] : b \in 0..(d - 1)} = {T[b] : b \in 0..(c - 1)} \cup {NthFree(F, k) : k \in share}
  <2>1. ASSUME NEW p \in {U[b] : b \in 0..(d - 1)}
        PROVE  p \in {T[b] : b \in 0..(c - 1)} \cup {NthFree(F, k) : k \in share}
    <3>1. PICK b \in 0..(d - 1) : p = IF b < c THEN T[b] ELSE NthFree(F, nb + (b - c))
      BY <2>1
    <3>2. CASE b < c
      <4>1. b \in 0..(c - 1)
        BY <1>0, <3>2
      <4> QED BY <3>1, <3>2, <4>1
    <3>3. CASE ~(b < c)
      <4>1. nb + (b - c) \in share
        BY <1>5, <3>3
      <4> HIDE DEF share
      <4> QED BY <3>1, <3>3, <4>1
    <3> QED BY <3>2, <3>3
  <2>2. ASSUME NEW p \in {T[b] : b \in 0..(c - 1)} PROVE p \in {U[b] : b \in 0..(d - 1)}
    <3>1. PICK b \in 0..(c - 1) : p = T[b]
      BY <2>2
    <3>2. b \in 0..(d - 1) /\ b < c
      BY <1>0
    <3>3. U[b] = p
      BY <3>1, <3>2
    <3> HIDE DEF U
    <3> QED BY <3>2, <3>3
  <2>3. ASSUME NEW p \in {NthFree(F, k) : k \in share} PROVE p \in {U[b] : b \in 0..(d - 1)}
    <3>1. PICK k \in share : p = NthFree(F, k)
      BY <2>3
    <3> DEFINE b == c + (k - nb)
    <3>2. b \in 0..(d - 1) /\ ~(b < c) /\ nb + (b - c) = k
      BY <1>0, <1>3
    <3> HIDE DEF b
    <3>3. U[b] = p
      BY <3>1, <3>2
    <3> HIDE DEF U
    <3> QED BY <3>2, <3>3
  <2> QED BY <2>1, <2>2, <2>3
<1>11. {NthFree(F, k) : k \in share} = ShareOf(F, need, i)
  BY Zenon DEF nb, ShareOf
<1> QED
  BY <1>1, <1>9, <1>10, <1>11
---------------------------------------------------------------------------
\* The rows of a batch share the front of the free list: every entry of a share
\* is among the pages taken, every page taken is in a share, and the shares of
\* two rows have no page in common.
LEMMA SharesOfBatch ==
  ASSUME NEW F \in SUBSET Pages,
         NEW n \in Nat, NEW m \in Nat, NEW need \in [1..n -> 0..m],
         NeedTotal(need, n) <= Cardinality(F)
  PROVE  /\ \A i \in 1..n : ShareOf(F, need, i) \subseteq Smallest(F, NeedTotal(need, n))
         /\ \A p \in Smallest(F, NeedTotal(need, n)) : \E i \in 1..n : p \in ShareOf(F, need, i)
         /\ \A i, j \in 1..n :
              \A p : p \in ShareOf(F, need, i) /\ p \in ShareOf(F, need, j) => i = j
<1> DEFINE nb(i) == NeedBefore(need, i)
           share(i) == nb(i)..(nb(i) + need[i] - 1)
           total == NeedTotal(need, n)
<1>1. F \in SUBSET Int /\ IsFiniteSet(F) /\ Cardinality(F) \in Nat
  <2>1. IsFiniteSet(Pages) /\ Pages \subseteq Int
    BY FS_Interval, PageAssumption DEF Pages
  <2> QED BY <2>1, FS_Subset, FS_CardinalityType
<1>2. \A i \in 1..n : nb(i) \in Nat /\ need[i] \in Nat /\ nb(i) + need[i] <= total
  <2> SUFFICES ASSUME NEW i \in 1..n
               PROVE  nb(i) \in Nat /\ need[i] \in Nat /\ nb(i) + need[i] <= total
    OBVIOUS
  <2>1. n + 1 \in (i + 1)..(n + 1)
    OBVIOUS
  <2>2. need[i] \in Nat
    OBVIOUS
  <2>3. NeedBefore(need, i) \in Nat
        /\ NeedBefore(need, i) + need[i] <= NeedBefore(need, n + 1)
    BY ONLY n \in Nat, m \in Nat, need \in [1..n -> 0..m], i \in 1..n, <2>1, NeedBeforeStep
  <2> QED BY <2>2, <2>3 DEF NeedTotal
<1>3. total \in Nat /\ total <= Cardinality(F)
  <2>1. CASE n = 0
    <3>1. total = Cardinality({})
      <4>1. UNION {{j} \X (1..need[j]) : j \in 1..n} = {}
        BY <2>1
      <4> QED BY <4>1, SMTT(30) DEF NeedTotal, NeedBefore
    <3> QED BY <3>1, FS_EmptySet
  <2>2. CASE n # 0
    <3>1. n \in 1..n /\ n + 1 \in (n + 1)..(n + 1)
      BY <2>2
    <3> QED BY <3>1, NeedBeforeStep DEF NeedTotal
  <2> QED BY <2>1, <2>2
<1> HIDE DEF nb, total
<1>4. \A i \in 1..n : \A k \in share(i) : k \in 0..(total - 1) /\ k \in 0..(Cardinality(F) - 1)
  BY <1>1, <1>2, <1>3
<1>5. \A i \in 1..n : \A k \in share(i) : NthFree(F, k) \in Smallest(F, total)
  BY <1>1, <1>3, <1>4, NthFreeSmallest
<1>6. ASSUME NEW p \in Smallest(F, total)
      PROVE  \E i \in 1..n : \E k \in share(i) : p = NthFree(F, k)
  <2>1. PICK k \in 0..(total - 1) : p = NthFree(F, k)
    BY <1>1, <1>3, <1>6, NthFreeSmallest
  <2>2. \E i \in 1..n : k \in share(i)
    BY <2>1, NeedShares DEF nb, total
  <2> QED BY <2>1, <2>2
<1>7. ASSUME NEW i \in 1..n, NEW j \in 1..n, NEW k \in share(i), NEW l \in share(j),
             NthFree(F, k) = NthFree(F, l)
      PROVE  i = j
  <2>1. k = l
    BY <1>1, <1>4, <1>7, NthFreeProp
  <2>2. ~(i < j)
    <3> SUFFICES ASSUME i < j PROVE FALSE
      OBVIOUS
    <3>1. j \in (i + 1)..(n + 1)
      OBVIOUS
    <3>2. nb(i) + need[i] <= nb(j)
      BY <3>1, NeedBeforeStep DEF nb
    <3> DEFINE x == nb(i)
               y == nb(j)
               u == need[i]
               v == need[j]
    <3>3. x \in Nat /\ y \in Nat /\ u \in Nat /\ v \in Nat
      BY <1>2
    <3>4. k \in x..(x + u - 1) /\ l \in y..(y + v - 1)
      OBVIOUS
    <3> HIDE DEF x, y, u, v
    <3>5. x + u <= y
      BY <3>2 DEF x, y, u, v
    <3> QED BY ONLY <2>1, <3>3, <3>4, <3>5
  <2>3. ~(j < i)
    <3> SUFFICES ASSUME j < i PROVE FALSE
      OBVIOUS
    <3>1. i \in (j + 1)..(n + 1)
      OBVIOUS
    <3>2. nb(j) + need[j] <= nb(i)
      BY <3>1, NeedBeforeStep DEF nb
    <3> DEFINE x == nb(i)
               y == nb(j)
               u == need[i]
               v == need[j]
    <3>3. x \in Nat /\ y \in Nat /\ u \in Nat /\ v \in Nat
      BY <1>2
    <3>4. k \in x..(x + u - 1) /\ l \in y..(y + v - 1)
      OBVIOUS
    <3> HIDE DEF x, y, u, v
    <3>5. y + v <= x
      BY <3>2 DEF x, y, u, v
    <3> QED BY ONLY <2>1, <3>3, <3>4, <3>5
  <2> QED BY <2>2, <2>3
<1>8. \A i \in 1..n : ShareOf(F, need, i) = {NthFree(F, k) : k \in share(i)}
  BY Zenon DEF nb, ShareOf
<1>9. \A i, j \in 1..n : \A p : p \in ShareOf(F, need, i) /\ p \in ShareOf(F, need, j) => i = j
  <2> HIDE DEF share
  <2> QED BY <1>7, <1>8
<1>10. \A i \in 1..n : ShareOf(F, need, i) \subseteq Smallest(F, total)
  <2> HIDE DEF share
  <2> QED BY <1>5, <1>8
<1>11. \A p \in Smallest(F, total) : \E i \in 1..n : p \in ShareOf(F, need, i)
  <2> HIDE DEF share
  <2> QED BY <1>6, <1>8
<1> QED
  BY <1>9, <1>10, <1>11 DEF total

\* The pages of slots are pages of the pool.
LEMMA PagesOfSlots ==
  ASSUME NEW S \in SUBSET Slots
  PROVE  PagesOf(S) \subseteq Pages /\ Freeable(S) = PagesOf(S)
BY SlotRange DEF PagesOf, Freeable

\* The pages of two sets of slots together.
LEMMA PagesOfUnion ==
  ASSUME NEW S, NEW T
  PROVE  PagesOf(S \cup T) = PagesOf(S) \cup PagesOf(T)
BY DEF PagesOf

\* A row of slots lies in pages of the pool.
LEMMA HeldPages ==
  ASSUME NEW rho \in Seq(Slots)
  PROVE  PagesOfRow(rho) \subseteq Pages
BY SlotRange DEF PagesOf, PagesOfRow

\* A batch of one row takes what the row needs, from the front of the list.
LEMMA NeedOne ==
  ASSUME NEW k \in Nat, NEW need, need = [i \in 1..1 |-> k]
  PROVE  NeedBefore(need, 1) = 0 /\ NeedTotal(need, 1) = k
<1>1. UNION {{j} \X (1..need[j]) : j \in 1..(1 - 1)} = {}
  OBVIOUS
<1>2. NeedBefore(need, 1) = 0
  BY <1>1, FS_EmptySet DEF NeedBefore
<1>3. 1..((1 + 1) - 1) = {1} /\ need[1] = k
  OBVIOUS
<1>4. UNION {{j} \X (1..need[j]) : j \in 1..((1 + 1) - 1)} = {1} \X (1..k)
  BY <1>3
<1>5. Cardinality({1} \X (1..k)) = Cardinality({1}) * Cardinality(1..k)
  BY FS_Singleton, IntervalCard, FS_Product
<1>6. Cardinality({1}) = 1 /\ Cardinality(1..k) = k
  BY FS_Singleton, IntervalCard
<1>7. NeedTotal(need, 1) = k
  <2>1. NeedTotal(need, 1) = Cardinality({1} \X (1..k))
    BY <1>4 DEF NeedTotal, NeedBefore
  <2>2. 1 * k = k
    OBVIOUS
  <2> QED BY <1>5, <1>6, <2>1, <2>2
<1> QED
  BY <1>2, <1>7

\* Whole pages round up to themselves.
LEMMA CeilMultiple ==
  ASSUME NEW k \in Nat
  PROVE  k * PageSize \in Nat /\ CeilPages(k * PageSize) = k /\ CeilPages(0) = 0
<1>1. PageSize \in Nat /\ PageSize >= 2 /\ PageSize - 1 \in 0..(PageSize - 1)
  BY PageAssumption
<1>2. \A j \in Nat : j * PageSize + PageSize - 1 = PageSize * j + (PageSize - 1)
  BY PageAssumption
<1>3. \A j \in Nat : CeilPages(j * PageSize) = j
  BY <1>1, <1>2, DivUnique DEF CeilPages
<1>4. 0 * PageSize = 0 /\ k * PageSize \in Nat
  BY PageAssumption
<1> QED
  BY <1>3, <1>4

---------------------------------------------------------------------------
\* alloc_decode_kernel gives the slot alloc_extend_kernel would give for one
\* more token.
LEMMA DecodeIsExtend ==
  ASSUME NEW F \in SUBSET Pages, NEW n \in Nat, NEW seq \in [1..n -> Nat \ {0}],
         NeedTotal(DecodeNeed(seq), n) <= Cardinality(F),
         NEW i \in 1..n, NEW last, last[i] \in Int, NEW pre, pre[i] = seq[i] - 1
  PROVE  DecodeSlot(F, seq, last, i) = ExtendSlot(F, pre, DecodeNeed(seq), last, i, pre[i])
<1> DEFINE len == pre[i]
           c == CeilPages(len)
           d == CeilPages(seq[i])
           q == BlockOf(seq[i])
           nb == NeedBefore(DecodeNeed(seq), i)
<1>1. /\ seq[i] \in Nat /\ seq[i] >= 1 /\ len \in Nat /\ len = seq[i] - 1
  OBVIOUS
<1>2. /\ DecodeNeed(seq)[i] = d - c
      /\ d - c = IF seq[i] % PageSize = 1 THEN 1 ELSE 0
  BY <1>1, DecodeNewPage DEF DecodeNeed, NewPages
<1>3. /\ q \in Nat /\ len % PageSize \in 0..(PageSize - 1)
      /\ len = PageSize * q + (len % PageSize)
      /\ len \div PageSize = q
  BY <1>1, BlockSpec DEF BlockOf
<1>4. /\ len < c * PageSize <=> q < c
      /\ q < d
  BY <1>1, BlockBelow
<1>5. c \in Nat /\ d \in Nat /\ PageSize * c < len + PageSize /\ PageSize * c \in Int
      /\ PageSize \in Nat /\ PageSize >= 2 /\ PageSize * q \in Int
  <2>1. c \in Nat /\ d \in Nat /\ PageSize * c < len + PageSize
    BY <1>1, CeilSpec
  <2>2. PageSize \in Nat /\ PageSize >= 2
    BY PageAssumption
  <2> HIDE DEF c, d, q, len
  <2> QED BY <1>3, <2>1, <2>2
<1>6. DecodeSlot(F, seq, last, i) = IF DecodeNeed(seq)[i] = 0
                                      THEN last[i] + 1
                                      ELSE NthFree(F, nb) * PageSize
  BY DEF DecodeSlot
<1>7. ExtendSlot(F, pre, DecodeNeed(seq), last, i, len) =
        IF len < c * PageSize
          THEN last[i] + 1 + (len - len)
          ELSE (NthFree(F, nb + (len \div PageSize - c)) * PageSize) + (len % PageSize)
  BY DEF ExtendSlot
<1> HIDE DEF len, c, d, q, nb
<1>8. CASE seq[i] % PageSize # 1
  BY <1>1, <1>2, <1>4, <1>5, <1>6, <1>7, <1>8, SMTT(30)
<1>9. CASE seq[i] % PageSize = 1
  <2>1. seq[i] = PageSize * (seq[i] \div PageSize) + 1 /\ seq[i] \div PageSize \in Int
    BY <1>1, <1>9, DivMod
  <2>2. len = PageSize * (seq[i] \div PageSize) + 0 /\ 0 \in 0..(PageSize - 1)
    BY <1>1, <1>5, <2>1
  <2>3. len % PageSize = 0
    BY <2>1, <2>2, DivUnique
  <2>4. len = PageSize * q
    BY <1>3, <1>5, <2>3
  <2>5. ~(q < c)
    <3> SUFFICES ASSUME q < c PROVE FALSE
      OBVIOUS
    <3>1. PageSize * q + PageSize <= PageSize * c
      BY <1>3, <1>5, MulOrder
    <3> QED BY <1>5, <2>4, <3>1
  <2>6. q = c
    BY <1>2, <1>3, <1>4, <1>5, <1>9, <2>5
  <2>7. DecodeNeed(seq) \in [1..n -> 0..1] /\ nb \in Nat
    <3>1. DecodeNeed(seq) \in [1..n -> 0..1]
      <4>1. ASSUME NEW j \in 1..n PROVE NewPages(seq[j] - 1, seq[j]) \in 0..1
        <5>1. seq[j] \in Nat /\ seq[j] >= 1
          OBVIOUS
        <5> QED BY <5>1, DecodeNewPage
      <4> QED BY <4>1 DEF DecodeNeed
    <3>2. i + 1 \in (i + 1)..(n + 1) /\ 1 \in Nat
      OBVIOUS
    <3> QED BY <3>1, <3>2, NeedBeforeStep DEF nb
  <2>8. nb + (len \div PageSize - c) = nb
    BY <1>3, <1>5, <2>6, <2>7
  <2>9. NthFree(F, nb) * PageSize \in Int
    <3>1. nb \in nb..(nb + DecodeNeed(seq)[i] - 1)
      BY <1>2, <1>9, <2>7
    <3>2. NthFree(F, nb) \in ShareOf(F, DecodeNeed(seq), i)
      BY <3>1, Zenon DEF ShareOf, nb
    <3>3. ShareOf(F, DecodeNeed(seq), i) \subseteq Smallest(F, NeedTotal(DecodeNeed(seq), n))
      <4>1. 1 \in Nat
        OBVIOUS
      <4> QED BY <2>7, <4>1, SharesOfBatch
    <3>4. NthFree(F, nb) \in F
      BY <3>2, <3>3 DEF Smallest
    <3>5. \A p \in F : p \in Int
      BY PageAssumption DEF Pages
    <3> QED BY <1>5, <3>4, <3>5
  <2>10. (NthFree(F, nb) * PageSize) + (len % PageSize) = NthFree(F, nb) * PageSize
    BY <2>3, <2>9
  <2> QED BY <1>1, <1>2, <1>4, <1>6, <1>7, <1>9, <2>5, <2>8, <2>10
<1> QED
  BY <1>8, <1>9 DEF len

---------------------------------------------------------------------------
(* Indices and sequences.                                                   *)

\* Every set of numbers has a least element.
LEMMA LeastNat ==
  ASSUME NEW T \in SUBSET Nat, T # {}
  PROVE  \E x \in T : \A y \in T : x <= y
<1>1. PICK x \in T : \A y \in T : ~ (<<y, x>> \in OpToRel(<, Nat))
  BY WFMin, NatLessThanWellFounded
<1>2. ASSUME NEW y \in T PROVE x <= y
  <2>1. y \in Nat /\ x \in Nat
    OBVIOUS
  <2>2. ~(y < x)
    BY <1>1, <2>1 DEF OpToRel
  <2> QED BY <2>1, <2>2
<1> QED BY <1>2

\* A set of indices has a greatest one.
LEMMA GreatestIndex ==
  ASSUME NEW n \in Nat, NEW T \in SUBSET (0..n), T # {}
  PROVE  \E x \in T : \A y \in T : y <= x
<1> DEFINE U == {n - x : x \in T}
<1>6. \A x \in T : x \in 0..n
  OBVIOUS
<1>1. U \in SUBSET Nat /\ U # {}
  <2>1. \A x \in T : n - x \in Nat
    BY <1>6
  <2> QED BY <2>1
<1>2. PICK u \in U : \A v \in U : u <= v
  <2> HIDE DEF U
  <2> QED BY <1>1, LeastNat
<1>3. PICK x \in T : u = n - x
  OBVIOUS
<1>4. \A y \in T : n - x <= n - y
  BY <1>2, <1>3
<1>5. \A y \in T : y \in Int /\ x \in Int
  BY <1>6
<1> QED BY <1>4, <1>5

\* Induction over the indices 0..n, for the set of those that have a property.
LEMMA IndexInduction ==
  ASSUME NEW n \in Nat, NEW G, 0 \in G, \A i \in 1..n : i - 1 \in G => i \in G
  PROVE  0..n \subseteq G
<1> DEFINE Bad == (0..n) \ G
<1>1. SUFFICES ASSUME Bad # {} PROVE FALSE
  OBVIOUS
<1>2. PICK x \in Bad : \A y \in Bad : x <= y
  <2>1. Bad \in SUBSET Nat
    OBVIOUS
  <2> HIDE DEF Bad
  <2> QED BY <1>1, <2>1, LeastNat
<1>3. x \in 1..n /\ x - 1 \in 0..n /\ x - 1 < x
  BY <1>2
<1>4. x - 1 \notin Bad
  BY <1>2, <1>3
<1> QED BY <1>2, <1>3, <1>4

\* The length, the domain and the elements of a sequence.
LEMMA Elements ==
  ASSUME NEW S, NEW s \in Seq(S)
  PROVE  Len(s) \in Nat /\ DOMAIN s = 1..Len(s) /\ \A i \in 1..Len(s) : s[i] \in S
OBVIOUS

\* Ranges, and sequences whose elements are all different.
LEMMA RangeAppend ==
  ASSUME NEW S, NEW s \in Seq(S), NEW x \in S
  PROVE  /\ Append(s, x) \in Seq(S) /\ Range(Append(s, x)) = Range(s) \cup {x}
         /\ Range(s) \subseteq S
         /\ IsInjective(s) /\ x \notin Range(s) => IsInjective(Append(s, x))
<1> DEFINE a == Append(s, x)
<1>1. /\ a \in Seq(S) /\ Len(a) = Len(s) + 1 /\ Len(s) \in Nat
      /\ DOMAIN a = 1..(Len(s) + 1) /\ DOMAIN s = 1..Len(s)
      /\ \A i \in 1..Len(s) : a[i] = s[i]
      /\ a[Len(s) + 1] = x
  BY AppendProperties
<1> HIDE DEF a
<1>2. Len(s) + 1 \in DOMAIN a /\ \A i \in DOMAIN a : i \in DOMAIN s \/ i = Len(s) + 1
  BY <1>1
<1>3. Range(a) = Range(s) \cup {x}
  BY <1>1, <1>2 DEF Range
<1>4. ASSUME IsInjective(s), x \notin Range(s) PROVE IsInjective(a)
  BY <1>1, <1>2, <1>4 DEF IsInjective, Range
<1>5. Range(s) \subseteq S
  BY DEF Range
<1> QED BY <1>1, <1>3, <1>4, <1>5 DEF a

\* A sequence behind another.
LEMMA RangeConcat ==
  ASSUME NEW S, NEW s \in Seq(S), NEW t \in Seq(S)
  PROVE  /\ s \o t \in Seq(S) /\ Range(s \o t) = Range(s) \cup Range(t)
         /\ IsInjective(s \o t) <=>
              IsInjective(s) /\ IsInjective(t) /\ Range(s) \cap Range(t) = {}
<1> DEFINE a == s \o t
<1>1. /\ a \in Seq(S) /\ Len(s) \in Nat /\ Len(t) \in Nat
      /\ DOMAIN a = 1..(Len(s) + Len(t)) /\ DOMAIN s = 1..Len(s) /\ DOMAIN t = 1..Len(t)
      /\ \A i \in DOMAIN s : i \in DOMAIN a /\ a[i] = s[i]
      /\ \A i \in DOMAIN t : Len(s) + i \in DOMAIN a /\ a[Len(s) + i] = t[i]
      /\ \A i \in DOMAIN a : i \in DOMAIN s \/ (i - Len(s) \in DOMAIN t /\ Len(s) + (i - Len(s)) = i)
  <2>1. /\ a \in Seq(S) /\ Len(a) = Len(s) + Len(t) /\ Len(s) \in Nat /\ Len(t) \in Nat
        /\ DOMAIN a = 1..Len(a) /\ DOMAIN s = 1..Len(s) /\ DOMAIN t = 1..Len(t)
        /\ \A i \in 1..(Len(s) + Len(t)) : a[i] = IF i <= Len(s) THEN s[i] ELSE t[i - Len(s)]
    BY ConcatProperties
  <2> HIDE DEF a
  <2> QED BY <2>1, SMTT(30)
<1> HIDE DEF a
<1>2. Range(a) = Range(s) \cup Range(t)
  <2>1. ASSUME NEW x \in Range(a) PROVE x \in Range(s) \cup Range(t)
    <3>1. PICK i \in DOMAIN a : x = a[i]
      BY <2>1 DEF Range
    <3> QED BY <3>1, <1>1 DEF Range
  <2>2. Range(s) \subseteq Range(a)
    BY <1>1 DEF Range
  <2>3. Range(t) \subseteq Range(a)
    BY <1>1 DEF Range
  <2> QED BY <2>1, <2>2, <2>3
<1>3. ASSUME IsInjective(a)
      PROVE  IsInjective(s) /\ IsInjective(t) /\ Range(s) \cap Range(t) = {}
  <2>1. IsInjective(s)
    BY <1>1, <1>3 DEF IsInjective
  <2>2. IsInjective(t)
    <3> SUFFICES ASSUME NEW i \in DOMAIN t, NEW j \in DOMAIN t, t[i] = t[j] PROVE i = j
      BY DEF IsInjective
    <3>1. Len(s) + i = Len(s) + j /\ i \in Nat /\ j \in Nat
      BY <1>1, <1>3 DEF IsInjective
    <3> QED BY <3>1, <1>1
  <2>3. ASSUME NEW i \in DOMAIN s, NEW j \in DOMAIN t, s[i] = t[j] PROVE FALSE
    <3>1. i = Len(s) + j /\ i \in 1..Len(s) /\ j \in 1..Len(t)
      BY <1>1, <1>3, <2>3 DEF IsInjective
    <3> QED BY <3>1, <1>1
  <2> QED BY <2>1, <2>2, <2>3 DEF Range
<1>4. ASSUME IsInjective(s), IsInjective(t), Range(s) \cap Range(t) = {},
             NEW i \in DOMAIN a, NEW j \in DOMAIN a, a[i] = a[j]
      PROVE  i = j
  <2> DEFINE x == i - Len(s)
             y == j - Len(s)
  <2>1. /\ i \in DOMAIN s \/ (x \in DOMAIN t /\ Len(s) + x = i)
        /\ j \in DOMAIN s \/ (y \in DOMAIN t /\ Len(s) + y = j)
    BY <1>1
  <2> HIDE DEF x, y
  <2>6. /\ \A k \in DOMAIN s : s[k] \in Range(s) /\ a[k] = s[k]
        /\ \A k \in DOMAIN t : t[k] \in Range(t) /\ a[Len(s) + k] = t[k]
    BY <1>1 DEF Range
  <2>2. CASE i \in DOMAIN s /\ j \in DOMAIN s
    BY <1>1, <1>4, <2>2 DEF IsInjective
  <2>3. CASE i \in DOMAIN s /\ j \notin DOMAIN s
    <3>1. a[i] \in Range(s) /\ a[j] \in Range(t)
      BY <2>1, <2>3, <2>6
    <3> QED BY <1>4, <3>1
  <2>4. CASE i \notin DOMAIN s /\ j \in DOMAIN s
    <3>1. a[j] \in Range(s) /\ a[i] \in Range(t)
      BY <2>1, <2>4, <2>6
    <3> QED BY <1>4, <3>1
  <2>5. CASE i \notin DOMAIN s /\ j \notin DOMAIN s
    BY <1>1, <1>4, <2>1, <2>5 DEF IsInjective
  <2> QED BY <2>2, <2>3, <2>4, <2>5
<1> QED BY <1>1, <1>2, <1>3, <1>4 DEF a, IsInjective


---------------------------------------------------------------------------
(* Prefixes of sequences over a set K.                                      *)

\* IsPrefix, position by position.
LEMMA PrefixIs ==
  ASSUME NEW K, NEW s \in Seq(K), NEW t \in Seq(K)
  PROVE  IsPrefix(s, t) <=> Len(s) <= Len(t) /\ \A i \in 1..Len(s) : s[i] = t[i]
<1> DEFINE l == Len(s)
           a == SubSeq(s, 1, l)
           b == SubSeq(t, 1, l)
<1>1. /\ Len(s) \in Nat /\ Len(t) \in Nat /\ \A i \in 1..Len(s) : s[i] \in K
      /\ \A i \in 1..Len(t) : t[i] \in K
  BY Elements
<1>2. ASSUME l <= Len(t)
      PROVE  a = b <=> \A i \in 1..l : s[i] = t[i]
  <2>1. a \in Seq(K) /\ Len(a) = l /\ \A i \in 1..l : a[i] = s[i]
    <3>1. l \in Int /\ \A i \in 1..l : s[i] \in K
      BY <1>1
    <3> HIDE DEF l
    <3>2. /\ a \in Seq(K) /\ Len(a) = (IF 1 <= l THEN l - 1 + 1 ELSE 0)
          /\ \A i \in 1..(l - 1 + 1) : a[i] = s[1 + i - 1]
      BY <3>1, SubSeqProperties DEF a
    <3>3. l \in Nat
      BY <1>1 DEF l
    <3> QED BY <3>2, <3>3
  <2>2. b \in Seq(K) /\ Len(b) = l /\ \A i \in 1..l : b[i] = t[i]
    <3>1. l \in Int /\ \A i \in 1..l : t[i] \in K
      BY <1>1, <1>2
    <3> HIDE DEF l
    <3>2. /\ b \in Seq(K) /\ Len(b) = (IF 1 <= l THEN l - 1 + 1 ELSE 0)
          /\ \A i \in 1..(l - 1 + 1) : b[i] = t[1 + i - 1]
      BY <3>1, SubSeqProperties DEF b
    <3>3. l \in Nat
      BY <1>1 DEF l
    <3> QED BY <3>2, <3>3
  <2> HIDE DEF a, b, l
  <2>3. ASSUME \A i \in 1..l : s[i] = t[i] PROVE a = b
    BY <2>1, <2>2, <2>3, SeqEqual
  <2>4. ASSUME a = b, NEW i \in 1..l PROVE s[i] = t[i]
    BY <2>1, <2>2, <2>4
  <2> QED BY <2>3, <2>4
<1> QED BY <1>2 DEF IsPrefix

\* The prefixes of a sequence are ordered as their lengths are.
LEMMA PrefixOrder ==
  ASSUME NEW K, NEW s \in Seq(K), NEW t \in Seq(K)
  PROVE  /\ Len(s) \in Nat
         /\ IsPrefix(s, s)
         /\ IsPrefix(s, t) => Len(s) <= Len(t)
         /\ IsPrefix(s, t) /\ Len(t) <= Len(s) => s = t
<1>1. Len(s) \in Nat /\ Len(t) \in Nat
  BY Elements
<1>2. IsPrefix(s, t) /\ Len(t) <= Len(s) => s = t
  BY <1>1, PrefixIs, SeqEqual
<1> QED BY <1>1, <1>2, PrefixIs

\* A prefix of a prefix is a prefix.
LEMMA PrefixTrans ==
  ASSUME NEW K, NEW s \in Seq(K), NEW t \in Seq(K), NEW u \in Seq(K), IsPrefix(s, t), IsPrefix(t, u)
  PROVE  IsPrefix(s, u)
<1>1. Len(s) \in Nat /\ Len(t) \in Nat /\ Len(u) \in Nat
  BY Elements
<1>2. /\ Len(s) <= Len(t) /\ \A i \in 1..Len(s) : s[i] = t[i]
      /\ Len(t) <= Len(u) /\ \A i \in 1..Len(t) : t[i] = u[i]
  BY PrefixIs
<1>3. \A i \in 1..Len(s) : i \in 1..Len(t)
  BY <1>1, <1>2
<1>4. Len(s) <= Len(u) /\ \A i \in 1..Len(s) : s[i] = u[i]
  BY <1>1, <1>2, <1>3
<1> QED BY <1>4, PrefixIs

\* Of two prefixes of one sequence, the shorter is a prefix of the longer.
LEMMA PrefixChain ==
  ASSUME NEW K, NEW s \in Seq(K), NEW t \in Seq(K), NEW u \in Seq(K),
         IsPrefix(s, u), IsPrefix(t, u), Len(s) <= Len(t)
  PROVE  IsPrefix(s, t)
<1>1. Len(s) \in Nat /\ Len(t) \in Nat /\ Len(u) \in Nat
  BY Elements
<1>2. /\ \A i \in 1..Len(s) : s[i] = u[i]
      /\ \A i \in 1..Len(t) : t[i] = u[i]
  BY PrefixIs
<1>3. \A i \in 1..Len(s) : i \in 1..Len(t)
  BY <1>1
<1>4. \A i \in 1..Len(s) : s[i] = t[i]
  BY <1>2, <1>3
<1> QED BY <1>4, PrefixIs

\* The empty sequence, and the only sequence of length 0.
LEMMA PrefixEmpty ==
  ASSUME NEW K, NEW s \in Seq(K)
  PROVE  /\ << >> \in Seq(K) /\ Len(<< >>) = 0 /\ IsPrefix(<< >>, s)
         /\ Len(s) = 0 => s = << >>
         /\ s # << >> => Len(s) > 0
         /\ IsPrefix(s, << >>) => s = << >>
<1>1. << >> \in Seq(K) /\ Len(<< >>) = 0 /\ (s # << >> => Len(s) \in Nat \ {0}) /\ Len(s) \in Nat
  BY EmptySeq, Elements
<1>2. PICK e : e = << >>
  OBVIOUS
<1>3. e \in Seq(K) /\ Len(e) = 0
  BY <1>1, <1>2
<1>4. IsPrefix(e, s)
  <2>1. Len(s) \in Nat
    BY <1>1
  <2>2. Len(e) <= Len(s) /\ \A i \in 1..Len(e) : e[i] = s[i]
    BY <2>1, <1>3
  <2> QED BY <2>2, <1>3, PrefixIs
<1>5. IsPrefix(s, e) => Len(s) <= 0
  BY <1>3, PrefixIs
<1> QED BY <1>1, <1>2, <1>3, <1>4, <1>5

\* The first l elements of a sequence.
LEMMA CutIs ==
  ASSUME NEW K, NEW s \in Seq(K), NEW l \in 0..Len(s), NEW a, a = SubSeq(s, 1, l)
  PROVE  /\ a \in Seq(K) /\ Len(a) = l /\ IsPrefix(a, s)
         /\ \A i \in 1..l : a[i] = s[i]
         /\ \A p \in Seq(K) : IsPrefix(p, s) /\ Len(p) = l => p = a
<1>1. /\ Len(s) \in Nat /\ l \in Nat /\ l <= Len(s) /\ \A i \in 1..Len(s) : s[i] \in K
  BY Elements
<1>2. l \in Int /\ \A i \in 1..l : s[i] \in K
  BY <1>1
<1>3. /\ a \in Seq(K) /\ Len(a) = (IF 1 <= l THEN l - 1 + 1 ELSE 0)
      /\ \A i \in 1..(l - 1 + 1) : a[i] = s[1 + i - 1]
  <2> DEFINE x == SubSeq(s, 1, l)
  <2>1. /\ x \in Seq(K) /\ Len(x) = (IF 1 <= l THEN l - 1 + 1 ELSE 0)
        /\ \A i \in 1..(l - 1 + 1) : x[i] = s[1 + i - 1]
    BY <1>2, SubSeqProperties
  <2> QED BY <2>1
<1>4. Len(a) = l /\ \A i \in 1..l : a[i] = s[i]
  BY <1>1, <1>3
<1>5. IsPrefix(a, s)
  BY <1>1, <1>3, <1>4, PrefixIs
<1>6. ASSUME NEW p \in Seq(K), IsPrefix(p, s), Len(p) = l PROVE p = a
  <2>1. \A i \in 1..l : p[i] = s[i]
    BY <1>6, PrefixIs
  <2> QED BY <2>1, <1>3, <1>4, <1>6, SeqEqual
<1> QED BY <1>3, <1>4, <1>5, <1>6

\* The same, with a name for the part.
Cut(s, l) == SubSeq(s, 1, l)

\* What Cut is, for proofs that hide SubSeq.
LEMMA CutOf ==
  ASSUME NEW K, NEW s \in Seq(K), NEW l \in 0..Len(s)
  PROVE  /\ Cut(s, l) \in Seq(K) /\ Len(Cut(s, l)) = l /\ IsPrefix(Cut(s, l), s)
         /\ \A p \in Seq(K) : IsPrefix(p, s) /\ Len(p) = l => p = Cut(s, l)
<1>1. PICK a : a = SubSeq(s, 1, l)
  OBVIOUS
<1>2. /\ a \in Seq(K) /\ Len(a) = l /\ IsPrefix(a, s)
      /\ \A p \in Seq(K) : IsPrefix(p, s) /\ Len(p) = l => p = a
  BY <1>1, CutIs
<1> QED BY <1>1, <1>2 DEF Cut

\* The set of prefixes is the sequences IsPrefix holds of.
LEMMA PrefixesAre ==
  ASSUME NEW K, NEW s \in Seq(K), NEW p
  PROVE  p \in Prefixes(s) <=> p \in Seq(K) /\ IsPrefix(p, s)
<1>1. Len(s) \in Nat
  BY Elements
<1>2. ASSUME p \in Prefixes(s) PROVE p \in Seq(K) /\ IsPrefix(p, s)
  <2>1. PICK l \in 0..Len(s) : p = SubSeq(s, 1, l)
    BY <1>2 DEF Prefixes
  <2> QED BY <2>1, CutIs
<1>3. ASSUME p \in Seq(K), IsPrefix(p, s) PROVE p \in Prefixes(s)
  <2>1. Len(p) \in 0..Len(s)
    BY <1>1, <1>3, PrefixIs, Elements
  <2>2. PICK l, a : l = Len(p) /\ a = SubSeq(s, 1, l)
    OBVIOUS
  <2>3. l \in 0..Len(s) /\ a = SubSeq(s, 1, l) /\ s \in Seq(K)
    BY ONLY <2>1, <2>2, s \in Seq(K)
  <2>4. \A x \in Seq(K) : IsPrefix(x, s) /\ Len(x) = l => x = a
    BY ONLY <2>3, CutIs
  <2>5. p = a
    BY ONLY <2>4, <2>2, <1>3
  <2> QED BY <2>3, <2>5 DEF Prefixes
<1> QED BY <1>2, <1>3

---------------------------------------------------------------------------
(* Trees.                                                                   *)

\* The longest of a set of prefixes of a sequence n.
LEMMA LongestIs ==
  ASSUME NEW K, NEW n \in Seq(K), NEW S \in SUBSET Seq(K), S # {}, \A p \in S : IsPrefix(p, n)
  PROVE  /\ Longest(S) \in S
         /\ \A p \in S : IsPrefix(p, Longest(S))
         /\ \A x \in S : (\A p \in S : IsPrefix(p, x)) => x = Longest(S)
<1> DEFINE T == {Len(p) : p \in S}
           x == Longest(S)
<1>1. \A p \in S : p \in Seq(K) /\ IsPrefix(p, n) /\ Len(p) \in 0..Len(n) /\ Len(n) \in Nat
  <2> TAKE p \in S
  <2>1. p \in Seq(K) /\ IsPrefix(p, n)
    OBVIOUS
  <2>2. Len(p) \in Nat /\ Len(n) \in Nat /\ Len(p) <= Len(n)
    BY <2>1, PrefixOrder
  <2> QED BY <2>1, <2>2
<1>2. T \in SUBSET (0..Len(n)) /\ T # {} /\ Len(n) \in Nat
  BY <1>1
<1>3. PICK m \in T : \A y \in T : y <= m
  <2> HIDE DEF T
  <2> QED BY <1>2, GreatestIndex
<1>4. PICK p \in S : Len(p) = m
  BY <1>3
<1>5. \A q \in S : Len(q) <= Len(p)
  BY <1>3, <1>4
<1>6. x \in S /\ \A q \in S : Len(q) <= Len(x)
  BY <1>5 DEF Longest
<1> HIDE DEF x
<1>7. \A q \in S : IsPrefix(q, x)
  BY <1>1, <1>6, PrefixChain
<1>8. ASSUME NEW y \in S, \A q \in S : IsPrefix(q, y) PROVE y = x
  <2>1. x \in Seq(K) /\ y \in Seq(K) /\ IsPrefix(x, y) /\ Len(y) <= Len(x)
    BY <1>6, <1>8
  <2> QED BY <2>1, PrefixOrder
<1> QED BY <1>6, <1>7, <1>8 DEF x

\* Records of the shape of a tree.
IsRecord(t) == t = [value |-> t.value, lock |-> t.lock, atime |-> t.atime,
                    evictable |-> t.evictable, protected |-> t.protected]

\* What a tree keeps for a page: its number, or the KV indices in it.
Value == Int \cup Seq(Int)

\* A tree over the contents K: its nodes are paths, every value is a sequence as long as
\* the node's own key, and where two paths part there is a node.
Meets(K, N) ==
  \A n, m \in N : \A p \in Seq(K) \ {<< >>} :
    IsPrefix(p, n) /\ IsPrefix(p, m) =>
      \E c \in N : IsPrefix(p, c) /\ IsPrefix(c, n) /\ IsPrefix(c, m)

IsTree(K, t) ==
  /\ IsRecord(t)
  /\ Nodes(t) \in SUBSET (Seq(K) \ {<< >>}) /\ IsFiniteSet(Nodes(t))
  /\ t.value \in [Nodes(t) -> Seq(Value)]
  /\ t.lock \in [Nodes(t) -> Nat] /\ t.atime \in [Nodes(t) -> Nat]
  /\ t.evictable \in Int /\ t.protected \in Int
  /\ \A n \in Nodes(t) : Len(t.value[n]) = Len(n) - Len(Parent(t, n))
  /\ Meets(K, Nodes(t))

\* The paths a tree knows, and the node whose own key a path ends in.
Known(t) == (UNION {Prefixes(n) : n \in Nodes(t)}) \ {<< >>}

At(t, p) == CHOOSE n \in Nodes(t) : IsPrefix(p, n) /\ Len(Parent(t, n)) < Len(p)

\* The parent of a path (of a node, or of one that is to become a node).
LEMMA ParentIs ==
  ASSUME NEW K, NEW t, Nodes(t) \in SUBSET (Seq(K) \ {<< >>}), NEW n \in Seq(K), n # << >>
  PROVE  /\ Parent(t, n) \in Seq(K) /\ Parent(t, n) \in Nodes(t) \cup {<< >>}
         /\ IsPrefix(Parent(t, n), n) /\ Len(Parent(t, n)) < Len(n) /\ Parent(t, n) # n
         /\ \A m \in Nodes(t) : IsPrefix(m, n) /\ m # n => IsPrefix(m, Parent(t, n))
         /\ \A x \in Nodes(t) \cup {<< >>} :
              /\ x # n /\ IsPrefix(x, n)
              /\ \A m \in Nodes(t) : IsPrefix(m, n) /\ m # n => IsPrefix(m, x)
              => x = Parent(t, n)
<1> DEFINE S == {<< >>} \cup {m \in Nodes(t) \ {n} : IsPrefix(m, n)}
           q == Longest(S)
<1>1. << >> \in Seq(K) /\ IsPrefix(<< >>, n) /\ \A m \in Nodes(t) : m \in Seq(K) /\ m # << >>
  BY PrefixEmpty
<1>2. S \in SUBSET Seq(K) /\ S # {} /\ \A p \in S : IsPrefix(p, n)
  BY <1>1
<1>3. /\ q \in S /\ \A p \in S : IsPrefix(p, q)
      /\ \A x \in S : (\A p \in S : IsPrefix(p, x)) => x = q
  <2> HIDE DEF S
  <2> QED BY <1>2, LongestIs
<1>4. q = Parent(t, n)
  BY DEF Parent
<1> HIDE DEF q
<1>5. q \in Seq(K) /\ IsPrefix(q, n) /\ q # n
  BY <1>1, <1>3
<1>6. Len(q) < Len(n)
  <2>1. Len(q) \in Nat /\ Len(n) \in Nat /\ Len(q) <= Len(n) /\ ~ (Len(n) <= Len(q))
    BY <1>5, PrefixOrder
  <2> QED BY <2>1
<1>7. \A m \in Nodes(t) : IsPrefix(m, n) /\ m # n => IsPrefix(m, q)
  BY <1>3
<1>8. ASSUME NEW x \in Nodes(t) \cup {<< >>}, x # n, IsPrefix(x, n),
             \A m \in Nodes(t) : IsPrefix(m, n) /\ m # n => IsPrefix(m, x)
      PROVE  x = q
  <2>1. x \in S /\ x \in Seq(K)
    BY <1>1, <1>8
  <2>2. \A p \in S : IsPrefix(p, x)
    BY <1>8, <2>1, PrefixEmpty
  <2> QED BY <1>3, <2>1, <2>2
<1>9. q \in Nodes(t) \cup {<< >>}
  BY <1>3
<1> QED BY <1>4, <1>5, <1>6, <1>7, <1>8, <1>9

\* A path is known when some node extends it; a node is known itself.
LEMMA KnownIs ==
  ASSUME NEW K, NEW t, Nodes(t) \in SUBSET (Seq(K) \ {<< >>}), NEW p
  PROVE  /\ p \in Known(t) <=> p \in Seq(K) /\ p # << >> /\ \E n \in Nodes(t) : IsPrefix(p, n)
         /\ p \in Nodes(t) => p \in Known(t)
<1>1. \A n \in Nodes(t) : n \in Seq(K) /\ n # << >> /\ IsPrefix(n, n)
  BY PrefixOrder
<1>2. \A n \in Nodes(t) : p \in Prefixes(n) <=> p \in Seq(K) /\ IsPrefix(p, n)
  BY <1>1, PrefixesAre
<1>3. p \in Known(t) <=> p # << >> /\ \E n \in Nodes(t) : p \in Prefixes(n)
  BY DEF Known
<1>4. p \in Known(t) <=> p \in Seq(K) /\ p # << >> /\ \E n \in Nodes(t) : IsPrefix(p, n)
  BY <1>2, <1>3
<1> QED BY <1>1, <1>4

\* A path that is known ends in the own key of one node, and every node that extends
\* the path extends this node.
LEMMA AtIs ==
  ASSUME NEW K, NEW t, Nodes(t) \in SUBSET (Seq(K) \ {<< >>}), Meets(K, Nodes(t)),
         NEW p \in Known(t)
  PROVE  /\ p \in Seq(K) /\ p # << >> /\ Len(p) \in Nat \ {0}
         /\ At(t, p) \in Nodes(t) /\ IsPrefix(p, At(t, p)) /\ Len(Parent(t, At(t, p))) < Len(p)
         /\ \A m \in Nodes(t) : IsPrefix(p, m) => IsPrefix(At(t, p), m)
         /\ \A n \in Nodes(t) : IsPrefix(p, n) /\ Len(Parent(t, n)) < Len(p) => n = At(t, p)
<1>1. p \in Seq(K) /\ p # << >> /\ \E n \in Nodes(t) : IsPrefix(p, n)
  BY KnownIs
<1>2. Len(p) \in Nat \ {0}
  BY <1>1, EmptySeq
<1>3. \A n \in Nodes(t) : n \in Seq(K) /\ n # << >> /\ Len(n) \in Nat
  BY PrefixOrder
<1> DEFINE T == {Len(n) : n \in {m \in Nodes(t) : IsPrefix(p, m)}}
<1>4. T \in SUBSET Nat /\ T # {}
  BY <1>1, <1>3
<1>5. PICK l \in T : \A y \in T : l <= y
  <2> HIDE DEF T
  <2> QED BY <1>4, LeastNat
<1>6. PICK a \in Nodes(t) : IsPrefix(p, a) /\ Len(a) = l
  BY <1>5
<1>7. \A m \in Nodes(t) : IsPrefix(p, m) => Len(a) <= Len(m)
  BY <1>5, <1>6
<1>8. ASSUME NEW m \in Nodes(t), IsPrefix(p, m) PROVE IsPrefix(a, m)
  <2>1. PICK c \in Nodes(t) : IsPrefix(p, c) /\ IsPrefix(c, a) /\ IsPrefix(c, m)
    BY <1>1, <1>6, <1>8 DEF Meets
  <2>2. Len(a) <= Len(c)
    BY <2>1, <1>7
  <2>3. c = a
    BY <2>1, <2>2, <1>3, PrefixOrder
  <2> QED BY <2>1, <2>3
<1>9. Len(Parent(t, a)) < Len(p)
  <2> DEFINE q == Parent(t, a)
  <2>1. q \in Seq(K) /\ q \in Nodes(t) \cup {<< >>} /\ IsPrefix(q, a) /\ Len(q) < Len(a)
        /\ Len(q) \in Nat
    BY <1>3, ParentIs, PrefixOrder
  <2> HIDE DEF q
  <2>2. SUFFICES ASSUME Len(p) <= Len(q) PROVE FALSE
    BY <1>2, <2>1 DEF q
  <2>3. IsPrefix(p, q)
    BY <2>1, <2>2, <1>1, <1>3, <1>6, PrefixChain
  <2>4. q \in Nodes(t)
    BY <2>1, <2>2, <1>2, PrefixEmpty
  <2>5. Len(a) <= Len(q)
    BY <2>3, <2>4, <1>7
  <2> QED BY <2>1, <2>5, <1>3
<1>10. ASSUME NEW n \in Nodes(t), IsPrefix(p, n), Len(Parent(t, n)) < Len(p) PROVE n = a
  <2>1. SUFFICES ASSUME n # a PROVE FALSE
    OBVIOUS
  <2>2. IsPrefix(a, n)
    BY <1>8, <1>10
  <2>3. IsPrefix(a, Parent(t, n)) /\ Parent(t, n) \in Seq(K)
    BY <2>1, <2>2, <1>3, ParentIs
  <2>4. IsPrefix(p, Parent(t, n))
    BY <2>3, <1>1, <1>3, <1>6, PrefixTrans
  <2>5. Len(p) <= Len(Parent(t, n)) /\ Len(Parent(t, n)) \in Nat
    BY <2>3, <2>4, <1>1, PrefixOrder
  <2> QED BY <2>5, <1>2, <1>10
<1>11. At(t, p) = a
  BY <1>6, <1>9, <1>10 DEF At
<1> QED BY <1>1, <1>2, <1>6, <1>8, <1>9, <1>10, <1>11

\* u is t with a node n more.
Added(t, n, v, l, u) ==
  /\ IsRecord(u) /\ Nodes(u) = Nodes(t) \cup {n}
  /\ u.value \in [Nodes(u) -> Seq(Value)]
  /\ u.lock \in [Nodes(u) -> Nat] /\ u.atime \in [Nodes(u) -> Nat]
  /\ \A m \in Nodes(u) : u.value[m] = (IF m = n THEN v ELSE t.value[m])
  /\ \A m \in Nodes(u) : u.lock[m] = (IF m = n THEN l ELSE t.lock[m])
  /\ u.evictable = t.evictable /\ u.protected = t.protected

\* AddNode adds one node and changes no other.
LEMMA AddNodeIs ==
  ASSUME NEW t, IsRecord(t), NEW n, NEW v \in Seq(Value), NEW l \in Nat,
         t.value \in [Nodes(t) -> Seq(Value)],
         t.lock \in [Nodes(t) -> Nat], t.atime \in [Nodes(t) -> Nat]
  PROVE  Added(t, n, v, l, AddNode(t, n, v, l))
<1> DEFINE u == AddNode(t, n, v, l)
<1> DEFINE V == [m \in Nodes(t) \cup {n} |-> IF m = n THEN v ELSE t.value[m]]
           L == [m \in Nodes(t) \cup {n} |-> IF m = n THEN l ELSE t.lock[m]]
           A == [m \in Nodes(t) \cup {n} |-> IF m = n THEN 0 ELSE t.atime[m]]
<1>1. u = [t EXCEPT !.value = V, !.lock = L, !.atime = A]
  BY DEF AddNode
<1>2. DOMAIN V = Nodes(t) \cup {n}
  OBVIOUS
<1> DEFINE N == Nodes(t) \cup {n}
<1>3. /\ V \in [N -> Seq(Value)] /\ L \in [N -> Nat] /\ A \in [N -> Nat]
      /\ \A m \in N : /\ V[m] = IF m = n THEN v ELSE t.value[m]
                      /\ L[m] = IF m = n THEN l ELSE t.lock[m]
  OBVIOUS
<1> HIDE DEF V, L, A, u
<1>4. /\ IsRecord(u) /\ u.value = V /\ u.lock = L /\ u.atime = A
      /\ u.evictable = t.evictable /\ u.protected = t.protected
  BY <1>1 DEF IsRecord
<1>5. Nodes(u) = N
  BY <1>2, <1>4 DEF Nodes
<1> HIDE DEF N, u
<1>6. Added(t, n, v, l, u)
  BY <1>3, <1>4, <1>5 DEF N, Added
<1> QED BY <1>6 DEF u

\* The page of a path, by its node.
LEMMA PageAtIs ==
  ASSUME NEW K, NEW t, IsTree(K, t), NEW n \in Nodes(t), NEW p \in Seq(K), IsPrefix(p, n),
         Len(Parent(t, n)) < Len(p)
  PROVE  /\ p \in Known(t) /\ At(t, p) = n
         /\ Len(p) - Len(Parent(t, n)) \in 1..Len(t.value[n])
         /\ PageAt(t, p) = t.value[n][Len(p) - Len(Parent(t, n))]
         /\ PageAt(t, p) \in Value
<1>1. /\ Nodes(t) \in SUBSET (Seq(K) \ {<< >>}) /\ Meets(K, Nodes(t))
      /\ t.value[n] \in Seq(Value) /\ Len(t.value[n]) = Len(n) - Len(Parent(t, n))
  BY DEF IsTree
<1>2. n \in Seq(K) /\ n # << >>
  BY <1>1
<1>3. /\ Len(Parent(t, n)) \in Nat /\ Len(n) \in Nat /\ Len(p) \in Nat /\ Len(p) <= Len(n)
      /\ Parent(t, n) \in Seq(K)
  <2>1. Parent(t, n) \in Seq(K)
    BY <1>1, <1>2, ParentIs
  <2> QED BY <2>1, <1>2, PrefixOrder
<1>4. p # << >>
  BY <1>3, PrefixEmpty
<1>5. p \in Known(t)
  BY <1>1, <1>4, KnownIs
<1>6. At(t, p) = n
  BY <1>1, <1>5, AtIs
<1>7. PageAt(t, p) = t.value[At(t, p)][Len(p) - Len(Parent(t, At(t, p)))]
  BY DEF PageAt, At
<1>8. Len(p) - Len(Parent(t, n)) \in 1..Len(t.value[n])
  BY <1>1, <1>3
<1>9. t.value[n][Len(p) - Len(Parent(t, n))] \in Value
  BY <1>1, <1>8, Elements
<1> QED BY <1>5, <1>6, <1>7, <1>8, <1>9

\* Parents when a path becomes a node.
LEMMA ParentNew ==
  ASSUME NEW K, NEW t, NEW u, Nodes(t) \in SUBSET (Seq(K) \ {<< >>}),
         NEW s \in Seq(K) \ {<< >>}, Nodes(u) = Nodes(t) \cup {s},
         NEW n \in Seq(K) \ {<< >>}, IsPrefix(s, n), s # n, IsPrefix(Parent(t, n), s)
  PROVE  Parent(u, n) = s
<1>1. Nodes(u) \in SUBSET (Seq(K) \ {<< >>}) /\ n # << >>
  OBVIOUS
<1> DEFINE q == Parent(t, n)
<1>2. /\ q \in Seq(K) /\ q \in Nodes(t) \cup {<< >>} /\ IsPrefix(q, n) /\ q # n
      /\ \A m \in Nodes(t) : IsPrefix(m, n) /\ m # n => IsPrefix(m, q)
  BY ParentIs
<1>3. \A x \in Nodes(u) \cup {<< >>} :
        /\ x # n /\ IsPrefix(x, n)
        /\ \A m \in Nodes(u) : IsPrefix(m, n) /\ m # n => IsPrefix(m, x)
        => x = Parent(u, n)
  BY <1>1, ParentIs
<1>4. ASSUME NEW m \in Nodes(u), IsPrefix(m, n), m # n PROVE IsPrefix(m, s)
  <2>1. CASE m = s
    BY <2>1, PrefixOrder
  <2>2. CASE m \in Nodes(t)
    <3>1. IsPrefix(m, q)
      BY <1>2, <1>4, <2>2
    <3> HIDE DEF q
    <3>2. IsPrefix(q, s)
      BY DEF q
    <3> QED BY <3>1, <3>2, <1>2, <2>2, PrefixTrans
  <2> QED BY <2>1, <2>2
<1> QED BY <1>3, <1>4

\* n keeps its parent when a node s is added that is not between the two.
LEMMA ParentOld ==
  ASSUME NEW K, NEW t, NEW u, Nodes(t) \in SUBSET (Seq(K) \ {<< >>}),
         NEW s \in Seq(K) \ {<< >>}, Nodes(u) = Nodes(t) \cup {s},
         NEW n \in Seq(K) \ {<< >>}, ~ IsPrefix(s, n) \/ s = n \/ IsPrefix(s, Parent(t, n))
  PROVE  Parent(u, n) = Parent(t, n)
<1>1. Nodes(u) \in SUBSET (Seq(K) \ {<< >>}) /\ n # << >>
  OBVIOUS
<1> DEFINE q == Parent(t, n)
<1>2. /\ q \in Seq(K) /\ q \in Nodes(t) \cup {<< >>} /\ IsPrefix(q, n) /\ q # n
      /\ \A m \in Nodes(t) : IsPrefix(m, n) /\ m # n => IsPrefix(m, q)
  BY ParentIs
<1>3. \A x \in Nodes(u) \cup {<< >>} :
        /\ x # n /\ IsPrefix(x, n)
        /\ \A m \in Nodes(u) : IsPrefix(m, n) /\ m # n => IsPrefix(m, x)
        => x = Parent(u, n)
  BY <1>1, ParentIs
<1>4. \A m \in Nodes(u) : IsPrefix(m, n) /\ m # n => IsPrefix(m, q)
  BY <1>2
<1> QED BY <1>2, <1>3, <1>4

---------------------------------------------------------------------------
(* The operations.                                                          *)

\* Parents, and where paths end, depend on the set of nodes alone.
LEMMA NodesOnly ==
  ASSUME NEW t, NEW u, Nodes(u) = Nodes(t)
  PROVE  /\ \A n : Parent(u, n) = Parent(t, n)
         /\ Known(u) = Known(t)
         /\ \A p : At(u, p) = At(t, p)
         /\ \A p : Matched(u, p) = Matched(t, p)
<1>1. \A n : Parent(u, n) = Parent(t, n)
  BY DEF Parent
<1>2. Known(u) = Known(t)
  BY DEF Known
<1>3. \A p : Matched(u, p) = Matched(t, p)
  BY DEF Matched
<1>4. \A p : At(u, p) = At(t, p)
  BY <1>1 DEF At
<1> QED BY <1>1, <1>2, <1>3, <1>4

\* A change that leaves the nodes and their values alone.
LEMMA SameValues ==
  ASSUME NEW K, NEW t, IsTree(K, t), NEW u, IsRecord(u), u.value = t.value,
         u.lock \in [Nodes(t) -> Nat], u.atime \in [Nodes(t) -> Nat],
         u.evictable \in Int, u.protected \in Int
  PROVE  /\ IsTree(K, u) /\ Nodes(u) = Nodes(t) /\ Known(u) = Known(t)
         /\ \A p : PageAt(u, p) = PageAt(t, p)
<1>1. Nodes(u) = Nodes(t)
  BY DEF Nodes
<1>2. /\ \A n : Parent(u, n) = Parent(t, n) 
      /\ Known(u) = Known(t)
      /\ \A p : At(u, p) = At(t, p)
  BY <1>1, NodesOnly
<1>3. \A p : PageAt(u, p) = PageAt(t, p)
  <2>1. \A p : PageAt(u, p) = u.value[At(u, p)][Len(p) - Len(Parent(u, At(u, p)))]
    BY DEF PageAt, At
  <2>2. \A p : PageAt(t, p) = t.value[At(t, p)][Len(p) - Len(Parent(t, At(t, p)))]
    BY DEF PageAt, At
  <2> QED BY <2>1, <2>2, <1>2
<1>4. IsTree(K, u)
  BY <1>1, <1>2 DEF IsTree
<1> QED BY <1>1, <1>2, <1>3, <1>4

\* Access times do not matter to any path, page or lock.
LEMMA TouchIs ==
  ASSUME NEW K, NEW t, IsTree(K, t), NEW s, NEW u, u = Touch(t, s)
  PROVE  /\ IsTree(K, u) /\ Nodes(u) = Nodes(t) /\ Known(u) = Known(t)
         /\ \A p : PageAt(u, p) = PageAt(t, p)
         /\ u.value = t.value /\ u.lock = t.lock
         /\ u.evictable = t.evictable /\ u.protected = t.protected
<1> DEFINE at == [n \in Nodes(t) |->
                    IF n \in Visited(t, s) THEN Cardinality(Nodes(t)) + 1 ELSE t.atime[n]]
           A == Ranked(at)
<1>1. /\ IsRecord(t) /\ t.atime \in [Nodes(t) -> Nat] /\ t.lock \in [Nodes(t) -> Nat]
      /\ t.evictable \in Int /\ t.protected \in Int /\ IsFiniteSet(Nodes(t))
  BY DEF IsTree
<1>2. Cardinality(Nodes(t)) + 1 \in Nat
  BY <1>1, FS_CardinalityType
<1>3. DOMAIN at = Nodes(t) /\ \A n \in Nodes(t) : at[n] \in Nat
  BY <1>1, <1>2
<1>4. u = [t EXCEPT !.atime = A]
  BY DEF Touch
<1> HIDE DEF at
<1>5. A \in [Nodes(t) -> Nat]
  <2>1. ASSUME NEW n \in Nodes(t)
        PROVE  Cardinality({at[m] : m \in DOMAIN at} \cap (1..at[n])) \in Nat
    <3> DEFINE k == at[n]
               X == {at[m] : m \in DOMAIN at} \cap (1..k)
    <3>1. k \in Int /\ 1 \in Int
      BY <1>3
    <3> HIDE DEF k
    <3>2. IsFiniteSet(1..k)
      BY <3>1, FS_Interval
    <3>3. IsFiniteSet(X)
      BY <3>2, FS_Subset
    <3>4. Cardinality(X) \in Nat
      BY <3>3, FS_CardinalityType
    <3> QED BY <3>4 DEF k
  <2>2. A = [n \in Nodes(t) |-> Cardinality({at[m] : m \in DOMAIN at} \cap (1..at[n]))]
    BY <1>3 DEF Ranked
  <2> QED BY <2>1, <2>2
<1> HIDE DEF A
<1>6. /\ IsRecord(u) /\ u.value = t.value /\ u.lock = t.lock /\ u.atime = A
      /\ u.evictable = t.evictable /\ u.protected = t.protected
  BY <1>1, <1>4 DEF IsRecord
<1>7. /\ IsTree(K, u) /\ Nodes(u) = Nodes(t) /\ Known(u) = Known(t)
      /\ \A p : PageAt(u, p) = PageAt(t, p)
  BY <1>1, <1>5, <1>6, SameValues
<1> QED BY <1>6, <1>7

\* The node below a known path is the one the path ends in.
LEMMA LowerIs ==
  ASSUME NEW K, NEW t, IsTree(K, t), NEW s \in Known(t)
  PROVE  Lower(t, s) = At(t, s)
<1>1. /\ Nodes(t) \in SUBSET (Seq(K) \ {<< >>}) /\ Meets(K, Nodes(t))
  BY DEF IsTree
<1> DEFINE c == At(t, s)
<1>2. /\ c \in Nodes(t) /\ IsPrefix(s, c) /\ \A m \in Nodes(t) : IsPrefix(s, m) => IsPrefix(c, m)
  BY <1>1, AtIs
<1> HIDE DEF c
<1>3. ASSUME NEW n \in Nodes(t), IsPrefix(s, n), \A m \in Nodes(t) : IsPrefix(s, m) => IsPrefix(n, m)
      PROVE  n = c
  <2>1. n \in Seq(K) /\ c \in Seq(K) /\ IsPrefix(n, c) /\ IsPrefix(c, n)
    BY <1>1, <1>2, <1>3
  <2>2. Len(n) <= Len(c) /\ Len(c) <= Len(n)
    BY <2>1, PrefixOrder
  <2> QED BY <2>1, <2>2, PrefixOrder
<1>4. Lower(t, s) = c
  BY <1>2, <1>3 DEF Lower
<1> QED BY <1>4 DEF c

\* _split_node: a known path becomes a node, and no page moves.
LEMMA SplitIs ==
  ASSUME NEW K, NEW t, IsTree(K, t), NEW s \in Known(t), s \notin Nodes(t),
         NEW u, u = SplitNode(t, s)
  PROVE  /\ IsTree(K, u) /\ Nodes(u) = Nodes(t) \cup {s} /\ Known(u) = Known(t)
         /\ \A p \in Known(t) : PageAt(u, p) = PageAt(t, p)
         /\ \A m \in Nodes(u) : u.lock[m] = IF m = s THEN t.lock[At(t, s)] ELSE t.lock[m]
         /\ u.evictable = t.evictable /\ u.protected = t.protected
<1>1. /\ Nodes(t) \in SUBSET (Seq(K) \ {<< >>}) /\ Meets(K, Nodes(t)) /\ IsRecord(t)
      /\ t.value \in [Nodes(t) -> Seq(Value)] /\ t.lock \in [Nodes(t) -> Nat]
      /\ t.atime \in [Nodes(t) -> Nat] /\ t.evictable \in Int /\ t.protected \in Int
      /\ IsFiniteSet(Nodes(t))
      /\ \A n \in Nodes(t) : Len(t.value[n]) = Len(n) - Len(Parent(t, n))
  BY DEF IsTree
<1> DEFINE c == At(t, s)
           q == Parent(t, c)
           k == Len(s) - Len(q)
           v == t.value[c]
<1>2. /\ s \in Seq(K) /\ s # << >> /\ Len(s) \in Nat \ {0}
      /\ c \in Nodes(t) /\ IsPrefix(s, c) /\ Len(q) < Len(s)
      /\ \A m \in Nodes(t) : IsPrefix(s, m) => IsPrefix(c, m)
      /\ \A n \in Nodes(t) : IsPrefix(s, n) /\ Len(Parent(t, n)) < Len(s) => n = c
  BY <1>1, AtIs
<1>3. c \in Seq(K) /\ c # << >> /\ c # s
  BY <1>1, <1>2
<1>4. /\ q \in Seq(K) /\ q \in Nodes(t) \cup {<< >>} /\ IsPrefix(q, c) /\ Len(q) < Len(c)
      /\ \A m \in Nodes(t) : IsPrefix(m, c) /\ m # c => IsPrefix(m, q)
  BY <1>1, <1>3, ParentIs
<1>5. Len(q) \in Nat /\ Len(c) \in Nat /\ Len(s) < Len(c) /\ Len(s) \in Nat
  <2>1. Len(q) \in Nat /\ Len(c) \in Nat /\ Len(s) \in Nat /\ Len(s) <= Len(c)
        /\ ~ (Len(c) <= Len(s))
    BY <1>2, <1>3, <1>4, PrefixOrder
  <2> QED BY <2>1
<1>6. v \in Seq(Value) /\ Len(v) = Len(c) - Len(q) /\ k \in 1..(Len(v) - 1)
  BY <1>1, <1>2, <1>5
<1>7. Lower(t, s) = c
  BY LowerIs
<1> DEFINE hi == SubSeq(v, 1, k)
           lo == SubSeq(v, k + 1, Len(v))
           w == [t EXCEPT !.value[c] = lo]
<1>8. u = AddNode(w, s, hi, t.lock[c])
  BY <1>7 DEF SplitNode, SplitWithLock
<1> HIDE DEF c, q, v
<1>9. hi \in Seq(Value) /\ Len(hi) = k /\ \A i \in 1..k : hi[i] = v[i]
  <2>1. k \in 0..Len(v)
    BY <1>6, Elements
  <2> HIDE DEF k
  <2> QED BY <2>1, <1>6, CutIs
<1>10. lo \in Seq(Value) /\ Len(lo) = Len(v) - k /\ \A i \in 1..(Len(v) - k) : lo[i] = v[k + i]
  <2> DEFINE n == Len(v)
             m == k + 1
  <2>1. n \in Nat /\ k \in Nat /\ k < n /\ \A i \in 1..n : v[i] \in Value
    BY <1>6, Elements
  <2>2. m \in Int /\ n \in Int /\ \A i \in m..n : v[i] \in Value
    BY <2>1
  <2>3. \A i \in 1..(n - k) : m + i - 1 = k + i
    BY <2>1
  <2>4. lo = SubSeq(v, m, n)
    OBVIOUS
  <2> HIDE DEF n, m, lo, k
  <2>5. /\ lo \in Seq(Value) /\ Len(lo) = (IF m <= n THEN n - m + 1 ELSE 0)
        /\ \A i \in 1..(n - m + 1) : lo[i] = v[m + i - 1]
    <3> DEFINE x == SubSeq(v, m, n)
    <3>1. /\ x \in Seq(Value) /\ Len(x) = (IF m <= n THEN n - m + 1 ELSE 0)
          /\ \A i \in 1..(n - m + 1) : x[i] = v[m + i - 1]
      BY <2>2, SubSeqProperties
    <3> QED BY <3>1, <2>4
  <2>6. n - m + 1 = n - k /\ m <= n
    BY <2>1 DEF m
  <2> QED BY <2>1, <2>3, <2>5, <2>6 DEF n
<1> HIDE DEF hi, lo
<1>11. /\ IsRecord(w) /\ w.value = [t.value EXCEPT ![c] = lo] /\ w.lock = t.lock
       /\ w.atime = t.atime /\ w.evictable = t.evictable /\ w.protected = t.protected
  <2> DEFINE W == [t.value EXCEPT ![c] = lo]
  <2>1. w = [t EXCEPT !.value = W]
    OBVIOUS
  <2> HIDE DEF W, w
  <2>2. /\ IsRecord(w) /\ w.value = W /\ w.lock = t.lock
        /\ w.atime = t.atime /\ w.evictable = t.evictable /\ w.protected = t.protected
    BY <2>1, <1>1 DEF IsRecord
  <2> QED BY <2>2 DEF W
<1>12. Nodes(w) = Nodes(t)
  BY <1>11 DEF Nodes
<1> HIDE DEF w
<1>13. /\ IsRecord(u) /\ Nodes(u) = Nodes(t) \cup {s}
       /\ u.value \in [Nodes(u) -> Seq(Value)] /\ u.lock \in [Nodes(u) -> Nat]
       /\ u.atime \in [Nodes(u) -> Nat]
       /\ \A m \in Nodes(u) : /\ u.value[m] = IF m = s THEN hi ELSE w.value[m]
                              /\ u.lock[m] = IF m = s THEN t.lock[c] ELSE t.lock[m]
       /\ u.evictable = t.evictable /\ u.protected = t.protected
  <2>1. /\ t.lock[c] \in Nat /\ w.value \in [Nodes(w) -> Seq(Value)]
        /\ w.lock \in [Nodes(w) -> Nat] /\ w.atime \in [Nodes(w) -> Nat]
    BY <1>1, <1>2, <1>10, <1>11, <1>12
  <2>2. /\ IsRecord(u) /\ Nodes(u) = Nodes(w) \cup {s}
        /\ u.value \in [Nodes(u) -> Seq(Value)] /\ u.lock \in [Nodes(u) -> Nat]
        /\ u.atime \in [Nodes(u) -> Nat]
        /\ \A m \in Nodes(u) : /\ u.value[m] = IF m = s THEN hi ELSE w.value[m]
                               /\ u.lock[m] = IF m = s THEN t.lock[c] ELSE w.lock[m]
        /\ u.evictable = w.evictable /\ u.protected = w.protected
    <3>1. IsRecord(w) /\ hi \in Seq(Value)
      BY <1>9, <1>11
    <3>2. PICK l \in Nat : l = t.lock[c]
      BY <2>1
    <3>3. u = AddNode(w, s, hi, l)
      BY <3>2, <1>8
    <3>4. /\ w.value \in [Nodes(w) -> Seq(Value)]
          /\ w.lock \in [Nodes(w) -> Nat] /\ w.atime \in [Nodes(w) -> Nat]
      BY <2>1
    <3>5. Added(w, s, hi, l, u)
      <4>1. Added(w, s, hi, l, AddNode(w, s, hi, l))
        BY <3>1, <3>4, AddNodeIs
      <4> QED BY <4>1, <3>3
    <3> QED BY <3>2, <3>5 DEF Added
  <2> QED BY <2>2, <1>11, <1>12
<1>14. /\ \A m \in Nodes(u) : u.value[m] = IF m = s THEN hi ELSE IF m = c THEN lo ELSE t.value[m]
       /\ c \in Nodes(u) /\ s \in Nodes(u)
  BY <1>1, <1>2, <1>11, <1>13
<1>15. Nodes(u) \in SUBSET (Seq(K) \ {<< >>}) /\ IsFiniteSet(Nodes(u))
  BY <1>1, <1>2, <1>13, FS_AddElement
<1>16. Parent(u, c) = s
  <2>1. IsPrefix(q, s)
    BY <1>2, <1>3, <1>4, <1>5, PrefixChain
  <2>2. s \in Seq(K) \ {<< >>} /\ c \in Seq(K) \ {<< >>} /\ Nodes(t) \in SUBSET (Seq(K) \ {<< >>})
        /\ Nodes(u) = Nodes(t) \cup {s} /\ IsPrefix(s, c) /\ s # c
    BY <1>1, <1>2, <1>3, <1>13
  <2>3. IsPrefix(Parent(t, c), s)
    BY <2>1 DEF q
  <2> QED BY <2>2, <2>3, ParentNew
<1>17. \A n \in Nodes(t) : n # c => Parent(u, n) = Parent(t, n)
  <2> SUFFICES ASSUME NEW n \in Nodes(t), n # c PROVE Parent(u, n) = Parent(t, n)
    OBVIOUS
  <2>1. n \in Seq(K) \ {<< >>} /\ Parent(t, n) \in Seq(K)
    BY <1>1, ParentIs
  <2>2. ASSUME IsPrefix(s, n) PROVE IsPrefix(s, Parent(t, n))
    <3>1. IsPrefix(c, n)
      BY <1>2, <2>2
    <3>2. IsPrefix(c, Parent(t, n))
      BY <1>1, <1>2, <2>1, <3>1, ParentIs
    <3> QED BY <3>2, <1>2, <1>3, <2>1, PrefixTrans
  <2>3. s \in Seq(K) \ {<< >>} /\ Nodes(u) = Nodes(t) \cup {s}
    BY <1>2, <1>13
  <2>4. ~ IsPrefix(s, n) \/ s = n \/ IsPrefix(s, Parent(t, n))
    BY <2>2
  <2>5. Nodes(t) \in SUBSET (Seq(K) \ {<< >>})
    BY <1>1
  <2> QED BY <2>1, <2>3, <2>4, <2>5, ParentOld
<1>18. Parent(u, s) = q
  <2>1. Parent(t, s) = q
    <3>1. IsPrefix(q, s) /\ q # s
      BY <1>2, <1>3, <1>4, <1>5, PrefixChain
    <3>2. ASSUME NEW m \in Nodes(t), IsPrefix(m, s) PROVE IsPrefix(m, q)
      <4>1. m \in Seq(K) /\ m # c
        <5>1. m \in Seq(K)
          BY <1>1
        <5>2. Len(m) <= Len(s)
          BY <5>1, <1>2, <3>2, PrefixOrder
        <5> QED BY <5>1, <5>2, <1>5
      <4>2. IsPrefix(m, c)
        BY <4>1, <1>2, <1>3, <3>2, PrefixTrans
      <4> QED BY <4>1, <4>2, <1>4
    <3> QED BY <3>1, <3>2, <1>1, <1>2, <1>4, ParentIs
  <2>2. s \in Seq(K) \ {<< >>} /\ Nodes(u) = Nodes(t) \cup {s}
    BY <1>2, <1>13
  <2>3. Parent(u, s) = Parent(t, s)
    <3>1. ~ IsPrefix(s, s) \/ s = s \/ IsPrefix(s, Parent(t, s))
      OBVIOUS
    <3>2. Nodes(t) \in SUBSET (Seq(K) \ {<< >>})
      BY <1>1
    <3> QED BY <2>2, <3>1, <3>2, ParentOld
  <2> QED BY <2>1, <2>3
<1>19. Known(u) = Known(t)
  <2>1. ASSUME NEW p \in Known(u) PROVE p \in Known(t)
    <3>1. p \in Seq(K) /\ p # << >> /\ \E n \in Nodes(u) : IsPrefix(p, n)
      BY <1>15, KnownIs
    <3>2. PICK n \in Nodes(u) : IsPrefix(p, n)
      BY <3>1
    <3>3. \E m \in Nodes(t) : IsPrefix(p, m)
      <4>1. CASE n = s
        BY <4>1, <3>1, <3>2, <1>2, <1>3, PrefixTrans
      <4>2. CASE n # s
        BY <4>2, <3>2, <1>13
      <4> QED BY <4>1, <4>2
    <3> QED BY <3>1, <3>3, <1>1, KnownIs
  <2>2. ASSUME NEW p \in Known(t) PROVE p \in Known(u)
    <3>1. p \in Seq(K) /\ p # << >> /\ \E n \in Nodes(t) : IsPrefix(p, n)
      BY <1>1, KnownIs
    <3> QED BY <3>1, <1>13, <1>15, KnownIs
  <2> QED BY <2>1, <2>2
<1>20. Meets(K, Nodes(u))
  <2> SUFFICES ASSUME NEW n \in Nodes(u), NEW m \in Nodes(u), NEW p \in Seq(K) \ {<< >>},
                      IsPrefix(p, n), IsPrefix(p, m)
               PROVE  \E d \in Nodes(u) : IsPrefix(p, d) /\ IsPrefix(d, n) /\ IsPrefix(d, m)
    BY DEF Meets
  <2>1. n \in Seq(K) /\ m \in Seq(K) /\ Len(p) \in Nat /\ IsPrefix(s, s)
    BY <1>2, <1>15, PrefixOrder
  <2>2. ASSUME NEW x \in Nodes(t), IsPrefix(p, x), IsPrefix(p, s)
        PROVE  \E d \in Nodes(u) : IsPrefix(p, d) /\ IsPrefix(d, x) /\ IsPrefix(d, s)
    <3>1. PICK d \in Nodes(t) : IsPrefix(p, d) /\ IsPrefix(d, x) /\ IsPrefix(d, c)
      <4>1. IsPrefix(p, c)
        BY <2>2, <1>2, <1>3, PrefixTrans
      <4> QED BY <4>1, <2>2, <1>1, <1>2 DEF Meets
    <3>2. d \in Seq(K) /\ x \in Seq(K) /\ Len(d) \in Nat
      BY <1>1, PrefixOrder
    <3>3. CASE Len(d) <= Len(s)
      <4>1. IsPrefix(d, s)
        BY <3>1, <3>2, <3>3, <1>2, <1>3, PrefixChain
      <4> QED BY <4>1, <3>1, <1>13
    <3>4. CASE Len(s) <= Len(d)
      <4>1. IsPrefix(s, d)
        BY <3>1, <3>2, <3>4, <1>2, <1>3, PrefixChain
      <4>2. IsPrefix(s, x)
        BY <4>1, <3>1, <3>2, <1>2, PrefixTrans
      <4> QED BY <4>2, <2>1, <2>2, <1>14
    <3> QED BY <3>2, <3>3, <3>4, <1>5
  <2>3. CASE n = s /\ m = s
    BY <2>1, <2>3
  <2>4. CASE n \in Nodes(t) /\ m = s
    BY <2>2, <2>4
  <2>5. CASE n = s /\ m \in Nodes(t)
    BY <2>2, <2>5
  <2>6. CASE n \in Nodes(t) /\ m \in Nodes(t)
    BY <2>6, <1>1, <1>13 DEF Meets
  <2> QED BY <2>3, <2>4, <2>5, <2>6, <1>13
<1>21. IsTree(K, u)
  <2>3. \A n \in Nodes(u) : Len(u.value[n]) = Len(n) - Len(Parent(u, n))
    <3> TAKE n \in Nodes(u)
    <3>1. CASE n = s
      BY <3>1, <1>9, <1>14, <1>18
    <3>2. CASE n = c
      <4>1. Len(lo) = Len(c) - Len(s)
        <5>1. Len(v) = Len(c) - Len(q) /\ Len(lo) = Len(v) - (Len(s) - Len(q))
          BY <1>6, <1>10
        <5> QED BY <5>1, <1>5
      <4>2. u.value[n] = lo /\ Parent(u, n) = s
        BY <3>2, <1>3, <1>14, <1>16
      <4> QED BY <3>2, <4>1, <4>2
    <3>3. CASE n # s /\ n # c
      <4>1. n \in Nodes(t) /\ u.value[n] = t.value[n] /\ Parent(u, n) = Parent(t, n)
        BY <3>3, <1>13, <1>14, <1>17
      <4> QED BY <4>1, <1>1
    <3> QED BY <3>1, <3>2, <3>3
  <2> QED BY <2>3, <1>1, <1>13, <1>15, <1>20 DEF IsTree
<1>22. \A p \in Known(t) : PageAt(u, p) = PageAt(t, p)
  <2> TAKE p \in Known(t)
  <2> DEFINE n == At(t, p)
  <2>1. p \in Seq(K) /\ n \in Nodes(t) /\ IsPrefix(p, n) /\ Len(Parent(t, n)) < Len(p)
    BY <1>1, AtIs
  <2> HIDE DEF n
  <2>2. PageAt(t, p) = t.value[n][Len(p) - Len(Parent(t, n))]
    BY <2>1, PageAtIs
  <2>3. CASE n # c
    <3>1. n \in Nodes(u) /\ n # s /\ u.value[n] = t.value[n] /\ Parent(u, n) = Parent(t, n)
      BY <2>1, <2>3, <1>13, <1>14, <1>17
    <3>2. PageAt(u, p) = u.value[n][Len(p) - Len(Parent(u, n))]
      <4>1. Len(Parent(u, n)) < Len(p)
        BY <3>1, <2>1
      <4>2. p \in Seq(K) /\ IsPrefix(p, n) /\ n \in Nodes(u)
        BY <3>1, <2>1
      <4> QED BY <4>1, <4>2, <1>21, PageAtIs
    <3> QED BY <3>1, <3>2, <2>2
  <2>4. CASE n = c /\ Len(p) <= Len(s)
    <3>1. IsPrefix(p, s)
      BY <2>1, <2>4, <1>2, <1>3, PrefixChain
    <3>2. PageAt(u, p) = hi[Len(p) - Len(q)]
      <4>1. Len(Parent(u, s)) < Len(p) /\ p \in Seq(K) /\ s \in Nodes(u)
        BY <2>1, <2>4, <1>14, <1>18 DEF q
      <4>2. PageAt(u, p) = u.value[s][Len(p) - Len(Parent(u, s))]
        BY <4>1, <3>1, <1>21, PageAtIs
      <4> QED BY <4>2, <1>14, <1>18
    <3>3. Len(p) - Len(q) \in 1..k
      BY <2>1, <2>4, <1>5, PrefixOrder DEF q
    <3> QED BY <3>2, <3>3, <2>2, <2>4, <1>9 DEF q, v
  <2>5. CASE n = c /\ Len(s) < Len(p)
    <3>1. PageAt(u, p) = lo[Len(p) - Len(s)]
      <4>1. Parent(u, c) = s /\ u.value[c] = lo
        BY <1>14, <1>16, <1>3
      <4>2. /\ c \in Nodes(u) /\ p \in Seq(K) /\ IsPrefix(p, c)
            /\ Len(Parent(u, c)) < Len(p)
        BY <2>1, <2>5, <1>3, <1>13, <4>1
      <4>3. PageAt(u, p) = u.value[c][Len(p) - Len(Parent(u, c))]
        BY ONLY <4>2, <1>21, PageAtIs
      <4> QED BY ONLY <4>1, <4>3
    <3>2. Len(p) \in Nat /\ Len(p) <= Len(c)
      BY <2>1, <2>5, <1>3, PrefixOrder
    <3>3. Len(p) - Len(s) \in 1..(Len(v) - k) /\ k + (Len(p) - Len(s)) = Len(p) - Len(q)
      BY <3>2, <2>5, <1>5, <1>6
    <3> QED BY <3>1, <3>3, <2>2, <2>5, <1>10 DEF q, v
  <2>6. Len(p) \in Nat
    BY <2>1, PrefixOrder
  <2> QED BY <2>3, <2>4, <2>5, <2>6, <1>5
<1> QED BY <1>11, <1>13, <1>19, <1>21, <1>22 DEF c

\* How far the walk along a key gets: the longest known path that key starts with.
LEMMA MatchedIs ==
  ASSUME NEW K, NEW t, Nodes(t) \in SUBSET (Seq(K) \ {<< >>}), NEW key \in Seq(K)
  PROVE  /\ Matched(t, key) \in Seq(K) /\ IsPrefix(Matched(t, key), key)
         /\ Matched(t, key) \in Known(t) \cup {<< >>}
         /\ \A p \in Known(t) : IsPrefix(p, key) => IsPrefix(p, Matched(t, key))
<1> DEFINE S == {<< >>} \cup {p \in Prefixes(key) : \E n \in Nodes(t) : IsPrefix(p, n)}
           s == Longest(S)
<1>1. \A p \in Prefixes(key) : p \in Seq(K) /\ IsPrefix(p, key)
  BY PrefixesAre
<1>2. << >> \in Seq(K) /\ IsPrefix(<< >>, key)
  BY PrefixEmpty
<1>3. S \in SUBSET Seq(K) /\ S # {} /\ \A p \in S : IsPrefix(p, key)
  BY <1>1, <1>2
<1>4. s \in S /\ \A p \in S : IsPrefix(p, s)
  <2> HIDE DEF S
  <2> QED BY <1>3, LongestIs
<1>5. s = Matched(t, key)
  BY DEF Matched
<1> HIDE DEF s
<1>6. s \in Seq(K) /\ IsPrefix(s, key)
  BY <1>3, <1>4
<1>7. s # << >> => s \in Known(t)
  <2>1. s # << >> => \E n \in Nodes(t) : IsPrefix(s, n)
    BY <1>4
  <2> QED BY <2>1, <1>6, KnownIs
<1>8. ASSUME NEW p \in Known(t), IsPrefix(p, key) PROVE IsPrefix(p, s)
  <2>1. p \in Seq(K) /\ \E n \in Nodes(t) : IsPrefix(p, n)
    BY KnownIs
  <2>2. p \in Prefixes(key)
    BY <2>1, <1>8, PrefixesAre
  <2>3. p \in S
    BY <2>1, <2>2
  <2> QED BY <2>3, <1>4
<1> QED BY <1>5, <1>6, <1>7, <1>8

\* What is shorter than a known path is known.
LEMMA KnownPrefix ==
  ASSUME NEW K, NEW t, Nodes(t) \in SUBSET (Seq(K) \ {<< >>}), NEW p \in Known(t),
         NEW q \in Seq(K), q # << >>, IsPrefix(q, p)
  PROVE  q \in Known(t)
<1>1. p \in Seq(K) /\ \E n \in Nodes(t) : IsPrefix(p, n)
  BY KnownIs
<1>2. PICK n \in Nodes(t) : IsPrefix(p, n)
  BY <1>1
<1>3. n \in Seq(K)
  OBVIOUS
<1>4. IsPrefix(q, n)
  BY <1>1, <1>2, <1>3, PrefixTrans
<1> QED BY <1>4, KnownIs

\* A node is where it ends itself.
LEMMA AtNode ==
  ASSUME NEW K, NEW t, IsTree(K, t), NEW n \in Nodes(t)
  PROVE  n \in Known(t) /\ At(t, n) = n
<1>1. /\ Nodes(t) \in SUBSET (Seq(K) \ {<< >>}) /\ Meets(K, Nodes(t))
  BY DEF IsTree
<1>2. n \in Seq(K) /\ n # << >> /\ IsPrefix(n, n) /\ n \in Known(t)
  BY <1>1, KnownIs, PrefixOrder
<1>3. Len(Parent(t, n)) < Len(n)
  BY <1>1, <1>2, ParentIs
<1> QED BY <1>1, <1>2, <1>3, AtIs

\* What the walk along a key does: it ends at a node, and no page moves.
Walked(K, t, s, u) ==
  /\ IsTree(K, u) /\ Nodes(u) = Nodes(t) \cup ({s} \ {<< >>}) /\ Known(u) = Known(t)
  /\ \A p \in Known(t) : PageAt(u, p) = PageAt(t, p)
  /\ \A m \in Nodes(u) : u.lock[m] = t.lock[At(t, m)]
  /\ u.evictable = t.evictable /\ u.protected = t.protected

\* match_prefix and insert leave the map from paths to pages as it is.
LEMMA WalkIs ==
  ASSUME NEW K, NEW t, IsTree(K, t), NEW key \in Seq(K)
  PROVE  Walked(K, t, Matched(t, key), Walk(t, key))
<1> DEFINE s == Matched(t, key)
           u == Walk(t, key)
           w == Touch(t, s)
<1>1. Nodes(t) \in SUBSET (Seq(K) \ {<< >>}) /\ Meets(K, Nodes(t))
  BY DEF IsTree
<1>2. s \in Seq(K) /\ s \in Known(t) \cup {<< >>}
  BY <1>1, MatchedIs
<1>3. u = IF s = << >> \/ s \in Nodes(t) THEN w ELSE SplitNode(w, s)
  BY DEF Walk
<1> HIDE DEF s, u
<1>4. /\ IsTree(K, w) /\ Nodes(w) = Nodes(t) /\ Known(w) = Known(t)
      /\ \A p : PageAt(w, p) = PageAt(t, p)
      /\ w.lock = t.lock
      /\ w.evictable = t.evictable /\ w.protected = t.protected
  BY TouchIs
<1>5. \A m \in Nodes(t) : At(t, m) = m
  BY AtNode
<1>6. \A p : At(w, p) = At(t, p)
  BY <1>4, NodesOnly
<1> HIDE DEF w
<1>7. CASE s = << >> \/ s \in Nodes(t)
  <2>1. u = w
    BY <1>3, <1>7
  <2>2. Nodes(u) = Nodes(t) \cup ({s} \ {<< >>})
    BY <2>1, <1>4, <1>7
  <2> QED BY <2>1, <2>2, <1>4, <1>5 DEF Walked, s, u
<1>8. CASE s # << >> /\ s \notin Nodes(t)
  <2>1. u = SplitNode(w, s) /\ s \in Known(w) /\ s \notin Nodes(w)
    BY <1>2, <1>3, <1>4, <1>8
  <2>2. /\ IsTree(K, u) /\ Nodes(u) = Nodes(w) \cup {s} /\ Known(u) = Known(w)
        /\ \A p \in Known(w) : PageAt(u, p) = PageAt(w, p)
        /\ \A m \in Nodes(u) : u.lock[m] = IF m = s THEN w.lock[At(w, s)] ELSE w.lock[m]
        /\ u.evictable = w.evictable /\ u.protected = w.protected
    BY <2>1, <1>4, SplitIs
  <2>3. \A m \in Nodes(u) : u.lock[m] = t.lock[At(t, m)]
    BY <2>2, <1>4, <1>5, <1>6
  <2>4. Nodes(u) = Nodes(t) \cup ({s} \ {<< >>})
    BY <2>2, <1>4, <1>8
  <2> QED BY <2>2, <2>3, <2>4, <1>4 DEF Walked, s, u
<1> QED BY <1>7, <1>8

\* What insert does: the paths along the key become known, the ones that were known
\* keep their pages, and the new leaf is unlocked.
Inserted(K, t, key, value, u) ==
  /\ IsTree(K, u) /\ Nodes(t) \subseteq Nodes(u)
  /\ \A p : p \in Known(u) <=> p \in Known(t) \/ (p \in Seq(K) \ {<< >>} /\ IsPrefix(p, key))
  /\ \A p \in Known(t) : PageAt(u, p) = PageAt(t, p)
  /\ \A p \in Known(u) : p \notin Known(t) => PageAt(u, p) = value[Len(p)]
  /\ \A m \in Nodes(u) : u.lock[m] = (IF m \in Known(t) THEN t.lock[At(t, m)] ELSE 0)
  /\ u.evictable = t.evictable + (Len(key) - Len(Matched(t, key)))
  /\ u.protected = t.protected

\* insert adds the missing paths of key with the pages of the row, and rebinds none.
LEMMA InsertIs ==
  ASSUME NEW K, NEW t, IsTree(K, t), NEW key \in Seq(K), NEW value \in Seq(Value),
         Len(key) <= Len(value)
  PROVE  Inserted(K, t, key, value, Insert(t, key, value))
<1> DEFINE s == Matched(t, key)
           w == Walk(t, key)
           u == Insert(t, key, value)
           v == SubSeq(value, Len(s) + 1, Len(key))
           a == AddNode(w, key, v, 0)
<1>1. Walked(K, t, s, w)
  BY WalkIs
<1>2. /\ IsTree(K, t) /\ Nodes(t) \in SUBSET (Seq(K) \ {<< >>}) /\ Meets(K, Nodes(t))
      /\ t.evictable \in Int
  BY DEF IsTree
<1>3. /\ s \in Seq(K) /\ IsPrefix(s, key) /\ s \in Known(t) \cup {<< >>}
      /\ \A p \in Known(t) : IsPrefix(p, key) => IsPrefix(p, s)
  BY <1>2, MatchedIs
<1>4. u = IF s = key THEN w ELSE [a EXCEPT !.evictable = @ + Len(key) - Len(s)]
  BY DEF Insert
<1> HIDE DEF s, w, u, a
<1>5. /\ IsTree(K, w) /\ Nodes(w) = Nodes(t) \cup ({s} \ {<< >>}) /\ Known(w) = Known(t)
      /\ \A p \in Known(t) : PageAt(w, p) = PageAt(t, p)
      /\ \A m \in Nodes(w) : w.lock[m] = t.lock[At(t, m)]
      /\ w.evictable = t.evictable /\ w.protected = t.protected
  BY <1>1 DEF Walked
<1>6. /\ Nodes(w) \in SUBSET (Seq(K) \ {<< >>}) /\ Meets(K, Nodes(w)) /\ IsRecord(w)
      /\ w.value \in [Nodes(w) -> Seq(Value)] /\ w.lock \in [Nodes(w) -> Nat]
      /\ w.atime \in [Nodes(w) -> Nat] /\ w.evictable \in Int /\ w.protected \in Int
      /\ IsFiniteSet(Nodes(w))
      /\ \A n \in Nodes(w) : Len(w.value[n]) = Len(n) - Len(Parent(w, n))
  BY <1>5 DEF IsTree
<1>7. \A m \in Nodes(w) : m \in Known(t)
  BY <1>5, AtNode
<1>8. Len(s) \in Nat /\ Len(key) \in Nat /\ Len(value) \in Nat /\ Len(s) <= Len(key)
      /\ \A i \in 1..Len(value) : value[i] \in Value
  BY <1>3, PrefixOrder, Elements
<1>9. ASSUME NEW p \in Seq(K), IsPrefix(p, s), p # << >> PROVE p \in Known(t)
  <2>1. s # << >>
    BY <1>9, PrefixEmpty
  <2> QED BY <2>1, <1>2, <1>3, <1>9, KnownPrefix
<1>10. CASE s = key
  <2>1. u = w
    BY <1>4, <1>10
  <2>2. \A p : p \in Known(u) <=> p \in Known(t) \/ (p \in Seq(K) \ {<< >>} /\ IsPrefix(p, key))
    BY <2>1, <1>5, <1>9, <1>10
  <2>3. u.evictable = t.evictable + (Len(key) - Len(s))
    BY <2>1, <1>2, <1>5, <1>8, <1>10
  <2> QED BY <2>1, <2>2, <2>3, <1>5, <1>7 DEF Inserted, s, u
<1>11. CASE s # key
  <2>1. Len(s) < Len(key)
    <3>1. ~ (Len(key) <= Len(s))
      BY <1>3, <1>11, PrefixOrder
    <3> QED BY <3>1, <1>8
  <2>2. key # << >> /\ key \notin Known(t) /\ key \notin Nodes(w)
    <3>1. key # << >>
      BY <2>1, <1>8, PrefixEmpty
    <3>2. key \notin Known(t)
      <4> SUFFICES ASSUME key \in Known(t) PROVE FALSE
        OBVIOUS
      <4>1. IsPrefix(key, key)
        BY PrefixOrder
      <4>2. IsPrefix(key, s)
        BY <4>1, <1>3
      <4>3. Len(key) <= Len(s)
        BY <4>2, <1>3, PrefixOrder
      <4> QED BY <4>3, <2>1, <1>8
    <3> QED BY <3>1, <3>2, <1>7
  <2>3. v \in Seq(Value) /\ Len(v) = Len(key) - Len(s)
        /\ \A i \in 1..(Len(key) - Len(s)) : v[i] = value[Len(s) + i]
    <3> DEFINE k == Len(s)
               n == Len(key)
               m == k + 1
    <3>1. n \in Nat /\ k \in Nat /\ k < n /\ \A i \in m..n : value[i] \in Value
      BY <2>1, <1>8
    <3>2. m \in Int /\ n \in Int /\ m <= n /\ n - m + 1 = n - k
      BY <3>1
    <3>3. \A i \in 1..(n - k) : m + i - 1 = k + i
      BY <3>1
    <3>4. v = SubSeq(value, m, n)
      OBVIOUS
    <3> HIDE DEF n, m, v, k
    <3>5. /\ v \in Seq(Value) /\ Len(v) = (IF m <= n THEN n - m + 1 ELSE 0)
          /\ \A i \in 1..(n - m + 1) : v[i] = value[m + i - 1]
      <4> DEFINE x == SubSeq(value, m, n)
      <4>1. /\ x \in Seq(Value) /\ Len(x) = (IF m <= n THEN n - m + 1 ELSE 0)
            /\ \A i \in 1..(n - m + 1) : x[i] = value[m + i - 1]
        BY <3>1, <3>2, SubSeqProperties
      <4> QED BY <4>1, <3>4
    <3> QED BY <3>2, <3>3, <3>5 DEF k, n
  <2> HIDE DEF v
  <2>4. Added(w, key, v, 0, a)
    BY <2>3, <1>6, AddNodeIs DEF a
  <2>5. /\ IsRecord(a) /\ Nodes(a) = Nodes(w) \cup {key}
        /\ a.value \in [Nodes(a) -> Seq(Value)]
        /\ a.lock \in [Nodes(a) -> Nat] /\ a.atime \in [Nodes(a) -> Nat]
        /\ \A m \in Nodes(a) : a.value[m] = (IF m = key THEN v ELSE w.value[m])
        /\ \A m \in Nodes(a) : a.lock[m] = (IF m = key THEN 0 ELSE w.lock[m])
        /\ a.evictable = w.evictable /\ a.protected = w.protected
    BY <2>4 DEF Added
  <2>6. Nodes(a) \in SUBSET (Seq(K) \ {<< >>}) /\ IsFiniteSet(Nodes(a))
    BY <2>2, <2>5, <1>6, FS_AddElement
  <2>7. Parent(w, key) = s
    <3>1. s \in Nodes(w) \cup {<< >>}
      BY <1>5
    <3>2. \A m \in Nodes(w) : IsPrefix(m, key) /\ m # key => IsPrefix(m, s)
      BY <1>3, <1>7
    <3> QED BY <3>1, <3>2, <2>2, <1>3, <1>6, <1>11, ParentIs
  <2>8. Parent(a, key) = s
    <3>1. s \in Nodes(a) \cup {<< >>}
      BY <2>5, <1>5
    <3>2. \A m \in Nodes(a) : IsPrefix(m, key) /\ m # key => IsPrefix(m, s)
      BY <2>5, <1>3, <1>7
    <3> QED BY <3>1, <3>2, <2>2, <2>6, <1>3, <1>11, ParentIs
  <2>9. \A n \in Nodes(w) : Parent(a, n) = Parent(w, n)
    <3> TAKE n \in Nodes(w)
    <3>1. key \in Seq(K) \ {<< >>}
      BY <2>2
    <3>5. Nodes(a) = Nodes(w) \cup {key}
      BY <2>5
    <3>2. Nodes(w) \in SUBSET (Seq(K) \ {<< >>})
      BY <1>6
    <3>6. n \in Seq(K) \ {<< >>}
      BY <3>2
    <3>3. ~ IsPrefix(key, n)
      BY <2>2, <3>1, <3>2, <1>5, KnownIs
    <3>4. ~ IsPrefix(key, n) \/ key = n \/ IsPrefix(key, Parent(w, n))
      BY <3>3
    <3> QED BY <3>1, <3>2, <3>4, <3>5, <3>6, ParentOld
  <2>10. \A p : p \in Known(a) <=> p \in Known(t) \/ (p \in Seq(K) \ {<< >>} /\ IsPrefix(p, key))
    <3>1. \A p : p \in Known(a) <=> p \in Seq(K) /\ p # << >> /\ \E n \in Nodes(a) : IsPrefix(p, n)
      BY <2>6, KnownIs
    <3>2. \A p : p \in Known(w) <=> p \in Seq(K) /\ p # << >> /\ \E n \in Nodes(w) : IsPrefix(p, n)
      BY <1>6, KnownIs
    <3>3. Known(w) = Known(t) /\ Nodes(a) = Nodes(w) \cup {key}
      BY <2>5, <1>5
    <3> QED BY <3>1, <3>2, <3>3
  <2>11. Meets(K, Nodes(a))
    <3> SUFFICES ASSUME NEW n \in Nodes(a), NEW m \in Nodes(a), NEW p \in Seq(K) \ {<< >>},
                        IsPrefix(p, n), IsPrefix(p, m)
                 PROVE  \E d \in Nodes(a) : IsPrefix(p, d) /\ IsPrefix(d, n) /\ IsPrefix(d, m)
      BY DEF Meets
    <3>1. key \in Nodes(a) /\ Nodes(w) \subseteq Nodes(a) /\ IsPrefix(key, key)
      BY <2>5, PrefixOrder
    <3>2. ASSUME NEW x \in Nodes(w), IsPrefix(p, x), IsPrefix(p, key)
          PROVE  \E d \in Nodes(w) : IsPrefix(p, d) /\ IsPrefix(d, x) /\ IsPrefix(d, key)
      <4>1. p \in Known(t)
        BY <3>2, <1>5, <1>6, KnownIs
      <4>2. IsPrefix(p, s)
        BY <4>1, <3>2, <1>3
      <4>3. s # << >>
        BY <4>2, PrefixEmpty
      <4>4. s \in Nodes(w)
        BY <4>3, <1>5
      <4>5. PICK d \in Nodes(w) : IsPrefix(p, d) /\ IsPrefix(d, x) /\ IsPrefix(d, s)
        BY <4>2, <4>4, <3>2, <1>6 DEF Meets
      <4>6. d \in Seq(K)
        BY <1>6
      <4>7. IsPrefix(d, key)
        BY <4>5, <4>6, <1>3, PrefixTrans
      <4> QED BY <4>5, <4>7
    <3>3. CASE n = key /\ m = key
      BY <3>1, <3>3
    <3>4. CASE n \in Nodes(w) /\ m = key
      BY <3>1, <3>2, <3>4
    <3>5. CASE n = key /\ m \in Nodes(w)
      BY <3>1, <3>2, <3>5
    <3>6. CASE n \in Nodes(w) /\ m \in Nodes(w)
      BY <3>1, <3>6, <1>6 DEF Meets
    <3> QED BY <3>3, <3>4, <3>5, <3>6, <2>5
  <2>12. IsTree(K, a)
    <3>1. \A n \in Nodes(a) : Len(a.value[n]) = Len(n) - Len(Parent(a, n))
      <4> TAKE n \in Nodes(a)
      <4>1. CASE n = key
        BY <4>1, <2>3, <2>5, <2>8
      <4>2. CASE n # key
        BY <4>2, <2>5, <2>9, <1>6
      <4> QED BY <4>1, <4>2
    <3>2. a.evictable \in Int /\ a.protected \in Int
      BY <2>5, <1>6
    <3> QED BY <3>1, <3>2, <2>5, <2>6, <2>11 DEF IsTree
  <2>13. \A p \in Known(t) : PageAt(a, p) = PageAt(t, p)
    <3> TAKE p \in Known(t)
    <3> DEFINE n == At(w, p)
    <3>1. p \in Known(w) /\ PageAt(w, p) = PageAt(t, p)
      BY <1>5
    <3>2. p \in Seq(K) /\ n \in Nodes(w) /\ IsPrefix(p, n) /\ Len(Parent(w, n)) < Len(p)
      BY <3>1, <1>6, AtIs
    <3> HIDE DEF n
    <3>3. PageAt(w, p) = w.value[n][Len(p) - Len(Parent(w, n))]
      BY <3>2, <1>5, PageAtIs
    <3>4. n \in Nodes(a) /\ n # key /\ a.value[n] = w.value[n] /\ Parent(a, n) = Parent(w, n)
      BY <3>2, <2>2, <2>5, <2>9
    <3>5. PageAt(a, p) = a.value[n][Len(p) - Len(Parent(a, n))]
      <4>1. Len(Parent(a, n)) < Len(p) /\ n \in Nodes(a)
        BY <3>2, <3>4
      <4> QED BY <4>1, <3>2, <2>12, PageAtIs
    <3> QED BY <3>1, <3>3, <3>4, <3>5
  <2>14. ASSUME NEW p \in Known(a), p \notin Known(t) PROVE PageAt(a, p) = value[Len(p)]
    <3>1. p \in Seq(K) /\ p # << >> /\ IsPrefix(p, key)
      BY <2>10, <2>14
    <3>2. Len(p) \in Nat /\ Len(p) <= Len(key)
      BY <3>1, PrefixOrder
    <3>3. Len(s) < Len(p)
      <4> SUFFICES ASSUME Len(p) <= Len(s) PROVE FALSE
        BY <3>2, <1>8
      <4>1. IsPrefix(p, s)
        BY <3>1, <1>3, PrefixChain
      <4> QED BY <4>1, <3>1, <1>9, <2>14
    <3>4. PageAt(a, p) = a.value[key][Len(p) - Len(Parent(a, key))]
      <4>1. Len(Parent(a, key)) < Len(p) /\ key \in Nodes(a)
        BY <3>3, <2>5, <2>8
      <4> QED BY <4>1, <3>1, <2>12, PageAtIs
    <3>5. a.value[key] = v
      BY <2>5
    <3>6. Len(p) - Len(s) \in 1..(Len(key) - Len(s)) /\ Len(s) + (Len(p) - Len(s)) = Len(p)
      BY <3>2, <3>3, <1>8
    <3> QED BY <3>4, <3>5, <3>6, <2>3, <2>8
  <2>15. \A m \in Nodes(a) : a.lock[m] = (IF m \in Known(t) THEN t.lock[At(t, m)] ELSE 0)
    BY <2>2, <2>5, <1>5, <1>7
  <2>16. /\ IsRecord(u) /\ u.value = a.value /\ u.lock = a.lock /\ u.atime = a.atime
         /\ u.evictable = t.evictable + (Len(key) - Len(s)) /\ u.protected = t.protected
    <3>1. u = [a EXCEPT !.evictable = @ + Len(key) - Len(s)]
      BY <1>4, <1>11
    <3>2. IsRecord(a) /\ a.evictable = t.evictable /\ a.protected = t.protected
      BY <2>5, <1>5
    <3>3. a.evictable + Len(key) - Len(s) = t.evictable + (Len(key) - Len(s))
      BY <3>2, <1>2, <1>8
    <3> HIDE DEF a, s
    <3> DEFINE e == a.evictable + Len(key) - Len(s)
    <3>4. u = [a EXCEPT !.evictable = e]
      BY <3>1
    <3> HIDE DEF e
    <3>5. /\ IsRecord(u) /\ u.value = a.value /\ u.lock = a.lock /\ u.atime = a.atime
          /\ u.evictable = e /\ u.protected = a.protected
      BY <3>2, <3>4 DEF IsRecord
    <3> QED BY <3>2, <3>3, <3>5 DEF e
  <2>17. /\ IsTree(K, u) /\ Nodes(u) = Nodes(a) /\ Known(u) = Known(a)
         /\ \A p : PageAt(u, p) = PageAt(a, p)
    <3>1. /\ u.lock \in [Nodes(a) -> Nat] /\ u.atime \in [Nodes(a) -> Nat]
          /\ u.evictable \in Int /\ u.protected \in Int
      BY <2>5, <2>16, <1>2, <1>5, <1>6, <1>8
    <3> QED BY <3>1, <2>12, <2>16, SameValues
  <2>18. Nodes(t) \subseteq Nodes(u)
    BY <2>5, <2>17, <1>5
  <2> QED BY <2>10, <2>13, <2>14, <2>15, <2>16, <2>17, <2>18 DEF Inserted, s, u
<1> QED BY <1>10, <1>11

---------------------------------------------------------------------------
(* Counting.                                                                *)

\* A function onto a set: the set is finite with its domain, and as large when the
\* function is one-to-one.
LEMMA ImageCount ==
  ASSUME NEW S, NEW T, IsFiniteSet(S), NEW f \in [S -> T], \A y \in T : \E x \in S : f[x] = y
  PROVE  /\ IsFiniteSet(T) /\ Cardinality(T) \in Nat
         /\ (\A x, y \in S : f[x] = f[y] => x = y) => Cardinality(T) = Cardinality(S)
<1>1. f \in Surjection(S, T)
  BY DEF Surjection
<1>2. /\ IsFiniteSet(T)
      /\ Cardinality(T) = Cardinality(S) <=> f \in Injection(S, T)
  BY <1>1, FS_Surjection
<1>3. (\A x, y \in S : f[x] = f[y] => x = y) => f \in Injection(S, T)
  BY DEF Injection, IsInjective
<1> QED BY <1>2, <1>3, FS_CardinalityType

\* A sequence has finitely many prefixes.
LEMMA PrefixesFinite ==
  ASSUME NEW K, NEW s \in Seq(K)
  PROVE  IsFiniteSet(Prefixes(s))
<1> DEFINE S == 0..Len(s)
           f == [l \in S |-> SubSeq(s, 1, l)]
<1>1. Len(s) \in Nat
  BY Elements
<1>2. IsFiniteSet(S)
  <2> DEFINE k == Len(s)
  <2>1. k \in Int /\ 0 \in Int
    BY <1>1
  <2> HIDE DEF k
  <2> QED BY <2>1, FS_Interval DEF k
<1>3. Prefixes(s) = {f[l] : l \in S}
  BY DEF Prefixes
<1>4. f \in [S -> {f[l] : l \in S}] /\ \A y \in {f[l] : l \in S} : \E x \in S : f[x] = y
  OBVIOUS
<1> HIDE DEF f, S
<1>5. IsFiniteSet({f[l] : l \in S})
  BY <1>2, <1>4, ImageCount
<1> QED BY <1>3, <1>5

\* A tree knows finitely many paths.
LEMMA KnownFinite ==
  ASSUME NEW K, NEW t, IsTree(K, t)
  PROVE  IsFiniteSet(Known(t)) /\ Known(t) \in SUBSET Seq(K)
<1>1. Nodes(t) \in SUBSET (Seq(K) \ {<< >>}) /\ IsFiniteSet(Nodes(t))
  BY DEF IsTree
<1> DEFINE f == [n \in Nodes(t) |-> Prefixes(n)]
           T == {Prefixes(n) : n \in Nodes(t)}
<1>2. f \in [Nodes(t) -> T] /\ \A y \in T : \E n \in Nodes(t) : f[n] = y
  OBVIOUS
<1>3. \A y \in T : IsFiniteSet(y)
  BY <1>1, PrefixesFinite
<1> HIDE DEF f, T
<1>4. IsFiniteSet(T)
  BY <1>1, <1>2, ImageCount
<1>5. IsFiniteSet(UNION T)
  BY <1>3, <1>4, FS_UNION
<1>6. Known(t) = (UNION T) \ {<< >>}
  BY DEF Known, T
<1>7. \A p \in Known(t) : p \in Seq(K)
  BY <1>1, KnownIs
<1> QED BY <1>5, <1>6, <1>7, FS_Difference

\* The known paths whose last page is in a node of S.
PathsIn(t, S) == {p \in Known(t) : At(t, p) \in S}

\* The pages of a set of nodes are counted by the paths that end in them.
LEMMA PagesInIs ==
  ASSUME NEW K, NEW t, IsTree(K, t), NEW S \in SUBSET Nodes(t)
  PROVE  /\ IsFiniteSet(PathsIn(t, S)) /\ PagesIn(t, S) = Cardinality(PathsIn(t, S))
         /\ PagesIn(t, S) \in Nat
<1>1. /\ Nodes(t) \in SUBSET (Seq(K) \ {<< >>}) /\ Meets(K, Nodes(t))
      /\ \A n \in Nodes(t) : t.value[n] \in Seq(Value) /\ Len(t.value[n]) = Len(n) - Len(Parent(t, n))
  BY DEF IsTree
<1> DEFINE P == PathsIn(t, S)
           U == UNION {{n} \X DOMAIN t.value[n] : n \in S}
           f == [p \in P |-> <<At(t, p), Len(p) - Len(Parent(t, At(t, p)))>>]
<1>2. IsFiniteSet(P)
  <2>1. IsFiniteSet(Known(t)) /\ P \in SUBSET Known(t)
    BY KnownFinite DEF PathsIn
  <2> QED BY <2>1, FS_Subset
<1>3. \A p \in P : /\ p \in Known(t) /\ At(t, p) \in S /\ p \in Seq(K) /\ Len(p) \in Nat
                   /\ IsPrefix(p, At(t, p)) /\ Len(Parent(t, At(t, p))) < Len(p)
  BY <1>1, AtIs DEF PathsIn
<1>4. \A n \in S : /\ n \in Seq(K) /\ n # << >> /\ Len(n) \in Nat /\ Len(Parent(t, n)) \in Nat
                   /\ DOMAIN t.value[n] = 1..(Len(n) - Len(Parent(t, n)))
  <2> TAKE n \in S
  <2>1. n \in Seq(K) /\ n # << >> /\ Parent(t, n) \in Seq(K)
    BY <1>1, ParentIs
  <2> QED BY <2>1, <1>1, PrefixOrder, Elements
<1>5. \A x : x \in U <=> \E n \in S : \E i \in 1..(Len(n) - Len(Parent(t, n))) : x = <<n, i>>
  BY <1>4
<1>6. \A p \in P : f[p] = <<At(t, p), Len(p) - Len(Parent(t, At(t, p)))>>
  OBVIOUS
<1>7. ASSUME NEW p \in P PROVE f[p] \in U
  <2> DEFINE n == At(t, p)
  <2>1. n \in S /\ IsPrefix(p, n) /\ Len(Parent(t, n)) < Len(p) /\ Len(p) \in Nat /\ p \in Seq(K)
    BY <1>3
  <2>2. f[p] = <<n, Len(p) - Len(Parent(t, n))>>
    BY <1>6
  <2> HIDE DEF n, f, U
  <2>3. n \in Seq(K) /\ Len(n) \in Nat /\ Len(Parent(t, n)) \in Nat
    BY <2>1, <1>4
  <2>4. Len(p) <= Len(n)
    BY <2>1, <2>3, PrefixOrder
  <2>5. Len(p) - Len(Parent(t, n)) \in 1..(Len(n) - Len(Parent(t, n)))
    BY <2>1, <2>3, <2>4
  <2> QED BY <2>1, <2>2, <2>5, <1>5
<1>8. ASSUME NEW x \in P, NEW y \in P, f[x] = f[y] PROVE x = y
  <2>1. At(t, x) = At(t, y) /\ Len(x) - Len(Parent(t, At(t, x))) = Len(y) - Len(Parent(t, At(t, y)))
    BY <1>6, <1>8
  <2> DEFINE n == At(t, x)
  <2>2. n \in S /\ IsPrefix(x, n) /\ IsPrefix(y, n) /\ Len(x) \in Nat /\ Len(y) \in Nat
        /\ x \in Seq(K) /\ y \in Seq(K)
    BY <2>1, <1>3
  <2>3. n \in Seq(K) /\ Len(Parent(t, n)) \in Nat
    BY <2>2, <1>4
  <2>4. Len(x) = Len(y)
    <3> DEFINE a == Len(x)
               b == Len(y)
               c == Len(Parent(t, n))
    <3>1. a - c = b - c
      BY <2>1
    <3>2. a \in Nat /\ b \in Nat /\ c \in Nat
      BY <2>2, <2>3
    <3> HIDE DEF a, b, c
    <3>3. a = b
      BY <3>1, <3>2
    <3> QED BY <3>3 DEF a, b
  <2> HIDE DEF n
  <2>5. IsPrefix(x, y)
    BY <2>2, <2>3, <2>4, PrefixChain
  <2> QED BY <2>2, <2>4, <2>5, PrefixOrder
<1>9. ASSUME NEW z \in U PROVE \E p \in P : f[p] = z
  <2>1. PICK n \in S : \E i \in 1..(Len(n) - Len(Parent(t, n))) : z = <<n, i>>
    BY <1>5, <1>9
  <2>2. PICK i \in 1..(Len(n) - Len(Parent(t, n))) : z = <<n, i>>
    BY <2>1
  <2>3. n \in Seq(K) /\ Len(n) \in Nat /\ Len(Parent(t, n)) \in Nat /\ n \in Nodes(t)
    BY <1>4
  <2> DEFINE l == Len(Parent(t, n)) + i
             p == SubSeq(n, 1, l)
  <2>4. l \in 0..Len(n) /\ Len(Parent(t, n)) < l /\ l - Len(Parent(t, n)) = i
    BY <2>2, <2>3
  <2> HIDE DEF l
  <2>5. p \in Seq(K) /\ Len(p) = l /\ IsPrefix(p, n)
    BY <2>3, <2>4, CutIs
  <2> HIDE DEF p
  <2>6. p \in Known(t) /\ At(t, p) = n
    BY <2>3, <2>4, <2>5, PageAtIs
  <2>7. p \in P
    BY <2>6 DEF PathsIn
  <2>8. f[p] = <<n, i>>
    BY <2>4, <2>5, <2>6, <2>7, <1>6
  <2> QED BY <2>2, <2>7, <2>8
<1>10. Cardinality(U) = Cardinality(P) /\ Cardinality(U) \in Nat
  <2>1. f \in [P -> U]
    BY <1>7
  <2> HIDE DEF f, P, U
  <2> QED BY <2>1, <1>2, <1>8, <1>9, ImageCount
<1>11. PagesIn(t, S) = Cardinality(U)
  BY DEF PagesIn
<1> QED BY <1>2, <1>10, <1>11

---------------------------------------------------------------------------
(* Locks.                                                                   *)

\* The paths along n that end in nodes with lock_ref k.
Along(t, n, k) == {p \in Known(t) : IsPrefix(p, n) /\ t.lock[At(t, p)] = k}

\* What inc_lock_ref and dec_lock_ref count as freshly locked or unlocked.
LEMMA AlongIs ==
  ASSUME NEW K, NEW t, IsTree(K, t), NEW n \in Nodes(t) \cup {<< >>}, NEW k
  PROVE  /\ PagesIn(t, {m \in Line(t, n) : t.lock[m] = k}) = Cardinality(Along(t, n, k))
         /\ IsFiniteSet(Along(t, n, k)) /\ Cardinality(Along(t, n, k)) \in Nat
<1>1. Nodes(t) \in SUBSET (Seq(K) \ {<< >>}) /\ Meets(K, Nodes(t))
  BY DEF IsTree
<1> DEFINE S == {m \in Line(t, n) : t.lock[m] = k}
<1>2. S \in SUBSET Nodes(t)
  BY DEF Line
<1>3. /\ IsFiniteSet(PathsIn(t, S)) /\ PagesIn(t, S) = Cardinality(PathsIn(t, S))
      /\ PagesIn(t, S) \in Nat
  BY <1>2, PagesInIs
<1>4. ASSUME NEW p \in Known(t) PROVE IsPrefix(At(t, p), n) <=> IsPrefix(p, n)
  <2>1. /\ p \in Seq(K) /\ p # << >> /\ At(t, p) \in Nodes(t) /\ IsPrefix(p, At(t, p))
        /\ \A m \in Nodes(t) : IsPrefix(p, m) => IsPrefix(At(t, p), m)
    BY <1>1, AtIs
  <2>2. At(t, p) \in Seq(K) \ {<< >>} /\ n \in Seq(K)
    BY <2>1, <1>1, PrefixEmpty
  <2>3. CASE n = << >>
    BY <2>1, <2>2, <2>3, PrefixEmpty
  <2>4. CASE n \in Nodes(t)
    <3>1. IsPrefix(At(t, p), n) => IsPrefix(p, n)
      BY <2>1, <2>2, PrefixTrans
    <3> QED BY <3>1, <2>1, <2>4
  <2> QED BY <2>3, <2>4
<1>5. \A p \in Known(t) : At(t, p) \in Nodes(t)
  BY <1>1, AtIs
<1>6. PathsIn(t, S) = Along(t, n, k)
  BY <1>4, <1>5 DEF PathsIn, Along, Line
<1> QED BY <1>3, <1>6

\* The locks of the nodes along n move by d, and the sizes by x pages.
Relocked(K, t, n, d, x, u) ==
  /\ IsTree(K, u) /\ Nodes(u) = Nodes(t) /\ Known(u) = Known(t)
  /\ \A p : PageAt(u, p) = PageAt(t, p)
  /\ \A m \in Nodes(t) : u.lock[m] = (IF IsPrefix(m, n) THEN t.lock[m] + d ELSE t.lock[m])
  /\ u.evictable = t.evictable - x /\ u.protected = t.protected + x

\* inc_lock_ref raises the locks along n and moves the pages of the unlocked ones.
LEMMA IncLockIs ==
  ASSUME NEW K, NEW t, IsTree(K, t), NEW n \in Nodes(t) \cup {<< >>}
  PROVE  Relocked(K, t, n, 1, Cardinality(Along(t, n, 0)), IncLock(t, n))
<1> DEFINE u == IncLock(t, n)
           x == Cardinality(Along(t, n, 0))
           L == [m \in Nodes(t) |-> IF m \in Line(t, n) THEN t.lock[m] + 1 ELSE t.lock[m]]
           e == t.evictable - x
           p == t.protected + x
<1>1. /\ IsRecord(t) /\ t.lock \in [Nodes(t) -> Nat] /\ t.atime \in [Nodes(t) -> Nat]
      /\ t.evictable \in Int /\ t.protected \in Int
  BY DEF IsTree
<1>2. x \in Nat /\ PagesIn(t, {m \in Line(t, n) : t.lock[m] = 0}) = x
  BY AlongIs
<1> HIDE DEF x
<1>3. u = [t EXCEPT !.lock = L, !.evictable = e, !.protected = p]
  BY <1>2 DEF IncLock
<1>4. /\ L \in [Nodes(t) -> Nat] /\ e \in Int /\ p \in Int
      /\ \A m \in Nodes(t) : L[m] = (IF IsPrefix(m, n) THEN t.lock[m] + 1 ELSE t.lock[m])
  BY <1>1, <1>2 DEF Line
<1> HIDE DEF L, u, e, p
<1>5. /\ IsRecord(u) /\ u.value = t.value /\ u.lock = L /\ u.atime = t.atime
      /\ u.evictable = e /\ u.protected = p
  BY <1>1, <1>3 DEF IsRecord
<1>6. /\ u.lock \in [Nodes(t) -> Nat] /\ u.atime \in [Nodes(t) -> Nat]
      /\ u.evictable \in Int /\ u.protected \in Int
  BY <1>1, <1>4, <1>5
<1>7. /\ IsTree(K, u) /\ Nodes(u) = Nodes(t) /\ Known(u) = Known(t)
      /\ \A q : PageAt(u, q) = PageAt(t, q)
  BY <1>5, <1>6, SameValues
<1>8. Relocked(K, t, n, 1, x, u)
  BY <1>4, <1>5, <1>7 DEF Relocked, e, p
<1> QED BY <1>8 DEF u, x

\* dec_lock_ref undoes inc_lock_ref where every lock along n is held.
LEMMA DecLockIs ==
  ASSUME NEW K, NEW t, IsTree(K, t), NEW n \in Nodes(t) \cup {<< >>},
         \A m \in Nodes(t) : IsPrefix(m, n) => t.lock[m] >= 1
  PROVE  Relocked(K, t, n, 0 - 1, 0 - Cardinality(Along(t, n, 1)), DecLock(t, n))
<1> DEFINE u == DecLock(t, n)
           x == Cardinality(Along(t, n, 1))
           L == [m \in Nodes(t) |-> IF m \in Line(t, n) THEN t.lock[m] - 1 ELSE t.lock[m]]
           e == t.evictable + x
           p == t.protected - x
<1>1. /\ IsRecord(t) /\ t.lock \in [Nodes(t) -> Nat] /\ t.atime \in [Nodes(t) -> Nat]
      /\ t.evictable \in Int /\ t.protected \in Int
  BY DEF IsTree
<1>2. x \in Nat /\ PagesIn(t, {m \in Line(t, n) : t.lock[m] = 1}) = x
  BY AlongIs
<1> HIDE DEF x
<1>3. u = [t EXCEPT !.lock = L, !.evictable = e, !.protected = p]
  BY <1>2 DEF DecLock
<1>4. /\ L \in [Nodes(t) -> Nat] /\ e \in Int /\ p \in Int
      /\ \A m \in Nodes(t) : L[m] = (IF IsPrefix(m, n) THEN t.lock[m] + (0 - 1) ELSE t.lock[m])
  <2>1. \A m \in Nodes(t) : m \in Line(t, n) <=> IsPrefix(m, n)
    BY DEF Line
  <2>2. \A m \in Nodes(t) : t.lock[m] \in Nat
    BY <1>1
  <2> QED BY <2>1, <2>2, <1>1, <1>2
<1>9. e = t.evictable - (0 - x) /\ p = t.protected + (0 - x)
  BY <1>1, <1>2
<1> HIDE DEF L, u, e, p
<1>5. /\ IsRecord(u) /\ u.value = t.value /\ u.lock = L /\ u.atime = t.atime
      /\ u.evictable = e /\ u.protected = p
  BY <1>1, <1>3 DEF IsRecord
<1>6. /\ u.lock \in [Nodes(t) -> Nat] /\ u.atime \in [Nodes(t) -> Nat]
      /\ u.evictable \in Int /\ u.protected \in Int
  BY <1>1, <1>4, <1>5
<1>7. /\ IsTree(K, u) /\ Nodes(u) = Nodes(t) /\ Known(u) = Known(t)
      /\ \A q : PageAt(u, q) = PageAt(t, q)
  BY <1>5, <1>6, SameValues
<1>8. Relocked(K, t, n, 0 - 1, 0 - x, u)
  BY <1>4, <1>5, <1>7, <1>9 DEF Relocked
<1> QED BY <1>8 DEF u, x

---------------------------------------------------------------------------
(* Eviction.                                                                *)

\* A leaf's pages are those of the paths that end in it, and there are as many.
LEMMA ValueOf ==
  ASSUME NEW K, NEW t, IsTree(K, t), NEW n \in Nodes(t)
  PROVE  /\ Range(t.value[n]) = {PageAt(t, p) : p \in PathsIn(t, {n})}
         /\ Len(t.value[n]) = Cardinality(PathsIn(t, {n}))
         /\ IsFiniteSet(PathsIn(t, {n})) /\ Len(t.value[n]) \in Nat
<1>1. /\ Nodes(t) \in SUBSET (Seq(K) \ {<< >>}) /\ Meets(K, Nodes(t))
      /\ t.value[n] \in Seq(Value) /\ Len(t.value[n]) = Len(n) - Len(Parent(t, n))
  BY DEF IsTree
<1> DEFINE l == Len(t.value[n])
           q == Parent(t, n)
<1>2. l \in Nat /\ DOMAIN t.value[n] = 1..l
  BY <1>1, Elements
<1>3. /\ n \in Seq(K) /\ n # << >> /\ q \in Seq(K) /\ Len(q) \in Nat /\ Len(n) \in Nat
      /\ l = Len(n) - Len(q)
  <2>1. n \in Seq(K) /\ n # << >> /\ q \in Seq(K)
    BY <1>1, ParentIs
  <2> QED BY <2>1, <1>1, PrefixOrder
<1>4. ASSUME NEW p \in PathsIn(t, {n}) PROVE PageAt(t, p) \in Range(t.value[n])
  <2>1. p \in Known(t) /\ At(t, p) = n
    BY <1>4 DEF PathsIn
  <2>2. p \in Seq(K) /\ IsPrefix(p, n) /\ Len(q) < Len(p)
    BY <2>1, <1>1, AtIs
  <2>3. /\ Len(p) - Len(q) \in 1..l /\ PageAt(t, p) = t.value[n][Len(p) - Len(q)]
    BY <2>2, PageAtIs
  <2> QED BY <2>3, <1>2 DEF Range
<1>5. ASSUME NEW y \in Range(t.value[n]) PROVE \E p \in PathsIn(t, {n}) : y = PageAt(t, p)
  <2>1. PICK i \in 1..l : y = t.value[n][i]
    BY <1>2, <1>5 DEF Range
  <2> DEFINE k == Len(q) + i
             p == SubSeq(n, 1, k)
  <2>2. k \in 0..Len(n) /\ Len(q) < k /\ k - Len(q) = i
    BY <2>1, <1>2, <1>3
  <2> HIDE DEF k
  <2>3. p \in Seq(K) /\ Len(p) = k /\ IsPrefix(p, n)
    <3>1. n \in Seq(K)
      BY <1>3
    <3>2. k \in 0..Len(n)
      BY <2>2
    <3> QED BY <3>1, <3>2, CutIs
  <2> HIDE DEF p
  <2>4. /\ p \in Known(t) /\ At(t, p) = n /\ PageAt(t, p) = t.value[n][Len(p) - Len(q)]
    BY <2>2, <2>3, PageAtIs
  <2> QED BY <2>1, <2>2, <2>3, <2>4 DEF PathsIn
<1>6. Cardinality(PathsIn(t, {n})) = l /\ IsFiniteSet(PathsIn(t, {n}))
  <2>1. {n} \in SUBSET Nodes(t)
    OBVIOUS
  <2>2. IsFiniteSet(PathsIn(t, {n})) /\ PagesIn(t, {n}) = Cardinality(PathsIn(t, {n}))
    BY <2>1, PagesInIs
  <2>3. UNION {{m} \X DOMAIN t.value[m] : m \in {n}} = {n} \X (1..l)
    BY <1>2
  <2>4. Cardinality({n} \X (1..l)) = l
    <3> HIDE DEF l
    <3>1. l \in Int /\ 1 \in Int
      BY <1>2
    <3>2. IsFiniteSet(1..l) /\ Cardinality(1..l) = l
      <4>1. IsFiniteSet(1..l) /\ Cardinality(1..l) = IF 1 > l THEN 0 ELSE l - 1 + 1
        BY <3>1, FS_Interval
      <4> QED BY <4>1, <1>2
    <3>3. IsFiniteSet({n}) /\ Cardinality({n}) = 1
      BY FS_Singleton
    <3> DEFINE B == 1..l
               A == {n}
    <3>4. Cardinality(A \X B) = Cardinality(A) * Cardinality(B)
      <4> HIDE DEF A, B
      <4> QED BY <3>2, <3>3, FS_Product DEF A, B
    <3>5. Cardinality(A) = 1 /\ Cardinality(B) = l
      BY <3>2, <3>3
    <3>6. 1 * l = l
      BY <1>2
    <3> QED BY <3>4, <3>5, <3>6
  <2> QED BY <2>2, <2>3, <2>4 DEF PagesIn
<1> QED BY <1>2, <1>4, <1>5, <1>6

\* The paths that end in n are forgotten, and nothing else.
Deleted(K, t, n, u) ==
  /\ IsTree(K, u) /\ Nodes(u) = Nodes(t) \ {n} /\ Known(u) = Known(t) \ PathsIn(t, {n})
  /\ \A p \in Known(u) : PageAt(u, p) = PageAt(t, p) /\ At(u, p) = At(t, p)
  /\ \A m \in Nodes(u) : u.lock[m] = t.lock[m]
  /\ u.evictable = t.evictable - Cardinality(PathsIn(t, {n})) /\ u.protected = t.protected

\* _delete_leaf forgets the paths of one leaf.
LEMMA DeleteLeafIs ==
  ASSUME NEW K, NEW t, IsTree(K, t), NEW n \in Leaves(t)
  PROVE  Deleted(K, t, n, DeleteLeaf(t, n))
<1> DEFINE u == DeleteLeaf(t, n)
           N == Nodes(t) \ {n}
           V == Restrict(t.value, N)
           L == Restrict(t.lock, N)
           A == Restrict(t.atime, N)
           e == t.evictable - Len(t.value[n])
<1>1. /\ IsRecord(t) /\ t.lock \in [Nodes(t) -> Nat] /\ t.atime \in [Nodes(t) -> Nat]
      /\ t.value \in [Nodes(t) -> Seq(Value)] /\ t.evictable \in Int /\ t.protected \in Int
      /\ Nodes(t) \in SUBSET (Seq(K) \ {<< >>}) /\ Meets(K, Nodes(t)) /\ IsFiniteSet(Nodes(t))
      /\ \A m \in Nodes(t) : Len(t.value[m]) = Len(m) - Len(Parent(t, m))
  BY DEF IsTree
<1>2. n \in Nodes(t) /\ \A m \in Nodes(t) : IsPrefix(n, m) => m = n
  BY DEF Leaves
<1>3. /\ Len(t.value[n]) = Cardinality(PathsIn(t, {n})) /\ Len(t.value[n]) \in Nat
  BY <1>2, ValueOf
<1>4. /\ V \in [N -> Seq(Value)] /\ L \in [N -> Nat] /\ A \in [N -> Nat] /\ e \in Int
      /\ \A m \in N : V[m] = t.value[m] /\ L[m] = t.lock[m]
  BY <1>1, <1>3 DEF Restrict
<1>5. u = [t EXCEPT !.value = V, !.lock = L, !.atime = A, !.evictable = e]
  BY DEF DeleteLeaf
<1> HIDE DEF u, V, L, A, e
<1>6. /\ IsRecord(u) /\ u.value = V /\ u.lock = L /\ u.atime = A
      /\ u.evictable = e /\ u.protected = t.protected
  BY <1>1, <1>5 DEF IsRecord
<1>7. Nodes(u) = N
  BY <1>4, <1>6 DEF Nodes
<1> HIDE DEF N
<1>8. N \in SUBSET Nodes(t) /\ n \notin N /\ \A m \in Nodes(t) : m # n => m \in N
  BY DEF N
<1>9. /\ N \in SUBSET (Seq(K) \ {<< >>}) /\ IsFiniteSet(N)
  BY <1>1, <1>8, FS_Subset
<1>10. \A m \in N : Parent(u, m) = Parent(t, m)
  <2> TAKE m \in N
  <2> DEFINE q == Parent(t, m)
  <2>1. m \in Seq(K) /\ m # << >> /\ m \in Nodes(t) /\ m # n
    BY <1>8, <1>9
  <2>2. /\ q \in Seq(K) /\ q \in Nodes(t) \cup {<< >>} /\ IsPrefix(q, m) /\ q # m
        /\ \A x \in Nodes(t) : IsPrefix(x, m) /\ x # m => IsPrefix(x, q)
    BY <2>1, <1>1, ParentIs
  <2> HIDE DEF q
  <2>3. q \in Nodes(u) \cup {<< >>}
    BY <2>1, <2>2, <1>2, <1>7, <1>8
  <2>4. \A x \in Nodes(u) : IsPrefix(x, m) /\ x # m => IsPrefix(x, q)
    BY <2>2, <1>7, <1>8
  <2>5. Nodes(u) \in SUBSET (Seq(K) \ {<< >>})
    BY <1>7, <1>9
  <2>6. q = Parent(u, m)
    BY <2>1, <2>2, <2>3, <2>4, <2>5, ParentIs
  <2> QED BY <2>6 DEF q
<1>11. Meets(K, N)
  <2> SUFFICES ASSUME NEW x \in N, NEW y \in N, NEW p \in Seq(K) \ {<< >>},
                      IsPrefix(p, x), IsPrefix(p, y)
               PROVE  \E d \in N : IsPrefix(p, d) /\ IsPrefix(d, x) /\ IsPrefix(d, y)
    BY DEF Meets
  <2>1. x \in Nodes(t) /\ y \in Nodes(t)
    BY <1>8
  <2>2. PICK d \in Nodes(t) : IsPrefix(p, d) /\ IsPrefix(d, x) /\ IsPrefix(d, y)
    BY <2>1, <1>1 DEF Meets
  <2>3. d # n
    BY <2>1, <2>2, <1>2, <1>8
  <2> QED BY <2>2, <2>3, <1>8
<1>12. IsTree(K, u)
  <2>1. \A m \in Nodes(u) : Len(u.value[m]) = Len(m) - Len(Parent(u, m))
    BY <1>1, <1>4, <1>6, <1>7, <1>8, <1>10
  <2>2. /\ u.value \in [Nodes(u) -> Seq(Value)] /\ u.lock \in [Nodes(u) -> Nat]
        /\ u.atime \in [Nodes(u) -> Nat] /\ u.evictable \in Int /\ u.protected \in Int
    BY <1>1, <1>4, <1>6, <1>7
  <2>3. /\ Nodes(u) \in SUBSET (Seq(K) \ {<< >>}) /\ IsFiniteSet(Nodes(u)) /\ Meets(K, Nodes(u))
    BY <1>7, <1>9, <1>11
  <2> QED BY <2>1, <2>2, <2>3, <1>6 DEF IsTree
<1>13. ASSUME NEW p \in Known(t) PROVE p \in Known(u) <=> At(t, p) # n
  <2>1. /\ p \in Seq(K) /\ p # << >> /\ At(t, p) \in Nodes(t) /\ IsPrefix(p, At(t, p))
        /\ \A m \in Nodes(t) : IsPrefix(p, m) => IsPrefix(At(t, p), m)
    BY <1>1, AtIs
  <2>2. p \in Known(u) <=> \E m \in N : IsPrefix(p, m)
    BY <2>1, <1>7, <1>9, KnownIs
  <2>3. At(t, p) # n => At(t, p) \in N
    BY <2>1, <1>8
  <2>4. ASSUME At(t, p) = n, NEW m \in N PROVE ~ IsPrefix(p, m)
    BY <2>1, <2>4, <1>2, <1>8
  <2> QED BY <2>1, <2>2, <2>3, <2>4
<1>14. Known(u) \subseteq Known(t)
  <2> SUFFICES ASSUME NEW p \in Known(u) PROVE p \in Known(t)
    OBVIOUS
  <2>1. p \in Seq(K) /\ p # << >> /\ \E m \in N : IsPrefix(p, m)
    BY <1>7, <1>9, KnownIs
  <2> QED BY <2>1, <1>1, <1>8, KnownIs
<1>15. Known(u) = Known(t) \ PathsIn(t, {n})
  BY <1>13, <1>14 DEF PathsIn
<1>16. ASSUME NEW p \in Known(u) PROVE PageAt(u, p) = PageAt(t, p) /\ At(u, p) = At(t, p)
  <2> DEFINE m == At(t, p)
  <2>1. p \in Known(t) /\ m # n
    BY <1>13, <1>14, <1>16
  <2>2. p \in Seq(K) /\ m \in Nodes(t) /\ IsPrefix(p, m) /\ Len(Parent(t, m)) < Len(p)
    BY <2>1, <1>1, AtIs
  <2> HIDE DEF m
  <2>3. PageAt(t, p) = t.value[m][Len(p) - Len(Parent(t, m))]
    BY <2>2, PageAtIs
  <2>4. m \in N /\ Parent(u, m) = Parent(t, m) /\ u.value[m] = t.value[m]
    BY <2>1, <2>2, <1>4, <1>6, <1>8, <1>10
  <2>5. m \in Nodes(u) /\ Len(Parent(u, m)) < Len(p)
    BY <2>2, <2>4, <1>7
  <2>6. At(u, p) = m /\ PageAt(u, p) = u.value[m][Len(p) - Len(Parent(u, m))]
    BY <2>2, <2>5, <1>12, PageAtIs
  <2> QED BY <2>3, <2>4, <2>6 DEF m
<1>17. \A m \in Nodes(u) : u.lock[m] = t.lock[m]
  BY <1>4, <1>6, <1>7
<1>18. u.evictable = t.evictable - Cardinality(PathsIn(t, {n}))
  BY <1>3, <1>6 DEF e
<1>19. Nodes(u) = Nodes(t) \ {n}
  BY <1>7 DEF N
<1>20. Deleted(K, t, n, u)
  BY <1>6, <1>12, <1>15, <1>16, <1>17, <1>18, <1>19 DEF Deleted
<1> QED BY <1>20 DEF u

\* One round of evict over the results so far, own[x] the pages freed for an entry x.
EvictRound(own, free, need, X) ==
  UNION {IF Cardinality(e.free) - Cardinality(free) >= need \/ Victims(e.tree) = {}
           THEN {e}
           ELSE {[tree |-> DeleteLeaf(e.tree, n), free |-> e.free \cup UNION {own[x] : x \in Range(e.tree.value[n])}] :
                   n \in Victims(e.tree)}
         : e \in X}

\* The rounds up to n, from the results X.
Rounds(own, free, need, X, n, g) ==
  g[0] = X /\ \A k \in 1..n : g[k] = EvictRound(own, free, need, g[k - 1])

\* The rounds of evict up to any number exist as one function.
LEMMA RoundsExist ==
  ASSUME NEW own, NEW free, NEW need, NEW X, NEW n \in Nat
  PROVE  \E g : Rounds(own, free, need, X, n, g)
<1> DEFINE G == {i \in 0..n : \E g : Rounds(own, free, need, X, i, g)}
<1>1. 0 \in G
  <2> DEFINE g == [k \in {0} |-> X]
  <2>1. Rounds(own, free, need, X, 0, g)
    BY DEF Rounds
  <2> HIDE DEF g
  <2> QED BY <2>1
<1>2. ASSUME NEW i \in 1..n, i - 1 \in G PROVE i \in G
  <2>1. PICK g : Rounds(own, free, need, X, i - 1, g)
    BY <1>2
  <2> DEFINE h == [k \in 0..i |-> IF k = i THEN EvictRound(own, free, need, g[k - 1]) ELSE g[k]]
  <2>2. \A k \in 0..i : h[k] = IF k = i THEN EvictRound(own, free, need, g[k - 1]) ELSE g[k]
    OBVIOUS
  <2> HIDE DEF h
  <2>3. g[0] = X /\ \A k \in 1..(i - 1) : g[k] = EvictRound(own, free, need, g[k - 1])
    BY <2>1 DEF Rounds
  <2>4. h[0] = X
    BY <2>2, <2>3
  <2>5. ASSUME NEW k \in 1..i PROVE h[k] = EvictRound(own, free, need, h[k - 1])
    <3>1. h[k - 1] = g[k - 1]
      BY <2>2
    <3>2. h[k] = EvictRound(own, free, need, g[k - 1])
      <4>1. CASE k = i
        BY <4>1, <2>2
      <4>2. CASE k # i
        <5>1. h[k] = g[k] /\ k \in 1..(i - 1)
          BY <4>2, <2>2
        <5> QED BY <5>1, <2>3
      <4> QED BY <4>1, <4>2
    <3> QED BY <3>1, <3>2
  <2>6. Rounds(own, free, need, X, i, h)
    BY <2>4, <2>5 DEF Rounds
  <2> QED BY <2>6
<1> HIDE DEF G
<1>3. 0..n \subseteq G
  BY <1>1, <1>2, IndexInduction
<1> QED BY <1>3 DEF G

\* Functions of rounds agree as far as both go.
LEMMA RoundsAgree ==
  ASSUME NEW own, NEW free, NEW need, NEW X, NEW n \in Nat, NEW m \in Nat, n <= m, NEW g, NEW h,
         Rounds(own, free, need, X, n, g), Rounds(own, free, need, X, m, h)
  PROVE  g[n] = h[n]
<1> DEFINE G == {i \in 0..n : g[i] = h[i]}
<1>1. /\ g[0] = X /\ \A k \in 1..n : g[k] = EvictRound(own, free, need, g[k - 1])
      /\ h[0] = X /\ \A k \in 1..m : h[k] = EvictRound(own, free, need, h[k - 1])
  BY DEF Rounds
<1>2. 0 \in G
  BY <1>1
<1>3. ASSUME NEW i \in 1..n, i - 1 \in G PROVE i \in G
  <2>1. g[i - 1] = h[i - 1] /\ i \in 1..m
    BY <1>3
  <2>2. g[i] = EvictRound(own, free, need, g[i - 1]) /\ h[i] = EvictRound(own, free, need, h[i - 1])
    BY <2>1, <1>1
  <2> QED BY <2>1, <2>2
<1> HIDE DEF G
<1>4. 0..n \subseteq G
  BY <1>2, <1>3, IndexInduction
<1> QED BY <1>4 DEF G

\* evict is the rounds, as many as there are nodes.
LEMMA OutcomesAre ==
  ASSUME NEW t, NEW own, NEW free, NEW need
  PROVE  \E f : /\ f[0] = {[tree |-> t, free |-> free]}
                /\ \A k \in Nat \ {0} : f[k] = EvictRound(own, free, need, f[k - 1])
                /\ EvictOutcomes(t, free, need, own) = f[Cardinality(Nodes(t))]
<1> DEFINE X == {[tree |-> t, free |-> free]}
           g(n) == CHOOSE g : Rounds(own, free, need, X, n, g)
           F(f) == [k \in Nat |-> IF k = 0 THEN X ELSE EvictRound(own, free, need, f[k - 1])]
           a == [n \in Nat |-> g(n)[n]]
           f == CHOOSE f : f = F(f)
<1>1. EvictOutcomes(t, free, need, own) = f[Cardinality(Nodes(t))]
  BY DEF EvictOutcomes, EvictRound
<1> HIDE DEF X
<1>2. \A n \in Nat : Rounds(own, free, need, X, n, g(n))
  BY RoundsExist
<1>3. a = F(a)
  <2> HIDE DEF g
  <2>1. a[0] = X
    BY <1>2 DEF Rounds
  <2>2. ASSUME NEW k \in Nat \ {0} PROVE a[k] = EvictRound(own, free, need, a[k - 1])
    <3>1. k - 1 \in Nat /\ k - 1 <= k /\ k \in Nat
      OBVIOUS
    <3>2. Rounds(own, free, need, X, k - 1, g(k - 1)) /\ Rounds(own, free, need, X, k, g(k))
      BY <3>1, <1>2
    <3>3. g(k - 1)[k - 1] = g(k)[k - 1]
      BY <3>1, <3>2, RoundsAgree
    <3>4. g(k)[k] = EvictRound(own, free, need, g(k)[k - 1])
      BY <3>2 DEF Rounds
    <3> QED BY <3>1, <3>3, <3>4
  <2>3. a = [k \in Nat |-> a[k]]
    OBVIOUS
  <2> HIDE DEF a
  <2> QED BY <2>1, <2>2, <2>3
<1>4. f = F(f)
  <2> HIDE DEF a, F
  <2> QED BY <1>3
<1> HIDE DEF f
<1>5. f[0] = X /\ \A k \in Nat \ {0} : f[k] = EvictRound(own, free, need, f[k - 1])
  BY <1>4
<1> QED BY <1>1, <1>5 DEF X

\* The paths e has lost against t.
Lost(t, e) == Known(t) \ Known(e.tree)

\* What a result of evict has done: unlocked nodes are gone, with the paths that ended in
\* them, and own[x] is free now for each entry x that is gone; the rest is as it was.
Evicted(K, own, t, free, e) ==
  /\ IsTree(K, e.tree) /\ Nodes(e.tree) \subseteq Nodes(t) /\ Known(e.tree) \subseteq Known(t)
  /\ \A p \in Known(e.tree) : PageAt(e.tree, p) = PageAt(t, p) /\ At(e.tree, p) = At(t, p)
  /\ \A m \in Nodes(e.tree) : e.tree.lock[m] = t.lock[m]
  /\ \A m \in Nodes(t) : m \notin Nodes(e.tree) => t.lock[m] = 0
  /\ \A p \in Lost(t, e) : At(t, p) \notin Nodes(e.tree)
  /\ e.free = free \cup UNION {own[PageAt(t, p)] : p \in Lost(t, e)}
  /\ e.tree.evictable = t.evictable - Cardinality(Lost(t, e))
  /\ e.tree.protected = t.protected

\* Before its first round evict has done nothing.
LEMMA EvictedNone ==
  ASSUME NEW K, NEW t, IsTree(K, t), NEW own, NEW free, NEW e, e = [tree |-> t, free |-> free]
  PROVE  Evicted(K, own, t, free, e)
<1>1. e.tree = t /\ e.free = free /\ Lost(t, e) = {}
  BY DEF Lost
<1>2. t.evictable \in Int /\ Cardinality({}) = 0
  BY FS_EmptySet DEF IsTree
<1>3. t.evictable = t.evictable - Cardinality(Lost(t, e))
  BY <1>1, <1>2
<1> QED BY <1>1, <1>3 DEF Evicted

\* One more unlocked leaf deleted.
LEMMA EvictedOne ==
  ASSUME NEW K, NEW t, IsTree(K, t), NEW own, NEW free, NEW e, Evicted(K, own, t, free, e),
         NEW n \in Victims(e.tree), NEW d,
         d = [tree |-> DeleteLeaf(e.tree, n), free |-> e.free \cup UNION {own[x] : x \in Range(e.tree.value[n])}]
  PROVE  Evicted(K, own, t, free, d) /\ Nodes(d.tree) = Nodes(e.tree) \ {n} /\ n \in Nodes(e.tree)
<1> DEFINE s == e.tree
           u == d.tree
           P == PathsIn(s, {n})
<1>1. /\ IsTree(K, s) /\ Nodes(s) \subseteq Nodes(t) /\ Known(s) \subseteq Known(t)
      /\ \A p \in Known(s) : PageAt(s, p) = PageAt(t, p) /\ At(s, p) = At(t, p)
      /\ \A m \in Nodes(s) : s.lock[m] = t.lock[m]
      /\ \A m \in Nodes(t) : m \notin Nodes(s) => t.lock[m] = 0
      /\ \A p \in Lost(t, e) : At(t, p) \notin Nodes(s)
      /\ e.free = free \cup UNION {own[PageAt(t, p)] : p \in Lost(t, e)}
      /\ s.evictable = t.evictable - Cardinality(Lost(t, e))
      /\ s.protected = t.protected
  BY DEF Evicted
<1>2. n \in Leaves(s) /\ s.lock[n] = 0 /\ n \in Nodes(s)
  BY DEF Victims, Leaves
<1>3. u = DeleteLeaf(s, n) /\ d.free = e.free \cup UNION {own[x] : x \in Range(s.value[n])}
  OBVIOUS
<1>4. /\ IsTree(K, u) /\ Nodes(u) = Nodes(s) \ {n} /\ Known(u) = Known(s) \ P
      /\ \A p \in Known(u) : PageAt(u, p) = PageAt(s, p) /\ At(u, p) = At(s, p)
      /\ \A m \in Nodes(u) : u.lock[m] = s.lock[m]
      /\ u.evictable = s.evictable - Cardinality(P) /\ u.protected = s.protected
  <2>1. IsTree(K, s)
    BY <1>1
  <2>2. Deleted(K, s, n, DeleteLeaf(s, n))
    <3> HIDE DEF s
    <3> QED BY <2>1, <1>2, DeleteLeafIs
  <2>3. Deleted(K, s, n, u)
    BY <2>2, <1>3
  <2> HIDE DEF s, u
  <2> QED BY <2>3 DEF Deleted
<1>5. Range(s.value[n]) = {PageAt(s, p) : p \in P} /\ IsFiniteSet(P)
  <2>1. IsTree(K, s) /\ n \in Nodes(s)
    BY <1>1, <1>2
  <2> HIDE DEF s
  <2> QED BY ONLY <2>1, ValueOf DEF P
<1>6. P \subseteq Known(s) /\ \A p \in P : At(s, p) = n
  BY DEF PathsIn
<1> HIDE DEF s, u, P
<1>7. Lost(t, d) = Lost(t, e) \cup P /\ Lost(t, e) \cap P = {}
  BY <1>1, <1>4, <1>6 DEF Lost, s, u
<1>8. IsFiniteSet(Lost(t, e)) /\ Cardinality(Lost(t, e)) \in Nat
      /\ Cardinality(P) \in Nat /\ t.evictable \in Int
  <2>1. IsFiniteSet(Known(t))
    BY KnownFinite
  <2>2. IsFiniteSet(Lost(t, e))
    BY <2>1, FS_Difference DEF Lost
  <2> QED BY <2>2, <1>5, FS_CardinalityType DEF IsTree
<1>9. Cardinality(Lost(t, d)) = Cardinality(Lost(t, e)) + Cardinality(P)
  <2> DEFINE A == Lost(t, e)
             B == Lost(t, d)
  <2>1. IsFiniteSet(A) /\ IsFiniteSet(P) /\ A \cap P = {} /\ B = A \cup P
        /\ Cardinality(A) \in Nat /\ Cardinality(P) \in Nat
    BY <1>5, <1>7, <1>8
  <2> HIDE DEF A, B
  <2>2. Cardinality(A \cup P) = Cardinality(A) + Cardinality(P) - Cardinality(A \cap P)
    BY <2>1, FS_Union
  <2>3. Cardinality(A \cap P) = 0
    BY <2>1, FS_EmptySet
  <2>4. Cardinality(B) = Cardinality(A) + Cardinality(P)
    BY <2>1, <2>2, <2>3
  <2> QED BY <2>4 DEF A, B
<1>10. u.evictable = t.evictable - Cardinality(Lost(t, d))
  BY <1>1, <1>4, <1>8, <1>9
<1>11. d.free = free \cup UNION {own[PageAt(t, p)] : p \in Lost(t, d)}
  <2>1. \A p \in P : PageAt(s, p) = PageAt(t, p)
    BY <1>1, <1>6
  <2>2. Range(s.value[n]) = {PageAt(t, p) : p \in P}
    BY <2>1, <1>5
  <2>3. d.free = (free \cup UNION {own[PageAt(t, p)] : p \in Lost(t, e)})
                   \cup UNION {own[PageAt(t, p)] : p \in P}
    BY <2>2, <1>1, <1>3
  <2> QED BY <2>3, <1>7
<1>12. \A p \in Known(u) : PageAt(u, p) = PageAt(t, p) /\ At(u, p) = At(t, p)
  BY <1>1, <1>4
<1>13. \A m \in Nodes(u) : u.lock[m] = t.lock[m]
  BY <1>1, <1>4
<1>14. \A m \in Nodes(t) : m \notin Nodes(u) => t.lock[m] = 0
  BY <1>1, <1>2, <1>4
<1>15. \A p \in Lost(t, d) : At(t, p) \notin Nodes(u)
  <2> TAKE p \in Lost(t, d)
  <2>1. CASE p \in Lost(t, e)
    BY <2>1, <1>1, <1>4
  <2>2. CASE p \in P
    BY <2>2, <1>1, <1>4, <1>6
  <2> QED BY <2>1, <2>2, <1>7
<1>16. /\ IsTree(K, u) /\ Nodes(u) \subseteq Nodes(t) /\ Known(u) \subseteq Known(t)
       /\ u.protected = t.protected
  BY <1>1, <1>4
<1>17. Evicted(K, own, t, free, d)
  BY <1>10, <1>11, <1>12, <1>13, <1>14, <1>15, <1>16 DEF Evicted, u
<1> QED BY <1>2, <1>4, <1>17 DEF s, u

\* Evict has come to its end.
Done(free, need, e) == Cardinality(e.free) - Cardinality(free) >= need \/ Victims(e.tree) = {}

\* Every result of evict has only deleted unlocked nodes, and has come to an end.
LEMMA EvictedIs ==
  ASSUME NEW K, NEW t, IsTree(K, t), NEW own, NEW free, NEW need,
         NEW e \in EvictOutcomes(t, free, need, own)
  PROVE  Evicted(K, own, t, free, e) /\ Done(free, need, e)
<1>1. PICK f : /\ f[0] = {[tree |-> t, free |-> free]}
               /\ \A k \in Nat \ {0} : f[k] = EvictRound(own, free, need, f[k - 1])
               /\ EvictOutcomes(t, free, need, own) = f[Cardinality(Nodes(t))]
  BY OutcomesAre
<1>2. IsFiniteSet(Nodes(t)) /\ Cardinality(Nodes(t)) \in Nat
  BY FS_CardinalityType DEF IsTree
<1> DEFINE N == Cardinality(Nodes(t))
           Good(k, x) == /\ Evicted(K, own, t, free, x)
                         /\ Done(free, need, x) \/ Cardinality(Nodes(x.tree)) = N - k
           G == {k \in 0..N : \A x \in f[k] : Good(k, x)}
<1>3. 0 \in G
  <2>1. ASSUME NEW x \in f[0] PROVE Good(0, x)
    <3>1. x = [tree |-> t, free |-> free]
      BY <2>1, <1>1
    <3>2. Evicted(K, own, t, free, x) /\ x.tree = t
      BY <3>1, EvictedNone
    <3> QED BY <3>2, <1>2
  <2> QED BY <2>1, <1>2
<1>4. ASSUME NEW k \in 1..N, k - 1 \in G PROVE k \in G
  <2>1. ASSUME NEW d \in f[k] PROVE Good(k, d)
    <3>1. k \in Nat \ {0}
      BY <1>2
    <3>2. f[k] = EvictRound(own, free, need, f[k - 1])
      BY <3>1, <1>1
    <3>3. PICK x \in f[k - 1] :
            d \in IF Done(free, need, x) THEN {x}
                  ELSE {[tree |-> DeleteLeaf(x.tree, n), free |-> x.free \cup UNION {own[y] : y \in Range(x.tree.value[n])}] :
                          n \in Victims(x.tree)}
      BY <2>1, <3>2 DEF EvictRound, Done
    <3>4. Good(k - 1, x)
      BY <3>3, <1>4
    <3>5. CASE Done(free, need, x)
      <4>1. d = x
        BY <3>3, <3>5
      <4> QED BY <4>1, <3>4, <3>5
    <3>6. CASE ~ Done(free, need, x)
      <4>1. PICK n \in Victims(x.tree) :
              d = [tree |-> DeleteLeaf(x.tree, n), free |-> x.free \cup UNION {own[y] : y \in Range(x.tree.value[n])}]
        BY <3>3, <3>6
      <4>2. /\ Evicted(K, own, t, free, d) /\ Nodes(d.tree) = Nodes(x.tree) \ {n} /\ n \in Nodes(x.tree)
        BY <4>1, <3>4, EvictedOne
      <4>3. IsFiniteSet(Nodes(x.tree)) /\ Cardinality(Nodes(x.tree)) = N - (k - 1)
        BY <3>4, <3>6 DEF Evicted, IsTree
      <4>4. Cardinality(Nodes(d.tree)) = Cardinality(Nodes(x.tree)) - 1
        BY <4>2, <4>3, FS_RemoveElement
      <4>5. N - (k - 1) - 1 = N - k
        BY <1>2
      <4> QED BY <4>2, <4>3, <4>4, <4>5
    <3> QED BY <3>5, <3>6
  <2> QED BY <2>1
<1> HIDE DEF G, Good
<1>5. 0..N \subseteq G
  <2> HIDE DEF N
  <2>1. N \in Nat
    BY <1>2 DEF N
  <2> QED BY <2>1, <1>3, <1>4, IndexInduction
<1>6. Good(N, e)
  BY <1>1, <1>2, <1>5 DEF G
<1>7. Evicted(K, own, t, free, e) /\ (Done(free, need, e) \/ Cardinality(Nodes(e.tree)) = N - N)
  BY <1>6 DEF Good
<1>8. ASSUME Cardinality(Nodes(e.tree)) = N - N PROVE Victims(e.tree) = {}
  <2>1. IsFiniteSet(Nodes(e.tree)) /\ Cardinality(Nodes(e.tree)) = 0
    BY <1>2, <1>7, <1>8 DEF Evicted, IsTree
  <2>2. Nodes(e.tree) = {}
    BY <2>1, FS_EmptySet
  <2> QED BY <2>2 DEF Victims, Leaves
<1> QED BY <1>7, <1>8 DEF Done

\* The empty tree.
LEMMA EmptyIsTree ==
  ASSUME NEW K
  PROVE  IsTree(K, EmptyTree) /\ Known(EmptyTree) = {} /\ Nodes(EmptyTree) = {}
<1>1. << >> \in Seq(Seq(Value)) /\ << >> \in Seq(Nat) /\ Len(<< >>) = 0
  BY EmptySeq
<1>2. DOMAIN << >> = {}
  OBVIOUS
<1>3. << >> \in [{} -> Seq(Value)] /\ << >> \in [{} -> Nat]
  OBVIOUS
<1>4. /\ EmptyTree.value = << >> /\ EmptyTree.lock = << >> /\ EmptyTree.atime = << >>
      /\ EmptyTree.evictable = 0 /\ EmptyTree.protected = 0
  BY DEF EmptyTree
<1>5. Nodes(EmptyTree) = {}
  BY <1>2, <1>4 DEF Nodes
<1>6. IsRecord(EmptyTree)
  BY DEF IsRecord, EmptyTree
<1>7. Meets(K, Nodes(EmptyTree))
  BY <1>5 DEF Meets
<1>8. IsFiniteSet({})
  BY FS_EmptySet
<1>9. Known(EmptyTree) = {}
  BY <1>5 DEF Known
<1>10. IsTree(K, EmptyTree)
  BY <1>3, <1>4, <1>5, <1>6, <1>7, <1>8 DEF IsTree
<1> QED BY <1>5, <1>9, <1>10
=============================================================================
