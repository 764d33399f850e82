------------------------ MODULE OverlapEngineProofs ------------------------
(***************************************************************************)
(* Proofs about OverlapEngine, for any requests, memory and batch size.    *)
(* PinnedInv relates the phase to the queue of records, EngineInv the      *)
(* places, the memory and the batches of the requests; each lemma X-Keeps  *)
(* takes one action through EngineInv.                                     *)
(*                                                                         *)
(* The engine has one pinned buffer for the tokens a forward pass samples. *)
(* That it is never overwritten before its record has been read rests on   *)
(* the order of the phases of step_overlap: the record of the step before  *)
(* is processed in phase 2, 3.5 or 5, and only then is the next copied.    *)
(*                                                                         *)
(* First come lemmas about the operators of OverlapEngine and              *)
(* PrefillBudget: what filtering, retraction and admission return for      *)
(* every batch, and how many pages are held when requests take, return     *)
(* and open some.                                                          *)
(***************************************************************************)
EXTENDS OverlapEngine, FiniteSetTheorems, SequenceTheorems, TLAPS

---------------------------------------------------------------------------
(* Indices and sequences.                                                   *)

\* Every set of numbers has a least element.
LEMMA LeastNat ==
  ASSUME NEW T \in SUBSET Nat, T # {}
  PROVE  \E x \in T : \A y \in T : x <= y
<1>1. PICK x \in T : \A y \in T : ~ (<<y, x>> \in OpToRel(<, Nat))
  BY WFMin, NatLessThanWellFounded
<1>2. ASSUME NEW y \in T PROVE x <= y
  <2>1. y \in Nat /\ x \in Nat
    OBVIOUS
  <2>2. ~(y < x)
    BY <1>1, <2>1 DEF OpToRel
  <2> QED BY <2>1, <2>2
<1> QED BY <1>2

\* Max finds the greatest index of a set.
LEMMA MaxIndex ==
  ASSUME NEW m \in Nat, NEW t \in SUBSET (1..m), t # {}
  PROVE  Max(t) \in t /\ \A y \in t : y <= Max(t)
<1> DEFINE U == {u \in Nat : \A y \in t : y <= u}
<1>1. m \in U
  OBVIOUS
<1>2. PICK u \in U : \A v \in U : u <= v
  <2> HIDE DEF U
  <2>1. U \in SUBSET Nat
    BY DEF U
  <2> QED BY <1>1, <2>1, LeastNat
<1>3. u \in t
  <2>1. SUFFICES ASSUME u \notin t PROVE FALSE
    OBVIOUS
  <2>2. \A y \in t : y \in Int /\ y < u /\ 1 <= y
    BY <2>1
  <2>3. u - 1 \in U
    <3>1. PICK y \in t : TRUE
      OBVIOUS
    <3>2. u - 1 \in Nat
      BY <3>1, <2>2
    <3> QED BY <3>2, <2>2
  <2> QED BY <2>3, <1>2
<1>4. \A y \in t : y \in Int /\ u \in Int /\ u >= y
  OBVIOUS
<1> DEFINE M == CHOOSE x \in t : \A y \in t : x >= y
<1>5. M \in t /\ \A y \in t : M >= y
  BY <1>3, <1>4
<1> HIDE DEF M, U
<1>6. \A y \in t : y <= M
  BY <1>4, <1>5
<1> QED BY <1>5, <1>6 DEF M, Max

\* The greatest of a set of indices, when the last is among them.
LEMMA MaxOfFirst ==
  ASSUME NEW m \in Nat, NEW t \in SUBSET (1..(m + 1)), m + 1 \in t
  PROVE  Max(t) = m + 1 /\ t \ {m + 1} \in SUBSET (1..m)
<1>1. Max(t) \in t /\ \A y \in t : y <= Max(t)
  <2>1. m + 1 \in Nat /\ t # {}
    OBVIOUS
  <2> QED BY <2>1, MaxIndex
<1>2. Max(t) \in 1..(m + 1) /\ m + 1 <= Max(t)
  BY <1>1
<1> QED BY <1>2

\* A set of indices has a greatest one.
LEMMA GreatestIndex ==
  ASSUME NEW n \in Nat, NEW T \in SUBSET (0..n), T # {}
  PROVE  \E x \in T : \A y \in T : y <= x
<1> DEFINE U == {n - x : x \in T}
<1>6. \A x \in T : x \in 0..n
  OBVIOUS
<1>1. U \in SUBSET Nat /\ U # {}
  <2>1. \A x \in T : n - x \in Nat
    BY <1>6
  <2> QED BY <2>1
<1>2. PICK u \in U : \A v \in U : u <= v
  <2> HIDE DEF U
  <2> QED BY <1>1, LeastNat
<1>3. PICK x \in T : u = n - x
  OBVIOUS
<1>4. \A y \in T : n - x <= n - y
  BY <1>2, <1>3
<1>5. \A y \in T : y \in Int /\ x \in Int
  BY <1>6
<1> QED BY <1>4, <1>5

\* Induction over the indices 0..n, for the set of those that have a property.
LEMMA IndexInduction ==
  ASSUME NEW n \in Nat, NEW G, 0 \in G, \A i \in 1..n : i - 1 \in G => i \in G
  PROVE  0..n \subseteq G
<1> DEFINE Bad == (0..n) \ G
<1>1. SUFFICES ASSUME Bad # {} PROVE FALSE
  OBVIOUS
<1>2. PICK x \in Bad : \A y \in Bad : x <= y
  <2>1. Bad \in SUBSET Nat
    OBVIOUS
  <2> HIDE DEF Bad
  <2> QED BY <1>1, <2>1, LeastNat
<1>3. x \in 1..n /\ x - 1 \in 0..n /\ x - 1 < x
  BY <1>2
<1>4. x - 1 \notin Bad
  BY <1>2, <1>3
<1> QED BY <1>2, <1>3, <1>4

\* The length, the domain and the elements of a sequence.
LEMMA Elements ==
  ASSUME NEW S, NEW s \in Seq(S)
  PROVE  Len(s) \in Nat /\ DOMAIN s = 1..Len(s) /\ \A i \in 1..Len(s) : s[i] \in S
OBVIOUS

\* Ranges, and sequences whose elements are all different.
LEMMA RangeAppend ==
  ASSUME NEW S, NEW s \in Seq(S), NEW x \in S
  PROVE  /\ Append(s, x) \in Seq(S) /\ Range(Append(s, x)) = Range(s) \cup {x}
         /\ Range(s) \subseteq S
         /\ IsInjective(s) /\ x \notin Range(s) => IsInjective(Append(s, x))
<1> DEFINE a == Append(s, x)
<1>1. /\ a \in Seq(S) /\ Len(a) = Len(s) + 1 /\ Len(s) \in Nat
      /\ DOMAIN a = 1..(Len(s) + 1) /\ DOMAIN s = 1..Len(s)
      /\ \A i \in 1..Len(s) : a[i] = s[i]
      /\ a[Len(s) + 1] = x
  BY AppendProperties
<1> HIDE DEF a
<1>2. Len(s) + 1 \in DOMAIN a /\ \A i \in DOMAIN a : i \in DOMAIN s \/ i = Len(s) + 1
  BY <1>1
<1>3. Range(a) = Range(s) \cup {x}
  BY <1>1, <1>2 DEF Range
<1>4. ASSUME IsInjective(s), x \notin Range(s) PROVE IsInjective(a)
  BY <1>1, <1>2, <1>4 DEF IsInjective, Range
<1>5. Range(s) \subseteq S
  BY DEF Range
<1> QED BY <1>1, <1>3, <1>4, <1>5 DEF a

\* A sequence behind another.
LEMMA RangeConcat ==
  ASSUME NEW S, NEW s \in Seq(S), NEW t \in Seq(S)
  PROVE  /\ s \o t \in Seq(S) /\ Range(s \o t) = Range(s) \cup Range(t)
         /\ IsInjective(s \o t) <=>
              IsInjective(s) /\ IsInjective(t) /\ Range(s) \cap Range(t) = {}
<1> DEFINE a == s \o t
<1>1. /\ a \in Seq(S) /\ Len(s) \in Nat /\ Len(t) \in Nat
      /\ DOMAIN a = 1..(Len(s) + Len(t)) /\ DOMAIN s = 1..Len(s) /\ DOMAIN t = 1..Len(t)
      /\ \A i \in DOMAIN s : i \in DOMAIN a /\ a[i] = s[i]
      /\ \A i \in DOMAIN t : Len(s) + i \in DOMAIN a /\ a[Len(s) + i] = t[i]
      /\ \A i \in DOMAIN a : i \in DOMAIN s \/ (i - Len(s) \in DOMAIN t /\ Len(s) + (i - Len(s)) = i)
  <2>1. /\ a \in Seq(S) /\ Len(a) = Len(s) + Len(t) /\ Len(s) \in Nat /\ Len(t) \in Nat
        /\ DOMAIN a = 1..Len(a) /\ DOMAIN s = 1..Len(s) /\ DOMAIN t = 1..Len(t)
        /\ \A i \in 1..(Len(s) + Len(t)) : a[i] = IF i <= Len(s) THEN s[i] ELSE t[i - Len(s)]
    BY ConcatProperties
  <2> HIDE DEF a
  <2> QED BY <2>1, SMTT(30)
<1> HIDE DEF a
<1>2. Range(a) = Range(s) \cup Range(t)
  <2>1. ASSUME NEW x \in Range(a) PROVE x \in Range(s) \cup Range(t)
    <3>1. PICK i \in DOMAIN a : x = a[i]
      BY <2>1 DEF Range
    <3> QED BY <3>1, <1>1 DEF Range
  <2>2. Range(s) \subseteq Range(a)
    BY <1>1 DEF Range
  <2>3. Range(t) \subseteq Range(a)
    BY <1>1 DEF Range
  <2> QED BY <2>1, <2>2, <2>3
<1>3. ASSUME IsInjective(a)
      PROVE  IsInjective(s) /\ IsInjective(t) /\ Range(s) \cap Range(t) = {}
  <2>1. IsInjective(s)
    BY <1>1, <1>3 DEF IsInjective
  <2>2. IsInjective(t)
    <3> SUFFICES ASSUME NEW i \in DOMAIN t, NEW j \in DOMAIN t, t[i] = t[j] PROVE i = j
      BY DEF IsInjective
    <3>1. Len(s) + i = Len(s) + j /\ i \in Nat /\ j \in Nat
      BY <1>1, <1>3 DEF IsInjective
    <3> QED BY <3>1, <1>1
  <2>3. ASSUME NEW i \in DOMAIN s, NEW j \in DOMAIN t, s[i] = t[j] PROVE FALSE
    <3>1. i = Len(s) + j /\ i \in 1..Len(s) /\ j \in 1..Len(t)
      BY <1>1, <1>3, <2>3 DEF IsInjective
    <3> QED BY <3>1, <1>1
  <2> QED BY <2>1, <2>2, <2>3 DEF Range
<1>4. ASSUME IsInjective(s), IsInjective(t), Range(s) \cap Range(t) = {},
             NEW i \in DOMAIN a, NEW j \in DOMAIN a, a[i] = a[j]
      PROVE  i = j
  <2> DEFINE x == i - Len(s)
             y == j - Len(s)
  <2>1. /\ i \in DOMAIN s \/ (x \in DOMAIN t /\ Len(s) + x = i)
        /\ j \in DOMAIN s \/ (y \in DOMAIN t /\ Len(s) + y = j)
    BY <1>1
  <2> HIDE DEF x, y
  <2>6. /\ \A k \in DOMAIN s : s[k] \in Range(s) /\ a[k] = s[k]
        /\ \A k \in DOMAIN t : t[k] \in Range(t) /\ a[Len(s) + k] = t[k]
    BY <1>1 DEF Range
  <2>2. CASE i \in DOMAIN s /\ j \in DOMAIN s
    BY <1>1, <1>4, <2>2 DEF IsInjective
  <2>3. CASE i \in DOMAIN s /\ j \notin DOMAIN s
    <3>1. a[i] \in Range(s) /\ a[j] \in Range(t)
      BY <2>1, <2>3, <2>6
    <3> QED BY <1>4, <3>1
  <2>4. CASE i \notin DOMAIN s /\ j \in DOMAIN s
    <3>1. a[j] \in Range(s) /\ a[i] \in Range(t)
      BY <2>1, <2>4, <2>6
    <3> QED BY <1>4, <3>1
  <2>5. CASE i \notin DOMAIN s /\ j \notin DOMAIN s
    BY <1>1, <1>4, <2>1, <2>5 DEF IsInjective
  <2> QED BY <2>2, <2>3, <2>4, <2>5
<1> QED BY <1>1, <1>2, <1>3, <1>4 DEF a, IsInjective

\* A part of a sequence.
LEMMA PartIs ==
  ASSUME NEW S, NEW s \in Seq(S), NEW k \in 0..Len(s)
  PROVE  /\ SubSeq(s, 1, k) \in Seq(S) /\ Len(SubSeq(s, 1, k)) = k
         /\ \A i \in 1..k : SubSeq(s, 1, k)[i] = s[i]
         /\ SubSeq(s, k + 1, Len(s)) \in Seq(S)
         /\ Range(SubSeq(s, 1, k)) \cup Range(SubSeq(s, k + 1, Len(s))) = Range(s)
         /\ IsInjective(s) =>
              /\ IsInjective(SubSeq(s, 1, k)) /\ IsInjective(SubSeq(s, k + 1, Len(s)))
              /\ Range(SubSeq(s, 1, k)) \cap Range(SubSeq(s, k + 1, Len(s))) = {}
<1> DEFINE n == Len(s)
           a == SubSeq(s, 1, k)
           b == SubSeq(s, k + 1, n)
<1>1. n \in Nat /\ k \in Nat /\ k <= n /\ DOMAIN s = 1..n /\ \A i \in 1..n : s[i] \in S
  OBVIOUS
<1>2. /\ a \in Seq(S) /\ Len(a) = k /\ \A i \in 1..k : a[i] = s[i]
  <2>1. \A i \in 1..k : s[i] \in S
    BY <1>1
  <2> HIDE DEF a
  <2>2. /\ a \in Seq(S) /\ Len(a) = (IF 1 <= k THEN k - 1 + 1 ELSE 0)
        /\ \A i \in 1..(k - 1 + 1) : a[i] = s[1 + i - 1]
    BY <1>1, <2>1, SubSeqProperties DEF a
  <2> QED BY <1>1, <2>2
<1>3. /\ b \in Seq(S) /\ Len(b) = n - k /\ \A i \in 1..(n - k) : b[i] = s[k + i]
  <2>1. \A i \in (k + 1)..n : s[i] \in S
    BY <1>1
  <2>2. k + 1 \in Int /\ n \in Int
    BY <1>1
  <2> HIDE DEF b, n
  <2>3. /\ b \in Seq(S) /\ Len(b) = (IF k + 1 <= n THEN n - (k + 1) + 1 ELSE 0)
        /\ \A i \in 1..(n - (k + 1) + 1) : b[i] = s[(k + 1) + i - 1]
    BY <2>1, <2>2, SubSeqProperties DEF b
  <2> QED BY <1>1, <2>3, SMTT(30)
<1>4. DOMAIN a = 1..k /\ DOMAIN b = 1..(n - k)
  BY <1>2, <1>3
<1> HIDE DEF a, b, n
<1>5. Range(a) \cup Range(b) = Range(s)
  <2>1. ASSUME NEW i \in 1..n PROVE s[i] \in Range(a) \cup Range(b)
    <3>1. CASE i <= k
      BY <3>1, <1>1, <1>2, <1>4 DEF Range
    <3>2. CASE ~(i <= k)
      <4>1. i - k \in 1..(n - k) /\ k + (i - k) = i
        BY <3>2, <1>1
      <4> QED BY <4>1, <1>3, <1>4 DEF Range
    <3> QED BY <3>1, <3>2
  <2>2. \A i \in 1..k : i \in 1..n
    BY <1>1
  <2>3. \A i \in 1..(n - k) : k + i \in 1..n
    BY <1>1
  <2>4. ASSUME NEW x \in Range(a) PROVE x \in Range(s)
    BY <1>1, <1>2, <1>4, <2>2 DEF Range
  <2>5. ASSUME NEW x \in Range(b) PROVE x \in Range(s)
    <3>1. PICK i \in 1..(n - k) : x = b[i]
      BY <1>4 DEF Range
    <3>2. x = s[k + i] /\ k + i \in DOMAIN s
      BY <3>1, <1>1, <1>3, <2>3
    <3> QED BY <3>2 DEF Range
  <2>6. \A x \in Range(s) : x \in Range(a) \cup Range(b)
    BY <1>1, <2>1 DEF Range
  <2> QED BY <2>4, <2>5, <2>6
<1>6. ASSUME IsInjective(s)
      PROVE  IsInjective(a) /\ IsInjective(b) /\ Range(a) \cap Range(b) = {}
  <2>1. \A i, j \in 1..n : s[i] = s[j] => i = j
    BY <1>1, <1>6 DEF IsInjective
  <2>2. IsInjective(a)
    BY <2>1, <1>1, <1>2, <1>4 DEF IsInjective
  <2>3. IsInjective(b)
    <3> SUFFICES ASSUME NEW i \in 1..(n - k), NEW j \in 1..(n - k), b[i] = b[j] PROVE i = j
      BY <1>4 DEF IsInjective
    <3>1. k + i \in 1..n /\ k + j \in 1..n
      BY <1>1
    <3>2. k + i = k + j
      BY <3>1, <2>1, <1>3
    <3> QED BY <3>2, <1>1
  <2>4. ASSUME NEW i \in 1..k, NEW j \in 1..(n - k), a[i] = b[j] PROVE FALSE
    <3>1. i \in 1..n /\ k + j \in 1..n
      BY <1>1
    <3>2. i = k + j
      BY <3>1, <2>1, <2>4, <1>2, <1>3
    <3> QED BY <3>2, <1>1
  <2> QED BY <2>2, <2>3, <2>4, <1>4 DEF Range
<1> QED BY <1>2, <1>3, <1>5, <1>6 DEF a, b, n

\* The sequences without repetition that TLC enumerates.
LEMMA Permuted ==
  ASSUME NEW S, IsFiniteSet(S), NEW s \in SetToAllKPermutations(S)
  PROVE  s \in Seq(S) /\ IsInjective(s)
<1>1. PICK X \in SUBSET S : s \in SetToSeqs(X)
  BY DEF SetToAllKPermutations
<1> DEFINE n == Cardinality(X)
<1>2. IsFiniteSet(X) /\ n \in Nat
  BY FS_Subset, FS_CardinalityType
<1>3. s \in [1..n -> X] /\ \A i, j \in 1..n : i # j => s[i] # s[j]
  BY <1>1 DEF SetToSeqs
<1> HIDE DEF n
<1>4. s \in Seq(S)
  BY <1>2, <1>3
<1> QED BY <1>3, <1>4 DEF IsInjective

---------------------------------------------------------------------------
(* Lemmas about the operators.                                              *)


\* How FoldLeft goes along a sequence, for Total.
LEMMA TotalSteps ==
  ASSUME NEW s \in Seq(Nat)
  PROVE  \E g : /\ g[0] = 0
                /\ \A i \in 1..Len(s) : g[i] = g[i - 1] + s[i]
                /\ Total(s) = g[Len(s)]
<1> DEFINE n == Len(s)
           F(m, f) == f = [t \in SUBSET (1..m) |->
                             IF t = {} THEN 0 ELSE f[t \ {Max(t)}] + s[Max(t)]]
           Bad == {m \in 0..n : ~\E f : F(m, f)}
<1>1. n \in Nat /\ DOMAIN s = 1..n
  OBVIOUS
<1>2. F(0, [t \in {{}} |-> 0])
  <2>1. SUBSET (1..0) = {{}}
    OBVIOUS
  <2> QED BY <2>1
<1>3. ASSUME NEW m \in Nat, NEW f, F(m, f)
      PROVE  \E h : F(m + 1, h)
  <2> DEFINE h == [t \in SUBSET (1..(m + 1)) |->
                     IF m + 1 \in t THEN f[t \ {m + 1}] + s[m + 1] ELSE f[t]]
  <2>1. ASSUME NEW t \in SUBSET (1..(m + 1))
        PROVE  h[t] = IF t = {} THEN 0 ELSE h[t \ {Max(t)}] + s[Max(t)]
    <3>1. CASE m + 1 \in t
      <4>1. Max(t) = m + 1 /\ t \ {m + 1} \in SUBSET (1..m) /\ t \ {m + 1} \in SUBSET (1..(m + 1))
        BY <3>1, MaxOfFirst
      <4>2. h[t \ {m + 1}] = f[t \ {m + 1}]
        BY <4>1
      <4> QED BY <4>1, <4>2, <3>1
    <3>2. CASE m + 1 \notin t
      <4>1. t \in SUBSET (1..m)
        BY <3>2
      <4>2. h[t] = f[t] /\ f[t] = IF t = {} THEN 0 ELSE f[t \ {Max(t)}] + s[Max(t)]
        BY <4>1, <3>2, <1>3
      <4> DEFINE u == t \ {Max(t)}
      <4>3. u \in SUBSET (1..m) /\ u \in SUBSET (1..(m + 1)) /\ m + 1 \notin u
        BY <4>1, <3>2
      <4> HIDE DEF u
      <4>4. h[u] = f[u]
        BY <4>3
      <4> QED BY <4>2, <4>4 DEF u
    <3> QED BY <3>1, <3>2
  <2> HIDE DEF h
  <2>2. F(m + 1, h)
    <3>1. h = [t \in SUBSET (1..(m + 1)) |-> h[t]]
      BY DEF h
    <3> QED BY <2>1, <3>1
  <2> QED BY <2>2
<1>4. Bad = {}
  <2> HIDE DEF F
  <2>1. SUFFICES ASSUME Bad # {} PROVE FALSE
    OBVIOUS
  <2>2. PICK x \in Bad : \A y \in Bad : x <= y
    <3>1. Bad \in SUBSET Nat
      BY <1>1
    <3> HIDE DEF Bad
    <3> QED BY <2>1, <3>1, LeastNat
  <2>3. x # 0 /\ x \in 1..n
    BY <1>2, <2>2, <1>1
  <2>4. x - 1 \in 0..n /\ x - 1 \notin Bad /\ x - 1 \in Nat
    BY <2>2, <2>3, <1>1
  <2>5. PICK f : F(x - 1, f)
    BY <2>4
  <2>6. \E h : F((x - 1) + 1, h)
    BY <2>4, <2>5, <1>3
  <2> QED BY <2>2, <2>3, <2>6
<1> DEFINE iter == CHOOSE f : F(n, f)
<1>5. F(n, iter)
  <2> HIDE DEF F
  <2>1. \E f : F(n, f)
    BY <1>1, <1>4
  <2> QED BY <2>1
<1>6. Total(s) = iter[1..n]
  BY <1>1 DEF Total, FoldLeft, MapThenFoldSet
<1> HIDE DEF iter
<1> DEFINE g == [i \in 0..n |-> iter[1..i]]
<1>7. ASSUME NEW i \in 1..n PROVE g[i] = g[i - 1] + s[i]
  <2>1. i - 1 \in Nat /\ (i - 1) + 1 = i /\ 1..i \in SUBSET (1..n) /\ 1..i # {}
    <3>1. n \in Nat /\ i \in Nat /\ 1 <= i /\ i <= n
      BY <1>1
    <3> HIDE DEF n
    <3>2. i - 1 \in Nat /\ (i - 1) + 1 = i /\ i \in 1..i
      BY <3>1
    <3>3. \A k \in 1..i : k \in 1..n
      BY <3>1
    <3> QED BY <3>2, <3>3
  <2>2. Max(1..i) = i
    <3>1. i - 1 \in Nat /\ 1..i \in SUBSET (1..((i - 1) + 1)) /\ (i - 1) + 1 \in 1..i
      BY <2>1
    <3>2. Max(1..i) = (i - 1) + 1
      BY <3>1, MaxOfFirst
    <3> QED BY <3>2, <2>1
  <2>3. (1..i) \ {i} = 1..(i - 1)
    BY <2>1
  <2>4. iter[1..i] = iter[(1..i) \ {Max(1..i)}] + s[Max(1..i)]
    BY <1>5, <2>1
  <2>5. g[i] = iter[1..i] /\ g[i - 1] = iter[1..(i - 1)]
    BY <2>1
  <2> HIDE DEF g, F
  <2> QED BY <2>2, <2>3, <2>4, <2>5
<1>8. g[0] = 0
  <2>1. 1..0 = {} /\ {} \in SUBSET (1..n)
    OBVIOUS
  <2> QED BY <1>5, <2>1
<1>9. g[n] = Total(s)
  BY <1>6, <1>1
<1> HIDE DEF g
<1> QED BY <1>7, <1>8, <1>9

\* How FoldLeft goes along a sequence, for Among.
LEMMA AmongSteps ==
  ASSUME NEW S, NEW s \in Seq(S), NEW X
  PROVE  \E g : /\ g[0] = << >>
                /\ \A i \in 1..Len(s) : g[i] = (IF s[i] \in X THEN Append(g[i - 1], s[i]) ELSE g[i - 1])
                /\ Among(s, X) = g[Len(s)]
<1> DEFINE n == Len(s)
           F(m, f) == f = [t \in SUBSET (1..m) |->
                             IF t = {} THEN << >> ELSE (IF s[Max(t)] \in X THEN Append(f[t \ {Max(t)}], s[Max(t)]) ELSE f[t \ {Max(t)}])]
           Bad == {m \in 0..n : ~\E f : F(m, f)}
<1>1. n \in Nat /\ DOMAIN s = 1..n
  OBVIOUS
<1>2. F(0, [t \in {{}} |-> << >>])
  <2>1. SUBSET (1..0) = {{}}
    OBVIOUS
  <2> QED BY <2>1
<1>3. ASSUME NEW m \in Nat, NEW f, F(m, f)
      PROVE  \E h : F(m + 1, h)
  <2> DEFINE h == [t \in SUBSET (1..(m + 1)) |->
                     IF m + 1 \in t THEN (IF s[m + 1] \in X THEN Append(f[t \ {m + 1}], s[m + 1]) ELSE f[t \ {m + 1}]) ELSE f[t]]
  <2>1. ASSUME NEW t \in SUBSET (1..(m + 1))
        PROVE  h[t] = IF t = {} THEN << >> ELSE (IF s[Max(t)] \in X THEN Append(h[t \ {Max(t)}], s[Max(t)]) ELSE h[t \ {Max(t)}])
    <3>1. CASE m + 1 \in t
      <4>1. Max(t) = m + 1 /\ t \ {m + 1} \in SUBSET (1..m) /\ t \ {m + 1} \in SUBSET (1..(m + 1))
        BY <3>1, MaxOfFirst
      <4>2. h[t \ {m + 1}] = f[t \ {m + 1}]
        BY <4>1
      <4> QED BY <4>1, <4>2, <3>1
    <3>2. CASE m + 1 \notin t
      <4>1. t \in SUBSET (1..m)
        BY <3>2
      <4>2. h[t] = f[t] /\ f[t] = IF t = {} THEN << >> ELSE (IF s[Max(t)] \in X THEN Append(f[t \ {Max(t)}], s[Max(t)]) ELSE f[t \ {Max(t)}])
        BY <4>1, <3>2, <1>3
      <4> DEFINE u == t \ {Max(t)}
      <4>3. u \in SUBSET (1..m) /\ u \in SUBSET (1..(m + 1)) /\ m + 1 \notin u
        BY <4>1, <3>2
      <4> HIDE DEF u
      <4>4. h[u] = f[u]
        BY <4>3
      <4> QED BY <4>2, <4>4 DEF u
    <3> QED BY <3>1, <3>2
  <2> HIDE DEF h
  <2>2. F(m + 1, h)
    <3>1. h = [t \in SUBSET (1..(m + 1)) |-> h[t]]
      BY DEF h
    <3> QED BY <2>1, <3>1
  <2> QED BY <2>2
<1>4. Bad = {}
  <2> HIDE DEF F
  <2>1. SUFFICES ASSUME Bad # {} PROVE FALSE
    OBVIOUS
  <2>2. PICK x \in Bad : \A y \in Bad : x <= y
    <3>1. Bad \in SUBSET Nat
      BY <1>1
    <3> HIDE DEF Bad
    <3> QED BY <2>1, <3>1, LeastNat
  <2>3. x # 0 /\ x \in 1..n
    BY <1>2, <2>2, <1>1
  <2>4. x - 1 \in 0..n /\ x - 1 \notin Bad /\ x - 1 \in Nat
    BY <2>2, <2>3, <1>1
  <2>5. PICK f : F(x - 1, f)
    BY <2>4
  <2>6. \E h : F((x - 1) + 1, h)
    BY <2>4, <2>5, <1>3
  <2> QED BY <2>2, <2>3, <2>6
<1> DEFINE iter == CHOOSE f : F(n, f)
<1>5. F(n, iter)
  <2> HIDE DEF F
  <2>1. \E f : F(n, f)
    BY <1>1, <1>4
  <2> QED BY <2>1
<1>6. Among(s, X) = iter[1..n]
  BY <1>1 DEF Among, FoldLeft, MapThenFoldSet
<1> HIDE DEF iter
<1> DEFINE g == [i \in 0..n |-> iter[1..i]]
<1>7. ASSUME NEW i \in 1..n PROVE g[i] = (IF s[i] \in X THEN Append(g[i - 1], s[i]) ELSE g[i - 1])
  <2>1. i - 1 \in Nat /\ (i - 1) + 1 = i /\ 1..i \in SUBSET (1..n) /\ 1..i # {}
    <3>1. n \in Nat /\ i \in Nat /\ 1 <= i /\ i <= n
      BY <1>1
    <3> HIDE DEF n
    <3>2. i - 1 \in Nat /\ (i - 1) + 1 = i /\ i \in 1..i
      BY <3>1
    <3>3. \A k \in 1..i : k \in 1..n
      BY <3>1
    <3> QED BY <3>2, <3>3
  <2>2. Max(1..i) = i
    <3>1. i - 1 \in Nat /\ 1..i \in SUBSET (1..((i - 1) + 1)) /\ (i - 1) + 1 \in 1..i
      BY <2>1
    <3>2. Max(1..i) = (i - 1) + 1
      BY <3>1, MaxOfFirst
    <3> QED BY <3>2, <2>1
  <2>3. (1..i) \ {i} = 1..(i - 1)
    BY <2>1
  <2>4. iter[1..i] = (IF s[Max(1..i)] \in X THEN Append(iter[(1..i) \ {Max(1..i)}], s[Max(1..i)]) ELSE iter[(1..i) \ {Max(1..i)}])
    BY <1>5, <2>1
  <2>5. g[i] = iter[1..i] /\ g[i - 1] = iter[1..(i - 1)]
    BY <2>1
  <2> HIDE DEF g, F
  <2> QED BY <2>2, <2>3, <2>4, <2>5
<1>8. g[0] = << >>
  <2>1. 1..0 = {} /\ {} \in SUBSET (1..n)
    OBVIOUS
  <2> QED BY <1>5, <2>1
<1>9. g[n] = Among(s, X)
  BY <1>6, <1>1
<1> HIDE DEF g
<1> QED BY <1>7, <1>8, <1>9

\* How FoldLeft goes along a sequence, for Admit.
LEMMA AdmitSteps ==
  ASSUME NEW S, NEW s \in Seq(S), NEW available, NEW reserved, NEW slots
  PROVE  \E g : /\ g[0] = NewAdder(reserved)
                /\ \A i \in 1..Len(s) : g[i] = Consider(g[i - 1], s[i], available, slots)
                /\ Admit(s, available, reserved, slots) = g[Len(s)]
<1> DEFINE n == Len(s)
           F(m, f) == f = [t \in SUBSET (1..m) |->
                             IF t = {} THEN NewAdder(reserved) ELSE Consider(f[t \ {Max(t)}], s[Max(t)], available, slots)]
           Bad == {m \in 0..n : ~\E f : F(m, f)}
<1>1. n \in Nat /\ DOMAIN s = 1..n
  OBVIOUS
<1>2. F(0, [t \in {{}} |-> NewAdder(reserved)])
  <2>1. SUBSET (1..0) = {{}}
    OBVIOUS
  <2> QED BY <2>1
<1>3. ASSUME NEW m \in Nat, NEW f, F(m, f)
      PROVE  \E h : F(m + 1, h)
  <2> DEFINE h == [t \in SUBSET (1..(m + 1)) |->
                     IF m + 1 \in t THEN Consider(f[t \ {m + 1}], s[m + 1], available, slots) ELSE f[t]]
  <2>1. ASSUME NEW t \in SUBSET (1..(m + 1))
        PROVE  h[t] = IF t = {} THEN NewAdder(reserved) ELSE Consider(h[t \ {Max(t)}], s[Max(t)], available, slots)
    <3>1. CASE m + 1 \in t
      <4>1. Max(t) = m + 1 /\ t \ {m + 1} \in SUBSET (1..m) /\ t \ {m + 1} \in SUBSET (1..(m + 1))
        BY <3>1, MaxOfFirst
      <4>2. h[t \ {m + 1}] = f[t \ {m + 1}]
        BY <4>1
      <4> QED BY <4>1, <4>2, <3>1
    <3>2. CASE m + 1 \notin t
      <4>1. t \in SUBSET (1..m)
        BY <3>2
      <4>2. h[t] = f[t] /\ f[t] = IF t = {} THEN NewAdder(reserved) ELSE Consider(f[t \ {Max(t)}], s[Max(t)], available, slots)
        BY <4>1, <3>2, <1>3
      <4> DEFINE u == t \ {Max(t)}
      <4>3. u \in SUBSET (1..m) /\ u \in SUBSET (1..(m + 1)) /\ m + 1 \notin u
        BY <4>1, <3>2
      <4> HIDE DEF u
      <4>4. h[u] = f[u]
        BY <4>3
      <4> QED BY <4>2, <4>4 DEF u
    <3> QED BY <3>1, <3>2
  <2> HIDE DEF h
  <2>2. F(m + 1, h)
    <3>1. h = [t \in SUBSET (1..(m + 1)) |-> h[t]]
      BY DEF h
    <3> QED BY <2>1, <3>1
  <2> QED BY <2>2
<1>4. Bad = {}
  <2> HIDE DEF F
  <2>1. SUFFICES ASSUME Bad # {} PROVE FALSE
    OBVIOUS
  <2>2. PICK x \in Bad : \A y \in Bad : x <= y
    <3>1. Bad \in SUBSET Nat
      BY <1>1
    <3> HIDE DEF Bad
    <3> QED BY <2>1, <3>1, LeastNat
  <2>3. x # 0 /\ x \in 1..n
    BY <1>2, <2>2, <1>1
  <2>4. x - 1 \in 0..n /\ x - 1 \notin Bad /\ x - 1 \in Nat
    BY <2>2, <2>3, <1>1
  <2>5. PICK f : F(x - 1, f)
    BY <2>4
  <2>6. \E h : F((x - 1) + 1, h)
    BY <2>4, <2>5, <1>3
  <2> QED BY <2>2, <2>3, <2>6
<1> DEFINE iter == CHOOSE f : F(n, f)
<1>5. F(n, iter)
  <2> HIDE DEF F
  <2>1. \E f : F(n, f)
    BY <1>1, <1>4
  <2> QED BY <2>1
<1>6. Admit(s, available, reserved, slots) = iter[1..n]
  BY <1>1 DEF Admit, FoldLeft, MapThenFoldSet
<1> HIDE DEF iter
<1> DEFINE g == [i \in 0..n |-> iter[1..i]]
<1>7. ASSUME NEW i \in 1..n PROVE g[i] = Consider(g[i - 1], s[i], available, slots)
  <2>1. i - 1 \in Nat /\ (i - 1) + 1 = i /\ 1..i \in SUBSET (1..n) /\ 1..i # {}
    <3>1. n \in Nat /\ i \in Nat /\ 1 <= i /\ i <= n
      BY <1>1
    <3> HIDE DEF n
    <3>2. i - 1 \in Nat /\ (i - 1) + 1 = i /\ i \in 1..i
      BY <3>1
    <3>3. \A k \in 1..i : k \in 1..n
      BY <3>1
    <3> QED BY <3>2, <3>3
  <2>2. Max(1..i) = i
    <3>1. i - 1 \in Nat /\ 1..i \in SUBSET (1..((i - 1) + 1)) /\ (i - 1) + 1 \in 1..i
      BY <2>1
    <3>2. Max(1..i) = (i - 1) + 1
      BY <3>1, MaxOfFirst
    <3> QED BY <3>2, <2>1
  <2>3. (1..i) \ {i} = 1..(i - 1)
    BY <2>1
  <2>4. iter[1..i] = Consider(iter[(1..i) \ {Max(1..i)}], s[Max(1..i)], available, slots)
    BY <1>5, <2>1
  <2>5. g[i] = iter[1..i] /\ g[i - 1] = iter[1..(i - 1)]
    BY <2>1
  <2> HIDE DEF g, F
  <2> QED BY <2>2, <2>3, <2>4, <2>5
<1>8. g[0] = NewAdder(reserved)
  <2>1. 1..0 = {} /\ {} \in SUBSET (1..n)
    OBVIOUS
  <2> QED BY <1>5, <2>1
<1>9. g[n] = Admit(s, available, reserved, slots)
  BY <1>6, <1>1
<1> HIDE DEF g
<1> QED BY <1>7, <1>8, <1>9

\* What Among keeps.
LEMMA AmongIs ==
  ASSUME NEW S, NEW s \in Seq(S), NEW X
  PROVE  /\ Among(s, X) \in Seq(S) /\ Range(Among(s, X)) = Range(s) \cap X
         /\ IsInjective(s) => IsInjective(Among(s, X))
<1>1. PICK g : /\ g[0] = << >>
               /\ \A i \in 1..Len(s) :
                    g[i] = (IF s[i] \in X THEN Append(g[i - 1], s[i]) ELSE g[i - 1])
               /\ Among(s, X) = g[Len(s)]
  BY AmongSteps
<1> DEFINE n == Len(s)
           P(i) == /\ g[i] \in Seq(S) /\ Range(g[i]) = {s[k] : k \in 1..i} \cap X
                   /\ IsInjective(s) => IsInjective(g[i])
           G == {i \in 0..n : P(i)}
<1>2. n \in Nat /\ DOMAIN s = 1..n /\ \A i \in 1..n : s[i] \in S
  OBVIOUS
<1>3. 0 \in G
  <2>1. << >> \in Seq(S) /\ Range(<< >>) = {} /\ IsInjective(<< >>)
    BY DEF Range, IsInjective
  <2>2. {s[k] : k \in 1..0} = {}
    OBVIOUS
  <2>3. P(0)
    BY <1>1, <2>1, <2>2
  <2>4. 0 \in 0..n
    BY <1>2
  <2> QED BY <2>3, <2>4
<1>4. ASSUME NEW i \in 1..n, i - 1 \in G PROVE i \in G
  <2>1. i \in 0..n /\ {s[k] : k \in 1..i} = {s[k] : k \in 1..(i - 1)} \cup {s[i]}
    <3>1. \A k \in 1..i : k \in 1..(i - 1) \/ k = i
      BY <1>2
    <3>2. \A k \in 1..(i - 1) : k \in 1..i
      BY <1>2
    <3>3. i \in 1..i /\ i \in 0..n
      BY <1>2
    <3> QED BY <3>1, <3>2, <3>3
  <2>2. IsInjective(s) => s[i] \notin {s[k] : k \in 1..(i - 1)}
    <3>1. \A k \in 1..(i - 1) : k \in DOMAIN s /\ k # i
      BY <1>2
    <3> QED BY <3>1, <1>2 DEF IsInjective
  <2>3. P(i - 1) /\ s[i] \in S
    BY <1>2, <1>4
  <2>4. CASE s[i] \in X
    <3>1. g[i] = Append(g[i - 1], s[i])
      BY <1>1, <2>4
    <3>2. /\ g[i] \in Seq(S) /\ Range(g[i]) = Range(g[i - 1]) \cup {s[i]}
          /\ IsInjective(g[i - 1]) /\ s[i] \notin Range(g[i - 1]) => IsInjective(g[i])
      BY <3>1, <2>3, RangeAppend
    <3>3. Range(g[i]) = {s[k] : k \in 1..i} \cap X
      BY <3>2, <2>1, <2>3, <2>4
    <3>4. IsInjective(s) => IsInjective(g[i])
      BY <3>2, <2>2, <2>3
    <3> QED BY <3>2, <3>3, <3>4, <2>1
  <2>5. CASE s[i] \notin X
    <3>1. g[i] = g[i - 1]
      BY <1>1, <2>5
    <3> QED BY <3>1, <2>1, <2>3, <2>5
  <2> QED BY <2>4, <2>5
<1>5. n \in G
  <2> HIDE DEF G
  <2>1. 0..n \subseteq G
    BY <1>2, <1>3, <1>4, IndexInduction
  <2> QED BY <2>1, <1>2
<1>6. {s[k] : k \in 1..n} = Range(s)
  BY <1>2 DEF Range
<1> QED BY <1>1, <1>5, <1>6

---------------------------------------------------------------------------
\* What is in a set of pages.
LEMMA InPages ==
  ASSUME NEW S, NEW n
  PROVE  /\ \A p \in PagesOf(S, n) :
              p = <<p[1], p[2]>> /\ p[1] \in S /\ p[2] \in 1..n[p[1]]
         /\ \A r \in S : \A i \in 1..n[r] :
              <<r, i>> \in PagesOf(S, n) /\ <<r, i>>[1] = r /\ <<r, i>>[2] = i
BY DEF PagesOf

\* Requests with the same numbers of pages have the same pages.
LEMMA SamePages ==
  ASSUME NEW S, NEW n, NEW m, \A r \in S : n[r] = m[r]
  PROVE  PagesOf(S, n) = PagesOf(S, m)
BY DEF PagesOf

\* One request more, with its k pages.
LEMMA OneMore ==
  ASSUME NEW S, NEW n, NEW r, r \notin S, n[r] \in Nat, IsFiniteSet(PagesOf(S, n))
  PROVE  /\ IsFiniteSet(PagesOf(S \cup {r}, n))
         /\ Cardinality(PagesOf(S \cup {r}, n)) = Cardinality(PagesOf(S, n)) + n[r]
<1> DEFINE A == PagesOf(S, n)
           B == {r} \X (1..n[r])
<1>1. IsFiniteSet(B) /\ Cardinality(B) = n[r]
  <2>1. IsFiniteSet({r}) /\ Cardinality({r}) = 1
    BY FS_Singleton
  <2>2. IsFiniteSet(1..n[r]) /\ Cardinality(1..n[r]) = n[r]
    BY FS_Interval
  <2>3. IsFiniteSet(B) /\ Cardinality(B) = 1 * n[r]
    <3> DEFINE E == {r}
               F == 1..n[r]
    <3>1. /\ IsFiniteSet(E) /\ Cardinality(E) = 1 /\ IsFiniteSet(F) /\ Cardinality(F) = n[r]
          /\ B = E \X F
      BY <2>1, <2>2
    <3> HIDE DEF E, F, B
    <3>2. IsFiniteSet(E \X F) /\ Cardinality(E \X F) = Cardinality(E) * Cardinality(F)
      BY ONLY <3>1, FS_Product
    <3> QED BY ONLY <3>1, <3>2
  <2> QED BY <2>3
<1>2. A \cap B = {}
  BY DEF PagesOf
<1>3. PagesOf(S \cup {r}, n) = A \cup B
  BY DEF PagesOf
<1>4. Cardinality({}) = 0 /\ Cardinality(A) \in Nat
  BY FS_EmptySet, FS_CardinalityType
<1> HIDE DEF A, B
<1>5. IsFiniteSet(A \cup B) /\ Cardinality(A \cup B) = Cardinality(A) + Cardinality(B) - Cardinality(A \cap B)
  BY <1>1, FS_Union DEF A
<1>6. Cardinality(A \cup B) = Cardinality(A) + n[r]
  <2>1. Cardinality(A \cap B) = 0
    BY <1>2, <1>4
  <2> QED BY <1>1, <1>4, <1>5, <2>1
<1> QED BY <1>3, <1>5, <1>6 DEF A

---------------------------------------------------------------------------
\* The pages of the prompts.
CeilOf == [r \in Requests |-> PromptPages(r)]

\* Division by the page size.
LEMMA PageDiv ==
  ASSUME NEW a \in Int
  PROVE  /\ a \div PageSize \in Int
         /\ a % PageSize \in 0..(PageSize - 1)
         /\ a = PageSize * (a \div PageSize) + (a % PageSize)
BY EngineAssumption DEF EngineAssumption

\* Whole pages, in tokens.
LEMMA PageMul ==
  ASSUME NEW a \in Int, NEW b \in Int
  PROVE  /\ PageSize * a \in Int /\ PageSize * b \in Int
         /\ a < b => PageSize * a + PageSize <= PageSize * b
         /\ PageSize * (a + b) = PageSize * a + PageSize * b
<1>1. PageSize \in Nat /\ PageSize * (a + 1) = PageSize * a + PageSize
  BY EngineAssumption DEF EngineAssumption
<1>2. \A c \in Nat : PageSize * c >= 0
  BY <1>1
<1>3. PageSize * (b - (a + 1)) = PageSize * b - PageSize * (a + 1)
  BY <1>1
<1>4. PageSize * a \in Int /\ PageSize * b \in Int /\ PageSize * (a + 1) \in Int
  BY <1>1
<1>5. PageSize * (a + b) = PageSize * a + PageSize * b
  BY <1>1
<1>6. ASSUME a < b PROVE PageSize * a + PageSize <= PageSize * b
  <2>1. b - (a + 1) \in Nat
    BY <1>6
  <2>2. PageSize * (b - (a + 1)) >= 0
    BY <1>2, <2>1
  <2> QED BY <1>1, <1>3, <1>4, <2>2
<1> QED BY <1>4, <1>5, <1>6

\* The pages of a prompt are as many as its tokens need, and one at least.
LEMMA PromptPagesIs ==
  ASSUME NEW r \in Requests
  PROVE  /\ PromptPages(r) \in Nat \ {0} /\ PromptLen[r] \in Nat \ {0}
         /\ AlignUp(PromptLen[r]) = PageSize * PromptPages(r)
         /\ PageSize * PromptPages(r) < PromptLen[r] + PageSize
<1> DEFINE n == PromptLen[r]
           q == PromptPages(r)
           a == n + PageSize - 1
           m == a % PageSize
<1>1. PageSize \in Nat \ {0} /\ n \in Nat \ {0} /\ a \in Int /\ a >= PageSize
  BY EngineAssumption DEF EngineAssumption
<1>2. q \in Int /\ m \in 0..(PageSize - 1) /\ a = PageSize * q + m
  BY <1>1, PageDiv DEF PromptPages, CeilPages
<1>3. AlignUp(n) = PageSize * q
  BY <1>1, <1>2 DEF AlignUp, PromptPages
<1> HIDE DEF q, m
<1>4. PageSize * q \in Int /\ PageSize * 0 = 0
  BY <1>1, <1>2, PageMul
<1>5. PageSize * q < n + PageSize
  BY <1>1, <1>2, <1>4
<1>6. ~(q < 1)
  <2> SUFFICES ASSUME q < 1 PROVE FALSE
    OBVIOUS
  <2>1. PageSize * q + PageSize <= PageSize * 1 /\ PageSize * 1 = PageSize
    BY <1>1, <1>2, PageMul
  <2> QED BY <1>1, <1>2, <1>4, <2>1
<1>7. q \in Nat \ {0}
  BY <1>2, <1>6
<1> QED BY <1>1, <1>3, <1>5, <1>7 DEF q

\* The clipping of what a request may still generate.
LEMMA ClippedIs ==
  ASSUME NEW n \in Nat
  PROVE  Clipped(n) \in Nat
BY DEF Clipped, ClipMaxNewTokens

\* The prompts S take so many pages.
PagesFor(S) == Cardinality(PagesOf(S, CeilOf))

\* A prompt more.
LEMMA MorePrompts ==
  ASSUME NEW S, NEW r \in Requests, r \notin S, IsFiniteSet(PagesOf(S, CeilOf))
  PROVE  /\ IsFiniteSet(PagesOf(S \cup {r}, CeilOf))
         /\ PagesFor(S \cup {r}) = PagesFor(S) + PromptPages(r) /\ PagesFor(S) \in Nat
<1>1. CeilOf[r] = PromptPages(r) /\ CeilOf[r] \in Nat
  BY PromptPagesIs DEF CeilOf
<1>2. Cardinality(PagesOf(S, CeilOf)) \in Nat
  BY FS_CardinalityType
<1>3. /\ IsFiniteSet(PagesOf(S \cup {r}, CeilOf))
      /\ Cardinality(PagesOf(S \cup {r}, CeilOf)) = Cardinality(PagesOf(S, CeilOf)) + CeilOf[r]
  BY <1>1, OneMore
<1> QED BY <1>1, <1>2, <1>3 DEF PagesFor

\* The adders of an admission.
Adders == [total : Nat, cur : Nat, input : Nat, taken : Seq(Requests), rest : Seq(Requests),
           closed : BOOLEAN]

\* What the adder has taken fits into the memory there is.
AdderFits(a, available) ==
  /\ a \in Adders /\ a.cur <= a.total /\ a.cur <= available
  /\ IsFiniteSet(PagesOf(Range(a.taken), CeilOf))
  /\ a.cur = PageSize * PagesFor(Range(a.taken))

\* A memory of whole pages.
WholePages(available) == \E pages \in Nat : available = PageSize * pages

\* The adder b is a with r taken or left.
Decides(a, r, b) ==
  \/ b.taken = a.taken /\ b.rest = Append(a.rest, r)
  \/ b.taken = Append(a.taken, r) /\ b.rest = a.rest

\* Considering one more request keeps what is admitted within memory.
LEMMA ConsiderFits ==
  ASSUME NEW a, NEW available, WholePages(available), NEW slots, AdderFits(a, available),
         NEW r \in Requests, r \notin Range(a.taken),
         NEW b, b = Consider(a, r, available, slots)
  PROVE  AdderFits(b, available) /\ Decides(a, r, b)
<1> DEFINE al == AlignUp(PromptLen[r])
           pp == PromptPages(r)
           mt == Clipped(MaxTokens[r])
           n  == PromptLen[r]
<1>1. /\ pp \in Nat \ {0} /\ n \in Nat \ {0} /\ al = PageSize * pp
      /\ PageSize * pp < n + PageSize
  BY PromptPagesIs
<1> PICK pages \in Nat : available = PageSize * pages
  BY DEF WholePages
<1>2. mt \in Nat /\ PageSize \in Nat /\ MaxExtendLen \in Nat /\ available \in Nat
  BY ClippedIs, EngineAssumption DEF EngineAssumption
<1>3. al \in Nat
  BY <1>1, <1>2
<1>4. /\ a \in Adders /\ a.cur <= a.total /\ a.cur <= available
      /\ a.total \in Nat /\ a.cur \in Nat /\ a.input \in Nat
      /\ a.taken \in Seq(Requests) /\ a.rest \in Seq(Requests) /\ a.closed \in BOOLEAN
      /\ IsFiniteSet(PagesOf(Range(a.taken), CeilOf))
      /\ a.cur = PageSize * PagesFor(Range(a.taken))
  BY DEF AdderFits, Adders
<1>5. /\ Append(a.rest, r) \in Seq(Requests) /\ Append(a.taken, r) \in Seq(Requests)
      /\ Range(Append(a.taken, r)) = Range(a.taken) \cup {r}
  BY <1>4, RangeAppend
<1> DEFINE rest  == Append(a.rest, r)
           taken == Append(a.taken, r)
<1> HIDE DEF al, pp, mt, n
<1>6. ASSUME b = Skip(a, r) \/ b = [Skip(a, r) EXCEPT !.closed = TRUE]
      PROVE  AdderFits(b, available) /\ b.taken = a.taken /\ b.rest = rest
  <2> HIDE DEF rest, taken
  <2>1. Skip(a, r) = [a EXCEPT !.rest = rest]
    BY DEF Skip, rest
  <2>2. /\ b \in Adders /\ b.total = a.total /\ b.cur = a.cur /\ b.taken = a.taken
        /\ b.rest = rest
    <3>1. rest \in Seq(Requests)
      BY <1>5 DEF rest
    <3>2. b = [a EXCEPT !.rest = rest] \/ b = [a EXCEPT !.rest = rest, !.closed = TRUE]
      BY <1>6, <2>1, <1>4 DEF Adders
    <3>3. a \in Adders
      BY <1>4
    <3> QED BY ONLY <3>1, <3>2, <3>3 DEF Adders
  <2> QED BY <2>2, <1>4 DEF AdderFits
<1>7. ASSUME b = Take(a, r), n + mt <= available - a.total
      PROVE  AdderFits(b, available) /\ b.taken = taken /\ b.rest = a.rest
  <2> HIDE DEF rest, taken
  <2>1. b = [a EXCEPT !.total = a.total + al + mt, !.cur = a.cur + al, !.input = a.input + al,
                      !.taken = taken]
    BY <1>7 DEF Take, al, mt, taken
  <2>2. /\ a.total + al + mt \in Nat /\ a.cur + al \in Nat /\ a.input + al \in Nat
        /\ taken \in Seq(Requests)
    BY <1>2, <1>3, <1>4, <1>5, SMTT(30) DEF taken
  <2>3. /\ b \in Adders /\ b.total = a.total + al + mt /\ b.cur = a.cur + al
        /\ b.taken = taken /\ b.rest = a.rest
    BY <1>4, <2>1, <2>2 DEF Adders
  <2>4. /\ IsFiniteSet(PagesOf(Range(taken), CeilOf))
        /\ PagesFor(Range(taken)) = PagesFor(Range(a.taken)) + pp
        /\ PagesFor(Range(a.taken)) \in Nat
    BY <1>4, <1>5, MorePrompts DEF pp, taken
  <2> DEFINE q == PagesFor(Range(a.taken))
  <2>5. b.cur = PageSize * (q + pp) /\ q + pp \in Nat
    <3>1. q \in Nat /\ pp \in Nat /\ b.cur = a.cur + al /\ a.cur = PageSize * q /\ al = PageSize * pp
      BY <1>1, <1>4, <2>3, <2>4
    <3> HIDE DEF q
    <3>2. PageSize * (q + pp) = PageSize * q + PageSize * pp
      BY <3>1, PageMul
    <3> QED BY <3>1, <3>2
  <2>6. b.cur <= available
    <3>1. SUFFICES ASSUME pages < q + pp PROVE FALSE
      <4>1. ~(pages < q + pp) => pages = q + pp \/ q + pp < pages
        BY <2>5
      <4>2. q + pp < pages => PageSize * (q + pp) + PageSize <= PageSize * pages
        BY <2>5, PageMul
      <4>3. PageSize * (q + pp) \in Int
        BY <2>5, PageMul
      <4> HIDE DEF q
      <4> QED BY <4>1, <4>2, <4>3, <2>5, <1>2
    <3>2. PageSize * pages + PageSize <= PageSize * (q + pp)
      BY <3>1, <2>5, PageMul
    <3>3. available + PageSize <= a.cur + al
      BY <3>2, <2>3, <2>5
    <3>4. n <= available - a.cur
      BY <1>1, <1>2, <1>4, <1>7
    <3> QED BY <1>1, <1>2, <1>3, <1>4, <3>3, <3>4
  <2>7. b.cur <= b.total
    BY <2>3, <1>2, <1>3, <1>4
  <2> HIDE DEF q
  <2>8. b.cur = PageSize * PagesFor(Range(b.taken)) /\ IsFiniteSet(PagesOf(Range(b.taken), CeilOf))
    BY <2>3, <2>4, <2>5 DEF q
  <2> QED BY <2>3, <2>6, <2>7, <2>8 DEF AdderFits
<1>8. \/ b = Skip(a, r) \/ b = [Skip(a, r) EXCEPT !.closed = TRUE]
      \/ b = Take(a, r) /\ ~(n + mt > available - a.total)
  BY DEF Consider, n, mt
<1>9. ~(n + mt > available - a.total) => n + mt <= available - a.total
  BY <1>1, <1>2, <1>4
<1> QED BY <1>6, <1>7, <1>8, <1>9 DEF Decides

\* What the admission of a prefill batch decides: each waiting request is taken or
\* stays, and those taken find their pages free.
LEMMA AdmitIs ==
  ASSUME NEW s \in Seq(Requests), IsInjective(s), NEW pages \in Nat, NEW reserved \in Nat, NEW slots
  PROVE  LET a == Admit(s, pages * PageSize, reserved, slots)
         IN /\ a.taken \in Seq(Requests) /\ a.rest \in Seq(Requests)
            /\ IsInjective(a.taken) /\ IsInjective(a.rest)
            /\ Range(a.taken) \cap Range(a.rest) = {}
            /\ Range(a.taken) \cup Range(a.rest) = Range(s)
            /\ IsFiniteSet(PagesOf(Range(a.taken), CeilOf))
            /\ PagesFor(Range(a.taken)) <= pages
<1> DEFINE available == pages * PageSize
           a == Admit(s, available, reserved, slots)
           n == Len(s)
<1> HIDE DEF available, a, n
<1>1. PICK g : /\ g[0] = NewAdder(reserved)
               /\ \A i \in 1..Len(s) : g[i] = Consider(g[i - 1], s[i], available, slots)
               /\ Admit(s, available, reserved, slots) = g[Len(s)]
  BY AdmitSteps
<1> USE DEF available, a, n
<1>2. /\ n \in Nat /\ DOMAIN s = 1..n /\ \A i \in 1..n : s[i] \in Requests
      /\ PageSize \in Nat /\ available \in Nat /\ WholePages(available)
  BY EngineAssumption DEF EngineAssumption, WholePages
<1> DEFINE Seen(i) == {s[k] : k \in 1..i}
           P(i) == /\ AdderFits(g[i], available)
                   /\ IsInjective(g[i].taken) /\ IsInjective(g[i].rest)
                   /\ Range(g[i].taken) \cap Range(g[i].rest) = {}
                   /\ Range(g[i].taken) \cup Range(g[i].rest) = Seen(i)
           G == {i \in 0..n : P(i)}
<1> HIDE DEF available
<1>3. P(0)
  <2>1. << >> \in Seq(Requests) /\ Range(<< >>) = {} /\ IsInjective(<< >>)
    BY DEF Range, IsInjective
  <2>2. PagesOf({}, CeilOf) = {} /\ IsFiniteSet({}) /\ Cardinality({}) = 0 /\ PageSize * 0 = 0
    BY <1>2, FS_EmptySet DEF PagesOf
  <2>3. AdderFits(NewAdder(reserved), available)
    <3> DEFINE a0 == NewAdder(reserved)
    <3>1. /\ a0 \in Adders /\ a0.cur = 0 /\ a0.total = reserved /\ a0.taken = << >>
      BY <2>1 DEF NewAdder, Adders
    <3> HIDE DEF a0
    <3>2. PagesFor(Range(a0.taken)) = 0 /\ IsFiniteSet(PagesOf(Range(a0.taken), CeilOf))
      BY <3>1, <2>1, <2>2 DEF PagesFor
    <3> QED BY <3>1, <3>2, <2>2, <1>2 DEF AdderFits, a0
  <2>4. NewAdder(reserved).taken = << >> /\ NewAdder(reserved).rest = << >>
    BY DEF NewAdder
  <2>5. Seen(0) = {}
    OBVIOUS
  <2> QED BY <1>1, <2>1, <2>3, <2>4, <2>5
<1>4. ASSUME NEW i \in 1..n, P(i - 1) PROVE P(i)
  <2> DEFINE b == g[i - 1]
             c == g[i]
             r == s[i]
  <2>1. Seen(i) = Seen(i - 1) \cup {r}
    <3>1. \A k \in 1..i : k \in 1..(i - 1) \/ k = i
      BY <1>2
    <3>2. \A k \in 1..(i - 1) : k \in 1..i
      BY <1>2
    <3>3. i \in 1..i /\ i \in 0..n
      BY <1>2
    <3> QED BY <3>1, <3>2, <3>3
  <2>2. r \notin Seen(i - 1) /\ r \in Requests
    <3>1. \A k \in 1..(i - 1) : k \in DOMAIN s /\ k # i
      BY <1>2
    <3> QED BY <3>1, <1>2 DEF IsInjective
  <2>3. /\ AdderFits(b, available)
        /\ IsInjective(b.taken) /\ IsInjective(b.rest)
        /\ Range(b.taken) \cap Range(b.rest) = {}
        /\ Range(b.taken) \cup Range(b.rest) = Seen(i - 1)
    BY <1>4
  <2>4. c = Consider(b, r, available, slots)
    BY <1>1
  <2> HIDE DEF b, c, r, Seen
  <2>5. /\ AdderFits(c, available)
        /\ \/ c.taken = b.taken /\ c.rest = Append(b.rest, r)
           \/ c.taken = Append(b.taken, r) /\ c.rest = b.rest
    <3>1. r \notin Range(b.taken)
      BY <2>2, <2>3
    <3>2. /\ WholePages(available) /\ AdderFits(b, available) /\ r \in Requests
          /\ c = Consider(b, r, available, slots)
      BY <1>2, <2>2, <2>3, <2>4
    <3> HIDE DEF a, n, P, G
    <3>3. AdderFits(c, available) /\ Decides(b, r, c)
      BY <3>1, <3>2, ConsiderFits
    <3> QED BY <3>3 DEF Decides
  <2>6. b.taken \in Seq(Requests) /\ b.rest \in Seq(Requests)
    BY <2>3 DEF AdderFits, Adders
  <2>7. /\ IsInjective(c.taken) /\ IsInjective(c.rest)
        /\ Range(c.taken) \cap Range(c.rest) = {}
        /\ Range(c.taken) \cup Range(c.rest) = Seen(i)
    <3>1. CASE c.taken = b.taken /\ c.rest = Append(b.rest, r)
      <4>1. /\ Range(c.rest) = Range(b.rest) \cup {r}
            /\ IsInjective(b.rest) /\ r \notin Range(b.rest) => IsInjective(c.rest)
        BY <3>1, <2>2, <2>6, RangeAppend
      <4> QED BY <3>1, <4>1, <2>1, <2>2, <2>3
    <3>2. CASE c.taken = Append(b.taken, r) /\ c.rest = b.rest
      <4>1. /\ Range(c.taken) = Range(b.taken) \cup {r}
            /\ IsInjective(b.taken) /\ r \notin Range(b.taken) => IsInjective(c.taken)
        BY <3>2, <2>2, <2>6, RangeAppend
      <4> QED BY <3>2, <4>1, <2>1, <2>2, <2>3
    <3> QED BY <2>5, <3>1, <3>2
  <2> QED BY <2>5, <2>7 DEF c
<1>5. P(n)
  <2> HIDE DEF P
  <2>1. 0 \in G
    BY <1>2, <1>3
  <2>2. \A i \in 1..n : i - 1 \in G => i \in G
    BY <1>2, <1>4
  <2> HIDE DEF G
  <2>3. 0..n \subseteq G
    BY <1>2, <2>1, <2>2, IndexInduction
  <2> USE DEF G
  <2> QED BY <2>3, <1>2
<1>6. a = g[n]
  BY <1>1
<1>7. Seen(n) = Range(s)
  BY <1>2 DEF Range
<1>8. a.taken \in Seq(Requests) /\ a.rest \in Seq(Requests) /\ IsFiniteSet(PagesOf(Range(a.taken), CeilOf))
      /\ a.cur = PageSize * PagesFor(Range(a.taken)) /\ a.cur <= available /\ a.cur \in Nat
  BY <1>5, <1>6 DEF AdderFits, Adders
<1>9. PagesFor(Range(a.taken)) <= pages
  <2>6. available = PageSize * pages
    BY <1>2 DEF available
  <2> DEFINE q == PagesFor(Range(a.taken))
  <2>1. q \in Nat
    BY <1>8, FS_CardinalityType DEF PagesFor
  <2> HIDE DEF q, a
  <2>2. a.cur = PageSize * q
    BY <1>8 DEF q
  <2>3. ~(pages < q)
    <3> SUFFICES ASSUME pages < q PROVE FALSE
      OBVIOUS
    <3>1. PageSize * pages + PageSize <= PageSize * q /\ PageSize \in Nat \ {0}
      BY <2>1, PageMul, EngineAssumption DEF EngineAssumption
    <3> QED BY <3>1, <2>2, <2>6, <1>8, <1>2
  <2>4. q <= pages
    BY <2>1, <2>3
  <2> QED BY <2>4 DEF q
<1> QED BY <1>5, <1>6, <1>7, <1>8, <1>9 DEF available

\* Finitely many requests hold finitely many pages.
LEMMA PagesFinite ==
  ASSUME NEW S, IsFiniteSet(S), NEW n, \A r \in S : n[r] \in Nat
  PROVE  IsFiniteSet(PagesOf(S, n)) /\ Cardinality(PagesOf(S, n)) \in Nat
<1> DEFINE F == [r \in S |-> {r} \X (1..n[r])]
           T == {{r} \X (1..n[r]) : r \in S}
<1>1. F \in Surjection(S, T)
  BY DEF Surjection
<1>2. IsFiniteSet(T)
  BY <1>1, FS_Surjection
<1>3. ASSUME NEW X \in T PROVE IsFiniteSet(X)
  <2>1. PICK r \in S : X = {r} \X (1..n[r])
    OBVIOUS
  <2> DEFINE k == n[r]
  <2>2. k \in Int /\ 1 \in Int
    OBVIOUS
  <2> HIDE DEF k
  <2>3. IsFiniteSet({r}) /\ IsFiniteSet(1..k)
    BY <2>2, FS_Singleton, FS_Interval
  <2>4. IsFiniteSet({r} \X (1..k))
    BY <2>3, FS_Product
  <2> QED BY <2>1, <2>4 DEF k
<1>4. IsFiniteSet(UNION T)
  BY <1>2, <1>3, FS_UNION
<1> QED BY <1>4, FS_CardinalityType DEF PagesOf

\* The requests B give back all they have, or take it.
LEMMA PagesMoved ==
  ASSUME NEW S, IsFiniteSet(S), NEW B \in SUBSET S, NEW n, NEW m,
         \A r \in S : n[r] \in Nat,
         \A r \in S : m[r] = IF r \in B THEN 0 ELSE n[r]
  PROVE  Cardinality(PagesOf(S, n)) = Cardinality(PagesOf(S, m)) + Cardinality(PagesOf(B, n))
<1> DEFINE A == PagesOf(S, m)
           C == PagesOf(B, n)
<1>1. \A r \in S : m[r] \in Nat
  OBVIOUS
<1>2. IsFiniteSet(B)
  BY FS_Subset
<1>3. IsFiniteSet(A) /\ IsFiniteSet(C) /\ Cardinality(A) \in Nat /\ Cardinality(C) \in Nat
  BY <1>1, <1>2, PagesFinite
<1>4. A \cap C = {}
  <2> SUFFICES ASSUME NEW p \in A, p \in C PROVE FALSE
    OBVIOUS
  <2>1. p[1] \in S /\ p[2] \in 1..m[p[1]] /\ p[1] \in B
    BY InPages
  <2>2. m[p[1]] = 0
    BY <2>1
  <2> QED BY <2>1, <2>2
<1>5. PagesOf(S, n) = A \cup C
  <2>1. ASSUME NEW p \in PagesOf(S, n) PROVE p \in A \cup C
    <3>1. p = <<p[1], p[2]>> /\ p[1] \in S /\ p[2] \in 1..n[p[1]]
      BY InPages
    <3>2. CASE p[1] \in B
      <4>1. <<p[1], p[2]>> \in C
        BY <3>1, <3>2, InPages
      <4> QED BY <3>1, <4>1
    <3>3. CASE p[1] \notin B
      <4>1. m[p[1]] = n[p[1]]
        BY <3>1, <3>3
      <4>2. <<p[1], p[2]>> \in A
        BY <3>1, <4>1, InPages
      <4> QED BY <3>1, <4>2
    <3> QED BY <3>2, <3>3
  <2>2. ASSUME NEW p \in A PROVE p \in PagesOf(S, n)
    <3>1. p = <<p[1], p[2]>> /\ p[1] \in S /\ p[2] \in 1..m[p[1]]
      BY InPages
    <3>2. m[p[1]] = n[p[1]]
      BY <3>1
    <3>3. <<p[1], p[2]>> \in PagesOf(S, n)
      BY <3>1, <3>2, InPages
    <3> QED BY <3>1, <3>3
  <2>3. ASSUME NEW p \in C PROVE p \in PagesOf(S, n)
    <3>1. p = <<p[1], p[2]>> /\ p[1] \in S /\ p[2] \in 1..n[p[1]]
      BY InPages
    <3>3. <<p[1], p[2]>> \in PagesOf(S, n)
      BY <3>1, InPages
    <3> QED BY <3>1, <3>3
  <2> HIDE DEF A, C
  <2> QED BY <2>1, <2>2, <2>3
<1>6. Cardinality({}) = 0
  BY FS_EmptySet
<1> HIDE DEF A, C
<1>7. Cardinality(A \cup C) = Cardinality(A) + Cardinality(C) - Cardinality(A \cap C)
  BY <1>3, FS_Union
<1>8. Cardinality(A \cup C) = Cardinality(A) + Cardinality(C)
  <2>1. Cardinality(A \cap C) = 0
    BY <1>4, <1>6
  <2> QED BY <1>3, <1>7, <2>1
<1> QED BY <1>5, <1>8 DEF A, C

\* Each of the requests h[i], all different, gets a page more.
LEMMA PagesGrown ==
  ASSUME NEW S, IsFiniteSet(S), NEW I, NEW h \in [I -> S], IsInjective(h), NEW n, NEW m,
         \A r \in S : n[r] \in Nat,
         \A r \in S : m[r] = IF r \in Range(h) THEN n[r] + 1 ELSE n[r]
  PROVE  /\ IsFiniteSet(I)
         /\ Cardinality(PagesOf(S, m)) = Cardinality(PagesOf(S, n)) + Cardinality(I)
<1> DEFINE A == PagesOf(S, n)
           f == [i \in I |-> <<h[i], n[h[i]] + 1>>]
           C == {<<h[i], n[h[i]] + 1>> : i \in I}
<1>1. IsFiniteSet(I)
  <2>1. h \in Injection(I, S)
    BY DEF Injection
  <2> QED BY <2>1, FS_Injection
<1>2. \A i \in I : n[h[i]] \in Nat /\ h[i] \in S
  OBVIOUS
<1>3. IsFiniteSet(C) /\ Cardinality(C) = Cardinality(I) /\ Cardinality(I) \in Nat
  <2>1. f \in Surjection(I, C)
    BY DEF Surjection
  <2>2. f \in Injection(I, C)
    BY DEF Injection, IsInjective
  <2> HIDE DEF f, C
  <2> QED BY <1>1, <2>1, <2>2, FS_Surjection, FS_CardinalityType
<1>4. IsFiniteSet(A) /\ Cardinality(A) \in Nat
  BY PagesFinite
<1>5. A \cap C = {}
  <2> SUFFICES ASSUME NEW p \in A, p \in C PROVE FALSE
    OBVIOUS
  <2>1. PICK i \in I : p = <<h[i], n[h[i]] + 1>>
    OBVIOUS
  <2>2. p[2] \in 1..n[p[1]]
    BY InPages
  <2>3. p[1] = h[i] /\ p[2] = n[h[i]] + 1
    BY <2>1
  <2> HIDE DEF A, C
  <2> QED BY <1>2, <2>2, <2>3
<1>6. PagesOf(S, m) = A \cup C
  <2>1. ASSUME NEW p \in PagesOf(S, m) PROVE p \in A \cup C
    <3>1. p = <<p[1], p[2]>> /\ p[1] \in S /\ p[2] \in 1..m[p[1]]
      BY InPages
    <3>2. CASE p[2] \in 1..n[p[1]]
      <4>1. <<p[1], p[2]>> \in A
        BY <3>1, <3>2, InPages
      <4> QED BY <3>1, <4>1
    <3>3. CASE p[2] \notin 1..n[p[1]]
      <4>1. p[1] \in Range(h) /\ m[p[1]] = n[p[1]] + 1 /\ n[p[1]] \in Nat
        BY <3>1, <3>3
      <4>2. p[2] = n[p[1]] + 1
        BY <3>1, <3>3, <4>1
      <4>3. PICK i \in I : p[1] = h[i]
        BY <4>1 DEF Range
      <4> QED BY <3>1, <4>2, <4>3
    <3> QED BY <3>2, <3>3
  <2>2. ASSUME NEW p \in A PROVE p \in PagesOf(S, m)
    <3>1. p = <<p[1], p[2]>> /\ p[1] \in S /\ p[2] \in 1..n[p[1]]
      BY InPages
    <3>2. p[2] \in 1..m[p[1]]
      <4>1. n[p[1]] \in Nat /\ (m[p[1]] = n[p[1]] + 1 \/ m[p[1]] = n[p[1]])
        BY <3>1
      <4> QED BY <3>1, <4>1
    <3>3. <<p[1], p[2]>> \in PagesOf(S, m)
      BY <3>1, <3>2, InPages
    <3> QED BY <3>1, <3>3
  <2>3. ASSUME NEW i \in I PROVE <<h[i], n[h[i]] + 1>> \in PagesOf(S, m)
    <3>1. h[i] \in S /\ h[i] \in Range(h)
      BY DEF Range
    <3>2. n[h[i]] + 1 \in 1..m[h[i]]
      BY <3>1
    <3> QED BY <3>1, <3>2, InPages
  <2>4. \A p \in C : p \in PagesOf(S, m)
    BY <2>3
  <2> HIDE DEF A, C
  <2> QED BY <2>1, <2>2, <2>4
<1>7. Cardinality({}) = 0
  BY FS_EmptySet
<1> HIDE DEF A, C
<1>8. Cardinality(A \cup C) = Cardinality(A) + Cardinality(C) - Cardinality(A \cap C)
  BY <1>3, <1>4, FS_Union
<1>9. Cardinality(A \cup C) = Cardinality(A) + Cardinality(I)
  <2>1. Cardinality(A \cap C) = 0
    BY <1>5, <1>7
  <2> QED BY <1>3, <1>4, <1>8, <2>1
<1> QED BY <1>1, <1>6, <1>9 DEF A, C

---------------------------------------------------------------------------
\* The sum of lengths is a length.
LEMMA TotalNat ==
  ASSUME NEW s \in Seq(Nat)
  PROVE  Total(s) \in Nat
<1>1. PICK g : /\ g[0] = 0
               /\ \A i \in 1..Len(s) : g[i] = g[i - 1] + s[i]
               /\ Total(s) = g[Len(s)]
  BY TotalSteps
<1> DEFINE n == Len(s)
           G == {i \in 0..n : g[i] \in Nat}
<1>2. n \in Nat /\ \A i \in 1..n : s[i] \in Nat
  OBVIOUS
<1>3. 0 \in G
  BY <1>1, <1>2
<1>4. ASSUME NEW i \in 1..n, i - 1 \in G PROVE i \in G
  <2>1. g[i - 1] \in Nat /\ s[i] \in Nat /\ i \in 0..n
    BY <1>2, <1>4
  <2>2. g[i] = g[i - 1] + s[i]
    BY <1>1
  <2> QED BY <2>1, <2>2
<1> HIDE DEF G
<1>5. 0..n \subseteq G
  BY <1>2, <1>3, <1>4, IndexInduction
<1> USE DEF G
<1>6. n \in G
  BY <1>2, <1>5
<1> QED BY <1>1, <1>6

\* What is kept back for a running request.
LEMMA ReserveNat ==
  ASSUME NEW r \in Requests, NEW len \in Nat, NEW ratio \in Ratios
  PROVE  RunningReserve(r, len, ratio) \in Nat
<1> DEFINE m == IF MaxTokens[r] > len THEN MaxTokens[r] - len ELSE 0
           c == Clipped(m)
<1>1. MaxTokens[r] \in Nat /\ ratio \in Nat
  BY EngineAssumption DEF EngineAssumption
<1>2. m \in Nat
  BY <1>1
<1>3. c \in Nat
  BY <1>2, ClippedIs
<1> HIDE DEF m, c
<1>4. c * ratio \in Nat
  BY <1>1, <1>3
<1>5. \A x \in Nat : x \div 100 \in Nat
  OBVIOUS
<1>6. RunningReserve(r, len, ratio) = (c * ratio) \div 100
  BY DEF RunningReserve, c, m
<1> QED BY <1>4, <1>5, <1>6

\* The requests the scheduler runs.
Live == {r \in Range(running) : ~req[r].finished}

\* The placeholders ids, if there are any, are those of the first n of the requests
\* reqs, whose fields are q, each for the last token sampled for it.
Aligned(q, ids, reqs, n) ==
  ids = << >> \/ (Len(ids) = n /\
     \A i \in 1..n : ids[i] = <<reqs[i], Len(q[reqs[i]].kv) + 1>>)

\* The parallel sequences of a running batch f of the requests S.
IsRunning(f, S) ==
  /\ f.reqs \in Seq(Requests) /\ IsInjective(f.reqs) /\ Range(f.reqs) = S
  /\ f.seq_lens \in Seq(Nat) /\ Len(f.seq_lens) = Len(f.reqs)
  /\ f.output_ids \in Seq(Requests \X Nat)
  /\ Aligned(req, f.output_ids, f.reqs, Len(f.reqs))

\* _filter_batch keeps the unfinished requests, and the sequences parallel.
LEMMA FilteredIs ==
  ASSUME running \in Seq(Requests), IsInjective(running),
         seq_lens \in Seq(Nat), Len(seq_lens) = Len(running),
         output_ids \in Seq(Requests \X Nat), Aligned(req, output_ids, running, Len(running))
  PROVE  /\ IsRunning(Filtered, Live)
         /\ output_ids # << >> /\ Filtered.reqs # << >> => Filtered.output_ids # << >>
<1> DEFINE n == Len(running)
           ones == [i \in 1..n |-> i]
           X == {i \in DOMAIN running : ~req[running[i]].finished}
           k == Kept
           m == Len(k)
<1>1. /\ n \in Nat /\ DOMAIN running = 1..n /\ DOMAIN seq_lens = 1..n
      /\ ones \in Seq(1..n) /\ DOMAIN ones = 1..n /\ \A i \in 1..n : ones[i] = i
  OBVIOUS
<1>2. IsInjective(ones) /\ Range(ones) = 1..n
  BY <1>1 DEF IsInjective, Range
<1>3. k = Among(ones, X)
  BY DEF Kept
<1> HIDE DEF ones, X, k, n
<1>4. k \in Seq(1..n) /\ Range(k) = (1..n) \cap X /\ IsInjective(k)
  BY <1>1, <1>2, <1>3, AmongIs
<1>5. m \in Nat /\ DOMAIN k = 1..m /\ \A j \in 1..m : k[j] \in 1..n
  BY <1>4, Elements
<1> DEFINE a == AtKept(running)
           l == AtKept(seq_lens)
           o == AtKept(output_ids)
<1> HIDE DEF m
<1>6. a = [j \in 1..m |-> running[k[j]]] /\ l = [j \in 1..m |-> seq_lens[k[j]]]
      /\ o = [j \in 1..m |-> output_ids[k[j]]]
  BY DEF AtKept, m, k
<1> HIDE DEF a, l, o
<1>7. a \in Seq(Requests) /\ Len(a) = m /\ DOMAIN a = 1..m
  <2>1. \A j \in 1..m : running[k[j]] \in Requests
    BY <1>1, <1>5
  <2> QED BY <1>5, <1>6, <2>1
<1>8. l \in Seq(Nat) /\ Len(l) = m
  <2>1. \A j \in 1..m : seq_lens[k[j]] \in Nat
    BY <1>1, <1>5
  <2> QED BY <1>5, <1>6, <2>1
<1>9. IsInjective(a)
  <2>1. \A i, j \in 1..n : running[i] = running[j] => i = j
    BY <1>1 DEF IsInjective
  <2>2. \A i, j \in 1..m : k[i] = k[j] => i = j
    BY <1>4, <1>5 DEF IsInjective
  <2>3. \A i \in 1..m : a[i] = running[k[i]]
    BY <1>6
  <2> SUFFICES ASSUME NEW i \in 1..m, NEW j \in 1..m, a[i] = a[j] PROVE i = j
    BY <1>7 DEF IsInjective
  <2>4. running[k[i]] = running[k[j]] /\ k[i] \in 1..n /\ k[j] \in 1..n
    BY <2>3, <1>5
  <2> QED BY <2>1, <2>2, <2>4
<1>10. Range(a) = Live
  <2>1. ASSUME NEW r \in Range(a) PROVE r \in Live
    <3>1. PICK j \in 1..m : r = running[k[j]]
      BY <1>6, <1>7 DEF Range
    <3>2. k[j] \in X /\ k[j] \in 1..n
      BY <1>4, <1>5 DEF Range
    <3> QED BY <3>1, <3>2, <1>1 DEF X, Live, Range
  <2>2. ASSUME NEW r \in Live PROVE r \in Range(a)
    <3>1. PICK i \in 1..n : r = running[i]
      BY <1>1 DEF Live, Range
    <3>2. i \in X
      BY <3>1, <1>1 DEF X, Live
    <3>3. PICK j \in 1..m : k[j] = i
      BY <3>2, <1>4, <1>5 DEF Range
    <3> QED BY <3>1, <3>3, <1>6, <1>7 DEF Range
  <2> QED BY <2>1, <2>2
<1>11. ASSUME output_ids # << >>
       PROVE  /\ o \in Seq(Requests \X Nat) /\ Len(o) = m
              /\ \A i \in 1..m : o[i] = <<a[i], Len(req[a[i]].kv) + 1>>
  <2>1. Len(output_ids) = n /\ \A i \in 1..n : output_ids[i] = <<running[i], Len(req[running[i]].kv) + 1>>
    BY <1>11 DEF Aligned, n
  <2>2. DOMAIN output_ids = 1..n /\ \A i \in 1..n : output_ids[i] \in Requests \X Nat
    BY <2>1, <1>1
  <2>3. \A j \in 1..m : o[j] = output_ids[k[j]] /\ a[j] = running[k[j]]
    BY <1>6
  <2>4. \A j \in 1..m : output_ids[k[j]] \in Requests \X Nat
    BY <2>2, <1>5
  <2>5. o \in Seq(Requests \X Nat) /\ Len(o) = m
    BY <1>5, <1>6, <2>4
  <2>6. \A j \in 1..m : k[j] \in 1..n
    BY <1>5
  <2>7. \A i \in 1..m : o[i] = <<a[i], Len(req[a[i]].kv) + 1>>
    BY ONLY <2>1, <2>3, <2>6
  <2> QED BY ONLY <2>5, <2>7
<1>12. /\ Filtered.reqs = a /\ Filtered.seq_lens = l
       /\ Filtered.output_ids = IF output_ids = << >> THEN << >> ELSE o
  BY DEF Filtered, a, l, o
<1> DEFINE ids == Filtered.output_ids
<1>13. ids \in Seq(Requests \X Nat) /\ Aligned(req, ids, a, m)
  <2>1. CASE output_ids = << >>
    BY <1>12, <2>1 DEF Aligned
  <2>2. CASE output_ids # << >>
    <3>1. ids = o
      BY <1>12, <2>2
    <3> HIDE DEF ids
    <3> QED BY <3>1, <1>11, <2>2 DEF Aligned
  <2> QED BY <2>1, <2>2
<1>14. output_ids # << >> /\ a # << >> => ids # << >>
  <2> SUFFICES ASSUME output_ids # << >>, a # << >> PROVE o # << >>
    BY <1>12
  <2>1. m # 0
    BY <1>7
  <2> QED BY <2>1, <1>11
<1> HIDE DEF ids
<1> QED BY <1>7, <1>8, <1>9, <1>10, <1>12, <1>13, <1>14 DEF IsRunning, ids

\* _check_decode_mem always stops.
LEMMA KeptIsSome ==
  ASSUME NEW f, f.reqs \in Seq(Requests)
  PROVE  KeptByMem(f) # {}
<1> DEFINE n == Len(f.reqs)
           fits(j) == free_pages + PagesBehind(f, j) >= Wanted(f, j)
           T == {j \in 0..n : j = 0 \/ fits(j)}
<1>1. n \in Nat
  OBVIOUS
<1> HIDE DEF n, fits
<1>2. PICK k \in T : \A y \in T : y <= k
  <2>1. T \in SUBSET (0..n) /\ 0 \in T
    BY <1>1
  <2> HIDE DEF T
  <2> QED BY <1>1, <2>1, GreatestIndex
<1>3. ASSUME NEW j \in (k + 1)..n PROVE ~fits(j)
  <2>1. j \in 0..n /\ ~(j <= k)
    BY <1>1, <1>2
  <2> QED BY <1>2, <2>1
<1>4. k \in 0..n /\ (k = 0 \/ fits(k)) /\ \A j \in (k + 1)..n : ~fits(j)
  BY <1>2, <1>3
<1>5. \E x \in 0..n : (x = 0 \/ fits(x)) /\ \A j \in (x + 1)..n : ~fits(j)
  BY <1>4
<1>6. KeptByMem(f) = {x \in 0..n : (x = 0 \/ fits(x)) /\ \A j \in (x + 1)..n : ~fits(j)}
  BY DEF KeptByMem, fits, n
<1> QED BY <1>5, <1>6 DEF n

\* The requests of f behind the first k.
Popped(f, k) == SubSeq(f.reqs, k + 1, Len(f.reqs))

\* What _check_decode_mem keeps is a running batch of the first requests, and the
\* others are those it retracts.
LEMMA RetainedIs ==
  ASSUME NEW f, NEW S, IsRunning(f, S), NEW k, k \in 0..Len(f.reqs),
         \A r \in Requests : req[r].output_ids \in Seq(Token(r)),
         NEW kept, kept = Retained(f, k), NEW out, out = Popped(f, k)
  PROVE  /\ IsRunning(kept, Range(kept.reqs)) /\ Len(kept.reqs) = k
         /\ out \in Seq(Requests) /\ IsInjective(out)
         /\ Range(kept.reqs) \cup Range(out) = S /\ Range(kept.reqs) \cap Range(out) = {}
         /\ f.output_ids # << >> /\ k # 0 => kept.output_ids # << >>
<1> DEFINE s == f.reqs
           n == Len(s)
           a == SubSeq(s, 1, k)
<1>1. /\ s \in Seq(Requests) /\ IsInjective(s) /\ Range(s) = S /\ n \in Nat
      /\ f.seq_lens \in Seq(Nat) /\ Len(f.seq_lens) = n
      /\ f.output_ids \in Seq(Requests \X Nat)
      /\ Aligned(req, f.output_ids, s, n)
  BY DEF IsRunning
<1> HIDE DEF s, n
<1>2. k \in 0..Len(s) /\ out = SubSeq(s, k + 1, Len(s))
  BY DEF s, Popped
<1>3. /\ a \in Seq(Requests) /\ Len(a) = k /\ \A i \in 1..k : a[i] = s[i]
      /\ out \in Seq(Requests) /\ Range(a) \cup Range(out) = S
      /\ IsInjective(a) /\ IsInjective(out) /\ Range(a) \cap Range(out) = {}
  <2>1. /\ SubSeq(s, 1, k) \in Seq(Requests) /\ Len(SubSeq(s, 1, k)) = k
        /\ \A i \in 1..k : SubSeq(s, 1, k)[i] = s[i]
        /\ SubSeq(s, k + 1, Len(s)) \in Seq(Requests)
        /\ Range(SubSeq(s, 1, k)) \cup Range(SubSeq(s, k + 1, Len(s))) = Range(s)
        /\ IsInjective(s) =>
              /\ IsInjective(SubSeq(s, 1, k)) /\ IsInjective(SubSeq(s, k + 1, Len(s)))
              /\ Range(SubSeq(s, 1, k)) \cap Range(SubSeq(s, k + 1, Len(s))) = {}
    BY <1>1, <1>2, PartIs, Zenon
  <2> HIDE DEF a
  <2> DEFINE b == SubSeq(s, k + 1, Len(s))
  <2> HIDE DEF b
  <2>2. /\ a \in Seq(Requests) /\ Len(a) = k /\ (\A i \in 1..k : a[i] = s[i])
        /\ b \in Seq(Requests) /\ Range(a) \cup Range(b) = Range(s)
        /\ IsInjective(a) /\ IsInjective(b) /\ Range(a) \cap Range(b) = {}
    BY <1>1, <2>1 DEF a, b
  <2>3. out = b
    BY <1>2 DEF b
  <2> QED BY <1>1, <2>2, <2>3
<1>4. k \in Nat /\ k <= n
  BY <1>2 DEF n
<1> HIDE DEF a
<1>5. CASE k = n
  <2>1. kept = f
    BY <1>5 DEF Retained, n, s
  <2>2. s = a
    <3>1. Len(s) = Len(a) /\ \A i \in 1..Len(s) : s[i] = a[i]
      BY <1>3, <1>5 DEF n
    <3> QED BY <3>1, <1>1, <1>3, SeqEqual
  <2>3. kept.reqs = a
    BY <2>1, <2>2 DEF s
  <2>4. IsRunning(kept, Range(kept.reqs))
    BY <2>1 DEF IsRunning
  <2> QED BY <1>3, <2>1, <2>3, <2>4
<1>6. CASE k # n
  <2> DEFINE l   == [i \in 1..k |-> CurrentSeqLen(s[i])]
             m   == IF k < Len(f.output_ids) THEN k ELSE Len(f.output_ids)
             ids == SubSeq(f.output_ids, 1, m)
  <2>1. kept = [reqs |-> a, seq_lens |-> l, output_ids |-> ids]
    BY <1>6 DEF Retained, n, s, a
  <2>2. l \in Seq(Nat) /\ Len(l) = k
    <3>1. ASSUME NEW i \in 1..k PROVE CurrentSeqLen(s[i]) \in Nat
      <4>1. s[i] \in Requests
        BY <1>1, <1>4, Elements DEF n
      <4>2. PromptLen[s[i]] \in Nat /\ Len(req[s[i]].output_ids) \in Nat
        BY <4>1, EngineAssumption DEF EngineAssumption
      <4> QED BY <4>2 DEF CurrentSeqLen
    <3> QED BY <3>1, <1>4
  <2>3. ids \in Seq(Requests \X Nat) /\ Aligned(req, ids, a, k) /\ (f.output_ids # << >> /\ k # 0 => ids # << >>)
    <3>1. m \in 0..Len(f.output_ids)
      <4>1. Len(f.output_ids) \in Nat
        BY <1>1
      <4> QED BY <4>1, <1>4
    <3>2. ids \in Seq(Requests \X Nat) /\ Len(ids) = m /\ \A i \in 1..m : ids[i] = f.output_ids[i]
      BY <3>1, <1>1, PartIs
    <3>3. CASE f.output_ids = << >>
      <4>1. m = 0
        BY <3>1, <3>3
      <4> HIDE DEF m, ids
      <4>2. ids = << >>
        BY <3>2, <4>1
      <4> QED BY <3>2, <3>3, <4>2 DEF Aligned
    <3>4. CASE f.output_ids # << >>
      <4>1. Len(f.output_ids) = n /\ \A i \in 1..n : f.output_ids[i] = <<s[i], Len(req[s[i]].kv) + 1>>
        BY <3>4, <1>1 DEF Aligned
      <4>2. m = k
        BY <4>1, <1>1, <1>4
      <4> HIDE DEF m, ids
      <4>3. \A i \in 1..k : i \in 1..n
        BY <1>1, <1>4
      <4>4. \A i \in 1..k : ids[i] = <<a[i], Len(req[a[i]].kv) + 1>>
        BY <1>3, <3>2, <4>1, <4>2, <4>3
      <4>5. k # 0 => ids # << >>
        BY <3>2, <4>2
      <4> QED BY <3>2, <4>2, <4>4, <4>5 DEF Aligned
    <3> QED BY <3>3, <3>4
  <2> HIDE DEF l, ids
  <2>4. kept.reqs = a /\ kept.seq_lens = l /\ kept.output_ids = ids
    BY <2>1
  <2>5. IsRunning(kept, Range(kept.reqs))
    BY <1>3, <2>2, <2>3, <2>4 DEF IsRunning
  <2> QED BY <1>3, <2>3, <2>4, <2>5
<1> QED BY <1>5, <1>6

\* The fields of a request.
ReqTypes(r) ==
  [output_ids : Seq(Token(r)), finished : BOOLEAN, is_retracted : BOOLEAN, has_row : BOOLEAN,
   pages : Nat, kv : Seq(Token(r))]

\* What _get_new_batch_prefill decides.
LEMMA AdmittedIs ==
  ASSUME IsRunning(Filtered, Live), \A r \in Requests : req[r] \in ReqTypes(r),
         waiting \in Seq(Requests), IsInjective(waiting), free_pages \in Nat,
         NEW ratio \in Ratios, NEW a, a = Admitted(ratio)
  PROVE  /\ a.taken \in Seq(Requests) /\ a.rest \in Seq(Requests)
         /\ IsInjective(a.taken) /\ IsInjective(a.rest)
         /\ Range(a.taken) \cap Range(a.rest) = {}
         /\ Range(a.taken) \cup Range(a.rest) = Range(waiting)
         /\ BatchPages(a.taken) = PagesFor(Range(a.taken)) /\ BatchPages(a.taken) \in Nat
         /\ BatchPages(a.taken) <= free_pages
<1> DEFINE reqs == Filtered.reqs
           kept == [i \in DOMAIN reqs |->
                      RunningReserve(reqs[i], Len(req[reqs[i]].output_ids), ratio)]
           slots == MaxNumSeqs - Len(reqs)
           b == Admit(waiting, free_pages * PageSize, Total(kept), slots)
<1>1. reqs \in Seq(Requests)
  BY DEF IsRunning
<1>2. a = b
  BY DEF Admitted
<1> HIDE DEF reqs, slots
<1>3. Total(kept) \in Nat
  <2>1. ASSUME NEW i \in DOMAIN reqs
        PROVE  RunningReserve(reqs[i], Len(req[reqs[i]].output_ids), ratio) \in Nat
    <3>1. reqs[i] \in Requests
      BY <1>1, Elements
    <3>2. Len(req[reqs[i]].output_ids) \in Nat
      BY <3>1 DEF ReqTypes
    <3> QED BY <3>1, <3>2, ReserveNat
  <2>2. DOMAIN reqs = 1..Len(reqs) /\ Len(reqs) \in Nat
    BY <1>1, Elements
  <2>3. kept \in Seq(Nat)
    BY <2>1, <2>2
  <2> HIDE DEF kept
  <2> QED BY <2>3, TotalNat
<1> HIDE DEF kept
<1>4. /\ b.taken \in Seq(Requests) /\ b.rest \in Seq(Requests)
      /\ IsInjective(b.taken) /\ IsInjective(b.rest)
      /\ Range(b.taken) \cap Range(b.rest) = {}
      /\ Range(b.taken) \cup Range(b.rest) = Range(waiting)
      /\ IsFiniteSet(PagesOf(Range(b.taken), CeilOf))
      /\ PagesFor(Range(b.taken)) <= free_pages
  BY <1>3, AdmitIs
<1> HIDE DEF b
<1>5. BatchPages(b.taken) = PagesFor(Range(b.taken))
  <2> DEFINE S == Range(b.taken)
             m == [r \in S |-> PromptPages(r)]
  <2>1. S \subseteq Requests
    BY <1>4 DEF Range
  <2>2. \A r \in S : m[r] = CeilOf[r]
    BY <2>1 DEF CeilOf
  <2> HIDE DEF S, m
  <2>3. PagesOf(S, m) = PagesOf(S, CeilOf)
    BY <2>2, SamePages
  <2> QED BY <2>3 DEF S, m, BatchPages, PagesFor
<1>6. PagesFor(Range(b.taken)) \in Nat
  BY <1>4, FS_CardinalityType DEF PagesFor
<1> QED BY <1>2, <1>4, <1>5, <1>6

---------------------------------------------------------------------------
\* The pages all requests hold, their fields being q.
HeldBy(q) == Cardinality(PagesOf(Requests, [r \in Requests |-> q[r].pages]))

\* So many pages are a number.
LEMMA HeldNat ==
  ASSUME NEW q, \A r \in Requests : q[r].pages \in Nat
  PROVE  HeldBy(q) \in Nat
<1> DEFINE n == [r \in Requests |-> q[r].pages]
<1>1. \A r \in Requests : n[r] \in Nat
  OBVIOUS
<1> HIDE DEF n
<1>2. Cardinality(PagesOf(Requests, n)) \in Nat
  BY <1>1, PagesFinite, EngineAssumption DEF EngineAssumption
<1> QED BY <1>2 DEF HeldBy, n

\* They depend on the pages of each request alone.
LEMMA HeldSame ==
  ASSUME NEW q, NEW p, \A r \in Requests : q[r].pages = p[r].pages
  PROVE  HeldBy(q) = HeldBy(p)
<1>1. [r \in Requests |-> q[r].pages] = [r \in Requests |-> p[r].pages]
  OBVIOUS
<1> QED BY <1>1 DEF HeldBy

\* The requests B give back their pages.
LEMMA HeldReturned ==
  ASSUME NEW q, NEW p, NEW B \in SUBSET Requests, \A r \in Requests : q[r].pages \in Nat,
         \A r \in Requests : p[r].pages = IF r \in B THEN 0 ELSE q[r].pages
  PROVE  /\ HeldBy(q) = HeldBy(p) + Cardinality(PagesOf(B, [r \in B |-> q[r].pages]))
         /\ Cardinality(PagesOf(B, [r \in B |-> q[r].pages])) \in Nat
<1> DEFINE n == [r \in Requests |-> q[r].pages]
           m == [r \in Requests |-> p[r].pages]
           o == [r \in B |-> q[r].pages]
<1>1. /\ \A r \in Requests : n[r] \in Nat
      /\ \A r \in Requests : m[r] = IF r \in B THEN 0 ELSE n[r]
      /\ \A r \in B : n[r] = o[r] /\ o[r] \in Nat
      /\ IsFiniteSet(Requests) /\ IsFiniteSet(B)
  BY FS_Subset, EngineAssumption DEF EngineAssumption
<1>4. HeldBy(q) = Cardinality(PagesOf(Requests, n)) /\ HeldBy(p) = Cardinality(PagesOf(Requests, m))
  BY DEF HeldBy
<1> HIDE DEF n, m, o
<1>2. Cardinality(PagesOf(Requests, n)) = Cardinality(PagesOf(Requests, m)) + Cardinality(PagesOf(B, n))
  BY <1>1, PagesMoved
<1>3. PagesOf(B, n) = PagesOf(B, o)
  BY <1>1, SamePages
<1>5. Cardinality(PagesOf(B, o)) \in Nat
  BY <1>1, PagesFinite
<1> QED BY <1>2, <1>3, <1>4, <1>5 DEF o

\* The requests B, which hold nothing, take the pages of their prompts.
LEMMA HeldTaken ==
  ASSUME NEW q, NEW p, NEW B \in SUBSET Requests, \A r \in Requests : q[r].pages \in Nat,
         \A r \in B : q[r].pages = 0,
         \A r \in Requests : p[r].pages = IF r \in B THEN PromptPages(r) ELSE q[r].pages
  PROVE  HeldBy(p) = HeldBy(q) + PagesFor(B)
<1> DEFINE n == [r \in Requests |-> p[r].pages]
           m == [r \in Requests |-> q[r].pages]
<1>1. /\ \A r \in Requests : n[r] \in Nat
      /\ \A r \in Requests : m[r] = IF r \in B THEN 0 ELSE n[r]
      /\ \A r \in B : n[r] = CeilOf[r]
      /\ IsFiniteSet(Requests)
  BY PromptPagesIs, EngineAssumption DEF EngineAssumption, CeilOf
<1>4. HeldBy(p) = Cardinality(PagesOf(Requests, n)) /\ HeldBy(q) = Cardinality(PagesOf(Requests, m))
  BY DEF HeldBy
<1> HIDE DEF n, m
<1>2. Cardinality(PagesOf(Requests, n)) = Cardinality(PagesOf(Requests, m)) + Cardinality(PagesOf(B, n))
  BY <1>1, PagesMoved
<1>3. PagesOf(B, n) = PagesOf(B, CeilOf)
  BY <1>1, SamePages
<1> QED BY <1>2, <1>3, <1>4 DEF PagesFor

\* The requests h[i] open a page each.
LEMMA HeldGrown ==
  ASSUME NEW q, NEW p, NEW I, NEW h \in [I -> Requests], IsInjective(h),
         \A r \in Requests : q[r].pages \in Nat,
         \A r \in Requests : p[r].pages = IF r \in Range(h) THEN q[r].pages + 1 ELSE q[r].pages
  PROVE  HeldBy(p) = HeldBy(q) + Cardinality(I) /\ Cardinality(I) \in Nat
<1> DEFINE n == [r \in Requests |-> q[r].pages]
           m == [r \in Requests |-> p[r].pages]
<1>1. /\ \A r \in Requests : n[r] \in Nat
      /\ \A r \in Requests : m[r] = IF r \in Range(h) THEN n[r] + 1 ELSE n[r]
      /\ IsFiniteSet(Requests)
  BY EngineAssumption DEF EngineAssumption
<1>4. HeldBy(q) = Cardinality(PagesOf(Requests, n)) /\ HeldBy(p) = Cardinality(PagesOf(Requests, m))
  BY DEF HeldBy
<1> HIDE DEF n, m
<1>2. /\ IsFiniteSet(I)
      /\ Cardinality(PagesOf(Requests, m)) = Cardinality(PagesOf(Requests, n)) + Cardinality(I)
  BY <1>1, PagesGrown
<1> QED BY <1>2, <1>4, FS_CardinalityType

---------------------------------------------------------------------------
(* The invariants.                                                          *)


\* A value of the variable batch has the fields of NoBatch.
IsBatch(b) ==
  b = [mode |-> b.mode, reqs |-> b.reqs, input |-> b.input, sampled |-> b.sampled]

\* What the executor's queue can hold.
AtMostOne(q) == q = << >> \/ q = <<[reqs |-> q[1].reqs, stale |-> q[1].stale]>>

\* tokens are those of the requests reqs, one each, in their order.
TokensOf(tokens, reqs) ==
  DOMAIN tokens = DOMAIN reqs /\ \A i \in DOMAIN tokens : tokens[i][1] = reqs[i]

\* The records q when the requests out have been retracted.
Marked(q, out) == [j \in DOMAIN q |-> [q[j] EXCEPT !.stale = @ \cup out]]

\* The phases before which a record is in the queue.
ReadsRecord == {"conservative", "consecutive", "overlap"}

\* The inductive invariant behind PinnedIsTheirs.
PinnedInv ==
  /\ IsBatch(batch)
  /\ AtMostOne(result_queue)
  /\ result_queue # << >> => TokensOf(pinned, result_queue[1].reqs)
  /\ pc \in ReadsRecord => result_queue # << >>
  /\ pc = "sample" => result_queue = << >>
  /\ pc = "schedule" /\ ~can_use_placeholder => result_queue = << >>
  /\ pc = "launch" /\ (~can_use_placeholder \/ DisableOverlap(batch.mode)) => result_queue = << >>
  /\ pc \in {"overlap", "sample"} => TokensOf(batch.sampled, batch.reqs)

---------------------------------------------------------------------------
\* A queue of one record is left empty by process_pending_batch.
LEMMA TailOfOne ==
  ASSUME NEW q, AtMostOne(q), q # << >>
  PROVE  Tail(q) = << >>
<1> DEFINE e == [reqs |-> q[1].reqs, stale |-> q[1].stale]
<1>1. q = <<e>>
  BY DEF AtMostOne
<1> HIDE DEF e
<1>2. Tail(<<e>>) = << >>
  OBVIOUS
<1> QED BY <1>1, <1>2

\* A step that changes the stale marks of the records, as a retraction does,
\* leaves as many records, with the same requests.
LEMMA MarksOnly ==
  ASSUME NEW q, AtMostOne(q), NEW out
  PROVE  /\ AtMostOne(Marked(q, out))
         /\ Marked(q, out) = << >> <=> q = << >>
         /\ q # << >> => Marked(q, out)[1].reqs = q[1].reqs
<1>1. CASE q = << >>
  BY <1>1 DEF AtMostOne, Marked
<1>2. CASE q # << >>
  <2> DEFINE a == q[1].reqs
             b == q[1].stale
  <2>1. q = <<[reqs |-> a, stale |-> b]>>
    BY <1>2 DEF AtMostOne
  <2>2. DOMAIN q = {1} /\ q[1] = [reqs |-> a, stale |-> b]
    BY <2>1
  <2> HIDE DEF a, b
  <2> DEFINE c == b \cup out
             p == Marked(q, out)
  <2>3. DOMAIN p = {1} /\ p[1] = [[reqs |-> a, stale |-> b] EXCEPT !.stale = c]
    BY <2>2 DEF Marked
  <2>4. [[reqs |-> a, stale |-> b] EXCEPT !.stale = c] = [reqs |-> a, stale |-> c]
    OBVIOUS
  <2>5. p = <<[reqs |-> a, stale |-> c]>>
    BY <2>2, <2>4 DEF Marked
  <2> HIDE DEF c, p
  <2>6. p # << >> /\ p[1].reqs = a /\ p[1].stale = c
    BY <2>5
  <2>7. AtMostOne(p)
    BY <2>5, <2>6 DEF AtMostOne
  <2>8. q[1].reqs = a
    BY DEF a
  <2> QED BY <1>2, <2>6, <2>7, <2>8 DEF p
<1> QED BY <1>1, <1>2

\* Processing a record, in whatever phase, empties the queue.
LEMMA ProcessEmpties ==
  ASSUME AtMostOne(result_queue), result_queue # << >>, NEW eos, ProcessPending(eos)
  PROVE  result_queue' = << >> /\ batch' = batch
BY TailOfOne DEF ProcessPending

\* Once schedule() has returned a batch, the queue has been emptied by the time
\* of phase 4 wherever phase 5 will not read it.
LEMMA ScheduledNext ==
  ASSUME PinnedInv, pc = "schedule", NEW mode, batch'.mode = mode, IsBatch(batch'),
         pc' = AfterSchedule(mode),
         UNCHANGED <<pinned, can_use_placeholder, last_extend>>,
         AtMostOne(result_queue'), result_queue' = << >> <=> result_queue = << >>,
         result_queue # << >> => result_queue'[1].reqs = result_queue[1].reqs
  PROVE  PinnedInv'
<1>1. DisableOverlap(batch.mode)' <=> DisableOverlap(mode)
  BY DEF DisableOverlap
<1>2. TokensOf(pinned, result_queue[1].reqs)' \/ result_queue' = << >>
  BY DEF PinnedInv
<1>3. pc' = IF DisableOverlap(mode) /\ result_queue # << >> THEN "consecutive" ELSE "launch"
  BY DEF AfterSchedule
<1> QED BY <1>1, <1>2, <1>3 DEF PinnedInv, ReadsRecord

\* Every step keeps the queue, the buffer and the phase in this relation.
THEOREM PinnedStep == PinnedInv /\ [Next]_vars => PinnedInv'
<1> SUFFICES ASSUME PinnedInv, [Next]_vars PROVE PinnedInv'
  OBVIOUS
<1> USE DEF PinnedInv
<1>1. ASSUME NEW prompts, Generate(prompts) PROVE PinnedInv'
  BY <1>1 DEF Generate, exec, ReadsRecord
<1>2. ASSUME NEW r \in Requests, Submit(r) PROVE PinnedInv'
  BY <1>2 DEF Submit, exec, DisableOverlap
<1>3. CASE RecvRequests
  <2> DEFINE p == /\ \A r \in Range(running) : req[r].finished \/ ~NearMax(r)
                  /\ running # << >>
                  /\ output_ids # << >>
  <2>1. /\ can_use_placeholder' = p
        /\ pc' = IF ~p /\ result_queue # << >> THEN "conservative" ELSE "schedule"
        /\ UNCHANGED <<batch, result_queue, pinned>>
    BY <1>3 DEF RecvRequests, exec
  <2> HIDE DEF p
  <2>2. CASE result_queue = << >>
    BY <2>1, <2>2 DEF ReadsRecord
  <2>3. CASE result_queue # << >> /\ p
    BY <2>1, <2>3 DEF ReadsRecord
  <2>4. CASE result_queue # << >> /\ ~p
    BY <2>1, <2>4 DEF ReadsRecord
  <2> QED BY <2>2, <2>3, <2>4
<1>4. CASE ProcessConservative
  <2>1. PICK eos \in Ending : ProcessPending(eos)
    BY <1>4 DEF ProcessConservative
  <2>2. pc = "conservative" /\ pc' = "schedule"
    BY <1>4 DEF ProcessConservative
  <2>3. result_queue # << >>
    BY <2>2 DEF ReadsRecord
  <2>4. result_queue' = << >> /\ batch' = batch
    BY <2>1, <2>3, ProcessEmpties
  <2> QED BY <2>2, <2>4 DEF AtMostOne, ReadsRecord
<1>5. ASSUME NEW ratio \in Ratios, SchedulePrefill(ratio) PROVE PinnedInv'
  <2>1. /\ pc = "schedule"
        /\ UNCHANGED <<result_queue, pinned, can_use_placeholder, last_extend>>
    BY <1>5 DEF SchedulePrefill, exec
  <2> DEFINE b == Admitted(ratio).taken
  <2>2. CASE Len(b) > FreeRows \/ BatchPages(b) > free_pages
    <3>1. batch' = batch /\ pc' \in {"no rows", "no pages for extend"}
      BY <1>5, <2>2 DEF SchedulePrefill
    <3> QED BY <2>1, <3>1 DEF ReadsRecord
  <2>3. CASE ~(Len(b) > FreeRows \/ BatchPages(b) > free_pages)
    <3>1. batch' = [NoBatch EXCEPT !.mode = "extend", !.reqs = b] /\ pc' = AfterSchedule("extend")
      BY <1>5, <2>3 DEF SchedulePrefill
    <3>2. IsBatch(batch') /\ batch'.mode = "extend"
      BY <3>1 DEF NoBatch, IsBatch
    <3> QED BY <2>1, <3>1, <3>2, ScheduledNext
  <2> QED BY <2>2, <2>3
<1>6. ASSUME NEW ratio \in Ratios, ScheduleDecode(ratio) PROVE PinnedInv'
  <2> DEFINE f == Filtered
  <2>0. pc = "schedule" /\ \E k \in KeptByMem(f) : Decode(f, k)
    BY <1>6 DEF ScheduleDecode
  <2> HIDE DEF f
  <2> PICK k \in KeptByMem(f) : Decode(f, k)
    BY <2>0
  <2> DEFINE kept == Retained(f, k)
             out  == SubSeq(f.reqs, k + 1, Len(f.reqs))
             bad  == \/ ~can_use_placeholder /\ \E r \in Range(kept.reqs) : req[r].output_ids = << >>
                     \/ Cardinality(Grown(kept)) > free_pages + PagesBehind(f, k)
  <2>1. /\ pc = "schedule"
        /\ UNCHANGED <<pinned, can_use_placeholder, last_extend>>
        /\ result_queue' = Marked(result_queue, Range(out))
    BY <2>0 DEF Decode, Marked
  <2> HIDE DEF out
  <2>2. /\ AtMostOne(result_queue')
        /\ result_queue' = << >> <=> result_queue = << >>
        /\ result_queue # << >> => result_queue'[1].reqs = result_queue[1].reqs
    BY <2>1, MarksOnly
  <2> USE DEF out
  <2>3. CASE bad
    <3>1. batch' = NoBatch /\ pc' \in {"no last token", "no pages for decode"}
      BY <2>3 DEF Decode
    <3> QED BY <2>1, <2>2, <3>1 DEF ReadsRecord, NoBatch, IsBatch
  <2>4. CASE ~bad
    <3>1. pc' = AfterSchedule(IF k = 0 THEN "none" ELSE "decode")
      BY <2>4 DEF Decode
    <3> DEFINE input == IF can_use_placeholder
                          THEN kept.output_ids
                          ELSE [i \in 1..k |-> Last(req[kept.reqs[i]].output_ids)]
    <3>3. batch' = IF k = 0 THEN NoBatch
                   ELSE [NoBatch EXCEPT !.mode = "decode", !.reqs = kept.reqs, !.input = input]
      BY <2>4 DEF Decode
    <3> HIDE DEF input, kept
    <3>2. IsBatch(batch') /\ batch'.mode = (IF k = 0 THEN "none" ELSE "decode")
      BY <3>3 DEF NoBatch, IsBatch
    <3> QED BY <2>1, <2>2, <3>1, <3>2, ScheduledNext
  <2> QED BY <2>3, <2>4
<1>7. ASSUME NEW ratio \in Ratios, ScheduleNone(ratio) PROVE PinnedInv'
  <2>1. /\ pc = "schedule" /\ pc' = AfterSchedule("none") /\ batch' = NoBatch
        /\ UNCHANGED <<result_queue, pinned, can_use_placeholder, last_extend>>
    BY <1>7 DEF ScheduleNone, exec
  <2>2. IsBatch(batch') /\ batch'.mode = "none"
    BY <2>1 DEF NoBatch, IsBatch
  <2> QED BY <2>1, <2>2, ScheduledNext
<1>8. CASE ProcessConsecutive
  <2>1. PICK eos \in Ending : ProcessPending(eos)
    BY <1>8 DEF ProcessConsecutive
  <2>2. pc = "consecutive" /\ pc' = "launch"
    BY <1>8 DEF ProcessConsecutive
  <2>3. result_queue # << >>
    BY <2>2 DEF ReadsRecord
  <2>4. result_queue' = << >> /\ batch' = batch
    BY <2>1, <2>3, ProcessEmpties
  <2> QED BY <2>2, <2>4 DEF AtMostOne, ReadsRecord
<1>9. CASE Launch
  <2> DEFINE tokens == [i \in DOMAIN batch.reqs |-> Sample(i)]
  <2>1. /\ pc' = AfterLaunch
        /\ batch' = [batch EXCEPT !.sampled = tokens]
        /\ result_queue' = result_queue /\ pinned' = pinned
        /\ pc = "launch"
    BY <1>9 DEF Launch, exec
  <2>2. TokensOf(tokens, batch.reqs)
    BY DEF TokensOf, Sample
  <2> HIDE DEF tokens
  <2>3. IsBatch(batch') /\ batch'.sampled = tokens /\ batch'.reqs = batch.reqs
    BY <2>1 DEF IsBatch
  <2>4. CASE result_queue = << >>
    BY <2>1, <2>2, <2>3, <2>4 DEF AfterLaunch, ReadsRecord
  <2>5. CASE result_queue # << >>
    <3>1. can_use_placeholder /\ ~DisableOverlap(batch.mode)
      BY <2>1, <2>5
    <3>2. pc' = "overlap"
      BY <2>1, <2>5, <3>1 DEF AfterLaunch
    <3> QED BY <2>1, <2>2, <2>3, <2>5, <3>2 DEF ReadsRecord
  <2> QED BY <2>4, <2>5
<1>10. CASE LaunchNothing
  BY <1>10 DEF LaunchNothing, exec, ReadsRecord
<1>11. CASE ProcessOverlap
  <2>1. PICK eos \in Ending : ProcessPending(eos)
    BY <1>11 DEF ProcessOverlap
  <2>2. pc = "overlap" /\ pc' = "sample"
    BY <1>11 DEF ProcessOverlap
  <2>3. result_queue # << >>
    BY <2>2 DEF ReadsRecord
  <2>4. result_queue' = << >> /\ batch' = batch
    BY <2>1, <2>3, ProcessEmpties
  <2> QED BY <2>2, <2>4 DEF AtMostOne, ReadsRecord
<1>12. CASE LaunchSample
  <2> DEFINE rec == [reqs |-> batch.reqs, stale |-> {}]
  <2>1. /\ pc = "sample" /\ pc' = "drain"
        /\ pinned' = batch.sampled
        /\ result_queue' = Append(result_queue, rec)
        /\ batch' = batch
    BY <1>12 DEF LaunchSample
  <2> HIDE DEF rec
  <2>2. result_queue = << >>
    BY <2>1
  <2>3. Append(<< >>, rec) = <<rec>>
    OBVIOUS
  <2>4. result_queue' = <<rec>>
    BY <2>1, <2>2, <2>3
  <2>5. AtMostOne(result_queue') /\ result_queue'[1].reqs = batch.reqs
    BY <2>4 DEF AtMostOne, rec
  <2>6. TokensOf(pinned', batch.reqs)
    BY <2>1
  <2> QED BY <2>1, <2>5, <2>6 DEF ReadsRecord
<1>13. CASE Drain
  <2>1. result_queue' = result_queue /\ pinned' = pinned /\ batch' = NoBatch
    BY <1>13 DEF Drain, exec
  <2>2. pc' \in {"released twice", "idle", "recv"}
    BY <1>13 DEF Drain
  <2> QED BY <2>1, <2>2 DEF NoBatch, IsBatch, ReadsRecord
<1>14. CASE UNCHANGED vars
  <2>1. DisableOverlap(batch.mode)' <=> DisableOverlap(batch.mode)
    BY <1>14 DEF vars, DisableOverlap
  <2> QED BY <1>14, <2>1 DEF vars, exec
<1> QED
  BY <1>1, <1>2, <1>3, <1>4, <1>5, <1>6, <1>7, <1>8, <1>9, <1>10, <1>11, <1>12,
     <1>13, <1>14 DEF Next, EngineStep

\* PinnedInv holds of every behaviour of the engine.
THEOREM PinnedInvariance == Spec => []PinnedInv
<1>1. Init => PinnedInv
  BY DEF Init, NoBatch, PinnedInv, IsBatch, AtMostOne, ReadsRecord
<1> QED BY <1>1, PinnedStep, PTL DEF Spec

\* The tokens of a forward pass are read from the one pinned buffer before the
\* next pass copies its own there, whatever requests come, end or are retracted in
\* between: OverlapExecutor needs no second buffer.
THEOREM PinnedSafe == Spec => []PinnedIsTheirs
<1>1. PinnedInv => PinnedIsTheirs
  <2> SUFFICES ASSUME PinnedInv PROVE PinnedIsTheirs
    OBVIOUS
  <2>1. CASE result_queue = << >>
    BY <2>1 DEF PinnedIsTheirs, Range
  <2>2. CASE result_queue # << >>
    <3> DEFINE e == [reqs |-> result_queue[1].reqs, stale |-> result_queue[1].stale]
    <3>1. result_queue = <<e>> /\ TokensOf(pinned, result_queue[1].reqs)
      BY <2>2 DEF PinnedInv, AtMostOne
    <3> HIDE DEF e
    <3>2. DOMAIN result_queue = {1} /\ Len(result_queue) = 1
      BY <3>1
    <3> QED BY <3>1, <3>2 DEF PinnedIsTheirs, Range, TokensOf
  <2> QED BY <2>1, <2>2
<1> QED BY <1>1, PinnedInvariance, PTL

---------------------------------------------------------------------------
\* The types of the variables.
Types ==
  /\ pc \in Phases \cup Raised
  /\ fresh \subseteq Requests
  /\ submitted \in Seq(Requests) /\ waiting \in Seq(Requests) /\ running \in Seq(Requests)
  /\ pending_release \in Seq(Requests)
  /\ seq_lens \in Seq(Nat) /\ Len(seq_lens) = Len(running)
  /\ output_ids \in Seq(Requests \X Nat)
  /\ DOMAIN req = Requests
  /\ \A r \in Requests : req[r] \in ReqTypes(r)

\* A request gets no token past its limit.
Limits ==
  \A r \in Requests : /\ Len(req[r].output_ids) <= MaxTokens[r]
                      /\ ~req[r].finished => Len(req[r].output_ids) < MaxTokens[r]

\* Each request is in one place.
Places ==
  pc \notin Raised =>
    /\ IsInjective(submitted) /\ IsInjective(waiting) /\ IsInjective(running)
    /\ fresh \cap Range(submitted) = {} /\ fresh \cap Range(waiting) = {} /\ fresh \cap Live = {}
    /\ Range(submitted) \cap Range(waiting) = {} /\ Range(submitted) \cap Live = {}
    /\ Range(waiting) \cap Live = {}
    /\ \A r \in Requests :
         req[r].finished <=> r \notin fresh \cup Range(submitted) \cup Range(waiting) \cup Live

\* What requests hold is what the allocator does not have.
Holdings ==
  /\ IsInjective(pending_release)
  /\ \A r \in Range(pending_release) : req[r].finished
  /\ \A r \in Requests : req[r].has_row <=> r \in Range(pending_release) \/ r \in Live
  /\ \A r \in Requests : req[r].pages > 0 <=> req[r].has_row
  /\ free_pages \in Nat /\ free_pages = NumPages - HeldBy(req)

\* Whoever a record has a token for runs, or is to be skipped.
Records ==
  pc \notin Raised /\ result_queue # << >> =>
    /\ result_queue[1].reqs \in Seq(Requests) /\ IsInjective(result_queue[1].reqs)
    /\ pinned \in Seq(Requests \X Nat)
    /\ \A r \in Range(result_queue[1].reqs) :
         r \in Range(running) \/ req[r].finished \/ req[r].is_retracted

\* The phases between schedule() and the forward pass, and behind it.
Scheduled == {"consecutive", "launch"}
Launched  == {"overlap", "sample"}

\* The batch of this step and the placeholders of running_batch.
Batches ==
  /\ pc \in Scheduled \cup Launched /\ batch.mode # "none" =>
       /\ batch.mode \in {"extend", "decode"}
       /\ batch.reqs \in Seq(Requests) /\ IsInjective(batch.reqs) /\ batch.reqs # << >>
       /\ Range(batch.reqs) \subseteq Range(running)
  /\ pc \in Launched => batch.mode # "none" /\ batch.sampled \in Seq(Requests \X Nat)
  /\ pc \in Scheduled /\ batch.mode = "none" => running = << >> /\ output_ids = << >>
  /\ pc \in Scheduled /\ batch.mode = "decode" =>
       /\ batch.reqs = running /\ DOMAIN batch.input = DOMAIN running
       /\ \A i \in DOMAIN running : batch.input[i] \in Token(running[i])
  /\ pc \in Scheduled /\ batch.mode = "extend" =>
       LET old == Len(running) - Len(batch.reqs)
       IN /\ old \in Nat /\ Aligned(req, output_ids, running, old)
          /\ \A i \in DOMAIN batch.reqs : batch.reqs[i] = running[old + i]
  /\ pc \notin Scheduled \cup Raised => Aligned(req, output_ids, running, Len(running))
  /\ pc = "conservative" => ~can_use_placeholder
  /\ pc = "schedule" /\ can_use_placeholder => output_ids # << >>

\* What is left when a step ends.
Ends ==
  /\ pc = "idle" => running = << >> /\ result_queue = << >> /\ pending_release = << >>
  /\ pc = "drain" => running # << >> \/ result_queue = << >>

\* The inductive invariant, beside PinnedInv.
EngineInv ==
  /\ PrefillFits /\ Types /\ Limits /\ Places /\ Holdings /\ Records /\ Batches /\ Ends

---------------------------------------------------------------------------
\* A request gets a token, its last if b.
AddToken(x, t, b) == [x EXCEPT !.output_ids = Append(@, t), !.finished = b]

\* Its fields then.
LEMMA TokenAdded ==
  ASSUME NEW r \in Requests, NEW x \in ReqTypes(r), NEW t \in Token(r), NEW b \in BOOLEAN,
         NEW y, y = AddToken(x, t, b)
  PROVE  /\ y \in ReqTypes(r) /\ Len(y.output_ids) = Len(x.output_ids) + 1
         /\ Len(x.output_ids) \in Nat
         /\ y.has_row = x.has_row /\ y.pages = x.pages /\ y.kv = x.kv
         /\ y.finished = b
<1>1. /\ Append(x.output_ids, t) \in Seq(Token(r))
      /\ Len(Append(x.output_ids, t)) = Len(x.output_ids) + 1
      /\ Len(x.output_ids) \in Nat
  <2>1. x.output_ids \in Seq(Token(r))
    BY DEF ReqTypes
  <2> QED BY <2>1, AppendProperties, LenProperties
<1> DEFINE o == Append(x.output_ids, t)
<1> HIDE DEF o
<1>2. y = [x EXCEPT !.output_ids = o, !.finished = b]
  BY DEF o, AddToken
<1>3. y \in ReqTypes(r) /\ y.output_ids = o
  BY <1>1, <1>2 DEF ReqTypes, o
<1>4. y.has_row = x.has_row /\ y.pages = x.pages /\ y.kv = x.kv /\ y.finished = b
  BY <1>2 DEF ReqTypes
<1> QED BY <1>1, <1>3, <1>4 DEF o

\* What process_pending_batch does to the requests of its record: some get a token,
\* and of these some end.
LEMMA PendingIs ==
  ASSUME EngineInv, PinnedInv, pc \notin Raised, result_queue # << >>, NEW eos,
         ProcessPending(eos)
  PROVE  \E ends \in SUBSET Live :
           /\ pending_release' \in Seq(Requests) /\ IsInjective(pending_release')
           /\ Range(pending_release') = Range(pending_release) \cup ends
           /\ DOMAIN req' = Requests
           /\ \A r \in Requests :
                /\ req'[r] \in ReqTypes(r) /\ req'[r].has_row = req[r].has_row
                /\ req'[r].pages = req[r].pages /\ req'[r].kv = req[r].kv
                /\ req'[r].finished <=> req[r].finished \/ r \in ends
                /\ Len(req'[r].output_ids) <= MaxTokens[r]
                /\ ~req'[r].finished => Len(req'[r].output_ids) < MaxTokens[r]
<1> DEFINE rec      == Head(result_queue).reqs
           place(r) == CHOOSE i \in DOMAIN rec : rec[i] = r
           gets     == {r \in Range(rec) : ~Skipped(r)}
           ends     == {r \in gets : r \in eos \/ AtLimit(r)}
<1>1. Head(result_queue) = result_queue[1]
  OBVIOUS
<1>2. /\ pending_release' = pending_release \o Among(rec, ends)
      /\ req' = [r \in Requests |->
          IF r \in gets
            THEN [req[r] EXCEPT !.output_ids = Append(@, pinned[place(r)]),
                                !.finished = r \in ends]
          ELSE IF r \in Range(rec) /\ ~req[r].finished
            THEN [req[r] EXCEPT !.is_retracted = FALSE]
          ELSE req[r]]
  BY DEF ProcessPending
<1> HIDE DEF gets, ends, place
<1>12. rec = result_queue[1].reqs
  BY <1>1
<1> HIDE DEF rec
<1>3. /\ rec \in Seq(Requests) /\ IsInjective(rec) /\ pinned \in Seq(Requests \X Nat)
      /\ \A r \in Range(rec) : r \in Range(running) \/ req[r].finished \/ req[r].is_retracted
  BY <1>12 DEF EngineInv, Records
<1>4. TokensOf(pinned, rec)
  BY <1>12 DEF PinnedInv
<1>5. /\ \A r \in Requests : req[r] \in ReqTypes(r)
      /\ pending_release \in Seq(Requests) /\ IsInjective(pending_release)
      /\ \A r \in Range(pending_release) : req[r].finished
      /\ \A r \in Requests : /\ Len(req[r].output_ids) <= MaxTokens[r]
                             /\ ~req[r].finished => Len(req[r].output_ids) < MaxTokens[r]
                             /\ MaxTokens[r] \in Nat
  BY EngineAssumption DEF EngineInv, Types, Holdings, Limits, EngineAssumption
<1>6. gets \in SUBSET Live /\ gets \in SUBSET Requests /\ gets \in SUBSET Range(rec)
  <2>1. \A r \in Range(rec) : r \in Requests
    BY <1>3 DEF Range
  <2> QED BY <1>3, <2>1 DEF gets, Skipped, Live
<1>7. ends \in SUBSET gets
  BY DEF ends
<1>8. ends \in SUBSET Live /\ \A r \in ends : ~req[r].finished
  BY <1>6, <1>7 DEF Live
<1>9. /\ pending_release' \in Seq(Requests) /\ IsInjective(pending_release')
      /\ Range(pending_release') = Range(pending_release) \cup ends
  <2> DEFINE t == Among(rec, ends)
  <2>1. t \in Seq(Requests) /\ IsInjective(t) /\ Range(t) = Range(rec) \cap ends
    BY <1>3, AmongIs
  <2>2. pending_release' = pending_release \o t
    BY <1>2
  <2> HIDE DEF t
  <2>3. Range(t) = ends /\ Range(pending_release) \cap Range(t) = {}
    BY <2>1, <1>5, <1>6, <1>7, <1>8
  <2> QED BY <2>1, <2>2, <2>3, <1>5, RangeConcat
<1>10. DOMAIN req' = Requests
  BY <1>2
<1>11. ASSUME NEW r \in Requests
       PROVE  /\ req'[r] \in ReqTypes(r) /\ req'[r].has_row = req[r].has_row
              /\ req'[r].pages = req[r].pages /\ req'[r].kv = req[r].kv
              /\ req'[r].finished <=> req[r].finished \/ r \in ends
              /\ Len(req'[r].output_ids) <= MaxTokens[r]
              /\ ~req'[r].finished => Len(req'[r].output_ids) < MaxTokens[r]
  <2>1. CASE r \in gets
    <3>1. place(r) \in DOMAIN rec /\ rec[place(r)] = r
      <4>1. \E i \in DOMAIN rec : rec[i] = r
        BY <2>1, <1>6 DEF Range
      <4> QED BY <4>1 DEF place
    <3> DEFINE t == pinned[place(r)]
               b == r \in ends
               x == req[r]
               y == AddToken(x, t, b)
    <3>2. t \in Token(r)
      <4> DEFINE i == place(r)
      <4>1. i \in DOMAIN pinned /\ pinned[i][1] = r
        BY <3>1, <1>4 DEF TokensOf
      <4> HIDE DEF i
      <4>2. pinned[i] \in Requests \X Nat
        BY <4>1, <1>3, Elements
      <4>3. pinned[i] \in Token(r)
        BY <4>1, <4>2 DEF Token
      <4> QED BY <4>3 DEF i
    <3>3. req'[r] = y
      BY <1>2, <2>1 DEF AddToken
    <3>4. b \in BOOLEAN
      OBVIOUS
    <3>11. x \in ReqTypes(r)
      BY <1>5
    <3>13. y = AddToken(x, t, b)
      OBVIOUS
    <3> HIDE DEF t, b, x, y
    <3>12. /\ y \in ReqTypes(r) /\ Len(y.output_ids) = Len(x.output_ids) + 1
           /\ Len(x.output_ids) \in Nat
           /\ y.has_row = x.has_row /\ y.pages = x.pages /\ y.kv = x.kv
           /\ y.finished = b
      BY <3>2, <3>4, <3>11, <3>13, TokenAdded
    <3>5. /\ y \in ReqTypes(r) /\ Len(y.output_ids) = Len(req[r].output_ids) + 1
          /\ Len(req[r].output_ids) \in Nat
          /\ y.has_row = req[r].has_row /\ y.pages = req[r].pages /\ y.kv = req[r].kv
          /\ y.finished = b
      BY <3>12 DEF x
    <3>6. ~req[r].finished
      BY <2>1, <1>6 DEF Live
    <3>7. ~b => Len(req[r].output_ids) + 1 < MaxTokens[r]
      <4>1. ~b => ~AtLimit(r)
        BY <2>1 DEF b, ends
      <4> QED BY <4>1, <3>5, <1>5 DEF AtLimit
    <3>8. Len(req[r].output_ids) + 1 <= MaxTokens[r]
      BY <3>5, <3>6, <1>5
    <3>9. y.finished <=> r \in ends
      BY <3>5 DEF b
    <3>10. ~y.finished => Len(y.output_ids) < MaxTokens[r]
      BY <3>5, <3>7, <3>9 DEF b
    <3> QED BY <3>3, <3>5, <3>6, <3>8, <3>9, <3>10
  <2>2. CASE r \notin gets /\ r \in Range(rec) /\ ~req[r].finished
    <3>1. req'[r] = [req[r] EXCEPT !.is_retracted = FALSE]
      BY <1>2, <2>2
    <3>2. req[r] \in ReqTypes(r) /\ r \notin ends
      BY <1>5, <1>7, <2>2
    <3> DEFINE x == req[r]
               y == [x EXCEPT !.is_retracted = FALSE]
    <3> HIDE DEF x
    <3>3. /\ y \in ReqTypes(r) /\ y.has_row = x.has_row /\ y.pages = x.pages /\ y.kv = x.kv
          /\ y.output_ids = x.output_ids /\ y.finished = x.finished
      BY <3>2 DEF ReqTypes, x
    <3> HIDE DEF y
    <3>4. req'[r] = y
      BY <3>1 DEF x, y
    <3> QED BY <3>2, <3>3, <3>4, <1>5 DEF x
  <2>3. CASE r \notin gets /\ ~(r \in Range(rec) /\ ~req[r].finished)
    <3>1. req'[r] = req[r] /\ r \notin ends
      BY <1>2, <1>7, <2>3
    <3> QED BY <3>1, <1>5
  <2> QED BY <2>1, <2>2, <2>3
<1> QED BY <1>8, <1>9, <1>10, <1>11

\* Placeholders stay aligned when the KV of their requests does not change.
LEMMA AlignedSame ==
  ASSUME NEW q, NEW p, \A r \in Requests : q[r].kv = p[r].kv,
         NEW ids, NEW reqs \in Seq(Requests), NEW n \in 0..Len(reqs), Aligned(q, ids, reqs, n)
  PROVE  Aligned(p, ids, reqs, n)
<1>1. \A i \in 1..n : reqs[i] \in Requests
  <2>1. Len(reqs) \in Nat /\ \A i \in 1..Len(reqs) : reqs[i] \in Requests
    BY Elements
  <2>2. \A i \in 1..n : i \in 1..Len(reqs)
    BY <2>1
  <2> QED BY <2>1, <2>2
<1>2. \A i \in 1..n : q[reqs[i]].kv = p[reqs[i]].kv
  BY <1>1
<1> QED BY <1>2 DEF Aligned

\* Phases 2, 3.5 and 5.
LEMMA ProcessKeeps ==
  ASSUME EngineInv, PinnedInv, pc \in ReadsRecord,
         pc' = IF pc = "conservative" THEN "schedule"
               ELSE IF pc = "consecutive" THEN "launch" ELSE "sample",
         NEW eos, ProcessPending(eos)
  PROVE  EngineInv'
<1>1. /\ UNCHANGED <<fresh, submitted, waiting, running, seq_lens, output_ids, free_pages,
                     can_use_placeholder, batch, pinned>>
  BY DEF ProcessPending, sched
<1>2. result_queue # << >> /\ AtMostOne(result_queue)
  BY DEF PinnedInv
<1>3. result_queue' = << >>
  BY <1>2, ProcessEmpties
<1>4. pc \notin Raised /\ pc' \notin Raised /\ pc' \in Phases
  BY DEF ReadsRecord, Raised, Phases
<1>5. PICK ends \in SUBSET Live :
        /\ pending_release' \in Seq(Requests) /\ IsInjective(pending_release')
        /\ Range(pending_release') = Range(pending_release) \cup ends
        /\ DOMAIN req' = Requests
        /\ \A r \in Requests :
             /\ req'[r] \in ReqTypes(r) /\ req'[r].has_row = req[r].has_row
             /\ req'[r].pages = req[r].pages /\ req'[r].kv = req[r].kv
             /\ req'[r].finished <=> req[r].finished \/ r \in ends
             /\ Len(req'[r].output_ids) <= MaxTokens[r]
             /\ ~req'[r].finished => Len(req'[r].output_ids) < MaxTokens[r]
  BY <1>2, <1>4, PendingIs
<1>6. Types'
  BY <1>1, <1>4, <1>5 DEF EngineInv, Types
<1>7. Live \in SUBSET Requests /\ Live' = Live \ ends
  <2>1. \A r \in Range(running) : r \in Requests
    BY Elements DEF EngineInv, Types, Range
  <2>2. Live \in SUBSET Requests
    BY <2>1 DEF Live
  <2>3. Live' = {r \in Range(running) : ~req'[r].finished}
    BY <1>1 DEF Live
  <2> QED BY <1>5, <2>1, <2>2, <2>3 DEF Live
<1>8. Limits'
  BY <1>5 DEF Limits
<1>9. Places'
  <2> DEFINE A == fresh
             B == Range(submitted)
             C == Range(waiting)
  <2>1. /\ IsInjective(submitted) /\ IsInjective(waiting) /\ IsInjective(running)
        /\ A \cap B = {} /\ A \cap C = {} /\ A \cap Live = {}
        /\ B \cap C = {} /\ B \cap Live = {} /\ C \cap Live = {}
        /\ \A r \in Requests : req[r].finished <=> r \notin A \cup B \cup C \cup Live
    BY <1>4 DEF EngineInv, Places
  <2>2. \A r \in Requests : req'[r].finished <=> r \notin A \cup B \cup C \cup Live'
    BY <2>1, <1>5, <1>7
  <2>3. A' = A /\ B' = B /\ C' = C
    BY <1>1
  <2> HIDE DEF A, B, C
  <2>4. A' \cap B' = {} /\ A' \cap C' = {} /\ A' \cap Live' = {}
        /\ B' \cap C' = {} /\ B' \cap Live' = {} /\ C' \cap Live' = {}
        /\ \A r \in Requests : req'[r].finished <=> r \notin A' \cup B' \cup C' \cup Live'
    BY <2>1, <2>2, <2>3, <1>7
  <2> QED BY <1>1, <2>1, <2>4 DEF Places, A, B, C
<1>10. Holdings'
  <2>1. /\ \A r \in Range(pending_release) : req[r].finished
        /\ \A r \in Requests : req[r].has_row <=> r \in Range(pending_release) \/ r \in Live
        /\ \A r \in Requests : req[r].pages > 0 <=> req[r].has_row
        /\ free_pages \in Nat /\ free_pages = NumPages - HeldBy(req)
    BY DEF EngineInv, Holdings
  <2>2. HeldBy(req') = HeldBy(req)
    BY <1>5, HeldSame
  <2>3. \A r \in Range(pending_release') : r \in Requests
    BY <1>5, Elements DEF Range
  <2>4. \A r \in Range(pending_release') : req'[r].finished
    BY <2>1, <2>3, <1>5
  <2>5. \A r \in Requests : req'[r].has_row <=> r \in Range(pending_release') \/ r \in Live'
    BY <2>1, <1>5, <1>7
  <2>6. \A r \in Requests : req'[r].pages > 0 <=> req'[r].has_row
    BY <2>1, <1>5
  <2> QED BY <2>1, <2>2, <2>4, <2>5, <2>6, <1>1, <1>5 DEF Holdings
<1>11. Records'
  BY <1>3 DEF Records
<1>12. Batches'
  <2>1. running \in Seq(Requests) /\ Len(running) \in Nat
    BY Elements DEF EngineInv, Types
  <2>2. ASSUME NEW n \in 0..Len(running), Aligned(req, output_ids, running, n)
        PROVE  Aligned(req', output_ids, running, n)
    BY <2>1, <2>2, <1>5, AlignedSame
  <2>3. Batches
    BY DEF EngineInv
  <2>4. CASE pc = "conservative"
    <3>1. pc' = "schedule" /\ ~can_use_placeholder
      BY <2>3, <2>4 DEF Batches
    <3>2. Aligned(req, output_ids, running, Len(running))
      BY <2>3, <2>4 DEF Batches, Raised, Scheduled
    <3>3. Aligned(req', output_ids', running', Len(running'))
      BY <3>2, <2>1, <2>2, <1>1
    <3> QED BY <3>1, <3>3, <1>1 DEF Batches, Scheduled, Launched
  <2>5. CASE pc = "consecutive"
    <3>1. pc' = "launch" /\ pc \in Scheduled
      BY <2>5 DEF Scheduled
    <3>2. CASE batch.mode = "extend"
      <4> DEFINE old == Len(running) - Len(batch.reqs)
      <4>1. /\ old \in Nat /\ Aligned(req, output_ids, running, old)
            /\ batch.reqs \in Seq(Requests) /\ IsInjective(batch.reqs) /\ batch.reqs # << >>
            /\ Range(batch.reqs) \subseteq Range(running)
            /\ \A i \in DOMAIN batch.reqs : batch.reqs[i] = running[old + i]
        BY <2>3, <3>1, <3>2 DEF Batches
      <4>2. old \in 0..Len(running)
        <5>1. Len(batch.reqs) \in Nat
          BY <4>1, Elements
        <5> QED BY <5>1, <4>1, <2>1
      <4>3. Aligned(req', output_ids, running, old)
        BY <4>1, <4>2, <2>2
      <4> QED BY <3>1, <3>2, <4>1, <4>3, <1>1 DEF Batches, Scheduled, Launched, Raised
    <3>3. CASE batch.mode # "extend"
      BY <2>3, <3>1, <3>3, <1>1 DEF Batches, Scheduled, Launched, Raised
    <3> QED BY <3>2, <3>3
  <2>6. CASE pc = "overlap"
    <3>1. pc' = "sample"
      BY <2>6
    <3>2. Aligned(req, output_ids, running, Len(running))
      BY <2>3, <2>6 DEF Batches, Raised, Scheduled
    <3>3. Aligned(req', output_ids', running', Len(running'))
      BY <3>2, <2>1, <2>2, <1>1
    <3> QED BY <2>3, <2>6, <3>1, <3>3, <1>1 DEF Batches, Scheduled, Launched
  <2> QED BY <2>4, <2>5, <2>6 DEF ReadsRecord
<1>13. Ends'
  BY DEF Ends, ReadsRecord
<1>14. PrefillFits'
  BY <1>4 DEF PrefillFits, Raised
<1> QED BY <1>6, <1>8, <1>9, <1>10, <1>11, <1>12, <1>13, <1>14 DEF EngineInv

\* A step that leaves the requests, the running batch and the memory alone.
LEMMA FrameKeeps ==
  ASSUME EngineInv, UNCHANGED <<running, seq_lens, output_ids, free_pages, pending_release, req>>,
         pc' \in Phases \/ pc' = pc, fresh' \subseteq Requests,
         submitted' \in Seq(Requests), waiting' \in Seq(Requests)
  PROVE  /\ PrefillFits' /\ Types' /\ Limits' /\ Holdings' /\ Live' = Live
<1>1. Live' = Live
  BY DEF Live
<1>2. Types'
  BY DEF EngineInv, Types
<1>3. Limits'
  BY DEF EngineInv, Limits
<1>4. Holdings'
  BY <1>1 DEF EngineInv, Holdings
<1>5. PrefillFits'
  BY DEF EngineInv, PrefillFits, Phases
<1> QED BY <1>1, <1>2, <1>3, <1>4, <1>5

\* generate(): its prompts move to the waiting queue.
LEMMA GenerateKeeps ==
  ASSUME EngineInv, NEW prompts \in SetToAllKPermutations(fresh) \ {<< >>}, Generate(prompts)
  PROVE  EngineInv'
<1>1. /\ pc = "idle" /\ pc' = "recv" /\ waiting' = waiting \o prompts
      /\ fresh' = fresh \ Range(prompts)
      /\ UNCHANGED <<submitted, running, seq_lens, output_ids, can_use_placeholder, batch,
                     result_queue, pinned, pending_release, free_pages, req>>
  BY DEF Generate, exec
<1>2. fresh \subseteq Requests /\ waiting \in Seq(Requests) /\ submitted \in Seq(Requests)
  BY DEF EngineInv, Types
<1>3. prompts \in Seq(fresh) /\ IsInjective(prompts)
  <2>1. IsFiniteSet(fresh)
    BY <1>2, FS_Subset, EngineAssumption DEF EngineAssumption
  <2> QED BY <2>1, Permuted
<1>4. Range(prompts) \subseteq fresh /\ prompts \in Seq(Requests)
  BY <1>2, <1>3 DEF Range
<1>5. /\ waiting' \in Seq(Requests) /\ Range(waiting') = Range(waiting) \cup Range(prompts)
      /\ IsInjective(waiting') <=>
           IsInjective(waiting) /\ IsInjective(prompts) /\ Range(waiting) \cap Range(prompts) = {}
  BY <1>1, <1>2, <1>4, RangeConcat
<1>6. PrefillFits' /\ Types' /\ Limits' /\ Holdings' /\ Live' = Live
  <2>1. fresh' \subseteq Requests /\ pc' \in Phases /\ submitted' \in Seq(Requests)
    BY <1>1, <1>2 DEF Phases
  <2> QED BY <2>1, <1>1, <1>5, FrameKeeps
<1>7. Places'
  <2> DEFINE A == fresh
             B == Range(submitted)
             C == Range(waiting)
             P == Range(prompts)
  <2>1. /\ IsInjective(submitted) /\ IsInjective(waiting) /\ IsInjective(running)
        /\ A \cap B = {} /\ A \cap C = {} /\ A \cap Live = {}
        /\ B \cap C = {} /\ B \cap Live = {} /\ C \cap Live = {}
        /\ \A r \in Requests : req[r].finished <=> r \notin A \cup B \cup C \cup Live
    BY <1>1 DEF EngineInv, Places, Raised
  <2>2. A' = A \ P /\ B' = B /\ C' = C \cup P /\ P \subseteq A
    BY <1>1, <1>4, <1>5
  <2>3. IsInjective(submitted') /\ IsInjective(waiting') /\ IsInjective(running')
    BY <1>1, <1>3, <1>5, <2>1, <2>2
  <2> HIDE DEF A, B, C, P
  <2>4. /\ A' \cap B' = {} /\ A' \cap C' = {} /\ A' \cap Live' = {}
        /\ B' \cap C' = {} /\ B' \cap Live' = {} /\ C' \cap Live' = {}
        /\ \A r \in Requests : req'[r].finished <=> r \notin A' \cup B' \cup C' \cup Live'
    BY <2>1, <2>2, <1>1, <1>6
  <2> QED BY <2>3, <2>4 DEF Places, A, B, C
<1>8. Records'
  BY <1>1 DEF EngineInv, Records, Ends
<1>9. Batches'
  <2>1. Aligned(req, output_ids, running, Len(running))
    BY <1>1 DEF EngineInv, Batches, Scheduled, Raised
  <2> QED BY <2>1, <1>1 DEF Batches, Scheduled, Launched
<1>10. Ends'
  BY <1>1 DEF Ends
<1> QED BY <1>6, <1>7, <1>8, <1>9, <1>10 DEF EngineInv

\* submit_request.
LEMMA SubmitKeeps ==
  ASSUME EngineInv, NEW s \in Requests, Submit(s)
  PROVE  EngineInv'
<1>1. /\ s \in fresh /\ submitted' = Append(submitted, s) /\ fresh' = fresh \ {s}
      /\ UNCHANGED <<pc, waiting, running, seq_lens, output_ids, can_use_placeholder, batch,
                     result_queue, pinned, pending_release, free_pages, req>>
  BY DEF Submit, exec, sched
<1>2. fresh \subseteq Requests /\ waiting \in Seq(Requests) /\ submitted \in Seq(Requests)
  BY DEF EngineInv, Types
<1>5. /\ submitted' \in Seq(Requests) /\ Range(submitted') = Range(submitted) \cup {s}
      /\ IsInjective(submitted) /\ s \notin Range(submitted) => IsInjective(submitted')
  BY <1>1, <1>2, RangeAppend
<1>6. PrefillFits' /\ Types' /\ Limits' /\ Holdings' /\ Live' = Live
  <2>1. fresh' \subseteq Requests /\ pc' = pc /\ waiting' \in Seq(Requests)
    BY <1>1, <1>2
  <2> QED BY <2>1, <1>1, <1>5, FrameKeeps
<1>7. Places'
  <2> SUFFICES ASSUME pc \notin Raised PROVE Places'
    BY <1>1 DEF Places
  <2> DEFINE A == fresh
             B == Range(submitted)
             C == Range(waiting)
  <2>1. /\ IsInjective(submitted) /\ IsInjective(waiting) /\ IsInjective(running)
        /\ A \cap B = {} /\ A \cap C = {} /\ A \cap Live = {}
        /\ B \cap C = {} /\ B \cap Live = {} /\ C \cap Live = {}
        /\ \A r \in Requests : req[r].finished <=> r \notin A \cup B \cup C \cup Live
    BY DEF EngineInv, Places
  <2>2. A' = A \ {s} /\ B' = B \cup {s} /\ C' = C /\ s \in A
    BY <1>1, <1>5
  <2>3. IsInjective(submitted') /\ IsInjective(waiting') /\ IsInjective(running')
    BY <1>1, <1>5, <2>1, <2>2
  <2> HIDE DEF A, B, C
  <2>4. /\ A' \cap B' = {} /\ A' \cap C' = {} /\ A' \cap Live' = {}
        /\ B' \cap C' = {} /\ B' \cap Live' = {} /\ C' \cap Live' = {}
        /\ \A r \in Requests : req'[r].finished <=> r \notin A' \cup B' \cup C' \cup Live'
    BY <2>1, <2>2, <1>1, <1>6
  <2> QED BY <2>3, <2>4 DEF Places, A, B, C
<1>8. Records'
  BY <1>1 DEF EngineInv, Records
<1>9. Batches'
  BY <1>1 DEF EngineInv, Batches
<1>10. Ends'
  BY <1>1 DEF EngineInv, Ends
<1> QED BY <1>6, <1>7, <1>8, <1>9, <1>10 DEF EngineInv

\* Phases 0 and 1: what was submitted moves to the waiting queue.
LEMMA RecvKeeps ==
  ASSUME EngineInv, RecvRequests
  PROVE  EngineInv'
<1>1. /\ pc = "recv" /\ waiting' = waiting \o submitted /\ submitted' = << >>
      /\ UNCHANGED <<fresh, running, seq_lens, output_ids, batch,
                     result_queue, pinned, pending_release, free_pages, req>>
      /\ pc' \in {"conservative", "schedule"}
      /\ can_use_placeholder' => output_ids # << >>
      /\ pc' = "conservative" => ~can_use_placeholder'
  BY DEF RecvRequests, exec
<1>2. fresh \subseteq Requests /\ waiting \in Seq(Requests) /\ submitted \in Seq(Requests)
  BY DEF EngineInv, Types
<1>5. /\ waiting' \in Seq(Requests) /\ Range(waiting') = Range(waiting) \cup Range(submitted)
      /\ IsInjective(waiting') <=>
           IsInjective(waiting) /\ IsInjective(submitted) /\ Range(waiting) \cap Range(submitted) = {}
  BY <1>1, <1>2, RangeConcat
<1>4. submitted' \in Seq(Requests) /\ IsInjective(submitted') /\ Range(submitted') = {}
  BY <1>1 DEF IsInjective, Range
<1>6. PrefillFits' /\ Types' /\ Limits' /\ Holdings' /\ Live' = Live
  <2>1. fresh' \subseteq Requests /\ pc' \in Phases
    BY <1>1, <1>2 DEF Phases
  <2> QED BY <2>1, <1>1, <1>4, <1>5, FrameKeeps
<1>7. Places'
  <2> DEFINE A == fresh
             B == Range(submitted)
             C == Range(waiting)
  <2>1. /\ IsInjective(submitted) /\ IsInjective(waiting) /\ IsInjective(running)
        /\ A \cap B = {} /\ A \cap C = {} /\ A \cap Live = {}
        /\ B \cap C = {} /\ B \cap Live = {} /\ C \cap Live = {}
        /\ \A r \in Requests : req[r].finished <=> r \notin A \cup B \cup C \cup Live
    BY <1>1 DEF EngineInv, Places, Raised
  <2>2. A' = A /\ B' = {} /\ C' = C \cup B
    BY <1>1, <1>4, <1>5
  <2>3. IsInjective(submitted') /\ IsInjective(waiting') /\ IsInjective(running')
    BY <1>1, <1>4, <1>5, <2>1
  <2> HIDE DEF A, B, C
  <2>4. /\ A' \cap B' = {} /\ A' \cap C' = {} /\ A' \cap Live' = {}
        /\ B' \cap C' = {} /\ B' \cap Live' = {} /\ C' \cap Live' = {}
        /\ \A r \in Requests : req'[r].finished <=> r \notin A' \cup B' \cup C' \cup Live'
    BY <2>1, <2>2, <1>1, <1>6
  <2> QED BY <2>3, <2>4 DEF Places, A, B, C
<1>8. Records'
  BY <1>1 DEF EngineInv, Records, Raised
<1>9. Batches'
  <2>1. Aligned(req, output_ids, running, Len(running))
    BY <1>1 DEF EngineInv, Batches, Scheduled, Raised
  <2> QED BY <2>1, <1>1 DEF Batches, Scheduled, Launched
<1>10. Ends'
  BY <1>1 DEF Ends
<1> QED BY <1>6, <1>7, <1>8, <1>9, <1>10 DEF EngineInv

\* Phase 4 with nothing to run.
LEMMA LaunchNothingKeeps ==
  ASSUME EngineInv, PinnedInv, LaunchNothing
  PROVE  EngineInv'
<1>1. /\ pc = "launch" /\ batch.mode = "none" /\ pc' = "drain"
      /\ UNCHANGED <<fresh, submitted, waiting, running, seq_lens, output_ids, batch,
                     can_use_placeholder, result_queue, pinned, pending_release, free_pages, req>>
  BY DEF LaunchNothing, exec, sched
<1>2. fresh \subseteq Requests /\ waiting \in Seq(Requests) /\ submitted \in Seq(Requests)
  BY DEF EngineInv, Types
<1>6. PrefillFits' /\ Types' /\ Limits' /\ Holdings' /\ Live' = Live
  <2>1. fresh' \subseteq Requests /\ pc' \in Phases /\ submitted' \in Seq(Requests)
        /\ waiting' \in Seq(Requests)
    BY <1>1, <1>2 DEF Phases
  <2> QED BY <2>1, <1>1, FrameKeeps
<1>7. Places'
  BY <1>1, <1>6 DEF EngineInv, Places, Raised
<1>8. Records'
  BY <1>1 DEF EngineInv, Records, Raised
<1>9. Batches'
  <2>1. output_ids = << >>
    BY <1>1 DEF EngineInv, Batches, Scheduled
  <2> QED BY <2>1, <1>1 DEF Batches, Scheduled, Launched, Aligned
<1>10. Ends'
  <2>1. result_queue = << >>
    BY <1>1 DEF PinnedInv, DisableOverlap
  <2> QED BY <2>1, <1>1 DEF Ends
<1> QED BY <1>6, <1>7, <1>8, <1>9, <1>10 DEF EngineInv

\* Phase 4.5: the record of the forward pass joins the queue.
LEMMA LaunchSampleKeeps ==
  ASSUME EngineInv, PinnedInv, LaunchSample
  PROVE  EngineInv'
<1> DEFINE rec == [reqs |-> batch.reqs, stale |-> {}]
<1>1. /\ pc = "sample" /\ pc' = "drain" /\ pinned' = batch.sampled
      /\ result_queue' = Append(result_queue, rec)
      /\ UNCHANGED <<fresh, submitted, waiting, running, seq_lens, output_ids, batch,
                     can_use_placeholder, pending_release, free_pages, req>>
  BY DEF LaunchSample, sched
<1> HIDE DEF rec
<1>2. fresh \subseteq Requests /\ waiting \in Seq(Requests) /\ submitted \in Seq(Requests)
  BY DEF EngineInv, Types
<1>3. /\ batch.reqs \in Seq(Requests) /\ IsInjective(batch.reqs) /\ batch.reqs # << >>
      /\ Range(batch.reqs) \subseteq Range(running) /\ batch.sampled \in Seq(Requests \X Nat)
      /\ Aligned(req, output_ids, running, Len(running))
  BY <1>1 DEF EngineInv, Batches, Launched, Scheduled, Raised
<1>4. result_queue'[1].reqs = batch.reqs
  <2>1. result_queue = << >>
    BY <1>1 DEF PinnedInv
  <2>2. Append(<< >>, rec) = <<rec>>
    OBVIOUS
  <2>3. result_queue' = <<rec>>
    BY <2>1, <2>2, <1>1
  <2>4. result_queue'[1] = rec
    BY <2>3
  <2> QED BY <2>4 DEF rec
<1>6. PrefillFits' /\ Types' /\ Limits' /\ Holdings' /\ Live' = Live
  <2>1. fresh' \subseteq Requests /\ pc' \in Phases /\ submitted' \in Seq(Requests)
        /\ waiting' \in Seq(Requests)
    BY <1>1, <1>2 DEF Phases
  <2> QED BY <2>1, <1>1, FrameKeeps
<1>7. Places'
  BY <1>1, <1>6 DEF EngineInv, Places, Raised
<1>8. Records'
  BY <1>1, <1>3, <1>4 DEF Records
<1>9. Batches'
  BY <1>1, <1>3 DEF Batches, Scheduled, Launched
<1>10. Ends'
  <2>1. running # << >>
    <3>1. 1 \in DOMAIN batch.reqs
      BY <1>3
    <3>2. batch.reqs[1] \in Range(running)
      BY <3>1, <1>3 DEF Range
    <3> QED BY <3>2 DEF Range
  <2> QED BY <2>1, <1>1 DEF Ends
<1> QED BY <1>6, <1>7, <1>8, <1>9, <1>10 DEF EngineInv

\* drain_pending_releases: rows and pages of the finished come back.
LEMMA DrainKeeps ==
  ASSUME EngineInv, Drain
  PROVE  EngineInv'
<1> DEFINE done == Range(pending_release)
<1>1. /\ \A r \in Requests : req[r] \in ReqTypes(r)
      /\ \A r \in done : req[r].finished /\ r \in Requests
      /\ \A r \in Requests : req[r].has_row <=> r \in done \/ r \in Live
      /\ \A r \in Requests : req[r].pages > 0 <=> req[r].has_row
      /\ free_pages \in Nat /\ free_pages = NumPages - HeldBy(req)
      /\ IsInjective(pending_release) /\ NumPages \in Nat
      /\ fresh \subseteq Requests /\ waiting \in Seq(Requests) /\ submitted \in Seq(Requests)
      /\ running \in Seq(Requests)
  <2>1. pending_release \in Seq(Requests)
    BY DEF EngineInv, Types
  <2>2. \A r \in done : r \in Requests
    BY <2>1, Elements DEF Range
  <2> QED BY <2>2, EngineAssumption DEF EngineInv, Types, Holdings, EngineAssumption
<1>2. \A r \in done : req[r].has_row
  BY <1>1
<1>3. /\ pc = "drain" /\ pending_release' = << >> /\ batch' = NoBatch
      /\ UNCHANGED <<fresh, submitted, waiting, running, seq_lens, output_ids,
                     can_use_placeholder, result_queue, pinned>>
      /\ free_pages' = free_pages + NumHeld(done)
      /\ req' = [r \in Requests |-> IF r \in done THEN Unreleased(r) ELSE req[r]]
      /\ pc' = IF HasUnfinished THEN "recv" ELSE "idle"
  BY <1>1, <1>2 DEF Drain, exec
<1> HIDE DEF done
<1>4. DOMAIN req' = Requests
  BY <1>3
<1>5. ASSUME NEW r \in Requests
      PROVE  /\ req'[r] \in ReqTypes(r) /\ req'[r].kv = req[r].kv
             /\ req'[r].finished = req[r].finished /\ req'[r].output_ids = req[r].output_ids
             /\ req'[r].is_retracted = req[r].is_retracted
             /\ req'[r].pages = IF r \in done THEN 0 ELSE req[r].pages
             /\ req'[r].has_row = IF r \in done THEN FALSE ELSE req[r].has_row
  <2>1. CASE r \in done
    <3> DEFINE x == req[r]
               y == [x EXCEPT !.has_row = FALSE, !.pages = 0]
    <3>1. req'[r] = y
      BY <1>3, <2>1 DEF Unreleased
    <3>2. x \in ReqTypes(r)
      BY <1>1
    <3> HIDE DEF x
    <3>3. /\ y \in ReqTypes(r) /\ y.kv = x.kv /\ y.finished = x.finished
          /\ y.output_ids = x.output_ids /\ y.pages = 0 /\ ~y.has_row
          /\ y.is_retracted = x.is_retracted
      BY <3>2 DEF ReqTypes
    <3>4. y.has_row \in BOOLEAN
      BY <3>3 DEF ReqTypes
    <3> HIDE DEF y
    <3> QED BY <3>1, <3>3, <3>4, <2>1 DEF x
  <2>2. CASE r \notin done
    <3>1. req'[r] = req[r]
      BY <1>3, <2>2
    <3> QED BY <3>1, <2>2, <1>1
  <2> QED BY <2>1, <2>2
<1>6. Live' = Live /\ Live \subseteq Requests
  <2>1. \A r \in Range(running) : r \in Requests
    BY <1>1, Elements DEF Range
  <2>2. Live' = {r \in Range(running) : ~req'[r].finished}
    BY <1>3 DEF Live
  <2> QED BY <2>1, <2>2, <1>5 DEF Live
<1>7. pc' \in {"recv", "idle"}
  BY <1>3
<1>8. Types'
  <2>1. pending_release' \in Seq(Requests) /\ pc' \in Phases
    BY <1>3, <1>7 DEF Phases
  <2> QED BY <2>1, <1>3, <1>4, <1>5 DEF EngineInv, Types
<1>9. Limits'
  BY <1>5 DEF EngineInv, Limits
<1>10. Places'
  <2>1. Places /\ pc \notin Raised
    BY <1>3 DEF EngineInv, Raised
  <2>2. \A r \in Requests : req'[r].finished = req[r].finished
    BY <1>5
  <2> QED BY <2>1, <2>2, <1>3, <1>6 DEF Places
<1>11. Holdings'
  <2>1. HeldBy(req) = HeldBy(req') + NumHeld(done) /\ NumHeld(done) \in Nat
    <3>1. done \in SUBSET Requests /\ \A r \in Requests : req[r].pages \in Nat
      BY <1>1 DEF ReqTypes
    <3>2. /\ HeldBy(req) = HeldBy(req') + Cardinality(PagesOf(done, [r \in done |-> req[r].pages]))
          /\ Cardinality(PagesOf(done, [r \in done |-> req[r].pages])) \in Nat
      <4>1. \A r \in Requests : req'[r].pages = IF r \in done THEN 0 ELSE req[r].pages
        BY <1>5
      <4> QED BY <3>1, <4>1, HeldReturned
    <3> QED BY <3>2 DEF NumHeld, Held
  <2>2. HeldBy(req') \in Nat
    <3>1. \A r \in Requests : req'[r].pages \in Nat
      BY <1>5 DEF ReqTypes
    <3> QED BY <3>1, HeldNat
  <2>3. free_pages' \in Nat /\ free_pages' = NumPages - HeldBy(req')
    BY <2>1, <2>2, <1>1, <1>3
  <2>4. Range(pending_release') = {} /\ IsInjective(pending_release')
    BY <1>3 DEF Range, IsInjective
  <2>5. \A r \in Requests : req'[r].has_row <=> r \in Live'
    BY <1>1, <1>5, <1>6 DEF Live
  <2>6. ASSUME NEW r \in Requests PROVE req'[r].pages > 0 <=> req'[r].has_row
    <3>1. CASE r \in done
      <4>1. req'[r].pages = 0 /\ ~req'[r].has_row
        BY <3>1, <1>5
      <4> QED BY <4>1
    <3>2. CASE r \notin done
      <4>1. req'[r].pages = req[r].pages /\ req'[r].has_row = req[r].has_row
        BY <3>2, <1>5
      <4> QED BY <4>1, <1>1
    <3> QED BY <3>1, <3>2
  <2> QED BY <2>3, <2>4, <2>5, <2>6 DEF Holdings
<1>12. Records'
  <2>1. Records /\ pc \notin Raised
    BY <1>3 DEF EngineInv, Raised
  <2> SUFFICES ASSUME result_queue # << >> PROVE Records'
    BY <1>3 DEF Records
  <2>2. \A r \in Range(result_queue[1].reqs) : r \in Requests
    BY <2>1, Elements DEF Records, Range
  <2> QED BY <2>1, <2>2, <1>3, <1>5 DEF Records
<1>13. Batches'
  <2>1. Aligned(req, output_ids, running, Len(running)) /\ Len(running) \in 0..Len(running)
    BY <1>1, <1>3 DEF EngineInv, Batches, Scheduled, Raised
  <2>2. Aligned(req', output_ids, running, Len(running))
    BY <2>1, <1>1, <1>5, AlignedSame
  <2> QED BY <2>2, <1>3, <1>7 DEF Batches, Scheduled, Launched
<1>14. Ends'
  <2>1. running # << >> \/ result_queue = << >>
    BY <1>3 DEF EngineInv, Ends
  <2>2. pc' = "idle" => running = << >>
    BY <1>3 DEF HasUnfinished
  <2> QED BY <2>1, <2>2, <1>3, <1>7 DEF Ends
<1>15. PrefillFits'
  BY <1>7 DEF PrefillFits
<1> QED BY <1>8, <1>9, <1>10, <1>11, <1>12, <1>13, <1>14, <1>15 DEF EngineInv

\* Phase 4: placeholders are written for the tokens to come.
LEMMA LaunchKeeps ==
  ASSUME EngineInv, PinnedInv, Launch
  PROVE  EngineInv'
<1> DEFINE sampled == [i \in DOMAIN batch.reqs |-> Sample(i)]
           feeds(r) == batch.mode = "decode" /\ r \in Range(batch.reqs)
           fed(r) == batch.input[CHOOSE i \in DOMAIN batch.reqs : batch.reqs[i] = r]
<1>1. /\ pc = "launch" /\ batch.mode # "none"
      /\ batch' = [batch EXCEPT !.sampled = sampled]
      /\ output_ids' = IF batch.mode = "decode" THEN sampled ELSE Propagated(sampled)
      /\ req' = [r \in Requests |->
                   IF feeds(r) THEN [req[r] EXCEPT !.kv = Append(@, fed(r))] ELSE req[r]]
      /\ pc' = AfterLaunch
      /\ UNCHANGED <<fresh, submitted, waiting, running, seq_lens, free_pages,
                     can_use_placeholder, result_queue, pinned, pending_release>>
  BY DEF Launch, exec
<1> HIDE DEF fed
<1>2. pc' \in Launched
  BY <1>1 DEF AfterLaunch, Launched
<1>3. /\ batch.mode \in {"extend", "decode"}
      /\ batch.reqs \in Seq(Requests) /\ IsInjective(batch.reqs) /\ batch.reqs # << >>
      /\ Range(batch.reqs) \subseteq Range(running)
      /\ running \in Seq(Requests) /\ output_ids \in Seq(Requests \X Nat)
      /\ \A r \in Requests : req[r] \in ReqTypes(r)
  BY <1>1 DEF EngineInv, Types, Batches, Scheduled
<1>4. Len(running) \in Nat /\ Len(batch.reqs) \in Nat
      /\ DOMAIN running = 1..Len(running) /\ DOMAIN batch.reqs = 1..Len(batch.reqs)
      /\ (\A i \in 1..Len(running) : running[i] \in Requests)
      /\ (\A i \in 1..Len(batch.reqs) : batch.reqs[i] \in Requests)
  BY <1>3, Elements
<1>5. batch.mode = "decode" =>
        /\ batch.reqs = running
        /\ \A i \in DOMAIN running : batch.input[i] \in Token(running[i])
  BY <1>1 DEF EngineInv, Batches, Scheduled
<1>6. ASSUME NEW r \in Requests
      PROVE  /\ req'[r] \in ReqTypes(r)
             /\ req'[r].finished = req[r].finished /\ req'[r].output_ids = req[r].output_ids
             /\ req'[r].pages = req[r].pages /\ req'[r].has_row = req[r].has_row
             /\ req'[r].is_retracted = req[r].is_retracted
             /\ Len(req[r].kv) \in Nat
             /\ Len(req'[r].kv) = IF feeds(r) THEN Len(req[r].kv) + 1 ELSE Len(req[r].kv)
  <2> DEFINE x == req[r]
             t == fed(r)
             kv == Append(x.kv, t)
             y == [x EXCEPT !.kv = kv]
  <2>1. x \in ReqTypes(r)
    BY <1>3
  <2>2. x.kv \in Seq(Token(r)) /\ Len(x.kv) \in Nat
    BY <2>1 DEF ReqTypes
  <2>3. CASE feeds(r)
    <3>1. t \in Token(r)
      <4>1. \E i \in DOMAIN batch.reqs : batch.reqs[i] = r
        BY <2>3 DEF Range
      <4> DEFINE i == CHOOSE i \in DOMAIN batch.reqs : batch.reqs[i] = r
      <4>2. i \in DOMAIN batch.reqs /\ batch.reqs[i] = r
        BY <4>1
      <4>3. t = batch.input[i]
        BY DEF fed
      <4> HIDE DEF i, t
      <4>4. running[i] = r /\ batch.input[i] \in Token(running[i])
        BY <4>2, <1>5, <2>3
      <4> QED BY <4>3, <4>4
    <3> HIDE DEF x, t
    <3>2. kv \in Seq(Token(r)) /\ Len(kv) = Len(x.kv) + 1
      BY <2>2, <3>1, AppendProperties
    <3> HIDE DEF kv
    <3>3. /\ y \in ReqTypes(r) /\ y.kv = kv /\ y.finished = x.finished
          /\ y.output_ids = x.output_ids /\ y.pages = x.pages /\ y.has_row = x.has_row
          /\ y.is_retracted = x.is_retracted
      BY <2>1, <3>2 DEF ReqTypes
    <3> HIDE DEF y
    <3>4. req'[r] = y
      BY <1>1, <2>3 DEF y, kv, x, t
    <3> HIDE DEF feeds
    <3>5. Len(y.kv) = Len(x.kv) + 1
      BY <3>2, <3>3
    <3> QED BY <2>2, <2>3, <3>3, <3>4, <3>5 DEF x
  <2>4. CASE ~feeds(r)
    <3>1. req'[r] = req[r]
      BY <1>1, <2>4
    <3> HIDE DEF feeds
    <3> QED BY <2>1, <2>2, <2>4, <3>1
  <2> QED BY <2>3, <2>4
<1>7. DOMAIN req' = Requests
  BY <1>1
<1>8. sampled \in Seq(Requests \X Nat) /\ Len(sampled) = Len(batch.reqs)
      /\ \A i \in 1..Len(batch.reqs) :
           sampled[i] = <<batch.reqs[i], Len(req[batch.reqs[i]].kv)
                                           + (IF batch.mode = "decode" THEN 2 ELSE 1)>>
  <2>1. \A i \in 1..Len(batch.reqs) :
          sampled[i] = <<batch.reqs[i], Len(req[batch.reqs[i]].kv)
                                           + (IF batch.mode = "decode" THEN 2 ELSE 1)>>
    BY <1>4 DEF Sample
  <2> DEFINE n == Len(batch.reqs)
  <2>2. ASSUME NEW i \in 1..n PROVE sampled[i] \in Requests \X Nat
    <3> DEFINE r == batch.reqs[i]
               k == Len(req[r].kv)
    <3>1. r \in Requests /\ k \in Nat
      BY <1>4, <1>6
    <3>2. sampled[i] = <<r, k + (IF batch.mode = "decode" THEN 2 ELSE 1)>>
      BY <2>1
    <3> HIDE DEF r, k, sampled
    <3> QED BY <3>1, <3>2
  <2>4. sampled = [i \in 1..n |-> sampled[i]]
    BY <1>4
  <2>5. n \in Nat
    BY <1>4
  <2> HIDE DEF sampled, n
  <2>6. sampled \in [1..n -> Requests \X Nat]
    BY <2>2, <2>4
  <2>7. sampled \in Seq(Requests \X Nat) /\ Len(sampled) = n
    BY <2>5, <2>6
  <2> QED BY <2>1, <2>7 DEF n
<1> HIDE DEF sampled, feeds
<1>9. output_ids' \in Seq(Requests \X Nat) /\ Aligned(req', output_ids', running, Len(running))
  <2>1. CASE batch.mode = "decode"
    <3>1. output_ids' = sampled /\ batch.reqs = running
      BY <2>1, <1>1, <1>5
    <3>2. \A i \in 1..Len(running) : feeds(running[i])
      BY <2>1, <3>1, <1>4 DEF feeds, Range
    <3>3. ASSUME NEW i \in 1..Len(running)
          PROVE  Len(req'[running[i]].kv) + 1 = Len(req[running[i]].kv) + 2
      <4> DEFINE r == running[i]
                 k == Len(req[r].kv)
      <4>1. r \in Requests /\ feeds(r)
        BY <3>2, <1>4
      <4> HIDE DEF r
      <4>2. Len(req'[r].kv) = k + 1 /\ k \in Nat
        BY <4>1, <1>6
      <4> HIDE DEF k
      <4>3. Len(req'[r].kv) + 1 = k + 2
        BY <4>2
      <4> QED BY <4>3 DEF r, k
    <3>4. \A i \in 1..Len(running) : sampled[i] = <<running[i], Len(req'[running[i]].kv) + 1>>
      BY <2>1, <3>1, <3>3, <1>8
    <3> QED BY <3>1, <3>4, <1>8 DEF Aligned
  <2>2. CASE batch.mode = "extend"
    <3> DEFINE old == Len(running) - Len(sampled)
               n == Len(running)
               head == SubSeq(output_ids, 1, old)
    <3>1. /\ old \in Nat /\ Aligned(req, output_ids, running, old)
          /\ \A i \in DOMAIN batch.reqs : batch.reqs[i] = running[old + i]
      BY <2>2, <1>1, <1>8 DEF EngineInv, Batches, Scheduled
    <3>2. output_ids' = IF Len(output_ids) < old THEN << >> ELSE head \o sampled
      BY <2>2, <1>1 DEF Propagated
    <3>3. \A r \in Requests : Len(req'[r].kv) = Len(req[r].kv)
      BY <2>2, <1>6 DEF feeds
    <3>4. n = old + Len(sampled) /\ Len(sampled) \in Nat /\ n \in Nat
      BY <1>4, <1>8
    <3>5. Len(output_ids) \in Nat
      BY <1>3
    <3> HIDE DEF old
    <3>6. CASE Len(output_ids) < old
      BY <3>2, <3>6 DEF Aligned
    <3>7. CASE ~(Len(output_ids) < old)
      <4>1. Len(output_ids) = old /\
            \A i \in 1..old : output_ids[i] = <<running[i], Len(req[running[i]].kv) + 1>>
        <5>1. CASE output_ids = << >>
          <6>1. Len(output_ids) = 0 /\ old = 0
            BY <5>1, <3>1, <3>7
          <6> QED BY <6>1
        <5>2. CASE output_ids # << >>
          BY <5>2, <3>1 DEF Aligned
        <5> QED BY <5>1, <5>2
      <4>2. head \in Seq(Requests \X Nat) /\ Len(head) = old /\ \A i \in 1..old : head[i] = output_ids[i]
        <5>1. old \in 0..Len(output_ids)
          BY <4>1, <3>1
        <5> QED BY <5>1, <1>3, PartIs
      <4> HIDE DEF head
      <4> DEFINE c == head \o sampled
      <4>3. /\ c \in Seq(Requests \X Nat) /\ Len(c) = n
            /\ \A i \in 1..n : c[i] = IF i <= old THEN head[i] ELSE sampled[i - old]
        <5>1. head \in Seq(Requests \X Nat) /\ sampled \in Seq(Requests \X Nat)
          BY <4>2, <1>8
        <5>2. /\ c \in Seq(Requests \X Nat) /\ Len(c) = Len(head) + Len(sampled)
              /\ \A i \in 1..Len(head) + Len(sampled) :
                   c[i] = IF i <= Len(head) THEN head[i] ELSE sampled[i - Len(head)]
          BY ONLY <5>1, ConcatProperties
        <5>3. Len(head) = old /\ n = old + Len(sampled)
          BY <4>2, <3>4
        <5> HIDE DEF c, n
        <5> QED BY ONLY <5>2, <5>3
      <4> HIDE DEF c
      <4>4. ASSUME NEW i \in 1..n PROVE c[i] = <<running[i], Len(req'[running[i]].kv) + 1>>
        <5>0. Len(req'[running[i]].kv) = Len(req[running[i]].kv)
          BY <3>3, <1>4
        <5>1. CASE i <= old
          <6>1. i \in 1..old
            BY <5>1, <3>1
          <6>2. c[i] = output_ids[i]
            BY <4>2, <4>3, <5>1, <6>1
          <6> QED BY <6>1, <6>2, <4>1, <5>0
        <5>2. CASE ~(i <= old)
          <6>1. i - old \in 1..Len(batch.reqs) /\ old + (i - old) = i
            BY <5>2, <3>1, <3>4, <1>8
          <6>2. c[i] = sampled[i - old] /\ batch.reqs[i - old] = running[i]
            BY <4>3, <5>2, <6>1, <3>1, <1>4
          <6> QED BY <6>1, <6>2, <5>0, <1>8, <2>2
        <5> QED BY <5>1, <5>2
      <4>5. output_ids' = c
        BY <3>2, <3>7 DEF c
      <4> QED BY <4>3, <4>4, <4>5 DEF Aligned
    <3> QED BY <3>6, <3>7
  <2> QED BY <2>1, <2>2, <1>3
<1>10. Live' = Live /\ Live \subseteq Requests
  <2>1. \A r \in Range(running) : r \in Requests
    BY <1>3, Elements DEF Range
  <2>2. Live' = {r \in Range(running) : ~req'[r].finished}
    BY <1>1 DEF Live
  <2> QED BY <2>1, <2>2, <1>6 DEF Live
<1>11. Types'
  <2>1. pc' \in Phases
    BY <1>2 DEF Launched, Phases
  <2> QED BY <2>1, <1>1, <1>6, <1>7, <1>9 DEF EngineInv, Types
<1>12. Limits'
  BY <1>6 DEF EngineInv, Limits
<1>13. Places'
  <2>1. Places /\ pc \notin Raised
    BY <1>1 DEF EngineInv, Raised
  <2>2. \A r \in Requests : req'[r].finished = req[r].finished
    BY <1>6
  <2> QED BY <2>1, <2>2, <1>1, <1>10 DEF Places
<1>14. Holdings'
  <2>1. HeldBy(req') = HeldBy(req)
    BY <1>6, HeldSame
  <2>2. \A r \in Range(pending_release) : r \in Requests
    BY Elements DEF EngineInv, Types, Range
  <2> QED BY <2>1, <2>2, <1>1, <1>6, <1>10 DEF EngineInv, Holdings
<1>15. Records'
  <2>1. Records /\ pc \notin Raised
    BY <1>1 DEF EngineInv, Raised
  <2> SUFFICES ASSUME result_queue # << >> PROVE Records'
    BY <1>1 DEF Records
  <2>2. \A r \in Range(result_queue[1].reqs) : r \in Requests
    BY <2>1, Elements DEF Records, Range
  <2> QED BY <2>1, <2>2, <1>1, <1>6 DEF Records
<1>16. Batches'
  <2>1. batch'.mode = batch.mode /\ batch'.reqs = batch.reqs /\ batch'.sampled = sampled
    BY <1>1 DEF PinnedInv, IsBatch
  <2>2. pc' \notin Scheduled \cup Raised /\ pc' # "conservative" /\ pc' # "schedule"
    BY <1>2 DEF Launched, Scheduled, Raised
  <2> QED BY <2>1, <2>2, <1>1, <1>3, <1>8, <1>9 DEF Batches
<1>17. Ends' /\ PrefillFits'
  BY <1>2 DEF Launched, Ends, PrefillFits
<1> QED BY <1>11, <1>12, <1>13, <1>14, <1>15, <1>16, <1>17 DEF EngineInv

---------------------------------------------------------------------------
\* Phase 3.

\* What schedule() starts from.
LEMMA ScheduleFacts ==
  ASSUME EngineInv, pc = "schedule"
  PROVE  /\ IsRunning(Filtered, Live)
         /\ output_ids # << >> /\ Filtered.reqs # << >> => Filtered.output_ids # << >>
         /\ Live \subseteq Requests /\ running \in Seq(Requests)
         /\ \A r \in Requests : req[r] \in ReqTypes(r)
         /\ IsInjective(waiting) /\ waiting \in Seq(Requests) /\ Range(waiting) \subseteq Requests
         /\ free_pages \in Nat /\ NumPages \in Nat
         /\ \A r \in Range(pending_release) : req[r].finished /\ r \in Requests
         /\ DOMAIN req = Requests
<1>1. Types /\ Places /\ Holdings /\ Batches /\ pc \notin Raised
  BY DEF EngineInv, Raised
<1>2. running \in Seq(Requests) /\ waiting \in Seq(Requests) /\ pending_release \in Seq(Requests)
  BY <1>1 DEF Types
<1>3. /\ \A r \in Range(running) : r \in Requests
      /\ \A r \in Range(waiting) : r \in Requests
      /\ \A r \in Range(pending_release) : r \in Requests
  BY <1>2, Elements DEF Range
<1>4. Aligned(req, output_ids, running, Len(running)) /\ IsInjective(running) /\ IsInjective(waiting)
  BY <1>1 DEF Batches, Scheduled, Raised, Places
<1>5. /\ IsRunning(Filtered, Live)
      /\ output_ids # << >> /\ Filtered.reqs # << >> => Filtered.output_ids # << >>
  BY <1>1, <1>4, FilteredIs DEF Types
<1> QED BY <1>1, <1>2, <1>3, <1>4, <1>5, EngineAssumption DEF Types, Holdings, Live, EngineAssumption

\* Phase 3 when nothing waits or runs.
LEMMA NoneKeeps ==
  ASSUME EngineInv, NEW ratio \in Ratios, ScheduleNone(ratio)
  PROVE  EngineInv'
<1>1. /\ pc = "schedule" /\ Filtered.reqs = << >>
      /\ running' = << >> /\ seq_lens' = << >> /\ output_ids' = << >>
      /\ batch' = NoBatch /\ pc' = AfterSchedule("none")
      /\ UNCHANGED <<fresh, submitted, waiting, free_pages, req, can_use_placeholder,
                     last_extend, result_queue, pinned, pending_release>>
  BY DEF ScheduleNone, exec
<1>2. pc' \in Scheduled /\ pc' \notin Raised /\ pc' \in Phases
  BY <1>1 DEF AfterSchedule, Scheduled, Raised, Phases
<1>3. Live = {} /\ running \in Seq(Requests)
  <2>1. IsRunning(Filtered, Live) /\ running \in Seq(Requests)
    BY <1>1, ScheduleFacts
  <2> QED BY <2>1, <1>1 DEF IsRunning, Range
<1>4. Live' = {} /\ Range(running') = {} /\ IsInjective(running')
  BY <1>1 DEF Live, Range, IsInjective
<1>5. Types'
  BY <1>1, <1>2 DEF EngineInv, Types
<1>6. Limits'
  BY <1>1 DEF EngineInv, Limits
<1>7. Places'
  <2>1. Places /\ pc \notin Raised
    BY <1>1 DEF EngineInv, Raised
  <2> QED BY <2>1, <1>1, <1>3, <1>4 DEF Places
<1>8. Holdings'
  BY <1>1, <1>3, <1>4 DEF EngineInv, Holdings
<1>9. Records'
  <2>1. Records /\ pc \notin Raised
    BY <1>1 DEF EngineInv, Raised
  <2>2. \A r \in Range(running) : req[r].finished
    BY <1>3 DEF Live
  <2> QED BY <2>1, <2>2, <1>1 DEF Records
<1>10. Batches'
  BY <1>1, <1>2 DEF Batches, NoBatch, Scheduled, Launched, Raised, Aligned
<1>11. Ends' /\ PrefillFits'
  BY <1>2 DEF Ends, PrefillFits, Scheduled
<1> QED BY <1>5, <1>6, <1>7, <1>8, <1>9, <1>10, <1>11 DEF EngineInv

\* Phase 3 with a prefill batch: those admitted move from waiting to running.
LEMMA PrefillKeeps ==
  ASSUME EngineInv, NEW ratio \in Ratios, SchedulePrefill(ratio)
  PROVE  EngineInv'
<1> DEFINE a == Admitted(ratio)
           b == a.taken
           f == Filtered
           B == Range(b)
<1>1. /\ pc = "schedule" /\ b # << >> /\ waiting' = a.rest /\ output_ids' = f.output_ids
      /\ UNCHANGED <<fresh, submitted, can_use_placeholder, last_extend, result_queue, pinned,
                     pending_release>>
  BY DEF SchedulePrefill, exec
<1>2. /\ Len(b) > FreeRows \/ BatchPages(b) > free_pages =>
           /\ pc' = IF Len(b) > FreeRows THEN "no rows" ELSE "no pages for extend"
           /\ running' = f.reqs /\ seq_lens' = f.seq_lens
           /\ UNCHANGED <<free_pages, req, batch>>
      /\ ~(Len(b) > FreeRows \/ BatchPages(b) > free_pages) =>
           /\ running' = f.reqs \o b
           /\ seq_lens' = f.seq_lens \o [i \in DOMAIN b |-> PromptLen[b[i]]]
           /\ free_pages' = free_pages - BatchPages(b)
           /\ req' = [r \in Requests |->
                        IF r \in B
                          THEN [req[r] EXCEPT !.has_row = TRUE, !.pages = PromptPages(r)]
                          ELSE req[r]]
           /\ batch' = [NoBatch EXCEPT !.mode = "extend", !.reqs = b]
           /\ pc' = AfterSchedule("extend")
  BY DEF SchedulePrefill
<1>3. /\ IsRunning(f, Live) /\ Live \subseteq Requests
      /\ \A r \in Requests : req[r] \in ReqTypes(r)
      /\ IsInjective(waiting) /\ waiting \in Seq(Requests) /\ Range(waiting) \subseteq Requests
      /\ free_pages \in Nat /\ NumPages \in Nat
      /\ \A r \in Range(pending_release) : req[r].finished /\ r \in Requests
      /\ DOMAIN req = Requests
  BY <1>1, ScheduleFacts
<1>4. /\ a.taken \in Seq(Requests) /\ a.rest \in Seq(Requests)
      /\ IsInjective(a.taken) /\ IsInjective(a.rest)
      /\ Range(a.taken) \cap Range(a.rest) = {}
      /\ Range(a.taken) \cup Range(a.rest) = Range(waiting)
      /\ BatchPages(a.taken) = PagesFor(Range(a.taken)) /\ BatchPages(a.taken) \in Nat
      /\ BatchPages(a.taken) <= free_pages
  BY <1>3, AdmittedIs
<1> HIDE DEF a, f
<1>5. /\ f.reqs \in Seq(Requests) /\ IsInjective(f.reqs) /\ Range(f.reqs) = Live
      /\ f.seq_lens \in Seq(Nat) /\ Len(f.seq_lens) = Len(f.reqs)
      /\ f.output_ids \in Seq(Requests \X Nat)
      /\ Aligned(req, f.output_ids, f.reqs, Len(f.reqs))
      /\ Len(f.reqs) \in Nat
  BY <1>3, Elements DEF IsRunning
<1>6. /\ b \in Seq(Requests) /\ IsInjective(b) /\ B \subseteq Range(waiting) /\ B \subseteq Requests
      /\ ~(BatchPages(b) > free_pages) /\ BatchPages(b) \in Nat
  BY <1>3, <1>4
<1>7. CASE Len(b) > FreeRows
  <2>1. /\ pc' = "no rows" /\ running' = f.reqs /\ seq_lens' = f.seq_lens
        /\ UNCHANGED <<free_pages, req, batch>>
    BY <1>2, <1>7
  <2>2. pc' \in Raised /\ pc' # "no pages for extend" /\ pc' # "idle" /\ pc' # "drain"
        /\ pc' \notin Scheduled \cup Launched /\ pc' # "conservative" /\ pc' # "schedule"
    BY <2>1 DEF Raised, Scheduled, Launched
  <2>3. Live' = Live
    BY <2>1, <1>5 DEF Live
  <2>4. Types'
    BY <2>1, <2>2, <1>1, <1>4, <1>5 DEF EngineInv, Types
  <2>5. Limits'
    BY <2>1 DEF EngineInv, Limits
  <2>6. Places' /\ Records' /\ Ends' /\ PrefillFits'
    BY <2>2 DEF Places, Records, Ends, PrefillFits
  <2>7. Holdings'
    BY <2>1, <2>3, <1>1 DEF EngineInv, Holdings
  <2>8. Batches'
    BY <2>2 DEF Batches
  <2> QED BY <2>4, <2>5, <2>6, <2>7, <2>8 DEF EngineInv
<1>8. CASE ~(Len(b) > FreeRows)
  <2>1. /\ running' = f.reqs \o b
        /\ seq_lens' = f.seq_lens \o [i \in DOMAIN b |-> PromptLen[b[i]]]
        /\ free_pages' = free_pages - BatchPages(b)
        /\ req' = [r \in Requests |->
                     IF r \in B
                       THEN [req[r] EXCEPT !.has_row = TRUE, !.pages = PromptPages(r)]
                       ELSE req[r]]
        /\ batch' = [NoBatch EXCEPT !.mode = "extend", !.reqs = b]
        /\ pc' = AfterSchedule("extend")
    BY <1>2, <1>6, <1>8
  <2>2. pc' \in Scheduled /\ pc' \notin Raised \cup Launched /\ pc' \in Phases
        /\ pc' \notin {"idle", "drain", "conservative", "schedule"}
    BY <2>1 DEF AfterSchedule, Scheduled, Launched, Raised, Phases
  <2>3. /\ Places /\ Holdings /\ Records /\ Types /\ Limits /\ pc \notin Raised
    BY <1>1 DEF EngineInv, Raised
  <2> DEFINE A == fresh
             S == Range(submitted)
             C == Range(waiting)
             P == Range(pending_release)
             L == Live
  <2>4. /\ A \cap S = {} /\ A \cap C = {} /\ A \cap L = {}
        /\ S \cap C = {} /\ S \cap L = {} /\ C \cap L = {}
        /\ \A r \in Requests : req[r].finished <=> r \notin A \cup S \cup C \cup L
        /\ \A r \in P : req[r].finished
        /\ \A r \in Requests : req[r].has_row <=> r \in P \/ r \in L
        /\ \A r \in Requests : req[r].pages > 0 <=> req[r].has_row
        /\ free_pages = NumPages - HeldBy(req)
        /\ IsInjective(submitted)
    BY <2>3 DEF Places, Holdings
  <2> HIDE DEF A, S, C, P, L
  <2>5. ASSUME NEW r \in B
        PROVE  ~req[r].finished /\ req[r].pages = 0 /\ r \notin L /\ r \notin P
               /\ r \notin S /\ r \notin A
    <3>1. r \in Requests /\ r \in C
      BY <1>6 DEF C
    <3>2. ~req[r].finished /\ r \notin L
      BY <2>4, <3>1
    <3>3. ~req[r].has_row /\ r \notin P
      BY <2>4, <3>1, <3>2
    <3>4. ~(req[r].pages > 0) /\ req[r].pages \in Nat
      BY <2>4, <3>1, <3>3, <1>3 DEF ReqTypes
    <3>5. req[r].pages = 0
      BY <3>4
    <3> QED BY <3>1, <3>2, <3>3, <3>5, <2>4
  <2>6. ASSUME NEW r \in Requests
        PROVE  /\ req'[r] \in ReqTypes(r) /\ req'[r].kv = req[r].kv
               /\ req'[r].finished = req[r].finished /\ req'[r].output_ids = req[r].output_ids
               /\ req'[r].is_retracted = req[r].is_retracted
               /\ req'[r].pages = IF r \in B THEN PromptPages(r) ELSE req[r].pages
               /\ req'[r].has_row = IF r \in B THEN TRUE ELSE req[r].has_row
    <3>1. CASE r \in B
      <4> DEFINE x == req[r]
                 n == PromptPages(r)
                 y == [x EXCEPT !.has_row = TRUE, !.pages = n]
      <4>1. req'[r] = y
        BY <2>1, <3>1
      <4>2. x \in ReqTypes(r) /\ n \in Nat
        BY <1>3, PromptPagesIs
      <4> HIDE DEF x, n
      <4>3. /\ y \in ReqTypes(r) /\ y.kv = x.kv /\ y.finished = x.finished
            /\ y.output_ids = x.output_ids /\ y.pages = n /\ y.has_row
            /\ y.is_retracted = x.is_retracted
        BY <4>2 DEF ReqTypes
      <4>4. y.has_row \in BOOLEAN
        BY <4>3 DEF ReqTypes
      <4> HIDE DEF y
      <4> QED BY <4>1, <4>3, <4>4, <3>1 DEF x, n
    <3>2. CASE r \notin B
      <4>1. req'[r] = req[r]
        BY <2>1, <3>2
      <4> QED BY <4>1, <3>2, <1>3
    <3> QED BY <3>1, <3>2
  <2>7. DOMAIN req' = Requests
    BY <2>1
  <2>8. /\ running' \in Seq(Requests) /\ Range(running') = L \cup B /\ IsInjective(running')
        /\ Len(running') = Len(f.reqs) + Len(b) /\ Len(b) \in Nat
        /\ \A i \in 1..(Len(f.reqs) + Len(b)) :
             running'[i] = IF i <= Len(f.reqs) THEN f.reqs[i] ELSE b[i - Len(f.reqs)]
    <3>1. /\ f.reqs \o b \in Seq(Requests) /\ Range(f.reqs \o b) = Range(f.reqs) \cup Range(b)
          /\ IsInjective(f.reqs \o b) <=>
               IsInjective(f.reqs) /\ IsInjective(b) /\ Range(f.reqs) \cap Range(b) = {}
      BY <1>5, <1>6, RangeConcat
    <3>2. L \cap B = {}
      BY <2>5
    <3>3. /\ Len(f.reqs \o b) = Len(f.reqs) + Len(b) /\ Len(b) \in Nat
          /\ \A i \in 1..(Len(f.reqs) + Len(b)) :
               (f.reqs \o b)[i] = IF i <= Len(f.reqs) THEN f.reqs[i] ELSE b[i - Len(f.reqs)]
      <4> DEFINE s == f.reqs
                 t == b
      <4>1. s \in Seq(Requests) /\ t \in Seq(Requests)
        BY <1>5, <1>6
      <4> HIDE DEF s, t
      <4>2. /\ Len(s \o t) = Len(s) + Len(t) /\ Len(t) \in Nat
            /\ \A i \in 1..(Len(s) + Len(t)) :
                 (s \o t)[i] = IF i <= Len(s) THEN s[i] ELSE t[i - Len(s)]
        BY <4>1, ConcatProperties, LenProperties
      <4> QED BY <4>2 DEF s, t
    <3> QED BY <3>1, <3>2, <3>3, <2>1, <1>5, <1>6 DEF L
  <2>9. seq_lens' \in Seq(Nat) /\ Len(seq_lens') = Len(running')
    <3> DEFINE l == [i \in DOMAIN b |-> PromptLen[b[i]]]
    <3>1. DOMAIN b = 1..Len(b) /\ \A i \in 1..Len(b) : PromptLen[b[i]] \in Nat
      BY <1>6, Elements, EngineAssumption DEF EngineAssumption
    <3>2. l \in Seq(Nat) /\ Len(l) = Len(b)
      BY <3>1, <2>8
    <3> HIDE DEF l
    <3>3. f.seq_lens \o l \in Seq(Nat) /\ Len(f.seq_lens \o l) = Len(f.seq_lens) + Len(l)
      BY <3>2, <1>5, ConcatProperties
    <3>4. seq_lens' = f.seq_lens \o l
      BY <2>1 DEF l
    <3> QED BY <3>2, <3>3, <3>4, <2>8, <1>5
  <2>10. Live' = L \cup B
    <3>1. Live' = {r \in Range(running') : ~req'[r].finished}
      BY DEF Live
    <3>2. \A r \in L \cup B : r \in Requests
      BY <1>3, <1>6 DEF L
    <3>3. \A r \in L \cup B : ~req'[r].finished
      BY <3>2, <2>5, <2>6 DEF L, Live
    <3> QED BY <3>1, <3>3, <2>8
  <2>11. Types'
    BY <2>2, <2>3, <2>6, <2>7, <2>8, <2>9, <1>1, <1>4, <1>5 DEF Types
  <2>12. Limits'
    BY <2>3, <2>6 DEF Limits
  <2>13. Places'
    <3> DEFINE R == Range(a.rest)
    <3>1. C = B \cup R /\ B \cap R = {} /\ IsInjective(waiting')
      BY <1>1, <1>4 DEF C
    <3>2. fresh' = A /\ Range(submitted') = S /\ Range(waiting') = R /\ IsInjective(submitted')
      BY <1>1, <2>4 DEF A, S
    <3> HIDE DEF R, B
    <3>3. /\ A \cap S = {} /\ A \cap R = {} /\ A \cap (L \cup B) = {}
          /\ S \cap R = {} /\ S \cap (L \cup B) = {} /\ R \cap (L \cup B) = {}
          /\ \A r \in Requests : req'[r].finished <=> r \notin A \cup S \cup R \cup (L \cup B)
      BY <3>1, <2>4, <2>6
    <3> QED BY <3>1, <3>2, <3>3, <2>8, <2>10 DEF Places
  <2>14. Holdings'
    <3>1. HeldBy(req') = HeldBy(req) + PagesFor(B)
      <4>1. \A r \in Requests : req'[r].pages = IF r \in B THEN PromptPages(r) ELSE req[r].pages
        BY <2>6
      <4>2. \A r \in Requests : req[r].pages \in Nat
        BY <1>3 DEF ReqTypes
      <4>3. \A r \in B : req[r].pages = 0
        BY <2>5
      <4>4. B \in SUBSET Requests
        BY <1>6
      <4> HIDE DEF B
      <4> QED BY <4>1, <4>2, <4>3, <4>4, HeldTaken
    <3>2. HeldBy(req) \in Nat
      <4>1. \A r \in Requests : req[r].pages \in Nat
        BY <1>3 DEF ReqTypes
      <4> QED BY <4>1, HeldNat
    <3>3. free_pages' \in Nat /\ free_pages' = NumPages - HeldBy(req')
      <4>1. BatchPages(b) = PagesFor(B) /\ BatchPages(b) \in Nat /\ BatchPages(b) <= free_pages
        BY <1>4
      <4> DEFINE q == BatchPages(b)
      <4>2. /\ free_pages' = free_pages - q /\ HeldBy(req') = HeldBy(req) + q
            /\ q \in Nat /\ q <= free_pages /\ free_pages = NumPages - HeldBy(req)
            /\ free_pages \in Nat /\ NumPages \in Nat /\ HeldBy(req) \in Nat
        BY <4>1, <3>1, <3>2, <2>1, <2>4, <1>3
      <4> HIDE DEF q
      <4> QED BY <4>2
    <3>4. \A r \in P : req'[r].finished
      BY <2>4, <2>6, <1>3 DEF P
    <3>5. ASSUME NEW r \in Requests PROVE req'[r].has_row <=> r \in P \/ r \in L \cup B
      BY <2>4, <2>6
    <3>6. ASSUME NEW r \in Requests PROVE req'[r].pages > 0 <=> req'[r].has_row
      <4>1. CASE r \in B
        <5>1. req'[r].pages = PromptPages(r) /\ req'[r].has_row /\ PromptPages(r) \in Nat \ {0}
          BY <4>1, <2>6, PromptPagesIs
        <5> QED BY <5>1
      <4>2. CASE r \notin B
        <5>1. req'[r].pages = req[r].pages /\ req'[r].has_row = req[r].has_row
          BY <4>2, <2>6
        <5> QED BY <5>1, <2>4
      <4> QED BY <4>1, <4>2
    <3>7. IsInjective(pending_release') /\ Range(pending_release') = P
      BY <2>3, <1>1 DEF Holdings, P
    <3> HIDE DEF B
    <3> QED BY <3>3, <3>4, <3>5, <3>6, <3>7, <2>10 DEF Holdings
  <2>15. Records'
    <3> SUFFICES ASSUME result_queue # << >> PROVE Records'
      BY <1>1 DEF Records
    <3>1. \A r \in Range(result_queue[1].reqs) : r \in Requests
      BY <2>3, Elements DEF Records, Range
    <3>2. \A r \in Range(running) : req[r].finished \/ r \in L
      BY DEF L, Live
    <3>3. ASSUME NEW r \in Range(result_queue[1].reqs)
          PROVE  r \in Range(running') \/ req'[r].finished \/ req'[r].is_retracted
      <4>1. r \in L \/ req[r].finished \/ req[r].is_retracted
        BY <2>3, <3>2 DEF Records
      <4> QED BY <4>1, <3>1, <2>6, <2>8
    <3> QED BY <3>3, <2>3, <1>1 DEF Records
  <2>16. Batches'
    <3>1. batch'.mode = "extend" /\ batch'.reqs = b
      BY <2>1 DEF NoBatch
    <3> DEFINE n == Len(f.reqs)
    <3>2. Len(running') - Len(b) = n /\ n \in Nat
      BY <2>8, <1>5
    <3>3. Aligned(req', output_ids', running', n)
      <4> HIDE DEF n
      <4>1. n \in 0..Len(f.reqs) /\ Aligned(req, f.output_ids, f.reqs, n)
        BY <1>5 DEF n
      <4>2. Aligned(req', f.output_ids, f.reqs, n)
        BY <4>1, <1>5, <2>6, AlignedSame
      <4>3. \A i \in 1..n : running'[i] = f.reqs[i]
        <5> SUFFICES ASSUME NEW i \in 1..n PROVE running'[i] = f.reqs[i]
          OBVIOUS
        <5> DEFINE m == Len(b)
        <5>1. m \in Nat /\ n \in Nat /\ n = Len(f.reqs)
          BY <2>8, <3>2 DEF n
        <5> HIDE DEF m
        <5>2. i <= n /\ i \in 1..(n + m)
          BY <5>1
        <5> QED BY <5>1, <5>2, <2>8 DEF m
      <4> QED BY <4>2, <4>3, <1>1 DEF Aligned
    <3>4. ASSUME NEW i \in DOMAIN b PROVE b[i] = running'[n + i]
      <4>1. i \in 1..Len(b)
        BY <1>6, Elements
      <4> DEFINE m == Len(b)
      <4>3. i \in 1..m /\ m \in Nat /\ n \in Nat
        BY <4>1, <3>2, <2>8
      <4>4. n = Len(f.reqs)
        OBVIOUS
      <4> HIDE DEF m, n
      <4>2. n + i \in 1..(n + m) /\ ~(n + i <= n) /\ (n + i) - n = i
        BY <4>3
      <4> QED BY <4>2, <4>4, <2>8 DEF m
    <3>5. b # << >> /\ Range(b) \subseteq Range(running') /\ b \in Seq(Requests) /\ IsInjective(b)
      BY <1>1, <1>6, <2>8
    <3> HIDE DEF b, n
    <3> QED BY <2>2, <3>1, <3>2, <3>3, <3>4, <3>5 DEF Batches
  <2>17. Ends' /\ PrefillFits'
    BY <2>2 DEF Ends, PrefillFits, Phases, Scheduled
  <2> QED BY <2>11, <2>12, <2>13, <2>14, <2>15, <2>16, <2>17 DEF EngineInv
<1> QED BY <1>7, <1>8

\* A request that opens a page.
LEMMA PageOpened ==
  ASSUME NEW r \in Requests, NEW x \in ReqTypes(r), NEW y, y = [x EXCEPT !.pages = @ + 1]
  PROVE  /\ y \in ReqTypes(r) /\ y.kv = x.kv /\ y.finished = x.finished
         /\ y.output_ids = x.output_ids /\ y.pages = x.pages + 1 /\ y.has_row = x.has_row
         /\ y.is_retracted = x.is_retracted /\ x.pages \in Nat
BY DEF ReqTypes

\* A request that is marked.
LEMMA MarkedReq ==
  ASSUME NEW r \in Requests, NEW x \in ReqTypes(r), NEW y, y = [x EXCEPT !.is_retracted = TRUE]
  PROVE  /\ y \in ReqTypes(r) /\ y.finished = x.finished /\ y.has_row = x.has_row
         /\ y.output_ids = x.output_ids /\ y.pages = x.pages /\ y.is_retracted
BY DEF ReqTypes

\* A retracted request holds nothing and has no output.
LEMMA RetractedIs ==
  ASSUME NEW r \in Requests
  PROVE  /\ Retracted(r) \in ReqTypes(r) /\ ~Retracted(r).finished
         /\ Retracted(r).output_ids = << >> /\ Retracted(r).pages = 0
         /\ ~Retracted(r).has_row /\ Retracted(r).is_retracted
<1>1. << >> \in Seq(Token(r))
  OBVIOUS
<1>2. NewReq \in ReqTypes(r)
  BY <1>1 DEF ReqTypes, NewReq
<1>3. ~NewReq.finished /\ NewReq.output_ids = << >> /\ NewReq.pages = 0 /\ ~NewReq.has_row
  BY DEF NewReq
<1>4. Retracted(r) = [NewReq EXCEPT !.is_retracted = TRUE]
  BY DEF Retracted
<1>5. /\ Retracted(r) \in ReqTypes(r) /\ Retracted(r).finished = NewReq.finished
      /\ Retracted(r).has_row = NewReq.has_row
      /\ Retracted(r).output_ids = NewReq.output_ids /\ Retracted(r).pages = NewReq.pages
      /\ Retracted(r).is_retracted
  BY <1>2, <1>4, MarkedReq
<1> QED BY <1>3, <1>5

\* Phase 3 with a decode batch: those retracted move from running to waiting, and
\* the others open pages.
LEMMA DecodeKeeps ==
  ASSUME EngineInv, PinnedInv, NEW ratio \in Ratios, ScheduleDecode(ratio)
  PROVE  EngineInv'
<1> DEFINE f == Filtered
<1>0. pc = "schedule" /\ f.reqs # << >> /\ \E k \in KeptByMem(f) : Decode(f, k)
  BY DEF ScheduleDecode
<1> PICK k \in KeptByMem(f) : Decode(f, k)
  BY <1>0
<1> DEFINE kept   == Retained(f, k)
           out    == SubSeq(f.reqs, k + 1, Len(f.reqs))
           free   == free_pages + PagesBehind(f, k)
           untold == ~can_use_placeholder /\ \E r \in Range(kept.reqs) : req[r].output_ids = << >>
           short  == Cardinality(Grown(kept)) > free
           input  == IF can_use_placeholder
                       THEN kept.output_ids
                       ELSE [i \in 1..k |-> Last(req[kept.reqs[i]].output_ids)]
           G      == Grown(kept)
           B      == Range(out)
           K      == Range(kept.reqs)
           opens(r) == \E i \in G : kept.reqs[i] = r
           mid    == [r \in Requests |-> IF r \in B THEN Retracted(r) ELSE req[r]]
<1>1. /\ pc = "schedule" /\ f.reqs # << >>
      /\ waiting' = out \o waiting /\ running' = kept.reqs /\ output_ids' = << >>
      /\ result_queue' = Marked(result_queue, B)
      /\ UNCHANGED <<fresh, submitted, can_use_placeholder, last_extend, pinned, pending_release>>
  BY <1>0 DEF Decode, Marked
<1>2. untold \/ short =>
        /\ pc' = IF untold THEN "no last token" ELSE "no pages for decode"
        /\ seq_lens' = kept.seq_lens /\ free_pages' = free /\ batch' = NoBatch /\ req' = mid
  BY DEF Decode
<1>3. ~(untold \/ short) =>
        /\ pc' = AfterSchedule(IF k = 0 THEN "none" ELSE "decode")
        /\ seq_lens' = [i \in 1..k |-> kept.seq_lens[i] + 1]
        /\ free_pages' = free - Cardinality(G)
        /\ req' = [r \in Requests |-> IF r \in B THEN Retracted(r)
                                      ELSE IF opens(r) THEN [req[r] EXCEPT !.pages = @ + 1]
                                      ELSE req[r]]
        /\ batch' = IF k = 0 THEN NoBatch
                    ELSE [NoBatch EXCEPT !.mode = "decode", !.reqs = kept.reqs, !.input = input]
  BY DEF Decode
<1> HIDE DEF f, kept, out
<1>4. /\ IsRunning(f, Live) /\ Live \subseteq Requests
      /\ output_ids # << >> /\ f.reqs # << >> => f.output_ids # << >>
      /\ \A r \in Requests : req[r] \in ReqTypes(r)
      /\ IsInjective(waiting) /\ waiting \in Seq(Requests) /\ Range(waiting) \subseteq Requests
      /\ free_pages \in Nat /\ NumPages \in Nat
      /\ \A r \in Range(pending_release) : req[r].finished /\ r \in Requests
      /\ DOMAIN req = Requests
  BY <1>1, ScheduleFacts DEF f
<1>5. k \in 0..Len(f.reqs) /\ k \in Nat
  <2>1. f.reqs \in Seq(Requests)
    BY <1>4 DEF IsRunning
  <2>2. k \in 0..Len(f.reqs)
    BY <2>1 DEF KeptByMem
  <2> QED BY <2>2
<1>6. /\ IsRunning(kept, K) /\ Len(kept.reqs) = k
      /\ out \in Seq(Requests) /\ IsInjective(out)
      /\ K \cup B = Live /\ K \cap B = {}
      /\ f.output_ids # << >> /\ k # 0 => kept.output_ids # << >>
  <2>1. \A r \in Requests : req[r].output_ids \in Seq(Token(r))
    BY <1>4 DEF ReqTypes
  <2>2. kept = Retained(f, k) /\ out = SubSeq(f.reqs, k + 1, Len(f.reqs))
    BY DEF kept, out
  <2>3. /\ IsRunning(kept, Range(kept.reqs)) /\ Len(kept.reqs) = k
        /\ out \in Seq(Requests) /\ IsInjective(out)
        /\ Range(kept.reqs) \cup Range(out) = Live /\ Range(kept.reqs) \cap Range(out) = {}
        /\ f.output_ids # << >> /\ k # 0 => kept.output_ids # << >>
    <3> HIDE DEF K, B, G, opens, mid, untold, short, input, free
    <3>1. k \in 0..Len(f.reqs) /\ IsRunning(f, Live)
      BY <1>4, <1>5
    <3>2. kept = Retained(f, k) /\ out = Popped(f, k)
      BY <2>2 DEF Popped
    <3> QED BY <2>1, <3>1, <3>2, RetainedIs
  <2> QED BY <2>3 DEF K, B
<1>7. /\ kept.reqs \in Seq(Requests) /\ IsInjective(kept.reqs)
      /\ kept.seq_lens \in Seq(Nat) /\ Len(kept.seq_lens) = k
      /\ kept.output_ids \in Seq(Requests \X Nat)
      /\ Aligned(req, kept.output_ids, kept.reqs, k)
      /\ DOMAIN kept.reqs = 1..k /\ DOMAIN kept.seq_lens = 1..k
      /\ \A i \in 1..k : kept.reqs[i] \in Requests /\ kept.reqs[i] \in K
  <2>1. kept.reqs \in Seq(Requests) /\ kept.seq_lens \in Seq(Nat) /\ Len(kept.seq_lens) = k
    BY <1>6 DEF IsRunning
  <2>2. /\ DOMAIN kept.reqs = 1..k /\ DOMAIN kept.seq_lens = 1..k
        /\ \A i \in 1..k : kept.reqs[i] \in Requests
    BY <2>1, <1>6, Elements
  <2> QED BY <2>1, <2>2, <1>6 DEF IsRunning, Range
<1> HIDE DEF K, B, G, mid
<1>8. B \subseteq Requests /\ K \subseteq Requests
  BY <1>4, <1>6
<1>9. /\ Places /\ Holdings /\ Records /\ Types /\ Limits /\ Batches /\ pc \notin Raised
  BY <1>1 DEF EngineInv, Raised
<1> DEFINE A == fresh
           S == Range(submitted)
           C == Range(waiting)
           P == Range(pending_release)
           L == Live
<1>10. /\ A \cap S = {} /\ A \cap C = {} /\ A \cap L = {}
       /\ S \cap C = {} /\ S \cap L = {} /\ C \cap L = {}
       /\ \A r \in Requests : req[r].finished <=> r \notin A \cup S \cup C \cup L
       /\ \A r \in P : req[r].finished /\ r \in Requests
       /\ \A r \in Requests : req[r].has_row <=> r \in P \/ r \in L
       /\ \A r \in Requests : req[r].pages > 0 <=> req[r].has_row
       /\ free_pages = NumPages - HeldBy(req)
       /\ IsInjective(submitted) /\ IsInjective(pending_release)
  BY <1>4, <1>9 DEF Places, Holdings
<1>11. \A r \in L : ~req[r].finished /\ r \notin P
  BY <1>10 DEF L, Live
<1> HIDE DEF A, S, C, P, L
<1>12. L = K \cup B /\ K \cap B = {}
  BY <1>6 DEF L
<1>13. ASSUME NEW r \in Requests
       PROVE  /\ mid[r] \in ReqTypes(r) /\ mid[r].finished = req[r].finished
              /\ r \in B => mid[r].output_ids = << >> /\ mid[r].pages = 0 /\ ~mid[r].has_row
                            /\ mid[r].is_retracted
              /\ r \notin B => mid[r] = req[r]
  <2>1. CASE r \in B
    <3>1. mid[r] = Retracted(r)
      BY <2>1 DEF mid
    <3>2. req[r] \in ReqTypes(r) /\ ~req[r].finished
      BY <2>1, <1>4, <1>11, <1>12
    <3>3. req[r].finished \in BOOLEAN /\ Retracted(r).finished \in BOOLEAN
      BY <3>2, RetractedIs DEF ReqTypes
    <3> QED BY <2>1, <3>1, <3>2, <3>3, RetractedIs
  <2>2. CASE r \notin B
    <3>1. mid[r] = req[r]
      BY <2>2 DEF mid
    <3> QED BY <2>2, <3>1, <1>4
  <2> QED BY <2>1, <2>2
<1>14. HeldBy(mid) \in Nat /\ free \in Nat /\ free = NumPages - HeldBy(mid)
  <2>1. \A r \in Requests : mid[r].pages = IF r \in B THEN 0 ELSE req[r].pages
    BY <1>13
  <2>2. \A r \in Requests : req[r].pages \in Nat
    BY <1>4 DEF ReqTypes
  <2>3. \A r \in Requests : mid[r].pages \in Nat
    BY <1>13 DEF ReqTypes
  <2> DEFINE q == Cardinality(PagesOf(B, [r \in B |-> req[r].pages]))
  <2>4. HeldBy(req) = HeldBy(mid) + q /\ q \in Nat
    BY <2>1, <2>2, <1>8, HeldReturned
  <2>5. HeldBy(mid) \in Nat /\ HeldBy(req) \in Nat
    BY <2>2, <2>3, HeldNat
  <2>6. PagesBehind(f, k) = q
    BY DEF PagesBehind, NumHeld, Held, B, out
  <2> HIDE DEF q
  <2> QED BY <2>4, <2>5, <2>6, <1>4, <1>10
<1>15. /\ waiting' \in Seq(Requests) /\ Range(waiting') = B \cup C /\ IsInjective(waiting')
  <2>1. /\ out \o waiting \in Seq(Requests) /\ Range(out \o waiting) = Range(out) \cup Range(waiting)
        /\ IsInjective(out \o waiting) <=>
             IsInjective(out) /\ IsInjective(waiting) /\ Range(out) \cap Range(waiting) = {}
    BY <1>4, <1>6, RangeConcat
  <2>2. B \cap C = {}
    BY <1>10, <1>12
  <2> QED BY <2>1, <2>2, <1>1, <1>4, <1>6 DEF B, C
<1>16. /\ AtMostOne(result_queue')
       /\ result_queue' = << >> <=> result_queue = << >>
       /\ result_queue # << >> => result_queue'[1].reqs = result_queue[1].reqs
  BY <1>1, MarksOnly DEF PinnedInv
<1> HIDE DEF untold, short, free
<1>17. CASE untold \/ short
  <2>1. /\ pc' \in {"no last token", "no pages for decode"}
        /\ seq_lens' = kept.seq_lens /\ free_pages' = free /\ batch' = NoBatch /\ req' = mid
    BY <1>2, <1>17
  <2>2. pc' \in Raised /\ pc' \notin {"no pages for extend", "idle", "drain", "conservative", "schedule"}
        /\ pc' \notin Scheduled \cup Launched
    BY <2>1 DEF Raised, Scheduled, Launched
  <2>3. \A r \in Requests : req'[r].finished = req[r].finished
    BY <2>1, <1>13
  <2>4. Live' = K
    <3>1. Live' = {r \in Range(running') : ~req'[r].finished}
      BY DEF Live
    <3>2. Range(running') = K
      BY <1>1 DEF K
    <3>3. \A r \in K : ~req'[r].finished
      BY <2>3, <1>8, <1>11, <1>12
    <3> QED BY <3>1, <3>2, <3>3
  <2>5. Types'
    <3>1. DOMAIN mid = Requests /\ \A r \in Requests : mid[r] \in ReqTypes(r)
      BY <1>13 DEF mid
    <3>2. Len(running') = k /\ running' \in Seq(Requests)
      BY <1>1, <1>6, <1>7
    <3>4. Len(seq_lens') = k /\ seq_lens' \in Seq(Nat)
      BY <2>1, <1>7
    <3>5. output_ids' \in Seq(Requests \X Nat)
      BY <1>1
    <3>3. fresh' \subseteq Requests /\ submitted' \in Seq(Requests)
          /\ pending_release' \in Seq(Requests) /\ waiting' \in Seq(Requests)
      BY <1>1, <1>9, <1>15 DEF Types
    <3> QED BY <3>1, <3>2, <3>3, <3>4, <3>5, <2>1, <2>2 DEF Types
  <2>6. Limits'
    <3> SUFFICES ASSUME NEW r \in Requests
                 PROVE  /\ Len(req'[r].output_ids) <= MaxTokens[r]
                        /\ ~req'[r].finished => Len(req'[r].output_ids) < MaxTokens[r]
      BY DEF Limits
    <3>1. MaxTokens[r] \in Nat \ {0} /\ Len(<< >>) = 0
      BY EngineAssumption DEF EngineAssumption
    <3>2. CASE r \in B
      <4>1. Len(req'[r].output_ids) = 0
        BY <3>1, <3>2, <2>1, <1>13
      <4> QED BY <4>1, <3>1
    <3>3. CASE r \notin B
      BY <3>3, <2>1, <1>9, <1>13 DEF Limits
    <3> QED BY <3>2, <3>3
  <2>7. Places' /\ Records' /\ Ends' /\ PrefillFits' /\ Batches'
    BY <2>2 DEF Places, Records, Ends, PrefillFits, Batches
  <2>8. Holdings'
    <3>1. \A r \in P : req'[r].finished
      BY <2>3, <1>10
    <3>2. ASSUME NEW r \in Requests
          PROVE (req'[r].has_row <=> r \in P \/ r \in K) /\ (req'[r].pages > 0 <=> req'[r].has_row)
      <4>1. CASE r \in B
        <5>1. req'[r].pages = 0 /\ ~req'[r].has_row /\ r \notin K /\ r \notin P
          BY <4>1, <2>1, <1>11, <1>12, <1>13
        <5> QED BY <5>1
      <4>2. CASE r \notin B
        <5>1. req'[r] = req[r]
          BY <4>2, <2>1, <1>13
        <5> QED BY <5>1, <4>2, <1>10, <1>12
      <4> QED BY <4>1, <4>2
    <3>3. Range(pending_release') = P /\ IsInjective(pending_release')
      BY <1>1, <1>10 DEF P
    <3> QED BY <3>1, <3>2, <3>3, <2>1, <2>4, <1>14 DEF Holdings
  <2> QED BY <2>5, <2>6, <2>7, <2>8 DEF EngineInv
<1>18. CASE ~(untold \/ short)
  <2>1. /\ pc' = AfterSchedule(IF k = 0 THEN "none" ELSE "decode")
        /\ seq_lens' = [i \in 1..k |-> kept.seq_lens[i] + 1]
        /\ free_pages' = free - Cardinality(G)
        /\ req' = [r \in Requests |-> IF r \in B THEN Retracted(r)
                                      ELSE IF opens(r) THEN [req[r] EXCEPT !.pages = @ + 1]
                                      ELSE req[r]]
        /\ batch' = IF k = 0 THEN NoBatch
                    ELSE [NoBatch EXCEPT !.mode = "decode", !.reqs = kept.reqs, !.input = input]
    BY <1>3, <1>18
  <2>2. pc' \in Scheduled /\ pc' \notin Raised \cup Launched /\ pc' \in Phases
        /\ pc' \notin {"no pages for extend", "idle", "drain", "conservative", "schedule"}
    BY <2>1 DEF AfterSchedule, Scheduled, Launched, Raised, Phases
  <2>3. G \subseteq 1..k
    BY <1>7 DEF G, Grown
  <2>4. \A r \in Requests : opens(r) => r \in K
    BY <2>3, <1>7
  <2> HIDE DEF opens, input
  <2>5. ASSUME NEW r \in Requests
        PROVE  /\ req'[r] \in ReqTypes(r) /\ req'[r].finished = mid[r].finished
               /\ req'[r].output_ids = mid[r].output_ids /\ req'[r].has_row = mid[r].has_row
               /\ req'[r].is_retracted = mid[r].is_retracted
               /\ mid[r].pages \in Nat
               /\ req'[r].pages = IF opens(r) THEN mid[r].pages + 1 ELSE mid[r].pages
    <3>1. CASE opens(r)
      <4>1. r \notin B
        BY <3>1, <2>4, <1>12
      <4>2. mid[r] = req[r] /\ req[r] \in ReqTypes(r)
        BY <4>1, <1>13
      <4> DEFINE x == req[r]
                 y == [x EXCEPT !.pages = @ + 1]
      <4>3. req'[r] = y
        BY <2>1, <3>1, <4>1
      <4>4. y = [x EXCEPT !.pages = @ + 1] /\ x \in ReqTypes(r) /\ mid[r] = x
        BY <4>2
      <4> HIDE DEF x, y
      <4>5. /\ y \in ReqTypes(r) /\ y.kv = x.kv /\ y.finished = x.finished
            /\ y.output_ids = x.output_ids /\ y.pages = x.pages + 1 /\ y.has_row = x.has_row
            /\ y.is_retracted = x.is_retracted /\ x.pages \in Nat
        BY <4>4, PageOpened
      <4> QED BY <3>1, <4>3, <4>4, <4>5
    <3>2. CASE ~opens(r)
      <4>1. req'[r] = mid[r]
        BY <2>1, <3>2 DEF mid
      <4>2. mid[r] \in ReqTypes(r)
        BY <1>13
      <4>3. mid[r].pages \in Nat
        BY <4>2 DEF ReqTypes
      <4> QED BY <3>2, <4>1, <4>2, <4>3
    <3> QED BY <3>1, <3>2
  <2>6. DOMAIN req' = Requests
    BY <2>1
  <2>7. \A r \in Requests : req'[r].finished = req[r].finished
    BY <2>5, <1>13
  <2>8. Live' = K /\ Range(running') = K
    <3>1. Live' = {r \in Range(running') : ~req'[r].finished}
      BY DEF Live
    <3>2. Range(running') = K
      BY <1>1 DEF K
    <3>3. \A r \in K : ~req'[r].finished
      BY <2>7, <1>8, <1>11, <1>12
    <3> QED BY <3>1, <3>2, <3>3
  <2>9. Types'
    <3>1. seq_lens' \in Seq(Nat) /\ Len(seq_lens') = k
      <4>1. \A i \in 1..k : kept.seq_lens[i] + 1 \in Nat
        BY <1>7, Elements
      <4> QED BY <4>1, <2>1, <1>5
    <3>2. Len(running') = k /\ running' \in Seq(Requests)
      BY <1>1, <1>6, <1>7
    <3>4. output_ids' \in Seq(Requests \X Nat)
      BY <1>1
    <3>3. fresh' \subseteq Requests /\ submitted' \in Seq(Requests)
          /\ pending_release' \in Seq(Requests) /\ waiting' \in Seq(Requests)
      BY <1>1, <1>9, <1>15 DEF Types
    <3> QED BY <3>1, <3>2, <3>3, <3>4, <2>2, <2>5, <2>6 DEF Types
  <2>10. Limits'
    <3> SUFFICES ASSUME NEW r \in Requests
                 PROVE  /\ Len(req'[r].output_ids) <= MaxTokens[r]
                        /\ ~req'[r].finished => Len(req'[r].output_ids) < MaxTokens[r]
      BY DEF Limits
    <3>1. MaxTokens[r] \in Nat \ {0} /\ Len(<< >>) = 0
      BY EngineAssumption DEF EngineAssumption
    <3>2. CASE r \in B
      <4>1. Len(req'[r].output_ids) = 0
        BY <3>1, <3>2, <2>5, <1>13
      <4> QED BY <4>1, <3>1
    <3>3. CASE r \notin B
      <4>1. req'[r].output_ids = req[r].output_ids /\ req'[r].finished = req[r].finished
        BY <3>3, <2>5, <1>13
      <4> QED BY <4>1, <1>9 DEF Limits
    <3> QED BY <3>2, <3>3
  <2>11. Places'
    <3>1. fresh' = A /\ Range(submitted') = S /\ IsInjective(submitted')
      BY <1>1, <1>10 DEF A, S
    <3>2. /\ A \cap (B \cup C) = {} /\ A \cap K = {}
          /\ S \cap (B \cup C) = {} /\ S \cap K = {} /\ (B \cup C) \cap K = {}
          /\ \A r \in Requests : req'[r].finished <=> r \notin A \cup S \cup (B \cup C) \cup K
      BY <2>7, <1>10, <1>12
    <3>3. A \cap S = {} /\ IsInjective(running')
      BY <1>1, <1>7, <1>10
    <3> QED BY <3>1, <3>2, <3>3, <2>8, <1>15 DEF Places
  <2>12. HeldBy(req') = HeldBy(mid) + Cardinality(G) /\ Cardinality(G) \in Nat
    <3> DEFINE h == [i \in G |-> kept.reqs[i]]
    <3>1. h \in [G -> Requests]
      BY <2>3, <1>7
    <3>2. IsInjective(h)
      BY <2>3, <1>7 DEF IsInjective
    <3>3. \A r \in Requests : r \in Range(h) <=> opens(r)
      BY DEF Range, opens
    <3>4. \A r \in Requests : req'[r].pages = IF r \in Range(h) THEN mid[r].pages + 1 ELSE mid[r].pages
      BY <3>3, <2>5
    <3>5. \A r \in Requests : mid[r].pages \in Nat
      BY <2>5
    <3> HIDE DEF h
    <3> QED BY <3>1, <3>2, <3>4, <3>5, HeldGrown
  <2>13. Holdings'
    <3>1. \A r \in P : req'[r].finished
      BY <2>7, <1>10
    <3>2. ASSUME NEW r \in Requests
          PROVE (req'[r].has_row <=> r \in P \/ r \in K) /\ (req'[r].pages > 0 <=> req'[r].has_row)
      <4>1. CASE r \in B
        <5>1. mid[r].pages = 0 /\ ~mid[r].has_row /\ r \notin K /\ r \notin P /\ ~opens(r)
          BY <4>1, <2>4, <1>11, <1>12, <1>13
        <5>2. req'[r].pages = 0 /\ ~req'[r].has_row
          BY <5>1, <2>5
        <5> QED BY <5>1, <5>2
      <4>2. CASE r \notin B /\ opens(r)
        <5>1. r \in K /\ req[r].has_row
          BY <4>2, <2>4, <1>10, <1>12
        <5>2. req'[r].has_row /\ req'[r].pages = mid[r].pages + 1 /\ mid[r].pages \in Nat
          BY <4>2, <5>1, <2>5, <1>13
        <5> QED BY <5>1, <5>2
      <4>3. CASE r \notin B /\ ~opens(r)
        <5>1. mid[r] = req[r] /\ req'[r].pages = mid[r].pages /\ req'[r].has_row = mid[r].has_row
          BY <4>3, <2>5, <1>13
        <5> QED BY <5>1, <4>3, <1>10, <1>12
      <4> QED BY <4>1, <4>2, <4>3
    <3>3. Range(pending_release') = P /\ IsInjective(pending_release')
      BY <1>1, <1>10 DEF P
    <3>4. free_pages' \in Nat /\ free_pages' = NumPages - HeldBy(req')
      <4> DEFINE g == Cardinality(G)
      <4>1. ~(g > free)
        BY <1>18 DEF short, G
      <4>2. /\ free_pages' = free - g /\ HeldBy(req') = HeldBy(mid) + g /\ g \in Nat
            /\ HeldBy(mid) \in Nat /\ free \in Nat /\ free = NumPages - HeldBy(mid) /\ NumPages \in Nat
        BY <2>1, <2>12, <1>4, <1>14
      <4> HIDE DEF g
      <4> QED BY <4>1, <4>2
    <3> QED BY <3>1, <3>2, <3>3, <3>4, <2>8 DEF Holdings
  <2>14. Records'
    <3> SUFFICES ASSUME result_queue # << >> PROVE Records'
      BY <1>16 DEF Records
    <3>1. \A r \in Range(result_queue[1].reqs) : r \in Requests
      BY <1>9, Elements DEF Records, Range
    <3>2. \A r \in Range(running) : req[r].finished \/ r \in L
      BY DEF L, Live
    <3>3. ASSUME NEW r \in Range(result_queue[1].reqs)
          PROVE  r \in Range(running') \/ req'[r].finished \/ req'[r].is_retracted
      <4>1. r \in L \/ req[r].finished \/ req[r].is_retracted
        BY <1>9, <3>2 DEF Records
      <4>2. CASE r \in B
        BY <4>2, <3>1, <2>5, <1>13
      <4>3. CASE r \notin B
        <5>1. req'[r].is_retracted = req[r].is_retracted
          BY <4>3, <3>1, <2>5, <1>13
        <5> QED BY <4>1, <4>3, <5>1, <3>1, <2>7, <2>8, <1>12
      <4> QED BY <4>2, <4>3
    <3> QED BY <3>3, <1>1, <1>9, <1>16 DEF Records
  <2>15. Batches'
    <3>1. CASE k = 0
      <4>1. running' = << >>
        BY <3>1, <1>1, <1>6, <1>7
      <4> QED BY <3>1, <4>1, <2>1, <2>2, <1>1 DEF Batches, NoBatch
    <3>2. CASE k # 0
      <4>1. batch' = [NoBatch EXCEPT !.mode = "decode", !.reqs = kept.reqs, !.input = input]
        BY <2>1, <3>2
      <4>2. batch'.mode = "decode" /\ batch'.reqs = kept.reqs /\ batch'.input = input
        BY <4>1 DEF NoBatch
      <4>3. kept.reqs # << >>
        BY <3>2, <1>6
      <4>4. DOMAIN input = 1..k /\ \A i \in 1..k : input[i] \in Token(kept.reqs[i])
        <5>1. CASE can_use_placeholder
          <6>1. output_ids # << >>
            BY <5>1, <1>1, <1>9 DEF Batches
          <6>2. kept.output_ids # << >>
            BY <6>1, <3>2, <1>1, <1>4, <1>6
          <6>3. Len(kept.output_ids) = k /\ \A i \in 1..k :
                  kept.output_ids[i] = <<kept.reqs[i], Len(req[kept.reqs[i]].kv) + 1>>
            BY <6>2, <1>7 DEF Aligned
          <6>4. DOMAIN kept.output_ids = 1..k /\ \A i \in 1..k : kept.output_ids[i] \in Requests \X Nat
            BY <6>3, <1>7, Elements
          <6>5. \A i \in 1..k : kept.output_ids[i] \in Token(kept.reqs[i])
            BY <6>3, <6>4 DEF Token
          <6>6. input = kept.output_ids
            BY <5>1 DEF input
          <6> QED BY <6>4, <6>5, <6>6
        <5>2. CASE ~can_use_placeholder
          <6>1. input = [i \in 1..k |-> Last(req[kept.reqs[i]].output_ids)]
            BY <5>2 DEF input
          <6>2. ASSUME NEW i \in 1..k PROVE input[i] \in Token(kept.reqs[i])
            <7> DEFINE r == kept.reqs[i]
                       o == req[r].output_ids
            <7>1. r \in Requests /\ r \in K
              BY <1>7
            <7>2. o # << >>
              BY <7>1, <5>2, <1>18 DEF untold, K
            <7>3. o \in Seq(Token(r))
              BY <7>1, <1>4 DEF ReqTypes
            <7>4. input[i] = o[Len(o)]
              BY <6>1 DEF Last
            <7> HIDE DEF r, o
            <7>5. Len(o) \in 1..Len(o)
              BY <7>2, <7>3
            <7>6. o[Len(o)] \in Token(r)
              BY <7>3, <7>5, Elements
            <7> QED BY <7>4, <7>6 DEF r
          <6> QED BY <6>1, <6>2
        <5> QED BY <5>1, <5>2
      <4>5. running' = kept.reqs /\ Range(kept.reqs) \subseteq Range(running')
        BY <1>1
      <4> QED BY <4>2, <4>3, <4>4, <4>5, <2>2, <1>7 DEF Batches
    <3> QED BY <3>1, <3>2
  <2>16. Ends' /\ PrefillFits'
    BY <2>2 DEF Ends, PrefillFits
  <2> QED BY <2>9, <2>10, <2>11, <2>13, <2>14, <2>15, <2>16 DEF EngineInv
<1> QED BY <1>17, <1>18

---------------------------------------------------------------------------
\* A step that changes nothing.
LEMMA StutterKeeps ==
  ASSUME EngineInv, UNCHANGED vars
  PROVE  EngineInv'
<1>1. UNCHANGED <<pc, fresh, submitted, can_use_placeholder, batch, last_extend, pending_release,
                  req, waiting, running, seq_lens, output_ids, free_pages, result_queue, pinned>>
  BY DEF vars, sched, exec
<1>2. Types' /\ Limits' /\ PrefillFits' /\ Ends'
  BY <1>1 DEF EngineInv, Types, Limits, PrefillFits, Ends
<1>3. Live' = Live /\ HeldBy(req') = HeldBy(req)
  BY <1>1 DEF Live
<1>4. Places' /\ Holdings' /\ Records'
  BY <1>1, <1>3 DEF EngineInv, Places, Holdings, Records
<1>5. Batches'
  BY <1>1 DEF EngineInv, Batches
<1> QED BY <1>2, <1>4, <1>5 DEF EngineInv

\* Every step of the engine keeps the invariant.
THEOREM EngineStepKeeps == EngineInv /\ PinnedInv /\ [Next]_vars => EngineInv'
<1> SUFFICES ASSUME EngineInv, PinnedInv, [Next]_vars PROVE EngineInv'
  OBVIOUS
<1>1. ASSUME NEW prompts \in SetToAllKPermutations(fresh) \ {<< >>}, Generate(prompts)
      PROVE  EngineInv'
  BY <1>1, GenerateKeeps
<1>2. ASSUME NEW r \in Requests, Submit(r) PROVE EngineInv'
  BY <1>2, SubmitKeeps
<1>3. CASE RecvRequests
  BY <1>3, RecvKeeps
<1>4. CASE ProcessConservative
  <2>1. PICK eos \in Ending : ProcessPending(eos)
    BY <1>4 DEF ProcessConservative
  <2>2. pc = "conservative" /\ pc' = "schedule"
    BY <1>4 DEF ProcessConservative
  <2> QED BY <2>1, <2>2, ProcessKeeps DEF ReadsRecord
<1>5. ASSUME NEW ratio \in Ratios, SchedulePrefill(ratio) PROVE EngineInv'
  BY <1>5, PrefillKeeps
<1>6. ASSUME NEW ratio \in Ratios, ScheduleDecode(ratio) PROVE EngineInv'
  BY <1>6, DecodeKeeps
<1>7. ASSUME NEW ratio \in Ratios, ScheduleNone(ratio) PROVE EngineInv'
  BY <1>7, NoneKeeps
<1>8. CASE ProcessConsecutive
  <2>1. PICK eos \in Ending : ProcessPending(eos)
    BY <1>8 DEF ProcessConsecutive
  <2>2. pc = "consecutive" /\ pc' = "launch"
    BY <1>8 DEF ProcessConsecutive
  <2> QED BY <2>1, <2>2, ProcessKeeps DEF ReadsRecord
<1>9. CASE Launch
  BY <1>9, LaunchKeeps
<1>10. CASE LaunchNothing
  BY <1>10, LaunchNothingKeeps
<1>11. CASE ProcessOverlap
  <2>1. PICK eos \in Ending : ProcessPending(eos)
    BY <1>11 DEF ProcessOverlap
  <2>2. pc = "overlap" /\ pc' = "sample"
    BY <1>11 DEF ProcessOverlap
  <2> QED BY <2>1, <2>2, ProcessKeeps DEF ReadsRecord
<1>12. CASE LaunchSample
  BY <1>12, LaunchSampleKeeps
<1>13. CASE Drain
  BY <1>13, DrainKeeps
<1>14. CASE UNCHANGED vars
  BY <1>14, StutterKeeps
<1> QED
  BY <1>1, <1>2, <1>3, <1>4, <1>5, <1>6, <1>7, <1>8, <1>9, <1>10, <1>11, <1>12,
     <1>13, <1>14 DEF Next, EngineStep

\* The engine starts with all pages free and every request unsent.
LEMMA EngineStart ==
  ASSUME Init
  PROVE  EngineInv
<1>1. /\ pc = "idle" /\ fresh = Requests /\ submitted = << >> /\ waiting = << >>
      /\ running = << >> /\ seq_lens = << >> /\ output_ids = << >> /\ free_pages = NumPages
      /\ can_use_placeholder = FALSE /\ result_queue = << >> /\ pending_release = << >>
      /\ req = [r \in Requests |-> NewReq]
  BY DEF Init
<1>2. << >> \in Seq(Requests) /\ << >> \in Seq(Nat) /\ << >> \in Seq(Requests \X Nat)
      /\ Len(<< >>) = 0 /\ IsInjective(<< >>) /\ Range(<< >>) = {}
  BY DEF IsInjective, Range
<1>3. ASSUME NEW r \in Requests
      PROVE  /\ req[r] \in ReqTypes(r) /\ ~req[r].finished /\ req[r].output_ids = << >>
             /\ req[r].pages = 0 /\ ~req[r].has_row
  <2>1. << >> \in Seq(Token(r))
    OBVIOUS
  <2>2. NewReq \in ReqTypes(r)
    BY <2>1 DEF ReqTypes, NewReq
  <2> QED BY <1>1, <2>2 DEF NewReq
<1>4. Live = {}
  BY <1>1, <1>2 DEF Live
<1>5. HeldBy(req) = 0
  <2>1. [r \in Requests |-> req[r].pages] = [r \in Requests |-> 0]
    BY <1>3
  <2>2. PagesOf(Requests, [r \in Requests |-> 0]) = {}
    BY DEF PagesOf
  <2> QED BY <2>1, <2>2, FS_EmptySet DEF HeldBy
<1>6. Types
  BY <1>1, <1>2, <1>3 DEF Types, Phases
<1>7. Limits
  <2>1. \A r \in Requests : MaxTokens[r] \in Nat \ {0}
    BY EngineAssumption DEF EngineAssumption
  <2> QED BY <1>2, <1>3, <2>1 DEF Limits
<1>8. Places
  BY <1>1, <1>2, <1>3, <1>4 DEF Places
<1>9. Holdings
  BY <1>1, <1>2, <1>3, <1>4, <1>5, EngineAssumption DEF Holdings, EngineAssumption
<1>10. Records /\ Ends /\ PrefillFits
  BY <1>1 DEF Records, Ends, PrefillFits
<1>11. Batches
  BY <1>1, <1>2 DEF Batches, Aligned, Scheduled, Launched, Raised
<1> QED BY <1>6, <1>7, <1>8, <1>9, <1>10, <1>11 DEF EngineInv

\* The invariant of the engine holds of every behaviour.
THEOREM EngineInvariance == Spec => [](EngineInv /\ PinnedInv)
<1>1. Init => EngineInv
  BY EngineStart
<1> QED BY <1>1, EngineStepKeeps, PinnedInvariance, PTL DEF Spec

\* However steps, retractions and late results interleave, step_overlap has every
\* request in one place, and none twice.
THEOREM OnePlaceTheorem == Spec => []OnePlace
<1>1. EngineInv => OnePlace
  <2> SUFFICES ASSUME EngineInv, pc \notin Raised
               PROVE  LET queued == submitted \o waiting \o Among(running, {r \in Requests : ~req[r].finished})
                      IN /\ IsInjective(queued) /\ IsInjective(running)
                         /\ Range(queued) \cap fresh = {}
                         /\ Requests \ (fresh \cup Range(queued)) = {r \in Requests : req[r].finished}
    BY DEF OnePlace
  <2> DEFINE X == {r \in Requests : ~req[r].finished}
             a == submitted \o waiting
             l == Among(running, X)
             q == a \o l
  <2>1. /\ submitted \in Seq(Requests) /\ waiting \in Seq(Requests) /\ running \in Seq(Requests)
        /\ IsInjective(submitted) /\ IsInjective(waiting) /\ IsInjective(running)
        /\ fresh \cap Range(submitted) = {} /\ fresh \cap Range(waiting) = {} /\ fresh \cap Live = {}
        /\ Range(submitted) \cap Range(waiting) = {} /\ Range(submitted) \cap Live = {}
        /\ Range(waiting) \cap Live = {}
        /\ \A r \in Requests :
             req[r].finished <=> r \notin fresh \cup Range(submitted) \cup Range(waiting) \cup Live
    BY DEF EngineInv, Types, Places
  <2>2. Range(running) \subseteq Requests
    BY <2>1, Elements DEF Range
  <2>3. l \in Seq(Requests) /\ Range(l) = Range(running) \cap X /\ IsInjective(l)
    BY <2>1, AmongIs
  <2>4. Range(l) = Live
    BY <2>2, <2>3 DEF Live
  <2> HIDE DEF X, l
  <2>5. a \in Seq(Requests) /\ Range(a) = Range(submitted) \cup Range(waiting) /\ IsInjective(a)
    BY <2>1, RangeConcat
  <2> HIDE DEF a
  <2>6. Range(a) \cap Range(l) = {}
    BY <2>1, <2>4, <2>5
  <2>7. Range(q) = Range(a) \cup Range(l) /\ IsInjective(q)
    BY <2>3, <2>5, <2>6, RangeConcat
  <2> HIDE DEF q
  <2>8. /\ IsInjective(q) /\ IsInjective(running) /\ Range(q) \cap fresh = {}
        /\ Requests \ (fresh \cup Range(q)) = {r \in Requests : req[r].finished}
    BY <2>1, <2>4, <2>5, <2>7
  <2> QED BY <2>8 DEF q, a, l, X
<1> QED BY <1>1, EngineInvariance, PTL

\* A request holds a row and pages from its prefill until it is retracted or its
\* deferred release is drained, and the allocator has what no request holds.
THEOREM HoldingsTheorem == Spec => []HoldingsReturned
<1>1. EngineInv => HoldingsReturned
  <2> SUFFICES ASSUME EngineInv PROVE HoldingsReturned
    OBVIOUS
  <2>1. /\ \A r \in Requests : req[r].has_row <=> r \in Range(pending_release) \/ r \in Live
        /\ \A r \in Requests : req[r].pages > 0 <=> req[r].has_row
        /\ free_pages = NumPages - HeldBy(req)
    BY DEF EngineInv, Holdings
  <2>2. NumHeld(Requests) = HeldBy(req)
    BY DEF NumHeld, Held, HeldBy
  <2> QED BY <2>1, <2>2 DEF HoldingsReturned, Live
<1> QED BY <1>1, EngineInvariance, PTL

\* What _get_new_batch_prefill admits, counting tokens, can be allocated in pages.
THEOREM PrefillFitsTheorem == Spec => []PrefillFits
<1>1. EngineInv => PrefillFits
  BY DEF EngineInv
<1> QED BY <1>1, EngineInvariance, PTL

\* When generate returns no result, no deferred release and no page is left behind.
THEOREM NothingLeftTheorem == Spec => []NothingLeft
<1>1. EngineInv => NothingLeft
  <2> SUFFICES ASSUME EngineInv, pc = "idle"
               PROVE  /\ result_queue = << >> /\ pending_release = << >> /\ running = << >>
                      /\ free_pages = NumPages
    BY DEF NothingLeft
  <2>1. running = << >> /\ result_queue = << >> /\ pending_release = << >>
    BY DEF EngineInv, Ends
  <2>2. Range(pending_release) = {} /\ Live = {}
    BY <2>1 DEF Range, Live
  <2>3. \A r \in Requests : req[r].pages \in Nat
    BY DEF EngineInv, Types, ReqTypes
  <2>4. \A r \in Requests : ~(req[r].pages > 0)
    BY <2>2 DEF EngineInv, Holdings
  <2>5. \A r \in Requests : req[r].pages = 0
    BY <2>3, <2>4
  <2>6. HeldBy(req) = 0
    <3>1. [r \in Requests |-> req[r].pages] = [r \in Requests |-> 0]
      BY <2>5
    <3>2. PagesOf(Requests, [r \in Requests |-> 0]) = {}
      BY DEF PagesOf
    <3> QED BY <3>1, <3>2, FS_EmptySet DEF HeldBy
  <2>7. free_pages = NumPages - HeldBy(req) /\ NumPages \in Nat
    BY EngineAssumption DEF EngineInv, Holdings, EngineAssumption
  <2> QED BY <2>1, <2>6, <2>7
<1> QED BY <1>1, EngineInvariance, PTL

\* A request holds no more pages than all of them do.
LEMMA PagesWithin ==
  ASSUME NEW q, \A r \in Requests : q[r].pages \in Nat, NEW s \in Requests
  PROVE  q[s].pages <= HeldBy(q) /\ HeldBy(q) \in Nat
<1> DEFINE n == [r \in Requests |-> q[r].pages]
           A == PagesOf(Requests, n)
           B == {s} \X (1..n[s])
<1>1. /\ \A r \in Requests : n[r] \in Nat
      /\ n[s] = q[s].pages
  OBVIOUS
<1> HIDE DEF n
<1>2. IsFiniteSet(A) /\ Cardinality(A) \in Nat
  BY <1>1, PagesFinite, EngineAssumption DEF EngineAssumption
<1>3. B \subseteq A
  BY DEF PagesOf
<1>4. Cardinality(B) = n[s]
  <2>1. IsFiniteSet({s}) /\ Cardinality({s}) = 1
    BY FS_Singleton
  <2>2. IsFiniteSet(1..n[s]) /\ Cardinality(1..n[s]) = n[s]
    <3> DEFINE k == n[s]
    <3>1. k \in Nat /\ 1 \in Int
      BY <1>1
    <3> HIDE DEF k
    <3>2. k \in Int
      BY <3>1
    <3>3. IsFiniteSet(1..k) /\ Cardinality(1..k) = IF 1 > k THEN 0 ELSE k - 1 + 1
      BY <3>1, <3>2, FS_Interval
    <3>4. Cardinality(1..k) = k
      BY <3>1, <3>3
    <3> QED BY <3>3, <3>4 DEF k
  <2>3. Cardinality(B) = 1 * n[s]
    <3> DEFINE E == {s}
               F == 1..n[s]
    <3>1. /\ IsFiniteSet(E) /\ Cardinality(E) = 1 /\ IsFiniteSet(F) /\ Cardinality(F) = n[s]
          /\ B = E \X F
      BY <2>1, <2>2
    <3> HIDE DEF E, F, B
    <3>2. Cardinality(E \X F) = Cardinality(E) * Cardinality(F)
      BY ONLY <3>1, FS_Product
    <3> QED BY ONLY <3>1, <3>2
  <2> QED BY <2>3, <1>1
<1>5. Cardinality(B) <= Cardinality(A)
  BY <1>2, <1>3, FS_Subset
<1>6. HeldBy(q) = Cardinality(A)
  BY DEF HeldBy, n
<1> QED BY <1>1, <1>2, <1>4, <1>5, <1>6

\* The sequences of the running batch are parallel whenever a step begins, and no
\* request holds more pages than there are.
THEOREM BatchAlignedTheorem == Spec => []BatchAligned
<1>1. EngineInv => BatchAligned
  <2> SUFFICES ASSUME EngineInv PROVE TypeOK /\ PlaceholdersAligned
    BY DEF BatchAligned
  <2>1. Types /\ Limits /\ Holdings /\ Batches
    BY DEF EngineInv
  <2>2. /\ free_pages \in Nat /\ free_pages = NumPages - HeldBy(req) /\ NumPages \in Nat
        /\ \A r \in Requests : req[r].pages \in Nat
    BY <2>1, EngineAssumption DEF Holdings, Types, ReqTypes, EngineAssumption
  <2>3. HeldBy(req) \in Nat
    BY <2>2, HeldNat
  <2>4. ASSUME NEW r \in Requests PROVE req[r].pages \in 0..NumPages
    <3>1. req[r].pages <= HeldBy(req)
      BY <2>2, PagesWithin
    <3> QED BY <3>1, <2>2, <2>3
  <2>5. free_pages \in 0..NumPages
    BY <2>2, <2>3
  <2>6. ASSUME NEW r \in Requests
        PROVE  /\ req[r].output_ids \in Seq(Token(r)) /\ Len(req[r].output_ids) <= MaxTokens[r]
               /\ req[r].kv \in Seq(Token(r))
               /\ {req[r].finished, req[r].is_retracted, req[r].has_row} \subseteq BOOLEAN
    <3>1. req[r] \in ReqTypes(r)
      BY <2>1 DEF Types
    <3>2. req[r].finished \in BOOLEAN /\ req[r].is_retracted \in BOOLEAN /\ req[r].has_row \in BOOLEAN
      BY <3>1 DEF ReqTypes
    <3>3. req[r].output_ids \in Seq(Token(r)) /\ req[r].kv \in Seq(Token(r))
      BY <3>1 DEF ReqTypes
    <3>4. {req[r].finished, req[r].is_retracted, req[r].has_row} \subseteq BOOLEAN
      BY <3>2, Zenon
    <3> QED BY <2>1, <3>3, <3>4 DEF Limits
  <2>7. TypeOK
    BY <2>1, <2>4, <2>5, <2>6 DEF TypeOK, Types
  <2>8. PlaceholdersAligned
    <3> SUFFICES ASSUME pc = "recv", output_ids # << >>
                 PROVE output_ids = [i \in DOMAIN running |-> <<running[i], Len(req[running[i]].kv) + 1>>]
      BY DEF PlaceholdersAligned
    <3> DEFINE n == Len(running)
               t(i) == <<running[i], Len(req[running[i]].kv) + 1>>
    <3>1. Aligned(req, output_ids, running, n)
      BY <2>1 DEF Batches, Scheduled, Raised
    <3>2. Len(output_ids) = n /\ \A i \in 1..n : output_ids[i] = t(i)
      BY <3>1 DEF Aligned
    <3>3. DOMAIN running = 1..n /\ n \in Nat
      BY <2>1, Elements DEF Types
    <3>4. output_ids \in Seq(Requests \X Nat) 
      BY <2>1 DEF Types
    <3>5. DOMAIN output_ids = DOMAIN running
      BY <3>2, <3>3, <3>4, Elements
    <3>6. output_ids = [i \in DOMAIN output_ids |-> output_ids[i]]
      BY <3>4
    <3> HIDE DEF t, n
    <3>7. output_ids = [i \in DOMAIN running |-> t(i)]
      BY <3>2, <3>3, <3>5, <3>6
    <3> QED BY <3>7 DEF t
  <2> QED BY <2>7, <2>8
<1> QED BY <1>1, EngineInvariance, PTL

---------------------------------------------------------------------------
(* What the engine reports, as long as it retracts nobody.                  *)

\* No request has been sent back to the waiting queue with its output dropped.
NoneRetracted == \A r \in Requests : ~req[r].is_retracted

\* The record in the queue has a token for r; so has the batch of this step, once it is
\* launched or, if it prefills, chosen.
InRecord(r) == result_queue # << >> /\ r \in Range(result_queue[1].reqs)

InBatch(r) == /\ pc \in Scheduled \cup Launched /\ batch.mode # "none" /\ r \in Range(batch.reqs)
              /\ batch.mode = "extend" \/ pc \in Launched

\* Tokens of r that have been sampled, or are about to be, and are not reported.
Owed(r) == (IF InRecord(r) THEN 1 ELSE 0) + (IF InBatch(r) THEN 1 ELSE 0)

\* The lengths that schedule() has counted ahead of the forward pass.
Ahead == IF pc \in Scheduled /\ batch.mode = "decode" THEN 1 ELSE 0

\* The next token of r that is not fed to a forward pass yet.
Unfed(r) == <<r, Len(req[r].kv) + 1>>

\* What is reported and what is fed are the tokens in their order.
Ordered == \A r \in Requests : InOrder(req[r].output_ids, r) /\ InOrder(req[r].kv, r)

\* Who does not run yet has neither.
Unstarted ==
  \A r \in Requests : ~req[r].finished /\ r \notin Live =>
    req[r].output_ids = << >> /\ req[r].kv = << >>

\* How far apart the two are.
Reported == \A r \in Live : Len(req[r].output_ids) + Owed(r) = Len(req[r].kv) + 1

\* The tokens on the way are the next ones.
OnTheWay ==
  /\ result_queue # << >> =>
       \A i \in DOMAIN result_queue[1].reqs :
         LET r == result_queue[1].reqs[i]
         IN ~req[r].finished => pinned[i] = <<r, Len(req[r].output_ids) + 1>>
  /\ pc \in Launched =>
       \A i \in DOMAIN batch.reqs : batch.sampled[i] = Unfed(batch.reqs[i])
  /\ pc \in Scheduled /\ batch.mode = "decode" =>
       \A i \in DOMAIN batch.reqs : batch.input[i] = Unfed(batch.reqs[i])

\* The lengths of running_batch.
Lengths ==
  \A i \in DOMAIN running : seq_lens[i] = PromptLen[running[i]] + Len(req[running[i]].kv) + Ahead

\* The inductive invariant of a run without retractions, beside EngineInv.
ReportInv ==
  /\ Ordered
  /\ pc \notin Raised => Unstarted /\ Reported /\ OnTheWay /\ Lengths

\* A step reports nothing.
Silent ==
  \A r \in Requests : /\ req'[r].output_ids = req[r].output_ids /\ req'[r].finished = req[r].finished
                      /\ req'[r].is_retracted = req[r].is_retracted

---------------------------------------------------------------------------
\* One token more keeps the order.
LEMMA InOrderNext ==
  ASSUME NEW r, NEW s \in Seq(Token(r)), InOrder(s, r), NEW t, t = <<r, Len(s) + 1>>,
         NEW u, u = Append(s, t)
  PROVE  InOrder(u, r)
<1>1. PICK n : n = Len(s)
  OBVIOUS
<1>2. n \in Nat /\ DOMAIN s = 1..n /\ \A i \in 1..n : s[i] = <<r, i>>
  BY <1>1 DEF InOrder
<1>3. /\ u = [i \in 1..(n + 1) |-> IF i = n + 1 THEN t ELSE s[i]]
  BY <1>1
<1>4. ASSUME NEW i \in 1..(n + 1) PROVE u[i] = <<r, i>>
  <2>1. CASE i = n + 1
    BY <2>1, <1>1, <1>2, <1>3
  <2>2. CASE i # n + 1
    <3>1. i \in 1..n
      BY <2>2, <1>2
    <3> QED BY <2>2, <3>1, <1>2, <1>3
  <2> QED BY <2>1, <2>2
<1>5. DOMAIN u = 1..(n + 1)
  BY <1>3
<1>6. u = [i \in DOMAIN u |-> u[i]]
  BY <1>3
<1> QED BY <1>4, <1>5, <1>6 DEF InOrder

\* Nothing that the reports depend on changes.
LEMMA SameReports ==
  ASSUME ReportInv,
         UNCHANGED <<pc, batch, req, running, seq_lens, result_queue, pinned>>
  PROVE  ReportInv'
<1>1. Live' = Live /\ Ahead' = Ahead
  BY DEF Live, Ahead
<1>2. \A r : Owed(r)' = Owed(r)
  BY DEF Owed, InRecord, InBatch
<1>3. \A r : Unfed(r)' = Unfed(r)
  BY DEF Unfed
<1>4. Ordered' /\ (pc' \notin Raised => Unstarted')
  BY <1>1 DEF ReportInv, Ordered, Unstarted
<1>5. pc' \notin Raised => Reported'
  BY <1>1, <1>2 DEF ReportInv, Reported
<1>6. pc' \notin Raised => Lengths'
  BY <1>1 DEF ReportInv, Lengths
<1>7. pc' \notin Raised => OnTheWay'
  BY <1>3 DEF ReportInv, OnTheWay
<1> QED BY <1>4, <1>5, <1>6, <1>7 DEF ReportInv

\* What a step does that reports nothing and feeds nothing.
LEMMA FrameReports ==
  ASSUME ReportInv, EngineInv,
         \A r \in Requests : /\ req'[r].output_ids = req[r].output_ids
                             /\ req'[r].kv = req[r].kv /\ req'[r].finished = req[r].finished,
         UNCHANGED <<running, seq_lens, result_queue, pinned>>,
         pc \notin Raised, pc \notin Scheduled \cup Launched \/ batch.mode = "none",
         pc' \notin Scheduled \cup Launched
  PROVE  ReportInv'
<1>1. /\ running \in Seq(Requests) /\ DOMAIN running = 1..Len(running)
      /\ \A i \in DOMAIN running : running[i] \in Requests
  BY Elements DEF EngineInv, Types
<1>2. Range(running) \subseteq Requests
  BY <1>1 DEF Range
<1>3. Live' = Live /\ Live \subseteq Requests
  BY <1>2 DEF Live
<1>4. Ahead = 0 /\ Ahead' = 0
  BY DEF Ahead, Scheduled, Launched
<1>5. \A r : Owed(r)' = Owed(r)
  <2>1. \A r : ~InBatch(r) /\ ~InBatch(r)'
    BY DEF InBatch
  <2>2. \A r : InRecord(r)' = InRecord(r)
    BY DEF InRecord
  <2> QED BY <2>1, <2>2 DEF Owed
<1>6. Ordered'
  BY DEF ReportInv, Ordered
<1>7. Unstarted'
  BY <1>3 DEF ReportInv, Unstarted
<1>8. Reported'
  <2>1. \A r \in Live : r \in Requests /\ Len(req[r].output_ids) + Owed(r) = Len(req[r].kv) + 1
    BY <1>3 DEF ReportInv, Reported
  <2> QED BY <2>1, <1>3, <1>5 DEF Reported
<1>9. Lengths'
  BY <1>1, <1>4 DEF ReportInv, Lengths
<1>10. OnTheWay'
  <2>1. ASSUME result_queue # << >>, NEW i \in DOMAIN result_queue[1].reqs
        PROVE  LET r == result_queue[1].reqs[i]
               IN ~req'[r].finished => pinned[i] = <<r, Len(req'[r].output_ids) + 1>>
    <3>1. result_queue[1].reqs \in Seq(Requests)
      BY <2>1 DEF EngineInv, Records
    <3>2. result_queue[1].reqs[i] \in Requests
      BY <3>1, Elements
    <3>3. LET r == result_queue[1].reqs[i]
          IN ~req[r].finished => pinned[i] = <<r, Len(req[r].output_ids) + 1>>
      BY <2>1 DEF ReportInv, OnTheWay
    <3> QED BY <3>2, <3>3
  <2> QED BY <2>1 DEF OnTheWay
<1> QED BY <1>6, <1>7, <1>8, <1>9, <1>10 DEF ReportInv

\* Requests are received, a step comes to its end, or there is nothing to launch.
LEMMA GenerateReports ==
  ASSUME ReportInv, EngineInv, NEW prompts, Generate(prompts)
  PROVE  ReportInv'
<1>1. pc = "idle" /\ pc' = "recv" /\ UNCHANGED <<running, seq_lens, result_queue, pinned, req>>
  BY DEF Generate, exec
<1> QED BY <1>1, FrameReports DEF Raised, Scheduled, Launched

\* submit_request's queue and the choice of the path report nothing.
LEMMA RecvReports ==
  ASSUME ReportInv, EngineInv, RecvRequests
  PROVE  ReportInv'
<1>1. /\ pc = "recv" /\ pc' \in {"conservative", "schedule"}
      /\ UNCHANGED <<running, seq_lens, result_queue, pinned, req>>
  BY DEF RecvRequests, exec
<1> QED BY <1>1, FrameReports DEF Raised, Scheduled, Launched

\* A step without a batch reports nothing.
LEMMA LaunchNothingReports ==
  ASSUME ReportInv, EngineInv, LaunchNothing
  PROVE  ReportInv'
<1>1. /\ pc = "launch" /\ batch.mode = "none" /\ pc' = "drain"
      /\ UNCHANGED <<running, seq_lens, result_queue, pinned, req>>
  BY DEF LaunchNothing, exec, sched
<1> QED BY <1>1, FrameReports DEF Raised, Scheduled, Launched

\* drain_pending_releases takes rows and pages away, nothing else.
LEMMA DrainIs ==
  ASSUME EngineInv, Drain
  PROVE  Silent /\ \A r \in Requests : req'[r].kv = req[r].kv /\ req'[r].pages \in {0, req[r].pages}
<1> DEFINE done == Range(pending_release)
<1>1. req' = req \/ req' = [r \in Requests |-> IF r \in done THEN Unreleased(r) ELSE req[r]]
  BY DEF Drain
<1>2. ASSUME NEW r \in Requests
      PROVE  /\ req'[r].output_ids = req[r].output_ids /\ req'[r].finished = req[r].finished
             /\ req'[r].is_retracted = req[r].is_retracted
             /\ req'[r].kv = req[r].kv /\ req'[r].pages \in {0, req[r].pages}
  <2>1. req[r] \in ReqTypes(r)
    BY DEF EngineInv, Types
  <2> DEFINE x == req[r]
             y == [x EXCEPT !.has_row = FALSE, !.pages = 0]
  <2>2. Unreleased(r) = y
    BY DEF Unreleased
  <2> HIDE DEF x
  <2>3. /\ y.output_ids = x.output_ids /\ y.kv = x.kv /\ y.finished = x.finished
        /\ y.is_retracted = x.is_retracted /\ y.pages = 0
    BY <2>1 DEF ReqTypes, x
  <2> HIDE DEF y
  <2>4. req'[r] = x \/ req'[r] = y
    BY <1>1, <2>2 DEF x
  <2> QED BY <2>3, <2>4 DEF x
<1> QED BY <1>2 DEF Silent

\* Pages given back do not show.
LEMMA DrainReports ==
  ASSUME ReportInv, EngineInv, Drain
  PROVE  ReportInv'
<1>1. /\ pc = "drain" /\ pc' \in {"released twice", "recv", "idle"}
      /\ UNCHANGED <<running, seq_lens, result_queue, pinned>>
  BY DEF Drain, exec
<1>2. \A r \in Requests : /\ req'[r].output_ids = req[r].output_ids
                          /\ req'[r].kv = req[r].kv /\ req'[r].finished = req[r].finished
  BY DrainIs DEF Silent
<1> QED BY <1>1, <1>2, FrameReports DEF Raised, Scheduled, Launched

\* What process_pending_batch reports: one token more for every request of the record
\* that has not ended, the next of its tokens.
Reports(gets, ends, eos) ==
  /\ gets = {r \in Live : InRecord(r)} /\ ends \in SUBSET gets
  /\ \A r \in gets : r \in ends <=> r \in eos \/ Len(req[r].output_ids) + 1 = MaxTokens[r]
  /\ \A r \in Requests :
       /\ req'[r].kv = req[r].kv /\ req'[r].pages = req[r].pages
       /\ req'[r].is_retracted => req[r].is_retracted
       /\ req'[r].finished = (req[r].finished \/ r \in ends)
       /\ req'[r].output_ids = IF r \in gets
                                 THEN Append(req[r].output_ids, <<r, Len(req[r].output_ids) + 1>>)
                                 ELSE req[r].output_ids

\* process_pending_batch reports the tokens that the pinned buffer holds for the record.
LEMMA PendingReports ==
  ASSUME ReportInv, EngineInv, PinnedInv, NoneRetracted, pc \notin Raised, result_queue # << >>,
         NEW eos, ProcessPending(eos)
  PROVE  \E gets, ends : Reports(gets, ends, eos)
<1> DEFINE rec      == Head(result_queue).reqs
           place(r) == CHOOSE i \in DOMAIN rec : rec[i] = r
           gets     == {r \in Range(rec) : ~Skipped(r)}
           ends     == {r \in gets : r \in eos \/ AtLimit(r)}
<1>1. Head(result_queue) = result_queue[1]
  OBVIOUS
<1>2. /\ req' = [r \in Requests |->
          IF r \in gets
            THEN [req[r] EXCEPT !.output_ids = Append(@, pinned[place(r)]),
                                !.finished = r \in ends]
          ELSE IF r \in Range(rec) /\ ~req[r].finished
            THEN [req[r] EXCEPT !.is_retracted = FALSE]
          ELSE req[r]]
  BY DEF ProcessPending
<1>3. ends \in SUBSET gets
  OBVIOUS
<1> HIDE DEF gets, ends, place
<1>4. rec = result_queue[1].reqs
  BY <1>1
<1> HIDE DEF rec
<1>5. /\ rec \in Seq(Requests)
      /\ \A r \in Range(rec) : r \in Range(running) \/ req[r].finished \/ req[r].is_retracted
  BY <1>4 DEF EngineInv, Records
<1>6. /\ \A r \in Requests : req[r] \in ReqTypes(r)
      /\ \A r \in Requests : /\ ~req[r].finished => Len(req[r].output_ids) < MaxTokens[r]
                             /\ MaxTokens[r] \in Nat
  BY EngineAssumption DEF EngineInv, Types, Limits, EngineAssumption
<1>7. \A r \in Range(rec) : r \in Requests
  BY <1>5, Elements DEF Range
<1>8. gets = {r \in Live : InRecord(r)} /\ gets \in SUBSET Requests
  <2>1. \A r \in Range(rec) : ~req[r].is_retracted
    BY <1>7 DEF NoneRetracted
  <2>2. gets = {r \in Range(rec) : ~req[r].finished}
    BY <2>1 DEF gets, Skipped
  <2>3. \A r \in gets : r \in Live
    BY <2>1, <2>2, <1>5 DEF Live
  <2>4. \A r : InRecord(r) <=> r \in Range(rec)
    BY <1>4 DEF InRecord
  <2> QED BY <2>2, <2>3, <2>4, <1>7 DEF Live
<1>9. ASSUME NEW r \in gets
      PROVE  r \in ends <=> r \in eos \/ Len(req[r].output_ids) + 1 = MaxTokens[r]
  <2>1. r \in Requests /\ ~req[r].finished /\ req[r] \in ReqTypes(r)
    BY <1>6, <1>8 DEF Live
  <2>2. Len(req[r].output_ids) \in Nat /\ Len(req[r].output_ids) < MaxTokens[r] /\ MaxTokens[r] \in Nat
    BY <2>1, <1>6, LenProperties DEF ReqTypes
  <2>3. AtLimit(r) <=> Len(req[r].output_ids) + 1 = MaxTokens[r]
    BY <2>2 DEF AtLimit
  <2> QED BY <2>3 DEF ends
<1>10. ASSUME NEW r \in Requests
       PROVE  /\ req'[r].kv = req[r].kv /\ req'[r].pages = req[r].pages
              /\ req'[r].is_retracted => req[r].is_retracted
              /\ req'[r].finished = (req[r].finished \/ r \in ends)
              /\ req'[r].output_ids = IF r \in gets
                                 THEN Append(req[r].output_ids, <<r, Len(req[r].output_ids) + 1>>)
                                 ELSE req[r].output_ids
  <2> DEFINE x == req[r]
             b == r \in ends
  <2>0. x \in ReqTypes(r)
    BY <1>6
  <2>1. CASE r \in gets
    <3>1. r \in Live /\ InRecord(r) /\ ~req[r].finished
      BY <2>1, <1>8 DEF Live
    <3> DEFINE i == place(r)
    <3>2. i \in DOMAIN rec /\ rec[i] = r
      <4>1. \E j \in DOMAIN rec : rec[j] = r
        BY <3>1, <1>4 DEF InRecord, Range
      <4> QED BY <4>1 DEF place
    <3> HIDE DEF i
    <3>3. pinned[i] = <<r, Len(req[r].output_ids) + 1>>
      BY <3>1, <3>2, <1>4 DEF ReportInv, OnTheWay
    <3> DEFINE y == AddToken(x, pinned[i], b)
    <3>4. req'[r] = y
      BY <1>2, <2>1 DEF AddToken, i
    <3>5. b \in BOOLEAN /\ pinned[i] \in Token(r) /\ y = AddToken(x, pinned[i], b)
      <4>1. Len(x.output_ids) \in Nat
        BY <2>0, LenProperties DEF ReqTypes
      <4> QED BY <3>3, <4>1 DEF Token
    <3> HIDE DEF b
    <3>6. /\ y.kv = x.kv /\ y.finished = b /\ y.output_ids = Append(x.output_ids, pinned[i])
          /\ y.pages = x.pages /\ y.is_retracted = x.is_retracted
      <4> DEFINE t == pinned[i]
                 o == Append(x.output_ids, t)
      <4>1. y = [x EXCEPT !.output_ids = o, !.finished = b]
        BY DEF AddToken
      <4> HIDE DEF o, x, y
      <4>2. /\ y.kv = x.kv /\ y.finished = b /\ y.output_ids = o
            /\ y.pages = x.pages /\ y.is_retracted = x.is_retracted
        BY <4>1, <2>0 DEF ReqTypes
      <4> QED BY <4>2 DEF o
    <3> HIDE DEF y
    <3> QED BY <2>1, <3>1, <3>3, <3>4, <3>6 DEF b, x
  <2>2. CASE r \notin gets /\ r \in Range(rec) /\ ~req[r].finished
    <3>1. req'[r] = [req[r] EXCEPT !.is_retracted = FALSE]
      BY <1>2, <2>2
    <3> DEFINE y == [x EXCEPT !.is_retracted = FALSE]
    <3> HIDE DEF x
    <3>3. /\ y.kv = x.kv /\ y.output_ids = x.output_ids /\ y.finished = x.finished
          /\ y.pages = x.pages /\ ~y.is_retracted
      BY <2>0 DEF ReqTypes
    <3> HIDE DEF y
    <3>4. req'[r] = y
      BY <3>1 DEF x, y
    <3>5. r \notin ends /\ x.finished \in BOOLEAN
      BY <2>0, <2>2, <1>3 DEF ReqTypes
    <3> QED BY <2>2, <3>3, <3>4, <3>5 DEF x
  <2>3. CASE r \notin gets /\ ~(r \in Range(rec) /\ ~req[r].finished)
    <3>1. req'[r] = req[r] /\ r \notin ends /\ req[r].finished \in BOOLEAN
      BY <1>2, <1>3, <2>3, <2>0 DEF ReqTypes
    <3> QED BY <3>1, <2>3
  <2> QED BY <2>1, <2>2, <2>3
<1>11. Reports(gets, ends, eos)
  BY <1>3, <1>8, <1>9, <1>10 DEF Reports
<1> QED BY <1>11

\* Phases 2, 3.5 and 5.
LEMMA ProcessReports ==
  ASSUME ReportInv, EngineInv, PinnedInv, NoneRetracted, pc \in ReadsRecord,
         pc' = IF pc = "conservative" THEN "schedule"
               ELSE IF pc = "consecutive" THEN "launch" ELSE "sample",
         NEW eos, ProcessPending(eos)
  PROVE  ReportInv'
<1>1. UNCHANGED <<running, seq_lens, batch, pinned>>
  BY DEF ProcessPending, sched
<1>2. result_queue # << >> /\ result_queue' = << >>
  <2>1. result_queue # << >> /\ AtMostOne(result_queue)
    BY DEF PinnedInv
  <2> QED BY <2>1, ProcessEmpties
<1>3. pc \notin Raised /\ pc' \notin Raised
  BY DEF ReadsRecord, Raised
<1>4. PICK gets, ends : Reports(gets, ends, eos)
  BY <1>2, <1>3, PendingReports
<1>5. /\ gets = {r \in Live : InRecord(r)} /\ ends \in SUBSET gets
      /\ \A r \in Requests :
           /\ req'[r].kv = req[r].kv
           /\ req'[r].finished = (req[r].finished \/ r \in ends)
           /\ req'[r].output_ids = IF r \in gets
                                 THEN Append(req[r].output_ids, <<r, Len(req[r].output_ids) + 1>>)
                                 ELSE req[r].output_ids
  BY <1>4 DEF Reports
<1>6. /\ running \in Seq(Requests) /\ DOMAIN running = 1..Len(running)
      /\ \A i \in DOMAIN running : running[i] \in Requests
      /\ \A r \in Requests : req[r].output_ids \in Seq(Token(r)) /\ Len(req[r].output_ids) \in Nat
                             /\ Len(req[r].kv) \in Nat
  <2>1. ASSUME NEW r \in Requests
        PROVE  req[r].output_ids \in Seq(Token(r)) /\ Len(req[r].output_ids) \in Nat
               /\ Len(req[r].kv) \in Nat
    <3>1. req[r] \in ReqTypes(r)
      BY DEF EngineInv, Types
    <3> QED BY <3>1, LenProperties DEF ReqTypes
  <2> QED BY <2>1, Elements DEF EngineInv, Types
<1>7. Live \subseteq Requests /\ Live' = Live \ ends
  <2>1. Range(running) \subseteq Requests
    BY <1>6 DEF Range
  <2>2. Live' = {r \in Range(running) : ~req'[r].finished}
    BY <1>1 DEF Live
  <2> QED BY <1>5, <2>1, <2>2 DEF Live
<1>8. Ahead' = Ahead /\ \A r : InBatch(r)' = InBatch(r)
  BY <1>1 DEF Ahead, InBatch, ReadsRecord, Scheduled, Launched
<1>9. Ordered'
  <2> SUFFICES ASSUME NEW r \in Requests PROVE InOrder(req'[r].output_ids, r) /\ InOrder(req'[r].kv, r)
    BY DEF Ordered
  <2>1. InOrder(req[r].output_ids, r) /\ InOrder(req[r].kv, r)
    BY DEF ReportInv, Ordered
  <2>2. CASE r \in gets
    <3> DEFINE s == req[r].output_ids
               t == <<r, Len(s) + 1>>
               u == Append(s, t)
    <3>1. req'[r].output_ids = u /\ req'[r].kv = req[r].kv
      BY <1>5, <2>2
    <3>2. s \in Seq(Token(r)) /\ InOrder(s, r) /\ t = <<r, Len(s) + 1>> /\ u = Append(s, t)
      BY <2>1, <1>6
    <3> HIDE DEF s, t, u
    <3>3. InOrder(u, r)
      BY ONLY <3>2, InOrderNext
    <3> QED BY <3>1, <3>3, <2>1
  <2>3. CASE r \notin gets
    BY <2>1, <2>3, <1>5
  <2> QED BY <2>2, <2>3
<1>10. Unstarted'
  <2> SUFFICES ASSUME NEW r \in Requests, ~req'[r].finished, r \notin Live'
               PROVE  req'[r].output_ids = << >> /\ req'[r].kv = << >>
    BY DEF Unstarted
  <2>1. r \notin ends /\ r \notin Live /\ ~req[r].finished /\ r \notin gets
    BY <1>5, <1>7
  <2> QED BY <2>1, <1>3, <1>5 DEF ReportInv, Unstarted
<1>11. Reported'
  <2> SUFFICES ASSUME NEW r \in Live' PROVE Len(req'[r].output_ids) + Owed(r)' = Len(req'[r].kv) + 1
    BY DEF Reported
  <2>1. r \in Live /\ r \in Requests /\ r \notin ends
    BY <1>7
  <2>2. Len(req[r].output_ids) + Owed(r) = Len(req[r].kv) + 1
    BY <2>1, <1>3 DEF ReportInv, Reported
  <2>3. ~InRecord(r)'
    BY <1>2 DEF InRecord
  <2> DEFINE b == IF InBatch(r) THEN 1 ELSE 0
             n == Len(req[r].output_ids)
  <2>4. Owed(r)' = b /\ Owed(r) = (IF r \in gets THEN 1 ELSE 0) + b /\ b \in Nat
    BY <2>1, <2>3, <1>5, <1>8 DEF Owed
  <2>5. req'[r].kv = req[r].kv /\ n \in Nat
        /\ Len(req'[r].output_ids) = n + (IF r \in gets THEN 1 ELSE 0)
    <3>1. CASE r \in gets
      <4> DEFINE s == req[r].output_ids
                 t == <<r, Len(s) + 1>>
      <4>1. req'[r].output_ids = Append(s, t) /\ s \in Seq(Token(r)) /\ Len(s) \in Nat
        BY <2>1, <3>1, <1>5, <1>6
      <4>3. t \in Token(r)
        BY <4>1 DEF Token
      <4> HIDE DEF s, t
      <4>2. Len(req'[r].output_ids) = Len(s) + 1
        BY <4>1, <4>3, AppendProperties
      <4>4. req'[r].kv = req[r].kv /\ n = Len(s)
        BY <2>1, <1>5 DEF s
      <4> HIDE DEF n
      <4> QED BY <4>1, <4>2, <4>4, <3>1
    <3>2. CASE r \notin gets
      <4>1. req'[r].kv = req[r].kv /\ Len(req'[r].output_ids) = n /\ n \in Nat
        BY <2>1, <3>2, <1>5, <1>6
      <4> HIDE DEF n
      <4> QED BY <4>1, <3>2
    <3> QED BY <3>1, <3>2
  <2> HIDE DEF b, n
  <2>6. n + Owed(r) = Len(req[r].kv) + 1
    BY <2>2 DEF n
  <2> QED BY <2>4, <2>5, <2>6
<1>12. OnTheWay'
  <2>1. \A i \in DOMAIN batch.reqs : pc \in Launched => batch.sampled[i] = Unfed(batch.reqs[i])
    BY <1>3 DEF ReportInv, OnTheWay
  <2>2. \A i \in DOMAIN batch.reqs :
          pc \in Scheduled /\ batch.mode = "decode" => batch.input[i] = Unfed(batch.reqs[i])
    BY <1>3 DEF ReportInv, OnTheWay
  <2>3. pc' \in Launched => pc \in Launched /\ batch.mode # "none"
    BY DEF ReadsRecord, Launched, EngineInv, Batches
  <2>4. pc' \in Scheduled => pc \in Scheduled
    BY DEF ReadsRecord, Scheduled
  <2>5. pc \in Scheduled \cup Launched /\ batch.mode # "none" =>
          \A i \in DOMAIN batch.reqs : batch.reqs[i] \in Requests
    <3>1. pc \in Scheduled \cup Launched /\ batch.mode # "none" => batch.reqs \in Seq(Requests)
      BY DEF EngineInv, Batches
    <3> QED BY <3>1, Elements
  <2>6. \A r \in Requests : Unfed(r) = <<r, Len(req'[r].kv) + 1>>
    BY <1>5 DEF Unfed
  <2>7. pc' \in Launched => \A i \in DOMAIN batch.reqs :
          batch.sampled[i] = <<batch.reqs[i], Len(req'[batch.reqs[i]].kv) + 1>>
    BY <2>1, <2>3, <2>5, <2>6
  <2>8. pc' \in Scheduled /\ batch.mode = "decode" => \A i \in DOMAIN batch.reqs :
          batch.input[i] = <<batch.reqs[i], Len(req'[batch.reqs[i]].kv) + 1>>
    BY <2>2, <2>4, <2>5, <2>6
  <2> QED BY <2>7, <2>8, <1>1, <1>2 DEF OnTheWay, Unfed
<1>13. Lengths'
  BY <1>1, <1>3, <1>5, <1>6, <1>8 DEF ReportInv, Lengths
<1> QED BY <1>9, <1>10, <1>11, <1>12, <1>13 DEF ReportInv

\* submit_request reports nothing.
LEMMA SubmitReports ==
  ASSUME ReportInv, NEW r, Submit(r)
  PROVE  ReportInv'
<1>1. UNCHANGED <<pc, batch, req, running, seq_lens, result_queue, pinned>>
  BY DEF Submit, exec, sched
<1> QED BY <1>1, SameReports

\* Neither does a step that changes nothing.
LEMMA StutterReports ==
  ASSUME ReportInv, UNCHANGED vars
  PROVE  ReportInv'
<1>1. UNCHANGED <<pc, batch, req, running, seq_lens, result_queue, pinned>>
  BY DEF vars, exec, sched
<1> QED BY <1>1, SameReports

\* A request whose token t is fed.
Fed(x, t) == [x EXCEPT !.kv = Append(@, t)]

\* The next token is fed.
LEMMA TokenFed ==
  ASSUME NEW r \in Requests, NEW x \in ReqTypes(r), InOrder(x.kv, r),
         NEW t, t = <<r, Len(x.kv) + 1>>, NEW y, y = Fed(x, t)
  PROVE  /\ y.output_ids = x.output_ids /\ y.finished = x.finished
         /\ y.is_retracted = x.is_retracted /\ y.pages = x.pages
         /\ InOrder(y.kv, r) /\ Len(y.kv) = Len(x.kv) + 1
<1> DEFINE s == x.kv
           u == Append(s, t)
<1>1. s \in Seq(Token(r)) /\ InOrder(s, r) /\ Len(s) \in Nat /\ t = <<r, Len(s) + 1>>
      /\ u = Append(s, t)
  BY LenProperties DEF ReqTypes
<1>2. y = [x EXCEPT !.kv = u]
  BY DEF Fed
<1> HIDE DEF s, u
<1>3. t \in Token(r)
  BY <1>1 DEF Token
<1>4. InOrder(u, r)
  BY ONLY <1>1, InOrderNext
<1>5. Len(u) = Len(s) + 1
  BY <1>1, <1>3, AppendProperties
<1>6. /\ y.kv = u /\ y.output_ids = x.output_ids /\ y.finished = x.finished
      /\ y.is_retracted = x.is_retracted /\ y.pages = x.pages
  BY <1>2 DEF ReqTypes
<1> QED BY <1>4, <1>5, <1>6 DEF s

\* The forward pass of the batch is to feed r its next token.
Feeds(r) == batch.mode = "decode" /\ r \in Range(batch.reqs)

\* Phase 4: a decode batch feeds each of its requests the token sampled for it last.
LEMMA LaunchIs ==
  ASSUME ReportInv, EngineInv, Launch
  PROVE  /\ Silent
         /\ \A r \in Requests :
              /\ InOrder(req'[r].kv, r) /\ Len(req[r].kv) \in Nat /\ req'[r].pages = req[r].pages
              /\ Len(req'[r].kv) = IF Feeds(r) THEN Len(req[r].kv) + 1 ELSE Len(req[r].kv)
              /\ ~Feeds(r) => req'[r] = req[r]
<1> DEFINE fed(r) == batch.input[CHOOSE i \in DOMAIN batch.reqs : batch.reqs[i] = r]
<1>1. /\ pc = "launch"
      /\ req' = [r \in Requests |-> IF Feeds(r) THEN Fed(req[r], fed(r)) ELSE req[r]]
  BY DEF Launch, Feeds, Fed
<1> HIDE DEF fed
<1>2. pc \in Scheduled /\ pc \notin Raised /\ \A r \in Requests : req[r] \in ReqTypes(r)
  BY <1>1 DEF Scheduled, Raised, EngineInv, Types
<1>3. ASSUME NEW r \in Requests
      PROVE  /\ req'[r].output_ids = req[r].output_ids /\ req'[r].finished = req[r].finished
             /\ req'[r].is_retracted = req[r].is_retracted /\ req'[r].pages = req[r].pages
             /\ InOrder(req'[r].kv, r) /\ Len(req[r].kv) \in Nat
             /\ Len(req'[r].kv) = IF Feeds(r) THEN Len(req[r].kv) + 1 ELSE Len(req[r].kv)
             /\ ~Feeds(r) => req'[r] = req[r]
  <2> DEFINE x == req[r]
             y == req'[r]
             t == fed(r)
  <2>1. x \in ReqTypes(r) /\ InOrder(x.kv, r)
    BY <1>2 DEF ReportInv, Ordered
  <2>2. Len(x.kv) \in Nat
    BY <2>1, LenProperties DEF ReqTypes
  <2>3. CASE Feeds(r)
    <3>1. PICK n \in DOMAIN batch.reqs : batch.reqs[n] = r
      BY <2>3 DEF Range, Feeds
    <3> DEFINE j == CHOOSE i \in DOMAIN batch.reqs : batch.reqs[i] = r
    <3>2. j \in DOMAIN batch.reqs /\ batch.reqs[j] = r
      BY <3>1
    <3>3. fed(r) = batch.input[j]
      BY DEF fed
    <3> HIDE DEF j
    <3>4. fed(r) = <<r, Len(req[r].kv) + 1>>
      BY <3>2, <3>3, <2>3, <1>2 DEF ReportInv, OnTheWay, Unfed, Feeds
    <3>5. y = Fed(x, t) /\ t = <<r, Len(x.kv) + 1>>
      BY <1>1, <2>3, <3>4
    <3> HIDE DEF x, y, t
    <3>6. /\ y.output_ids = x.output_ids /\ y.finished = x.finished
          /\ y.is_retracted = x.is_retracted /\ y.pages = x.pages
          /\ InOrder(y.kv, r) /\ Len(y.kv) = Len(x.kv) + 1
      BY ONLY <2>1, <3>5, TokenFed, r \in Requests
    <3> QED BY <3>6, <2>2, <2>3 DEF x, y
  <2>4. CASE ~Feeds(r)
    <3>1. req'[r] = req[r]
      BY <1>1, <2>4
    <3> QED BY <3>1, <2>1, <2>2, <2>4
  <2> QED BY <2>3, <2>4
<1> QED BY <1>3 DEF Silent

\* Whoever it feeds is owed the next token.
LEMMA LaunchReports ==
  ASSUME ReportInv, EngineInv, PinnedInv, Launch
  PROVE  ReportInv'
<1> DEFINE sampled == [i \in DOMAIN batch.reqs |-> Sample(i)]
<1>1. /\ pc = "launch" /\ batch.mode # "none"
      /\ batch' = [batch EXCEPT !.sampled = sampled]
      /\ pc' = AfterLaunch
      /\ UNCHANGED <<running, seq_lens, result_queue, pinned>>
  BY DEF Launch, exec
<1>2. pc' \in Launched /\ pc' \notin Scheduled /\ pc' \notin Raised /\ pc \in Scheduled
      /\ pc \notin Launched /\ pc \notin Raised
  BY <1>1 DEF AfterLaunch, Launched, Scheduled, Raised
<1>3. batch'.mode = batch.mode /\ batch'.reqs = batch.reqs /\ batch'.sampled = sampled
  BY <1>1 DEF PinnedInv, IsBatch
<1>4. /\ batch.mode \in {"extend", "decode"}
      /\ batch.reqs \in Seq(Requests) /\ running \in Seq(Requests)
      /\ \A r \in Requests : req[r] \in ReqTypes(r)
      /\ batch.mode = "decode" => batch.reqs = running
  BY <1>1, <1>2 DEF EngineInv, Types, Batches
<1>5. /\ \A i \in DOMAIN running : running[i] \in Requests
      /\ \A i \in DOMAIN batch.reqs : batch.reqs[i] \in Requests
  BY <1>4, Elements
<1>6. \A r \in Requests :
        /\ req'[r].output_ids = req[r].output_ids /\ req'[r].finished = req[r].finished
        /\ InOrder(req'[r].kv, r) /\ Len(req[r].kv) \in Nat
        /\ Len(req'[r].kv) = IF Feeds(r) THEN Len(req[r].kv) + 1 ELSE Len(req[r].kv)
        /\ ~Feeds(r) => req'[r] = req[r]
  BY LaunchIs DEF Silent
<1>7. \A i \in DOMAIN batch.reqs : sampled[i] = <<batch.reqs[i], Len(req'[batch.reqs[i]].kv) + 1>>
  <2> SUFFICES ASSUME NEW i \in DOMAIN batch.reqs
               PROVE  sampled[i] = <<batch.reqs[i], Len(req'[batch.reqs[i]].kv) + 1>>
    OBVIOUS
  <2> DEFINE r == batch.reqs[i]
             k == Len(req[r].kv)
  <2>1. r \in Requests /\ sampled[i] = <<r, k + (IF batch.mode = "decode" THEN 2 ELSE 1)>>
    BY <1>5 DEF Sample
  <2>2. Feeds(r) <=> batch.mode = "decode"
    BY DEF Range, Feeds
  <2> HIDE DEF sampled, r
  <2>3. k \in Nat /\ Len(req'[r].kv) = IF batch.mode = "decode" THEN k + 1 ELSE k
    BY <2>1, <2>2, <1>6
  <2> HIDE DEF k
  <2>4. Len(req'[r].kv) + 1 = k + (IF batch.mode = "decode" THEN 2 ELSE 1)
    BY <2>3
  <2> QED BY <2>1, <2>4 DEF r
<1> HIDE DEF sampled
<1>8. Live' = Live /\ Live \subseteq Requests /\ Live \subseteq Range(running)
  <2>1. \A r \in Range(running) : r \in Requests
    BY <1>5 DEF Range
  <2>2. Live' = {r \in Range(running) : ~req'[r].finished}
    BY <1>1 DEF Live
  <2> QED BY <2>1, <2>2, <1>6 DEF Live
<1>9. Ahead' = 0 /\ Ahead = IF batch.mode = "decode" THEN 1 ELSE 0
  BY <1>2 DEF Ahead
<1>10. Ordered'
  BY <1>6 DEF ReportInv, Ordered
<1>11. Unstarted'
  <2> SUFFICES ASSUME NEW r \in Requests, ~req'[r].finished, r \notin Live'
               PROVE  req'[r].output_ids = << >> /\ req'[r].kv = << >>
    BY DEF Unstarted
  <2>1. ~req[r].finished /\ r \notin Live
    BY <1>6, <1>8
  <2>2. ~Feeds(r)
    BY <2>1, <1>4 DEF Live, Feeds
  <2> QED BY <2>1, <2>2, <1>2, <1>6 DEF ReportInv, Unstarted
<1>12. Reported'
  <2> SUFFICES ASSUME NEW r \in Live' PROVE Len(req'[r].output_ids) + Owed(r)' = Len(req'[r].kv) + 1
    BY DEF Reported
  <2> DEFINE a == IF InRecord(r) THEN 1 ELSE 0
             n == Len(req[r].output_ids)
             k == Len(req[r].kv)
  <2>1. r \in Live /\ r \in Requests /\ r \in Range(running)
    BY <1>8
  <2>2. n + Owed(r) = k + 1 /\ n \in Nat /\ k \in Nat
    <3>1. n + Owed(r) = k + 1
      BY <2>1, <1>2 DEF ReportInv, Reported
    <3>2. req[r] \in ReqTypes(r)
      BY <2>1, <1>4
    <3>3. n \in Nat /\ k \in Nat
      BY <3>2, LenProperties DEF ReqTypes
    <3> QED BY <3>1, <3>3
  <2>3. InRecord(r)' = InRecord(r)
    BY <1>1 DEF InRecord
  <2>4. InBatch(r)' <=> r \in Range(batch.reqs)
    BY <1>1, <1>2, <1>3 DEF InBatch
  <2>5. InBatch(r) <=> r \in Range(batch.reqs) /\ batch.mode = "extend"
    BY <1>1, <1>2 DEF InBatch
  <2>6. CASE batch.mode = "decode"
    <3>1. r \in Range(batch.reqs) /\ Feeds(r)
      BY <2>1, <2>6, <1>4 DEF Feeds
    <3>2. Owed(r) = a /\ Owed(r)' = a + 1 /\ a \in Nat
      BY <3>1, <2>3, <2>4, <2>5, <2>6 DEF Owed
    <3>3. Len(req'[r].kv) = k + 1 /\ Len(req'[r].output_ids) = n
      BY <3>1, <2>1, <1>6
    <3> HIDE DEF a, n, k
    <3> QED BY <3>2, <3>3, <2>2
  <2>7. CASE batch.mode = "extend"
    <3>2. Owed(r)' = Owed(r) /\ ~Feeds(r)
      BY <2>3, <2>4, <2>5, <2>7 DEF Owed, Feeds
    <3>3. req'[r] = req[r]
      BY <3>2, <2>1, <1>6
    <3> QED BY <3>2, <3>3, <2>2
  <2> QED BY <2>6, <2>7, <1>4
<1>13. OnTheWay'
  <2>1. pc' \in Launched =>
          \A i \in DOMAIN batch'.reqs : batch'.sampled[i] = <<batch'.reqs[i], Len(req'[batch'.reqs[i]].kv) + 1>>
    BY <1>3, <1>7
  <2>2. ASSUME result_queue # << >>, NEW i \in DOMAIN result_queue[1].reqs
        PROVE  LET r == result_queue[1].reqs[i]
               IN ~req'[r].finished => pinned[i] = <<r, Len(req'[r].output_ids) + 1>>
    <3>1. result_queue[1].reqs \in Seq(Requests)
      BY <2>2, <1>2 DEF EngineInv, Records
    <3>2. result_queue[1].reqs[i] \in Requests
      BY <3>1, <2>2, Elements
    <3>3. LET r == result_queue[1].reqs[i]
          IN ~req[r].finished => pinned[i] = <<r, Len(req[r].output_ids) + 1>>
      BY <2>2, <1>2 DEF ReportInv, OnTheWay
    <3> QED BY <3>2, <3>3, <1>6
  <2> QED BY <2>1, <2>2, <1>1, <1>2 DEF OnTheWay, Unfed
<1>14. Lengths'
  <2> SUFFICES ASSUME NEW i \in DOMAIN running
               PROVE  seq_lens[i] = PromptLen[running[i]] + Len(req'[running[i]].kv) + 0
    BY <1>1, <1>9 DEF Lengths
  <2> DEFINE r == running[i]
             k == Len(req[r].kv)
  <2>1. r \in Requests /\ seq_lens[i] = PromptLen[r] + k + Ahead
    BY <1>5, <1>2 DEF ReportInv, Lengths
  <2>2. PromptLen[r] \in Nat
    BY <2>1, EngineAssumption DEF EngineAssumption
  <2>3. Feeds(r) <=> batch.mode = "decode"
    BY <1>4 DEF Range, Feeds
  <2> HIDE DEF r
  <2>4. k \in Nat /\ Len(req'[r].kv) = IF batch.mode = "decode" THEN k + 1 ELSE k
    BY <2>1, <2>3, <1>6
  <2> HIDE DEF k
  <2>5. seq_lens[i] = PromptLen[r] + Len(req'[r].kv) + 0
    BY <2>1, <2>2, <2>4, <1>9
  <2> QED BY <2>5 DEF r
<1> QED BY <1>10, <1>11, <1>12, <1>13, <1>14 DEF ReportInv

\* Phase 4.5: what the batch owes is owed by its record.
LEMMA LaunchSampleReports ==
  ASSUME ReportInv, EngineInv, PinnedInv, LaunchSample
  PROVE  ReportInv'
<1> DEFINE rec == [reqs |-> batch.reqs, stale |-> {}]
<1>1. /\ pc = "sample" /\ pc' = "drain" /\ pinned' = batch.sampled
      /\ result_queue' = Append(result_queue, rec)
      /\ UNCHANGED <<running, seq_lens, batch, req>>
  BY DEF LaunchSample, sched
<1> HIDE DEF rec
<1>2. batch.mode # "none" /\ batch.reqs \in Seq(Requests) /\ Range(batch.reqs) \subseteq Range(running)
  BY <1>1 DEF EngineInv, Batches, Launched
<1>3. result_queue = << >> /\ result_queue' # << >> /\ result_queue'[1].reqs = batch.reqs
  <2>1. result_queue = << >>
    BY <1>1 DEF PinnedInv
  <2>2. Append(<< >>, rec) = <<rec>>
    OBVIOUS
  <2>3. result_queue' = <<rec>>
    BY <2>1, <2>2, <1>1
  <2>4. result_queue'[1] = rec /\ result_queue' # << >>
    BY <2>3
  <2> QED BY <2>1, <2>4 DEF rec
<1>4. pc \in Launched /\ pc \notin Scheduled /\ pc \notin Raised
      /\ pc' \notin Scheduled \cup Launched \cup Raised
  BY <1>1 DEF Scheduled, Launched, Raised
<1>5. Live' = Live /\ Ahead' = Ahead
  BY <1>1, <1>4 DEF Live, Ahead
<1>6. \A r : Owed(r)' = Owed(r)
  <2>1. \A r : ~InRecord(r) /\ (InRecord(r)' <=> r \in Range(batch.reqs))
    BY <1>3 DEF InRecord
  <2>2. \A r : ~InBatch(r)' /\ (InBatch(r) <=> r \in Range(batch.reqs))
    BY <1>2, <1>4 DEF InBatch
  <2> QED BY <2>1, <2>2 DEF Owed
<1>7. Ordered' /\ Unstarted' /\ Reported' /\ Lengths'
  <2>1. Ordered' /\ Unstarted'
    BY <1>1, <1>4, <1>5 DEF ReportInv, Ordered, Unstarted
  <2>2. Reported'
    BY <1>1, <1>4, <1>5, <1>6 DEF ReportInv, Reported
  <2>3. Lengths'
    BY <1>1, <1>4, <1>5 DEF ReportInv, Lengths
  <2> QED BY <2>1, <2>2, <2>3
<1>8. OnTheWay'
  <2>1. ASSUME NEW i \in DOMAIN batch.reqs, ~req[batch.reqs[i]].finished
        PROVE  pinned'[i] = <<batch.reqs[i], Len(req[batch.reqs[i]].output_ids) + 1>>
    <3> DEFINE r == batch.reqs[i]
    <3>1. r \in Live /\ r \in Range(batch.reqs) /\ r \in Requests
      BY <2>1, <1>2, Elements DEF Live, Range
    <3>2. pinned'[i] = <<r, Len(req[r].kv) + 1>>
      BY <1>1, <1>4 DEF ReportInv, OnTheWay, Unfed
    <3> HIDE DEF r
    <3>3. Owed(r) = 1
      BY <3>1, <1>2, <1>3, <1>4 DEF Owed, InRecord, InBatch
    <3>4. Len(req[r].output_ids) + 1 = Len(req[r].kv) + 1
      BY <3>1, <3>3, <1>4 DEF ReportInv, Reported
    <3> QED BY <3>2, <3>4 DEF r
  <2> QED BY <2>1, <1>1, <1>3, <1>4 DEF OnTheWay
<1> QED BY <1>7, <1>8 DEF ReportInv

\* Phase 3 when nothing waits or runs.
LEMMA NoneReports ==
  ASSUME ReportInv, EngineInv, NEW ratio \in Ratios, ScheduleNone(ratio)
  PROVE  ReportInv'
<1>1. /\ pc = "schedule" /\ Filtered.reqs = << >>
      /\ running' = << >> /\ batch' = NoBatch /\ pc' = AfterSchedule("none")
      /\ UNCHANGED <<req, result_queue, pinned>>
  BY DEF ScheduleNone, exec
<1>2. pc \notin Raised /\ pc' \notin Launched
  BY <1>1 DEF AfterSchedule, Raised, Launched
<1>3. Live = {} /\ Live' = {}
  <2>1. IsRunning(Filtered, Live)
    BY <1>1, ScheduleFacts
  <2> QED BY <2>1, <1>1 DEF IsRunning, Range, Live
<1>4. batch'.mode # "decode"
  BY <1>1 DEF NoBatch
<1>5. Ordered' /\ Unstarted'
  BY <1>1, <1>2, <1>3 DEF ReportInv, Ordered, Unstarted
<1>6. Reported'
  BY <1>3 DEF Reported
<1>7. Lengths'
  BY <1>1 DEF Lengths
<1>8. OnTheWay'
  BY <1>1, <1>2, <1>4 DEF ReportInv, OnTheWay
<1> QED BY <1>5, <1>6, <1>7, <1>8 DEF ReportInv

\* The lengths of the batch that _filter_batch leaves.
LEMMA FilteredLengths ==
  ASSUME ReportInv, EngineInv, pc = "schedule", NEW f, f = Filtered
  PROVE  \A i \in DOMAIN f.reqs :
           f.seq_lens[i] = PromptLen[f.reqs[i]] + Len(req[f.reqs[i]].kv)
<1> DEFINE n == Len(running)
           ones == [i \in 1..n |-> i]
           X == {i \in DOMAIN running : ~req[running[i]].finished}
           k == Kept
           m == Len(k)
<1>1. /\ n \in Nat /\ DOMAIN running = 1..n /\ \A i \in 1..n : running[i] \in Requests
  BY Elements DEF EngineInv, Types
<1>2. ones \in Seq(1..n)
  BY <1>1
<1>3. k = Among(ones, X)
  BY DEF Kept
<1> HIDE DEF ones, X, k, n
<1>4. k \in Seq(1..n)
  BY <1>2, <1>3, AmongIs
<1>5. m \in Nat /\ DOMAIN k = 1..m /\ \A j \in 1..m : k[j] \in 1..n
  BY <1>4, Elements
<1> HIDE DEF m
<1>6. f.reqs = [j \in 1..m |-> running[k[j]]] /\ f.seq_lens = [j \in 1..m |-> seq_lens[k[j]]]
  BY DEF Filtered, AtKept, m, k
<1>7. \A i \in 1..n : seq_lens[i] = PromptLen[running[i]] + Len(req[running[i]].kv)
  <2>1. \A i \in 1..n : seq_lens[i] = PromptLen[running[i]] + Len(req[running[i]].kv) + 0
    BY <1>1 DEF ReportInv, Lengths, Raised, Ahead, Scheduled
  <2>2. \A r \in Requests : PromptLen[r] \in Nat /\ Len(req[r].kv) \in Nat
    <3>1. \A r \in Requests : req[r] \in ReqTypes(r)
      BY DEF EngineInv, Types
    <3> QED BY <3>1, LenProperties, EngineAssumption DEF ReqTypes, EngineAssumption
  <2> SUFFICES ASSUME NEW i \in 1..n
               PROVE  seq_lens[i] = PromptLen[running[i]] + Len(req[running[i]].kv)
    OBVIOUS
  <2> DEFINE a == PromptLen[running[i]]
             b == Len(req[running[i]].kv)
  <2>3. seq_lens[i] = a + b + 0 /\ a \in Nat /\ b \in Nat
    BY <2>1, <2>2, <1>1
  <2> HIDE DEF a, b
  <2>4. seq_lens[i] = a + b
    BY <2>3
  <2> QED BY <2>4 DEF a, b
<1> QED BY <1>5, <1>6, <1>7

\* A request that gets its row and its pages.
Admits(x, n) == [x EXCEPT !.has_row = TRUE, !.pages = n]

\* Phase 3 with a prefill batch.
LEMMA PrefillIs ==
  ASSUME EngineInv, NEW ratio \in Ratios, SchedulePrefill(ratio)
  PROVE  /\ Silent
         /\ \A r \in Requests :
              req'[r].kv = req[r].kv /\ req'[r].pages \in {req[r].pages, PromptPages(r)}
<1> DEFINE B == Range(Admitted(ratio).taken)
<1>1. \/ req' = req
      \/ req' = [r \in Requests |-> IF r \in B THEN Admits(req[r], PromptPages(r)) ELSE req[r]]
  BY DEF SchedulePrefill, Admits
<1> HIDE DEF B
<1>2. ASSUME NEW r \in Requests
      PROVE  /\ req'[r].kv = req[r].kv /\ req'[r].finished = req[r].finished
             /\ req'[r].output_ids = req[r].output_ids
             /\ req'[r].is_retracted = req[r].is_retracted
             /\ req'[r].pages \in {req[r].pages, PromptPages(r)}
  <2> DEFINE x == req[r]
             n == PromptPages(r)
             y == Admits(x, n)
  <2>1. x \in ReqTypes(r) /\ (req'[r] = x \/ req'[r] = y)
    BY <1>1 DEF EngineInv, Types
  <2> HIDE DEF x, n
  <2>2. /\ y.kv = x.kv /\ y.finished = x.finished /\ y.output_ids = x.output_ids
        /\ y.is_retracted = x.is_retracted /\ y.pages = n
    BY <2>1 DEF ReqTypes, Admits
  <2> HIDE DEF y
  <2> QED BY <2>1, <2>2 DEF x, n
<1> QED BY <1>2 DEF Silent

\* It owes each of its requests the first token.
LEMMA PrefillReports ==
  ASSUME ReportInv, EngineInv, NoneRetracted, NEW ratio \in Ratios, SchedulePrefill(ratio)
  PROVE  ReportInv'
<1> DEFINE a == Admitted(ratio)
           b == a.taken
           f == Filtered
           B == Range(b)
<1>1. pc = "schedule" /\ UNCHANGED <<result_queue, pinned>>
  BY DEF SchedulePrefill, exec
<1>2. /\ Len(b) > FreeRows \/ BatchPages(b) > free_pages =>
           pc' \in {"no rows", "no pages for extend"} /\ req' = req
      /\ ~(Len(b) > FreeRows \/ BatchPages(b) > free_pages) =>
           /\ running' = f.reqs \o b
           /\ seq_lens' = f.seq_lens \o [i \in DOMAIN b |-> PromptLen[b[i]]]
           /\ batch' = [NoBatch EXCEPT !.mode = "extend", !.reqs = b]
           /\ pc' = AfterSchedule("extend")
  BY DEF SchedulePrefill
<1>3. /\ IsRunning(f, Live) /\ Live \subseteq Requests
      /\ \A r \in Requests : req[r] \in ReqTypes(r)
      /\ IsInjective(waiting) /\ waiting \in Seq(Requests) /\ Range(waiting) \subseteq Requests
      /\ free_pages \in Nat
  BY <1>1, ScheduleFacts
<1>4. a.taken \in Seq(Requests) /\ Range(a.taken) \cup Range(a.rest) = Range(waiting)
  BY <1>3, AdmittedIs
<1>5. \A i \in DOMAIN f.reqs : f.seq_lens[i] = PromptLen[f.reqs[i]] + Len(req[f.reqs[i]].kv)
  BY <1>1, FilteredLengths
<1> HIDE DEF a, f
<1>6. b \in Seq(Requests) /\ B \subseteq Range(waiting) /\ B \subseteq Requests
  BY <1>3, <1>4
<1>7. CASE Len(b) > FreeRows \/ BatchPages(b) > free_pages
  <2>1. pc' \in Raised /\ req' = req
    BY <1>2, <1>7 DEF Raised
  <2> QED BY <2>1 DEF ReportInv, Ordered
<1>8. CASE ~(Len(b) > FreeRows \/ BatchPages(b) > free_pages)
  <2>1. /\ running' = f.reqs \o b
        /\ seq_lens' = f.seq_lens \o [i \in DOMAIN b |-> PromptLen[b[i]]]
        /\ batch' = [NoBatch EXCEPT !.mode = "extend", !.reqs = b]
        /\ pc' = AfterSchedule("extend")
    BY <1>2, <1>8
  <2>2. pc' \in Scheduled /\ pc' \notin Raised \cup Launched /\ pc \notin Raised \cup Scheduled \cup Launched
    BY <1>1, <2>1 DEF AfterSchedule, Scheduled, Launched, Raised
  <2>3. batch'.mode = "extend" /\ batch'.reqs = b
    BY <2>1 DEF NoBatch
  <2>4. \A r \in Requests : /\ req'[r].kv = req[r].kv /\ req'[r].finished = req[r].finished
                            /\ req'[r].output_ids = req[r].output_ids
    BY PrefillIs DEF Silent
  <2>5. ASSUME NEW r \in B
        PROVE  r \in Requests /\ ~req[r].finished /\ r \notin Live /\ ~InRecord(r)
    <3>1. r \in Requests /\ r \in Range(waiting)
      BY <1>6
    <3>2. Range(waiting) \cap Live = {} /\ (req[r].finished => r \notin Range(waiting))
      BY <3>1, <2>2 DEF EngineInv, Places
    <3>3. ~req[r].finished /\ r \notin Live /\ ~req[r].is_retracted
      BY <3>1, <3>2 DEF NoneRetracted
    <3>4. r \notin Range(running)
      BY <3>3 DEF Live
    <3>5. ~InRecord(r)
      BY <3>3, <3>4, <2>2 DEF EngineInv, Records, InRecord
    <3> QED BY <3>1, <3>3, <3>5
  <2>6. f.reqs \in Seq(Requests) /\ Range(f.reqs) = Live /\ f.seq_lens \in Seq(Nat)
        /\ Len(f.seq_lens) = Len(f.reqs)
    BY <1>3 DEF IsRunning
  <2>7. Range(running') = Live \cup B
    BY <2>1, <2>6, <1>6, RangeConcat
  <2>8. Live' = Live \cup B
    <3>1. Live' = {r \in Range(running') : ~req'[r].finished}
      BY DEF Live
    <3>2. \A r \in Live \cup B : ~req'[r].finished
      BY <2>4, <2>5, <1>3 DEF Live
    <3> QED BY <2>7, <3>1, <3>2
  <2>9. Ordered'
    BY <2>4 DEF ReportInv, Ordered
  <2>10. Unstarted'
    BY <2>2, <2>4, <2>8 DEF ReportInv, Unstarted
  <2>11. Reported'
    <3> SUFFICES ASSUME NEW r \in Live' PROVE Len(req'[r].output_ids) + Owed(r)' = Len(req'[r].kv) + 1
      BY DEF Reported
    <3>1. r \in Requests
      BY <2>8, <1>3, <1>6
    <3>2. req'[r].kv = req[r].kv /\ req'[r].output_ids = req[r].output_ids
      BY <3>1, <2>4
    <3>3. InRecord(r)' = InRecord(r)
      BY <1>1 DEF InRecord
    <3>4. InBatch(r)' <=> r \in B
      BY <2>2, <2>3 DEF InBatch
    <3>5. ~InBatch(r)
      BY <2>2 DEF InBatch
    <3>6. CASE r \in B
      <4>1. req[r].output_ids = << >> /\ req[r].kv = << >>
        BY <3>1, <3>6, <2>2, <2>5 DEF ReportInv, Unstarted
      <4>2. Owed(r)' = 1
        BY <3>3, <3>4, <3>6, <2>5 DEF Owed
      <4>3. Len(<< >>) = 0
        OBVIOUS
      <4> QED BY <4>1, <4>2, <4>3, <3>2
    <3>7. CASE r \notin B
      <4>1. r \in Live
        BY <3>7, <2>8
      <4>2. Owed(r)' = Owed(r)
        BY <3>3, <3>4, <3>5, <3>7 DEF Owed
      <4> QED BY <4>1, <4>2, <3>2, <2>2 DEF ReportInv, Reported
    <3> QED BY <3>6, <3>7
  <2>12. OnTheWay'
    <3>1. ASSUME result_queue # << >>, NEW i \in DOMAIN result_queue[1].reqs
          PROVE  LET r == result_queue[1].reqs[i]
                 IN ~req'[r].finished => pinned[i] = <<r, Len(req'[r].output_ids) + 1>>
      <4>1. result_queue[1].reqs \in Seq(Requests)
        BY <3>1, <2>2 DEF EngineInv, Records
      <4>2. result_queue[1].reqs[i] \in Requests
        BY <4>1, <3>1, Elements
      <4>3. LET r == result_queue[1].reqs[i]
            IN ~req[r].finished => pinned[i] = <<r, Len(req[r].output_ids) + 1>>
        BY <3>1, <2>2 DEF ReportInv, OnTheWay
      <4> QED BY <4>2, <4>3, <2>4
    <3> QED BY <3>1, <1>1, <2>2, <2>3 DEF OnTheWay
  <2>13. Lengths'
    <3> DEFINE p == [i \in DOMAIN b |-> PromptLen[b[i]]]
               n == Len(f.reqs)
               m == Len(b)
    <3>1. /\ n \in Nat /\ m \in Nat /\ DOMAIN b = 1..m /\ DOMAIN f.reqs = 1..n
          /\ \A i \in 1..m : b[i] \in Requests
          /\ \A i \in 1..n : f.reqs[i] \in Requests
      BY <1>6, <2>6, Elements
    <3>2. \A r \in Requests : PromptLen[r] \in Nat
      BY EngineAssumption DEF EngineAssumption
    <3>3. p \in Seq(Nat) /\ Len(p) = m /\ \A i \in 1..m : p[i] = PromptLen[b[i]]
      BY <3>1, <3>2
    <3> HIDE DEF p
    <3>4. /\ Len(running') = n + m /\ DOMAIN running' = 1..(n + m)
          /\ \A i \in 1..(n + m) : running'[i] = IF i <= n THEN f.reqs[i] ELSE b[i - n]
      <4>1. running' = f.reqs \o b
        BY <2>1
      <4> HIDE DEF n, m, B
      <4>2. /\ running' \in Seq(Requests) /\ Len(running') = Len(f.reqs) + Len(b)
            /\ \A i \in 1..(Len(f.reqs) + Len(b)) :
                  running'[i] = IF i <= Len(f.reqs) THEN f.reqs[i] ELSE b[i - Len(f.reqs)]
        BY <4>1, <2>6, <1>6, ConcatProperties
      <4> QED BY <4>2, Elements DEF n, m
    <3>5. \A i \in 1..(n + m) : seq_lens'[i] = IF i <= n THEN f.seq_lens[i] ELSE p[i - n]
      <4>1. seq_lens' = f.seq_lens \o p
        BY <2>1 DEF p
      <4> HIDE DEF n, m
      <4>2. \A i \in 1..(Len(f.seq_lens) + Len(p)) :
              seq_lens'[i] = IF i <= Len(f.seq_lens) THEN f.seq_lens[i] ELSE p[i - Len(f.seq_lens)]
        <5> DEFINE q == f.seq_lens
        <5>1. q \in Seq(Nat) /\ p \in Seq(Nat) /\ seq_lens' = q \o p
          BY <4>1, <2>6, <3>3
        <5> HIDE DEF q
        <5>2. \A i \in 1..(Len(q) + Len(p)) :
                (q \o p)[i] = IF i <= Len(q) THEN q[i] ELSE p[i - Len(q)]
          BY ONLY <5>1, ConcatProperties
        <5> QED BY <5>1, <5>2 DEF q
      <4>3. Len(f.seq_lens) = n /\ Len(p) = m
        BY <2>6, <3>3 DEF n
      <4> QED BY <4>2, <4>3
    <3>6. Ahead' = 0
      BY <2>3 DEF Ahead
    <3> SUFFICES ASSUME NEW i \in 1..(n + m)
                 PROVE  seq_lens'[i] = PromptLen[running'[i]] + Len(req'[running'[i]].kv) + 0
      BY <3>4, <3>6 DEF Lengths
    <3> DEFINE r == running'[i]
               c == PromptLen[r]
               d == Len(req[r].kv)
    <3>7. r \in Requests /\ seq_lens'[i] = c + d
      <4>1. CASE i <= n
        <5>0. i \in 1..n
          BY <4>1, <3>1
        <5>1. i \in 1..n /\ r = f.reqs[i] /\ seq_lens'[i] = f.seq_lens[i]
          BY <4>1, <5>0, <3>4, <3>5
        <5> QED BY <5>1, <3>1, <1>5
      <4>2. CASE ~(i <= n)
        <5> DEFINE j == i - n
        <5>0. j \in 1..m
          <6> HIDE DEF n, m
          <6> QED BY <4>2, <3>1
        <5>1. j \in 1..m /\ r = b[j] /\ seq_lens'[i] = p[j]
          BY <4>2, <5>0, <3>4, <3>5
        <5> HIDE DEF j, r
        <5>2. r \in B /\ r \in Requests /\ seq_lens'[i] = c
          BY <5>1, <3>1, <3>3 DEF Range
        <5>3. req[r].kv = << >>
          BY <5>2, <2>2, <2>5 DEF ReportInv, Unstarted
        <5>4. d = 0 /\ c \in Nat
          BY <5>2, <5>3, <3>2
        <5> HIDE DEF c, d
        <5>5. seq_lens'[i] = c + d
          BY <5>2, <5>4
        <5> QED BY <5>2, <5>5 DEF c, d
      <4> QED BY <4>1, <4>2
    <3>8. c \in Nat /\ d \in Nat /\ req'[r].kv = req[r].kv
      <4>1. req[r] \in ReqTypes(r)
        BY <3>7, <1>3
      <4> QED BY <4>1, <3>2, <3>7, <2>4, LenProperties DEF ReqTypes
    <3> HIDE DEF c, d
    <3>9. seq_lens'[i] = c + d + 0
      BY <3>7, <3>8
    <3> QED BY <3>8, <3>9 DEF c, d
  <2> QED BY <2>9, <2>10, <2>11, <2>12, <2>13 DEF ReportInv
<1> QED BY <1>7, <1>8

\* Who keeps the first k of different elements and leaves none behind, keeps all.
LEMMA AllKept ==
  ASSUME NEW s \in Seq(Requests), IsInjective(s), NEW k \in 0..Len(s),
         Range(SubSeq(s, k + 1, Len(s))) = {}
  PROVE  k = Len(s)
<1> DEFINE a == SubSeq(s, 1, k)
<1>1. /\ a \in Seq(Requests) /\ Len(a) = k /\ (\A i \in 1..k : a[i] = s[i])
      /\ Range(a) = Range(s)
  <2>1. Range(a) \cup Range(SubSeq(s, k + 1, Len(s))) = Range(s)
    BY PartIs
  <2>2. /\ a \in Seq(Requests) /\ Len(a) = k /\ (\A i \in 1..k : a[i] = s[i])
    BY PartIs
  <2> QED BY <2>1, <2>2
<1> HIDE DEF a
<1> DEFINE n == Len(s)
<1>2. n \in Nat /\ DOMAIN s = 1..n /\ DOMAIN a = 1..k /\ k \in Nat /\ k <= n
  BY <1>1, Elements
<1>3. /\ \A i \in 1..k : a[i] = s[i]
      /\ \A i, j \in DOMAIN s : s[i] = s[j] => i = j
      /\ Range(a) = Range(s)
  BY <1>1 DEF IsInjective
<1> SUFFICES k = n
  OBVIOUS
<1> HIDE DEF n
<1> SUFFICES ASSUME k # n PROVE FALSE
  OBVIOUS
<1>4. k # n
  OBVIOUS
<1>5. k + 1 \in 1..n
  BY ONLY <1>2, <1>4
<1>6. PICK i \in 1..k : a[i] = s[k + 1]
  BY ONLY <1>2, <1>3, <1>5 DEF Range
<1>7. i \in Nat /\ i <= k /\ i >= 1
  BY ONLY <1>2, <1>6
<1>8. i \in 1..n /\ i # k + 1
  BY ONLY <1>2, <1>7
<1>9. s[i] = s[k + 1]
  BY ONLY <1>3, <1>6
<1> QED BY ONLY <1>2, <1>3, <1>5, <1>8, <1>9

\* The last token reported is the next to be fed when none is owed.
LEMMA LastIsUnfed ==
  ASSUME NEW r \in Requests, NEW x \in ReqTypes(r), InOrder(x.output_ids, r),
         Len(x.output_ids) = Len(x.kv) + 1
  PROVE  Last(x.output_ids) = <<r, Len(x.kv) + 1>>
<1> DEFINE s == x.output_ids
<1>1. s \in Seq(Token(r)) /\ Len(x.kv) \in Nat /\ InOrder(s, r) /\ Len(s) = Len(x.kv) + 1
  BY LenProperties DEF ReqTypes
<1> HIDE DEF s
<1>2. Len(s) \in DOMAIN s
  BY <1>1
<1>3. s[Len(s)] = <<r, Len(s)>>
  BY <1>1, <1>2 DEF InOrder
<1> QED BY <1>1, <1>3 DEF Last, s

\* A request that opens a page.
Opens(x) == [x EXCEPT !.pages = @ + 1]

\* Phase 3 with a decode batch of all of f.
Decodes(f) ==
  /\ running' = f.reqs /\ pc' = AfterSchedule("decode")
  /\ seq_lens' = [i \in 1..Len(f.reqs) |-> f.seq_lens[i] + 1]
  /\ batch'.mode = "decode" /\ batch'.reqs = f.reqs
  /\ can_use_placeholder => batch'.input = f.output_ids
  /\ ~can_use_placeholder =>
       \A i \in 1..Len(f.reqs) : batch'.input[i] = Last(req[f.reqs[i]].output_ids)
  /\ \A r \in Requests : req'[r].pages = req[r].pages \/ (r \in Live /\ req'[r].pages = req[r].pages + 1)

\* schedule() with a decode batch of all of f, or the exception it raises.
LEMMA DecodeIs ==
  ASSUME EngineInv, PinnedInv, pc = "schedule", NEW f, f = Filtered, f.reqs # << >>,
         NEW k, k = Len(f.reqs), Decode(f, k)
  PROVE  /\ Silent /\ \A r \in Requests : req'[r].kv = req[r].kv
         /\ pinned' = pinned
         /\ result_queue' = << >> <=> result_queue = << >>
         /\ result_queue # << >> => result_queue'[1].reqs = result_queue[1].reqs
         /\ Decodes(f) \/ (pc' \in Raised /\ \A r \in Requests : req'[r] = req[r])
<1> DEFINE out    == SubSeq(f.reqs, k + 1, Len(f.reqs))
           free   == free_pages + PagesBehind(f, k)
           untold == ~can_use_placeholder /\ \E r \in Range(f.reqs) : req[r].output_ids = << >>
           short  == Cardinality(Grown(f)) > free
           input  == IF can_use_placeholder
                       THEN f.output_ids
                       ELSE [i \in 1..k |-> Last(req[f.reqs[i]].output_ids)]
           B      == Range(out)
           opens(r) == \E i \in Grown(f) : f.reqs[i] = r
<1>0. Retained(f, k) = f
  BY DEF Retained
<1>1. /\ running' = f.reqs /\ pinned' = pinned
      /\ result_queue' = Marked(result_queue, B)
  BY <1>0 DEF Decode, Marked
<1>2. untold \/ short =>
        /\ pc' = IF untold THEN "no last token" ELSE "no pages for decode"
        /\ req' = [r \in Requests |-> IF r \in B THEN Retracted(r) ELSE req[r]]
  BY <1>0 DEF Decode
<1>3. ~(untold \/ short) =>
        /\ pc' = AfterSchedule(IF k = 0 THEN "none" ELSE "decode")
        /\ seq_lens' = [i \in 1..k |-> f.seq_lens[i] + 1]
        /\ req' = [r \in Requests |-> IF r \in B THEN Retracted(r)
                                      ELSE IF opens(r) THEN Opens(req[r])
                                      ELSE req[r]]
        /\ batch' = IF k = 0 THEN NoBatch
                    ELSE [NoBatch EXCEPT !.mode = "decode", !.reqs = f.reqs, !.input = input]
  BY <1>0 DEF Decode, Opens
<1>4. IsRunning(f, Live) /\ \A r \in Requests : req[r] \in ReqTypes(r)
  BY ScheduleFacts
<1> HIDE DEF out, untold, short, free, opens, input
<1>5. /\ f.reqs \in Seq(Requests) /\ IsInjective(f.reqs) /\ Range(f.reqs) = Live
      /\ f.seq_lens \in Seq(Nat) /\ Len(f.seq_lens) = Len(f.reqs)
      /\ k \in Nat /\ DOMAIN f.reqs = 1..k /\ k # 0 /\ DOMAIN f.seq_lens = 1..k
  BY <1>4, Elements DEF IsRunning
<1>6. B = {}
  <2> DEFINE s == f.reqs
  <2>1. Range(SubSeq(s, 1, k)) \cap Range(SubSeq(s, k + 1, Len(s))) = {}
        /\ Range(SubSeq(s, 1, k)) \cup Range(SubSeq(s, k + 1, Len(s))) = Range(s)
        /\ SubSeq(s, 1, k) \in Seq(Requests) /\ Len(SubSeq(s, 1, k)) = k
        /\ \A i \in 1..k : SubSeq(s, 1, k)[i] = s[i]
    <3>1. s \in Seq(Requests) /\ k \in 0..Len(s) /\ IsInjective(s)
      BY <1>5
    <3> HIDE DEF s
    <3> QED BY <3>1, PartIs
  <2> DEFINE t == SubSeq(s, 1, k)
  <2>2. DOMAIN t = 1..k /\ DOMAIN s = 1..k
    BY <2>1, <1>5, Elements
  <2>3. Range(t) = Range(s)
    BY <2>1, <2>2 DEF Range
  <2> QED BY <2>1, <2>3 DEF out
<1>7. /\ result_queue' = << >> <=> result_queue = << >>
      /\ result_queue # << >> => result_queue'[1].reqs = result_queue[1].reqs
  BY <1>1, MarksOnly DEF PinnedInv
<1>8. CASE untold \/ short
  <2>1. pc' \in Raised
    BY <1>2, <1>8 DEF Raised
  <2>2. \A r \in Requests : req'[r] = req[r]
    BY <1>2, <1>6, <1>8
  <2> QED BY <2>1, <2>2, <1>1, <1>7 DEF Silent
<1>9. CASE ~(untold \/ short)
  <2>1. /\ pc' = AfterSchedule("decode")
        /\ seq_lens' = [i \in 1..k |-> f.seq_lens[i] + 1]
        /\ req' = [r \in Requests |-> IF opens(r) THEN Opens(req[r]) ELSE req[r]]
        /\ batch' = [NoBatch EXCEPT !.mode = "decode", !.reqs = f.reqs, !.input = input]
    BY <1>3, <1>5, <1>6, <1>9
  <2>2. batch'.mode = "decode" /\ batch'.reqs = f.reqs /\ batch'.input = input
    BY <2>1 DEF NoBatch
  <2>3. ASSUME NEW r \in Requests
        PROVE  /\ req'[r].kv = req[r].kv /\ req'[r].finished = req[r].finished
               /\ req'[r].output_ids = req[r].output_ids
               /\ req'[r].is_retracted = req[r].is_retracted
               /\ req'[r].pages = req[r].pages \/ (r \in Live /\ req'[r].pages = req[r].pages + 1)
    <3>1. CASE opens(r)
      <4> DEFINE x == req[r]
                 y == Opens(x)
      <4>1. req'[r] = y /\ x \in ReqTypes(r)
        BY <2>1, <3>1, <1>4
      <4> HIDE DEF x
      <4>2. /\ y.kv = x.kv /\ y.finished = x.finished /\ y.output_ids = x.output_ids
            /\ y.is_retracted = x.is_retracted /\ y.pages = x.pages + 1
        BY <4>1 DEF ReqTypes, Opens
      <4>3. r \in Live
        BY <3>1, <1>5 DEF opens, Grown, Range
      <4> HIDE DEF y
      <4> QED BY <4>1, <4>2, <4>3 DEF x
    <3>2. CASE ~opens(r)
      BY <2>1, <3>2
    <3> QED BY <3>1, <3>2
  <2>4. Decodes(f)
    BY <2>1, <2>2, <2>3, <1>1 DEF Decodes, input
  <2> QED BY <2>3, <2>4, <1>1, <1>7 DEF Silent
<1> QED BY <1>8, <1>9

\* When it retracts nobody, it decodes the whole batch.
LEMMA DecodesWhole ==
  ASSUME EngineInv, NoneRetracted', pc = "schedule", NEW f, f = Filtered,
         NEW k \in KeptByMem(f), Decode(f, k)
  PROVE  k = Len(f.reqs)
<1> DEFINE s == f.reqs
           out == SubSeq(s, k + 1, Len(s))
           B == Range(out)
<1>1. s \in Seq(Requests) /\ IsInjective(s)
  BY ScheduleFacts DEF IsRunning
<1>2. k \in 0..Len(s)
  BY <1>1 DEF KeptByMem
<1>3. \A r \in Requests : r \in B => req'[r] = Retracted(r)
  BY DEF Decode
<1>4. B = {}
  <2> SUFFICES ASSUME NEW r \in B PROVE FALSE
    OBVIOUS
  <2>1. r \in Requests
    <3> HIDE DEF s
    <3>1. out \in Seq(Requests)
      BY <1>1, <1>2, PartIs
    <3> HIDE DEF out
    <3> QED BY <3>1, Elements DEF Range
  <2>2. req'[r] = Retracted(r)
    BY <2>1, <1>3
  <2> QED BY <2>1, <2>2, RetractedIs DEF NoneRetracted
<1> HIDE DEF s
<1> QED BY <1>1, <1>2, <1>4, AllKept DEF s

\* Such a batch is to feed each request the last token sampled for it, known or a
\* placeholder.
LEMMA DecodeReports ==
  ASSUME ReportInv, EngineInv, PinnedInv, NoneRetracted', NEW ratio \in Ratios, ScheduleDecode(ratio)
  PROVE  ReportInv' /\ Silent
<1> DEFINE f == Filtered
<1>0. pc = "schedule" /\ f.reqs # << >> /\ \E k \in KeptByMem(f) : Decode(f, k)
  BY DEF ScheduleDecode
<1> PICK k \in KeptByMem(f) : Decode(f, k)
  BY <1>0
<1>4. /\ IsRunning(f, Live) /\ Live \subseteq Requests
      /\ output_ids # << >> /\ f.reqs # << >> => f.output_ids # << >>
      /\ \A r \in Requests : req[r] \in ReqTypes(r)
  BY <1>0, ScheduleFacts
<1>5. \A i \in DOMAIN f.reqs : f.seq_lens[i] = PromptLen[f.reqs[i]] + Len(req[f.reqs[i]].kv)
  BY <1>0, FilteredLengths
<1>6. k = Len(f.reqs)
  BY <1>0, DecodesWhole
<1>1. /\ Silent /\ \A r \in Requests : req'[r].kv = req[r].kv
      /\ pinned' = pinned
      /\ result_queue' = << >> <=> result_queue = << >>
      /\ result_queue # << >> => result_queue'[1].reqs = result_queue[1].reqs
      /\ Decodes(f) \/ (pc' \in Raised /\ \A r \in Requests : req'[r] = req[r])
  BY <1>0, <1>6, DecodeIs
<1> HIDE DEF f
<1>7. /\ f.reqs \in Seq(Requests) /\ IsInjective(f.reqs) /\ Range(f.reqs) = Live
      /\ f.seq_lens \in Seq(Nat) /\ Len(f.seq_lens) = Len(f.reqs)
      /\ Aligned(req, f.output_ids, f.reqs, Len(f.reqs))
      /\ Len(f.reqs) \in Nat /\ DOMAIN f.reqs = 1..Len(f.reqs)
      /\ \A i \in DOMAIN f.reqs : f.reqs[i] \in Requests
  BY <1>4, Elements DEF IsRunning
<1>10. pc \notin Raised \cup Scheduled \cup Launched
  BY <1>0 DEF Raised, Scheduled, Launched
<1>11. CASE pc' \in Raised /\ \A r \in Requests : req'[r] = req[r]
  BY <1>1, <1>11 DEF ReportInv, Ordered
<1>12. CASE Decodes(f)
  <2>1. /\ pc' = AfterSchedule("decode") /\ running' = f.reqs
        /\ seq_lens' = [i \in 1..k |-> f.seq_lens[i] + 1]
        /\ can_use_placeholder => batch'.input = f.output_ids
        /\ ~can_use_placeholder => \A i \in 1..k : batch'.input[i] = Last(req[f.reqs[i]].output_ids)
    BY <1>6, <1>12 DEF Decodes
  <2>2. pc' \in Scheduled /\ pc' \notin Raised \cup Launched
    BY <2>1 DEF AfterSchedule, Scheduled, Launched, Raised
  <2>3. batch'.mode = "decode" /\ batch'.reqs = f.reqs
    BY <1>12 DEF Decodes
  <2>4. \A r \in Requests : /\ req'[r].kv = req[r].kv /\ req'[r].finished = req[r].finished
                            /\ req'[r].output_ids = req[r].output_ids
    BY <1>1 DEF Silent
  <2>5. Live' = Live
    <3>1. Live' = {r \in Range(running') : ~req'[r].finished}
      BY DEF Live
    <3>2. \A r \in Live : ~req'[r].finished
      BY <2>4, <1>4 DEF Live
    <3> QED BY <2>1, <3>1, <3>2, <1>7
  <2>7. \A r : Owed(r)' = Owed(r)
    <3>1. \A r : InRecord(r)' = InRecord(r)
      BY <1>1 DEF InRecord
    <3>2. \A r : ~InBatch(r)' /\ ~InBatch(r)
      BY <2>2, <2>3, <1>10 DEF InBatch
    <3> QED BY <3>1, <3>2 DEF Owed
  <2>8. Ordered' /\ Unstarted'
    BY <2>2, <2>4, <2>5, <1>10 DEF ReportInv, Ordered, Unstarted
  <2>9. Reported'
    BY <2>4, <2>5, <2>7, <1>4, <1>10 DEF ReportInv, Reported
  <2>10. ASSUME NEW i \in DOMAIN f.reqs
         PROVE  batch'.input[i] = <<f.reqs[i], Len(req'[f.reqs[i]].kv) + 1>>
    <3> DEFINE r == f.reqs[i]
    <3>1. r \in Requests /\ r \in Live /\ i \in 1..k
      BY <1>6, <1>7 DEF Range
    <3> HIDE DEF r
    <3>2. req'[r].kv = req[r].kv /\ req[r] \in ReqTypes(r)
      BY <3>1, <2>4, <1>4
    <3>3. CASE can_use_placeholder
      <4>1. output_ids # << >>
        BY <3>3, <1>0 DEF EngineInv, Batches
      <4>2. f.output_ids # << >> /\ batch'.input = f.output_ids
        BY <4>1, <3>3, <1>0, <1>4, <2>1 DEF f
      <4>3. f.output_ids[i] = <<f.reqs[i], Len(req[f.reqs[i]].kv) + 1>>
        BY <4>2, <3>1, <1>6, <1>7 DEF Aligned
      <4> QED BY <4>2, <4>3, <3>2 DEF r
    <3>4. CASE ~can_use_placeholder
      <4>1. batch'.input[i] = Last(req[r].output_ids)
        BY <3>1, <3>4, <2>1 DEF r
      <4>2. result_queue = << >>
        BY <3>4, <1>0 DEF PinnedInv
      <4>3. Owed(r) = 0
        BY <4>2, <1>10 DEF Owed, InRecord, InBatch
      <4> DEFINE x == req[r]
      <4>4. x \in ReqTypes(r) /\ InOrder(x.output_ids, r) /\ Len(x.output_ids) = Len(x.kv) + 1
        <5>1. Len(x.output_ids) + 0 = Len(x.kv) + 1
          BY <3>1, <4>3, <1>10 DEF ReportInv, Reported
        <5>2. Len(x.output_ids) \in Nat
          BY <3>2, LenProperties DEF ReqTypes
        <5>3. InOrder(x.output_ids, r)
          BY <3>1 DEF ReportInv, Ordered
        <5> QED BY <5>1, <5>2, <5>3, <3>2
      <4> HIDE DEF x
      <4>5. Last(x.output_ids) = <<r, Len(x.kv) + 1>>
        BY ONLY <4>4, <3>1, LastIsUnfed
      <4> QED BY <4>1, <4>5, <3>2 DEF x, r
    <3> QED BY <3>3, <3>4
  <2>11. OnTheWay'
    <3>1. ASSUME result_queue # << >>, NEW i \in DOMAIN result_queue[1].reqs
          PROVE  LET r == result_queue[1].reqs[i]
                 IN ~req'[r].finished => pinned[i] = <<r, Len(req'[r].output_ids) + 1>>
      <4>1. result_queue[1].reqs \in Seq(Requests)
        BY <3>1, <1>10 DEF EngineInv, Records
      <4>2. result_queue[1].reqs[i] \in Requests
        BY <4>1, <3>1, Elements
      <4>3. LET r == result_queue[1].reqs[i]
            IN ~req[r].finished => pinned[i] = <<r, Len(req[r].output_ids) + 1>>
        BY <3>1, <1>10 DEF ReportInv, OnTheWay
      <4> QED BY <4>2, <4>3, <2>4
    <3> QED BY <3>1, <2>2, <2>3, <2>10, <1>1 DEF OnTheWay, Unfed
  <2>12. Lengths'
    <3>1. Ahead' = 1
      BY <2>2, <2>3 DEF Ahead
    <3> SUFFICES ASSUME NEW i \in DOMAIN f.reqs
                 PROVE  seq_lens'[i] = PromptLen[f.reqs[i]] + Len(req'[f.reqs[i]].kv) + 1
      BY <2>1, <3>1 DEF Lengths
    <3>2. f.reqs[i] \in Requests /\ i \in 1..k
      BY <1>6, <1>7
    <3>3. seq_lens'[i] = f.seq_lens[i] + 1
      BY <3>2, <2>1
    <3>4. f.seq_lens[i] = PromptLen[f.reqs[i]] + Len(req[f.reqs[i]].kv)
      BY <1>5
    <3> QED BY <3>2, <3>3, <3>4, <2>4
  <2> QED BY <2>8, <2>9, <2>11, <2>12, <1>1 DEF ReportInv
<1> QED BY <1>1, <1>11, <1>12

\* Every step that retracts nobody keeps the invariant.
LEMMA ReportStep ==
  ASSUME ReportInv, EngineInv, PinnedInv, NoneRetracted, NoneRetracted', [Next]_vars
  PROVE  ReportInv'
<1>1. ASSUME NEW prompts \in SetToAllKPermutations(fresh) \ {<< >>}, Generate(prompts)
      PROVE  ReportInv'
  BY <1>1, GenerateReports
<1>2. ASSUME NEW r \in Requests, Submit(r) PROVE ReportInv'
  BY <1>2, SubmitReports
<1>3. CASE RecvRequests
  BY <1>3, RecvReports
<1>4. CASE ProcessConservative
  <2>1. PICK eos \in Ending : ProcessPending(eos)
    BY <1>4 DEF ProcessConservative
  <2>2. pc = "conservative" /\ pc' = "schedule"
    BY <1>4 DEF ProcessConservative
  <2> QED BY <2>1, <2>2, ProcessReports DEF ReadsRecord
<1>5. ASSUME NEW ratio \in Ratios, SchedulePrefill(ratio) PROVE ReportInv'
  BY <1>5, PrefillReports
<1>6. ASSUME NEW ratio \in Ratios, ScheduleDecode(ratio) PROVE ReportInv'
  BY <1>6, DecodeReports
<1>7. ASSUME NEW ratio \in Ratios, ScheduleNone(ratio) PROVE ReportInv'
  BY <1>7, NoneReports
<1>8. CASE ProcessConsecutive
  <2>1. PICK eos \in Ending : ProcessPending(eos)
    BY <1>8 DEF ProcessConsecutive
  <2>2. pc = "consecutive" /\ pc' = "launch"
    BY <1>8 DEF ProcessConsecutive
  <2> QED BY <2>1, <2>2, ProcessReports DEF ReadsRecord
<1>9. CASE Launch
  BY <1>9, LaunchReports
<1>10. CASE LaunchNothing
  BY <1>10, LaunchNothingReports
<1>11. CASE ProcessOverlap
  <2>1. PICK eos \in Ending : ProcessPending(eos)
    BY <1>11 DEF ProcessOverlap
  <2>2. pc = "overlap" /\ pc' = "sample"
    BY <1>11 DEF ProcessOverlap
  <2> QED BY <2>1, <2>2, ProcessReports DEF ReadsRecord
<1>12. CASE LaunchSample
  BY <1>12, LaunchSampleReports
<1>13. CASE Drain
  BY <1>13, DrainReports
<1>14. CASE UNCHANGED vars
  BY <1>14, StutterReports
<1> QED
  BY <1>1, <1>2, <1>3, <1>4, <1>5, <1>6, <1>7, <1>8, <1>9, <1>10, <1>11, <1>12,
     <1>13, <1>14 DEF Next, EngineStep

\* The engine starts with nothing reported.
LEMMA ReportStart ==
  ASSUME Init
  PROVE  ReportInv /\ NoneRetracted
<1>1. /\ pc = "idle" /\ running = << >> /\ result_queue = << >>
      /\ req = [r \in Requests |-> NewReq]
  BY DEF Init
<1>2. /\ \A r \in Requests : req[r].output_ids = << >> /\ req[r].kv = << >> /\ ~req[r].is_retracted
      /\ \A r : InOrder(<< >>, r)
  BY <1>1 DEF NewReq, InOrder
<1>3. Live = {}
  BY <1>1 DEF Live, Range
<1> QED BY <1>1, <1>2, <1>3
        DEF ReportInv, Ordered, Unstarted, Reported, OnTheWay, Lengths, NoneRetracted, Launched,
            Scheduled

---------------------------------------------------------------------------
(* What a request holds, and that it is never retracted when memory is ample. *)

\* Tokens of r whose KV this step has counted and not yet computed.
AheadOf(r) == IF pc \in Scheduled /\ Feeds(r) THEN 1 ELSE 0

\* A request r with the fields x feeds at most its limit and holds at most one page for
\* each token fed; once it has ended, it has fed all it reports, or all but the last.
Counts(r, x, a) ==
  /\ Len(x.kv) + a <= MaxTokens[r]
  /\ x.pages <= PromptPages(r) + Len(x.kv) + a
  /\ x.finished => Len(x.output_ids) \in (Len(x.kv) + a)..(Len(x.kv) + 1)

\* It holds for every request, as long as nothing is raised.
CountInv == pc \notin Raised => \A r \in Requests : Counts(r, req[r], AheadOf(r))

\* Room for the prompt of every request and a page for each token it may feed.
Ample ==
  NumPages >= Cardinality(PagesOf(Requests, [r \in Requests |-> PromptPages(r) + MaxTokens[r]]))

---------------------------------------------------------------------------
\* The numbers Counts is about.
LEMMA CountTypes ==
  ASSUME EngineInv, NEW r \in Requests
  PROVE  /\ Len(req[r].kv) \in Nat /\ Len(req[r].output_ids) \in Nat /\ req[r].pages \in Nat
         /\ PromptPages(r) \in Nat /\ MaxTokens[r] \in Nat /\ AheadOf(r) \in {0, 1}
         /\ req[r].finished \in BOOLEAN
<1>1. req[r] \in ReqTypes(r)
  BY DEF EngineInv, Types
<1>2. req[r].kv \in Seq(Token(r)) /\ req[r].output_ids \in Seq(Token(r)) /\ req[r].pages \in Nat
      /\ req[r].finished \in BOOLEAN
  BY <1>1 DEF ReqTypes
<1> QED BY <1>2, LenProperties, PromptPagesIs, EngineAssumption DEF EngineAssumption, AheadOf

\* A request that gives its pages back, or takes those of its prompt, has as much room.
LEMMA CountsLess ==
  ASSUME NEW r \in Requests, NEW x, NEW y, NEW a \in {0, 1}, Counts(r, x, a),
         Len(x.kv) \in Nat, x.pages \in Nat, PromptPages(r) \in Nat,
         y.kv = x.kv, y.finished = x.finished, y.output_ids = x.output_ids,
         y.pages \in {0, x.pages, PromptPages(r)}
  PROVE  Counts(r, y, a)
BY DEF Counts

\* A step that neither reports nor feeds.
LEMMA CountFrame ==
  ASSUME CountInv, EngineInv, pc \notin Raised,
         \A r \in Requests : /\ req'[r].kv = req[r].kv /\ req'[r].finished = req[r].finished
                             /\ req'[r].output_ids = req[r].output_ids
                             /\ req'[r].pages \in {0, req[r].pages, PromptPages(r)}
                             /\ AheadOf(r)' = AheadOf(r)
  PROVE  CountInv'
<1> SUFFICES ASSUME NEW r \in Requests PROVE Counts(r, req'[r], AheadOf(r)')
  BY DEF CountInv
<1>1. Counts(r, req[r], AheadOf(r))
  BY DEF CountInv
<1>2. Counts(r, req'[r], AheadOf(r))
  BY <1>1, CountTypes, CountsLess
<1> QED BY <1>2

\* Such a step outside the phases of a scheduled batch.
LEMMA CountIdle ==
  ASSUME CountInv, EngineInv, pc \notin Raised,
         pc \notin Scheduled \/ batch.mode # "decode",
         pc' \notin Scheduled \/ batch'.mode # "decode",
         \A r \in Requests : /\ req'[r].kv = req[r].kv /\ req'[r].finished = req[r].finished
                             /\ req'[r].output_ids = req[r].output_ids
                             /\ req'[r].pages \in {0, req[r].pages, PromptPages(r)}
  PROVE  CountInv'
<1>1. \A r \in Requests : AheadOf(r) = 0 /\ AheadOf(r)' = 0
  BY DEF AheadOf, Feeds
<1> QED BY <1>1, CountFrame

\* process_pending_batch ends a request when all it fed, or all but the last, is reported.
LEMMA CountPending ==
  ASSUME CountInv, ReportInv, EngineInv, PinnedInv, NoneRetracted, pc \in ReadsRecord,
         NEW eos, ProcessPending(eos), \A r \in Requests : AheadOf(r)' = AheadOf(r)
  PROVE  CountInv' /\ \E gets, ends : Reports(gets, ends, eos)
<1>1. pc \notin Raised /\ result_queue # << >>
  BY DEF PinnedInv, ReadsRecord, Raised
<1>2. PICK gets, ends : Reports(gets, ends, eos)
  BY <1>1, PendingReports
<1>4. ASSUME NEW r \in Requests PROVE Counts(r, req'[r], AheadOf(r)')
  <2> DEFINE x == req[r]
             y == req'[r]
             t == <<r, Len(x.output_ids) + 1>>
  <2>1. /\ y.kv = x.kv /\ y.pages = x.pages /\ y.finished = (x.finished \/ r \in ends)
        /\ y.output_ids = IF r \in gets THEN Append(x.output_ids, t) ELSE x.output_ids
        /\ r \in ends => r \in gets
        /\ r \in gets => r \in Live /\ InRecord(r)
    BY <1>2 DEF Reports
  <2>2. Counts(r, x, AheadOf(r))
    BY <1>1 DEF CountInv
  <2>3. /\ Len(x.kv) \in Nat /\ Len(x.output_ids) \in Nat /\ x.pages \in Nat
        /\ PromptPages(r) \in Nat /\ AheadOf(r) \in {0, 1} /\ x.finished \in BOOLEAN
        /\ x.output_ids \in Seq(Token(r))
    BY CountTypes DEF EngineInv, Types, ReqTypes
  <2>4. r \in gets => /\ ~x.finished
                      /\ Len(x.output_ids) + Owed(r) = Len(x.kv) + 1
    BY <1>1, <2>1 DEF ReportInv, Reported, Live
  <2>5. r \in gets => \/ Owed(r) = 1
                      \/ Owed(r) = 2 /\ AheadOf(r) = 0
    <3>1. Scheduled \cap Launched = {}
      BY DEF Scheduled, Launched
    <3> QED BY <2>1, <3>1 DEF Owed, InBatch, AheadOf, Feeds
  <2> DEFINE a == AheadOf(r)
             o == Owed(r)
  <2>6. CASE r \in gets
    <3>1. y.output_ids = Append(x.output_ids, t) /\ Len(Append(x.output_ids, t)) = Len(x.output_ids) + 1
      BY <2>1, <2>3, <2>6
    <3>2. Len(y.output_ids) = Len(x.output_ids) + 1
      BY <3>1
    <3> HIDE DEF x, y, t, a, o
    <3>3. Len(y.output_ids) \in (Len(x.kv) + a)..(Len(x.kv) + 1)
      BY <3>2, <2>3, <2>4, <2>5, <2>6 DEF a, o
    <3>4. Counts(r, y, a)
      BY <3>3, <2>1, <2>2, <2>3 DEF Counts, a
    <3> QED BY <3>4 DEF a, y
  <2>7. CASE r \notin gets
    <3>1. y.finished = x.finished /\ y.output_ids = x.output_ids
      BY <2>1, <2>3, <2>7
    <3> HIDE DEF x, y, t
    <3>2. Counts(r, y, AheadOf(r))
      BY <3>1, <2>1, <2>2, <2>3, CountsLess
    <3> QED BY <3>2 DEF y
  <2> QED BY <2>6, <2>7
<1> QED BY <1>2, <1>4 DEF CountInv

\* Phase 4 feeds what was counted.
LEMMA CountLaunch ==
  ASSUME CountInv, ReportInv, EngineInv, Launch
  PROVE  CountInv'
<1>1. pc = "launch" /\ pc' \in Launched /\ pc' \notin Scheduled /\ pc \notin Raised
  BY DEF Launch, AfterLaunch, Launched, Scheduled, Raised
<1> SUFFICES ASSUME NEW r \in Requests PROVE Counts(r, req'[r], AheadOf(r)')
  BY DEF CountInv
<1>2. /\ req'[r].output_ids = req[r].output_ids /\ req'[r].finished = req[r].finished
      /\ req'[r].pages = req[r].pages
      /\ Len(req'[r].kv) = IF Feeds(r) THEN Len(req[r].kv) + 1 ELSE Len(req[r].kv)
  BY LaunchIs DEF Silent
<1>3. AheadOf(r) = (IF Feeds(r) THEN 1 ELSE 0) /\ AheadOf(r)' = 0
  BY <1>1 DEF AheadOf, Scheduled
<1>4. Counts(r, req[r], AheadOf(r))
  BY <1>1 DEF CountInv
<1> DEFINE x == req[r]
           y == req'[r]
           k == Len(y.kv)
<1>5. /\ Len(x.kv) \in Nat /\ Len(x.output_ids) \in Nat /\ x.pages \in Nat
      /\ PromptPages(r) \in Nat /\ MaxTokens[r] \in Nat
  BY CountTypes
<1>6. k = Len(x.kv) + AheadOf(r) /\ AheadOf(r) \in {0, 1}
  <2>1. CASE Feeds(r)
    BY <2>1, <1>2, <1>3
  <2>2. CASE ~Feeds(r)
    <3>1. k = Len(x.kv) /\ AheadOf(r) = 0
      BY <2>2, <1>2, <1>3
    <3> HIDE DEF k, x
    <3> QED BY <3>1, <1>5
  <2> QED BY <2>1, <2>2
<1>7. Counts(r, x, AheadOf(r)) /\ y.output_ids = x.output_ids /\ y.finished = x.finished /\ y.pages = x.pages
  BY <1>2, <1>4
<1> HIDE DEF x, y
<1>8. k <= MaxTokens[r] /\ y.pages <= PromptPages(r) + k
      /\ (y.finished => Len(y.output_ids) \in k..(k + 1))
  <2> HIDE DEF k
  <2> QED BY <1>5, <1>6, <1>7 DEF Counts
<1>9. k \in Nat
  BY <1>5, <1>6
<1>10. Counts(r, y, 0)
  <2>1. k = Len(y.kv) /\ k + 0 = k /\ PromptPages(r) + k + 0 = PromptPages(r) + k
    BY <1>5, <1>9
  <2> QED BY <2>1, <1>8 DEF Counts
<1> QED BY <1>3, <1>10 DEF y

\* Who runs when schedule() is called has not fed its last token.
LEMMA BelowLimit ==
  ASSUME ReportInv, EngineInv, pc = "schedule", NEW r \in Requests, r \in Live
  PROVE  Len(req[r].kv) + 1 <= MaxTokens[r]
<1> DEFINE x == req[r]
<1>1. pc \notin Scheduled \cup Launched \cup Raised
  BY DEF Scheduled, Launched, Raised
<1>2. Len(x.output_ids) + Owed(r) = Len(x.kv) + 1 /\ ~x.finished
  BY <1>1 DEF ReportInv, Reported, Live
<1>3. Owed(r) \in {0, 1}
  BY <1>1 DEF Owed, InBatch
<1>4. Len(x.output_ids) < MaxTokens[r]
  BY <1>2 DEF EngineInv, Limits
<1>5. Len(x.kv) \in Nat /\ Len(x.output_ids) \in Nat /\ MaxTokens[r] \in Nat
  BY CountTypes
<1> HIDE DEF x
<1>6. Len(x.kv) + 1 <= MaxTokens[r]
  BY <1>2, <1>3, <1>4, <1>5
<1> QED BY <1>6 DEF x

\* A decode batch of all that run counts a token more for each, and none of them is at
\* its limit.
LEMMA CountDecode ==
  ASSUME CountInv, ReportInv, EngineInv, PinnedInv, pc = "schedule", NEW f, f = Filtered,
         f.reqs # << >>, NEW k, k = Len(f.reqs), Decode(f, k)
  PROVE  CountInv' /\ Silent
<1>1. /\ Silent /\ \A r \in Requests : req'[r].kv = req[r].kv
      /\ Decodes(f) \/ pc' \in Raised
  BY DecodeIs
<1>2. Range(f.reqs) = Live /\ Live \subseteq Requests
  BY ScheduleFacts DEF IsRunning
<1>3. pc \notin Scheduled \cup Launched \cup Raised
  BY DEF Scheduled, Launched, Raised
<1>4. ASSUME Decodes(f), NEW r \in Requests PROVE Counts(r, req'[r], AheadOf(r)')
  <2>1. pc' \in Scheduled
    BY <1>4 DEF Decodes, AfterSchedule, Scheduled
  <2>2. AheadOf(r)' = IF r \in Live THEN 1 ELSE 0
    <3>1. Feeds(r)' <=> r \in Live
      BY <1>2, <1>4 DEF Decodes, Feeds
    <3> QED BY <2>1, <3>1 DEF AheadOf
  <2>3. AheadOf(r) = 0
    BY <1>3 DEF AheadOf
  <2> DEFINE x == req[r]
             y == req'[r]
  <2>4. /\ y.kv = x.kv /\ y.output_ids = x.output_ids /\ y.finished = x.finished
        /\ y.pages = x.pages \/ (r \in Live /\ y.pages = x.pages + 1)
    BY <1>1, <1>4 DEF Silent, Decodes
  <2>5. Counts(r, x, 0)
    BY <1>3, <2>3 DEF CountInv
  <2>6. /\ Len(x.kv) \in Nat /\ Len(x.output_ids) \in Nat /\ x.pages \in Nat
        /\ PromptPages(r) \in Nat /\ MaxTokens[r] \in Nat
    BY CountTypes
  <2>7. CASE r \in Live
    <3>1. Len(x.kv) + 1 <= MaxTokens[r] /\ ~x.finished
      BY <2>7, BelowLimit DEF Live
    <3> HIDE DEF x, y
    <3>5. Counts(r, y, 1)
      BY <3>1, <2>4, <2>5, <2>6 DEF Counts
    <3> QED BY <3>5, <2>2, <2>7 DEF y
  <2>8. CASE r \notin Live
    <3> HIDE DEF x, y
    <3>1. Counts(r, y, 0)
      BY <2>4, <2>5, <2>8 DEF Counts
    <3> QED BY <3>1, <2>2, <2>8 DEF y
  <2> QED BY <2>7, <2>8
<1> QED BY <1>1, <1>4 DEF CountInv

\* More pages for each are more pages.
LEMMA PagesMore ==
  ASSUME NEW S, IsFiniteSet(S), NEW n, NEW m, \A r \in S : n[r] \in Nat /\ m[r] \in Nat /\ n[r] <= m[r]
  PROVE  Cardinality(PagesOf(S, n)) <= Cardinality(PagesOf(S, m))
<1>1. IsFiniteSet(PagesOf(S, m))
  BY PagesFinite
<1>2. ASSUME NEW r \in S PROVE {r} \X (1..n[r]) \subseteq {r} \X (1..m[r])
  <2>1. 1..n[r] \subseteq 1..m[r]
    OBVIOUS
  <2> QED BY <2>1
<1>3. PagesOf(S, n) \subseteq PagesOf(S, m)
  BY <1>2 DEF PagesOf
<1> QED BY <1>1, <1>3, FS_Subset

\* When memory is ample, _check_decode_mem keeps the whole batch.
LEMMA AmpleKeeps ==
  ASSUME Ample, CountInv, ReportInv, EngineInv, pc = "schedule", NEW f, f = Filtered,
         NEW k \in KeptByMem(f)
  PROVE  k = Len(f.reqs)
<1> DEFINE n == Len(f.reqs)
           S == {i \in 1..n : f.seq_lens[i] % PageSize = 0}
           h == [i \in S |-> f.reqs[i]]
           G == Range(h)
           p == [r \in Requests |-> IF r \in G THEN Opens(req[r]) ELSE req[r]]
           need == [r \in Requests |-> PromptPages(r) + MaxTokens[r]]
<1>1. /\ f.reqs \in Seq(Requests) /\ IsInjective(f.reqs) /\ Range(f.reqs) = Live
      /\ Live \subseteq Requests
      /\ n \in Nat /\ DOMAIN f.reqs = 1..n /\ \A i \in 1..n : f.reqs[i] \in Requests
      /\ \A r \in Requests : req[r] \in ReqTypes(r) /\ req[r].pages \in Nat
  BY ScheduleFacts, Elements DEF IsRunning, ReqTypes
<1>2. h \in [S -> Requests] /\ IsInjective(h) /\ G \subseteq Live
  <2>1. \A i \in S : i \in DOMAIN f.reqs /\ h[i] = f.reqs[i] /\ h[i] \in Requests
    BY <1>1
  <2>2. h \in [S -> Requests] /\ DOMAIN h = S
    BY <2>1
  <2>3. G \subseteq Live
    BY <1>1, <2>1, <2>2 DEF Range
  <2>4. \A i, j \in S : h[i] = h[j] => i = j
    BY <1>1, <2>1 DEF IsInjective
  <2> HIDE DEF h, S
  <2> QED BY <2>2, <2>3, <2>4 DEF IsInjective
<1>3. \A r \in Requests : p[r].pages = IF r \in G THEN req[r].pages + 1 ELSE req[r].pages
  BY <1>1 DEF Opens, ReqTypes
<1>4. HeldBy(p) = HeldBy(req) + Cardinality(S) /\ Cardinality(S) \in Nat
  <2>1. /\ h \in [S -> Requests] /\ IsInjective(h)
        /\ \A r \in Requests : req[r].pages \in Nat
        /\ \A r \in Requests : p[r].pages = IF r \in Range(h) THEN req[r].pages + 1 ELSE req[r].pages
    BY <1>1, <1>2, <1>3
  <2> HIDE DEF S, h, p
  <2> QED BY ONLY <2>1, HeldGrown
<1>5. ASSUME NEW r \in Requests
      PROVE  p[r].pages \in Nat /\ need[r] \in Nat /\ p[r].pages <= need[r]
  <2>1. pc \notin Raised /\ AheadOf(r) = 0
    BY DEF Raised, AheadOf, Scheduled
  <2>2. Counts(r, req[r], 0)
    BY <2>1 DEF CountInv
  <2>3. /\ Len(req[r].kv) \in Nat /\ req[r].pages \in Nat /\ PromptPages(r) \in Nat
        /\ MaxTokens[r] \in Nat
    BY CountTypes
  <2>4. r \in G => Len(req[r].kv) + 1 <= MaxTokens[r]
    BY <1>2, BelowLimit
  <2>5. need[r] = PromptPages(r) + MaxTokens[r]
    OBVIOUS
  <2> HIDE DEF p, need, G
  <2>6. p[r].pages = IF r \in G THEN req[r].pages + 1 ELSE req[r].pages
    BY <1>3
  <2>7. /\ Len(req[r].kv) + 0 <= MaxTokens[r]
        /\ req[r].pages <= PromptPages(r) + Len(req[r].kv) + 0
    BY <2>2 DEF Counts
  <2>8. PICK len, g, pp, mt, x, y : /\ len = Len(req[r].kv) /\ g = req[r].pages /\ pp = PromptPages(r)
                                 /\ mt = MaxTokens[r] /\ x = p[r].pages /\ y = need[r]
    OBVIOUS
  <2>9. /\ len \in Nat /\ g \in Nat /\ pp \in Nat /\ mt \in Nat /\ y = pp + mt
        /\ (x = g + 1 /\ len + 1 <= mt) \/ x = g
        /\ len + 0 <= mt /\ g <= pp + len + 0
    BY ONLY <2>3, <2>4, <2>5, <2>6, <2>7, <2>8
  <2>10. x \in Nat /\ y \in Nat /\ x <= y
    BY ONLY <2>9
  <2> QED BY ONLY <2>8, <2>10
<1>6. HeldBy(p) <= Cardinality(PagesOf(Requests, need))
  <2> DEFINE m == [r \in Requests |-> p[r].pages]
  <2>1. \A r \in Requests : m[r] \in Nat /\ need[r] \in Nat /\ m[r] <= need[r]
    BY <1>5
  <2>2. HeldBy(p) = Cardinality(PagesOf(Requests, m))
    BY DEF HeldBy
  <2> HIDE DEF m, need, p
  <2> QED BY <2>1, <2>2, PagesMore, EngineAssumption DEF EngineAssumption
<1>7. free_pages >= Cardinality(S)
  <2>1. free_pages = NumPages - HeldBy(req) /\ NumPages \in Nat /\ HeldBy(req) \in Nat
    BY <1>1, HeldNat, EngineAssumption DEF EngineInv, Holdings, EngineAssumption
  <2>2. NumPages >= Cardinality(PagesOf(Requests, need)) /\ Cardinality(PagesOf(Requests, need)) \in Nat
    <3>1. Cardinality(PagesOf(Requests, need)) \in Nat
      <4>1. \A r \in Requests : need[r] \in Nat
        BY <1>5
      <4> HIDE DEF need
      <4> QED BY <4>1, PagesFinite, EngineAssumption DEF EngineAssumption
    <3> QED BY <3>1 DEF Ample
  <2> HIDE DEF S, p, need
  <2> QED BY <2>1, <2>2, <1>4, <1>6
<1>8. PagesBehind(f, n) = 0
  <2> DEFINE s == f.reqs
  <2>1. SubSeq(s, n + 1, n) = << >>
    BY <1>1
  <2>2. Range(<< >>) = {}
    BY DEF Range
  <2>3. Held({}) = {}
    BY DEF Held, PagesOf
  <2>4. Cardinality({}) = 0
    BY FS_EmptySet
  <2> QED BY <2>1, <2>2, <2>3, <2>4 DEF PagesBehind, NumHeld
<1>9. free_pages + PagesBehind(f, n) >= Wanted(f, n)
  <2>1. Wanted(f, n) = Cardinality(S)
    BY DEF Wanted
  <2>2. free_pages \in Nat
    BY DEF EngineInv, Holdings
  <2> HIDE DEF S, n
  <2> QED BY <2>1, <2>2, <1>7, <1>8
<1>10. /\ k \in 0..n
       /\ \A j \in (k + 1)..n : ~(free_pages + PagesBehind(f, j) >= Wanted(f, j))
  BY DEF KeptByMem
<1> HIDE DEF n
<1>11. ~(n \in (k + 1)..n)
  BY <1>9, <1>10
<1>12. n \in Nat
  BY <1>1 DEF n
<1>13. k = n
  BY ONLY <1>11, <1>10, <1>12
<1> QED BY <1>13 DEF n

\* The invariant of a run that retracts nobody.
ServiceInv == EngineInv /\ PinnedInv /\ ReportInv /\ CountInv /\ NoneRetracted

\* One thread's steps: a step reports a token more for every request of a record, or it
\* reports nothing; and memory that is ample, or a step that retracts nobody, keeps the
\* counts.
LEMMA ServiceStep ==
  ASSUME ServiceInv, NoneRetracted' \/ Ample, [Next]_vars
  PROVE  CountInv' /\ (Silent \/ \E gets, ends, eos : Reports(gets, ends, eos))
<1> USE DEF ServiceInv
<1>1. ASSUME NEW prompts \in SetToAllKPermutations(fresh) \ {<< >>}, Generate(prompts)
      PROVE  CountInv' /\ Silent
  <2>1. pc \notin Raised \cup Scheduled /\ pc' \notin Scheduled /\ req' = req
    BY <1>1 DEF Generate, Raised, Scheduled
  <2> QED BY <2>1, CountIdle DEF Silent
<1>2. ASSUME NEW r \in Requests, Submit(r) PROVE CountInv' /\ Silent
  BY <1>2 DEF Submit, CountInv, AheadOf, Feeds, Silent
<1>3. CASE RecvRequests
  <2>1. pc \notin Raised \cup Scheduled /\ pc' \notin Scheduled /\ req' = req
    BY <1>3 DEF RecvRequests, Raised, Scheduled
  <2> QED BY <2>1, CountIdle DEF Silent
<1>4. CASE ProcessConservative
  <2>1. PICK eos \in Ending : ProcessPending(eos)
    BY <1>4 DEF ProcessConservative
  <2>2. pc \in ReadsRecord /\ \A r \in Requests : AheadOf(r)' = AheadOf(r)
    BY <1>4 DEF ProcessConservative, ReadsRecord, AheadOf, Scheduled
  <2> QED BY <2>1, <2>2, CountPending
<1>5. ASSUME NEW ratio \in Ratios, SchedulePrefill(ratio) PROVE CountInv' /\ Silent
  <2>1. /\ Silent
        /\ \A r \in Requests : /\ req'[r].kv = req[r].kv
                               /\ req'[r].pages \in {0, req[r].pages, PromptPages(r)}
    BY <1>5, PrefillIs
  <2>2. pc \notin Raised \cup Scheduled
    BY <1>5 DEF SchedulePrefill, Raised, Scheduled
  <2>3. pc' \notin Scheduled \/ batch'.mode # "decode"
    BY <1>5 DEF SchedulePrefill, Scheduled, NoBatch
  <2> QED BY <2>1, <2>2, <2>3, CountIdle DEF Silent
<1>6. ASSUME NEW ratio \in Ratios, ScheduleDecode(ratio) PROVE CountInv' /\ Silent
  <2> DEFINE f == Filtered
  <2>1. pc = "schedule" /\ f.reqs # << >> /\ \E k \in KeptByMem(f) : Decode(f, k)
    BY <1>6 DEF ScheduleDecode
  <2>2. PICK k \in KeptByMem(f) : Decode(f, k)
    BY <2>1
  <2>3. k = Len(f.reqs)
    BY <2>1, <2>2, DecodesWhole, AmpleKeeps
  <2> QED BY <2>1, <2>2, <2>3, CountDecode
<1>7. ASSUME NEW ratio \in Ratios, ScheduleNone(ratio) PROVE CountInv' /\ Silent
  <2>1. pc \notin Raised \cup Scheduled /\ batch'.mode # "decode" /\ req' = req
    BY <1>7 DEF ScheduleNone, Raised, Scheduled, NoBatch
  <2> QED BY <2>1, CountIdle DEF Silent
<1>8. CASE ProcessConsecutive
  <2>1. PICK eos \in Ending : ProcessPending(eos)
    BY <1>8 DEF ProcessConsecutive
  <2>2. pc \in Scheduled /\ pc' \in Scheduled /\ batch' = batch /\ pc \in ReadsRecord
    BY <1>8 DEF ProcessConsecutive, ProcessPending, Scheduled, ReadsRecord
  <2>3. \A r \in Requests : AheadOf(r)' = AheadOf(r)
    BY <2>2 DEF AheadOf, Feeds
  <2> QED BY <2>1, <2>2, <2>3, CountPending
<1>9. CASE Launch
  BY <1>9, CountLaunch, LaunchIs
<1>10. CASE LaunchNothing
  <2>1. pc \notin Raised /\ pc' \notin Scheduled /\ batch.mode # "decode" /\ req' = req
    BY <1>10 DEF LaunchNothing, Raised, Scheduled
  <2> QED BY <2>1, CountIdle DEF Silent
<1>11. CASE ProcessOverlap
  <2>1. PICK eos \in Ending : ProcessPending(eos)
    BY <1>11 DEF ProcessOverlap
  <2>2. pc \in ReadsRecord /\ \A r \in Requests : AheadOf(r)' = AheadOf(r)
    BY <1>11 DEF ProcessOverlap, ReadsRecord, AheadOf, Scheduled
  <2> QED BY <2>1, <2>2, CountPending
<1>12. CASE LaunchSample
  <2>1. pc \notin Raised \cup Scheduled /\ pc' \notin Scheduled /\ req' = req
    BY <1>12 DEF LaunchSample, Raised, Scheduled
  <2> QED BY <2>1, CountIdle DEF Silent
<1>13. CASE Drain
  <2>1. /\ Silent
        /\ \A r \in Requests : /\ req'[r].kv = req[r].kv
                               /\ req'[r].pages \in {0, req[r].pages, PromptPages(r)}
    BY <1>13, DrainIs
  <2>2. pc \notin Raised \cup Scheduled /\ pc' \notin Scheduled
    BY <1>13 DEF Drain, Raised, Scheduled
  <2> QED BY <2>1, <2>2, CountIdle DEF Silent
<1>14. CASE UNCHANGED vars
  BY <1>14 DEF vars, CountInv, AheadOf, Feeds, Silent
<1> QED
  BY <1>1, <1>2, <1>3, <1>4, <1>5, <1>6, <1>7, <1>8, <1>9, <1>10, <1>11, <1>12,
     <1>13, <1>14 DEF Next, EngineStep

\* What a step reports retracts nobody.
LEMMA ServiceKeeps ==
  ASSUME NoneRetracted, Silent \/ \E gets, ends, eos : Reports(gets, ends, eos)
  PROVE  NoneRetracted'
BY DEF NoneRetracted, Silent, Reports

\* And with nothing counted.
LEMMA ServiceStart ==
  ASSUME Init
  PROVE  ReportInv /\ CountInv /\ NoneRetracted
<1>1. pc = "idle" /\ req = [r \in Requests |-> NewReq]
  BY DEF Init
<1>2. ASSUME NEW r \in Requests PROVE Counts(r, req[r], AheadOf(r))
  <2>1. AheadOf(r) = 0
    BY <1>1 DEF AheadOf, Scheduled
  <2>2. req[r].kv = << >> /\ req[r].pages = 0 /\ ~req[r].finished
    BY <1>1 DEF NewReq
  <2>3. PromptPages(r) \in Nat /\ MaxTokens[r] \in Nat
    BY PromptPagesIs, EngineAssumption DEF EngineAssumption
  <2> QED BY <2>1, <2>2, <2>3 DEF Counts
<1> QED BY <1>2, ReportStart DEF CountInv

\* With a token reported for each request of the record it processes, or none, the
\* engine does a step of the service, or nothing visible.
LEMMA ServiceRefines ==
  ASSUME ServiceInv, Silent \/ \E gets, ends, eos : Reports(gets, ends, eos)
  PROVE  [Service!Next]_(Service!vars)
<1> DEFINE out == [r \in Requests |-> req[r].output_ids]
           fin == [r \in Requests |-> req[r].finished]
           grown(S) == [r \in Requests |->
              IF r \in S THEN Append(out[r], <<r, Len(out[r]) + 1>>) ELSE out[r]]
           ended(S, E) == [r \in Requests |->
              fin[r] \/ (r \in S /\ (r \in E \/ Len(out[r]) + 1 = MaxTokens[r]))]
<1>1. CASE Silent
  <2>1. out' = out /\ fin' = fin
    BY <1>1 DEF Silent
  <2> QED BY <2>1 DEF Service!vars
<1>2. ASSUME NEW gets, NEW ends, NEW eos, Reports(gets, ends, eos)
      PROVE  Service!Next
  <2>1. /\ gets = {r \in Live : InRecord(r)} /\ ends \in SUBSET gets
        /\ \A r \in gets : Len(req[r].output_ids) + 1 = MaxTokens[r] => r \in ends
        /\ \A r \in Requests :
             /\ req'[r].finished = (req[r].finished \/ r \in ends)
             /\ req'[r].output_ids = IF r \in gets
                                       THEN Append(req[r].output_ids, <<r, Len(req[r].output_ids) + 1>>)
                                       ELSE req[r].output_ids
    BY <1>2 DEF Reports
  <2>2. gets \in SUBSET Requests /\ \A r \in gets : ~fin[r]
    <3>1. running \in Seq(Requests)
      BY DEF ServiceInv, EngineInv, Types
    <3>2. \A r \in Range(running) : r \in Requests
      BY <3>1, Elements DEF Range
    <3> QED BY <2>1, <3>2 DEF Live
  <2>3. out' = grown(gets)
    BY <2>1
  <2>4. fin' = ended(gets, ends)
    <3>1. \A r \in Requests : (r \in ends) <=> (r \in gets /\ (r \in ends \/ Len(out[r]) + 1 = MaxTokens[r]))
      BY <2>1
    <3>2. \A r \in Requests : req'[r].finished = (fin[r] \/ r \in ends)
      BY <2>1
    <3> DEFINE full(r) == Len(out[r]) + 1 = MaxTokens[r]
    <3>3. \A r \in Requests : (r \in ends) <=> (r \in gets /\ (r \in ends \/ full(r)))
      BY <3>1
    <3>4. fin' = [r \in Requests |-> req'[r].finished]
      OBVIOUS
    <3>5. ended(gets, ends) = [r \in Requests |-> fin[r] \/ (r \in gets /\ (r \in ends \/ full(r)))]
      OBVIOUS
    <3> HIDE DEF full, fin, ended
    <3>6. \A r \in Requests :
            req'[r].finished = (fin[r] \/ (r \in gets /\ (r \in ends \/ full(r))))
      BY <3>2, <3>3, Zenon
    <3>7. [r \in Requests |-> req'[r].finished]
            = [r \in Requests |-> fin[r] \/ (r \in gets /\ (r \in ends \/ full(r)))]
      BY <3>6, Zenon
    <3> QED BY <3>4, <3>5, <3>7, Zenon
  <2>5. Service!Report(gets, ends)
    BY <2>2, <2>3, <2>4 DEF Service!Report
  <2> QED BY <2>1, <2>2, <2>5 DEF Service!Next
<1> QED BY <1>1, <1>2

\* As long as nobody is retracted, the tokens reported and the tokens fed are the first of
\* a request in their order, and they are as many, but for those on the way.
THEOREM ServiceInvariance == Spec /\ []NoneRetracted => []ServiceInv
<1>1. Init => ReportInv /\ CountInv
  BY ServiceStart
<1>2. /\ ReportInv /\ CountInv /\ EngineInv /\ PinnedInv /\ NoneRetracted /\ NoneRetracted'
      /\ [Next]_vars
      => ReportInv' /\ CountInv'
  BY ReportStep, ServiceStep DEF ServiceInv
<1>3. ReportInv /\ CountInv /\ EngineInv /\ PinnedInv /\ NoneRetracted => ServiceInv
  BY DEF ServiceInv
<1> QED BY <1>1, <1>2, <1>3, EngineInvariance, PTL DEF Spec

\* Memory with room for the prompt of every request and a page for each token it may feed
\* is memory in which _check_decode_mem never retracts anyone.
THEOREM AmpleTheorem ==
  ASSUME Ample
  PROVE  Spec => []NoneRetracted
<1>1. Init => ReportInv /\ CountInv /\ NoneRetracted
  BY ServiceStart
<1>2. /\ ReportInv /\ CountInv /\ EngineInv /\ PinnedInv /\ NoneRetracted
      /\ [Next]_vars
      => ReportInv' /\ CountInv' /\ NoneRetracted'
  BY ReportStep, ServiceStep, ServiceKeeps DEF ServiceInv
<1> QED BY <1>1, <1>2, EngineInvariance, PTL DEF Spec

\* Two batches in flight, late results and skipped ones do not show while nobody is
\* retracted: the engine implements the service that reports token after token.
THEOREM GenerationTheorem == Spec /\ []NoneRetracted => ImplementsGeneration
<1> DEFINE out == [r \in Requests |-> req[r].output_ids]
           fin == [r \in Requests |-> req[r].finished]
<1>1. Init => Service!Init
  BY DEF Init, NewReq, Service!Init
<1>2. ServiceInv /\ NoneRetracted' /\ [Next]_vars => [Service!Next]_(Service!vars)
  BY ServiceStep, ServiceRefines
<1> QED BY <1>1, <1>2, ServiceInvariance, PTL DEF Spec, ImplementsGeneration, Service!Spec

\* Whenever a step begins, then, a request has reported all it fed or one token more, and
\* seq_lens counts what it fed.
THEOREM LengthsTheorem == Spec /\ []NoneRetracted => []LengthsAgree
<1>1. ServiceInv => LengthsAgree
  <2> SUFFICES ASSUME ServiceInv PROVE OutputMatchesKV /\ SeqLensCountKV
    BY DEF LengthsAgree
  <2> USE DEF ServiceInv
  <2>1. pc = "recv" => pc \notin Scheduled \cup Launched \cup Raised
    BY DEF Scheduled, Launched, Raised
  <2>2. ASSUME pc = "recv", NEW r \in Requests
        PROVE  Len(req[r].output_ids) \in Len(req[r].kv)..(Len(req[r].kv) + 1)
    <3> DEFINE x == req[r]
    <3>1. Len(x.kv) \in Nat /\ Len(x.output_ids) \in Nat
      BY CountTypes
    <3>2. CASE x.finished
      <4>1. Counts(r, x, 0)
        BY <2>1, <2>2 DEF CountInv, AheadOf
      <4> HIDE DEF x
      <4>2. Len(x.output_ids) \in Len(x.kv)..(Len(x.kv) + 1)
        BY <4>1, <3>1, <3>2 DEF Counts
      <4> QED BY <4>2 DEF x
    <3>3. CASE r \in Live
      <4>1. Len(x.output_ids) + Owed(r) = Len(x.kv) + 1
        BY <2>1, <2>2, <3>3 DEF ReportInv, Reported
      <4>2. Owed(r) \in {0, 1}
        BY <2>1, <2>2 DEF Owed, InBatch
      <4> HIDE DEF x
      <4>3. Len(x.output_ids) \in Len(x.kv)..(Len(x.kv) + 1)
        BY <4>1, <4>2, <3>1
      <4> QED BY <4>3 DEF x
    <3>4. CASE ~x.finished /\ r \notin Live
      <4>1. x.output_ids = << >> /\ x.kv = << >>
        BY <2>1, <2>2, <3>4 DEF ReportInv, Unstarted
      <4> QED BY <4>1
    <3> QED BY <3>2, <3>3, <3>4
  <2>3. OutputMatchesKV
    BY <2>2 DEF OutputMatchesKV, ReportInv, Ordered
  <2>4. ASSUME pc = "recv", NEW i \in DOMAIN running
        PROVE  seq_lens[i] = PromptLen[running[i]] + Len(req[running[i]].kv)
    <3> DEFINE r == running[i]
    <3>1. Ahead = 0
      BY <2>1, <2>4 DEF Ahead
    <3>2. seq_lens[i] = PromptLen[r] + Len(req[r].kv) + 0
      BY <2>1, <2>4, <3>1 DEF ReportInv, Lengths
    <3>3. r \in Requests
      <4>1. running \in Seq(Requests)
        BY DEF EngineInv, Types
      <4> QED BY <4>1, <2>4, Elements
    <3>4. PromptLen[r] \in Nat /\ Len(req[r].kv) \in Nat
      BY <3>3, CountTypes, EngineAssumption DEF EngineAssumption
    <3> HIDE DEF r
    <3>5. seq_lens[i] = PromptLen[r] + Len(req[r].kv)
      BY <3>2, <3>4
    <3> QED BY <3>5 DEF r
  <2> QED BY <2>3, <2>4 DEF SeqLensCountKV
<1> QED BY <1>1, ServiceInvariance, PTL

\* With ample memory, whatever the requests and the schedule, both hold throughout.
COROLLARY AmpleService ==
  ASSUME Ample
  PROVE  Spec => ImplementsGeneration /\ []LengthsAgree
BY AmpleTheorem, GenerationTheorem, LengthsTheorem, PTL

=============================================================================
