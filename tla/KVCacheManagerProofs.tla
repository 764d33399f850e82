------------------------ MODULE KVCacheManagerProofs ------------------------
(***************************************************************************)
(* The safety of the KV cache manager, for any page size above one, pool,  *)
(* prompts, tokens and finite set of requests.                             *)
(*                                                                         *)
(* Under every workload: rows of the request pool belong to one request,   *)
(* and the prefix a request was given stays in the tree and in its row.    *)
(* Under the sound workload: every page is in one place and every page     *)
(* table is sound.                                                         *)
(***************************************************************************)
EXTENDS KVWorkloads, CacheLemmas

---------------------------------------------------------------------------
(* Chunks.                                                                  *)

\* A page of tokens, or of KV indices.
Chunk == [1..PageSize -> Nat]

\* Where the j-th entry of the i-th page of a sequence is.
Entry(i, j) == (i - 1) * PageSize + j

\* Entry numbers the entries page by page.
LEMMA EntryIs ==
  ASSUME NEW i \in Nat \ {0}, NEW j \in 1..PageSize
  PROVE  /\ Entry(i, j) \in Nat \ {0}
         /\ BlockOf(Entry(i, j)) = i - 1 /\ (Entry(i, j) - 1) % PageSize = j - 1
         /\ \A n \in Nat : i <= n => Entry(i, j) <= n * PageSize
<1> DEFINE x == Entry(i, j)
           b == i - 1
           r == j - 1
<1>1. PageSize \in Nat /\ PageSize >= 2
  BY PageAssumption
<1>2. b \in Nat /\ r \in 0..(PageSize - 1) /\ i = b + 1 /\ j = r + 1
  BY <1>1
<1>3. PageSize * b \in Nat /\ b * PageSize = PageSize * b
  BY <1>1, <1>2
<1>4. x = PageSize * b + r + 1 /\ x \in Nat /\ x \in Nat \ {0}
  BY <1>1, <1>2, <1>3 DEF Entry
<1> HIDE DEF x, b, r
<1>5. BlockOf(x) = b /\ (x - 1) % PageSize = r
  BY <1>2, <1>4, BlockUnique
<1>6. ASSUME NEW n \in Nat, i <= n PROVE x <= n * PageSize
  <2>1. b < n
    BY <1>2, <1>6
  <2>2. PageSize * b + PageSize <= PageSize * n
    BY <1>2, <2>1, MulOrder
  <2>3. PageSize * n = n * PageSize /\ PageSize * n \in Nat
    BY <1>1
  <2> QED BY <1>1, <1>2, <1>3, <1>4, <2>2, <2>3
<1> QED BY <1>2, <1>4, <1>5, <1>6 DEF x, b, r

\* Every entry of n whole pages is one of them.
LEMMA EntryOf ==
  ASSUME NEW n \in Nat, NEW x \in 1..(n * PageSize)
  PROVE  /\ BlockOf(x) + 1 \in 1..n /\ ((x - 1) % PageSize) + 1 \in 1..PageSize
         /\ x = Entry(BlockOf(x) + 1, ((x - 1) % PageSize) + 1)
<1> DEFINE b == BlockOf(x)
           r == (x - 1) % PageSize
<1>1. PageSize \in Nat /\ PageSize >= 2
  BY PageAssumption
<1>2. n * PageSize = PageSize * n /\ PageSize * n \in Nat
  BY <1>1
<1>3. x \in Nat /\ x >= 1 /\ x <= PageSize * n
  BY <1>2
<1>4. b \in Nat /\ r \in 0..(PageSize - 1) /\ x - 1 = PageSize * b + r
  BY <1>3, BlockSpec
<1> HIDE DEF b, r
<1>5. PageSize * b \in Nat /\ ((b + 1) - 1) * PageSize = PageSize * b
  BY <1>1, <1>4
<1>6. b < n
  <2> SUFFICES ASSUME n <= b PROVE FALSE
    BY <1>4
  <2>1. PageSize * n <= PageSize * b
    BY <1>4, MulMono
  <2> QED BY <2>1, <1>2, <1>3, <1>4, <1>5
<1>7. x = Entry(b + 1, r + 1)
  BY <1>3, <1>4, <1>5 DEF Entry
<1> QED BY <1>1, <1>4, <1>6, <1>7 DEF b, r

\* The chunks of a sequence, entry by entry.
LEMMA ChunksAre ==
  ASSUME NEW S, NEW s \in Seq(S)
  PROVE  /\ Len(ChunksOf(s)) = Len(s) \div PageSize /\ Len(ChunksOf(s)) \in Nat
         /\ ChunksOf(s) \in Seq([1..PageSize -> S])
         /\ Len(ChunksOf(s)) * PageSize <= Len(s)
         /\ Len(s) < Len(ChunksOf(s)) * PageSize + PageSize
         /\ \A i \in 1..Len(ChunksOf(s)), j \in 1..PageSize :
              Entry(i, j) \in 1..Len(s) /\ ChunksOf(s)[i][j] = s[Entry(i, j)]
<1> DEFINE n == Len(s)
           k == n \div PageSize
<1>1. PageSize \in Nat /\ PageSize >= 2 /\ n \in Nat
  BY PageAssumption
<1>2. k \in Int /\ n % PageSize \in 0..(PageSize - 1) /\ n = PageSize * k + (n % PageSize)
  <2> HIDE DEF n
  <2>1. n \in Int
    BY <1>1
  <2> QED BY <2>1, DivMod
<1> HIDE DEF k
<1>3. k \in Nat
  <2> SUFFICES ASSUME k < 0 PROVE FALSE
    BY <1>2
  <2>1. PageSize * k + PageSize <= PageSize * 0
    BY <1>2, MulOrder
  <2> QED BY <2>1, <1>1, <1>2
<1>4. k * PageSize = PageSize * k /\ PageSize * k \in Nat
  BY <1>1, <1>3
<1>5. k * PageSize <= n /\ n < k * PageSize + PageSize
  BY <1>1, <1>2, <1>4
<1> DEFINE c == ChunksOf(s)
<1>6. c = [i \in 1..k |-> SubSeq(s, (i - 1) * PageSize + 1, i * PageSize)]
  BY DEF ChunksOf, k
<1>7. ASSUME NEW i \in 1..k
      PROVE  /\ c[i] \in [1..PageSize -> S]
             /\ \A j \in 1..PageSize : Entry(i, j) \in 1..n /\ c[i][j] = s[Entry(i, j)]
  <2>1. PICK lo \in Int, hi \in Int : /\ lo = (i - 1) * PageSize + 1 /\ hi = i * PageSize
                                      /\ hi = (i - 1) * PageSize + PageSize
    <3>1. i \in Nat /\ i - 1 \in Nat
      BY <1>3
    <3>2. (i - 1) * PageSize \in Int /\ i * PageSize \in Int
          /\ i * PageSize = (i - 1) * PageSize + PageSize
      BY <3>1, <1>1
    <3> QED BY <3>2
  <2>2. c[i] = SubSeq(s, lo, hi)
    BY <1>6, <2>1
  <2>3. \A j \in 1..PageSize : Entry(i, j) \in 1..n /\ lo + j - 1 = Entry(i, j)
    <3> TAKE j \in 1..PageSize
    <3>1. Entry(i, j) \in Nat \ {0} /\ Entry(i, j) <= k * PageSize
      BY <1>3, EntryIs
    <3>2. lo + j - 1 = Entry(i, j)
      <4> DEFINE z == (i - 1) * PageSize
      <4>1. lo = z + 1 /\ Entry(i, j) = z + j
        BY <2>1 DEF Entry
      <4> HIDE DEF z
      <4>2. z = lo - 1 \/ z \notin Int
        BY <4>1
      <4>3. z \in Int
        <5>1. i - 1 \in Int /\ PageSize \in Int
          BY <1>1, <1>3
        <5> QED BY <5>1 DEF z
      <4> QED BY <4>1, <4>3
    <3> QED BY <3>1, <3>2, <1>1, <1>4, <1>5
  <2>4. hi - lo + 1 = PageSize /\ lo <= hi
    BY <2>1, <1>1
  <2>5. \A j \in lo..hi : s[j] \in S
    <3> TAKE j \in lo..hi
    <3>1. j - lo + 1 \in 1..PageSize
      BY <2>1, <1>1
    <3>2. Entry(i, j - lo + 1) \in 1..n /\ Entry(i, j - lo + 1) = j
      BY <3>1, <2>1, <2>3
    <3> QED BY <3>2
  <2>6. c[i] = [j \in 1..PageSize |-> s[lo + j - 1]]
    <3> DEFINE a == SubSeq(s, lo, hi)
    <3>1. a \in Seq(S) /\ Len(a) = hi - lo + 1 /\ \A j \in 1..(hi - lo + 1) : a[j] = s[lo + j - 1]
      <4>1. lo \in Int /\ hi \in Int /\ \A j \in lo..hi : s[j] \in S
        BY <2>1, <2>5
      <4>2. /\ a \in Seq(S) /\ Len(a) = (IF lo <= hi THEN hi - lo + 1 ELSE 0)
            /\ \A j \in 1..(hi - lo + 1) : a[j] = s[lo + j - 1]
        BY <4>1, SubSeqProperties
      <4> QED BY <4>2, <2>4
    <3> HIDE DEF a
    <3>2. a \in [1..PageSize -> S]
      BY <3>1, <2>4, LenProperties
    <3>3. c[i] = a
      BY <2>2 DEF a
    <3> QED BY <3>1, <3>2, <3>3, <2>4
  <2>7. \A j \in 1..PageSize : s[lo + j - 1] \in S
    BY <2>3
  <2> QED BY <2>3, <2>6, <2>7
<1> HIDE DEF c, n
<1>8. c \in Seq([1..PageSize -> S]) /\ Len(c) = k
  <2>1. \A i \in 1..k : c[i] \in [1..PageSize -> S]
    BY <1>7
  <2>2. c \in [1..k -> [1..PageSize -> S]]
    BY <1>6, <2>1
  <2> QED BY <2>2, <1>3
<1> QED BY <1>3, <1>5, <1>7, <1>8 DEF c, n, k

\* The same as one predicate: k is the cut of s into pages.
Chunked(S, s, k) ==
  /\ Len(k) = Len(s) \div PageSize /\ Len(k) \in Nat
  /\ k \in Seq([1..PageSize -> S])
  /\ Len(k) * PageSize <= Len(s)
  /\ Len(s) < Len(k) * PageSize + PageSize
  /\ \A i \in 1..Len(k), j \in 1..PageSize :
       Entry(i, j) \in 1..Len(s) /\ k[i][j] = s[Entry(i, j)]

LEMMA ChunksCut ==
  ASSUME NEW S, NEW s \in Seq(S)
  PROVE  Chunked(S, s, ChunksOf(s))
  BY ONLY ChunksAre, s \in Seq(S) DEF Chunked

\* Pages of indices laid end to end.
Joined(s) == [x \in 1..(Len(s) * PageSize) |-> s[BlockOf(x) + 1][((x - 1) % PageSize) + 1]]

\* The first i pages of s.
JoinedTo(s, i) == [x \in 1..(i * PageSize) |-> s[BlockOf(x) + 1][((x - 1) % PageSize) + 1]]

\* The concatenation of the pages of s, entry by entry.
LEMMA JoinedToIs ==
  ASSUME NEW S, NEW s \in Seq([1..PageSize -> S]), NEW i \in 0..Len(s)
  PROVE  /\ JoinedTo(s, i) \in Seq(S) /\ Len(JoinedTo(s, i)) = i * PageSize /\ i * PageSize \in Nat
         /\ \A k \in 1..i, j \in 1..PageSize : JoinedTo(s, i)[Entry(k, j)] = s[k][j]
<1>1. PageSize \in Nat /\ PageSize >= 2 /\ Len(s) \in Nat /\ i \in Nat
  BY PageAssumption, LenProperties
<1>2. i * PageSize \in Nat
  BY <1>1
<1> DEFINE a == JoinedTo(s, i)
<1>3. \A x \in 1..(i * PageSize) : a[x] = s[BlockOf(x) + 1][((x - 1) % PageSize) + 1]
  BY DEF JoinedTo
<1>4. a \in [1..(i * PageSize) -> S]
  <2>1. ASSUME NEW x \in 1..(i * PageSize) PROVE a[x] \in S
    <3>1. BlockOf(x) + 1 \in 1..i /\ ((x - 1) % PageSize) + 1 \in 1..PageSize
      BY <1>1, EntryOf
    <3>2. s[BlockOf(x) + 1] \in [1..PageSize -> S]
      BY <3>1, <1>1, ElementOfSeq
    <3> QED BY <3>1, <3>2, <1>3
  <2>2. a = [x \in 1..(i * PageSize) |-> a[x]]
    BY DEF JoinedTo
  <2> HIDE DEF a
  <2> QED BY <2>1, <2>2
<1>5. ASSUME NEW k \in 1..i, NEW j \in 1..PageSize PROVE a[Entry(k, j)] = s[k][j]
  <2>1. /\ Entry(k, j) \in Nat \ {0} /\ Entry(k, j) <= i * PageSize
        /\ BlockOf(Entry(k, j)) = k - 1 /\ (Entry(k, j) - 1) % PageSize = j - 1
    <3>1. k \in Nat \ {0} /\ k <= i
      BY <1>1
    <3> QED BY <3>1, <1>1, EntryIs
  <2>2. BlockOf(Entry(k, j)) + 1 = k /\ ((Entry(k, j) - 1) % PageSize) + 1 = j
    BY <2>1
  <2>3. Entry(k, j) \in 1..(i * PageSize)
    BY <2>1, <1>2
  <2> HIDE DEF a
  <2> QED BY <2>2, <2>3, <1>3
<1> HIDE DEF a
<1>6. a \in Seq(S) /\ Len(a) = i * PageSize
  BY <1>2, <1>4
<1> QED BY <1>2, <1>5, <1>6 DEF a

\* One page more.
LEMMA JoinedStep ==
  ASSUME NEW S, NEW s \in Seq([1..PageSize -> S]), NEW i \in 1..Len(s)
  PROVE  /\ JoinedTo(s, i) = JoinedTo(s, i - 1) \o s[i]
         /\ JoinedTo(s, 1) = s[1]
<1>1. PageSize \in Nat /\ PageSize >= 2 /\ Len(s) \in Nat /\ i \in Nat /\ i - 1 \in 0..Len(s) /\ i \in 0..Len(s)
      /\ 1 \in 0..Len(s) /\ 1 \in 1..Len(s)
  BY PageAssumption, LenProperties
<1> DEFINE g(k) == JoinedTo(s, k)
<1>2. \A k \in 0..Len(s) : /\ g(k) \in Seq(S) /\ Len(g(k)) = k * PageSize /\ k * PageSize \in Nat
                           /\ \A l \in 1..k, j \in 1..PageSize : g(k)[Entry(l, j)] = s[l][j]
  BY JoinedToIs
<1>3. ASSUME NEW k \in 1..Len(s) PROVE s[k] \in Seq(S) /\ Len(s[k]) = PageSize
  <2>1. s[k] \in [1..PageSize -> S]
    BY ElementOfSeq
  <2> QED BY <2>1, <1>1
<1>4. ASSUME NEW k \in 1..Len(s) PROVE g(k) = g(k - 1) \o s[k]
  <2> DEFINE u == g(k)
             v == g(k - 1)
             w == s[k]
             z == v \o w
  <2>1. k \in 0..Len(s) /\ k - 1 \in 0..Len(s) /\ k \in Nat /\ k - 1 \in Nat
    BY <1>1
  <2>2. u \in Seq(S) /\ v \in Seq(S) /\ w \in Seq(S) /\ Len(w) = PageSize
        /\ Len(u) = k * PageSize /\ Len(v) = (k - 1) * PageSize
    BY <2>1, <1>2, <1>3
  <2>3. k * PageSize \in Nat /\ (k - 1) * PageSize \in Nat /\ k * PageSize = (k - 1) * PageSize + PageSize
    BY <2>1, <1>1
  <2>4. \A l \in 1..k, j \in 1..PageSize : u[Entry(l, j)] = s[l][j]
    BY <2>1, <1>2
  <2>5. \A l \in 1..(k - 1), j \in 1..PageSize : v[Entry(l, j)] = s[l][j]
    BY <2>1, <1>2
  <2> HIDE DEF u, v, w
  <2>6. z \in Seq(S) /\ Len(z) = Len(u)
        /\ \A x \in 1..Len(u) : z[x] = IF x <= Len(v) THEN v[x] ELSE w[x - Len(v)]
    <3>1. /\ z \in Seq(S) /\ Len(z) = Len(v) + Len(w)
          /\ \A x \in 1..(Len(v) + Len(w)) : z[x] = IF x <= Len(v) THEN v[x] ELSE w[x - Len(v)]
      BY <2>2, ConcatProperties
    <3>2. Len(v) + Len(w) = Len(u)
      BY <2>2, <2>3
    <3> HIDE DEF z
    <3> QED BY ONLY <3>1, <3>2
  <2>7. ASSUME NEW x \in 1..Len(u) PROVE z[x] = u[x]
    <3> DEFINE l == BlockOf(x) + 1
               j == ((x - 1) % PageSize) + 1
    <3>1. x \in 1..(k * PageSize)
      BY <2>2
    <3>2. l \in 1..k /\ j \in 1..PageSize /\ x = Entry(l, j)
      BY <3>1, <2>1, EntryOf
    <3> HIDE DEF l, j
    <3>3. u[x] = s[l][j]
      BY <3>2, <2>4
    <3>4. CASE l < k
      <4>1. l \in 1..(k - 1) /\ l \in Nat \ {0} /\ l <= k - 1
        BY <3>2, <3>4, <2>1
      <4>2. Entry(l, j) <= (k - 1) * PageSize
        BY <4>1, <3>2, <2>1, EntryIs
      <4>3. x <= Len(v)
        BY <4>2, <3>2, <2>2
      <4>4. z[x] = v[x]
        BY <4>3, <2>6
      <4>5. v[x] = s[l][j]
        BY <4>1, <3>2, <2>5
      <4> QED BY <4>4, <4>5, <3>3
    <3>5. CASE l = k
      <4>1. x = (k - 1) * PageSize + j
        BY <3>2, <3>5 DEF Entry
      <4>2. ~ (x <= Len(v)) /\ x - Len(v) = j
        <5>1. PICK c \in Nat : c = (k - 1) * PageSize
          BY <2>3
        <5>2. x = c + j /\ Len(v) = c /\ j \in 1..PageSize
          BY <5>1, <4>1, <3>2, <2>2
        <5> QED BY ONLY <5>1, <5>2, <1>1
      <4>3. z[x] = w[j]
        BY <4>2, <2>6
      <4> QED BY <4>3, <3>3, <3>5 DEF w
    <3>6. l < k \/ l = k
      BY <3>2, <2>1
    <3> HIDE DEF z
    <3> QED BY <3>4, <3>5, <3>6
  <2> HIDE DEF z
  <2>8. u = z
    <3>1. u \in [1..Len(u) -> S] /\ z \in [1..Len(u) -> S]
      BY <2>2, <2>6, LenProperties
    <3> QED BY <3>1, <2>7
  <2> QED BY <2>8 DEF u, v, w, z
<1>5. g(1) = s[1]
  <2> DEFINE v == g(0)
  <2>1. g(1) = v \o s[1]
    <3>1. g(1) = g(1 - 1) \o s[1]
      BY <1>1, <1>4
    <3>2. 1 - 1 = 0
      OBVIOUS
    <3> QED BY <3>1, <3>2
  <2>2. v \in Seq(S) /\ Len(v) = 0
    <3>1. 0 \in 0..Len(s) /\ 0 * PageSize = 0
      BY <1>1
    <3> QED BY <3>1, <1>2
  <2>3. s[1] \in Seq(S)
    BY <1>1, <1>3
  <2> HIDE DEF v, g
  <2>4. v = << >>
    BY <2>2, EmptySeq
  <2> QED BY <2>1, <2>3, <2>4, ConcatEmptySeq
<1> QED BY <1>4, <1>5

\* FlattenSeq lays the pages end to end.
LEMMA FlattenIs ==
  ASSUME NEW S, NEW s \in Seq([1..PageSize -> S])
  PROVE  /\ FlattenSeq(s) = Joined(s)
         /\ FlattenSeq(s) \in Seq(S) /\ Len(FlattenSeq(s)) = Len(s) * PageSize
         /\ \A k \in 1..Len(s), j \in 1..PageSize : FlattenSeq(s)[Entry(k, j)] = s[k][j]
<1> DEFINE n == Len(s)
<1>1. n \in Nat /\ n \in 0..n
  BY LenProperties
<1>2. Joined(s) = JoinedTo(s, n)
  BY DEF Joined, JoinedTo
<1>3. /\ JoinedTo(s, n) \in Seq(S) /\ Len(JoinedTo(s, n)) = n * PageSize
      /\ \A k \in 1..n, j \in 1..PageSize : JoinedTo(s, n)[Entry(k, j)] = s[k][j]
  BY <1>1, JoinedToIs
<1>4. FlattenSeq(s) = JoinedTo(s, n)
  <2>1. CASE n = 0
    <3>1. FlattenSeq(s) = s
      BY <2>1 DEF FlattenSeq
    <3>2. s = << >>
      BY <2>1, EmptySeq
    <3>3. JoinedTo(s, n) = << >>
      <4> DEFINE a == JoinedTo(s, n)
      <4>1. a \in Seq(S) /\ Len(a) = 0
        BY <1>1, <1>3, <2>1, PageAssumption
      <4> HIDE DEF a
      <4>2. a = << >>
        BY <4>1, EmptySeq
      <4> QED BY <4>2 DEF a
    <3> QED BY <3>1, <3>2, <3>3
  <2>2. CASE n # 0
    <3> DEFINE F(f) == [i \in 1..n |-> IF i = 1 THEN s[i] ELSE f[i - 1] \o s[i]]
               f == CHOOSE f : f = F(f)
               a == [i \in 1..n |-> JoinedTo(s, i)]
    <3>1. FlattenSeq(s) = f[n]
      BY <2>2 DEF FlattenSeq
    <3>2. \A i \in 1..n : JoinedTo(s, i) = JoinedTo(s, i - 1) \o s[i] /\ JoinedTo(s, 1) = s[1]
      BY JoinedStep
    <3>3. a = F(a)
      <4>1. ASSUME NEW i \in 1..n PROVE a[i] = (IF i = 1 THEN s[i] ELSE a[i - 1] \o s[i])
        <5>1. a[i] = JoinedTo(s, i) /\ (i # 1 => a[i - 1] = JoinedTo(s, i - 1))
          BY <1>1
        <5> HIDE DEF a
        <5> QED BY <5>1, <3>2
      <4>2. a = [i \in 1..n |-> a[i]]
        OBVIOUS
      <4> HIDE DEF a
      <4> QED BY <4>1, <4>2
    <3>4. f = F(f)
      <4> HIDE DEF a, F
      <4> QED BY <3>3
    <3> HIDE DEF f
    <3>5. \A i \in 1..n : f[i] = IF i = 1 THEN s[i] ELSE f[i - 1] \o s[i]
      BY <3>4
    <3> DEFINE G == {i \in 0..n : i >= 1 => f[i] = JoinedTo(s, i)}
    <3>6. 0 \in G
      BY <1>1
    <3>7. ASSUME NEW i \in 1..n, i - 1 \in G PROVE i \in G
      <4>1. i \in 0..n /\ i >= 1
        BY <1>1
      <4>2. f[i] = JoinedTo(s, i)
        <5>1. CASE i = 1
          BY <5>1, <3>2, <3>5
        <5>2. CASE i # 1
          <6>1. f[i - 1] = JoinedTo(s, i - 1)
            BY <5>2, <3>7, <4>1
          <6> QED BY <6>1, <5>2, <3>2, <3>5
        <5> QED BY <5>1, <5>2
      <4> QED BY <4>1, <4>2
    <3> HIDE DEF G
    <3>8. 0..n \subseteq G
      BY <1>1, <3>6, <3>7, IndexInduction
    <3>9. f[n] = JoinedTo(s, n)
      BY <3>8, <1>1, <2>2 DEF G
    <3> QED BY <3>1, <3>9
  <2> QED BY <2>1, <2>2
<1> QED BY <1>2, <1>3, <1>4

\* A longer sequence has the same chunks, and more.
LEMMA ChunksPrefix ==
  ASSUME NEW s \in Seq(Nat), NEW t \in Seq(Nat), IsPrefix(s, t)
  PROVE  ChunksOf(s) \in Seq(Chunk) /\ ChunksOf(t) \in Seq(Chunk) /\ IsPrefix(ChunksOf(s), ChunksOf(t))
<1> DEFINE a == ChunksOf(s)
           b == ChunksOf(t)
<1>1. PageSize \in Nat /\ PageSize >= 2
  BY PageAssumption
<1>2. /\ a \in Seq(Chunk) /\ Len(a) \in Nat /\ Len(a) * PageSize <= Len(s)
      /\ \A i \in 1..Len(a), j \in 1..PageSize : Entry(i, j) \in 1..Len(s) /\ a[i][j] = s[Entry(i, j)]
  BY ChunksAre DEF Chunk
<1>3. /\ b \in Seq(Chunk) /\ Len(b) \in Nat /\ Len(t) < Len(b) * PageSize + PageSize
      /\ \A i \in 1..Len(b), j \in 1..PageSize : Entry(i, j) \in 1..Len(t) /\ b[i][j] = t[Entry(i, j)]
  BY ChunksAre DEF Chunk
<1>4. Len(s) \in Nat /\ Len(t) \in Nat /\ Len(s) <= Len(t) /\ \A i \in 1..Len(s) : s[i] = t[i]
  BY PrefixIs, LenProperties
<1> HIDE DEF a, b
<1>5. Len(a) <= Len(b)
  <2> DEFINE k == Len(a)
             l == Len(b)
  <2> SUFFICES ASSUME l < k PROVE FALSE
    BY <1>2, <1>3
  <2>1. k \in Nat /\ l \in Nat /\ PageSize * k <= Len(s) /\ Len(t) < PageSize * l + PageSize
    <3>1. k \in Nat /\ l \in Nat /\ k * PageSize = PageSize * k /\ l * PageSize = PageSize * l
      BY <1>1, <1>2, <1>3
    <3> QED BY <3>1, <1>2, <1>3
  <2> HIDE DEF k, l
  <2>2. PageSize * l + PageSize <= PageSize * k
    BY <2>1, MulOrder
  <2>3. PageSize * l \in Nat /\ PageSize * k \in Nat
    BY <2>1, <1>1
  <2> QED BY <2>1, <2>2, <2>3, <1>1, <1>4
<1>6. ASSUME NEW i \in 1..Len(a) PROVE a[i] = b[i]
  <2>1. i \in 1..Len(b)
    BY <1>2, <1>3, <1>5
  <2>2. a[i] \in [1..PageSize -> Nat] /\ b[i] \in [1..PageSize -> Nat]
    BY <2>1, <1>2, <1>3, ElementOfSeq DEF Chunk
  <2>3. ASSUME NEW j \in 1..PageSize PROVE a[i][j] = b[i][j]
    <3>1. Entry(i, j) \in 1..Len(s) /\ a[i][j] = s[Entry(i, j)] /\ b[i][j] = t[Entry(i, j)]
      BY <2>1, <1>2, <1>3
    <3> QED BY <3>1, <1>4
  <2>4. PICK f, g : f = a[i] /\ g = b[i]
    OBVIOUS
  <2>5. f \in [1..PageSize -> Nat] /\ g \in [1..PageSize -> Nat] /\ \A j \in 1..PageSize : f[j] = g[j]
    BY <2>2, <2>3, <2>4
  <2>6. f = g
    <3>1. f = [j \in 1..PageSize |-> f[j]] /\ g = [j \in 1..PageSize |-> g[j]]
      BY ONLY <2>5
    <3>2. \A j \in 1..PageSize : f[j] = g[j]
      BY ONLY <2>5
    <3> QED BY ONLY <3>1, <3>2
  <2> QED BY <2>4, <2>6
<1>7. IsPrefix(a, b)
  BY <1>2, <1>3, <1>5, <1>6, PrefixIs
<1> QED BY <1>2, <1>3, <1>7 DEF a, b

\* The key of a match: all tokens but the last.
LEMMA FrontIs ==
  ASSUME NEW S, NEW s \in Seq(S), s # << >>
  PROVE  Front(s) \in Seq(S) /\ Len(Front(s)) = Len(s) - 1 /\ IsPrefix(Front(s), s)
<1>1. Len(s) \in Nat /\ Len(s) # 0
  BY EmptySeq
<1>2. PICK l, a : l = Len(s) - 1 /\ a = SubSeq(s, 1, l)
  OBVIOUS
<1>3. l \in 0..Len(s) /\ a = SubSeq(s, 1, l)
  BY <1>1, <1>2
<1>4. a \in Seq(S) /\ Len(a) = l /\ IsPrefix(a, s)
  <2>1. s \in Seq(S)
    OBVIOUS
  <2> QED BY ONLY <2>1, <1>3, CutIs
<1>5. Front(s) = a
  BY <1>2 DEF Front
<1> QED BY <1>2, <1>4, <1>5

\* A token more.
LEMMA AppendPrefix ==
  ASSUME NEW S, NEW s \in Seq(S), NEW x \in S
  PROVE  Append(s, x) \in Seq(S) /\ Len(Append(s, x)) = Len(s) + 1 /\ IsPrefix(s, Append(s, x))
<1> DEFINE a == Append(s, x)
<1>1. /\ a \in Seq(S) /\ Len(a) = Len(s) + 1 /\ Len(s) \in Nat
      /\ \A i \in 1..Len(s) : a[i] = s[i]
  BY AppendProperties, LenProperties
<1> HIDE DEF a
<1>2. IsPrefix(s, a)
  BY <1>1, PrefixIs
<1> QED BY <1>1, <1>2 DEF a

---------------------------------------------------------------------------
(* The tree of the manager: chunks of tokens, and chunks of KV indices.     *)

TreeOK(t) == IsTree(Chunk, t) /\ \A p \in Known(t) : PageAt(t, p) \in Chunk

\* Chunks are entries a tree may have.
LEMMA ChunkValues ==
  /\ Chunk \subseteq Value /\ Seq(Chunk) \subseteq Seq(Value)
  /\ \A c \in Chunk : Range(c) \subseteq Nat
<1>1. PageSize \in Nat
  BY PageAssumption
<1>2. ASSUME NEW c \in Chunk PROVE c \in Seq(Int) /\ Range(c) \subseteq Nat
  <2>1. c \in [1..PageSize -> Nat]
    BY DEF Chunk
  <2>2. Range(c) \subseteq Nat
    BY <2>1 DEF Range
  <2>3. c \in [1..PageSize -> Int]
    BY <2>1
  <2> QED BY <2>2, <2>3, <1>1
<1>3. Chunk \subseteq Value
  BY <1>2 DEF Value
<1>4. ASSUME NEW s \in Seq(Chunk) PROVE s \in Seq(Value)
  <2>1. Len(s) \in Nat /\ s \in [1..Len(s) -> Chunk]
    BY LenProperties
  <2>2. s \in [1..Len(s) -> Value]
    BY <2>1, <1>3
  <2> QED BY <2>1, <2>2
<1> QED BY <1>2, <1>3, <1>4

\* The indices down to a node, chunk by chunk and one by one.
LEMMA ValueToIs ==
  ASSUME NEW t, TreeOK(t), NEW n \in Nodes(t) \cup {<< >>}
  PROVE  /\ n \in Seq(Chunk) /\ ValueTo(t, n) \in Seq(Chunk) /\ Len(ValueTo(t, n)) = Len(n)
         /\ \A i \in 1..Len(n) : Cut(n, i) \in Known(t) /\ ValueTo(t, n)[i] = PageAt(t, Cut(n, i))
         /\ FlattenSeq(ValueTo(t, n)) \in Seq(Nat)
         /\ Len(FlattenSeq(ValueTo(t, n))) = Len(n) * PageSize
         /\ n = << >> => FlattenSeq(ValueTo(t, n)) = << >>
<1>1. Nodes(t) \in SUBSET (Seq(Chunk) \ {<< >>}) /\ IsTree(Chunk, t)
  BY DEF TreeOK, IsTree
<1>2. n \in Seq(Chunk) /\ Len(n) \in Nat
  BY <1>1, EmptySeq, LenProperties
<1>3. ASSUME NEW i \in 1..Len(n) PROVE Cut(n, i) \in Known(t)
  <2>1. n # << >>
    <3>1. Len(n) # 0
      BY <1>2
    <3> QED BY <3>1, EmptySeq
  <2>2. n \in Nodes(t) /\ n \in Known(t)
    BY <2>1, <1>1, AtNode
  <2>3. Cut(n, i) \in Seq(Chunk) /\ Len(Cut(n, i)) = i /\ IsPrefix(Cut(n, i), n)
    BY <1>2, CutOf
  <2>4. Cut(n, i) # << >>
    BY <2>3, EmptySeq
  <2> QED BY <2>2, <2>3, <2>4, <1>1, KnownPrefix
<1>4. ValueTo(t, n) = [i \in 1..Len(n) |-> PageAt(t, Cut(n, i))]
  BY DEF ValueTo, Cut
<1> DEFINE v == ValueTo(t, n)
<1>5. \A i \in 1..Len(n) : v[i] = PageAt(t, Cut(n, i)) /\ v[i] \in Chunk
  BY <1>3, <1>4 DEF TreeOK
<1>6. v \in Seq(Chunk) /\ Len(v) = Len(n)
  <2>1. v = [i \in 1..Len(n) |-> v[i]]
    BY <1>4
  <2> HIDE DEF v
  <2> QED BY <1>2, <1>5, <2>1
<1> HIDE DEF v
<1>7. FlattenSeq(v) \in Seq(Nat) /\ Len(FlattenSeq(v)) = Len(n) * PageSize
  BY <1>6, FlattenIs DEF Chunk
<1>8. n = << >> => FlattenSeq(v) = << >>
  <2> SUFFICES ASSUME n = << >> PROVE FlattenSeq(v) = << >>
    OBVIOUS
  <2>1. Len(v) = 0 /\ v = << >>
    BY <1>6, EmptySeq
  <2> QED BY <2>1 DEF FlattenSeq
<1> QED BY <1>2, <1>3, <1>5, <1>6, <1>7, <1>8 DEF v

---------------------------------------------------------------------------
(* The manager's invariant.                                                 *)

RecordsOf(r) ==
  [state : {"waiting", "matched", "running", "done"},
   tokens : Seq(Range(Prompt[r]) \cup Tokens), req_pool_idx : Rows \cup {-1},
   last_node : Seq(Chunk), prefix_indices : Seq(Nat), matches : Nat, seq_len : Nat]

\* The fields of a request.  A waiting one has its prompt, nothing of it in a row and no
\* node locked; the prefix of every one is shorter than its prompt; a running one has a
\* row, and its row is at most one token away from what the host knows.
RequestOK(r, x) ==
  /\ x \in RecordsOf(r)
  /\ Len(Prompt[r]) <= Len(x.tokens) /\ Len(x.tokens) <= Len(Prompt[r]) + MaxOutput
  /\ Len(x.last_node) * PageSize < Len(Prompt[r])
  /\ IsPrefix(x.last_node, ChunksOf(x.tokens))
  /\ x.state \in {"waiting", "done"} => x.last_node = << >>
  /\ x.state # "running" => x.tokens = Prompt[r] /\ x.seq_len = 0
  /\ x.state = "running" =>
       /\ x.req_pool_idx \in Rows
       /\ x.seq_len \in Len(Prompt[r])..(Len(Prompt[r]) + MaxOutput)
       /\ x.seq_len \in (Len(x.tokens) - 1)..(Len(x.tokens) + 1)

\* The node a request has locked is in the tree, with the indices the request was given.
PrefixAt(t, x) ==
  /\ x.last_node \in Nodes(t) \cup {<< >>}
  /\ x.prefix_indices = FlattenSeq(ValueTo(t, x.last_node))

\* Every node is locked once for each request on it.
Holding(q, n) == {r \in Requests : IsPrefix(n, q[r].last_node)}
Locked(t, q)  == \A n \in Nodes(t) : t.lock[n] >= Cardinality(Holding(q, n))

RequestsOK(t, q) ==
  /\ q = [r \in Requests |-> q[r]]
  /\ \A r \in Requests : RequestOK(r, q[r]) /\ PrefixAt(t, q[r])
  /\ Locked(t, q)

TableOK(m) == m \in [Rows -> [1..MaxLen -> Nat]]

\* Rows begin with the prefixes of the requests in them.
Begins(q, m) ==
  \A r \in Requests : q[r].state = "running" =>
    \A x \in 1..Len(q[r].prefix_indices) : m[q[r].req_pool_idx][x] = q[r].prefix_indices[x]

\* Every row is free once or belongs to one running request.
SlotsOK(run, free, q) ==
  /\ run \in Seq(Requests) /\ IsInjective(run) /\ Range(run) = {r \in Requests : q[r].state = "running"}
  /\ free \in Seq(Rows) /\ IsInjective(free)
  /\ Range(free) \cup {q[r].req_pool_idx : r \in Range(run)} = Rows
  /\ \A r \in Range(run) : q[r].req_pool_idx \notin Range(free)
  /\ \A r, s \in Range(run) : q[r].req_pool_idx = q[s].req_pool_idx => r = s
  /\ Len(free) + Len(run) = MaxRequests

ManagerInv ==
  /\ free_pages \subseteq Pages
  /\ TableOK(req_to_token)
  /\ TreeOK(tree)
  /\ RequestsOK(tree, req)
  /\ Begins(req, req_to_token)
  /\ SlotsOK(running, free_slots, req)

---------------------------------------------------------------------------
(* The tree keeps what requests have locked.                                *)

\* Requests hold only nodes of the tree, and a node below a known path is held by as many
\* requests as the path at most.
LEMMA HeldCount ==
  ASSUME NEW t, TreeOK(t), NEW q, \A r \in Requests : q[r].last_node \in Nodes(t) \cup {<< >>},
         Locked(t, q), NEW m \in Seq(Chunk) \ {<< >>}
  PROVE  /\ IsFiniteSet(Holding(q, m)) /\ Cardinality(Holding(q, m)) \in Nat
         /\ m \in Known(t) => Cardinality(Holding(q, m)) <= t.lock[At(t, m)] /\ t.lock[At(t, m)] \in Nat
         /\ m \notin Known(t) => Holding(q, m) = {}
<1>1. Nodes(t) \in SUBSET (Seq(Chunk) \ {<< >>}) /\ IsTree(Chunk, t) /\ Meets(Chunk, Nodes(t))
      /\ t.lock \in [Nodes(t) -> Nat]
  BY DEF TreeOK, IsTree
<1>2. \A n : IsFiniteSet(Holding(q, n)) /\ Cardinality(Holding(q, n)) \in Nat
  <2> TAKE n
  <2>1. Holding(q, n) \subseteq Requests
    BY DEF Holding
  <2>2. IsFiniteSet(Holding(q, n))
    BY <2>1, ManagerAssumption, FS_Subset
  <2> QED BY <2>2, FS_CardinalityType
<1>3. ASSUME NEW r \in Holding(q, m) PROVE q[r].last_node \in Nodes(t) /\ IsPrefix(m, q[r].last_node)
  <2>1. r \in Requests /\ IsPrefix(m, q[r].last_node)
    BY <1>3 DEF Holding
  <2>2. q[r].last_node # << >>
    BY <2>1, PrefixEmpty
  <2> QED BY <2>1, <2>2
<1>4. ASSUME m \in Known(t)
      PROVE  Cardinality(Holding(q, m)) <= t.lock[At(t, m)] /\ t.lock[At(t, m)] \in Nat
  <2> DEFINE c == At(t, m)
  <2>1. c \in Nodes(t) /\ \A n \in Nodes(t) : IsPrefix(m, n) => IsPrefix(c, n)
    BY <1>1, <1>4, AtIs
  <2> HIDE DEF c
  <2>2. Holding(q, m) \subseteq Holding(q, c)
    <3> SUFFICES ASSUME NEW r \in Holding(q, m) PROVE r \in Holding(q, c)
      OBVIOUS
    <3>1. r \in Requests /\ IsPrefix(c, q[r].last_node)
      BY <1>3, <2>1 DEF Holding
    <3> QED BY <3>1 DEF Holding
  <2>3. Cardinality(Holding(q, m)) <= Cardinality(Holding(q, c))
    BY <2>2, <1>2, FS_Subset
  <2>4. t.lock[c] \in Nat /\ t.lock[c] >= Cardinality(Holding(q, c))
    BY <2>1, <1>1 DEF Locked
  <2> QED BY <2>3, <2>4, <1>2 DEF c
<1>5. ASSUME m \notin Known(t) PROVE Holding(q, m) = {}
  <2> SUFFICES ASSUME NEW r \in Holding(q, m) PROVE FALSE
    OBVIOUS
  <2>1. q[r].last_node \in Nodes(t) /\ IsPrefix(m, q[r].last_node)
    BY <1>3
  <2>2. m \in Known(t)
    BY <2>1, <1>1, KnownIs
  <2> QED BY <2>2, <1>5
<1> QED BY <1>2, <1>4, <1>5

\* A prefix stays as long as its node and the pages on the way do.
LEMMA PrefixStaysAt ==
  ASSUME NEW t, TreeOK(t), NEW u, NEW x, PrefixAt(t, x), x.last_node \in Nodes(u) \cup {<< >>},
         \A p \in Known(t) : IsPrefix(p, x.last_node) => PageAt(u, p) = PageAt(t, p)
  PROVE  PrefixAt(u, x)
<1> DEFINE n == x.last_node
<1>1. n \in Nodes(t) \cup {<< >>} /\ x.prefix_indices = FlattenSeq(ValueTo(t, n))
  BY DEF PrefixAt
<1> HIDE DEF n
<1>2. n \in Seq(Chunk) /\ Len(n) \in Nat /\ \A i \in 1..Len(n) : Cut(n, i) \in Known(t)
  BY <1>1, ValueToIs, LenProperties
<1>3. \A i \in 1..Len(n) : PageAt(u, Cut(n, i)) = PageAt(t, Cut(n, i))
  <2> TAKE i \in 1..Len(n)
  <2>1. IsPrefix(Cut(n, i), n)
    BY <1>2, CutOf
  <2> QED BY <2>1, <1>2 DEF n
<1>4. ValueTo(u, n) = ValueTo(t, n)
  BY <1>3 DEF ValueTo, Cut
<1> QED BY <1>1, <1>4 DEF PrefixAt, n

\* What a match does to the tree: the matched path becomes a node, and it and the nodes
\* above it are locked once more.
LEMMA MatchStep ==
  ASSUME NEW t, TreeOK(t), NEW key \in Seq(Chunk), NEW n, n = Matched(t, key),
         NEW w, w = Walk(t, key), NEW u, u = IncLock(w, n)
  PROVE  /\ n \in Seq(Chunk) /\ IsPrefix(n, key)
         /\ TreeOK(u) /\ Nodes(u) = Nodes(t) \cup ({n} \ {<< >>}) /\ Known(u) = Known(t)
         /\ \A p \in Known(t) : PageAt(u, p) = PageAt(t, p)
         /\ \A m \in Nodes(u) : u.lock[m] = IF IsPrefix(m, n) THEN t.lock[At(t, m)] + 1
                                                              ELSE t.lock[At(t, m)]
         /\ ValueTo(w, n) = ValueTo(u, n)
<1>1. IsTree(Chunk, t) /\ Nodes(t) \in SUBSET (Seq(Chunk) \ {<< >>})
  BY DEF TreeOK, IsTree
<1>2. n \in Seq(Chunk) /\ IsPrefix(n, key)
  BY <1>1, MatchedIs
<1>3. Walked(Chunk, t, n, w)
  BY <1>1, WalkIs
<1>4. n \in Nodes(w) \cup {<< >>} /\ IsTree(Chunk, w) /\ Nodes(w) = Nodes(t) \cup ({n} \ {<< >>})
      /\ Known(w) = Known(t)
  BY <1>3 DEF Walked
<1>5. PICK k : Relocked(Chunk, w, n, 1, k, u)
  BY <1>4, IncLockIs
<1>6. /\ IsTree(Chunk, u) /\ Nodes(u) = Nodes(w) /\ Known(u) = Known(w)
      /\ \A p : PageAt(u, p) = PageAt(w, p)
      /\ \A m \in Nodes(w) : u.lock[m] = (IF IsPrefix(m, n) THEN w.lock[m] + 1 ELSE w.lock[m])
  BY <1>5 DEF Relocked
<1>7. (\A p \in Known(t) : PageAt(w, p) = PageAt(t, p)) /\ \A m \in Nodes(w) : w.lock[m] = t.lock[At(t, m)]
  BY <1>3 DEF Walked
<1>8. TreeOK(u)
  BY <1>4, <1>6, <1>7 DEF TreeOK
<1>9. ValueTo(w, n) = ValueTo(u, n)
  BY <1>6 DEF ValueTo
<1> QED BY <1>2, <1>4, <1>6, <1>7, <1>8, <1>9

---------------------------------------------------------------------------
(* A request step by step.                                                  *)

\* What a request's tokens are.
LEMMA TokensOf ==
  ASSUME NEW r \in Requests
  PROVE  /\ Prompt[r] \in Seq(Nat) /\ Prompt[r] # << >> /\ Len(Prompt[r]) \in Nat \ {0}
         /\ Range(Prompt[r]) \cup Tokens \subseteq Nat
         /\ Prompt[r] \in Seq(Range(Prompt[r]) \cup Tokens)
         /\ Seq(Range(Prompt[r]) \cup Tokens) \subseteq Seq(Nat)
<1> DEFINE V == Range(Prompt[r]) \cup Tokens
<1>1. Prompt[r] \in Seq(Nat) /\ Prompt[r] # << >> /\ Tokens \subseteq Nat
  BY ManagerAssumption
<1> DEFINE s == Prompt[r]
<1>2. s \in Seq(Nat) /\ s # << >> /\ Len(s) \in Nat \ {0} /\ s \in [1..Len(s) -> Nat] /\ DOMAIN s = 1..Len(s)
  BY <1>1, EmptySeq, LenProperties
<1> HIDE DEF s
<1>3. Range(s) \subseteq Nat /\ \A i \in 1..Len(s) : s[i] \in Range(s)
  BY <1>2 DEF Range
<1>4. V \subseteq Nat
  BY <1>1, <1>3 DEF s
<1>5. s \in Seq(V)
  <2>1. \A i \in 1..Len(s) : s[i] \in V
    BY <1>3 DEF s
  <2> HIDE DEF V
  <2>2. s \in [1..Len(s) -> V]
    BY <2>1, <1>2
  <2> QED BY <2>2, <1>2
<1> HIDE DEF V
<1>6. ASSUME NEW x \in Seq(V) PROVE x \in Seq(Nat)
  <2>1. Len(x) \in Nat /\ x \in [1..Len(x) -> V]
    BY LenProperties
  <2>2. x \in [1..Len(x) -> Nat]
    BY <2>1, <1>4
  <2> QED BY <2>1, <2>2
<1> QED BY <1>2, <1>4, <1>5, <1>6 DEF s, V

\* A record of a request, field by field.
Fields(x, st, tk, ix, ln, pre, mt, sl) ==
  x = [state |-> st, tokens |-> tk, req_pool_idx |-> ix, last_node |-> ln,
       prefix_indices |-> pre, matches |-> mt, seq_len |-> sl]

\* The types of the fields.
FieldsIn(r, st, tk, ix, ln, pre, mt, sl) ==
  /\ st \in {"waiting", "matched", "running", "done"}
  /\ tk \in Seq(Range(Prompt[r]) \cup Tokens) /\ ix \in Rows \cup {-1} /\ ln \in Seq(Chunk)
  /\ pre \in Seq(Nat) /\ mt \in Nat /\ sl \in Nat

\* A request is its fields.
LEMMA FieldsOf ==
  ASSUME NEW r, NEW x \in RecordsOf(r)
  PROVE  /\ Fields(x, x.state, x.tokens, x.req_pool_idx, x.last_node, x.prefix_indices, x.matches, x.seq_len)
         /\ FieldsIn(r, x.state, x.tokens, x.req_pool_idx, x.last_node, x.prefix_indices, x.matches, x.seq_len)
         /\ x.state \in {"waiting", "matched", "running", "done"}
         /\ x.tokens \in Seq(Range(Prompt[r]) \cup Tokens) /\ x.req_pool_idx \in Rows \cup {-1}
         /\ x.last_node \in Seq(Chunk) /\ x.prefix_indices \in Seq(Nat) /\ x.matches \in Nat
         /\ x.seq_len \in Nat
<1> DEFINE V == Seq(Range(Prompt[r]) \cup Tokens)
           I == Rows \cup {-1}
           C == Seq(Chunk)
           N == Seq(Nat)
<1>1. x \in [state : {"waiting", "matched", "running", "done"}, tokens : V, req_pool_idx : I,
             last_node : C, prefix_indices : N, matches : Nat, seq_len : Nat]
  BY DEF RecordsOf
<1> HIDE DEF V, I, C, N
<1>2. /\ x = [state |-> x.state, tokens |-> x.tokens, req_pool_idx |-> x.req_pool_idx,
              last_node |-> x.last_node, prefix_indices |-> x.prefix_indices, matches |-> x.matches,
              seq_len |-> x.seq_len]
      /\ x.state \in {"waiting", "matched", "running", "done"} /\ x.tokens \in V /\ x.req_pool_idx \in I
      /\ x.last_node \in C /\ x.prefix_indices \in N /\ x.matches \in Nat /\ x.seq_len \in Nat
  BY ONLY <1>1
<1> QED BY <1>2 DEF V, I, C, N, Fields, FieldsIn

\* Records are requests when their fields are.
LEMMA FieldsAre ==
  ASSUME NEW r, NEW x, NEW st, NEW tk, NEW ix, NEW ln, NEW pre, NEW mt, NEW sl,
         Fields(x, st, tk, ix, ln, pre, mt, sl)
  PROVE  /\ x.state = st /\ x.tokens = tk /\ x.req_pool_idx = ix /\ x.last_node = ln
         /\ x.prefix_indices = pre /\ x.matches = mt /\ x.seq_len = sl
         /\ FieldsIn(r, st, tk, ix, ln, pre, mt, sl) => x \in RecordsOf(r)
<1> DEFINE V == Seq(Range(Prompt[r]) \cup Tokens)
           I == Rows \cup {-1}
           C == Seq(Chunk)
           N == Seq(Nat)
           T == {"waiting", "matched", "running", "done"}
<1>1. x = [state |-> st, tokens |-> tk, req_pool_idx |-> ix, last_node |-> ln,
           prefix_indices |-> pre, matches |-> mt, seq_len |-> sl]
  BY DEF Fields
<1>2. /\ x.state = st /\ x.tokens = tk /\ x.req_pool_idx = ix /\ x.last_node = ln
      /\ x.prefix_indices = pre /\ x.matches = mt /\ x.seq_len = sl
  BY ONLY <1>1
<1>3. ASSUME FieldsIn(r, st, tk, ix, ln, pre, mt, sl)
      PROVE  x \in RecordsOf(r)
  <2>0. st \in T /\ tk \in V /\ ix \in I /\ ln \in C /\ pre \in N /\ mt \in Nat /\ sl \in Nat
    BY <1>3 DEF FieldsIn
  <2> HIDE DEF V, I, C, N, T
  <2>1. x \in [state : T, tokens : V, req_pool_idx : I, last_node : C, prefix_indices : N,
               matches : Nat, seq_len : Nat]
    BY ONLY <1>1, <2>0
  <2> QED BY <2>1 DEF RecordsOf, V, I, C, N, T
<1> QED BY <1>2, <1>3

\* A match is one of the prompt without its last token.
LEMMA MatchRequest ==
  ASSUME NEW r \in Requests, NEW x, RequestOK(r, x), x.state \in {"waiting", "matched"},
         NEW n \in Seq(Chunk), IsPrefix(n, ChunksOf(Front(x.tokens))), NEW pre \in Seq(Nat),
         NEW y, y = [x EXCEPT !.state = "matched", !.last_node = n, !.prefix_indices = pre, !.matches = @ + 1]
  PROVE  /\ RequestOK(r, y)
         /\ Fields(y, "matched", x.tokens, x.req_pool_idx, n, pre, x.matches + 1, x.seq_len)
<1> DEFINE s == x.tokens
           f == Front(s)
           key == ChunksOf(f)
<1>1. x \in RecordsOf(r) /\ s = Prompt[r] /\ x.seq_len = 0
  BY DEF RequestOK
<1>2. /\ Fields(x, x.state, x.tokens, x.req_pool_idx, x.last_node, x.prefix_indices, x.matches, x.seq_len)
      /\ x.req_pool_idx \in Rows \cup {-1} /\ x.matches \in Nat
  BY <1>1, FieldsOf
<1>3. Fields(y, "matched", x.tokens, x.req_pool_idx, n, pre, x.matches + 1, x.seq_len)
  BY <1>2 DEF Fields
<1>4. /\ y.state = "matched" /\ y.tokens = s /\ y.last_node = n /\ y.seq_len = 0
      /\ y \in RecordsOf(r)
  <2> DEFINE k == x.matches + 1
             i == x.req_pool_idx
  <2>1. Prompt[r] \in Seq(Range(Prompt[r]) \cup Tokens)
    BY TokensOf
  <2>2. s \in Seq(Range(Prompt[r]) \cup Tokens)
    BY <2>1, <1>1
  <2>3. k \in Nat /\ i \in Rows \cup {-1}
    BY <1>2
  <2>4. Fields(y, "matched", s, i, n, pre, k, 0)
    BY <1>1, <1>3
  <2> HIDE DEF s, k, i
  <2>5. FieldsIn(r, "matched", s, i, n, pre, k, 0)
    BY <2>2, <2>3 DEF FieldsIn
  <2>6. /\ y.state = "matched" /\ y.tokens = s /\ y.last_node = n /\ y.seq_len = 0
        /\ FieldsIn(r, "matched", s, i, n, pre, k, 0) => y \in RecordsOf(r)
    BY ONLY <2>4, FieldsAre
  <2> QED BY ONLY <2>5, <2>6
<1>5. s \in Seq(Nat) /\ s # << >> /\ Len(s) \in Nat
  BY <1>1, TokensOf
<1> HIDE DEF s
<1>6. f \in Seq(Nat) /\ Len(f) = Len(s) - 1 /\ IsPrefix(f, s)
  BY <1>5, FrontIs
<1> HIDE DEF f
<1>7. /\ key \in Seq(Chunk) /\ Len(key) * PageSize <= Len(f) /\ IsPrefix(key, ChunksOf(s))
      /\ ChunksOf(s) \in Seq(Chunk) /\ Len(key) \in Nat
  BY <1>5, <1>6, ChunksAre, ChunksPrefix
<1>8. IsPrefix(n, key)
  BY DEF s, f
<1> HIDE DEF key
<1>9. IsPrefix(n, ChunksOf(s))
  BY <1>7, <1>8, PrefixTrans
<1>10. Len(n) * PageSize < Len(s)
  <2> DEFINE k == Len(n)
             l == Len(key)
  <2>1. k \in Nat /\ l \in Nat /\ k <= l
    BY <1>7, <1>8, PrefixOrder, LenProperties
  <2>2. l * PageSize <= Len(s) - 1
    BY <1>6, <1>7
  <2> HIDE DEF k, l
  <2>3. PageSize * k <= PageSize * l /\ PageSize * k = k * PageSize /\ PageSize * l = l * PageSize
        /\ PageSize * k \in Nat /\ PageSize * l \in Nat
    BY <2>1, MulMono, PageAssumption
  <2> QED BY <2>2, <2>3, <1>5 DEF k
<1>11. Len(Prompt[r]) <= Len(s) /\ Len(s) = Len(Prompt[r])
  BY <1>1, <1>5 DEF s
<1>12. RequestOK(r, y)
  BY <1>1, <1>4, <1>9, <1>10, <1>11 DEF RequestOK, s
<1> QED BY <1>3, <1>12

\* A match gets a row as long as the tokens the host knows.
LEMMA ExtendRequest ==
  ASSUME NEW r \in Requests, NEW x, RequestOK(r, x), x.state = "matched", NEW j \in Rows,
         NEW y, y = [x EXCEPT !.state = "running", !.seq_len = Len(x.tokens), !.req_pool_idx = j]
  PROVE  /\ RequestOK(r, y)
         /\ Fields(y, "running", x.tokens, j, x.last_node, x.prefix_indices, x.matches, Len(x.tokens))
<1> DEFINE s == x.tokens
           l == Len(s)
           n == x.last_node
           k == x.matches
           pre == x.prefix_indices
<1>1. x \in RecordsOf(r) /\ s = Prompt[r] /\ Len(n) * PageSize < Len(Prompt[r]) /\ IsPrefix(n, ChunksOf(s))
  BY DEF RequestOK
<1>2. /\ Fields(x, x.state, s, x.req_pool_idx, n, pre, k, x.seq_len)
      /\ FieldsIn(r, x.state, s, x.req_pool_idx, n, pre, k, x.seq_len)
  BY <1>1, FieldsOf
<1>3. l \in Nat \ {0} /\ MaxOutput \in Nat /\ l = Len(Prompt[r])
  BY <1>1, TokensOf, ManagerAssumption
<1>4. Fields(y, "running", s, j, n, pre, k, l)
  BY <1>2 DEF Fields
<1>5. FieldsIn(r, "running", s, j, n, pre, k, l)
  BY <1>2, <1>3 DEF FieldsIn
<1> HIDE DEF s, l, n, k, pre
<1>6. /\ y.state = "running" /\ y.tokens = s /\ y.req_pool_idx = j /\ y.last_node = n /\ y.seq_len = l
      /\ FieldsIn(r, "running", s, j, n, pre, k, l) => y \in RecordsOf(r)
  BY ONLY <1>4, FieldsAre
<1>7. y \in RecordsOf(r)
  BY <1>5, <1>6
<1>8. l \in Len(Prompt[r])..(Len(Prompt[r]) + MaxOutput) /\ l \in (l - 1)..(l + 1) /\ l = Len(s)
  BY <1>3 DEF l
<1>9. RequestOK(r, y)
  BY <1>1, <1>3, <1>6, <1>7, <1>8 DEF RequestOK
<1> QED BY <1>4, <1>9 DEF s, l, n, k, pre

\* A row grows.
LEMMA DecodeRequest ==
  ASSUME NEW r \in Requests, NEW x, RequestOK(r, x), x.state = "running",
         x.seq_len <= Len(x.tokens), x.seq_len + 1 < Len(Prompt[r]) + MaxOutput,
         NEW y, y = [x EXCEPT !.seq_len = @ + 1]
  PROVE  /\ RequestOK(r, y)
         /\ Fields(y, "running", x.tokens, x.req_pool_idx, x.last_node, x.prefix_indices, x.matches, x.seq_len + 1)
<1> DEFINE s == x.tokens
           l == x.seq_len
           m == l + 1
           n == x.last_node
           k == x.matches
           j == x.req_pool_idx
           pre == x.prefix_indices
<1>1. /\ x \in RecordsOf(r) /\ Len(Prompt[r]) <= Len(s) /\ Len(n) * PageSize < Len(Prompt[r])
      /\ IsPrefix(n, ChunksOf(s)) /\ j \in Rows
      /\ l \in Len(Prompt[r])..(Len(Prompt[r]) + MaxOutput) /\ l \in (Len(s) - 1)..(Len(s) + 1)
  BY DEF RequestOK
<1>2. /\ Fields(x, x.state, s, j, n, pre, k, l)
      /\ FieldsIn(r, x.state, s, j, n, pre, k, l)
  BY <1>1, FieldsOf
<1>3. l \in Nat /\ Len(s) \in Nat /\ Len(Prompt[r]) \in Nat \ {0} /\ MaxOutput \in Nat
      /\ l <= Len(s) /\ l + 1 < Len(Prompt[r]) + MaxOutput
  BY <1>2, TokensOf, ManagerAssumption, LenProperties DEF FieldsIn
<1>4. Fields(y, "running", s, j, n, pre, k, m)
  BY <1>2 DEF Fields
<1>5. FieldsIn(r, "running", s, j, n, pre, k, m)
  BY <1>2, <1>3 DEF FieldsIn
<1>6. m \in Len(Prompt[r])..(Len(Prompt[r]) + MaxOutput) /\ m \in (Len(s) - 1)..(Len(s) + 1)
  BY <1>1, <1>3
<1> HIDE DEF s, l, m, n, k, pre, j
<1>7. /\ y.state = "running" /\ y.tokens = s /\ y.req_pool_idx = j /\ y.last_node = n /\ y.seq_len = m
      /\ FieldsIn(r, "running", s, j, n, pre, k, m) => y \in RecordsOf(r)
  BY ONLY <1>4, FieldsAre
<1>8. y \in RecordsOf(r)
  BY <1>5, <1>7
<1>9. RequestOK(r, y)
  BY <1>1, <1>6, <1>7, <1>8 DEF RequestOK
<1> QED BY <1>4, <1>9 DEF s, l, m, n, k, pre, j

\* The result of a forward pass.
LEMMA AppendRequest ==
  ASSUME NEW r \in Requests, NEW x, RequestOK(r, x), x.state = "running", NEW t \in Tokens,
         Len(x.tokens) <= x.seq_len, Len(x.tokens) < Len(Prompt[r]) + MaxOutput,
         NEW y, y = [x EXCEPT !.tokens = Append(@, t)]
  PROVE  /\ RequestOK(r, y) /\ Len(Append(x.tokens, t)) = Len(x.tokens) + 1
         /\ Fields(y, "running", Append(x.tokens, t), x.req_pool_idx, x.last_node, x.prefix_indices,
                   x.matches, x.seq_len)
<1> DEFINE s == x.tokens
           u == Append(s, t)
           l == x.seq_len
           n == x.last_node
           k == x.matches
           j == x.req_pool_idx
           pre == x.prefix_indices
           V == Range(Prompt[r]) \cup Tokens
<1>1. /\ x \in RecordsOf(r) /\ Len(Prompt[r]) <= Len(s) /\ Len(n) * PageSize < Len(Prompt[r])
      /\ IsPrefix(n, ChunksOf(s)) /\ j \in Rows
      /\ l \in Len(Prompt[r])..(Len(Prompt[r]) + MaxOutput) /\ l \in (Len(s) - 1)..(Len(s) + 1)
  BY DEF RequestOK
<1>2. /\ Fields(x, x.state, s, j, n, pre, k, l)
      /\ FieldsIn(r, x.state, s, j, n, pre, k, l)
  BY <1>1, FieldsOf
<1>3. s \in Seq(V) /\ t \in V /\ l \in Nat /\ n \in Seq(Chunk) /\ Seq(V) \subseteq Seq(Nat)
      /\ Len(Prompt[r]) \in Nat
  BY <1>2, TokensOf DEF FieldsIn
<1>4. Fields(y, "running", u, j, n, pre, k, l)
  BY <1>2 DEF Fields
<1> HIDE DEF s, l, n, k, pre, j, V
<1>5. u \in Seq(V) /\ Len(u) = Len(s) + 1 /\ IsPrefix(s, u) /\ Len(s) \in Nat
  BY <1>3, AppendPrefix, LenProperties
<1>6. FieldsIn(r, "running", u, j, n, pre, k, l)
  BY <1>2, <1>5 DEF FieldsIn, V
<1>7. l \in (Len(u) - 1)..(Len(u) + 1) /\ Len(Prompt[r]) <= Len(u) /\ Len(u) <= Len(Prompt[r]) + MaxOutput
  <2>1. Len(s) <= l /\ Len(s) < Len(Prompt[r]) + MaxOutput
    BY DEF s, l
  <2>2. MaxOutput \in Nat
    BY ManagerAssumption
  <2> QED BY <2>1, <2>2, <1>1, <1>3, <1>5
<1> HIDE DEF u
<1>8. IsPrefix(n, ChunksOf(u))
  <2>1. s \in Seq(Nat) /\ u \in Seq(Nat)
    BY <1>3, <1>5
  <2>2. ChunksOf(s) \in Seq(Chunk) /\ ChunksOf(u) \in Seq(Chunk) /\ IsPrefix(ChunksOf(s), ChunksOf(u))
    BY <2>1, <1>5, ChunksPrefix
  <2> QED BY <2>2, <1>1, <1>3, PrefixTrans
<1>9. /\ y.state = "running" /\ y.tokens = u /\ y.req_pool_idx = j /\ y.last_node = n /\ y.seq_len = l
      /\ FieldsIn(r, "running", u, j, n, pre, k, l) => y \in RecordsOf(r)
  BY ONLY <1>4, FieldsAre
<1>10. y \in RecordsOf(r)
  BY <1>6, <1>9
<1>11. RequestOK(r, y)
  BY <1>1, <1>7, <1>8, <1>9, <1>10 DEF RequestOK
<1> QED BY <1>4, <1>5, <1>11 DEF s, l, n, k, pre, j, u

\* A request that is not in the engine, or waits again, or is done.
LEMMA FreshRequest ==
  ASSUME NEW r \in Requests, NEW k \in Nat, NEW y,
         y \in {Fresh(r), [Fresh(r) EXCEPT !.state = "done"], [Fresh(r) EXCEPT !.matches = k]}
  PROVE  /\ RequestOK(r, y) /\ y.state \in {"waiting", "done"}
         /\ y.last_node = << >> /\ y.prefix_indices = << >> /\ y.seq_len = 0
         /\ \A t : PrefixAt(t, y)
<1> DEFINE s == Prompt[r]
           e == << >>
<1>1. /\ s \in Seq(Range(Prompt[r]) \cup Tokens) /\ s \in Seq(Nat) /\ Len(s) \in Nat \ {0}
  BY TokensOf
<1>2. e \in Seq(Chunk) /\ e \in Seq(Nat) /\ Len(e) = 0
  BY EmptySeq
<1>3. PICK st, mt : /\ st \in {"waiting", "done"} /\ mt \in Nat
                    /\ Fields(y, st, s, -1, e, e, mt, 0)
  BY DEF Fresh, Fields
<1> HIDE DEF s, e
<1>4. FieldsIn(r, st, s, -1, e, e, mt, 0)
  BY <1>1, <1>2, <1>3 DEF FieldsIn
<1>5. /\ y.state = st /\ y.tokens = s /\ y.last_node = e /\ y.prefix_indices = e /\ y.seq_len = 0
      /\ FieldsIn(r, st, s, -1, e, e, mt, 0) => y \in RecordsOf(r)
  BY ONLY <1>3, FieldsAre
<1>6. Len(e) * PageSize < Len(s) /\ IsPrefix(e, ChunksOf(s)) /\ Len(s) <= Len(s)
      /\ Len(s) <= Len(s) + MaxOutput
  <2>1. ChunksOf(s) \in Seq(Chunk)
    BY <1>1, ChunksAre DEF Chunk
  <2>2. IsPrefix(e, ChunksOf(s))
    BY <2>1, PrefixEmpty DEF e
  <2>3. Len(e) * PageSize = 0
    BY <1>2, PageAssumption
  <2>4. MaxOutput \in Nat
    BY ManagerAssumption
  <2> QED BY <2>2, <2>3, <2>4, <1>1
<1>7. RequestOK(r, y)
  BY <1>3, <1>4, <1>5, <1>6 DEF RequestOK, s, e
<1>8. ASSUME NEW t PROVE PrefixAt(t, y)
  <2>1. ValueTo(t, << >>) = << >>
    <3>1. Len(<< >>) = 0 /\ 1..0 = {}
      OBVIOUS
    <3> QED BY <3>1 DEF ValueTo
  <2>2. FlattenSeq(<< >>) = << >>
    BY DEF FlattenSeq
  <2> QED BY <2>1, <2>2, <1>5 DEF PrefixAt, e
<1> QED BY <1>3, <1>5, <1>7, <1>8 DEF e

---------------------------------------------------------------------------
(* The steps of the manager.                                                *)

\* How many requests hold a path when one of them changes its node.
LEMMA HoldingChange ==
  ASSUME NEW q, NEW h, NEW r \in Requests, NEW m,
         \A p \in Requests \ {r} : h[p].last_node = q[p].last_node
  PROVE  /\ Cardinality(Holding(q, m)) \in Nat /\ Cardinality(Holding(h, m)) \in Nat
         /\ Cardinality(Holding(h, m)) <= Cardinality(Holding(q, m)) + 1
         /\ ~ IsPrefix(m, h[r].last_node) => Cardinality(Holding(h, m)) <= Cardinality(Holding(q, m))
         /\ IsPrefix(m, q[r].last_node) /\ ~ IsPrefix(m, h[r].last_node) =>
              Cardinality(Holding(h, m)) <= Cardinality(Holding(q, m)) - 1
<1> DEFINE A == Holding(q, m)
           B == Holding(h, m)
<1>1. A \subseteq Requests /\ B \subseteq Requests
  BY DEF Holding
<1>2. IsFiniteSet(A) /\ IsFiniteSet(B) /\ Cardinality(A) \in Nat /\ Cardinality(B) \in Nat
  BY <1>1, ManagerAssumption, FS_Subset, FS_CardinalityType
<1>3. B \ {r} \subseteq A \ {r}
  BY DEF Holding
<1>4. (r \in A <=> IsPrefix(m, q[r].last_node)) /\ (r \in B <=> IsPrefix(m, h[r].last_node))
  BY DEF Holding
<1> HIDE DEF A, B
<1>5. IsFiniteSet(A \ {r}) /\ Cardinality(A \ {r}) = IF r \in A THEN Cardinality(A) - 1 ELSE Cardinality(A)
  BY <1>2, FS_RemoveElement
<1>6. IsFiniteSet(B \ {r}) /\ Cardinality(B \ {r}) = IF r \in B THEN Cardinality(B) - 1 ELSE Cardinality(B)
  BY <1>2, FS_RemoveElement
<1>7. Cardinality(B \ {r}) <= Cardinality(A \ {r})
  BY <1>3, <1>5, FS_Subset
<1>8. /\ Cardinality(B) <= Cardinality(A) + 1
      /\ r \notin B => Cardinality(B) <= Cardinality(A)
      /\ r \in A /\ r \notin B => Cardinality(B) <= Cardinality(A) - 1
  BY <1>2, <1>5, <1>6, <1>7
<1> QED BY <1>2, <1>4, <1>8 DEF A, B

\* prefix_for_waiting_req keeps the invariant.
LEMMA MatchKeeps ==
  ASSUME ManagerInv, NEW r \in Requests, PrefixForWaitingReq(r)
  PROVE  ManagerInv'
<1> DEFINE t == tree
           u == tree'
           key == MatchKey(r)
           w == Walk(t, key)
           n == Matched(t, key)
           pre == FlattenSeq(ValueTo(w, n))
           x == req[r]
           y == [x EXCEPT !.state = "matched", !.last_node = n, !.prefix_indices = pre, !.matches = @ + 1]
<1>1. /\ TreeOK(t) /\ req = [p \in Requests |-> req[p]] /\ Locked(t, req)
      /\ \A p \in Requests : RequestOK(p, req[p]) /\ PrefixAt(t, req[p])
      /\ free_pages \subseteq Pages /\ TableOK(req_to_token) /\ Begins(req, req_to_token)
      /\ SlotsOK(running, free_slots, req)
  BY DEF ManagerInv, RequestsOK
<1>2. /\ x.state \in {"waiting", "matched"} /\ u = IncLock(w, n)
      /\ req' = [req EXCEPT ![r] = y]
      /\ UNCHANGED <<free_pages, req_to_token, free_slots, running>>
  BY DEF PrefixForWaitingReq
<1>3. req' = [p \in Requests |-> IF p = r THEN y ELSE req[p]]
  <2> HIDE DEF y
  <2> QED BY <1>1, <1>2
<1>4. key \in Seq(Chunk) /\ key = ChunksOf(Front(x.tokens))
  <2>1. x.tokens \in Seq(Nat) /\ x.tokens # << >>
    <3>1. x.tokens = Prompt[r]
      BY <1>1, <1>2 DEF RequestOK
    <3> QED BY <3>1, TokensOf
  <2>2. Front(x.tokens) \in Seq(Nat)
    BY <2>1, FrontIs
  <2>3. key = ChunksOf(Front(x.tokens))
    BY DEF MatchKey
  <2> QED BY <2>2, <2>3, ChunksAre DEF Chunk
<1> HIDE DEF key
<1>5. /\ n \in Seq(Chunk) /\ IsPrefix(n, key)
      /\ TreeOK(u) /\ Nodes(u) = Nodes(t) \cup ({n} \ {<< >>}) /\ Known(u) = Known(t)
      /\ \A p \in Known(t) : PageAt(u, p) = PageAt(t, p)
      /\ \A m \in Nodes(u) : u.lock[m] = IF IsPrefix(m, n) THEN t.lock[At(t, m)] + 1
                                                           ELSE t.lock[At(t, m)]
      /\ ValueTo(w, n) = ValueTo(u, n)
  BY <1>1, <1>2, <1>4, MatchStep
<1>6. pre = FlattenSeq(ValueTo(u, n)) /\ n \in Nodes(u) \cup {<< >>}
  BY <1>5
<1>7. pre \in Seq(Nat)
  BY <1>5, <1>6, ValueToIs
<1> HIDE DEF w, n, pre
<1>8. /\ RequestOK(r, y)
      /\ Fields(y, "matched", x.tokens, x.req_pool_idx, n, pre, x.matches + 1, x.seq_len)
  BY <1>1, <1>2, <1>4, <1>5, <1>7, MatchRequest
<1>9. y.state = "matched" /\ y.last_node = n /\ y.prefix_indices = pre
  BY <1>8, FieldsAre
<1> HIDE DEF x, y
<1>10. \A p \in Requests : RequestOK(p, req'[p]) /\ PrefixAt(u, req'[p])
  <2> TAKE p \in Requests
  <2>1. CASE p = r
    BY <2>1, <1>3, <1>6, <1>8, <1>9 DEF PrefixAt
  <2>2. CASE p # r
    <3>1. req'[p] = req[p] /\ PrefixAt(t, req[p])
      BY <2>2, <1>1, <1>3
    <3>2. req[p].last_node \in Nodes(u) \cup {<< >>}
      BY <3>1, <1>5 DEF PrefixAt
    <3>3. PrefixAt(u, req[p])
      BY <3>1, <3>2, <1>1, <1>5, PrefixStaysAt
    <3> QED BY <3>1, <3>3, <1>1
  <2> QED BY <2>1, <2>2
<1>11. Locked(u, req')
  <2> SUFFICES ASSUME NEW m \in Nodes(u) PROVE u.lock[m] >= Cardinality(Holding(req', m))
    BY DEF Locked
  <2>1. m \in Seq(Chunk) \ {<< >>} /\ m \in Known(t)
    <3>1. Nodes(u) \in SUBSET (Seq(Chunk) \ {<< >>})
      BY <1>5 DEF TreeOK, IsTree
    <3>2. m \in Known(u)
      BY <3>1, KnownIs
    <3> QED BY <3>1, <3>2, <1>5
  <2>2. \A p \in Requests : req[p].last_node \in Nodes(t) \cup {<< >>}
    BY <1>1 DEF PrefixAt
  <2>3. Cardinality(Holding(req, m)) <= t.lock[At(t, m)] /\ t.lock[At(t, m)] \in Nat
    BY <1>1, <2>1, <2>2, HeldCount
  <2>4. \A p \in Requests \ {r} : req'[p].last_node = req[p].last_node
    BY <1>3
  <2>5. /\ Cardinality(Holding(req, m)) \in Nat /\ Cardinality(Holding(req', m)) \in Nat
        /\ Cardinality(Holding(req', m)) <= Cardinality(Holding(req, m)) + 1
        /\ ~ IsPrefix(m, req'[r].last_node) => Cardinality(Holding(req', m)) <= Cardinality(Holding(req, m))
    BY <2>4, HoldingChange
  <2>6. req'[r].last_node = n
    BY <1>3, <1>9
  <2>7. CASE IsPrefix(m, n)
    BY <2>7, <2>3, <2>5, <1>5
  <2>8. CASE ~ IsPrefix(m, n)
    BY <2>8, <2>3, <2>5, <2>6, <1>5
  <2> QED BY <2>7, <2>8
<1>12. \A p \in Requests : (req'[p].state = "running" <=> req[p].state = "running")
                           /\ (req[p].state = "running" => req'[p] = req[p])
  <2> TAKE p \in Requests
  <2>1. CASE p = r
    BY <2>1, <1>2, <1>3, <1>9 DEF x
  <2>2. CASE p # r
    BY <2>2, <1>3
  <2> QED BY <2>1, <2>2
<1>13. Begins(req', req_to_token)
  BY <1>1, <1>12 DEF Begins
<1>14. SlotsOK(running, free_slots, req')
  <2>1. {p \in Requests : req'[p].state = "running"} = {p \in Requests : req[p].state = "running"}
    BY <1>12
  <2>2. \A p \in Range(running) : req'[p] = req[p]
    BY <1>1, <1>12 DEF SlotsOK
  <2>3. {req'[p].req_pool_idx : p \in Range(running)} = {req[p].req_pool_idx : p \in Range(running)}
    BY <2>2
  <2> QED BY <2>1, <2>2, <2>3, <1>1 DEF SlotsOK
<1>15. RequestsOK(u, req')
  <2>1. req' = [p \in Requests |-> req'[p]]
    BY <1>3
  <2> QED BY <2>1, <1>10, <1>11 DEF RequestsOK
<1> HIDE DEF t, u
<1>16. TreeOK(tree') /\ RequestsOK(tree', req')
  BY <1>5, <1>15 DEF u
<1>17. free_pages' = free_pages /\ req_to_token' = req_to_token /\ free_slots' = free_slots /\ running' = running
  BY <1>2
<1> QED BY <1>1, <1>13, <1>14, <1>16, <1>17 DEF ManagerInv

\* What requests hold does not depend on their other fields.
LEMMA SameNodes ==
  ASSUME NEW t, NEW q, RequestsOK(t, q), NEW h, h = [r \in Requests |-> h[r]],
         \A r \in Requests : /\ RequestOK(r, h[r]) /\ h[r].last_node = q[r].last_node
                             /\ h[r].prefix_indices = q[r].prefix_indices
  PROVE  RequestsOK(t, h)
<1>1. /\ Locked(t, q) /\ \A r \in Requests : PrefixAt(t, q[r])
  BY DEF RequestsOK
<1>2. \A n : Holding(h, n) = Holding(q, n)
  BY DEF Holding
<1>3. Locked(t, h)
  BY <1>1, <1>2 DEF Locked
<1>4. \A r \in Requests : PrefixAt(t, h[r])
  BY <1>1 DEF PrefixAt
<1> QED BY <1>3, <1>4 DEF RequestsOK

\* append_output_token keeps the invariant.
LEMMA AppendKeeps ==
  ASSUME ManagerInv, NEW r \in Requests, NEW t \in Tokens, AppendOutputToken(r, t)
  PROVE  ManagerInv'
<1> DEFINE x == req[r]
           y == [x EXCEPT !.tokens = Append(@, t)]
<1>1. /\ RequestsOK(tree, req) /\ req = [p \in Requests |-> req[p]]
      /\ \A p \in Requests : RequestOK(p, req[p])
      /\ Begins(req, req_to_token) /\ SlotsOK(running, free_slots, req)
  BY DEF ManagerInv, RequestsOK
<1>2. /\ x.state = "running" /\ Len(x.tokens) <= x.seq_len /\ req' = [req EXCEPT ![r] = y]
      /\ Len(x.tokens) < Len(Prompt[r]) + MaxOutput
      /\ UNCHANGED <<free_pages, tree, req_to_token, free_slots, running>>
  BY DEF AppendOutputToken
<1>3. req' = [p \in Requests |-> IF p = r THEN y ELSE req[p]]
  <2> HIDE DEF y
  <2> QED BY <1>1, <1>2
<1>4. /\ RequestOK(r, y)
      /\ Fields(y, "running", Append(x.tokens, t), x.req_pool_idx, x.last_node, x.prefix_indices,
                x.matches, x.seq_len)
  BY <1>1, <1>2, AppendRequest
<1>5. /\ y.state = x.state /\ y.req_pool_idx = x.req_pool_idx /\ y.last_node = x.last_node
      /\ y.prefix_indices = x.prefix_indices
  BY <1>2, <1>4, FieldsAre
<1> HIDE DEF y
<1>6. \A p \in Requests : /\ req'[p].state = req[p].state /\ req'[p].req_pool_idx = req[p].req_pool_idx
                          /\ req'[p].last_node = req[p].last_node
                          /\ req'[p].prefix_indices = req[p].prefix_indices
                          /\ RequestOK(p, req'[p])
  BY <1>1, <1>3, <1>4, <1>5
<1>7. RequestsOK(tree, req')
  <2>1. req' = [p \in Requests |-> req'[p]]
    BY <1>3
  <2> QED BY <2>1, <1>1, <1>6, SameNodes
<1>8. Begins(req', req_to_token)
  BY <1>1, <1>6 DEF Begins
<1>9. SlotsOK(running, free_slots, req')
  <2>1. {p \in Requests : req'[p].state = "running"} = {p \in Requests : req[p].state = "running"}
    BY <1>6
  <2>2. \A p \in Range(running) : req'[p].req_pool_idx = req[p].req_pool_idx
    BY <1>1, <1>6 DEF SlotsOK
  <2>3. {req'[p].req_pool_idx : p \in Range(running)} = {req[p].req_pool_idx : p \in Range(running)}
    BY <2>2
  <2> QED BY <2>1, <2>2, <2>3, <1>1 DEF SlotsOK
<1> QED BY <1>2, <1>7, <1>8, <1>9 DEF ManagerInv

\* evict keeps what requests hold, and what it frees are pages of the pool.
LEMMA EvictStep ==
  ASSUME NEW t, TreeOK(t), NEW q, RequestsOK(t, q), NEW free \in SUBSET Pages, NEW need,
         NEW e \in EvictOutcomes(t, free, need, ChunkPages)
  PROVE  /\ Evicted(Chunk, ChunkPages, t, free, e)
         /\ TreeOK(e.tree) /\ RequestsOK(e.tree, q) /\ e.free \in SUBSET Pages
<1>1. IsTree(Chunk, t)
  BY DEF TreeOK
<1>2. Evicted(Chunk, ChunkPages, t, free, e)
  BY <1>1, EvictedIs
<1> DEFINE u == e.tree
<1>3. /\ IsTree(Chunk, u) /\ Nodes(u) \subseteq Nodes(t) /\ Known(u) \subseteq Known(t)
      /\ \A p \in Known(u) : PageAt(u, p) = PageAt(t, p) /\ At(u, p) = At(t, p)
      /\ \A m \in Nodes(u) : u.lock[m] = t.lock[m]
      /\ \A m \in Nodes(t) : m \notin Nodes(u) => t.lock[m] = 0
      /\ e.free = free \cup UNION {ChunkPages[PageAt(t, p)] : p \in Lost(t, e)}
  BY <1>2 DEF Evicted
<1>4. TreeOK(u)
  BY <1>3 DEF TreeOK
<1>5. e.free \in SUBSET Pages
  <2>1. ASSUME NEW p \in Lost(t, e) PROVE ChunkPages[PageAt(t, p)] \subseteq Pages
    <3>1. PageAt(t, p) \in Chunk
      BY DEF Lost, TreeOK
    <3> QED BY <3>1 DEF ChunkPages, Chunk, Freeable
  <2> QED BY <2>1, <1>3
<1> HIDE DEF u
<1>6. /\ q = [r \in Requests |-> q[r]] /\ Locked(t, q)
      /\ \A r \in Requests : RequestOK(r, q[r]) /\ PrefixAt(t, q[r])
  BY DEF RequestsOK
<1>7. ASSUME NEW r \in Requests PROVE PrefixAt(u, q[r])
  <2> DEFINE n == q[r].last_node
  <2>1. n \in Nodes(u) \cup {<< >>}
    <3> SUFFICES ASSUME n \in Nodes(t), n \notin Nodes(u) PROVE FALSE
      BY <1>6 DEF PrefixAt
    <3>1. t.lock[n] = 0
      BY <1>3
    <3>2. r \in Holding(q, n)
      <4>1. n \in Seq(Chunk)
        BY <1>1 DEF IsTree
      <4>2. IsPrefix(n, n)
        BY <4>1, PrefixOrder
      <4> QED BY <4>2 DEF Holding
    <3>3. IsFiniteSet(Holding(q, n)) /\ Cardinality(Holding(q, n)) \in Nat
      <4>1. Holding(q, n) \subseteq Requests
        BY DEF Holding
      <4> QED BY <4>1, ManagerAssumption, FS_Subset, FS_CardinalityType
    <3>4. Cardinality(Holding(q, n)) # 0
      BY <3>2, <3>3, FS_EmptySet
    <3>5. t.lock[n] >= Cardinality(Holding(q, n))
      BY <1>6 DEF Locked
    <3> QED BY <3>1, <3>3, <3>4, <3>5
  <2>2. ASSUME NEW p \in Known(t), IsPrefix(p, n) PROVE PageAt(u, p) = PageAt(t, p)
    <3>1. p \in Seq(Chunk) /\ p # << >> /\ Nodes(u) \in SUBSET (Seq(Chunk) \ {<< >>})
      BY <1>1, <1>3, KnownIs DEF IsTree
    <3>2. n # << >>
      BY <3>1, <2>2, PrefixEmpty
    <3>3. p \in Known(u)
      BY <2>1, <2>2, <3>1, <3>2, KnownIs
    <3> QED BY <3>3, <1>3
  <2> QED BY <2>1, <2>2, <1>6, PrefixStaysAt
<1>8. Locked(u, q)
  BY <1>3, <1>6 DEF Locked
<1>9. RequestsOK(u, q)
  BY <1>6, <1>7, <1>8 DEF RequestsOK
<1> QED BY <1>2, <1>4, <1>5, <1>9 DEF u

\* The indices an allocation writes are numbers.
LEMMA SlotNat ==
  ASSUME NEW F \in SUBSET Pages, NEW n \in Nat, NEW m \in Nat, NEW need \in [1..n -> 0..m],
         NeedTotal(need, n) <= Cardinality(F), NEW i \in 1..n,
         NEW pre, pre[i] \in Nat, NEW to \in Nat, need[i] = NewPages(pre[i], to),
         NEW last, pre[i] # 0 => last[i] \in Nat,
         NEW x \in Nat, pre[i] <= x, x < to
  PROVE  ExtendSlot(F, pre, need, last, i, x) \in Nat
<1> DEFINE len == pre[i]
           c == CeilPages(len)
           d == CeilPages(to)
           nb == NeedBefore(need, i)
           b == BlockOf(x + 1)
           r == ((x + 1) - 1) % PageSize
           a == last[i]
<1>1. /\ len \in Nat /\ len <= x /\ PageSize \in Nat /\ PageSize >= 2 /\ x + 1 \in Nat /\ x + 1 >= 1
      /\ (x + 1) - 1 = x /\ x + 1 <= to
  BY PageAssumption
<1>2. c \in Nat /\ d \in Nat /\ need[i] = d - c /\ need[i] \in Nat
  <2>1. c \in Nat /\ d \in Nat
    BY <1>1, CeilSpec
  <2> QED BY <2>1 DEF NewPages
<1>3. /\ x < c * PageSize <=> b < c
      /\ b < d /\ b \in Nat /\ r \in 0..(PageSize - 1)
  <2> DEFINE z == x + 1
  <2>1. z \in Nat /\ z >= 1 /\ z <= to /\ z - 1 = x
    BY <1>1
  <2>2. /\ (z - 1 < c * PageSize <=> BlockOf(z) < c) /\ BlockOf(z) < d
        /\ BlockOf(z) \in Nat /\ (z - 1) % PageSize \in 0..(PageSize - 1)
    <3> HIDE DEF z, len
    <3> QED BY <1>1, <2>1, BlockBelow, BlockSpec
  <2> QED BY <2>1, <2>2
<1>4. ExtendSlot(F, pre, need, last, i, x) =
        IF x < c * PageSize THEN a + 1 + (x - len) ELSE (NthFree(F, nb + (b - c)) * PageSize) + r
  BY <1>1 DEF ExtendSlot, BlockOf
<1>5. F \in SUBSET Int /\ IsFiniteSet(F) /\ Cardinality(F) \in Nat
  <2>1. IsFiniteSet(Pages) /\ Pages \subseteq Int
    BY FS_Interval, PageAssumption DEF Pages
  <2> QED BY <2>1, FS_Subset, FS_CardinalityType
<1>6. nb \in Nat /\ nb + need[i] <= Cardinality(F)
  <2>1. n + 1 \in (i + 1)..(n + 1)
    OBVIOUS
  <2>2. nb \in Nat /\ nb + need[i] <= NeedBefore(need, n + 1) /\ NeedBefore(need, n + 1) \in Nat
    BY <2>1, NeedBeforeStep
  <2>3. NeedBefore(need, n + 1) <= Cardinality(F)
    BY DEF NeedTotal
  <2> HIDE DEF nb
  <2> QED BY ONLY <1>2, <1>5, <2>2, <2>3, SMTT(30)
<1> HIDE DEF c, d, nb, b, r, a, len
<1>7. CASE b < c
  <2>1. a \in Nat
    <3>1. len # 0
      <4> SUFFICES ASSUME len = 0 PROVE FALSE
        OBVIOUS
      <4>1. c = 0
        BY CeilMultiple DEF c
      <4> QED BY <4>1, <1>3, <1>7
    <3> QED BY <3>1 DEF len, a
  <2>2. x - len \in Nat
    BY <1>1
  <2>3. a + 1 + (x - len) \in Nat
    BY <2>1, <2>2
  <2> QED BY <2>3, <1>3, <1>4, <1>7
<1>8. CASE ~ (b < c)
  <2> DEFINE k == nb + (b - c)
             f == NthFree(F, k)
             size == Cardinality(F)
  <2>1. k \in 0..(size - 1)
    <3>0. size \in Nat /\ nb + need[i] <= size
      BY <1>5, <1>6
    <3> HIDE DEF size
    <3> QED BY <3>0, <1>2, <1>3, <1>6, <1>8
  <2>2. f \in F
    <3> HIDE DEF k
    <3> QED BY <1>5, <2>1, NthFreeProp
  <2> HIDE DEF f
  <2>3. f \in Nat
    BY <2>2, PageAssumption DEF Pages
  <2>4. (f * PageSize) + r \in Nat
    <3>1. PICK u, w : u = f /\ w = r
      OBVIOUS
    <3>2. u \in Nat /\ w \in Nat /\ PageSize \in Nat
      BY <3>1, <2>3, <1>1, <1>3
    <3>3. (u * PageSize) + w \in Nat
      BY ONLY <3>2
    <3> QED BY <3>1, <3>3
  <2> QED BY <2>4, <1>3, <1>4, <1>8 DEF f
<1> QED BY <1>7, <1>8, <1>2, <1>3

\* So is what a decode writes.
LEMMA DecodeSlotNat ==
  ASSUME NEW F \in SUBSET Pages, NEW n \in Nat, NEW seq \in [1..n -> Nat \ {0}],
         DecodePagesCpu(seq) <= Cardinality(F), NEW i \in 1..n, NEW last, last[i] \in Nat
  PROVE  DecodeSlot(F, seq, last, i) \in Nat
<1> DEFINE need == DecodeNeed(seq)
           pre == [j \in 1..n |-> seq[j] - 1]
           k == seq[i] - 1
<1>1. NeedTotal(need, n) = DecodePagesCpu(seq)
  BY DecodeTotal
<1>2. NeedTotal(need, n) <= Cardinality(F)
  BY <1>1
<1>3. ASSUME NEW j \in 1..n PROVE need[j] \in 0..1
  <2>1. seq[j] \in Nat /\ seq[j] >= 1 /\ DOMAIN seq = 1..n
    OBVIOUS
  <2>2. NewPages(seq[j] - 1, seq[j]) \in 0..1
    <3> DEFINE s == seq[j]
    <3> HIDE DEF s
    <3>1. NewPages(s - 1, s) = IF s % PageSize = 1 THEN 1 ELSE 0
      BY <2>1, DecodeNewPage DEF s
    <3> QED BY <3>1 DEF s
  <2> QED BY <2>1, <2>2 DEF DecodeNeed
<1>4. need \in [1..n -> 0..1]
  <2>1. need = [j \in 1..n |-> need[j]]
    BY DEF DecodeNeed
  <2> HIDE DEF need
  <2> QED BY <1>3, <2>1
<1>5. pre[i] = k /\ k \in Nat /\ seq[i] \in Nat /\ need[i] = NewPages(k, seq[i])
  BY DEF DecodeNeed
<1>6. DecodeSlot(F, seq, last, i) = ExtendSlot(F, pre, need, last, i, pre[i])
  <2>1. last[i] \in Int /\ pre[i] = seq[i] - 1
    OBVIOUS
  <2> HIDE DEF pre
  <2> QED BY <1>2, <2>1, DecodeIsExtend
<1>7. 1 \in Nat /\ k < seq[i] /\ k <= k
  BY <1>5
<1> HIDE DEF need, pre, k
<1>8. PICK to \in Nat : to = seq[i]
  BY <1>5
<1>9. ExtendSlot(F, pre, need, last, i, k) \in Nat
  BY <1>2, <1>4, <1>5, <1>7, <1>8, SlotNat
<1> QED BY <1>5, <1>6, <1>9

\* A finite set of numbers has a greatest one.
LEMMA GreatestOf ==
  ASSUME NEW T \in SUBSET Nat, IsFiniteSet(T), T # {}
  PROVE  \E x \in T : \A y \in T : y <= x
<1> DEFINE n == Cardinality(T)
           G == {k \in 0..n : \A U \in SUBSET T : IsFiniteSet(U) /\ Cardinality(U) = k /\ U # {} =>
                                \E x \in U : \A y \in U : y <= x}
<1>1. n \in Nat
  BY FS_CardinalityType
<1>2. 0 \in G
  <2>1. ASSUME NEW U \in SUBSET T, IsFiniteSet(U), Cardinality(U) = 0 PROVE U = {}
    BY <2>1, FS_EmptySet
  <2>2. 0 \in 0..n
    BY <1>1
  <2> QED BY <2>1, <2>2
<1>3. ASSUME NEW k \in 1..n, k - 1 \in G PROVE k \in G
  <2> SUFFICES ASSUME NEW U \in SUBSET T, IsFiniteSet(U), Cardinality(U) = k, U # {}
               PROVE  \E x \in U : \A y \in U : y <= x
    BY <1>1
  <2>1. PICK z \in U : TRUE
    OBVIOUS
  <2> DEFINE W == U \ {z}
  <2>2. IsFiniteSet(W) /\ Cardinality(W) = k - 1 /\ W \in SUBSET T
    BY <2>1, <1>1, FS_RemoveElement
  <2> HIDE DEF W
  <2>3. CASE W = {}
    BY <2>3, <2>1 DEF W
  <2>4. CASE W # {}
    <3>1. PICK x \in W : \A y \in W : y <= x
      BY <2>2, <2>4, <1>3
    <3>2. x \in U /\ x \in Nat /\ z \in Nat /\ \A y \in U : y = z \/ y \in W
      BY <3>1, <2>1 DEF W
    <3>3. CASE z <= x
      BY <3>1, <3>2, <3>3
    <3>4. CASE x < z
      <4>1. \A y \in U : y <= z
        <5> TAKE y \in U
        <5>1. y \in Nat /\ (y = z \/ y <= x)
          BY <3>1, <3>2
        <5> QED BY <5>1, <3>2, <3>4
      <4> QED BY <4>1, <2>1
    <3> QED BY <3>2, <3>3, <3>4
  <2> QED BY <2>3, <2>4
<1> HIDE DEF G
<1>4. 0..n \subseteq G
  BY <1>1, <1>2, <1>3, IndexInduction
<1>5. n \in 0..n
  BY <1>1
<1>6. n \in G
  BY <1>4, <1>5
<1> QED BY <1>6 DEF G

\* Rows are long enough for every prompt and its output.
LEMMA RowsLongEnough ==
  ASSUME NEW r \in Requests
  PROVE  MaxLen \in Nat /\ Len(Prompt[r]) + MaxOutput <= MaxLen /\ Len(Prompt[r]) \in Nat \ {0}
         /\ MaxOutput \in Nat
<1> DEFINE T == {Len(Prompt[p]) : p \in Requests}
<1>1. T \in SUBSET Nat /\ Len(Prompt[r]) \in T
  BY TokensOf
<1>2. IsFiniteSet(T)
  <2> DEFINE f == [p \in Requests |-> Len(Prompt[p])]
  <2>1. f \in [Requests -> T] /\ \A y \in T : \E p \in Requests : f[p] = y
    OBVIOUS
  <2> HIDE DEF f, T
  <2> QED BY <2>1, ManagerAssumption, ImageCount
<1>3. \E m \in T : \A y \in T : y <= m
  BY <1>1, <1>2, GreatestOf
<1>4. MaxPrompt \in T /\ \A y \in T : y <= MaxPrompt
  BY <1>3 DEF MaxPrompt
<1>5. MaxPrompt \in Nat /\ Len(Prompt[r]) <= MaxPrompt /\ Len(Prompt[r]) \in Nat \ {0} /\ MaxOutput \in Nat
  BY <1>1, <1>4, TokensOf, ManagerAssumption
<1> QED BY <1>5 DEF MaxLen

\* The prefix of a request is shorter than its prompt.
LEMMA PrefixLength ==
  ASSUME NEW t, TreeOK(t), NEW q, RequestsOK(t, q), NEW r \in Requests
  PROVE  /\ q[r].prefix_indices \in Seq(Nat) /\ Len(q[r].prefix_indices) \in Nat
         /\ Len(q[r].prefix_indices) = Len(q[r].last_node) * PageSize
         /\ Len(q[r].last_node) \in Nat
         /\ Len(q[r].prefix_indices) < Len(Prompt[r]) /\ Len(Prompt[r]) \in Nat
<1> DEFINE n == q[r].last_node
           pre == q[r].prefix_indices
<1>1. RequestOK(r, q[r]) /\ n \in Nodes(t) \cup {<< >>} /\ pre = FlattenSeq(ValueTo(t, n))
  BY DEF RequestsOK, PrefixAt
<1> HIDE DEF n, pre
<1>2. n \in Seq(Chunk) /\ pre \in Seq(Nat) /\ Len(pre) = Len(n) * PageSize
  BY <1>1, ValueToIs
<1>3. Len(pre) \in Nat /\ Len(n) \in Nat /\ Len(Prompt[r]) \in Nat
  BY <1>2, LenProperties, TokensOf
<1>4. Len(n) * PageSize < Len(Prompt[r])
  BY <1>1 DEF RequestOK, n
<1> QED BY <1>2, <1>3, <1>4 DEF n, pre

\* The requests of the batch and their rows.
LEMMA RunningAre ==
  ASSUME NEW run, NEW free, NEW q, SlotsOK(run, free, q), NEW t, RequestsOK(t, q)
  PROVE  /\ run \in Seq(Requests) /\ Len(run) \in Nat /\ DOMAIN run = 1..Len(run)
         /\ \A i \in 1..Len(run) :
              /\ run[i] \in Requests /\ q[run[i]].state = "running" /\ q[run[i]].req_pool_idx \in Rows
              /\ q[run[i]].seq_len \in Nat \ {0} /\ q[run[i]].seq_len \in 1..MaxLen
         /\ \A i, j \in 1..Len(run) : q[run[i]].req_pool_idx = q[run[j]].req_pool_idx => i = j
         /\ \A r \in Requests : q[r].state = "running" => \E i \in 1..Len(run) : run[i] = r
<1>1. /\ run \in Seq(Requests) /\ IsInjective(run) /\ Range(run) = {r \in Requests : q[r].state = "running"}
      /\ \A r, s \in Range(run) : q[r].req_pool_idx = q[s].req_pool_idx => r = s
  BY DEF SlotsOK
<1>2. Len(run) \in Nat /\ DOMAIN run = 1..Len(run) /\ \A i \in 1..Len(run) : run[i] \in Requests
  BY <1>1, Elements
<1>3. \A i \in 1..Len(run) : run[i] \in Range(run) /\ q[run[i]].state = "running"
  BY <1>1, <1>2 DEF Range
<1>4. \A i, j \in 1..Len(run) : q[run[i]].req_pool_idx = q[run[j]].req_pool_idx => i = j
  BY <1>1, <1>2, <1>3 DEF IsInjective
<1>5. ASSUME NEW i \in 1..Len(run)
      PROVE  q[run[i]].req_pool_idx \in Rows /\ q[run[i]].seq_len \in Nat \ {0} /\ q[run[i]].seq_len \in 1..MaxLen
  <2>1. PICK r \in Requests : r = run[i]
    BY <1>2
  <2>2. RequestOK(r, q[r]) /\ q[r].state = "running"
    BY <2>1, <1>3 DEF RequestsOK
  <2>3. q[r].req_pool_idx \in Rows /\ q[r].seq_len \in Len(Prompt[r])..(Len(Prompt[r]) + MaxOutput)
    BY <2>2 DEF RequestOK
  <2>4. MaxLen \in Nat /\ Len(Prompt[r]) + MaxOutput <= MaxLen /\ Len(Prompt[r]) \in Nat \ {0}
        /\ MaxOutput \in Nat
    BY RowsLongEnough
  <2>5. q[r].seq_len \in Nat \ {0} /\ q[r].seq_len \in 1..MaxLen
    BY <2>3, <2>4
  <2> QED BY <2>1, <2>3, <2>5
<1>6. \A r \in Requests : q[r].state = "running" => \E i \in 1..Len(run) : run[i] = r
  BY <1>1, <1>2 DEF Range
<1> QED BY <1>1, <1>2, <1>3, <1>4, <1>5, <1>6

\* What a decode makes of the table: the row of each running request gets one entry.
DecodeTable(run, q, m, slot) ==
  [j \in Rows |->
     IF \E i \in 1..Len(run) : q[run[i]].req_pool_idx = j
       THEN LET i == CHOOSE i \in 1..Len(run) : q[run[i]].req_pool_idx = j
            IN [m[j] EXCEPT ![q[run[i]].seq_len + 1] = slot[i]]
       ELSE m[j]]

\* Entry by entry.
LEMMA DecodeTableIs ==
  ASSUME NEW run, NEW free, NEW q, SlotsOK(run, free, q), NEW t, RequestsOK(t, q),
         NEW m, TableOK(m), NEW slot, \A i \in 1..Len(run) : slot[i] \in Nat,
         NEW d, d = DecodeTable(run, q, m, slot)
  PROVE  /\ TableOK(d)
         /\ \A i \in 1..Len(run), x \in 1..MaxLen :
              d[q[run[i]].req_pool_idx][x] =
                IF x = q[run[i]].seq_len + 1 THEN slot[i] ELSE m[q[run[i]].req_pool_idx][x]
<1>1. /\ \A i \in 1..Len(run) : q[run[i]].req_pool_idx \in Rows
      /\ \A i, j \in 1..Len(run) : q[run[i]].req_pool_idx = q[run[j]].req_pool_idx => i = j
  BY RunningAre
<1> DEFINE row(i) == [m[q[run[i]].req_pool_idx] EXCEPT ![q[run[i]].seq_len + 1] = slot[i]]
<1>2. \A j \in Rows : m[j] \in [1..MaxLen -> Nat]
  BY DEF TableOK
<1>3. ASSUME NEW i \in 1..Len(run) PROVE d[q[run[i]].req_pool_idx] = row(i)
  <2> DEFINE j == q[run[i]].req_pool_idx
             k == CHOOSE k \in 1..Len(run) : q[run[k]].req_pool_idx = j
  <2>1. j \in Rows /\ \E h \in 1..Len(run) : q[run[h]].req_pool_idx = j
    BY <1>1
  <2>2. k \in 1..Len(run) /\ q[run[k]].req_pool_idx = j
    BY <2>1
  <2>3. k = i
    <3> HIDE DEF k
    <3> QED BY <1>1, <2>2
  <2>4. d[j] = [m[j] EXCEPT ![q[run[k]].seq_len + 1] = slot[k]]
    BY <2>1 DEF DecodeTable
  <2> QED BY <2>3, <2>4
<1>4. ASSUME NEW i \in 1..Len(run)
      PROVE  /\ row(i) \in [1..MaxLen -> Nat]
             /\ \A x \in 1..MaxLen : row(i)[x] = IF x = q[run[i]].seq_len + 1 THEN slot[i]
                                                  ELSE m[q[run[i]].req_pool_idx][x]
  <2> DEFINE f == m[q[run[i]].req_pool_idx]
             k == q[run[i]].seq_len + 1
             v == slot[i]
  <2>1. f \in [1..MaxLen -> Nat] /\ v \in Nat
    BY <1>1, <1>2
  <2> HIDE DEF f, k, v
  <2>2. [f EXCEPT ![k] = v] \in [1..MaxLen -> Nat]
        /\ \A x \in 1..MaxLen : [f EXCEPT ![k] = v][x] = IF x = k THEN v ELSE f[x]
    BY <2>1
  <2> QED BY <2>2 DEF f, k, v
<1> HIDE DEF row
<1>5. ASSUME NEW j \in Rows PROVE d[j] \in [1..MaxLen -> Nat]
  <2>1. CASE \E i \in 1..Len(run) : q[run[i]].req_pool_idx = j
    BY <2>1, <1>3, <1>4
  <2>2. CASE ~ \E i \in 1..Len(run) : q[run[i]].req_pool_idx = j
    <3>1. d[j] = m[j]
      BY <2>2 DEF DecodeTable
    <3> QED BY <3>1, <1>2
  <2> QED BY <2>1, <2>2
<1>6. TableOK(d)
  <2>1. d = [j \in Rows |-> d[j]]
    BY DEF DecodeTable
  <2> QED BY <2>1, <1>5 DEF TableOK
<1> QED BY <1>3, <1>4, <1>6

\* The arguments of alloc_pages_decode, and what prepare_for_decode does with the pages.
DecodeArgs(seq, last) ==
  /\ seq = [i \in 1..Len(running) |-> req[running[i]].seq_len]
  /\ last = [i \in 1..Len(running) |-> req_to_token[req[running[i]].req_pool_idx][seq[i]]]

DecodeEffect(seq, last) ==
  /\ seq \in [1..Len(running) -> Nat \ {0}] /\ \A i \in 1..Len(running) : last[i] \in Nat
  /\ \A r \in Requests : req[r].state = "running" =>
       req[r].seq_len <= Len(req[r].tokens) /\ req[r].seq_len + 1 < Len(Prompt[r]) + MaxOutput
  /\ \E e \in EvictFor(Len(running)) :
       /\ DecodePagesCpu(seq) <= Cardinality(e.free)
       /\ tree' = e.tree
       /\ free_pages' = e.free \ Smallest(e.free, DecodePagesCpu(seq))
       /\ req_to_token' = DecodeTable(running, req, req_to_token,
                            [i \in 1..Len(running) |-> DecodeSlot(e.free, seq, last, i)])
  /\ req' = [r \in Requests |->
               IF req[r].state = "running" THEN [req[r] EXCEPT !.seq_len = @ + 1] ELSE req[r]]
  /\ UNCHANGED <<free_slots, running>>

\* prepare_for_decode in the terms of the lemmas.
LEMMA DecodeIs ==
  ASSUME ManagerInv, PrepareForDecode, NEW seq, NEW last, DecodeArgs(seq, last)
  PROVE  DecodeEffect(seq, last)
<1>0. /\ seq = [i \in 1..Len(running) |-> req[running[i]].seq_len]
      /\ last = [i \in 1..Len(running) |-> req_to_token[req[running[i]].req_pool_idx][seq[i]]]
  BY DEF DecodeArgs
<1>1. /\ RequestsOK(tree, req) /\ TableOK(req_to_token) /\ SlotsOK(running, free_slots, req)
  BY DEF ManagerInv
<1>2. /\ Len(running) \in Nat
      /\ \A i \in 1..Len(running) :
           /\ running[i] \in Requests /\ req[running[i]].req_pool_idx \in Rows
           /\ req[running[i]].seq_len \in Nat \ {0} /\ req[running[i]].seq_len \in 1..MaxLen
      /\ \A r \in Requests : req[r].state = "running" => \E i \in 1..Len(running) : running[i] = r
  BY <1>1, RunningAre
<1>3. seq \in [1..Len(running) -> Nat \ {0}] /\ \A i \in 1..Len(running) : seq[i] = req[running[i]].seq_len
  BY <1>0, <1>2
<1>4. ASSUME NEW i \in 1..Len(running) PROVE last[i] \in Nat
  <2>1. req_to_token[req[running[i]].req_pool_idx] \in [1..MaxLen -> Nat]
    BY <1>1, <1>2 DEF TableOK
  <2>2. seq[i] \in 1..MaxLen
    BY <1>2, <1>3
  <2> QED BY <2>1, <2>2, <1>0
<1>5. /\ \A i \in 1..Len(running) : /\ seq[i] <= Len(req[running[i]].tokens)
                                    /\ seq[i] + 1 < Len(Prompt[running[i]]) + MaxOutput
      /\ \E e \in EvictFor(Len(running)) :
           /\ DecodePagesCpu(seq) <= Cardinality(e.free)
           /\ tree' = e.tree
           /\ free_pages' = e.free \ Smallest(e.free, DecodePagesCpu(seq))
           /\ req_to_token' = [j \in Rows |->
                IF \E i \in 1..Len(running) : req[running[i]].req_pool_idx = j
                  THEN LET i == CHOOSE i \in 1..Len(running) : req[running[i]].req_pool_idx = j
                       IN [req_to_token[j] EXCEPT ![NewPos(running[i])] = DecodeSlot(e.free, seq, last, i)]
                  ELSE req_to_token[j]]
      /\ req' = [r \in Requests |->
                   IF r \in Running THEN [req[r] EXCEPT !.seq_len = @ + 1] ELSE req[r]]
      /\ UNCHANGED <<free_slots, running>>
  <2> DEFINE n == Len(running)
             P(sq, la) ==
        /\ \A i \in 1..n : /\ sq[i] <= Len(req[running[i]].tokens)
                         /\ sq[i] + 1 < Len(Prompt[running[i]]) + MaxOutput
        /\ \E e \in EvictFor(n) :
             /\ DecodePagesCpu(sq) <= Cardinality(e.free)
             /\ tree' = e.tree
             /\ free_pages' = e.free \ Smallest(e.free, DecodePagesCpu(sq))
             /\ req_to_token' = [j \in Rows |->
                  IF \E i \in 1..n : req[running[i]].req_pool_idx = j
                    THEN LET i == CHOOSE i \in 1..n : req[running[i]].req_pool_idx = j
                         IN [req_to_token[j] EXCEPT ![NewPos(running[i])] = DecodeSlot(e.free, sq, la, i)]
                    ELSE req_to_token[j]]
        /\ req' = [r \in Requests |->
                     IF r \in Running THEN [req[r] EXCEPT !.seq_len = @ + 1] ELSE req[r]]
        /\ UNCHANGED <<free_slots, running>>
             a == [i \in 1..n |-> req[running[i]].seq_len]
             b == [i \in 1..n |-> req_to_token[req[running[i]].req_pool_idx][a[i]]]
  <2>1. P(a, b)
    BY Zenon DEF PrepareForDecode
  <2>2. seq = a /\ last = b
    BY <1>0
  <2> HIDE DEF a, b, P
  <2>3. P(seq, last)
    BY <2>1, <2>2
  <2> QED BY <2>3, Zenon DEF P
<1>6. ASSUME NEW e PROVE
        [j \in Rows |->
                IF \E i \in 1..Len(running) : req[running[i]].req_pool_idx = j
                  THEN LET i == CHOOSE i \in 1..Len(running) : req[running[i]].req_pool_idx = j
                       IN [req_to_token[j] EXCEPT ![NewPos(running[i])] = DecodeSlot(e.free, seq, last, i)]
                  ELSE req_to_token[j]]
        = DecodeTable(running, req, req_to_token,
                      [i \in 1..Len(running) |-> DecodeSlot(e.free, seq, last, i)])
  BY DEF DecodeTable, NewPos
<1>7. req' = [r \in Requests |->
                IF req[r].state = "running" THEN [req[r] EXCEPT !.seq_len = @ + 1] ELSE req[r]]
  BY <1>5 DEF Running
<1>8. \A r \in Requests : req[r].state = "running" =>
        req[r].seq_len <= Len(req[r].tokens) /\ req[r].seq_len + 1 < Len(Prompt[r]) + MaxOutput
  BY <1>2, <1>3, <1>5
<1>9. \E e \in EvictFor(Len(running)) :
        /\ DecodePagesCpu(seq) <= Cardinality(e.free)
        /\ tree' = e.tree
        /\ free_pages' = e.free \ Smallest(e.free, DecodePagesCpu(seq))
        /\ req_to_token' = DecodeTable(running, req, req_to_token,
                             [i \in 1..Len(running) |-> DecodeSlot(e.free, seq, last, i)])
  <2>1. PICK e \in EvictFor(Len(running)) :
          /\ DecodePagesCpu(seq) <= Cardinality(e.free)
          /\ tree' = e.tree
          /\ free_pages' = e.free \ Smallest(e.free, DecodePagesCpu(seq))
          /\ req_to_token' =
               [j \in Rows |->
                  IF \E i \in 1..Len(running) : req[running[i]].req_pool_idx = j
                    THEN LET i == CHOOSE i \in 1..Len(running) : req[running[i]].req_pool_idx = j
                         IN [req_to_token[j] EXCEPT ![NewPos(running[i])] = DecodeSlot(e.free, seq, last, i)]
                    ELSE req_to_token[j]]
    BY <1>5
  <2>2. req_to_token' = DecodeTable(running, req, req_to_token,
                          [i \in 1..Len(running) |-> DecodeSlot(e.free, seq, last, i)])
    BY <2>1, <1>6
  <2> QED BY <2>1, <2>2
<1> QED BY <1>3, <1>4, <1>5, <1>7, <1>8, <1>9 DEF DecodeEffect

\* The requests h after a decode, from what they were.
DecodedReqs(q, h) ==
  \A r \in Requests :
    /\ RequestOK(r, h[r]) /\ h[r].state = q[r].state /\ h[r].req_pool_idx = q[r].req_pool_idx
    /\ h[r].last_node = q[r].last_node /\ h[r].prefix_indices = q[r].prefix_indices
    /\ h[r].tokens = q[r].tokens
    /\ h[r].seq_len = IF q[r].state = "running" THEN q[r].seq_len + 1 ELSE q[r].seq_len

\* What is the same of the requests while they decode.
LEMMA DecodedAre ==
  ASSUME NEW t, NEW q, RequestsOK(t, q),
         \A r \in Requests : q[r].state = "running" =>
           q[r].seq_len <= Len(q[r].tokens) /\ q[r].seq_len + 1 < Len(Prompt[r]) + MaxOutput,
         NEW h, h = [r \in Requests |->
                      IF q[r].state = "running" THEN [q[r] EXCEPT !.seq_len = @ + 1] ELSE q[r]]
  PROVE  DecodedReqs(q, h)
<1> SUFFICES ASSUME NEW r \in Requests
             PROVE  /\ RequestOK(r, h[r]) /\ h[r].state = q[r].state
                    /\ h[r].req_pool_idx = q[r].req_pool_idx
                    /\ h[r].last_node = q[r].last_node /\ h[r].prefix_indices = q[r].prefix_indices
                    /\ h[r].tokens = q[r].tokens
                    /\ h[r].seq_len = IF q[r].state = "running" THEN q[r].seq_len + 1 ELSE q[r].seq_len
  BY DEF DecodedReqs
<1> DEFINE x == q[r]
           y == [x EXCEPT !.seq_len = @ + 1]
<1>1. RequestOK(r, x)
  BY DEF RequestsOK
<1>2. CASE x.state = "running"
  <2>1. h[r] = y
    BY <1>2
  <2>2. x.seq_len <= Len(x.tokens) /\ x.seq_len + 1 < Len(Prompt[r]) + MaxOutput
    BY <1>2
  <2>3. /\ RequestOK(r, y)
        /\ Fields(y, "running", x.tokens, x.req_pool_idx, x.last_node, x.prefix_indices, x.matches, x.seq_len + 1)
    BY <1>1, <1>2, <2>2, DecodeRequest
  <2> HIDE DEF x, y
  <2>4. /\ y.state = "running" /\ y.tokens = x.tokens /\ y.req_pool_idx = x.req_pool_idx
        /\ y.last_node = x.last_node /\ y.prefix_indices = x.prefix_indices /\ y.seq_len = x.seq_len + 1
    BY ONLY <2>3, FieldsAre
  <2> USE DEF x
  <2> QED BY <1>2, <2>1, <2>3, <2>4
<1>3. CASE x.state # "running"
  BY <1>1, <1>3
<1> QED BY <1>2, <1>3

\* The indices of a decode, and the table after it.
DecodeSlotsOf(seq, last, e) == [i \in 1..Len(running) |-> DecodeSlot(e.free, seq, last, i)]

DecodedRows(slot) ==
  /\ TableOK(req_to_token')
  /\ \A i \in 1..Len(running), x \in 1..MaxLen :
       req_to_token'[req[running[i]].req_pool_idx][x] =
         IF x = req[running[i]].seq_len + 1 THEN slot[i]
         ELSE req_to_token[req[running[i]].req_pool_idx][x]

\* All of prepare_for_decode, with e what the eviction left.
DecodeStep(seq, last, e) ==
  /\ DecodeArgs(seq, last)
  /\ seq \in [1..Len(running) -> Nat \ {0}] /\ \A i \in 1..Len(running) : last[i] \in Nat
  /\ \A r \in Requests : req[r].state = "running" =>
       req[r].seq_len <= Len(req[r].tokens) /\ req[r].seq_len + 1 < Len(Prompt[r]) + MaxOutput
  /\ Evicted(Chunk, ChunkPages, tree, free_pages, e)
  /\ TreeOK(e.tree) /\ RequestsOK(e.tree, req) /\ e.free \in SUBSET Pages
  /\ DecodePagesCpu(seq) <= Cardinality(e.free)
  /\ tree' = e.tree
  /\ free_pages' = e.free \ Smallest(e.free, DecodePagesCpu(seq))
  /\ free_slots' = free_slots /\ running' = running /\ req' = [r \in Requests |-> req'[r]]
  /\ DecodedRows(DecodeSlotsOf(seq, last, e))
  /\ DecodedReqs(req, req')

LEMMA DecodeStepIs ==
  ASSUME ManagerInv, PrepareForDecode
  PROVE  \E seq, last, e : DecodeStep(seq, last, e)
<1> DEFINE n == Len(running)
<1>0. PICK seq, last : DecodeArgs(seq, last)
  BY DEF DecodeArgs
<1>1. /\ RequestsOK(tree, req) /\ TableOK(req_to_token) /\ SlotsOK(running, free_slots, req)
      /\ TreeOK(tree) /\ free_pages \in SUBSET Pages
  BY DEF ManagerInv
<1>2. n \in Nat
  BY <1>1, RunningAre
<1>3. DecodeEffect(seq, last)
  BY <1>0, DecodeIs
<1>4. /\ seq \in [1..n -> Nat \ {0}] /\ \A i \in 1..n : last[i] \in Nat
      /\ \A r \in Requests : req[r].state = "running" =>
           req[r].seq_len <= Len(req[r].tokens) /\ req[r].seq_len + 1 < Len(Prompt[r]) + MaxOutput
      /\ req' = [r \in Requests |->
                   IF req[r].state = "running" THEN [req[r] EXCEPT !.seq_len = @ + 1] ELSE req[r]]
      /\ free_slots' = free_slots /\ running' = running
  BY <1>3 DEF DecodeEffect
<1>5. PICK e \in EvictFor(n) :
        /\ DecodePagesCpu(seq) <= Cardinality(e.free)
        /\ tree' = e.tree
        /\ free_pages' = e.free \ Smallest(e.free, DecodePagesCpu(seq))
        /\ req_to_token' = DecodeTable(running, req, req_to_token,
                             [i \in 1..n |-> DecodeSlot(e.free, seq, last, i)])
  BY <1>3 DEF DecodeEffect
<1>6. /\ Evicted(Chunk, ChunkPages, tree, free_pages, e)
      /\ TreeOK(e.tree) /\ RequestsOK(e.tree, req) /\ e.free \in SUBSET Pages
  BY <1>1, EvictStep DEF EvictFor
<1> DEFINE slot == DecodeSlotsOf(seq, last, e)
<1>7. \A i \in 1..n : slot[i] \in Nat
  BY <1>2, <1>4, <1>5, <1>6, DecodeSlotNat DEF DecodeSlotsOf
<1>8. req_to_token' = DecodeTable(running, req, req_to_token, slot)
  BY <1>5 DEF DecodeSlotsOf
<1> HIDE DEF slot
<1>9. DecodedRows(slot)
  <2>1. /\ TableOK(req_to_token')
        /\ \A i \in 1..n, x \in 1..MaxLen :
             req_to_token'[req[running[i]].req_pool_idx][x] =
               IF x = req[running[i]].seq_len + 1 THEN slot[i]
               ELSE req_to_token[req[running[i]].req_pool_idx][x]
    BY <1>1, <1>7, <1>8, DecodeTableIs
  <2> QED BY <2>1 DEF DecodedRows
<1>10. DecodedReqs(req, req')
  BY <1>1, <1>4, DecodedAre
<1>11. req' = [r \in Requests |-> req'[r]]
  BY <1>4
<1>12. DecodeStep(seq, last, e)
  BY <1>0, <1>4, <1>5, <1>6, <1>9, <1>10, <1>11 DEF DecodeStep, slot
<1> QED BY <1>12

\* prepare_for_decode keeps the invariant.
LEMMA DecodeKeeps ==
  ASSUME ManagerInv, PrepareForDecode
  PROVE  ManagerInv'
<1> DEFINE n == Len(running)
<1>1. /\ RequestsOK(tree, req) /\ TableOK(req_to_token) /\ SlotsOK(running, free_slots, req)
      /\ TreeOK(tree) /\ free_pages \in SUBSET Pages /\ Begins(req, req_to_token)
  BY DEF ManagerInv
<1>2. /\ n \in Nat
      /\ \A i \in 1..n : running[i] \in Requests /\ req[running[i]].state = "running"
      /\ \A r \in Requests : req[r].state = "running" => \E i \in 1..n : running[i] = r
  BY <1>1, RunningAre
<1>3. PICK seq, last, e : DecodeStep(seq, last, e)
  BY DecodeStepIs
<1>4. /\ tree' = e.tree
      /\ free_pages' = e.free \ Smallest(e.free, DecodePagesCpu(seq))
      /\ req' = [r \in Requests |-> req'[r]]
      /\ running' = running /\ free_slots' = free_slots
  BY <1>3 DEF DecodeStep
<1>5. TreeOK(e.tree) /\ RequestsOK(e.tree, req) /\ e.free \in SUBSET Pages
  BY <1>3 DEF DecodeStep
<1> DEFINE slot == DecodeSlotsOf(seq, last, e)
<1> HIDE DEF slot
<1>8. /\ TableOK(req_to_token')
      /\ \A i \in 1..n, x \in 1..MaxLen :
           req_to_token'[req[running[i]].req_pool_idx][x] =
             IF x = req[running[i]].seq_len + 1 THEN slot[i]
             ELSE req_to_token[req[running[i]].req_pool_idx][x]
  BY <1>3 DEF DecodeStep, DecodedRows, slot
<1>9. \A r \in Requests :
        /\ RequestOK(r, req'[r]) /\ req'[r].state = req[r].state /\ req'[r].req_pool_idx = req[r].req_pool_idx
        /\ req'[r].last_node = req[r].last_node /\ req'[r].prefix_indices = req[r].prefix_indices
  BY <1>3 DEF DecodeStep, DecodedReqs
<1>10. RequestsOK(e.tree, req')
  <2>1. req' = [r \in Requests |-> req'[r]]
    BY <1>4
  <2> QED BY <2>1, <1>5, <1>9, SameNodes
<1>11. Begins(req', req_to_token')
  <2> SUFFICES ASSUME NEW r \in Requests, req[r].state = "running", NEW x \in 1..Len(req[r].prefix_indices)
               PROVE  req_to_token'[req[r].req_pool_idx][x] = req[r].prefix_indices[x]
    BY <1>9 DEF Begins
  <2>1. PICK i \in 1..n : running[i] = r
    BY <1>2
  <2>2. /\ Len(req[r].prefix_indices) \in Nat /\ Len(req[r].prefix_indices) < Len(Prompt[r])
        /\ Len(Prompt[r]) \in Nat
    BY <1>1, PrefixLength
  <2>3. req[r].seq_len \in Len(Prompt[r])..(Len(Prompt[r]) + MaxOutput)
    BY <1>1 DEF RequestsOK, RequestOK
  <2>4. MaxLen \in Nat /\ Len(Prompt[r]) + MaxOutput <= MaxLen /\ MaxOutput \in Nat
    BY RowsLongEnough
  <2>5. x \in 1..MaxLen /\ x # req[r].seq_len + 1
    BY <2>2, <2>3, <2>4
  <2>6. req_to_token'[req[r].req_pool_idx][x] = req_to_token[req[r].req_pool_idx][x]
    BY <2>1, <2>5, <1>8
  <2> QED BY <2>6, <1>1 DEF Begins
<1>12. SlotsOK(running, free_slots, req')
  <2>1. {r \in Requests : req'[r].state = "running"} = {r \in Requests : req[r].state = "running"}
    BY <1>9
  <2>2. \A r \in Range(running) : req'[r].req_pool_idx = req[r].req_pool_idx
    BY <1>1, <1>9 DEF SlotsOK
  <2>3. {req'[r].req_pool_idx : r \in Range(running)} = {req[r].req_pool_idx : r \in Range(running)}
    BY <2>2
  <2> QED BY <2>1, <2>2, <2>3, <1>1 DEF SlotsOK
<1>13. free_pages' \subseteq Pages /\ TreeOK(tree') /\ RequestsOK(tree', req')
  BY <1>4, <1>5, <1>10
<1>14. running' = running /\ free_slots' = free_slots
  BY <1>4
<1> QED BY <1>8, <1>11, <1>12, <1>13, <1>14 DEF ManagerInv

\* A batch of matched requests for which there are rows.
BatchOK(b) ==
  /\ b \in Seq(Requests) /\ IsInjective(b) /\ Len(b) <= Len(free_slots)
  /\ \A i \in 1..Len(b) : req[b[i]].state = "matched"

\* The arguments of alloc_pages_extend.
ExtendArgs(b, pre, seq, need, last) ==
  /\ pre = [i \in 1..Len(b) |-> Protected(b[i])]
  /\ seq = [i \in 1..Len(b) |-> Len(req[b[i]].tokens)]
  /\ need = [i \in 1..Len(b) |-> NewPages(pre[i], seq[i])]
  /\ last = [i \in 1..Len(b) |-> IF pre[i] = 0 THEN -1 ELSE Last(req[b[i]].prefix_indices)]

\* What an extend makes of the table: the first free rows get the prefix and the new indices.
ExtendTable(b, free, q, m, pre, seq, slot) ==
  [j \in Rows |->
     IF \E i \in 1..Len(b) : free[i] = j
       THEN LET i == CHOOSE i \in 1..Len(b) : free[i] = j
            IN [x \in 1..MaxLen |->
                  IF x <= pre[i] THEN q[b[i]].prefix_indices[x]
                  ELSE IF x <= seq[i] THEN slot[i][x]
                  ELSE m[j][x]]
       ELSE m[j]]

\* The requests after an extend.
ExtendReqs(b, free, q) ==
  [r \in Requests |->
     IF \E i \in 1..Len(b) : b[i] = r
       THEN [q[r] EXCEPT !.state = "running", !.seq_len = Len(q[r].tokens),
                         !.req_pool_idx = free[CHOOSE i \in 1..Len(b) : b[i] = r]]
       ELSE q[r]]

\* What prepare_for_extend does with the pages of e.
ExtendEffect(b, pre, seq, need, last, e) ==
  /\ NeedTotal(need, Len(b)) <= Cardinality(e.free)
  /\ tree' = e.tree
  /\ free_pages' = e.free \ Smallest(e.free, NeedTotal(need, Len(b)))
  /\ req_to_token' = ExtendTable(b, free_slots, req, req_to_token, pre, seq,
                       [i \in 1..Len(b) |-> [x \in 1..MaxLen |->
                          ExtendSlot(e.free, pre, need, last, i, x - 1)]])
  /\ free_slots' = SubSeq(free_slots, Len(b) + 1, Len(free_slots))
  /\ running' = running \o b
  /\ req' = ExtendReqs(b, free_slots, req)

\* prepare_for_extend in the terms of the lemmas.
LEMMA ExtendIs ==
  ASSUME ManagerInv, NEW b, PrepareForExtend(b), NEW pre, NEW seq, NEW need, NEW last,
         ExtendArgs(b, pre, seq, need, last)
  PROVE  /\ \A i \in 1..Len(b) : req[b[i]].state = "matched"
         /\ Len(b) <= Len(free_slots)
         /\ \E k : \E e \in EvictFor(k) : ExtendEffect(b, pre, seq, need, last, e)
<1> DEFINE n == Len(b)
           T(e, pr, sq, nd, la) ==
             [j \in Rows |->
                IF \E i \in 1..n : free_slots[i] = j
                  THEN LET i == CHOOSE i \in 1..n : free_slots[i] = j
                       IN [x \in 1..MaxLen |->
                             IF x <= pr[i] THEN req[b[i]].prefix_indices[x]
                             ELSE IF x <= sq[i] THEN ExtendSlot(e.free, pr, nd, la, i, x - 1)
                             ELSE req_to_token[j][x]]
                  ELSE req_to_token[j]]
           P(k, pr, sq, nd, la) ==
             /\ \A i \in 1..n : req[b[i]].state = "matched"
             /\ n <= Len(free_slots)
             /\ \E e \in EvictFor(k) :
                  /\ NeedTotal(nd, n) <= Cardinality(e.free)
                  /\ tree' = e.tree
                  /\ free_pages' = e.free \ Smallest(e.free, NeedTotal(nd, n))
                  /\ req_to_token' = T(e, pr, sq, nd, la)
             /\ free_slots' = SubSeq(free_slots, n + 1, Len(free_slots))
             /\ running' = running \o b
             /\ req' = [r \in Requests |->
                          IF \E i \in 1..n : b[i] = r
                            THEN [req[r] EXCEPT !.state = "running", !.seq_len = Len(req[r].tokens),
                                    !.req_pool_idx = free_slots[CHOOSE i \in 1..n : b[i] = r]]
                            ELSE req[r]]
           pa == [i \in 1..n |-> Protected(b[i])]
           sa == [i \in 1..n |-> Len(req[b[i]].tokens)]
           na == [i \in 1..n |-> NewPages(pa[i], sa[i])]
           la0 == [i \in 1..n |-> IF pa[i] = 0 THEN -1 ELSE Last(req[b[i]].prefix_indices)]
           total == FoldFunction(+, 0, [i \in 1..n |-> sa[i] - pa[i]])
<1>1. P(total, pa, sa, na, la0)
  BY Zenon DEF PrepareForExtend
<1>2. pre = pa /\ seq = sa
  BY DEF ExtendArgs
<1>3. need = [i \in 1..n |-> NewPages(pre[i], seq[i])]
      /\ last = [i \in 1..n |-> IF pre[i] = 0 THEN -1 ELSE Last(req[b[i]].prefix_indices)]
  BY DEF ExtendArgs
<1>4. need = na /\ last = la0
  <2> HIDE DEF pa, sa
  <2> QED BY <1>2, <1>3
<1> HIDE DEF pa, sa, na, la0, P, total
<1>5. P(total, pre, seq, need, last)
  BY <1>1, <1>2, <1>4
<1>6. ASSUME NEW e PROVE
        T(e, pre, seq, need, last)
        = ExtendTable(b, free_slots, req, req_to_token, pre, seq,
            [i \in 1..n |-> [x \in 1..MaxLen |-> ExtendSlot(e.free, pre, need, last, i, x - 1)]])
  <2> DEFINE slot == [i \in 1..n |-> [x \in 1..MaxLen |-> ExtendSlot(e.free, pre, need, last, i, x - 1)]]
             c(j) == CHOOSE i \in 1..n : free_slots[i] = j
             f(i, j) == [x \in 1..MaxLen |->
                        IF x <= pre[i] THEN req[b[i]].prefix_indices[x]
                        ELSE IF x <= seq[i] THEN ExtendSlot(e.free, pre, need, last, i, x - 1)
                        ELSE req_to_token[j][x]]
             g(i, j) == [x \in 1..MaxLen |->
                        IF x <= pre[i] THEN req[b[i]].prefix_indices[x]
                        ELSE IF x <= seq[i] THEN slot[i][x]
                        ELSE req_to_token[j][x]]
  <2>1. \A i \in 1..n, x \in 1..MaxLen : slot[i][x] = ExtendSlot(e.free, pre, need, last, i, x - 1)
    OBVIOUS
  <2>2. \A i \in 1..n, j \in Rows : f(i, j) = g(i, j)
    <3> HIDE DEF slot
    <3> QED BY <2>1
  <2>3. \A j \in Rows : (\E i \in 1..n : free_slots[i] = j) => c(j) \in 1..n
    OBVIOUS
  <2>4. ExtendTable(b, free_slots, req, req_to_token, pre, seq, slot)
          = [j \in Rows |-> IF \E i \in 1..n : free_slots[i] = j THEN g(c(j), j) ELSE req_to_token[j]]
    BY DEF ExtendTable
  <2> HIDE DEF f, g, c, slot
  <2>5. [j \in Rows |-> IF \E i \in 1..n : free_slots[i] = j THEN f(c(j), j) ELSE req_to_token[j]]
          = [j \in Rows |-> IF \E i \in 1..n : free_slots[i] = j THEN g(c(j), j) ELSE req_to_token[j]]
    BY <2>2, <2>3
  <2> QED BY <2>4, <2>5 DEF f, c, slot
<1>7. ExtendReqs(b, free_slots, req) =
        [r \in Requests |->
           IF \E i \in 1..n : b[i] = r
             THEN [req[r] EXCEPT !.state = "running", !.seq_len = Len(req[r].tokens),
                     !.req_pool_idx = free_slots[CHOOSE i \in 1..n : b[i] = r]]
             ELSE req[r]]
  BY DEF ExtendReqs
<1>8. PICK k : k = total
  OBVIOUS
<1>9. PICK e \in EvictFor(k) : ExtendEffect(b, pre, seq, need, last, e)
  <2>1. P(k, pre, seq, need, last)
    BY <1>5, <1>8
  <2>2. \E e \in EvictFor(k) :
          /\ NeedTotal(need, n) <= Cardinality(e.free)
          /\ tree' = e.tree
          /\ free_pages' = e.free \ Smallest(e.free, NeedTotal(need, n))
          /\ req_to_token' = ExtendTable(b, free_slots, req, req_to_token, pre, seq,
               [i \in 1..n |-> [x \in 1..MaxLen |-> ExtendSlot(e.free, pre, need, last, i, x - 1)]])
    <3> HIDE DEF T
    <3> QED BY <2>1, <1>6, Zenon DEF P
  <2>3. /\ free_slots' = SubSeq(free_slots, n + 1, Len(free_slots))
        /\ running' = running \o b
        /\ req' = ExtendReqs(b, free_slots, req)
    <3> HIDE DEF T
    <3> QED BY <2>1, <1>7, Zenon DEF P
  <2> QED BY <2>2, <2>3, Zenon DEF ExtendEffect
<1>10. (\A i \in 1..Len(b) : req[b[i]].state = "matched") /\ Len(b) <= Len(free_slots)
  BY <1>5 DEF P
<1> QED BY <1>9, <1>10

\* The entries an extend writes are numbers.
ExtendEntries(b, q, pre, seq, slot) ==
  \A i \in 1..Len(b), x \in 1..MaxLen :
    /\ x <= pre[i] => q[b[i]].prefix_indices[x] \in Nat
    /\ ~ (x <= pre[i]) /\ x <= seq[i] => slot[i][x] \in Nat

\* The table d after a batch b has been written to the table m.
ExtendedRows(b, free, q, m, pre, seq, slot, d) ==
  /\ TableOK(d)
  /\ \A i \in 1..Len(b), x \in 1..MaxLen :
       d[free[i]][x] = IF x <= pre[i] THEN q[b[i]].prefix_indices[x]
                       ELSE IF x <= seq[i] THEN slot[i][x] ELSE m[free[i]][x]
  /\ \A j \in Rows : (\A i \in 1..Len(b) : free[i] # j) => d[j] = m[j]

\* Entry by entry.
LEMMA ExtendTableIs ==
  ASSUME NEW b, NEW free \in Seq(Rows), IsInjective(free), Len(b) \in Nat, Len(b) <= Len(free),
         NEW m, TableOK(m), NEW q, NEW pre, NEW seq, NEW slot, ExtendEntries(b, q, pre, seq, slot),
         NEW d, d = ExtendTable(b, free, q, m, pre, seq, slot)
  PROVE  ExtendedRows(b, free, q, m, pre, seq, slot, d)
<1>1. /\ \A i \in 1..Len(b) : free[i] \in Rows
      /\ \A i, k \in 1..Len(b) : free[i] = free[k] => i = k
  <2>1. Len(free) \in Nat /\ DOMAIN free = 1..Len(free) /\ \A i \in 1..Len(free) : free[i] \in Rows
    BY Elements
  <2>2. \A i \in 1..Len(b) : i \in 1..Len(free)
    BY <2>1
  <2> QED BY <2>1, <2>2 DEF IsInjective
<1> DEFINE f(i, j) == [x \in 1..MaxLen |->
                        IF x <= pre[i] THEN q[b[i]].prefix_indices[x]
                        ELSE IF x <= seq[i] THEN slot[i][x]
                        ELSE m[j][x]]
           c(j) == CHOOSE i \in 1..Len(b) : free[i] = j
<1>2. d = [j \in Rows |-> IF \E i \in 1..Len(b) : free[i] = j THEN f(c(j), j) ELSE m[j]]
  BY DEF ExtendTable
<1>3. \A j \in Rows : m[j] \in [1..MaxLen -> Nat]
  BY DEF TableOK
<1>4. ASSUME NEW i \in 1..Len(b), NEW j \in Rows PROVE f(i, j) \in [1..MaxLen -> Nat]
  <2>1. \A x \in 1..MaxLen : m[j][x] \in Nat
    BY <1>3
  <2> QED BY <2>1 DEF ExtendEntries
<1>5. \A j \in Rows : (\E i \in 1..Len(b) : free[i] = j) => c(j) \in 1..Len(b) /\ free[c(j)] = j
  OBVIOUS
<1>6. ASSUME NEW i \in 1..Len(b), NEW x \in 1..MaxLen
      PROVE  f(i, free[i])[x] = IF x <= pre[i] THEN q[b[i]].prefix_indices[x]
                                ELSE IF x <= seq[i] THEN slot[i][x] ELSE m[free[i]][x]
  OBVIOUS
<1> HIDE DEF f, c
<1>7. ASSUME NEW i \in 1..Len(b) PROVE d[free[i]] = f(i, free[i])
  <2>1. free[i] \in Rows /\ c(free[i]) \in 1..Len(b) /\ free[c(free[i])] = free[i]
    BY <1>1, <1>5
  <2>2. c(free[i]) = i
    BY <2>1, <1>1
  <2> QED BY <2>1, <2>2, <1>2
<1>8. \A j \in Rows : (\A i \in 1..Len(b) : free[i] # j) => d[j] = m[j]
  BY <1>2
<1>9. TableOK(d)
  <2>1. \A j \in Rows : d[j] \in [1..MaxLen -> Nat]
    BY <1>2, <1>3, <1>4, <1>5
  <2>2. d = [j \in Rows |-> d[j]]
    BY <1>2
  <2> QED BY <2>1, <2>2 DEF TableOK
<1> QED BY <1>6, <1>7, <1>8, <1>9 DEF ExtendedRows

\* What the requests h of a batch are, from what they were.
ExtendedReqs(b, free, q, h) ==
  /\ h = [r \in Requests |-> h[r]]
  /\ \A i \in 1..Len(b) :
       /\ b[i] \in Requests /\ RequestOK(b[i], h[b[i]]) /\ h[b[i]].state = "running"
       /\ h[b[i]].req_pool_idx = free[i]
       /\ h[b[i]].last_node = q[b[i]].last_node /\ h[b[i]].prefix_indices = q[b[i]].prefix_indices
       /\ h[b[i]].tokens = q[b[i]].tokens /\ h[b[i]].seq_len = Len(q[b[i]].tokens)
  /\ \A r \in Requests : (\A i \in 1..Len(b) : b[i] # r) => h[r] = q[r]

\* The requests of the batch, and the others.
LEMMA ExtendedAre ==
  ASSUME NEW t, NEW q, RequestsOK(t, q), NEW b \in Seq(Requests), IsInjective(b),
         NEW free \in Seq(Rows), Len(b) <= Len(free),
         \A i \in 1..Len(b) : q[b[i]].state = "matched",
         NEW h, h = ExtendReqs(b, free, q)
  PROVE  ExtendedReqs(b, free, q, h)
<1>1. /\ Len(b) \in Nat /\ DOMAIN b = 1..Len(b) /\ \A i \in 1..Len(b) : b[i] \in Requests
      /\ Len(free) \in Nat /\ \A i \in 1..Len(free) : free[i] \in Rows
  BY Elements
<1>2. \A i, j \in 1..Len(b) : b[i] = b[j] => i = j
  BY <1>1 DEF IsInjective
<1> DEFINE c(r) == CHOOSE i \in 1..Len(b) : b[i] = r
           f(x, j) == [x EXCEPT !.state = "running", !.seq_len = Len(x.tokens), !.req_pool_idx = j]
<1>3. h = [r \in Requests |-> IF \E i \in 1..Len(b) : b[i] = r THEN f(q[r], free[c(r)]) ELSE q[r]]
  BY DEF ExtendReqs
<1>4. \A i \in 1..Len(b) : c(b[i]) = i
  <2> TAKE i \in 1..Len(b)
  <2>1. c(b[i]) \in 1..Len(b) /\ b[c(b[i])] = b[i]
    OBVIOUS
  <2> HIDE DEF c
  <2> QED BY <2>1, <1>2
<1>5. ASSUME NEW i \in 1..Len(b)
      PROVE  LET r == b[i] y == f(q[r], free[i])
             IN /\ RequestOK(r, y)
                /\ Fields(y, "running", q[r].tokens, free[i], q[r].last_node, q[r].prefix_indices,
                          q[r].matches, Len(q[r].tokens))
  <2>1. PICK r \in Requests : r = b[i]
    BY <1>1
  <2>2. PICK j \in Rows : j = free[i]
    BY <1>1
  <2>3. RequestOK(r, q[r]) /\ q[r].state = "matched"
    BY <2>1 DEF RequestsOK
  <2> DEFINE y == f(q[r], j)
  <2>4. /\ RequestOK(r, y)
        /\ Fields(y, "running", q[r].tokens, j, q[r].last_node, q[r].prefix_indices, q[r].matches,
                  Len(q[r].tokens))
    BY <2>3, ExtendRequest
  <2> HIDE DEF f
  <2> QED BY <2>1, <2>2, <2>4
<1> HIDE DEF f, c
<1>6. ASSUME NEW i \in 1..Len(b) PROVE h[b[i]] = f(q[b[i]], free[i])
  BY <1>1, <1>3, <1>4
<1>7. ASSUME NEW i \in 1..Len(b)
      PROVE  /\ b[i] \in Requests /\ RequestOK(b[i], h[b[i]]) /\ h[b[i]].state = "running"
             /\ h[b[i]].req_pool_idx = free[i]
             /\ h[b[i]].last_node = q[b[i]].last_node /\ h[b[i]].prefix_indices = q[b[i]].prefix_indices
             /\ h[b[i]].tokens = q[b[i]].tokens /\ h[b[i]].seq_len = Len(q[b[i]].tokens)
  <2>1. PICK r, y, j : r = b[i] /\ y = h[r] /\ j = free[i]
    OBVIOUS
  <2>2. /\ RequestOK(r, y)
        /\ Fields(y, "running", q[r].tokens, j, q[r].last_node, q[r].prefix_indices, q[r].matches,
                  Len(q[r].tokens))
    BY <2>1, <1>5, <1>6
  <2>3. y.state = "running" /\ y.tokens = q[r].tokens /\ y.req_pool_idx = j
    BY ONLY <2>2 DEF Fields
  <2>4. y.last_node = q[r].last_node /\ y.prefix_indices = q[r].prefix_indices
        /\ y.seq_len = Len(q[r].tokens)
    BY ONLY <2>2 DEF Fields
  <2> QED BY <2>1, <2>2, <2>3, <2>4, <1>1
<1>8. \A r \in Requests : (\A i \in 1..Len(b) : b[i] # r) => h[r] = q[r]
  BY <1>3
<1> QED BY <1>3, <1>7, <1>8 DEF ExtendedReqs

\* Numbers over an interval are bounded.
LEMMA Bounded ==
  ASSUME NEW n \in Nat, NEW f \in [1..n -> Nat]
  PROVE  \E m \in Nat : f \in [1..n -> 0..m]
<1> DEFINE T == {f[i] : i \in 1..n}
<1>1. CASE n = 0
  <2>1. f \in [1..n -> 0..0]
    BY <1>1
  <2> QED BY <2>1
<1>2. CASE n # 0
  <2>1. f \in [1..n -> T] /\ (\A y \in T : \E i \in 1..n : f[i] = y) /\ T \in SUBSET Nat
    OBVIOUS
  <2>2. 1 \in 1..n
    BY <1>2
  <2>3. T # {}
    BY <2>2
  <2>4. IsFiniteSet(1..n)
    BY IntervalCard
  <2> HIDE DEF T
  <2>5. IsFiniteSet(T)
    BY <2>1, <2>4, ImageCount
  <2>6. PICK m \in T : \A y \in T : y <= m
    BY <2>1, <2>3, <2>5, GreatestOf
  <2>7. m \in Nat /\ \A i \in 1..n : f[i] \in 0..m
    <3>1. m \in Nat
      BY <2>1
    <3>2. \A i \in 1..n : f[i] \in T
      BY <2>1
    <3> QED BY <3>1, <3>2, <2>6
  <2>8. f \in [1..n -> 0..m]
    BY <2>7
  <2> QED BY <2>7, <2>8
<1> QED BY <1>1, <1>2

\* What the arguments of a batch are.
ArgsOK(b, pre, seq, need, last) ==
  /\ Len(b) \in Nat
  /\ \A i \in 1..Len(b) :
       /\ b[i] \in Requests /\ seq[i] = Len(req[b[i]].tokens) /\ seq[i] \in Nat
       /\ pre[i] = Len(req[b[i]].prefix_indices) /\ pre[i] \in Nat /\ pre[i] < seq[i]
       /\ seq[i] = Len(Prompt[b[i]])
       /\ need[i] = NewPages(pre[i], seq[i]) /\ need[i] \in Nat
       /\ pre[i] # 0 => last[i] \in Nat /\ last[i] = req[b[i]].prefix_indices[pre[i]]
  /\ \E m \in Nat : need \in [1..Len(b) -> 0..m]

\* What alloc_pages_extend is given.
LEMMA ExtendArgsAre ==
  ASSUME ManagerInv, NEW b, BatchOK(b), NEW pre, NEW seq, NEW need, NEW last,
         ExtendArgs(b, pre, seq, need, last)
  PROVE  ArgsOK(b, pre, seq, need, last)
<1>1. RequestsOK(tree, req) /\ TreeOK(tree) /\ b \in Seq(Requests)
      /\ \A i \in 1..Len(b) : req[b[i]].state = "matched"
  BY DEF ManagerInv, BatchOK
<1>2. Len(b) \in Nat /\ \A i \in 1..Len(b) : b[i] \in Requests
  BY <1>1, Elements
<1>3. ASSUME NEW i \in 1..Len(b)
      PROVE  /\ b[i] \in Requests /\ seq[i] = Len(req[b[i]].tokens) /\ seq[i] \in Nat
             /\ pre[i] = Len(req[b[i]].prefix_indices) /\ pre[i] \in Nat /\ pre[i] < seq[i]
             /\ seq[i] = Len(Prompt[b[i]])
             /\ need[i] = NewPages(pre[i], seq[i]) /\ need[i] \in Nat
             /\ pre[i] # 0 => last[i] \in Nat /\ last[i] = req[b[i]].prefix_indices[pre[i]]
  <2>1. PICK r \in Requests : r = b[i]
    BY <1>2
  <2> DEFINE p == req[r].prefix_indices
  <2>2. /\ seq[i] = Len(req[r].tokens) /\ pre[i] = Len(p) /\ need[i] = NewPages(pre[i], seq[i])
        /\ last[i] = IF pre[i] = 0 THEN -1 ELSE Last(p)
    BY <2>1 DEF ExtendArgs, Protected
  <2>3. RequestOK(r, req[r]) /\ req[r].state = "matched"
    BY <2>1, <1>1 DEF RequestsOK
  <2>4. req[r].tokens = Prompt[r] /\ Len(Prompt[r]) \in Nat \ {0}
    BY <2>3, TokensOf DEF RequestOK
  <2>5. p \in Seq(Nat) /\ Len(p) \in Nat /\ Len(p) < Len(Prompt[r])
    BY <1>1, PrefixLength
  <2> HIDE DEF p
  <2>6. need[i] \in Nat
    <3>1. PICK k \in Nat, l \in Nat : k = pre[i] /\ l = seq[i] /\ k <= l
      BY <2>2, <2>4, <2>5
    <3>2. NewPages(k, l) \in Nat
      BY <3>1, CeilMono
    <3> QED BY <3>1, <3>2, <2>2
  <2>7. pre[i] # 0 => last[i] \in Nat /\ last[i] = p[pre[i]]
    <3> SUFFICES ASSUME pre[i] # 0 PROVE last[i] \in Nat /\ last[i] = p[pre[i]]
      OBVIOUS
    <3>1. Len(p) \in 1..Len(p)
      BY <2>2, <2>5
    <3>2. p[Len(p)] \in Nat
      BY <3>1, <2>5, ElementOfSeq
    <3> QED BY <3>2, <2>2 DEF Last
  <2> QED BY <2>1, <2>2, <2>4, <2>5, <2>6, <2>7 DEF p
<1>4. need \in [1..Len(b) -> Nat]
  <2>1. need = [i \in 1..Len(b) |-> need[i]]
    BY DEF ExtendArgs
  <2> QED BY <2>1, <1>3
<1>5. \E m \in Nat : need \in [1..Len(b) -> 0..m]
  BY <1>2, <1>4, Bounded
<1> QED BY <1>2, <1>3, <1>5 DEF ArgsOK

\* u is s without its first k entries.
Behind(S, s, k, u) ==
  /\ u \in Seq(S) /\ Len(u) = Len(s) - k /\ Len(s) \in Nat
  /\ \A i \in 1..k : s[i] \in S
  /\ Range(u) \cup {s[i] : i \in 1..k} = Range(s)
  /\ IsInjective(s) => IsInjective(u) /\ (\A i \in 1..k : s[i] \notin Range(u))
                       /\ \A i, j \in 1..k : s[i] = s[j] => i = j

\* The rows that stay free.
LEMMA RowsLeft ==
  ASSUME NEW S, NEW s \in Seq(S), NEW k \in 0..Len(s), NEW u, u = SubSeq(s, k + 1, Len(s))
  PROVE  Behind(S, s, k, u)
<1>1. Len(s) \in Nat /\ DOMAIN s = 1..Len(s) /\ \A i \in 1..Len(s) : s[i] \in S
  BY Elements
<1> DEFINE n == Len(s)
           m == k + 1
<1>2. k \in Nat /\ k <= n /\ m \in Int /\ n \in Int /\ \A i \in m..n : s[i] \in S
  BY <1>1
<1>3. u = SubSeq(s, m, n)
  OBVIOUS
<1> HIDE DEF m, n
<1>4. /\ u \in Seq(S) /\ Len(u) = (IF m <= n THEN n - m + 1 ELSE 0)
      /\ \A i \in 1..(n - m + 1) : u[i] = s[m + i - 1]
  <2> DEFINE x == SubSeq(s, m, n)
  <2>1. /\ x \in Seq(S) /\ Len(x) = (IF m <= n THEN n - m + 1 ELSE 0)
        /\ \A i \in 1..(n - m + 1) : x[i] = s[m + i - 1]
    BY <1>2, SubSeqProperties
  <2> QED BY <2>1, <1>3
<1>5. Len(u) = n - k /\ \A i \in 1..(n - k) : u[i] = s[k + i]
  <2>1. n - m + 1 = n - k /\ (m <= n \/ n - k = 0) /\ \A i \in 1..(n - k) : m + i - 1 = k + i
    BY <1>2 DEF m
  <2> QED BY <2>1, <1>4, <1>2
<1>6. DOMAIN u = 1..(n - k)
  BY <1>4, <1>5, LenProperties
<1>7. Range(u) = {s[i] : i \in (k + 1)..n}
  <2>1. ASSUME NEW i \in (k + 1)..n PROVE s[i] \in Range(u)
    <3>1. i - k \in 1..(n - k) /\ k + (i - k) = i
      BY <1>2
    <3>2. u[i - k] = s[i]
      BY <3>1, <1>5
    <3> QED BY <3>1, <3>2, <1>6 DEF Range
  <2>2. ASSUME NEW i \in 1..(n - k) PROVE u[i] \in {s[j] : j \in (k + 1)..n}
    <3>1. k + i \in (k + 1)..n /\ u[i] = s[k + i]
      BY <1>2, <1>5
    <3> QED BY <3>1
  <2> QED BY <2>1, <2>2, <1>6 DEF Range
<1>8. Range(u) \cup {s[i] : i \in 1..k} = Range(s)
  <2>1. Range(s) = {s[i] : i \in 1..n}
    BY <1>1 DEF Range, n
  <2>2. 1..n = 1..k \cup (k + 1)..n
    BY <1>2
  <2> QED BY <2>1, <2>2, <1>7
<1>9. ASSUME IsInjective(s)
      PROVE  IsInjective(u) /\ (\A i \in 1..k : s[i] \notin Range(u)) /\ \A i, j \in 1..k : s[i] = s[j] => i = j
  <2>1. \A i, j \in 1..n : s[i] = s[j] => i = j
    BY <1>1, <1>9 DEF IsInjective, n
  <2>2. IsInjective(u)
    <3> SUFFICES ASSUME NEW i \in 1..(n - k), NEW j \in 1..(n - k), u[i] = u[j] PROVE i = j
      BY <1>6 DEF IsInjective
    <3>1. s[k + i] = s[k + j] /\ k + i \in 1..n /\ k + j \in 1..n
      BY <1>2, <1>5
    <3>2. k + i = k + j
      BY <3>1, <2>1
    <3> QED BY <3>2, <1>2
  <2>3. \A i \in 1..k : s[i] \notin Range(u)
    <3> SUFFICES ASSUME NEW i \in 1..k, NEW j \in (k + 1)..n, s[i] = s[j] PROVE FALSE
      BY <1>7
    <3>1. i \in 1..n /\ j \in 1..n /\ i # j
      BY <1>2
    <3> QED BY <3>1, <2>1
  <2>4. \A i, j \in 1..k : s[i] = s[j] => i = j
    BY <2>1, <1>2
  <2> QED BY <2>2, <2>3, <2>4
<1>10. \A i \in 1..k : s[i] \in S
  BY <1>1, <1>2 DEF n
<1>11. u \in Seq(S) /\ Len(s) \in Nat
  BY <1>1, <1>4
<1>12. Len(u) = Len(s) - k
  BY <1>5, <1>1 DEF n
<1> QED BY ONLY <1>8, <1>9, <1>10, <1>11, <1>12 DEF Behind

\* Rows and requests after an extend.
LEMMA ExtendSlots ==
  ASSUME NEW run, NEW free, NEW q, SlotsOK(run, free, q),
         NEW b \in Seq(Requests), IsInjective(b), Len(b) <= Len(free),
         \A i \in 1..Len(b) : q[b[i]].state = "matched",
         NEW h, \A i \in 1..Len(b) : h[b[i]].state = "running" /\ h[b[i]].req_pool_idx = free[i],
         \A r \in Requests : (\A i \in 1..Len(b) : b[i] # r) => h[r] = q[r]
  PROVE  SlotsOK(run \o b, SubSeq(free, Len(b) + 1, Len(free)), h)
<1>1. /\ run \in Seq(Requests) /\ IsInjective(run) /\ Range(run) = {r \in Requests : q[r].state = "running"}
      /\ free \in Seq(Rows) /\ IsInjective(free)
      /\ Range(free) \cup {q[r].req_pool_idx : r \in Range(run)} = Rows
      /\ \A r \in Range(run) : q[r].req_pool_idx \notin Range(free)
      /\ \A r, s \in Range(run) : q[r].req_pool_idx = q[s].req_pool_idx => r = s
      /\ Len(free) + Len(run) = MaxRequests
  BY DEF SlotsOK
<1>2. /\ Len(b) \in Nat /\ DOMAIN b = 1..Len(b) /\ \A i \in 1..Len(b) : b[i] \in Requests
      /\ Len(free) \in Nat /\ Len(run) \in Nat
  BY <1>1, Elements
<1> DEFINE k == Len(b)
           u == SubSeq(free, k + 1, Len(free))
           c == run \o b
<1>3. k \in 0..Len(free)
  BY <1>2
<1>4. /\ u \in Seq(Rows) /\ Len(u) = Len(free) - k
      /\ \A i \in 1..k : free[i] \in Rows
      /\ Range(u) \cup {free[i] : i \in 1..k} = Range(free)
      /\ IsInjective(u) /\ \A i \in 1..k : free[i] \notin Range(u)
      /\ \A i, j \in 1..k : free[i] = free[j] => i = j
  <2>1. free \in Seq(Rows) /\ IsInjective(free)
    BY <1>1
  <2>2. u = SubSeq(free, k + 1, Len(free))
    OBVIOUS
  <2> HIDE DEF k, u
  <2>3. Behind(Rows, free, k, u)
    BY ONLY <2>1, <2>2, <1>3, RowsLeft
  <2> QED BY ONLY <2>1, <2>3 DEF Behind
<1>5. Range(b) = {b[i] : i \in 1..k} /\ \A i, j \in 1..k : b[i] = b[j] => i = j
  BY <1>2 DEF Range, IsInjective
<1>6. Range(run) \cap Range(b) = {}
  BY <1>1, <1>2, <1>5
<1>7. c \in Seq(Requests) /\ Range(c) = Range(run) \cup Range(b) /\ IsInjective(c)
  BY <1>1, <1>6, RangeConcat
<1>8. Len(c) = Len(run) + k
  BY <1>1, ConcatProperties
<1> HIDE DEF u, c
<1>9. \A r \in Range(run) : h[r] = q[r]
  BY <1>1, <1>5, <1>6
<1>10. \A i \in 1..k : h[b[i]].state = "running" /\ h[b[i]].req_pool_idx = free[i]
  OBVIOUS
<1>11. \A r \in Requests : r \notin Range(b) => h[r] = q[r]
  BY <1>5
<1> HIDE DEF k
<1>12. Range(c) = {r \in Requests : h[r].state = "running"}
  <2>1. ASSUME NEW r \in Range(c) PROVE r \in Requests /\ h[r].state = "running"
    BY <1>1, <1>2, <1>5, <1>7, <1>9, <1>10 DEF k
  <2>2. ASSUME NEW r \in Requests, h[r].state = "running" PROVE r \in Range(c)
    <3>1. CASE r \in Range(b)
      BY <3>1, <1>7
    <3>2. CASE r \notin Range(b)
      BY <2>2, <3>2, <1>1, <1>7, <1>11
    <3> QED BY <3>1, <3>2
  <2> QED BY <2>1, <2>2
<1>13. Range(u) \cup {h[r].req_pool_idx : r \in Range(c)} = Rows
  <2>1. {h[r].req_pool_idx : r \in Range(c)}
          = {q[r].req_pool_idx : r \in Range(run)} \cup {free[i] : i \in 1..k}
    <3>1. ASSUME NEW r \in Range(c)
          PROVE  h[r].req_pool_idx \in {q[p].req_pool_idx : p \in Range(run)} \cup {free[i] : i \in 1..k}
      <4>1. CASE r \in Range(run)
        BY <4>1, <1>9
      <4>2. CASE r \in Range(b)
        BY <4>2, <1>5, <1>10
      <4> QED BY <4>1, <4>2, <1>7
    <3>2. ASSUME NEW r \in Range(run) PROVE q[r].req_pool_idx \in {h[p].req_pool_idx : p \in Range(c)}
      BY <1>7, <1>9
    <3>3. ASSUME NEW i \in 1..k PROVE free[i] \in {h[p].req_pool_idx : p \in Range(c)}
      <4>1. b[i] \in Range(c) /\ h[b[i]].req_pool_idx = free[i]
        BY <1>5, <1>7, <1>10
      <4> QED BY <4>1
    <3> QED BY <3>1, <3>2, <3>3
  <2> QED BY <2>1, <1>1, <1>4
<1>14. \A r \in Range(c) : h[r].req_pool_idx \notin Range(u)
  <2> TAKE r \in Range(c)
  <2>1. CASE r \in Range(run)
    BY <2>1, <1>1, <1>4, <1>9
  <2>2. CASE r \in Range(b)
    BY <2>2, <1>4, <1>5, <1>10
  <2> QED BY <2>1, <2>2, <1>7
<1>15. \A r, s \in Range(c) : h[r].req_pool_idx = h[s].req_pool_idx => r = s
  <2>1. \A i \in 1..k : free[i] \in Range(free)
    BY <1>4
  <2>2. ASSUME NEW r \in Range(run), NEW s \in Range(b) PROVE h[r].req_pool_idx # h[s].req_pool_idx
    <3>1. h[r].req_pool_idx \notin Range(free)
      BY <1>1, <1>9
    <3>2. h[s].req_pool_idx \in Range(free)
      BY <2>1, <1>5, <1>10
    <3> QED BY <3>1, <3>2
  <2>3. ASSUME NEW r \in Range(run), NEW s \in Range(run), h[r].req_pool_idx = h[s].req_pool_idx PROVE r = s
    BY <2>3, <1>1, <1>9
  <2>4. ASSUME NEW r \in Range(b), NEW s \in Range(b), h[r].req_pool_idx = h[s].req_pool_idx PROVE r = s
    <3>1. PICK i \in 1..k, j \in 1..k : r = b[i] /\ s = b[j]
      BY <1>5
    <3>2. free[i] = free[j]
      BY <3>1, <2>4, <1>10
    <3> QED BY <3>1, <3>2, <1>4
  <2> QED BY <2>2, <2>3, <2>4, <1>7
<1>16. Len(u) + Len(c) = MaxRequests
  <2>1. k \in Nat
    BY <1>2 DEF k
  <2> QED BY <2>1, <1>1, <1>2, <1>4, <1>8
<1> QED BY <1>4, <1>7, <1>12, <1>13, <1>14, <1>15, <1>16 DEF SlotsOK, k, u, c

\* The indices of a batch.
ExtendSlotsOf(b, pre, need, last, e) ==
  [i \in 1..Len(b) |-> [x \in 1..MaxLen |-> ExtendSlot(e.free, pre, need, last, i, x - 1)]]

\* All of prepare_for_extend, with e what the eviction left.
ExtendStep(b, pre, seq, need, last, e) ==
  /\ BatchOK(b) /\ ArgsOK(b, pre, seq, need, last)
  /\ Evicted(Chunk, ChunkPages, tree, free_pages, e)
  /\ TreeOK(e.tree) /\ RequestsOK(e.tree, req) /\ e.free \in SUBSET Pages
  /\ NeedTotal(need, Len(b)) <= Cardinality(e.free)
  /\ tree' = e.tree
  /\ free_pages' = e.free \ Smallest(e.free, NeedTotal(need, Len(b)))
  /\ free_slots' = SubSeq(free_slots, Len(b) + 1, Len(free_slots))
  /\ running' = running \o b
  /\ ExtendedRows(b, free_slots, req, req_to_token, pre, seq, ExtendSlotsOf(b, pre, need, last, e),
                  req_to_token')
  /\ ExtendedReqs(b, free_slots, req, req')

LEMMA ExtendStepIs ==
  ASSUME ManagerInv, NEW b \in Seq(Requests), IsInjective(b), PrepareForExtend(b)
  PROVE  \E pre, seq, need, last, e : ExtendStep(b, pre, seq, need, last, e)
<1>0. PICK pre, seq, need, last : ExtendArgs(b, pre, seq, need, last)
  BY DEF ExtendArgs
<1>1. /\ RequestsOK(tree, req) /\ TableOK(req_to_token) /\ SlotsOK(running, free_slots, req)
      /\ TreeOK(tree) /\ free_pages \in SUBSET Pages
  BY DEF ManagerInv
<1>2. /\ \A i \in 1..Len(b) : req[b[i]].state = "matched"
      /\ Len(b) <= Len(free_slots)
      /\ \E k : \E e \in EvictFor(k) : ExtendEffect(b, pre, seq, need, last, e)
  BY <1>0, ExtendIs
<1>3. PICK k : \E e \in EvictFor(k) : ExtendEffect(b, pre, seq, need, last, e)
  BY <1>2
<1>4. PICK e \in EvictFor(k) : ExtendEffect(b, pre, seq, need, last, e)
  BY <1>3
<1>5. BatchOK(b)
  BY <1>2 DEF BatchOK
<1>6. /\ Evicted(Chunk, ChunkPages, tree, free_pages, e)
      /\ TreeOK(e.tree) /\ RequestsOK(e.tree, req) /\ e.free \in SUBSET Pages
  BY <1>1, EvictStep DEF EvictFor
<1>7. ArgsOK(b, pre, seq, need, last)
  BY <1>0, <1>5, ExtendArgsAre
<1>8. /\ Len(b) \in Nat
      /\ \A i \in 1..Len(b) :
           /\ b[i] \in Requests /\ seq[i] \in Nat /\ pre[i] = Len(req[b[i]].prefix_indices)
           /\ pre[i] \in Nat /\ need[i] = NewPages(pre[i], seq[i])
           /\ pre[i] # 0 => last[i] \in Nat
      /\ \E m \in Nat : need \in [1..Len(b) -> 0..m]
  BY <1>7 DEF ArgsOK
<1>9. PICK m \in Nat : need \in [1..Len(b) -> 0..m]
  BY <1>8
<1> DEFINE slot == ExtendSlotsOf(b, pre, need, last, e)
<1>10. /\ NeedTotal(need, Len(b)) <= Cardinality(e.free)
       /\ tree' = e.tree
       /\ free_pages' = e.free \ Smallest(e.free, NeedTotal(need, Len(b)))
       /\ req_to_token' = ExtendTable(b, free_slots, req, req_to_token, pre, seq, slot)
       /\ free_slots' = SubSeq(free_slots, Len(b) + 1, Len(free_slots))
       /\ running' = running \o b
       /\ req' = ExtendReqs(b, free_slots, req)
  BY <1>4 DEF ExtendEffect, ExtendSlotsOf
<1>11. ExtendEntries(b, req, pre, seq, slot)
  <2> SUFFICES ASSUME NEW i \in 1..Len(b), NEW x \in 1..MaxLen
               PROVE  /\ x <= pre[i] => req[b[i]].prefix_indices[x] \in Nat
                      /\ ~ (x <= pre[i]) /\ x <= seq[i] => slot[i][x] \in Nat
    BY DEF ExtendEntries
  <2>1. b[i] \in Requests /\ pre[i] \in Nat /\ seq[i] \in Nat /\ pre[i] = Len(req[b[i]].prefix_indices)
        /\ need[i] = NewPages(pre[i], seq[i]) /\ (pre[i] # 0 => last[i] \in Nat)
    BY <1>8
  <2>2. MaxLen \in Nat
    BY <2>1, RowsLongEnough
  <2>3. ASSUME x <= pre[i] PROVE req[b[i]].prefix_indices[x] \in Nat
    <3>1. req[b[i]].prefix_indices \in Seq(Nat)
      BY <1>1, <2>1, PrefixLength
    <3>2. x \in 1..Len(req[b[i]].prefix_indices)
      BY <2>1, <2>2, <2>3
    <3> QED BY <3>1, <3>2, ElementOfSeq
  <2>4. ASSUME ~ (x <= pre[i]), x <= seq[i] PROVE slot[i][x] \in Nat
    <3>1. PICK y \in Nat : y = x - 1 /\ pre[i] <= y /\ y < seq[i]
      BY <2>1, <2>2, <2>4
    <3>2. PICK to \in Nat : to = seq[i]
      BY <2>1
    <3>3. slot[i][x] = ExtendSlot(e.free, pre, need, last, i, y)
      BY <3>1 DEF ExtendSlotsOf
    <3> HIDE DEF slot
    <3>4. ExtendSlot(e.free, pre, need, last, i, y) \in Nat
      BY <1>6, <1>8, <1>9, <1>10, <2>1, <3>1, <3>2, SlotNat
    <3> QED BY <3>3, <3>4
  <2> QED BY <2>3, <2>4
<1> HIDE DEF slot
<1>12. free_slots \in Seq(Rows) /\ IsInjective(free_slots)
  BY <1>1 DEF SlotsOK
<1>13. ExtendedRows(b, free_slots, req, req_to_token, pre, seq, slot, req_to_token')
  <2>1. PICK d : d = req_to_token'
    OBVIOUS
  <2>2. PICK m1, q, free : m1 = req_to_token /\ q = req /\ free = free_slots
    OBVIOUS
  <2>3. d = ExtendTable(b, free, q, m1, pre, seq, slot)
    BY <2>1, <2>2, <1>10
  <2>4. free \in Seq(Rows) /\ IsInjective(free) /\ Len(b) \in Nat /\ Len(b) <= Len(free)
    BY <2>2, <1>2, <1>8, <1>12
  <2>5. TableOK(m1) /\ ExtendEntries(b, q, pre, seq, slot)
    BY <2>2, <1>1, <1>11
  <2>6. ExtendedRows(b, free, q, m1, pre, seq, slot, d)
    BY ONLY <2>3, <2>4, <2>5, ExtendTableIs
  <2> QED BY <2>6, <2>1, <2>2
<1>14. ExtendedReqs(b, free_slots, req, req')
  <2>1. PICK h, q, free, t : h = req' /\ q = req /\ free = free_slots /\ t = tree
    OBVIOUS
  <2>2. RequestsOK(t, q) /\ b \in Seq(Requests) /\ IsInjective(b)
    BY <2>1, <1>1
  <2>3. free \in Seq(Rows) /\ Len(b) <= Len(free) /\ \A i \in 1..Len(b) : q[b[i]].state = "matched"
    BY <2>1, <1>2, <1>12
  <2>4. h = ExtendReqs(b, free, q)
    BY <2>1, <1>10
  <2>5. ExtendedReqs(b, free, q, h)
    BY ONLY <2>2, <2>3, <2>4, ExtendedAre
  <2> QED BY <2>5, <2>1
<1>15. ExtendStep(b, pre, seq, need, last, e)
  BY <1>5, <1>6, <1>7, <1>10, <1>13, <1>14 DEF ExtendStep, slot
<1> QED BY <1>15

\* prepare_for_extend keeps the invariant.
LEMMA ExtendKeeps ==
  ASSUME ManagerInv, NEW b \in Seq(Requests), IsInjective(b), PrepareForExtend(b)
  PROVE  ManagerInv'
<1>1. /\ RequestsOK(tree, req) /\ TableOK(req_to_token) /\ SlotsOK(running, free_slots, req)
      /\ TreeOK(tree) /\ free_pages \in SUBSET Pages /\ Begins(req, req_to_token)
  BY DEF ManagerInv
<1>2. PICK pre, seq, need, last, e : ExtendStep(b, pre, seq, need, last, e)
  BY ExtendStepIs
<1>6. TreeOK(e.tree) /\ RequestsOK(e.tree, req) /\ e.free \in SUBSET Pages
  BY <1>2 DEF ExtendStep
<1>7. /\ \A i \in 1..Len(b) : req[b[i]].state = "matched"
      /\ Len(b) <= Len(free_slots) /\ Len(b) \in Nat
      /\ \A i \in 1..Len(b) : b[i] \in Requests /\ pre[i] = Len(req[b[i]].prefix_indices)
  BY <1>2 DEF ExtendStep, BatchOK, ArgsOK
<1>9. /\ tree' = e.tree
      /\ free_pages' = e.free \ Smallest(e.free, NeedTotal(need, Len(b)))
      /\ free_slots' = SubSeq(free_slots, Len(b) + 1, Len(free_slots))
      /\ running' = running \o b
  BY <1>2 DEF ExtendStep
<1>11. free_slots \in Seq(Rows) /\ IsInjective(free_slots)
  BY <1>1 DEF SlotsOK
<1>12. /\ TableOK(req_to_token')
       /\ \A i \in 1..Len(b), x \in 1..MaxLen : x <= pre[i] =>
            req_to_token'[free_slots[i]][x] = req[b[i]].prefix_indices[x]
       /\ \A j \in Rows : (\A i \in 1..Len(b) : free_slots[i] # j) => req_to_token'[j] = req_to_token[j]
  BY <1>2 DEF ExtendStep, ExtendedRows
<1>13. /\ req' = [r \in Requests |-> req'[r]]
       /\ \A i \in 1..Len(b) :
            /\ b[i] \in Requests /\ RequestOK(b[i], req'[b[i]]) /\ req'[b[i]].state = "running"
            /\ req'[b[i]].req_pool_idx = free_slots[i]
            /\ req'[b[i]].last_node = req[b[i]].last_node
            /\ req'[b[i]].prefix_indices = req[b[i]].prefix_indices
       /\ \A r \in Requests : (\A i \in 1..Len(b) : b[i] # r) => req'[r] = req[r]
  BY <1>2 DEF ExtendStep, ExtendedReqs
<1>14. \A r \in Requests : /\ RequestOK(r, req'[r]) /\ req'[r].last_node = req[r].last_node
                           /\ req'[r].prefix_indices = req[r].prefix_indices
  <2> TAKE r \in Requests
  <2>1. CASE \E i \in 1..Len(b) : b[i] = r
    BY <2>1, <1>13
  <2>2. CASE ~ \E i \in 1..Len(b) : b[i] = r
    BY <2>2, <1>1, <1>13 DEF RequestsOK
  <2> QED BY <2>1, <2>2
<1>15. RequestsOK(e.tree, req')
  BY <1>6, <1>13, <1>14, SameNodes
<1>16. SlotsOK(running', free_slots', req')
  <2>1. \A i \in 1..Len(b) : req'[b[i]].state = "running" /\ req'[b[i]].req_pool_idx = free_slots[i]
    BY <1>13
  <2>2. \A r \in Requests : (\A i \in 1..Len(b) : b[i] # r) => req'[r] = req[r]
    BY <1>13
  <2>3. SlotsOK(running \o b, SubSeq(free_slots, Len(b) + 1, Len(free_slots)), req')
    BY <2>1, <2>2, <1>1, <1>7, ExtendSlots
  <2> QED BY <2>3, <1>9
<1>17. Begins(req', req_to_token')
  <2> SUFFICES ASSUME NEW r \in Requests, req'[r].state = "running", NEW x \in 1..Len(req'[r].prefix_indices)
               PROVE  req_to_token'[req'[r].req_pool_idx][x] = req'[r].prefix_indices[x]
    BY DEF Begins
  <2>1. /\ Len(req[r].prefix_indices) \in Nat /\ Len(req[r].prefix_indices) < Len(Prompt[r])
        /\ MaxLen \in Nat /\ Len(Prompt[r]) + MaxOutput <= MaxLen /\ MaxOutput \in Nat /\ Len(Prompt[r]) \in Nat
    BY <1>1, PrefixLength, RowsLongEnough
  <2>2. req'[r].prefix_indices = req[r].prefix_indices
    BY <1>14
  <2>3. x \in 1..MaxLen /\ x \in 1..Len(req[r].prefix_indices)
    BY <2>1, <2>2
  <2>4. CASE \E i \in 1..Len(b) : b[i] = r
    <3>1. PICK i \in 1..Len(b) : b[i] = r
      BY <2>4
    <3>2. req'[r].req_pool_idx = free_slots[i] /\ x <= pre[i]
      BY <3>1, <1>7, <1>13, <2>1, <2>3
    <3>3. req_to_token'[free_slots[i]][x] = req[b[i]].prefix_indices[x]
      BY <3>2, <2>3, <1>12
    <3> QED BY <3>1, <3>2, <3>3, <2>2
  <2>5. CASE ~ \E i \in 1..Len(b) : b[i] = r
    <3>1. req'[r] = req[r] /\ req[r].state = "running"
      BY <2>5, <1>13
    <3>2. r \in Range(running)
      BY <3>1, <1>1 DEF SlotsOK
    <3>3. req[r].req_pool_idx \in Rows /\ req[r].req_pool_idx \notin Range(free_slots)
      BY <3>1, <3>2, <1>1 DEF SlotsOK, RequestsOK, RequestOK
    <3>4. \A i \in 1..Len(b) : free_slots[i] \in Range(free_slots)
      <4>1. DOMAIN free_slots = 1..Len(free_slots) /\ Len(free_slots) \in Nat
        BY <1>11, Elements
      <4>2. \A i \in 1..Len(b) : i \in DOMAIN free_slots
        BY <4>1, <1>7
      <4> QED BY <4>2 DEF Range
    <3>5. req_to_token'[req[r].req_pool_idx] = req_to_token[req[r].req_pool_idx]
      BY <3>3, <3>4, <1>12
    <3> QED BY <3>1, <3>5, <2>3, <1>1 DEF Begins
  <2> QED BY <2>4, <2>5
<1>18. free_pages' \subseteq Pages /\ TreeOK(tree') /\ RequestsOK(tree', req')
  BY <1>6, <1>9, <1>15
<1> QED BY <1>12, <1>16, <1>17, <1>18 DEF ManagerInv

\* A sequence without repetitions loses one element.
LEMMA RemovedAre ==
  ASSUME NEW S, NEW s \in Seq(S), IsInjective(s), NEW i \in 1..Len(s), NEW u, u = RemoveAt(s, i)
  PROVE  u \in Seq(S) /\ IsInjective(u) /\ Range(u) = Range(s) \ {s[i]} /\ Len(u) = Len(s) - 1
<1> DEFINE k == i - 1
           a == SubSeq(s, 1, k)
           c == SubSeq(s, i + 1, Len(s))
<1>1. Len(s) \in Nat /\ DOMAIN s = 1..Len(s) /\ \A j \in 1..Len(s) : s[j] \in S
  BY Elements
<1>2. k \in 0..Len(s) /\ i \in 0..Len(s) /\ i \in Nat \ {0} /\ k \in Nat
  BY <1>1
<1>3. a \in Seq(S) /\ Len(a) = k /\ \A j \in 1..k : a[j] = s[j]
  <2> HIDE DEF k
  <2> QED BY <1>2, CutIs
<1>4. Behind(S, s, i, c)
  BY <1>2, RowsLeft
<1>5. u = a \o c
  BY DEF RemoveAt
<1> HIDE DEF a, c
<1>6. /\ c \in Seq(S) /\ Len(c) = Len(s) - i
      /\ Range(c) \cup {s[j] : j \in 1..i} = Range(s)
      /\ IsInjective(c) /\ (\A j \in 1..i : s[j] \notin Range(c))
  BY <1>4 DEF Behind
<1>7. \A x, y \in 1..Len(s) : s[x] = s[y] => x = y
  BY <1>1 DEF IsInjective
<1>8. Range(a) = {s[j] : j \in 1..k} /\ IsInjective(a)
  <2>1. DOMAIN a = 1..k
    BY <1>3, LenProperties
  <2>2. 1..k \subseteq 1..Len(s)
    BY <1>1, <1>2
  <2> HIDE DEF k
  <2>3. IsInjective(a)
    BY <2>1, <2>2, <1>3, <1>7 DEF IsInjective
  <2> QED BY <2>1, <2>3, <1>3 DEF Range
<1>9. 1..i = 1..k \cup {i} /\ \A j \in 1..k : j \in 1..i /\ j # i /\ j \in 1..Len(s)
  BY <1>1, <1>2
<1> HIDE DEF k
<1>10. Range(a) \cap Range(c) = {} /\ s[i] \notin Range(a) /\ s[i] \notin Range(c)
  <2>1. Range(a) \cap Range(c) = {}
    BY <1>6, <1>8, <1>9
  <2>2. s[i] \notin Range(a)
    BY <1>7, <1>8, <1>9
  <2>3. s[i] \notin Range(c)
    BY <1>6, <1>9
  <2> QED BY <2>1, <2>2, <2>3
<1>11. u \in Seq(S) /\ Range(u) = Range(a) \cup Range(c) /\ IsInjective(u)
  BY <1>3, <1>5, <1>6, <1>8, <1>10, RangeConcat
<1>12. Range(s) = Range(a) \cup Range(c) \cup {s[i]}
  BY <1>6, <1>8, <1>9
<1>13. Len(u) = Len(a) + Len(c)
  BY <1>3, <1>5, <1>6, ConcatProperties
<1>14. Len(u) = Len(s) - 1
  BY <1>1, <1>2, <1>3, <1>6, <1>13 DEF k
<1> QED BY <1>10, <1>11, <1>12, <1>14

\* What a release does to the tree: the request's full pages are in it, and its own locks
\* are gone.
LEMMA ReleaseTree ==
  ASSUME NEW t, TreeOK(t), NEW q, RequestsOK(t, q), NEW r \in Requests,
         NEW key \in Seq(Chunk), NEW val \in Seq(Chunk), Len(key) = Len(val),
         NEW i, i = Insert(t, key, val), NEW u, u = DecLock(i, q[r].last_node)
  PROVE  /\ Inserted(Chunk, t, key, val, i) /\ TreeOK(u) /\ Nodes(u) = Nodes(i) /\ Known(u) = Known(i)
         /\ \A p : PageAt(u, p) = PageAt(i, p)
         /\ \A m \in Nodes(u) :
              /\ m \in Known(t) =>
                   u.lock[m] = IF IsPrefix(m, q[r].last_node) THEN t.lock[At(t, m)] - 1 ELSE t.lock[At(t, m)]
              /\ m \notin Known(t) => u.lock[m] = 0
<1> DEFINE n == q[r].last_node
<1>1. IsTree(Chunk, t) /\ Nodes(t) \in SUBSET (Seq(Chunk) \ {<< >>})
      /\ \A p \in Known(t) : PageAt(t, p) \in Chunk
  BY DEF TreeOK, IsTree
<1>2. /\ \A p \in Requests : q[p].last_node \in Nodes(t) \cup {<< >>}
      /\ Locked(t, q)
  BY DEF RequestsOK, PrefixAt
<1>3. Inserted(Chunk, t, key, val, i)
  <2>1. val \in Seq(Value) /\ Len(key) <= Len(val)
    BY ChunkValues, LenProperties
  <2> QED BY <2>1, <1>1, InsertIs
<1>4. /\ IsTree(Chunk, i) /\ Nodes(t) \subseteq Nodes(i)
      /\ \A p : p \in Known(i) <=> p \in Known(t) \/ (p \in Seq(Chunk) \ {<< >>} /\ IsPrefix(p, key))
      /\ \A p \in Known(t) : PageAt(i, p) = PageAt(t, p)
      /\ \A p \in Known(i) : p \notin Known(t) => PageAt(i, p) = val[Len(p)]
      /\ \A m \in Nodes(i) : i.lock[m] = (IF m \in Known(t) THEN t.lock[At(t, m)] ELSE 0)
  BY <1>3 DEF Inserted
<1>5. Nodes(i) \in SUBSET (Seq(Chunk) \ {<< >>}) /\ i.lock \in [Nodes(i) -> Nat]
  BY <1>4 DEF IsTree
<1> HIDE DEF n
<1>6. n \in Nodes(t) \cup {<< >>} /\ n \in Nodes(i) \cup {<< >>} /\ n \in Seq(Chunk)
  <2>1. n \in Nodes(t) \cup {<< >>}
    BY <1>2 DEF n
  <2> QED BY ONLY <2>1, <1>1, <1>4, EmptySeq
<1>7. ASSUME NEW m \in Nodes(i), IsPrefix(m, n) PROVE m \in Known(t) /\ i.lock[m] >= 1
  <2>1. m \in Seq(Chunk) \ {<< >>}
    BY <1>5
  <2>2. n # << >>
    BY <2>1, <1>7, PrefixEmpty
  <2>3. n \in Known(t)
    BY <2>2, <1>1, <1>6, KnownIs
  <2>4. m \in Known(t)
    BY <2>1, <2>3, <1>1, <1>7, KnownPrefix
  <2>5. IsFiniteSet(Holding(q, m)) /\ Cardinality(Holding(q, m)) \in Nat
        /\ Cardinality(Holding(q, m)) <= t.lock[At(t, m)] /\ t.lock[At(t, m)] \in Nat
    BY <2>1, <2>4, <1>2, HeldCount
  <2>6. r \in Holding(q, m)
    BY <1>7 DEF Holding, n
  <2>7. Cardinality(Holding(q, m)) # 0
    BY <2>5, <2>6, FS_EmptySet
  <2> QED BY <2>4, <2>5, <2>7, <1>4
<1>8. PICK k : Relocked(Chunk, i, n, 0 - 1, k, u)
  <2>1. u = DecLock(i, n)
    BY DEF n
  <2> QED BY <2>1, <1>4, <1>6, <1>7, DecLockIs
<1>9. /\ IsTree(Chunk, u) /\ Nodes(u) = Nodes(i) /\ Known(u) = Known(i)
      /\ \A p : PageAt(u, p) = PageAt(i, p)
      /\ \A m \in Nodes(i) : u.lock[m] = (IF IsPrefix(m, n) THEN i.lock[m] + (0 - 1) ELSE i.lock[m])
  BY <1>8 DEF Relocked
<1>10. TreeOK(u)
  <2> SUFFICES ASSUME NEW p \in Known(i) PROVE PageAt(i, p) \in Chunk
    BY <1>9 DEF TreeOK
  <2>1. CASE p \in Known(t)
    BY <2>1, <1>1, <1>4
  <2>2. CASE p \notin Known(t)
    <3>1. PageAt(i, p) = val[Len(p)] /\ p \in Seq(Chunk) \ {<< >>} /\ IsPrefix(p, key)
      BY <2>2, <1>4
    <3>2. Len(p) \in Nat /\ Len(p) <= Len(key) /\ Len(p) > 0 /\ Len(val) \in Nat
      BY <3>1, PrefixOrder, PrefixEmpty, LenProperties
    <3>3. Len(p) \in 1..Len(val)
      BY <3>2
    <3> QED BY <3>1, <3>3, ElementOfSeq
  <2> QED BY <2>1, <2>2
<1>11. ASSUME NEW m \in Nodes(u)
       PROVE  /\ m \in Known(t) =>
                   u.lock[m] = IF IsPrefix(m, n) THEN t.lock[At(t, m)] - 1 ELSE t.lock[At(t, m)]
              /\ m \notin Known(t) => u.lock[m] = 0
  <2>1. m \in Nodes(i) /\ i.lock[m] \in Nat
    BY <1>5, <1>9
  <2>2. CASE IsPrefix(m, n)
    <3>1. m \in Known(t) /\ u.lock[m] = i.lock[m] + (0 - 1) /\ i.lock[m] = t.lock[At(t, m)]
      BY <2>1, <2>2, <1>4, <1>7, <1>9
    <3> QED BY <3>1, <2>1, <2>2
  <2>3. CASE ~ IsPrefix(m, n)
    BY <2>1, <2>3, <1>4, <1>9
  <2> QED BY <2>2, <2>3
<1> QED BY <1>3, <1>9, <1>10, <1>11 DEF n

\* A request that leaves takes its holds with it.
LEMMA ReleaseRequests ==
  ASSUME NEW t, TreeOK(t), NEW q, RequestsOK(t, q), NEW r \in Requests,
         NEW u, TreeOK(u), Nodes(t) \subseteq Nodes(u), \A p \in Known(t) : PageAt(u, p) = PageAt(t, p),
         \A m \in Nodes(u) :
           /\ m \in Known(t) =>
                u.lock[m] = IF IsPrefix(m, q[r].last_node) THEN t.lock[At(t, m)] - 1 ELSE t.lock[At(t, m)]
           /\ m \notin Known(t) => u.lock[m] = 0,
         NEW y, RequestOK(r, y), y.last_node = << >>, PrefixAt(u, y),
         NEW h, h = [q EXCEPT ![r] = y]
  PROVE  RequestsOK(u, h)
<1>1. /\ q = [p \in Requests |-> q[p]] /\ Locked(t, q)
      /\ \A p \in Requests : RequestOK(p, q[p]) /\ PrefixAt(t, q[p])
  BY DEF RequestsOK
<1>2. h = [p \in Requests |-> IF p = r THEN y ELSE q[p]]
  BY <1>1
<1>3. \A p \in Requests : RequestOK(p, h[p]) /\ PrefixAt(u, h[p])
  <2> TAKE p \in Requests
  <2>1. CASE p = r
    BY <2>1, <1>2
  <2>2. CASE p # r
    <3>1. h[p] = q[p] /\ PrefixAt(t, q[p]) /\ RequestOK(p, q[p])
      BY <2>2, <1>1, <1>2
    <3>2. q[p].last_node \in Nodes(u) \cup {<< >>}
      BY <3>1 DEF PrefixAt
    <3>3. PrefixAt(u, q[p])
      BY <3>1, <3>2, PrefixStaysAt
    <3> QED BY <3>1, <3>3
  <2> QED BY <2>1, <2>2
<1>4. Locked(u, h)
  <2> SUFFICES ASSUME NEW m \in Nodes(u) PROVE u.lock[m] >= Cardinality(Holding(h, m))
    BY DEF Locked
  <2>1. m \in Seq(Chunk) \ {<< >>} /\ u.lock[m] \in Nat
    BY DEF TreeOK, IsTree
  <2>2. \A p \in Requests : q[p].last_node \in Nodes(t) \cup {<< >>}
    BY <1>1 DEF PrefixAt
  <2>3. /\ m \in Known(t) => Cardinality(Holding(q, m)) <= t.lock[At(t, m)] /\ t.lock[At(t, m)] \in Nat
        /\ m \notin Known(t) => Holding(q, m) = {}
    BY <1>1, <2>1, <2>2, HeldCount
  <2>4. \A p \in Requests \ {r} : h[p].last_node = q[p].last_node
    BY <1>2
  <2>5. ~ IsPrefix(m, h[r].last_node)
    <3>1. h[r].last_node = << >>
      BY <1>2
    <3> QED BY <3>1, <2>1, PrefixEmpty
  <2>6. /\ Cardinality(Holding(q, m)) \in Nat /\ Cardinality(Holding(h, m)) \in Nat
        /\ Cardinality(Holding(h, m)) <= Cardinality(Holding(q, m))
        /\ IsPrefix(m, q[r].last_node) => Cardinality(Holding(h, m)) <= Cardinality(Holding(q, m)) - 1
    BY <2>4, <2>5, HoldingChange
  <2>7. CASE m \in Known(t)
    BY <2>1, <2>3, <2>6, <2>7
  <2>8. CASE m \notin Known(t)
    <3>1. Cardinality(Holding(q, m)) = 0
      BY <2>3, <2>8, FS_EmptySet
    <3> QED BY <3>1, <2>6, <2>8
  <2> QED BY <2>7, <2>8
<1>5. h = [p \in Requests |-> h[p]]
  BY <1>2
<1> QED BY <1>3, <1>4, <1>5 DEF RequestsOK

\* Rows and requests after a release.
LEMMA ReleaseSlots ==
  ASSUME NEW run, NEW free, NEW q, SlotsOK(run, free, q), NEW r \in Requests, q[r].state = "running",
         q[r].req_pool_idx \in Rows, NEW h, h[r].state # "running", \A p \in Requests \ {r} : h[p] = q[p]
  PROVE  SlotsOK(RemoveAt(run, CHOOSE i \in DOMAIN run : run[i] = r), Append(free, q[r].req_pool_idx), h)
<1> DEFINE j == q[r].req_pool_idx
           k == CHOOSE i \in DOMAIN run : run[i] = r
           u == RemoveAt(run, k)
           f == Append(free, j)
<1>1. /\ run \in Seq(Requests) /\ IsInjective(run) /\ Range(run) = {p \in Requests : q[p].state = "running"}
      /\ free \in Seq(Rows) /\ IsInjective(free)
      /\ Range(free) \cup {q[p].req_pool_idx : p \in Range(run)} = Rows
      /\ \A p \in Range(run) : q[p].req_pool_idx \notin Range(free)
      /\ \A p, s \in Range(run) : q[p].req_pool_idx = q[s].req_pool_idx => p = s
      /\ Len(free) + Len(run) = MaxRequests
  BY DEF SlotsOK
<1>2. Len(run) \in Nat /\ Len(free) \in Nat /\ DOMAIN run = 1..Len(run)
  BY <1>1, Elements
<1>3. r \in Range(run)
  BY <1>1
<1>4. k \in 1..Len(run) /\ run[k] = r
  <2>1. \E i \in DOMAIN run : run[i] = r
    BY <1>3 DEF Range
  <2> QED BY <2>1, <1>2
<1> HIDE DEF k
<1>5. u \in Seq(Requests) /\ IsInjective(u) /\ Range(u) = Range(run) \ {r} /\ Len(u) = Len(run) - 1
  BY <1>1, <1>4, RemovedAre
<1> HIDE DEF u
<1>6. j \in Rows /\ j \notin Range(free)
  BY <1>1, <1>3
<1> HIDE DEF j
<1>7. f \in Seq(Rows) /\ Range(f) = Range(free) \cup {j} /\ IsInjective(f)
  BY <1>1, <1>6, RangeAppend
<1>8. Len(f) = Len(free) + 1
  BY <1>1, <1>6, AppendProperties
<1> HIDE DEF f
<1>9. \A p \in Range(u) : p \in Requests /\ p # r /\ h[p] = q[p] /\ p \in Range(run)
  BY <1>1, <1>5
<1>10. Range(u) = {p \in Requests : h[p].state = "running"}
  <2>1. ASSUME NEW p \in Requests PROVE p \in Range(u) <=> h[p].state = "running"
    <3>1. CASE p = r
      BY <3>1, <1>5
    <3>2. CASE p # r
      BY <3>2, <1>1, <1>5
    <3> QED BY <3>1, <3>2
  <2> QED BY <2>1, <1>9
<1>11. Range(f) \cup {h[p].req_pool_idx : p \in Range(u)} = Rows
  <2>1. {h[p].req_pool_idx : p \in Range(u)} = {q[p].req_pool_idx : p \in Range(u)}
    BY <1>9
  <2>2. {q[p].req_pool_idx : p \in Range(run)} = {q[p].req_pool_idx : p \in Range(u)} \cup {j}
    BY <1>3, <1>5 DEF j
  <2> QED BY <2>1, <2>2, <1>1, <1>7
<1>12. \A p \in Range(u) : h[p].req_pool_idx \notin Range(f)
  <2> TAKE p \in Range(u)
  <2>1. q[p].req_pool_idx # j
    BY <1>1, <1>3, <1>9 DEF j
  <2> QED BY <2>1, <1>1, <1>7, <1>9
<1>13. \A p, s \in Range(u) : h[p].req_pool_idx = h[s].req_pool_idx => p = s
  BY <1>1, <1>9
<1>14. Len(f) + Len(u) = MaxRequests
  BY <1>1, <1>2, <1>5, <1>8
<1> QED BY <1>5, <1>7, <1>10, <1>11, <1>12, <1>13, <1>14 DEF SlotsOK, u, f, j, k

\* The indices of a running request's tokens, and the chunks release_request makes of them.
LEMMA RowChunks ==
  ASSUME NEW r \in Requests, NEW x, RequestOK(r, x), x.state = "running", NEW m, TableOK(m),
         NEW kv, kv = [i \in 1..Len(x.tokens) |-> m[x.req_pool_idx][i]]
  PROVE  /\ kv \in Seq(Nat) /\ x.tokens \in Seq(Nat) /\ Len(kv) = Len(x.tokens)
         /\ ChunksOf(x.tokens) \in Seq(Chunk) /\ ChunksOf(kv) \in Seq(Chunk)
         /\ Len(ChunksOf(kv)) = Len(ChunksOf(x.tokens))
         /\ Len(ChunksOf(x.tokens)) = Len(x.tokens) \div PageSize
<1>1. x \in RecordsOf(r) /\ Len(x.tokens) <= Len(Prompt[r]) + MaxOutput /\ x.req_pool_idx \in Rows
  BY DEF RequestOK
<1>2. x.tokens \in Seq(Nat) /\ Len(x.tokens) \in Nat
  BY <1>1, FieldsOf, TokensOf, LenProperties
<1>3. Len(x.tokens) <= MaxLen /\ MaxLen \in Nat
  BY <1>1, <1>2, RowsLongEnough
<1>4. \A i \in 1..Len(x.tokens) : m[x.req_pool_idx][i] \in Nat
  <2> TAKE i \in 1..Len(x.tokens)
  <2>1. i \in 1..MaxLen
    BY <1>2, <1>3
  <2> QED BY <2>1, <1>1 DEF TableOK
<1>5. kv \in Seq(Nat) /\ Len(kv) = Len(x.tokens)
  <2> DEFINE n == Len(x.tokens)
  <2> HIDE DEF n
  <2>1. n \in Nat /\ kv = [i \in 1..n |-> kv[i]] /\ \A i \in 1..n : kv[i] \in Nat
    BY <1>2, <1>4 DEF n
  <2>2. kv \in [1..n -> Nat]
    BY <2>1
  <2>3. kv \in Seq(Nat) /\ Len(kv) = n
    BY <2>1, <2>2
  <2> QED BY <2>3 DEF n
<1> QED BY <1>2, <1>5, ChunksAre DEF Chunk

\* release_request keeps the invariant.
LEMMA ReleaseKeeps ==
  ASSUME ManagerInv, NEW r \in Requests, req[r].state = "running", NEW y, RequestOK(r, y),
         y.state # "running", y.last_node = << >>, \A t : PrefixAt(t, y), Release(r, y)
  PROVE  ManagerInv'
<1>1. /\ RequestsOK(tree, req) /\ TableOK(req_to_token) /\ SlotsOK(running, free_slots, req)
      /\ TreeOK(tree) /\ free_pages \in SUBSET Pages /\ Begins(req, req_to_token)
  BY DEF ManagerInv
<1>2. RequestOK(r, req[r]) /\ req = [p \in Requests |-> req[p]]
  BY <1>1 DEF RequestsOK
<1> DEFINE kv == [x \in 1..Len(req[r].tokens) |-> req_to_token[req[r].req_pool_idx][x]]
           key == ChunksOf(req[r].tokens)
           val == ChunksOf(kv)
           i == Insert(tree, key, val)
           u == DecLock(i, req[r].last_node)
           known == Len(Matched(tree, key)) * PageSize
<1>3. /\ tree' = u
      /\ free_pages' = free_pages \cup Freeable({kv[x] : x \in FreedOnRelease(r, known)})
      /\ free_slots' = Append(free_slots, req[r].req_pool_idx)
      /\ running' = RemoveAt(running, CHOOSE k \in DOMAIN running : running[k] = r)
      /\ req' = [req EXCEPT ![r] = y]
      /\ req_to_token' = req_to_token
  BY DEF Release, FreeRow
<1>4. key \in Seq(Chunk) /\ val \in Seq(Chunk) /\ Len(key) = Len(val)
  <2>1. PICK m, x : m = req_to_token /\ x = req[r]
    OBVIOUS
  <2>2. TableOK(m) /\ RequestOK(r, x) /\ x.state = "running"
    BY <2>1, <1>1, <1>2
  <2>3. PICK a : a = kv
    OBVIOUS
  <2>4. a = [k \in 1..Len(x.tokens) |-> m[x.req_pool_idx][k]]
    BY <2>1, <2>3
  <2>5. /\ ChunksOf(x.tokens) \in Seq(Chunk) /\ ChunksOf(a) \in Seq(Chunk)
        /\ Len(ChunksOf(a)) = Len(ChunksOf(x.tokens))
    BY ONLY <2>2, <2>4, r \in Requests, RowChunks
  <2> QED BY <2>1, <2>3, <2>5
<1> HIDE DEF kv, key, val
<1>5. /\ Inserted(Chunk, tree, key, val, i) /\ TreeOK(u) /\ Nodes(u) = Nodes(i) /\ Known(u) = Known(i)
      /\ \A p : PageAt(u, p) = PageAt(i, p)
      /\ \A m \in Nodes(u) :
           /\ m \in Known(tree) =>
                u.lock[m] = IF IsPrefix(m, req[r].last_node) THEN tree.lock[At(tree, m)] - 1
                                                             ELSE tree.lock[At(tree, m)]
           /\ m \notin Known(tree) => u.lock[m] = 0
  BY <1>1, <1>4, ReleaseTree
<1>6. Nodes(tree) \subseteq Nodes(u) /\ \A p \in Known(tree) : PageAt(u, p) = PageAt(tree, p)
  BY <1>5 DEF Inserted
<1> HIDE DEF i, u
<1>7. RequestsOK(u, req')
  <2>1. PICK t, q, h : t = tree /\ q = req /\ h = req'
    OBVIOUS
  <2>2. TreeOK(t) /\ RequestsOK(t, q) /\ h = [q EXCEPT ![r] = y]
    BY <2>1, <1>1, <1>3
  <2>3. Nodes(t) \subseteq Nodes(u) /\ (\A p \in Known(t) : PageAt(u, p) = PageAt(t, p)) /\ TreeOK(u)
    BY <2>1, <1>5, <1>6
  <2>4. \A m \in Nodes(u) :
           /\ m \in Known(t) =>
                u.lock[m] = IF IsPrefix(m, q[r].last_node) THEN t.lock[At(t, m)] - 1 ELSE t.lock[At(t, m)]
           /\ m \notin Known(t) => u.lock[m] = 0
    BY <2>1, <1>5
  <2>5. RequestOK(r, y) /\ y.last_node = << >> /\ PrefixAt(u, y)
    OBVIOUS
  <2>6. RequestsOK(u, h)
    BY ONLY <2>2, <2>3, <2>4, <2>5, r \in Requests, ReleaseRequests
  <2> QED BY <2>1, <2>6
<1>8. req' = [p \in Requests |-> IF p = r THEN y ELSE req[p]]
  BY <1>2, <1>3
<1>9. SlotsOK(running', free_slots', req')
  <2>1. req'[r].state # "running" /\ \A p \in Requests \ {r} : req'[p] = req[p]
    BY <1>8
  <2>2. req[r].req_pool_idx \in Rows
    BY <1>2 DEF RequestOK
  <2>3. SlotsOK(RemoveAt(running, CHOOSE k \in DOMAIN running : running[k] = r),
                Append(free_slots, req[r].req_pool_idx), req')
    BY <2>1, <2>2, <1>1, ReleaseSlots
  <2> QED BY <2>3, <1>3
<1>10. Begins(req', req_to_token')
  <2>1. \A p \in Requests : req'[p].state = "running" => req'[p] = req[p] /\ req[p].state = "running"
    BY <1>8
  <2> QED BY <2>1, <1>1, <1>3 DEF Begins
<1>11. free_pages' \subseteq Pages
  BY <1>1, <1>3 DEF Freeable
<1> QED BY <1>1, <1>3, <1>5, <1>7, <1>9, <1>10, <1>11 DEF ManagerInv

\* A finished or retracted request leaves.
LEMMA LeaveKeeps ==
  ASSUME ManagerInv, NEW r \in Requests, UpdateFinished(r) \/ (Retract /\ r = Last(running))
  PROVE  ManagerInv'
<1>1. RequestOK(r, req[r]) /\ SlotsOK(running, free_slots, req)
  BY DEF ManagerInv, RequestsOK
<1>2. req[r].matches \in Nat
  BY <1>1, FieldsOf DEF RequestOK
<1>3. CASE UpdateFinished(r)
  <2>1. PICK y : y = [Fresh(r) EXCEPT !.state = "done"]
    OBVIOUS
  <2>2. req[r].state = "running" /\ Release(r, y)
    BY <2>1, <1>3 DEF UpdateFinished
  <2>3. /\ RequestOK(r, y) /\ y.state \in {"waiting", "done"} /\ y.last_node = << >>
        /\ \A t : PrefixAt(t, y)
    BY <2>1, FreshRequest
  <2> QED BY <2>2, <2>3, ReleaseKeeps
<1>4. CASE Retract /\ r = Last(running)
  <2>1. PICK k \in Nat : k = req[r].matches
    BY <1>2
  <2>2. PICK y : y = [Fresh(r) EXCEPT !.matches = k]
    OBVIOUS
  <2>3. running # << >> /\ Release(r, y)
    BY <2>1, <2>2, <1>4 DEF Retract
  <2>4. req[r].state = "running"
    <3>1. running \in Seq(Requests) /\ Range(running) = {p \in Requests : req[p].state = "running"}
      BY <1>1 DEF SlotsOK
    <3>2. Len(running) \in 1..Len(running) /\ DOMAIN running = 1..Len(running)
      BY <2>3, <3>1, EmptySeq, LenProperties
    <3>3. r \in Range(running)
      BY <3>2, <1>4 DEF Range, Last
    <3> QED BY <3>1, <3>3
  <2>5. /\ RequestOK(r, y) /\ y.state \in {"waiting", "done"} /\ y.last_node = << >>
        /\ \A t : PrefixAt(t, y)
    BY <2>2, FreshRequest
  <2> QED BY <2>3, <2>4, <2>5, ReleaseKeeps
<1> QED BY <1>3, <1>4

\* A batch of requests that wait for their prefill.
LEMMA BatchOf ==
  ASSUME NEW b \in {<<r>> : r \in Requests} \cup (Requests \X Requests)
  PROVE  b \in Seq(Requests)
<1>1. CASE \E r \in Requests : b = <<r>>
  BY <1>1
<1>2. CASE \E r, q \in Requests : b = <<r, q>>
  <2>1. PICK r \in Requests, q \in Requests : b = <<r, q>>
    BY <1>2
  <2>2. <<r, q>> \in Seq(Requests)
    OBVIOUS
  <2> QED BY <2>1, <2>2
<1>3. \/ b \in {<<r>> : r \in Requests}
      \/ b \in Requests \X Requests
  OBVIOUS
<1>4. b \in {<<r>> : r \in Requests} => \E r \in Requests : b = <<r>>
  BY Zenon
<1>5. b \in Requests \X Requests => \E r, q \in Requests : b = <<r, q>>
  OBVIOUS
<1> QED BY ONLY <1>1, <1>2, <1>3, <1>4, <1>5

---------------------------------------------------------------------------
\* The invariant holds at the start.
LEMMA ManagerStart ==
  ASSUME Init
  PROVE  ManagerInv
<1>1. /\ free_pages = Pages /\ tree = EmptyTree
      /\ req_to_token = [i \in Rows |-> [x \in 1..MaxLen |-> 0]]
      /\ free_slots = [i \in 1..MaxRequests |-> i - 1]
      /\ running = << >> /\ req = [r \in Requests |-> Fresh(r)]
  BY DEF Init
<1>2. MaxRequests \in Nat
  BY ManagerAssumption
<1>3. IsTree(Chunk, tree) /\ Known(tree) = {} /\ Nodes(tree) = {}
  BY <1>1, EmptyIsTree
<1>4. TreeOK(tree)
  BY <1>3 DEF TreeOK
<1>5. \A r \in Requests : RequestOK(r, req[r]) /\ PrefixAt(tree, req[r]) /\ req[r].state = "waiting"
  <2> TAKE r \in Requests
  <2>1. PICK y : y = req[r]
    OBVIOUS
  <2>2. y = Fresh(r) /\ y.state = "waiting"
    BY <2>1, <1>1 DEF Fresh
  <2>3. RequestOK(r, y) /\ \A t : PrefixAt(t, y)
    <3>1. 0 \in Nat
      OBVIOUS
    <3> QED BY <2>2, <3>1, FreshRequest
  <2> QED BY <2>1, <2>2, <2>3
<1>6. RequestsOK(tree, req)
  <2>1. Locked(tree, req)
    BY <1>3 DEF Locked
  <2>2. req = [r \in Requests |-> req[r]]
    BY <1>1
  <2> QED BY <2>1, <2>2, <1>5 DEF RequestsOK
<1>7. TableOK(req_to_token)
  BY <1>1 DEF TableOK
<1>8. Begins(req, req_to_token)
  BY <1>5 DEF Begins
<1>9. SlotsOK(running, free_slots, req)
  <2>1. running \in Seq(Requests) /\ Len(running) = 0 /\ DOMAIN running = {}
    BY <1>1, EmptySeq
  <2>2. Range(running) = {} /\ IsInjective(running)
    BY <2>1 DEF Range, IsInjective
  <2>3. free_slots \in Seq(Rows) /\ Len(free_slots) = MaxRequests
    <3>1. \A i \in 1..MaxRequests : i - 1 \in Rows
      BY <1>2 DEF Rows
    <3>2. free_slots \in [1..MaxRequests -> Rows]
      BY <3>1, <1>1
    <3> QED BY <3>2, <1>2
  <2>4. DOMAIN free_slots = 1..MaxRequests
    BY <1>1
  <2>5. IsInjective(free_slots)
    <3> SUFFICES ASSUME NEW i \in 1..MaxRequests, NEW j \in 1..MaxRequests, free_slots[i] = free_slots[j]
                 PROVE  i = j
      BY <2>4 DEF IsInjective
    <3>1. i - 1 = j - 1
      BY <1>1
    <3> QED BY <3>1, <1>2
  <2>6. Range(free_slots) = Rows
    <3>1. ASSUME NEW j \in Rows PROVE j \in Range(free_slots)
      <4>1. j + 1 \in 1..MaxRequests /\ (j + 1) - 1 = j
        BY <1>2 DEF Rows
      <4>2. free_slots[j + 1] = j
        BY <4>1, <1>1
      <4> QED BY <4>1, <4>2, <2>4 DEF Range
    <3>2. Range(free_slots) \subseteq Rows
      BY <2>3, <2>4 DEF Range
    <3> QED BY <3>1, <3>2
  <2>7. Range(running) = {r \in Requests : req[r].state = "running"}
    BY <2>2, <1>5
  <2>8. Range(free_slots) \cup {req[r].req_pool_idx : r \in Range(running)} = Rows
    BY <2>2, <2>6
  <2>9. Len(free_slots) + Len(running) = MaxRequests
    BY <2>1, <2>3, <1>2
  <2>10. \A r \in Range(running) : r \in {}
    BY <2>2
  <2> QED BY <2>1, <2>2, <2>3, <2>5, <2>7, <2>8, <2>9, <2>10 DEF SlotsOK
<1> QED BY <1>1, <1>4, <1>6, <1>7, <1>8, <1>9 DEF ManagerInv

\* Every step of the manager keeps the invariant, whatever its callers do.
LEMMA ManagerStep ==
  ASSUME ManagerInv, [Next]_vars
  PROVE  ManagerInv'
<1>1. ASSUME NEW r \in Requests, PrefixForWaitingReq(r) PROVE ManagerInv'
  BY <1>1, MatchKeeps
<1>2. ASSUME NEW b \in {<<r>> : r \in Requests} \cup (Requests \X Requests),
             IsInjective(b), PrepareForExtend(b)
      PROVE  ManagerInv'
  <2>1. b \in Seq(Requests)
    BY BatchOf
  <2> QED BY <2>1, <1>2, ExtendKeeps
<1>3. ASSUME PrepareForDecode PROVE ManagerInv'
  BY <1>3, DecodeKeeps
<1>4. ASSUME NEW r \in Requests, NEW t \in Tokens, AppendOutputToken(r, t) PROVE ManagerInv'
  BY <1>4, AppendKeeps
<1>5. ASSUME NEW r \in Requests, UpdateFinished(r) PROVE ManagerInv'
  BY <1>5, LeaveKeeps
<1>6. ASSUME Retract PROVE ManagerInv'
  <2>1. Last(running) \in Requests
    <3>1. running \in Seq(Requests) /\ running # << >>
      BY <1>6 DEF Retract, ManagerInv, SlotsOK
    <3>2. Len(running) \in 1..Len(running)
      BY <3>1, EmptySeq, LenProperties
    <3> QED BY <3>1, <3>2, ElementOfSeq DEF Last
  <2> QED BY <2>1, <1>6, LeaveKeeps
<1>7. ASSUME UNCHANGED vars PROVE ManagerInv'
  BY <1>7 DEF vars, ManagerInv
<1>8. ASSUME Next PROVE ManagerInv'
  <2>1. CASE \E b \in {<<r>> : r \in Requests} \cup (Requests \X Requests) :
               IsInjective(b) /\ PrepareForExtend(b)
    BY <2>1, <1>2
  <2>2. CASE \/ \E r \in Requests : PrefixForWaitingReq(r)
             \/ PrepareForDecode
             \/ \E r \in Requests, t \in Tokens : AppendOutputToken(r, t)
             \/ \E r \in Requests : UpdateFinished(r)
             \/ Retract
    BY <2>2, <1>1, <1>3, <1>4, <1>5, <1>6
  <2> QED BY <2>1, <2>2, <1>8 DEF Next
<1> QED BY <1>7, <1>8

\* The rows of the request pool and what requests hold of the tree, for any number of
\* requests, any prompts and any page size: ManagerInv is inductive.
THEOREM ManagerInvariance == Spec => []ManagerInv
<1>1. Init => ManagerInv
  BY ManagerStart
<1>2. ManagerInv /\ [Next]_vars => ManagerInv'
  BY ManagerStep
<1> QED BY <1>1, <1>2, PTL DEF Spec

\* The invariant gives every row of the pool one owner.
LEMMA RowsFollow ==
  ASSUME ManagerInv
  PROVE  RowsAreExclusive
<1>1. /\ RequestsOK(tree, req) /\ TableOK(req_to_token) /\ SlotsOK(running, free_slots, req)
      /\ TreeOK(tree) /\ free_pages \in SUBSET Pages
  BY DEF ManagerInv
<1>2. ASSUME NEW i \in Rows
      PROVE  DOMAIN req_to_token[i] = 1..MaxLen /\ Range(req_to_token[i]) \subseteq Nat
  <2>1. req_to_token[i] \in [1..MaxLen -> Nat]
    BY <1>1 DEF TableOK
  <2>2. PICK f : f = req_to_token[i]
    OBVIOUS
  <2>3. f \in [1..MaxLen -> Nat]
    BY <2>1, <2>2
  <2>4. DOMAIN f = 1..MaxLen /\ Range(f) \subseteq Nat
    BY ONLY <2>3 DEF Range
  <2> QED BY <2>2, <2>4
<1>3. ASSUME NEW r \in Requests
      PROVE  /\ req[r].state \in {"waiting", "matched", "running", "done"}
             /\ req[r].tokens \in Seq(Range(Prompt[r]) \cup Tokens)
             /\ req[r].req_pool_idx \in Rows \cup {-1}
             /\ Protected(r) = Len(req[r].last_node) * PageSize
             /\ Protected(r) < Len(req[r].tokens)
             /\ req[r].seq_len \in 0..MaxLen
  <2>1. RequestOK(r, req[r])
    BY <1>1 DEF RequestsOK
  <2>2. req[r] \in RecordsOf(r)
    BY <2>1 DEF RequestOK
  <2>3. /\ req[r].state \in {"waiting", "matched", "running", "done"}
        /\ req[r].tokens \in Seq(Range(Prompt[r]) \cup Tokens)
        /\ req[r].req_pool_idx \in Rows \cup {-1} /\ req[r].seq_len \in Nat
    BY <2>2, FieldsOf
  <2>4. /\ Len(req[r].prefix_indices) \in Nat
        /\ Len(req[r].prefix_indices) = Len(req[r].last_node) * PageSize
        /\ Len(req[r].prefix_indices) < Len(Prompt[r]) /\ Len(Prompt[r]) \in Nat
    BY <1>1, PrefixLength
  <2>5. Len(req[r].tokens) \in Nat /\ Len(Prompt[r]) <= Len(req[r].tokens)
    BY <2>1, <2>3, LenProperties DEF RequestOK
  <2>6. MaxLen \in Nat /\ Len(Prompt[r]) + MaxOutput <= MaxLen /\ MaxOutput \in Nat
    BY RowsLongEnough
  <2>7. req[r].seq_len \in 0..MaxLen
    <3>1. \/ req[r].seq_len = 0
          \/ req[r].seq_len \in Len(Prompt[r])..(Len(Prompt[r]) + MaxOutput)
      BY <2>1, <2>3 DEF RequestOK
    <3> QED BY <3>1, <2>4, <2>6
  <2>8. Protected(r) = Len(req[r].last_node) * PageSize /\ Protected(r) < Len(req[r].tokens)
    BY <2>4, <2>5 DEF Protected
  <2> QED BY <2>3, <2>7, <2>8
<1>4. running \in Seq(Requests)
  BY <1>1 DEF SlotsOK
<1>5. TypeOK
  BY <1>1, <1>2, <1>3, <1>4 DEF TypeOK
<1>6. RowsExclusive
  <2>1. Running = Range(running)
    BY <1>1 DEF Running, SlotsOK
  <2> QED BY <2>1, <1>1 DEF RowsExclusive, SlotsOK
<1> QED BY <1>5, <1>6 DEF RowsAreExclusive

\* The invariant keeps the prefix of every request.
LEMMA PrefixFollows ==
  ASSUME ManagerInv
  PROVE  PrefixStays
<1>1. /\ RequestsOK(tree, req) /\ TableOK(req_to_token) /\ TreeOK(tree) /\ Locked(tree, req)
      /\ Begins(req, req_to_token)
  BY DEF ManagerInv, RequestsOK
<1>2. ASSUME NEW r \in Requests
      PROVE  /\ req[r].last_node \in Nodes(tree) \cup {<< >>}
             /\ req[r].prefix_indices = FlattenSeq(ValueTo(tree, req[r].last_node))
  BY <1>1 DEF RequestsOK, PrefixAt
<1>3. ASSUME NEW r \in Requests, req[r].state = "running"
      PROVE  IsPrefix(req[r].prefix_indices, Row(r))
  <2> DEFINE s == req[r].prefix_indices
             n == req[r].seq_len
             j == req[r].req_pool_idx
             w == Row(r)
  <2>1. s \in Seq(Nat) /\ Len(s) \in Nat /\ Len(s) < Len(Prompt[r]) /\ Len(Prompt[r]) \in Nat
    BY <1>1, PrefixLength
  <2>2. j \in Rows /\ n \in Len(Prompt[r])..(Len(Prompt[r]) + MaxOutput)
    BY <1>1, <1>3 DEF RequestsOK, RequestOK
  <2>3. MaxLen \in Nat /\ Len(Prompt[r]) + MaxOutput <= MaxLen /\ MaxOutput \in Nat
    BY RowsLongEnough
  <2>4. w = [x \in 1..n |-> req_to_token[j][x]]
    BY DEF Row
  <2>5. \A x \in 1..Len(s) : req_to_token[j][x] = s[x]
    BY <1>1, <1>3 DEF Begins
  <2> HIDE DEF s, n, j, w
  <2>6. n \in Nat /\ n <= MaxLen /\ Len(s) <= n
    BY <2>1, <2>2, <2>3
  <2>7. w \in Seq(Nat) /\ Len(w) = n
    <3>1. \A x \in 1..n : req_to_token[j][x] \in Nat
      BY <2>2, <2>3, <2>6, <1>1 DEF TableOK
    <3>2. w \in [1..n -> Nat]
      BY <3>1, <2>4
    <3> QED BY <3>2, <2>6
  <2>8. \A x \in 1..Len(s) : s[x] = w[x]
    BY <2>1, <2>4, <2>5, <2>6
  <2> QED BY <2>1, <2>6, <2>7, <2>8, PrefixIs DEF s, w
<1>4. ASSUME NEW n \in Nodes(tree) PROVE tree.lock[n] >= Cardinality(Holders(n))
  <2>1. Holders(n) \subseteq Holding(req, n) /\ Holding(req, n) \subseteq Requests
    BY DEF Holders, Holding
  <2>2. IsFiniteSet(Holding(req, n))
    BY <2>1, ManagerAssumption, FS_Subset
  <2>3. Cardinality(Holders(n)) <= Cardinality(Holding(req, n)) /\ Cardinality(Holders(n)) \in Nat
        /\ Cardinality(Holding(req, n)) \in Nat
    BY <2>1, <2>2, FS_Subset, FS_CardinalityType
  <2>4. tree.lock[n] >= Cardinality(Holding(req, n)) /\ tree.lock[n] \in Nat
    BY <1>1 DEF Locked, TreeOK, IsTree
  <2> QED BY <2>3, <2>4
<1> QED BY <1>2, <1>3, <1>4 DEF PrefixStays

\* Every row of the request pool is free once or belongs to one running request, and no
\* prefix is longer than the tokens it was matched with.
THEOREM RowsAreExclusiveTheorem == Spec => []RowsAreExclusive
<1>1. ManagerInv => RowsAreExclusive
  BY RowsFollow
<1> QED BY <1>1, ManagerInvariance, PTL

\* What a request was given of the tree stays in the tree, locked, and at the front of its
\* row, through every match, eviction, insertion and release of the others.
THEOREM PrefixStaysTheorem == Spec => []PrefixStays
<1>1. ManagerInv => PrefixStays
  BY PrefixFollows
<1> QED BY <1>1, ManagerInvariance, PTL

\* What a workload restricts is what the callers do: it is a behaviour of the manager.
THEOREM WorkloadRefinement == WorkloadSpec => Spec
<1>1. WorkloadInit => Init
  BY DEF WorkloadInit
<1>2. [WorkloadNext]_<<vars, workload>> => [Next]_vars
  <2> SUFFICES ASSUME [WorkloadNext]_<<vars, workload>> PROVE [Next]_vars
    OBVIOUS
  <2>1. CASE WorkloadNext
    BY <2>1 DEF WorkloadNext, Next
  <2>2. CASE UNCHANGED <<vars, workload>>
    BY <2>2
  <2> QED BY <2>1, <2>2
<1> QED BY <1>1, <1>2, PTL DEF WorkloadSpec, Spec

---------------------------------------------------------------------------
(* Whole pages.                                                             *)

\* The indices of a page, in order.
PageBlock(g) == [j \in 1..PageSize |-> (g * PageSize) + (j - 1)]

LEMMA PageBlockIs ==
  ASSUME NEW g \in Pages
  PROVE  /\ PageBlock(g) \in Chunk /\ Range(PageBlock(g)) \subseteq Slots
         /\ \A j \in 1..PageSize : /\ PageBlock(g)[j] \in Slots /\ PageOf(PageBlock(g)[j]) = g
                                   /\ PageBlock(g)[j] % PageSize = j - 1
         /\ ChunkPages[PageBlock(g)] = {g}
         /\ \A h \in Pages : PageBlock(g) = PageBlock(h) => g = h
<1> DEFINE c == PageBlock(g)
<1>1. PageSize \in Nat /\ PageSize >= 2 /\ Pages \in SUBSET Int
  BY PageAssumption DEF Pages
<1>2. \A h \in Pages, j \in 1..PageSize :
        /\ PageBlock(h)[j] = (h * PageSize) + (j - 1) /\ PageBlock(h)[j] \in Slots
        /\ PageOf(PageBlock(h)[j]) = h /\ PageBlock(h)[j] % PageSize = j - 1
  <2> TAKE h \in Pages, j \in 1..PageSize
  <2>1. PageBlock(h)[j] = (h * PageSize) + (j - 1)
    BY DEF PageBlock
  <2>2. PICK k \in 0..(PageSize - 1) : k = j - 1
    BY <1>1
  <2>3. (h * PageSize) + k \in Slots
    BY SlotRange
  <2>4. PageOf((h * PageSize) + k) = h /\ ((h * PageSize) + k) % PageSize = k
    BY <1>1, SlotParts
  <2> QED BY <2>1, <2>2, <2>3, <2>4
<1>3. Slots \subseteq Nat
  <2>1. PageSize * (NumPages + 1) \in Int /\ NumPages \in Nat
    BY PageAssumption
  <2> QED BY <2>1, <1>1 DEF Slots
<1>4. c = [j \in 1..PageSize |-> c[j]]
  BY DEF PageBlock
<1> HIDE DEF c
<1>5. \A j \in 1..PageSize : c[j] \in Slots /\ c[j] \in Nat /\ PageOf(c[j]) = g
  BY <1>2, <1>3 DEF c
<1>6. c \in Chunk
  BY <1>4, <1>5 DEF Chunk
<1>7. Range(c) = {c[j] : j \in 1..PageSize} /\ 1 \in 1..PageSize
  <2>1. DOMAIN c = 1..PageSize
    BY <1>4
  <2> QED BY <2>1, <1>1 DEF Range
<1>8. Range(c) \subseteq Slots
  BY <1>5, <1>7
<1>9. PagesOf(Range(c)) = {g}
  BY <1>5, <1>7 DEF PagesOf
<1>10. ChunkPages[c] = {g}
  <2>1. Freeable(Range(c)) = {g}
    BY <1>9 DEF Freeable
  <2> QED BY <2>1, <1>6 DEF ChunkPages, Chunk
<1>11. ASSUME NEW h \in Pages, c = PageBlock(h) PROVE g = h
  <2>1. PageOf(PageBlock(h)[1]) = h
    BY <1>2, <1>7
  <2>2. PageOf(c[1]) = g
    BY <1>5, <1>7
  <2> QED BY <2>1, <2>2, <1>11
<1> QED BY <1>2, <1>6, <1>8, <1>10, <1>11 DEF c

\* S holds the entries of the sound row rho behind page k, up to entry z.
SlotsFrom(S, rho, k, z) ==
  /\ rho \in Seq(Slots) /\ SoundRow(rho) /\ k \in Nat /\ z \in 0..Len(rho)
  /\ S = {rho[x] : x \in (k * PageSize + 1)..z}

\* Their pages.
LEMMA PagesFrom ==
  ASSUME NEW rho, NEW k, NEW z, NEW S, SlotsFrom(S, rho, k, z)
  PROVE  PagesOf(S) = {PageTable(rho)[b] : b \in k..(CeilPages(z) - 1)}
<1>0. /\ rho \in Seq(Slots) /\ SoundRow(rho) /\ k \in Nat /\ z \in 0..Len(rho)
      /\ S = {rho[x] : x \in (k * PageSize + 1)..z}
  BY DEF SlotsFrom
<1>1. PageSize \in Nat /\ PageSize >= 2 /\ Len(rho) \in Nat /\ z \in Nat
  BY <1>0, PageAssumption, LenProperties
<1>2. PICK a \in Nat : a = k * PageSize /\ a = PageSize * k
  <2>1. k * PageSize \in Nat /\ k * PageSize = PageSize * k
    BY <1>0, <1>1
  <2> QED BY <2>1
<1>3. CeilPages(z) \in Nat /\ CeilPages(z) <= CeilPages(Len(rho)) /\ CeilPages(Len(rho)) \in Nat
  BY <1>0, <1>1, CeilSpec, CeilMono
<1> DEFINE T == PageTable(rho)
<1>4. \A x \in 1..Len(rho) : PageOf(rho[x]) = T[BlockOf(x)]
  <2> TAKE x \in 1..Len(rho)
  <2>1. rho[x] = (T[BlockOf(x)] * PageSize) + ((x - 1) % PageSize)
    BY <1>0, SoundTable
  <2>2. BlockOf(x) \in Nat /\ (x - 1) % PageSize \in 0..(PageSize - 1) /\ BlockOf(x) < CeilPages(Len(rho))
    BY <1>1, BlockSpec, BlockBelow
  <2>3. T \in [0..(CeilPages(Len(rho)) - 1) -> Pages]
    BY <1>0, SoundTable
  <2>4. T[BlockOf(x)] \in Pages
    BY <2>2, <2>3, <1>3
  <2>5. T[BlockOf(x)] \in Int
    BY <2>4 DEF Pages
  <2> HIDE DEF T
  <2> QED BY <2>1, <2>2, <2>5, SlotParts
<1> HIDE DEF T
<1>5. S = {rho[x] : x \in (a + 1)..z}
  BY <1>0, <1>2
<1>6. ASSUME NEW p \in PagesOf(S) PROVE p \in {T[b] : b \in k..(CeilPages(z) - 1)}
  <2>1. PICK x \in (a + 1)..z : p = PageOf(rho[x])
    BY <1>5, <1>6 DEF PagesOf
  <2>2. x \in Nat /\ x >= 1 /\ x \in 1..Len(rho) /\ x <= z
    BY <2>1, <1>0, <1>1, <1>2
  <2>3. BlockOf(x) < CeilPages(z) /\ BlockOf(x) \in Nat /\ (x - 1) % PageSize \in 0..(PageSize - 1)
        /\ x - 1 = PageSize * BlockOf(x) + ((x - 1) % PageSize)
    BY <2>2, <1>1, BlockBelow, BlockSpec
  <2>4. k <= BlockOf(x)
    <3> SUFFICES ASSUME BlockOf(x) < k PROVE FALSE
      BY <1>0, <2>3
    <3>1. PICK c \in Int : c = PageSize * BlockOf(x)
      BY <2>3, <1>1
    <3>2. c + PageSize <= a
      BY <1>0, <2>3, <3>1, <1>2, MulOrder
    <3>3. x - 1 < c + PageSize
      BY ONLY <2>3, <3>1, <1>1
    <3> QED BY ONLY <3>1, <3>2, <3>3, <2>1, <1>1, <1>2
  <2>5. BlockOf(x) \in k..(CeilPages(z) - 1)
    BY <1>0, <2>3, <2>4, <1>3
  <2>6. p = T[BlockOf(x)]
    BY <2>1, <2>2, <1>4
  <2> QED BY <2>5, <2>6
<1>7. ASSUME NEW b \in k..(CeilPages(z) - 1) PROVE T[b] \in PagesOf(S)
  <2>1. b \in 0..(CeilPages(z) - 1) /\ b \in Nat
    BY <1>0, <1>3
  <2>2. PICK x \in Nat : x = PageSize * b + 1 /\ x \in 1..z /\ BlockOf(x) = b
    <3>1. PageSize * b + 1 \in 1..z /\ BlockOf(PageSize * b + 1) = b
      BY <2>1, <1>1, BlockFirst
    <3> QED BY <3>1
  <2>3. PageSize * k <= PageSize * b
    BY <1>0, <2>1, MulMono
  <2>4. x \in (a + 1)..z
    <3>1. PageSize * b \in Int
      BY <2>1, <1>1
    <3> QED BY <3>1, <2>2, <2>3, <1>1, <1>2
  <2>5. rho[x] \in S
    BY <2>4, <1>5
  <2>6. PageOf(rho[x]) = T[b]
    BY <1>0, <2>2, <1>1, <1>4
  <2> QED BY <2>5, <2>6 DEF PagesOf
<1> QED BY <1>6, <1>7 DEF T

---------------------------------------------------------------------------
(* Places of pages.                                                         *)

\* The tree has every page once, and whole.
WholePages(t) ==
  /\ \A p \in Known(t) : \E g \in Pages : PageAt(t, p) = PageBlock(g)
  /\ \A p, q \in Known(t) : PageAt(t, p) = PageAt(t, q) => p = q

PagesKnown(t) == {g \in Pages : \E p \in Known(t) : PageAt(t, p) = PageBlock(g)}

\* What a request x has in its row in the table m, and its pages behind the prefix.
RowOf(m, x) == [i \in 1..x.seq_len |-> m[x.req_pool_idx][i]]
OwnOf(m, x) == PagesOf({RowOf(m, x)[i] : i \in (Len(x.prefix_indices) + 1)..x.seq_len})

\* A row is a sound page table, and an index more than the host has tokens is in a page
\* with another.
RowFits(m, x) ==
  /\ RowOf(m, x) \in Seq(Slots) /\ SoundRow(RowOf(m, x))
  /\ x.seq_len > Len(x.tokens) => Len(x.tokens) % PageSize # 0

\* Every page is free, in the tree, or one owner's.
Placed(F, T, S, O) ==
  /\ Pages = F \cup T \cup UNION {O[r] : r \in S}
  /\ F \cap T = {}
  /\ \A r \in S : /\ O[r] \cap F = {} /\ O[r] \cap T = {}
                  /\ \A s \in S : s # r => O[r] \cap O[s] = {}

RunningIn(q) == {r \in Requests : q[r].state = "running"}

Owns(q, m) == [r \in Requests |-> OwnOf(m, q[r])]

Places(F, t, q, m) ==
  /\ WholePages(t)
  /\ \A r \in RunningIn(q) : RowFits(m, q[r])
  /\ Placed(F, PagesKnown(t), RunningIn(q), Owns(q, m))

\* The indices of a matched prefix are a sound row over pages of the tree.
LEMMA PrefixRow ==
  ASSUME NEW t, TreeOK(t), WholePages(t), NEW n \in Nodes(t) \cup {<< >>},
         NEW s, s = FlattenSeq(ValueTo(t, n))
  PROVE  /\ s \in Seq(Slots) /\ SoundRow(s) /\ PagesOfRow(s) \subseteq PagesKnown(t)
         /\ Len(s) = Len(n) * PageSize
<1> DEFINE v == ValueTo(t, n)
           L == Len(n)
           T == [b \in 0..(L - 1) |-> CHOOSE g \in Pages : PageAt(t, Cut(n, b + 1)) = PageBlock(g)]
<1>1. PageSize \in Nat /\ PageSize >= 2
  BY PageAssumption
<1>2. /\ n \in Seq(Chunk) /\ v \in Seq(Chunk) /\ Len(v) = L /\ L \in Nat
      /\ \A i \in 1..L : Cut(n, i) \in Known(t) /\ v[i] = PageAt(t, Cut(n, i))
      /\ s \in Seq(Nat) /\ Len(s) = L * PageSize
  <2>1. n \in Seq(Chunk) /\ L \in Nat
    BY ValueToIs, LenProperties
  <2> QED BY <2>1, ValueToIs
<1>3. \A b \in 0..(L - 1) : T[b] \in Pages /\ PageAt(t, Cut(n, b + 1)) = PageBlock(T[b])
                            /\ Cut(n, b + 1) \in Known(t)
  <2> TAKE b \in 0..(L - 1)
  <2>1. b + 1 \in 1..L
    BY <1>2
  <2>2. Cut(n, b + 1) \in Known(t)
    BY <1>2, <2>1
  <2>3. \E g \in Pages : PageAt(t, Cut(n, b + 1)) = PageBlock(g)
    BY <2>2 DEF WholePages
  <2>4. T[b] = CHOOSE g \in Pages : PageAt(t, Cut(n, b + 1)) = PageBlock(g)
    OBVIOUS
  <2> HIDE DEF T
  <2> QED BY <2>2, <2>3, <2>4
<1>4. T = [b \in 0..(L - 1) |-> T[b]]
  OBVIOUS
<1> HIDE DEF T
<1>5. T \in [0..(L - 1) -> Pages]
  BY <1>3, <1>4
<1>6. ASSUME NEW b \in 0..(L - 1), NEW c \in 0..(L - 1), T[b] = T[c] PROVE b = c
  <2>1. Cut(n, b + 1) = Cut(n, c + 1)
    BY <1>3, <1>6 DEF WholePages
  <2>2. b + 1 \in 0..L /\ c + 1 \in 0..L
    BY <1>2
  <2>3. Len(Cut(n, b + 1)) = b + 1 /\ Len(Cut(n, c + 1)) = c + 1
    BY <2>2, <1>2, CutOf
  <2> QED BY <2>1, <2>3
<1>7. L * PageSize \in Nat /\ CeilPages(L * PageSize) = L
  BY <1>2, CeilMultiple
<1> DEFINE z == L * PageSize
<1>8. ASSUME NEW x \in 1..z PROVE s[x] = (T[BlockOf(x)] * PageSize) + ((x - 1) % PageSize)
  <2> DEFINE i == BlockOf(x) + 1
             j == ((x - 1) % PageSize) + 1
  <2>1. i \in 1..L /\ j \in 1..PageSize /\ x = Entry(i, j)
    BY <1>2, EntryOf
  <2>2. s[Entry(i, j)] = v[i][j]
    <3>1. \A k \in 1..Len(v), l \in 1..PageSize : s[Entry(k, l)] = v[k][l]
      BY <1>2, FlattenIs DEF Chunk
    <3> HIDE DEF v, i, j
    <3> QED BY <2>1, <3>1, <1>2
  <2>3. BlockOf(x) \in 0..(L - 1) /\ i - 1 = BlockOf(x) /\ j - 1 = (x - 1) % PageSize
    <3>1. x \in Nat /\ x >= 1
      BY <1>7
    <3>2. BlockOf(x) \in Nat /\ (x - 1) % PageSize \in 0..(PageSize - 1)
      BY <3>1, BlockSpec
    <3>3. PICK b, c : b = BlockOf(x) /\ c = (x - 1) % PageSize
      OBVIOUS
    <3>4. /\ b \in Nat /\ c \in 0..(PageSize - 1) /\ i = b + 1 /\ j = c + 1 /\ i \in 1..L
          /\ L \in Nat /\ PageSize \in Nat
      BY <3>2, <3>3, <2>1, <1>1, <1>2
    <3> HIDE DEF i, j
    <3>5. i - 1 = b /\ b \in 0..(L - 1)
      BY ONLY <3>4
    <3>6. j - 1 = c
      BY ONLY <3>4
    <3> QED BY <3>3, <3>5, <3>6
  <2>4. v[i] = PageBlock(T[BlockOf(x)])
    BY <2>1, <2>3, <1>2, <1>3
  <2> HIDE DEF i, v
  <2>5. PageBlock(T[BlockOf(x)])[j] = (T[BlockOf(x)] * PageSize) + (j - 1)
    BY <2>1 DEF PageBlock
  <2> HIDE DEF j
  <2> QED BY <2>1, <2>2, <2>3, <2>4, <2>5
<1>9. s = [x \in 1..z |-> s[x]]
  BY <1>2, <1>7, LenProperties
<1> HIDE DEF z
<1>10. z \in Nat /\ CeilPages(z) = L
  BY <1>7 DEF z
<1>11. s \in [1..z -> Slots] /\ SoundRow(s) /\ PagesOfRow(s) = {T[b] : b \in 0..(L - 1)}
  <2>1. T \in [0..(CeilPages(z) - 1) -> Pages]
        /\ (\A b, c \in 0..(CeilPages(z) - 1) : T[b] = T[c] => b = c)
    BY <1>5, <1>6, <1>10
  <2>2. \A x \in 1..z : s[x] = (T[BlockOf(x)] * PageSize) + ((x - 1) % PageSize)
    BY <1>8 DEF z
  <2> HIDE DEF z
  <2>3. s \in [1..z -> Slots] /\ SoundRow(s) /\ PagesOfRow(s) = {T[b] : b \in 0..(CeilPages(z) - 1)}
    BY ONLY <2>1, <2>2, <1>9, <1>10, TableSound
  <2> QED BY <2>3, <1>10
<1>12. s \in Seq(Slots)
  BY <1>10, <1>11
<1>13. PagesOfRow(s) \subseteq PagesKnown(t)
  BY <1>3, <1>11 DEF PagesKnown
<1> QED BY <1>2, <1>11, <1>12, <1>13

\* The row of a running request with the prefix P, and the pages O in it that are its own.
OwnRow(x, rho, P, O) ==
  /\ rho \in Seq(Slots) /\ SoundRow(rho) /\ Len(rho) = x.seq_len
  /\ P = Len(x.last_node) /\ P \in Nat
  /\ O = {PageTable(rho)[b] : b \in P..(CeilPages(x.seq_len) - 1)}

\* The pages of a running request: those of its prefix, and its own.
LEMMA OwnPagesAre ==
  ASSUME NEW t, TreeOK(t), NEW q, RequestsOK(t, q), NEW m,
         NEW r \in RunningIn(q), RowFits(m, q[r])
  PROVE  OwnRow(q[r], RowOf(m, q[r]), Len(q[r].last_node), OwnOf(m, q[r]))
<1> DEFINE rho == RowOf(m, q[r])
<1>1. PageSize \in Nat /\ r \in Requests /\ q[r].state = "running"
  BY PageAssumption DEF RunningIn
<1>2. rho \in Seq(Slots) /\ SoundRow(rho)
  BY DEF RowFits
<1>3. q[r].seq_len \in Nat
  <2>1. RequestOK(r, q[r])
    BY <1>1 DEF RequestsOK
  <2> QED BY <2>1, FieldsOf DEF RequestOK
<1>4. Len(rho) = q[r].seq_len
  BY <1>3 DEF RowOf
<1> DEFINE P == Len(q[r].last_node)
           z == q[r].seq_len
<1>5. P \in Nat /\ Len(q[r].prefix_indices) = P * PageSize
  BY <1>1, PrefixLength
<1>6. OwnOf(m, q[r]) = PagesOf({rho[x] : x \in (P * PageSize + 1)..z})
  BY <1>5 DEF OwnOf
<1>7. z \in 0..Len(rho)
  BY <1>3, <1>4
<1> HIDE DEF P, z, rho
<1>8. OwnOf(m, q[r]) = {PageTable(rho)[b] : b \in P..(CeilPages(z) - 1)}
  <2>1. PICK S : S = {rho[x] : x \in (P * PageSize + 1)..z}
    OBVIOUS
  <2>2. SlotsFrom(S, rho, P, z)
    BY <2>1, <1>2, <1>5, <1>7 DEF SlotsFrom
  <2>3. PagesOf(S) = {PageTable(rho)[b] : b \in P..(CeilPages(z) - 1)}
    BY ONLY <2>2, PagesFrom
  <2> QED BY <2>1, <2>3, <1>6
<1>9. OwnRow(q[r], rho, P, OwnOf(m, q[r]))
  BY <1>2, <1>4, <1>5, <1>8 DEF OwnRow, P, z
<1> QED BY <1>9 DEF rho, P

---------------------------------------------------------------------------
(* Steps that take no page.                                                 *)

\* An eviction moves pages from the tree to the free ones.
LEMMA EvictPlaces ==
  ASSUME NEW t, WholePages(t), NEW F \in SUBSET Pages, NEW e, Evicted(Chunk, ChunkPages, t, F, e),
         NEW S, NEW O, Placed(F, PagesKnown(t), S, O)
  PROVE  WholePages(e.tree) /\ Placed(e.free, PagesKnown(e.tree), S, O)
<1> DEFINE L == UNION {ChunkPages[PageAt(t, p)] : p \in Lost(t, e)}
           u == e.tree
<1>1. /\ Known(u) \subseteq Known(t) /\ \A p \in Known(u) : PageAt(u, p) = PageAt(t, p)
      /\ e.free = F \cup L
  BY DEF Evicted
<1>2. \A p : p \in Lost(t, e) <=> p \in Known(t) /\ p \notin Known(u)
  BY DEF Lost
<1>3. \A g : g \in L <=> \E p \in Lost(t, e) : g \in ChunkPages[PageAt(t, p)]
  OBVIOUS
<1> HIDE DEF L, u
<1>4. \A p \in Known(t), g \in Pages : g \in ChunkPages[PageAt(t, p)] <=> PageAt(t, p) = PageBlock(g)
  <2> TAKE p \in Known(t), g \in Pages
  <2>1. PICK h \in Pages : PageAt(t, p) = PageBlock(h)
    BY DEF WholePages
  <2>2. ChunkPages[PageAt(t, p)] = {h} /\ (PageBlock(h) = PageBlock(g) => h = g)
    BY <2>1, PageBlockIs
  <2> QED BY <2>1, <2>2
<1>5. L \subseteq Pages
  <2> SUFFICES ASSUME NEW g \in L PROVE g \in Pages
    OBVIOUS
  <2>1. PICK p \in Known(t) : g \in ChunkPages[PageAt(t, p)]
    BY <1>2, <1>3
  <2>2. PICK h \in Pages : PageAt(t, p) = PageBlock(h)
    BY DEF WholePages
  <2>3. ChunkPages[PageAt(t, p)] = {h}
    BY <2>2, PageBlockIs
  <2> QED BY <2>1, <2>3
<1>6. \A g \in Pages : g \in L <=> \E p \in Known(t) : p \notin Known(u) /\ PageAt(t, p) = PageBlock(g)
  BY <1>2, <1>3, <1>4
<1>7. PagesKnown(u) = PagesKnown(t) \ L
  <2> SUFFICES ASSUME NEW g \in Pages PROVE g \in PagesKnown(u) <=> g \in PagesKnown(t) /\ g \notin L
    BY DEF PagesKnown
  <2>1. g \in PagesKnown(u) <=> \E p \in Known(u) : PageAt(t, p) = PageBlock(g)
    BY <1>1 DEF PagesKnown
  <2>2. g \in PagesKnown(t) <=> \E p \in Known(t) : PageAt(t, p) = PageBlock(g)
    BY DEF PagesKnown
  <2>3. \A p, q \in Known(t) : PageAt(t, p) = PageBlock(g) /\ PageAt(t, q) = PageBlock(g) => p = q
    BY DEF WholePages
  <2> QED BY <2>1, <2>2, <2>3, <1>1, <1>6
<1>8. L \subseteq PagesKnown(t)
  BY <1>5, <1>6 DEF PagesKnown
<1>9. WholePages(u)
  BY <1>1 DEF WholePages
<1>10. Placed(e.free, PagesKnown(u), S, O)
  <2>1. PICK T, T2 : T = PagesKnown(t) /\ T2 = PagesKnown(u)
    OBVIOUS
  <2>2. Placed(F, T, S, O) /\ T2 = T \ L /\ L \subseteq T /\ e.free = F \cup L
    BY <2>1, <1>1, <1>7, <1>8
  <2>3. Placed(e.free, T2, S, O)
    BY ONLY <2>2 DEF Placed
  <2> QED BY <2>1, <2>3
<1> QED BY <1>9, <1>10 DEF u

\* Places stay if the tree keeps its paths and pages, and running requests their rows.
LEMMA SamePlaces ==
  ASSUME NEW F, NEW t, NEW q, NEW m, Places(F, t, q, m), NEW u, Known(u) = Known(t),
         \A p \in Known(t) : PageAt(u, p) = PageAt(t, p),
         NEW h, RunningIn(h) = RunningIn(q),
         \A r \in RunningIn(q) :
           /\ h[r].req_pool_idx = q[r].req_pool_idx /\ h[r].seq_len = q[r].seq_len
           /\ h[r].prefix_indices = q[r].prefix_indices
           /\ h[r].seq_len > Len(h[r].tokens) => Len(h[r].tokens) % PageSize # 0
  PROVE  Places(F, u, h, m)
<1>1. WholePages(u) /\ PagesKnown(u) = PagesKnown(t)
  BY DEF Places, WholePages, PagesKnown
<1>2. ASSUME NEW r \in RunningIn(q)
      PROVE  RowFits(m, h[r]) /\ OwnOf(m, h[r]) = OwnOf(m, q[r])
  <2>1. RowOf(m, h[r]) = RowOf(m, q[r])
    BY DEF RowOf
  <2>2. RowFits(m, h[r])
    BY <2>1 DEF Places, RowFits
  <2>3. OwnOf(m, h[r]) = OwnOf(m, q[r])
    BY <2>1 DEF OwnOf
  <2> QED BY <2>2, <2>3
<1>3. Placed(F, PagesKnown(t), RunningIn(q), Owns(h, m))
  <2>1. \A r \in RunningIn(q) : Owns(h, m)[r] = Owns(q, m)[r]
    BY <1>2 DEF Owns, RunningIn
  <2>2. PICK S, T, O, N : S = RunningIn(q) /\ T = PagesKnown(t) /\ O = Owns(q, m) /\ N = Owns(h, m)
    OBVIOUS
  <2>3. Placed(F, T, S, O) /\ \A r \in S : N[r] = O[r]
    BY <2>1, <2>2 DEF Places
  <2>4. {N[r] : r \in S} = {O[r] : r \in S}
    BY <2>3
  <2>5. Placed(F, T, S, N)
    BY ONLY <2>3, <2>4 DEF Placed
  <2> QED BY <2>2, <2>5
<1> QED BY <1>1, <1>2, <1>3 DEF Places

\* A token behind a page that is not full needs no new page.
LEMMA NoNewPage ==
  ASSUME NEW len \in Nat, len % PageSize # 0
  PROVE  NewPages(len, len + 1) = 0
<1>1. NewPages((len + 1) - 1, len + 1) = IF (len + 1) % PageSize = 1 THEN 1 ELSE 0
  BY DecodeNewPage
<1>2. (len + 1) - 1 = len
  OBVIOUS
<1>3. (len + 1) % PageSize # 1
  <2> SUFFICES ASSUME (len + 1) % PageSize = 1 PROVE FALSE
    OBVIOUS
  <2>1. PICK k \in Int : k = (len + 1) \div PageSize /\ len + 1 = PageSize * k + 1
    BY DivMod
  <2>2. PageSize * k \in Int
    BY PageAssumption
  <2>3. len = PageSize * k + 0
    BY <2>1, <2>2
  <2>4. 0 \in 0..(PageSize - 1)
    BY PageAssumption
  <2>5. (PageSize * k + 0) % PageSize = 0
    BY <2>4, DivUnique
  <2> QED BY ONLY <2>3, <2>5, len % PageSize # 0
<1> QED BY <1>1, <1>2, <1>3

\* A row grows inside its last page.
LEMMA GrowInPage ==
  ASSUME NEW rho \in Seq(Slots), SoundRow(rho), NEW len \in Nat, len = Len(rho), len % PageSize # 0,
         NEW new, new = [x \in 1..(len + 1) |-> IF x <= len THEN rho[x] ELSE rho[len] + 1]
  PROVE  /\ new \in Seq(Slots) /\ SoundRow(new) /\ Len(new) = len + 1 /\ len >= 1
         /\ PageOf(new[len + 1]) = PageOf(rho[len])
<1>1. PageSize \in Nat /\ PageSize >= 2
  BY PageAssumption
<1>2. PICK d \in Int, w \in Nat : len = d + w /\ d = PageSize * (len \div PageSize) /\ w = len % PageSize
                                  /\ w >= 1 /\ w <= PageSize - 1 /\ len \div PageSize \in Int
  <2>1. /\ len \div PageSize \in Int /\ len % PageSize \in 0..(PageSize - 1)
        /\ len = PageSize * (len \div PageSize) + (len % PageSize)
    BY DivMod
  <2>2. PageSize * (len \div PageSize) \in Int
    BY <2>1, <1>1
  <2> QED BY <2>1, <2>2, <1>1
<1>3. len >= 1
  <2> SUFFICES ASSUME len = 0 PROVE FALSE
    OBVIOUS
  <2>1. (PageSize * 0 + 0) % PageSize = 0
    BY <1>1, DivUnique
  <2>2. PageSize * 0 + 0 = 0
    BY <1>1
  <2> QED BY <2>1, <2>2
<1>4. NewPages(len, len + 1) = 0
  BY NoNewPage
<1>5. len < CeilPages(len) * PageSize
  <2>1. PICK k \in Nat : k = CeilPages(len) /\ len <= PageSize * k
    BY CeilSpec
  <2>2. PageSize * k = k * PageSize /\ PageSize * k \in Nat
    BY <1>1
  <2>3. len # PageSize * k
    <3> SUFFICES ASSUME len = PageSize * k PROVE FALSE
      OBVIOUS
    <3>1. len = PageSize * k + 0
      BY <2>2
    <3>2. 0 \in 0..(PageSize - 1) /\ k \in Int
      BY <1>1
    <3>3. (PageSize * k + 0) % PageSize = 0
      BY <3>2, DivUnique
    <3> QED BY ONLY <3>1, <3>3, len % PageSize # 0
  <2> QED BY <2>1, <2>2, <2>3
<1> DEFINE need == [i \in 1..1 |-> 0]
           pre == [i \in 1..1 |-> len]
           last == [i \in 1..1 |-> rho[len]]
<1>6. NeedBefore(need, 1) = 0 /\ NeedTotal(need, 1) = 0
  BY NeedOne
<1>7. ShareOf({}, need, 1) = {}
  <2>1. 0..(0 + 0 - 1) = {}
    OBVIOUS
  <2>2. need[1] = 0
    OBVIOUS
  <2> HIDE DEF need
  <2> QED BY <2>1, <2>2, <1>6 DEF ShareOf
<1>8. new = [x \in 1..(len + 1) |-> IF x <= Len(rho) THEN rho[x] ELSE ExtendSlot({}, pre, need, last, 1, x - 1)]
  <2>1. ASSUME NEW x \in 1..(len + 1), ~ (x <= len)
        PROVE  ExtendSlot({}, pre, need, last, 1, x - 1) = rho[len] + 1
    <3>1. x - 1 = len
      BY <2>1
    <3>2. pre[1] = len /\ last[1] = rho[len] /\ rho[len] \in Int
      <4>1. rho[len] \in Slots
        BY <1>3, ElementOfSeq
      <4>2. PageSize * (NumPages + 1) \in Int
        BY PageAssumption
      <4> QED BY <4>1, <4>2 DEF Slots
    <3> HIDE DEF pre, last, need
    <3>3. ExtendSlot({}, pre, need, last, 1, len) = rho[len] + 1 + (len - len)
      BY <1>5, <3>2 DEF ExtendSlot
    <3> QED BY <3>1, <3>2, <3>3
  <2> HIDE DEF pre, last, need
  <2> QED BY <2>1
<1>9. ExtendsRow(new, rho, len + 1, {}, 1, 0, need, pre, last, 1)
  <2>1. PagesOfRow(rho) \cap {} = {} /\ {} \in SUBSET Pages /\ Cardinality({}) = 0
    BY FS_EmptySet
  <2>2. need \in [1..1 -> 0..0] /\ need[1] = 0 /\ pre[1] = len /\ last[1] = rho[len]
    OBVIOUS
  <2> HIDE DEF need, pre, last
  <2> QED BY <1>3, <1>4, <1>6, <1>8, <2>1, <2>2 DEF ExtendsRow
<1> HIDE DEF need, pre, last
<1>10. new \in [1..(len + 1) -> Slots] /\ SoundRow(new)
  BY <1>9, ExtendRow
<1>11. new \in Seq(Slots) /\ Len(new) = len + 1
  BY <1>10
<1>12. BlockOf(len + 1) = BlockOf(len)
  <2>1. PICK b \in Int : b = len \div PageSize /\ d = PageSize * b
    BY <1>2
  <2>2. w \in 0..(PageSize - 1) /\ w - 1 \in 0..(PageSize - 1)
    BY <1>1, <1>2
  <2>3. (PageSize * b + w) \div PageSize = b /\ (PageSize * b + (w - 1)) \div PageSize = b
    BY <2>1, <2>2, DivUnique
  <2>4. (len + 1) - 1 = PageSize * b + w /\ len - 1 = PageSize * b + (w - 1)
    <3>1. PICK z : z = PageSize * b
      OBVIOUS
    <3>2. len = d + w /\ d = z /\ d \in Int /\ w \in Nat
      BY <1>2, <2>1, <3>1
    <3>3. (len + 1) - 1 = z + w /\ len - 1 = z + (w - 1)
      BY ONLY <3>2
    <3> QED BY <3>1, <3>3
  <2> QED BY <2>3, <2>4 DEF BlockOf
<1>13. PageOf(new[len + 1]) = PageOf(rho[len])
  <2>1. DOMAIN new = 1..(len + 1) /\ len \in 1..(len + 1) /\ len + 1 \in 1..(len + 1)
    BY <1>3, <1>10
  <2>2. PageOf(new[len + 1]) = PageOf(new[len])
    BY <1>10, <1>12, <2>1 DEF SoundRow
  <2>3. new[len] = rho[len]
    BY <1>3
  <2> QED BY <2>2, <2>3
<1> QED BY <1>3, <1>10, <1>11, <1>13

\* What a running request's row is, and how long.
LEMMA RunningRow ==
  ASSUME NEW t, TreeOK(t), NEW q, RequestsOK(t, q), NEW r \in RunningIn(q)
  PROVE  /\ r \in Requests /\ q[r].state = "running" /\ q[r].req_pool_idx \in Rows
         /\ q[r].seq_len \in Nat /\ q[r].seq_len <= MaxLen /\ MaxLen \in Nat
         /\ Len(q[r].prefix_indices) \in Nat /\ Len(q[r].prefix_indices) < q[r].seq_len
         /\ Len(q[r].tokens) \in Nat
         /\ q[r].seq_len \in (Len(q[r].tokens) - 1)..(Len(q[r].tokens) + 1)
<1>1. r \in Requests /\ q[r].state = "running"
  BY DEF RunningIn
<1>2. RequestOK(r, q[r])
  BY <1>1 DEF RequestsOK
<1>3. /\ q[r].req_pool_idx \in Rows /\ q[r].seq_len \in Len(Prompt[r])..(Len(Prompt[r]) + MaxOutput)
      /\ q[r].seq_len \in (Len(q[r].tokens) - 1)..(Len(q[r].tokens) + 1)
  BY <1>1, <1>2 DEF RequestOK
<1>4. Len(q[r].tokens) \in Nat /\ q[r].seq_len \in Nat
  BY <1>2, FieldsOf, LenProperties DEF RequestOK
<1>5. MaxLen \in Nat /\ Len(Prompt[r]) + MaxOutput <= MaxLen /\ Len(Prompt[r]) \in Nat /\ MaxOutput \in Nat
  BY <1>1, RowsLongEnough
<1>6. Len(q[r].prefix_indices) \in Nat /\ Len(q[r].prefix_indices) < Len(Prompt[r])
  BY <1>1, PrefixLength
<1> QED BY <1>1, <1>3, <1>4, <1>5, <1>6

\* Lengths of requests whose next token is neither the first nor the second of a page.
InPages(seq, n) ==
  n \in Nat /\ seq \in [1..n -> Nat \ {0}] /\ \A i \in 1..n : seq[i] % PageSize >= 2

\* A decode inside the pages of all requests takes none.
LEMMA NoDecodePage ==
  ASSUME NEW seq, NEW n, InPages(seq, n), NEW F \in SUBSET Pages
  PROVE  /\ DecodePagesCpu(seq) = 0 /\ Smallest(F, 0) = {}
         /\ \A last : \A i \in 1..n : DecodeSlot(F, seq, last, i) = last[i] + 1
<1>0. n \in Nat /\ seq \in [1..n -> Nat \ {0}] /\ \A i \in 1..n : seq[i] % PageSize >= 2
  BY DEF InPages
<1>1. {i \in DOMAIN seq : seq[i] % PageSize = 1} = {}
  BY <1>0, PageAssumption
<1>2. DecodePagesCpu(seq) = 0
  BY <1>1, FS_EmptySet DEF DecodePagesCpu
<1>3. Smallest(F, 0) = {}
  <2>1. F \in SUBSET Int /\ IsFiniteSet(F)
    <3>1. Pages \in SUBSET Int /\ IsFiniteSet(Pages)
      BY PageAssumption, FS_Interval DEF Pages
    <3> QED BY <3>1, FS_Subset
  <2>2. Cardinality(F) \in Nat
    BY <2>1, FS_CardinalityType
  <2>3. \A p : p \in Smallest(F, 0) <=> \E k \in 0..(0 - 1) : p = NthFree(F, k)
    BY <2>1, <2>2, NthFreeSmallest
  <2>4. 0..(0 - 1) = {}
    OBVIOUS
  <2> QED BY <2>3, <2>4
<1>4. ASSUME NEW last, NEW i \in 1..n PROVE DecodeSlot(F, seq, last, i) = last[i] + 1
  <2>1. seq[i] \in Nat /\ seq[i] >= 1 /\ seq[i] % PageSize # 1
    <3>1. seq[i] \in Nat \ {0} /\ seq[i] % PageSize >= 2
      BY <1>0
    <3> QED BY <3>1
  <2>2. NewPages(seq[i] - 1, seq[i]) = 0
    BY <2>1, DecodeNewPage
  <2>3. DecodeNeed(seq)[i] = 0
    <3>1. i \in DOMAIN seq
      BY <1>0
    <3> QED BY <2>2, <3>1 DEF DecodeNeed
  <2> QED BY <2>3 DEF DecodeSlot
<1> QED BY <1>2, <1>3, <1>4

\* prepare_for_decode inside pages.
LEMMA DecodePlaces ==
  ASSUME ManagerInv, Places(free_pages, tree, req, req_to_token),
         NEW seq, NEW last, NEW e, DecodeStep(seq, last, e),
         \A r \in RunningIn(req) : req[r].seq_len % PageSize >= 2
  PROVE  Places(free_pages', tree', req', req_to_token')
<1> DEFINE n == Len(running)
<1>1. /\ RequestsOK(tree, req) /\ TableOK(req_to_token) /\ SlotsOK(running, free_slots, req)
      /\ TreeOK(tree) /\ free_pages \in SUBSET Pages
  BY DEF ManagerInv
<1>2. /\ n \in Nat
      /\ \A i \in 1..n : running[i] \in RunningIn(req)
      /\ \A r \in RunningIn(req) : \E i \in 1..n : running[i] = r
  BY <1>1, RunningAre DEF RunningIn
<1>3. /\ seq \in [1..n -> Nat \ {0}]
      /\ \A i \in 1..n : /\ seq[i] = req[running[i]].seq_len
                         /\ last[i] = req_to_token[req[running[i]].req_pool_idx][seq[i]]
  BY DEF DecodeStep, DecodeArgs
<1>4. /\ Evicted(Chunk, ChunkPages, tree, free_pages, e) /\ e.free \in SUBSET Pages
      /\ tree' = e.tree
      /\ free_pages' = e.free \ Smallest(e.free, DecodePagesCpu(seq))
      /\ \A r \in RunningIn(req) :
           req[r].seq_len <= Len(req[r].tokens) /\ req[r].seq_len + 1 < Len(Prompt[r]) + MaxOutput
  BY DEF DecodeStep, RunningIn
<1> DEFINE slot == DecodeSlotsOf(seq, last, e)
<1>5. /\ \A i \in 1..n, x \in 1..MaxLen :
           req_to_token'[req[running[i]].req_pool_idx][x] =
             IF x = req[running[i]].seq_len + 1 THEN slot[i]
             ELSE req_to_token[req[running[i]].req_pool_idx][x]
  BY DEF DecodeStep, DecodedRows
<1>6. \A r \in Requests :
        /\ req'[r].state = req[r].state /\ req'[r].req_pool_idx = req[r].req_pool_idx
        /\ req'[r].prefix_indices = req[r].prefix_indices /\ req'[r].tokens = req[r].tokens
        /\ req[r].state = "running" => req'[r].seq_len = req[r].seq_len + 1
  BY DEF DecodeStep, DecodedReqs
<1>7. \A i \in 1..n : seq[i] % PageSize >= 2
  BY <1>2, <1>3
<1>8. free_pages' = e.free /\ \A i \in 1..n : slot[i] = last[i] + 1
  <2>1. PICK F, k : F = e.free /\ k = n
    OBVIOUS
  <2>2. InPages(seq, k) /\ F \in SUBSET Pages
    BY <1>2, <1>3, <1>4, <1>7, <2>1 DEF InPages
  <2>3. DecodePagesCpu(seq) = 0 /\ Smallest(F, 0) = {}
        /\ \A l : \A i \in 1..k : DecodeSlot(F, seq, l, i) = l[i] + 1
    BY ONLY <2>2, NoDecodePage
  <2>4. \A i \in 1..k : DecodeSlot(F, seq, last, i) = last[i] + 1
    BY <2>3
  <2>5. free_pages' = e.free
    BY <2>1, <2>3, <1>4
  <2>6. \A i \in 1..n : slot[i] = DecodeSlot(e.free, seq, last, i)
    BY DEF DecodeSlotsOf
  <2> HIDE DEF slot, n
  <2> QED BY <2>1, <2>4, <2>5, <2>6
<1> HIDE DEF slot
<1>9. ASSUME NEW r \in RunningIn(req)
      PROVE  RowFits(req_to_token', req'[r]) /\ OwnOf(req_to_token', req'[r]) = OwnOf(req_to_token, req[r])
  <2>1. PICK i \in 1..n : running[i] = r
    BY <1>2
  <2>2. PICK x, y, m, d : x = req[r] /\ y = req'[r] /\ m = req_to_token /\ d = req_to_token'
    OBVIOUS
  <2>3. /\ r \in Requests /\ x.req_pool_idx \in Rows /\ x.seq_len \in Nat /\ MaxLen \in Nat
        /\ Len(x.prefix_indices) \in Nat /\ Len(x.prefix_indices) < x.seq_len /\ Len(x.tokens) \in Nat
    BY <2>2, <1>1, RunningRow
  <2>4. /\ y.req_pool_idx = x.req_pool_idx /\ y.prefix_indices = x.prefix_indices
        /\ y.tokens = x.tokens /\ y.seq_len = x.seq_len + 1
    BY <2>2, <2>3, <1>6 DEF RunningIn
  <2>5. /\ x.seq_len <= Len(x.tokens) /\ x.seq_len + 1 <= MaxLen /\ x.seq_len % PageSize >= 2
    <3>1. x.seq_len <= Len(x.tokens) /\ x.seq_len + 1 < Len(Prompt[r]) + MaxOutput /\ x.seq_len % PageSize >= 2
      BY <2>2, <1>4
    <3>2. Len(Prompt[r]) + MaxOutput <= MaxLen /\ Len(Prompt[r]) \in Nat /\ MaxOutput \in Nat
      BY <2>3, RowsLongEnough
    <3> QED BY <3>1, <3>2, <2>3
  <2>6. \A z \in 1..MaxLen : d[x.req_pool_idx][z] = IF z = x.seq_len + 1 THEN slot[i] ELSE m[x.req_pool_idx][z]
    BY <2>1, <2>2, <1>5
  <2>7. slot[i] = m[x.req_pool_idx][x.seq_len] + 1
    BY <2>1, <2>2, <1>3, <1>8
  <2>8. RowFits(m, x)
    BY <2>2 DEF Places
  <2>9. PICK len \in Nat : len = x.seq_len
    BY <2>3
  <2>10. PICK rho, new : rho = RowOf(m, x) /\ new = RowOf(d, y)
    OBVIOUS
  <2>11. rho = [z \in 1..len |-> m[x.req_pool_idx][z]] /\ Len(rho) = len
    BY <2>9, <2>10 DEF RowOf
  <2>12. rho \in Seq(Slots) /\ SoundRow(rho) /\ len % PageSize # 0 /\ len >= 1
    BY <2>3, <2>5, <2>8, <2>9, <2>10 DEF RowFits
  <2>13. new = [z \in 1..(len + 1) |-> IF z <= len THEN rho[z] ELSE rho[len] + 1]
    <3>1. new = [z \in 1..(len + 1) |-> d[x.req_pool_idx][z]]
      BY <2>4, <2>9, <2>10 DEF RowOf
    <3>2. ASSUME NEW z \in 1..(len + 1)
          PROVE  d[x.req_pool_idx][z] = IF z <= len THEN rho[z] ELSE rho[len] + 1
      <4>1. z \in 1..MaxLen /\ len \in 1..len
        BY <2>3, <2>5, <2>9, <2>12
      <4>2. CASE z <= len
        <5>1. rho[z] = m[x.req_pool_idx][z] /\ z # x.seq_len + 1
          BY <4>2, <2>9, <2>11
        <5> QED BY <5>1, <4>1, <4>2, <2>6
      <4>3. CASE ~ (z <= len)
        <5>1. z = x.seq_len + 1 /\ rho[len] = m[x.req_pool_idx][len]
          BY <4>1, <4>3, <2>9, <2>11
        <5> QED BY <5>1, <4>1, <4>3, <2>6, <2>7, <2>9
      <4> QED BY <4>2, <4>3
    <3> QED BY <3>1, <3>2
  <2>14. /\ new \in Seq(Slots) /\ SoundRow(new) /\ PageOf(new[len + 1]) = PageOf(rho[len])
    BY <2>11, <2>12, <2>13, GrowInPage
  <2>15. RowFits(d, y)
    <3>1. y.seq_len > Len(y.tokens) => Len(y.tokens) % PageSize # 0
      <4> SUFFICES ASSUME y.seq_len > Len(y.tokens) PROVE Len(y.tokens) % PageSize # 0
        OBVIOUS
      <4>1. Len(y.tokens) = len
        BY <2>3, <2>4, <2>5, <2>9
      <4> QED BY <4>1, <2>12
    <3> QED BY <3>1, <2>10, <2>14 DEF RowFits
  <2>16. OwnOf(d, y) = OwnOf(m, x)
    <3>1. PICK k \in Nat : k = Len(x.prefix_indices) /\ k < len
      BY <2>3, <2>9
    <3>2. OwnOf(d, y) = {PageOf(new[z]) : z \in (k + 1)..(len + 1)}
      BY <2>4, <2>9, <2>10, <3>1 DEF OwnOf, PagesOf
    <3>3. OwnOf(m, x) = {PageOf(rho[z]) : z \in (k + 1)..len}
      BY <2>9, <2>10, <3>1 DEF OwnOf, PagesOf
    <3>4. \A z \in (k + 1)..len : new[z] = rho[z]
      BY <2>13, <3>1
    <3>5. len \in (k + 1)..len /\ len + 1 \in (k + 1)..(len + 1)
      BY <3>1
    <3>6. \A z \in (k + 1)..(len + 1) : z \in (k + 1)..len \/ z = len + 1
      BY <3>1
    <3>7. \A z \in (k + 1)..len : z \in (k + 1)..(len + 1)
      BY <3>1
    <3>8. {PageOf(new[z]) : z \in (k + 1)..(len + 1)} = {PageOf(rho[z]) : z \in (k + 1)..len}
      BY ONLY <3>4, <3>5, <3>6, <3>7, <2>14
    <3> QED BY <3>2, <3>3, <3>8
  <2> QED BY <2>2, <2>15, <2>16
<1>10. WholePages(e.tree) /\ Placed(e.free, PagesKnown(e.tree), RunningIn(req), Owns(req, req_to_token))
  BY <1>1, <1>4, EvictPlaces DEF Places
<1>11. RunningIn(req') = RunningIn(req)
  BY <1>6 DEF RunningIn
<1>12. Placed(e.free, PagesKnown(e.tree), RunningIn(req), Owns(req', req_to_token'))
  <2>1. \A r \in RunningIn(req) : Owns(req', req_to_token')[r] = Owns(req, req_to_token)[r]
    BY <1>9 DEF Owns, RunningIn
  <2>2. PICK S, T, O, N : /\ S = RunningIn(req) /\ T = PagesKnown(e.tree)
                          /\ O = Owns(req, req_to_token) /\ N = Owns(req', req_to_token')
    OBVIOUS
  <2>3. Placed(e.free, T, S, O) /\ \A r \in S : N[r] = O[r]
    BY <2>1, <2>2, <1>10
  <2>4. {N[r] : r \in S} = {O[r] : r \in S}
    BY <2>3
  <2>5. Placed(e.free, T, S, N)
    BY ONLY <2>3, <2>4 DEF Placed
  <2> QED BY <2>2, <2>5
<1> QED BY <1>4, <1>8, <1>9, <1>10, <1>11, <1>12 DEF Places

\* prefix_for_waiting_req takes no page, and its request is not running.
LEMMA MatchPlaces ==
  ASSUME ManagerInv, Places(free_pages, tree, req, req_to_token), NEW r \in Requests,
         PrefixForWaitingReq(r)
  PROVE  Places(free_pages', tree', req', req_to_token')
<1> DEFINE key == MatchKey(r)
           n == Matched(tree, key)
           y == [req[r] EXCEPT !.state = "matched", !.last_node = n,
                               !.prefix_indices = FlattenSeq(ValueTo(Walk(tree, key), n)), !.matches = @ + 1]
<1>1. /\ TreeOK(tree) /\ req = [p \in Requests |-> req[p]]
      /\ \A p \in Requests : RequestOK(p, req[p])
  BY DEF ManagerInv, RequestsOK
<1>2. /\ req[r].state \in {"waiting", "matched"} /\ tree' = IncLock(Walk(tree, key), n)
      /\ req' = [req EXCEPT ![r] = y]
      /\ free_pages' = free_pages /\ req_to_token' = req_to_token
  BY DEF PrefixForWaitingReq
<1>3. y.state = "matched"
  <2>1. req[r] \in RecordsOf(r)
    BY <1>1 DEF RequestOK
  <2> QED BY <2>1 DEF RecordsOf
<1> HIDE DEF y
<1>4. req' = [p \in Requests |-> IF p = r THEN y ELSE req[p]]
  BY <1>1, <1>2
<1>5. key \in Seq(Chunk)
  <2>1. req[r].tokens = Prompt[r]
    BY <1>1, <1>2 DEF RequestOK
  <2>2. Front(req[r].tokens) \in Seq(Nat)
    BY <2>1, TokensOf, FrontIs
  <2> QED BY <2>2, ChunksAre DEF Chunk, MatchKey
<1> HIDE DEF key, n
<1>6. Known(tree') = Known(tree) /\ \A p \in Known(tree) : PageAt(tree', p) = PageAt(tree, p)
  <2>1. PICK t, w, u : t = tree /\ w = Walk(tree, key) /\ u = tree'
    OBVIOUS
  <2>2. TreeOK(t) /\ n = Matched(t, key) /\ w = Walk(t, key) /\ u = IncLock(w, n)
    BY <2>1, <1>1, <1>2 DEF n
  <2>3. Known(u) = Known(t) /\ \A p \in Known(t) : PageAt(u, p) = PageAt(t, p)
    BY ONLY <1>5, <2>2, MatchStep
  <2> QED BY <2>1, <2>3
<1>7. RunningIn(req') = RunningIn(req) /\ \A p \in RunningIn(req) : req'[p] = req[p]
  BY <1>2, <1>3, <1>4 DEF RunningIn
<1>8. \A p \in RunningIn(req) : req'[p].seq_len > Len(req'[p].tokens) => Len(req'[p].tokens) % PageSize # 0
  BY <1>7 DEF Places, RowFits
<1>9. PICK F, t, q, m, u, h : /\ F = free_pages /\ t = tree /\ q = req /\ m = req_to_token
                              /\ u = tree' /\ h = req'
  OBVIOUS
<1>10. /\ Places(F, t, q, m) /\ Known(u) = Known(t) /\ \A p \in Known(t) : PageAt(u, p) = PageAt(t, p)
       /\ RunningIn(h) = RunningIn(q) /\ \A p \in RunningIn(q) : h[p] = q[p]
       /\ \A p \in RunningIn(q) : h[p].seq_len > Len(h[p].tokens) => Len(h[p].tokens) % PageSize # 0
  BY <1>6, <1>7, <1>8, <1>9
<1>11. Places(F, u, h, m)
  BY ONLY <1>10, SamePlaces
<1> QED BY <1>2, <1>9, <1>11

\* append_output_token takes no page, and the token it adds has its index already.
LEMMA AppendPlaces ==
  ASSUME ManagerInv, Places(free_pages, tree, req, req_to_token), NEW r \in Requests, NEW t \in Tokens,
         AppendOutputToken(r, t)
  PROVE  Places(free_pages', tree', req', req_to_token')
<1> DEFINE y == [req[r] EXCEPT !.tokens = Append(@, t)]
<1>1. /\ TreeOK(tree) /\ req = [p \in Requests |-> req[p]]
      /\ \A p \in Requests : RequestOK(p, req[p])
  BY DEF ManagerInv, RequestsOK
<1>2. /\ req[r].state = "running" /\ Len(req[r].tokens) <= req[r].seq_len
      /\ Len(req[r].tokens) < Len(Prompt[r]) + MaxOutput
      /\ req' = [req EXCEPT ![r] = y]
      /\ free_pages' = free_pages /\ req_to_token' = req_to_token /\ tree' = tree
  BY DEF AppendOutputToken
<1>3. /\ y.state = "running" /\ y.req_pool_idx = req[r].req_pool_idx /\ y.seq_len = req[r].seq_len
      /\ y.prefix_indices = req[r].prefix_indices /\ Len(y.tokens) = Len(req[r].tokens) + 1
  <2>1. PICK x, z : x = req[r] /\ z = y
    OBVIOUS
  <2>2. /\ RequestOK(r, x) /\ x.state = "running" /\ Len(x.tokens) <= x.seq_len
        /\ Len(x.tokens) < Len(Prompt[r]) + MaxOutput /\ z = [x EXCEPT !.tokens = Append(@, t)]
    BY <2>1, <1>1, <1>2
  <2>3. /\ Len(Append(x.tokens, t)) = Len(x.tokens) + 1
        /\ Fields(z, "running", Append(x.tokens, t), x.req_pool_idx, x.last_node, x.prefix_indices,
                  x.matches, x.seq_len)
    BY <2>2, AppendRequest
  <2>4. /\ z.state = "running" /\ z.tokens = Append(x.tokens, t) /\ z.req_pool_idx = x.req_pool_idx
        /\ z.prefix_indices = x.prefix_indices /\ z.seq_len = x.seq_len
    <3>1. PICK tk, ix, ln, pre, mt, sl :
            /\ tk = Append(x.tokens, t) /\ ix = x.req_pool_idx /\ ln = x.last_node
            /\ pre = x.prefix_indices /\ mt = x.matches /\ sl = x.seq_len
      OBVIOUS
    <3>2. Fields(z, "running", tk, ix, ln, pre, mt, sl)
      BY <2>3, <3>1
    <3>3. /\ z.state = "running" /\ z.tokens = tk /\ z.req_pool_idx = ix /\ z.prefix_indices = pre
          /\ z.seq_len = sl
      BY ONLY <3>2 DEF Fields
    <3> QED BY <3>1, <3>3
  <2> QED BY <2>1, <2>3, <2>4
<1> HIDE DEF y
<1>4. req' = [p \in Requests |-> IF p = r THEN y ELSE req[p]]
  BY <1>1, <1>2
<1>5. /\ RunningIn(req') = RunningIn(req)
      /\ \A p \in RunningIn(req) : /\ req'[p].req_pool_idx = req[p].req_pool_idx
                                   /\ req'[p].seq_len = req[p].seq_len
                                   /\ req'[p].prefix_indices = req[p].prefix_indices
                                   /\ p # r => req'[p] = req[p]
  BY <1>2, <1>3, <1>4 DEF RunningIn
<1>6. ~ (y.seq_len > Len(y.tokens))
  <2>1. /\ Len(req[r].tokens) \in Nat /\ req[r].seq_len \in Nat
        /\ req[r].seq_len \in (Len(req[r].tokens) - 1)..(Len(req[r].tokens) + 1)
    BY <1>1, <1>2, RunningRow DEF ManagerInv, RunningIn
  <2> QED BY <2>1, <1>3
<1>7. \A p \in RunningIn(req) : req'[p].seq_len > Len(req'[p].tokens) => Len(req'[p].tokens) % PageSize # 0
  <2> TAKE p \in RunningIn(req)
  <2>1. CASE p = r
    BY <2>1, <1>4, <1>6
  <2>2. CASE p # r
    BY <2>2, <1>5 DEF Places, RowFits
  <2> QED BY <2>1, <2>2
<1>8. PICK F, u, q, m, h : F = free_pages /\ u = tree /\ q = req /\ m = req_to_token /\ h = req'
  OBVIOUS
<1>9. /\ Places(F, u, q, m) /\ RunningIn(h) = RunningIn(q)
      /\ \A p \in RunningIn(q) : /\ h[p].req_pool_idx = q[p].req_pool_idx /\ h[p].seq_len = q[p].seq_len
                                 /\ h[p].prefix_indices = q[p].prefix_indices
                                 /\ h[p].seq_len > Len(h[p].tokens) => Len(h[p].tokens) % PageSize # 0
  BY <1>5, <1>7, <1>8
<1>10. Places(F, u, h, m)
  BY ONLY <1>9, SamePlaces
<1> QED BY <1>2, <1>8, <1>10

---------------------------------------------------------------------------
(* prepare_for_extend.                                                      *)

\* The pages a row gets behind a prefix of whole pages are its share of the free list.
LEMMA ExtendedPages ==
  ASSUME NEW new, NEW rho, NEW to, NEW F, NEW n, NEW m, NEW need, NEW pre, NEW last, NEW i,
         ExtendsRow(new, rho, to, F, n, m, need, pre, last, i),
         NEW k \in Nat, Len(rho) = k * PageSize
  PROVE  /\ new \in Seq(Slots) /\ SoundRow(new) /\ Len(new) = to
         /\ PagesOf({new[x] : x \in (Len(rho) + 1)..to}) = ShareOf(F, need, i)
         /\ ShareOf(F, need, i) \subseteq F
<1>1. /\ F \in SUBSET Pages /\ n \in Nat /\ m \in Nat /\ i \in 1..n /\ need \in [1..n -> 0..m]
      /\ NeedTotal(need, n) <= Cardinality(F)
      /\ rho \in Seq(Slots) /\ SoundRow(rho) /\ PagesOfRow(rho) \cap F = {}
      /\ to \in Nat /\ Len(rho) <= to
      /\ \A x \in 1..to : x <= Len(rho) => new[x] = rho[x]
  BY DEF ExtendsRow
<1>2. /\ new \in [1..to -> Slots] /\ SoundRow(new)
      /\ PagesOfRow(new) = PagesOfRow(rho) \cup ShareOf(F, need, i)
  BY ONLY ExtendsRow(new, rho, to, F, n, m, need, pre, last, i), ExtendRow
<1>3. ShareOf(F, need, i) \subseteq F
  <2>1. ShareOf(F, need, i) \subseteq Smallest(F, NeedTotal(need, n))
    BY ONLY <1>1, SharesOfBatch
  <2> QED BY <2>1 DEF Smallest
<1>4. new \in Seq(Slots) /\ Len(new) = to
  BY <1>1, <1>2
<1>5. Len(rho) \in Nat /\ Len(rho) \in 0..Len(new) /\ CeilPages(Len(rho)) = k
  <2>1. CeilPages(k * PageSize) = k
    BY CeilMultiple
  <2> QED BY <2>1, <1>1, <1>4, LenProperties
<1> DEFINE T == PageTable(new)
           c == CeilPages(to)
           Own == PagesOf({new[x] : x \in (Len(rho) + 1)..to})
<1>6. Own = {T[b] : b \in k..(c - 1)}
  <2>1. PICK S, z : S = {new[x] : x \in (Len(rho) + 1)..to} /\ z = to
    OBVIOUS
  <2>2. S = {new[x] : x \in (k * PageSize + 1)..z} /\ z \in 0..Len(new)
    BY <2>1, <1>1, <1>4
  <2>3. PagesOf(S) = {PageTable(new)[b] : b \in k..(CeilPages(z) - 1)}
    <3>1. SlotsFrom(S, new, k, z)
      BY <2>2, <1>2, <1>4 DEF SlotsFrom
    <3> QED BY ONLY <3>1, PagesFrom
  <2> QED BY <2>1, <2>3
<1>7. PagesOfRow(rho) = {T[b] : b \in 0..(k - 1)}
  <2>1. PICK S, z, o : S = {rho[x] : x \in 1..Len(rho)} /\ z = Len(rho) /\ o = 0
    OBVIOUS
  <2>2. o * PageSize = 0
    BY <2>1, PageAssumption
  <2>3. S = {new[x] : x \in 1..z}
    <3>1. \A x \in 1..z : new[x] = rho[x]
      BY <2>1, <1>1, <1>5
    <3> QED BY <2>1, <3>1
  <2>4. S = {new[x] : x \in (o * PageSize + 1)..z} /\ z \in 0..Len(new) /\ o \in Nat
    <3>1. o * PageSize + 1 = 1
      BY <2>2
    <3> QED BY <3>1, <2>1, <2>3, <1>5
  <2>5. PagesOf(S) = {PageTable(new)[b] : b \in o..(CeilPages(z) - 1)}
    <3>1. SlotsFrom(S, new, o, z)
      BY <2>4, <1>2, <1>4 DEF SlotsFrom
    <3> QED BY ONLY <3>1, PagesFrom
  <2>6. PagesOfRow(rho) = PagesOf(S)
    <3>1. DOMAIN rho = 1..Len(rho)
      BY <1>1, LenProperties
    <3> QED BY <2>1, <3>1 DEF PagesOfRow
  <2> QED BY <2>1, <2>5, <2>6, <1>5
<1>8. /\ \A b, d \in 0..(c - 1) : T[b] = T[d] => b = d
      /\ PagesOfRow(new) = {T[b] : b \in 0..(c - 1)}
  BY <1>2, <1>4, SoundTable
<1>9. c \in Nat /\ k <= c
  BY <1>1, <1>5, CeilSpec, CeilMono
<1> HIDE DEF T, c
<1>10. Own \cap PagesOfRow(rho) = {}
  <2> SUFFICES ASSUME NEW p, p \in Own, p \in PagesOfRow(rho) PROVE FALSE
    OBVIOUS
  <2>1. PICK b \in k..(c - 1) : p = T[b]
    BY <1>6
  <2>2. PICK d \in 0..(k - 1) : p = T[d]
    BY <1>7
  <2>3. b \in 0..(c - 1) /\ d \in 0..(c - 1) /\ b # d
    BY <1>9
  <2> QED BY <2>1, <2>2, <2>3, <1>8
<1>11. Own \cup PagesOfRow(rho) = PagesOfRow(new)
  <2>1. 0..(c - 1) = (0..(k - 1)) \cup (k..(c - 1))
    BY <1>9
  <2>2. PICK A, B, C : A = 0..(k - 1) /\ B = k..(c - 1) /\ C = 0..(c - 1)
    OBVIOUS
  <2>3. {T[b] : b \in C} = {T[b] : b \in A} \cup {T[b] : b \in B}
    BY <2>1, <2>2
  <2> QED BY <2>2, <2>3, <1>6, <1>7, <1>8
<1>12. Own = ShareOf(F, need, i)
  <2>1. PICK A, B, C : A = Own /\ B = PagesOfRow(rho) /\ C = ShareOf(F, need, i)
    OBVIOUS
  <2>2. A \cap B = {} /\ A \cup B = B \cup C /\ B \cap C = {}
    BY <2>1, <1>1, <1>2, <1>3, <1>10, <1>11
  <2>3. A = C
    BY ONLY <2>2
  <2> QED BY <2>1, <2>3
<1> QED BY <1>2, <1>3, <1>4, <1>12

\* The owners S with the pages O become U with N: every b[i] is new, with the part sh[i]
\* of X.
Sharing(X, n, b, sh, S, O, U, N) ==
  /\ n \in Nat
  /\ \A i \in 1..n : sh[i] \subseteq X
  /\ \A p \in X : \E i \in 1..n : p \in sh[i]
  /\ \A i, j \in 1..n : \A p : p \in sh[i] /\ p \in sh[j] => i = j
  /\ \A r : r \in U <=> r \in S \/ \E i \in 1..n : r = b[i]
  /\ \A r \in S : N[r] = O[r]
  /\ \A i \in 1..n : N[b[i]] = sh[i]

\* New owners share pages that were free.
LEMMA PlacedMore ==
  ASSUME NEW F, NEW T, NEW S, NEW O, Placed(F, T, S, O), NEW X \in SUBSET F,
         NEW n, NEW b, NEW sh, NEW U, NEW N, Sharing(X, n, b, sh, S, O, U, N)
  PROVE  Placed(F \ X, T, U, N)
<1>0. /\ n \in Nat
      /\ \A i \in 1..n : sh[i] \subseteq X
      /\ \A p \in X : \E i \in 1..n : p \in sh[i]
      /\ \A i, j \in 1..n : \A p : p \in sh[i] /\ p \in sh[j] => i = j
      /\ \A r : r \in U <=> r \in S \/ \E i \in 1..n : r = b[i]
      /\ \A r \in S : N[r] = O[r]
      /\ \A i \in 1..n : N[b[i]] = sh[i]
  BY DEF Sharing
<1>1. /\ \A p : p \in Pages <=> p \in F \/ p \in T \/ \E r \in S : p \in O[r]
      /\ \A p : ~ (p \in F /\ p \in T)
      /\ \A r \in S : \A p \in O[r] : p \notin F /\ p \notin T
      /\ \A r, s \in S : \A p : p \in O[r] /\ p \in O[s] => r = s
  <2>1. \A p : p \in Pages <=> p \in F \/ p \in T \/ \E r \in S : p \in O[r]
    BY DEF Placed
  <2>2. \A p : ~ (p \in F /\ p \in T)
    BY DEF Placed
  <2>3. \A r \in S : \A p \in O[r] : p \notin F /\ p \notin T
    BY DEF Placed
  <2>4. \A r, s \in S : \A p : p \in O[r] /\ p \in O[s] => r = s
    BY DEF Placed
  <2> QED BY <2>1, <2>2, <2>3, <2>4
<1>2. \A p : p \in Pages <=> p \in F \ X \/ p \in T \/ \E r \in U : p \in N[r]
  <2> TAKE p
  <2>1. (\E r \in U : p \in N[r]) <=> (\E r \in S : p \in O[r]) \/ p \in X
    <3>1. ASSUME NEW r \in U, p \in N[r] PROVE (\E s \in S : p \in O[s]) \/ p \in X
      <4>1. CASE r \in S
        BY <3>1, <4>1, <1>0
      <4>2. CASE \E i \in 1..n : r = b[i]
        BY <3>1, <4>2, <1>0
      <4> QED BY <4>1, <4>2, <1>0
    <3>2. ASSUME NEW r \in S, p \in O[r] PROVE \E s \in U : p \in N[s]
      BY <3>2, <1>0
    <3>3. ASSUME p \in X PROVE \E s \in U : p \in N[s]
      <4>1. PICK i \in 1..n : p \in sh[i]
        BY <3>3, <1>0
      <4> QED BY <4>1, <1>0
    <3> QED BY <3>1, <3>2, <3>3
  <2>2. p \in F <=> p \in F \ X \/ p \in X
    OBVIOUS
  <2> QED BY <1>1, <2>1, <2>2
<1>3. \A r \in U : \A p \in N[r] : p \notin F \ X /\ p \notin T
  <2> TAKE r \in U
  <2>1. CASE r \in S
    BY <1>0, <1>1, <2>1
  <2>2. CASE \E i \in 1..n : r = b[i]
    <3>1. PICK i \in 1..n : r = b[i]
      BY <2>2
    <3>2. N[r] \subseteq X
      BY <3>1, <1>0
    <3> QED BY <3>2, <1>1
  <2> QED BY <2>1, <2>2, <1>0
<1>4. \A r, s \in U : \A p : p \in N[r] /\ p \in N[s] => r = s
  <2> TAKE r, s \in U
  <2> TAKE p
  <2> HAVE p \in N[r] /\ p \in N[s]
  <2>1. CASE r \in S /\ s \in S
    BY <1>0, <1>1, <2>1
  <2>2. \A v \in U : v \in S \/ \E i \in 1..n : v = b[i]
    BY <1>0
  <2>3. \A v \in S : N[v] \cap X = {}
    BY <1>0, <1>1
  <2>4. \A i \in 1..n : N[b[i]] \subseteq X
    BY <1>0
  <2>5. CASE r \notin S
    <3>1. PICK i \in 1..n : r = b[i]
      BY <2>2, <2>5
    <3>2. p \in X /\ p \in sh[i]
      BY <3>1, <1>0
    <3>3. s \notin S
      BY <2>3, <3>2
    <3>4. PICK j \in 1..n : s = b[j]
      BY <2>2, <3>3
    <3>5. p \in sh[j]
      BY <3>4, <1>0
    <3> QED BY <3>1, <3>2, <3>4, <3>5, <1>0
  <2>6. CASE s \notin S
    <3>1. PICK i \in 1..n : s = b[i]
      BY <2>2, <2>6
    <3>2. p \in X /\ p \in sh[i]
      BY <3>1, <1>0
    <3>3. r \notin S
      BY <2>3, <3>2
    <3>4. PICK j \in 1..n : r = b[j]
      BY <2>2, <3>3
    <3>5. p \in sh[j]
      BY <3>4, <1>0
    <3> QED BY <3>1, <3>2, <3>4, <3>5, <1>0
  <2> QED BY <2>1, <2>5, <2>6
<1>5. Pages = (F \ X) \cup T \cup UNION {N[r] : r \in U}
  BY ONLY <1>2
<1>6. (F \ X) \cap T = {}
  BY <1>1
<1>7. \A r \in U : /\ N[r] \cap (F \ X) = {} /\ N[r] \cap T = {}
                   /\ \A s \in U : s # r => N[r] \cap N[s] = {}
  BY ONLY <1>3, <1>4
<1> QED BY <1>5, <1>6, <1>7 DEF Placed

\* The row of a request that starts to run: its prefix, and its share of the free pages.
LEMMA StartedRow ==
  ASSUME ManagerInv, NEW b, NEW pre, NEW seq, NEW need, NEW last, NEW e,
         ExtendStep(b, pre, seq, need, last, e), WholePages(e.tree),
         e.free \cap PagesKnown(e.tree) = {}, NEW i \in 1..Len(b)
  PROVE  /\ RowFits(req_to_token', req'[b[i]])
         /\ OwnOf(req_to_token', req'[b[i]]) = ShareOf(e.free, need, i)
<1> DEFINE n == Len(b)
           x == req[b[i]]
           y == req'[b[i]]
           rho == x.prefix_indices
           new == RowOf(req_to_token', y)
           slot == ExtendSlotsOf(b, pre, need, last, e)
<1>1. /\ BatchOK(b) /\ ArgsOK(b, pre, seq, need, last)
      /\ TreeOK(e.tree) /\ RequestsOK(e.tree, req) /\ e.free \in SUBSET Pages
      /\ NeedTotal(need, n) <= Cardinality(e.free)
      /\ ExtendedRows(b, free_slots, req, req_to_token, pre, seq, slot, req_to_token')
      /\ ExtendedReqs(b, free_slots, req, req')
  BY DEF ExtendStep
<1>2. /\ n \in Nat /\ b[i] \in Requests /\ seq[i] = Len(x.tokens) /\ seq[i] \in Nat
      /\ pre[i] = Len(rho) /\ pre[i] \in Nat /\ pre[i] < seq[i] /\ seq[i] = Len(Prompt[b[i]])
      /\ need[i] = NewPages(pre[i], seq[i])
      /\ pre[i] # 0 => last[i] = rho[pre[i]]
  BY <1>1 DEF ArgsOK
<1>3. PICK mm \in Nat : need \in [1..n -> 0..mm]
  BY <1>1 DEF ArgsOK
<1>4. /\ y.req_pool_idx = free_slots[i] /\ y.prefix_indices = rho /\ y.tokens = x.tokens
      /\ y.seq_len = seq[i]
  BY <1>1, <1>2 DEF ExtendedReqs
<1>5. \A z \in 1..MaxLen :
        req_to_token'[free_slots[i]][z] = IF z <= pre[i] THEN rho[z]
                                          ELSE IF z <= seq[i] THEN slot[i][z]
                                          ELSE req_to_token[free_slots[i]][z]
  BY <1>1 DEF ExtendedRows
<1>6. \A z \in 1..MaxLen : slot[i][z] = ExtendSlot(e.free, pre, need, last, i, z - 1)
  BY DEF ExtendSlotsOf
<1> HIDE DEF slot
<1>7. seq[i] <= MaxLen /\ MaxLen \in Nat
  <2>1. MaxLen \in Nat /\ Len(Prompt[b[i]]) + MaxOutput <= MaxLen /\ MaxOutput \in Nat
    BY <1>2, RowsLongEnough
  <2> QED BY <2>1, <1>2
<1>8. new = [z \in 1..seq[i] |-> IF z <= Len(rho) THEN rho[z]
                                 ELSE ExtendSlot(e.free, pre, need, last, i, z - 1)]
  <2>1. new = [z \in 1..seq[i] |-> req_to_token'[free_slots[i]][z]]
    BY <1>4 DEF RowOf
  <2>2. ASSUME NEW z \in 1..seq[i]
        PROVE  req_to_token'[free_slots[i]][z] =
                 IF z <= Len(rho) THEN rho[z] ELSE ExtendSlot(e.free, pre, need, last, i, z - 1)
    <3>1. z \in 1..MaxLen /\ z <= seq[i]
      BY <1>2, <1>7
    <3> HIDE DEF rho
    <3> QED BY <3>1, <1>2, <1>5, <1>6
  <2> HIDE DEF rho, new
  <2> QED BY <2>1, <2>2
<1>9. /\ rho \in Seq(Slots) /\ SoundRow(rho) /\ PagesOfRow(rho) \subseteq PagesKnown(e.tree)
      /\ Len(rho) = Len(x.last_node) * PageSize /\ Len(x.last_node) \in Nat
  <2>1. x.last_node \in Nodes(e.tree) \cup {<< >>} /\ rho = FlattenSeq(ValueTo(e.tree, x.last_node))
    BY <1>1, <1>2 DEF RequestsOK, PrefixAt
  <2>2. Len(x.last_node) \in Nat
    BY <1>1, <1>2, PrefixLength
  <2>3. PICK u, k, s : u = e.tree /\ k = x.last_node /\ s = rho
    OBVIOUS
  <2>4. TreeOK(u) /\ WholePages(u) /\ k \in Nodes(u) \cup {<< >>} /\ s = FlattenSeq(ValueTo(u, k))
    BY <2>1, <2>3, <1>1
  <2>5. s \in Seq(Slots) /\ SoundRow(s) /\ PagesOfRow(s) \subseteq PagesKnown(u) /\ Len(s) = Len(k) * PageSize
    BY ONLY <2>4, PrefixRow
  <2> QED BY <2>2, <2>3, <2>5
<1>10. PICK k, F, to, rh, nw : /\ k = Len(x.last_node) /\ F = e.free /\ to = seq[i] /\ rh = rho /\ nw = new
  OBVIOUS
<1>11. ExtendsRow(nw, rh, to, F, n, mm, need, pre, last, i)
  <2>1. F \in SUBSET Pages /\ n \in Nat /\ mm \in Nat /\ i \in 1..n /\ need \in [1..n -> 0..mm]
        /\ NeedTotal(need, n) <= Cardinality(F)
    BY <1>1, <1>2, <1>3, <1>10
  <2>2. rh \in Seq(Slots) /\ SoundRow(rh) /\ PagesOfRow(rh) \cap F = {}
    BY <1>9, <1>10
  <2>3. /\ pre[i] = Len(rh) /\ to \in Nat /\ Len(rh) <= to /\ need[i] = NewPages(Len(rh), to)
        /\ rh # << >> => last[i] = rh[Len(rh)]
    <3>1. pre[i] = Len(rh) /\ to \in Nat /\ Len(rh) <= to /\ need[i] = NewPages(Len(rh), to)
      BY <1>2, <1>10
    <3>2. ASSUME rh # << >> PROVE last[i] = rh[Len(rh)]
      <4>1. Len(rh) # 0
        BY <2>2, <3>2, EmptySeq
      <4> QED BY <4>1, <1>2, <1>10
    <3> QED BY <3>1, <3>2
  <2>4. nw = [z \in 1..to |-> IF z <= Len(rh) THEN rh[z] ELSE ExtendSlot(F, pre, need, last, i, z - 1)]
    BY <1>8, <1>10
  <2> QED BY ONLY <2>1, <2>2, <2>3, <2>4 DEF ExtendsRow
<1>12. /\ nw \in Seq(Slots) /\ SoundRow(nw) /\ Len(nw) = to
       /\ PagesOf({nw[z] : z \in (Len(rh) + 1)..to}) = ShareOf(F, need, i)
  <2>1. k \in Nat /\ Len(rh) = k * PageSize
    BY <1>9, <1>10
  <2> QED BY ONLY <2>1, <1>11, ExtendedPages
<1>13. RowFits(req_to_token', y)
  <2>1. y.seq_len = to /\ Len(y.tokens) = to /\ to \in Nat
    BY <1>2, <1>4, <1>10
  <2>2. ~ (y.seq_len > Len(y.tokens))
    BY ONLY <2>1
  <2> QED BY <2>2, <1>10, <1>12 DEF RowFits
<1>14. OwnOf(req_to_token', y) = ShareOf(e.free, need, i)
  BY <1>4, <1>10, <1>12 DEF OwnOf
<1> QED BY <1>13, <1>14

\* prepare_for_extend gives the new rows free pages, and leaves the other rows alone.
LEMMA ExtendPlaces ==
  ASSUME ManagerInv, Places(free_pages, tree, req, req_to_token),
         NEW b, NEW pre, NEW seq, NEW need, NEW last, NEW e, ExtendStep(b, pre, seq, need, last, e)
  PROVE  Places(free_pages', tree', req', req_to_token')
<1> DEFINE n == Len(b)
           X == Smallest(e.free, NeedTotal(need, n))
           T == PagesKnown(e.tree)
           S == RunningIn(req)
           U == RunningIn(req')
<1>1. /\ BatchOK(b) /\ ArgsOK(b, pre, seq, need, last) /\ e.free \in SUBSET Pages
      /\ Evicted(Chunk, ChunkPages, tree, free_pages, e) /\ NeedTotal(need, n) <= Cardinality(e.free)
      /\ tree' = e.tree /\ free_pages' = e.free \ X
      /\ ExtendedRows(b, free_slots, req, req_to_token, pre, seq, ExtendSlotsOf(b, pre, need, last, e),
                      req_to_token')
      /\ ExtendedReqs(b, free_slots, req, req')
  BY DEF ExtendStep
<1>2. /\ n \in Nat /\ n <= Len(free_slots)
      /\ \A i \in 1..n : b[i] \in Requests /\ req[b[i]].state = "matched"
  BY <1>1 DEF ArgsOK, BatchOK
<1>3. WholePages(e.tree) /\ Placed(e.free, T, S, Owns(req, req_to_token))
  <2>1. free_pages \in SUBSET Pages /\ WholePages(tree)
        /\ Placed(free_pages, PagesKnown(tree), S, Owns(req, req_to_token))
    BY DEF ManagerInv, Places
  <2> QED BY <2>1, <1>1, EvictPlaces
<1>4. \A i \in 1..n : /\ RowFits(req_to_token', req'[b[i]])
                      /\ OwnOf(req_to_token', req'[b[i]]) = ShareOf(e.free, need, i)
  <2>1. e.free \cap T = {}
    BY <1>3 DEF Placed
  <2> QED BY <2>1, <1>3, StartedRow
<1>5. /\ \A r \in S : req'[r] = req[r] /\ \A i \in 1..n : b[i] # r
      /\ \A i \in 1..n : req'[b[i]].state = "running"
      /\ \A r \in Requests : (\A i \in 1..n : b[i] # r) => req'[r] = req[r]
  <2>1. /\ \A i \in 1..n : req'[b[i]].state = "running"
        /\ \A r \in Requests : (\A i \in 1..n : b[i] # r) => req'[r] = req[r]
    BY <1>1 DEF ExtendedReqs
  <2>2. \A r \in S : r \in Requests /\ \A i \in 1..n : b[i] # r
    BY <1>2 DEF RunningIn
  <2> QED BY <2>1, <2>2
<1>6. \A r : r \in U <=> r \in S \/ \E i \in 1..n : r = b[i]
  BY <1>2, <1>5 DEF RunningIn
<1>7. ASSUME NEW r \in S
      PROVE  /\ RowFits(req_to_token', req'[r])
             /\ OwnOf(req_to_token', req'[r]) = OwnOf(req_to_token, req[r])
  <2>1. r \in Requests /\ req[r].state = "running"
    BY DEF RunningIn
  <2>2. SlotsOK(running, free_slots, req) /\ RequestsOK(tree, req)
    BY DEF ManagerInv
  <2>3. req[r].req_pool_idx \in Rows /\ req[r].req_pool_idx \notin Range(free_slots)
        /\ free_slots \in Seq(Rows)
    <3>1. RequestOK(r, req[r])
      BY <2>1, <2>2 DEF RequestsOK
    <3>2. r \in Range(running)
      BY <2>1, <2>2 DEF SlotsOK
    <3> QED BY <3>1, <3>2, <2>1, <2>2 DEF SlotsOK, RequestOK
  <2>4. \A i \in 1..n : free_slots[i] # req[r].req_pool_idx
    <3> SUFFICES ASSUME NEW i \in 1..n PROVE free_slots[i] \in Range(free_slots)
      BY <2>3
    <3>1. Len(free_slots) \in Nat /\ DOMAIN free_slots = 1..Len(free_slots)
      BY <2>3, LenProperties
    <3>2. i \in DOMAIN free_slots
      BY <3>1, <1>2
    <3> QED BY <3>2 DEF Range
  <2>5. req_to_token'[req[r].req_pool_idx] = req_to_token[req[r].req_pool_idx]
    BY <2>3, <2>4, <1>1 DEF ExtendedRows
  <2>6. req'[r] = req[r]
    BY <1>5
  <2>7. RowOf(req_to_token', req'[r]) = RowOf(req_to_token, req[r])
    BY <2>5, <2>6 DEF RowOf
  <2>8. RowFits(req_to_token, req[r])
    BY DEF Places
  <2> QED BY <2>6, <2>7, <2>8 DEF RowFits, OwnOf
<1>8. \A r \in U : RowFits(req_to_token', req'[r])
  BY <1>4, <1>6, <1>7
<1>9. Placed(e.free \ X, T, U, Owns(req', req_to_token'))
  <2>1. PICK mm \in Nat : need \in [1..n -> 0..mm]
    BY <1>1 DEF ArgsOK
  <2>2. PICK F, k, sh, Y, O, N, V, W, Z :
          /\ F = e.free /\ k = n /\ sh = [i \in 1..n |-> ShareOf(e.free, need, i)] /\ Y = X
          /\ O = Owns(req, req_to_token) /\ N = Owns(req', req_to_token') /\ V = U /\ W = S /\ Z = T
    OBVIOUS
  <2>3. /\ \A i \in 1..k : ShareOf(F, need, i) \subseteq Y
        /\ \A p \in Y : \E i \in 1..k : p \in ShareOf(F, need, i)
        /\ \A i, j \in 1..k : \A p : p \in ShareOf(F, need, i) /\ p \in ShareOf(F, need, j) => i = j
    <3>1. /\ F \in SUBSET Pages /\ k \in Nat /\ mm \in Nat /\ need \in [1..k -> 0..mm]
          /\ NeedTotal(need, k) <= Cardinality(F)
      BY <2>1, <2>2, <1>1, <1>2
    <3>2. Y = Smallest(F, NeedTotal(need, k))
      BY <2>2
    <3> QED BY ONLY <3>1, <3>2, SharesOfBatch
  <2>4. \A i \in 1..k : sh[i] = ShareOf(F, need, i)
    BY <2>2
  <2>5. /\ \A i \in 1..k : sh[i] \subseteq Y
        /\ \A p \in Y : \E i \in 1..k : p \in sh[i]
        /\ \A i, j \in 1..k : \A p : p \in sh[i] /\ p \in sh[j] => i = j
    BY ONLY <2>3, <2>4
  <2>6. \A r \in W : N[r] = O[r]
    BY <2>2, <1>7 DEF Owns, RunningIn
  <2>7. \A i \in 1..k : N[b[i]] = sh[i]
    BY <2>2, <2>4, <1>2, <1>4 DEF Owns
  <2>8. k \in Nat /\ Y \in SUBSET F /\ Placed(F, Z, W, O)
        /\ \A r : r \in V <=> r \in W \/ \E i \in 1..k : r = b[i]
    BY <2>2, <1>2, <1>3, <1>6 DEF Smallest
  <2>9. Placed(F \ Y, Z, V, N)
    <3>1. Sharing(Y, k, b, sh, W, O, V, N)
      BY ONLY <2>5, <2>6, <2>7, <2>8 DEF Sharing
    <3> QED BY ONLY <2>8, <3>1, PlacedMore
  <2> QED BY <2>2, <2>9
<1> QED BY <1>1, <1>3, <1>8, <1>9 DEF Places

---------------------------------------------------------------------------
(* release_request.                                                         *)

\* The tokens of a request are in the front of its row.
RowKept(rho, kv) ==
  /\ rho \in Seq(Slots) /\ SoundRow(rho) /\ kv \in Seq(Nat) /\ Len(kv) <= Len(rho)
  /\ \A x \in 1..Len(kv) : kv[x] = rho[x]

\* The full pages that are inserted are those of the page table.
LEMMA SoundChunks ==
  ASSUME NEW rho, NEW kv, RowKept(rho, kv), NEW N, N = Len(ChunksOf(kv)), NEW c, c = CeilPages(Len(kv))
  PROVE  /\ N \in Nat /\ N * PageSize \in Nat /\ N * PageSize <= Len(kv)
         /\ N * PageSize = Len(kv) - (Len(kv) % PageSize)
         /\ c \in Nat /\ N <= c /\ c <= CeilPages(Len(rho)) /\ CeilPages(Len(rho)) \in Nat
         /\ \A l \in 1..N : ChunksOf(kv)[l] = PageBlock(PageTable(rho)[l - 1])
<1>1. /\ rho \in Seq(Slots) /\ SoundRow(rho) /\ kv \in Seq(Nat) /\ Len(kv) <= Len(rho)
      /\ \A x \in 1..Len(kv) : kv[x] = rho[x]
      /\ Len(rho) \in Nat /\ Len(kv) \in Nat
  BY LenProperties DEF RowKept
<1>2. /\ N = Len(kv) \div PageSize /\ N \in Nat /\ ChunksOf(kv) \in Seq([1..PageSize -> Nat])
      /\ N * PageSize <= Len(kv)
      /\ \A l \in 1..N, j \in 1..PageSize :
           Entry(l, j) \in 1..Len(kv) /\ ChunksOf(kv)[l][j] = kv[Entry(l, j)]
  <2>1. PICK k : k = ChunksOf(kv)
    OBVIOUS
  <2>2. /\ Len(k) = Len(kv) \div PageSize /\ Len(k) \in Nat /\ k \in Seq([1..PageSize -> Nat])
        /\ Len(k) * PageSize <= Len(kv)
        /\ \A l \in 1..Len(k), j \in 1..PageSize :
             Entry(l, j) \in 1..Len(kv) /\ k[l][j] = kv[Entry(l, j)]
    <3>1. Chunked(Nat, kv, k)
      BY ONLY <1>1, <2>1, ChunksCut
    <3> QED BY ONLY <3>1 DEF Chunked
  <2>3. N = Len(k)
    BY <2>1
  <2> QED BY ONLY <2>1, <2>2, <2>3
<1>3. PageSize \in Nat /\ PageSize >= 2
  BY PageAssumption
<1>4. N * PageSize \in Nat /\ N * PageSize = Len(kv) - (Len(kv) % PageSize)
  <2>1. PICK p, w \in Int : /\ p = PageSize * N /\ p = N * PageSize /\ w = Len(kv) % PageSize
                            /\ Len(kv) = p + w /\ p \in Nat
    <3>1. PageSize * N = N * PageSize /\ PageSize * N \in Nat
      BY <1>2, <1>3
    <3>2. Len(kv) % PageSize \in 0..(PageSize - 1) /\ Len(kv) = PageSize * N + (Len(kv) % PageSize)
      BY <1>1, <1>2, DivMod
    <3> QED BY <3>1, <3>2
  <2> QED BY <2>1
<1>5. c \in Nat /\ N <= c /\ c <= CeilPages(Len(rho)) /\ CeilPages(Len(rho)) \in Nat
  <2>1. CeilPages(N * PageSize) = N
    BY <1>2, CeilMultiple
  <2>2. PICK a \in Nat : a = N * PageSize
    BY <1>4
  <2>3. CeilPages(a) <= CeilPages(Len(kv)) /\ CeilPages(Len(kv)) <= CeilPages(Len(rho))
    BY <2>2, <1>1, <1>2, CeilMono
  <2>4. CeilPages(Len(kv)) \in Nat /\ CeilPages(Len(rho)) \in Nat
    BY <1>1, CeilSpec
  <2> QED BY <2>1, <2>2, <2>3, <2>4
<1>6. ASSUME NEW l \in 1..N PROVE ChunksOf(kv)[l] = PageBlock(PageTable(rho)[l - 1])
  <2> DEFINE T == PageTable(rho)
             v == ChunksOf(kv)[l]
  <2>1. v \in [1..PageSize -> Nat]
    BY <1>2, <1>6, ElementOfSeq
  <2>2. ASSUME NEW j \in 1..PageSize PROVE v[j] = (T[l - 1] * PageSize) + (j - 1)
    <3>1. PICK x \in 1..Len(kv) : x = Entry(l, j)
      BY <1>2
    <3>2. v[j] = kv[x] /\ kv[x] = rho[x] /\ x \in 1..Len(rho)
      BY <3>1, <1>1, <1>2
    <3>3. rho[x] = (T[BlockOf(x)] * PageSize) + ((x - 1) % PageSize)
      BY <3>2, <1>1, SoundTable
    <3>4. BlockOf(x) = l - 1 /\ (x - 1) % PageSize = j - 1
      <4>1. l \in Nat \ {0}
        BY <1>2
      <4> QED BY <4>1, <3>1, EntryIs
    <3> HIDE DEF T, v
    <3> QED BY <3>2, <3>3, <3>4
  <2> HIDE DEF v
  <2>3. v = [j \in 1..PageSize |-> v[j]]
    BY <2>1
  <2>4. v = PageBlock(T[l - 1])
    <3> HIDE DEF T
    <3> QED BY <2>2, <2>3 DEF PageBlock
  <2> QED BY <2>4 DEF v
<1> QED BY <1>2, <1>4, <1>5, <1>6

\* Positions behind P pages that the first M pages or the last one cover, and pages of a
\* page table.
FreedOf(n, P, M) == ((P * PageSize + 1)..(M * PageSize)) \cup ((n - (n % PageSize) + 1)..n)

TablePages(rho, a, b) == {PageTable(rho)[x] : x \in a..(b - 1)}

\* The pages that are freed: what the tree had behind the prefix, and a last page that
\* is not full.
LEMMA FreedPages ==
  ASSUME NEW rho, NEW kv, RowKept(rho, kv), NEW P \in Nat, NEW M \in Nat,
         M <= Len(ChunksOf(kv))
  PROVE  Freeable({kv[x] : x \in FreedOf(Len(kv), P, M)}) =
           TablePages(rho, P, M) \cup TablePages(rho, Len(ChunksOf(kv)), CeilPages(Len(kv)))
<1>0. PICK n, X : n = Len(kv) /\ X = ((P * PageSize + 1)..(M * PageSize)) \cup ((n - (n % PageSize) + 1)..n)
  OBVIOUS
<1>1. PICK N : N = Len(ChunksOf(kv))
  OBVIOUS
<1>2. /\ N \in Nat /\ N * PageSize \in Nat /\ N * PageSize <= n /\ N * PageSize = n - (n % PageSize)
      /\ rho \in Seq(Slots) /\ SoundRow(rho) /\ n \in Nat /\ n <= Len(rho) /\ Len(rho) \in Nat
      /\ \A x \in 1..n : kv[x] = rho[x]
  <2>1. /\ N \in Nat /\ N * PageSize \in Nat /\ N * PageSize <= n /\ N * PageSize = n - (n % PageSize)
    BY <1>0, <1>1, SoundChunks
  <2> QED BY <2>1, <1>0, LenProperties DEF RowKept
<1>3. PICK p, m, k \in Nat : p = P * PageSize /\ m = M * PageSize /\ k = N * PageSize /\ m <= k
  <2>1. PageSize * M <= PageSize * N
    BY <1>1, <1>2, MulMono
  <2>2. P * PageSize \in Nat /\ M * PageSize \in Nat /\ N * PageSize \in Nat
        /\ PageSize * M = M * PageSize /\ PageSize * N = N * PageSize
    BY <1>2, PageAssumption
  <2> QED BY <2>1, <2>2
<1> DEFINE A == {rho[x] : x \in (P * PageSize + 1)..m}
           B == {rho[x] : x \in (N * PageSize + 1)..n}
<1>4. {kv[x] : x \in X} = A \cup B
  <2>1. X = ((p + 1)..m) \cup ((k + 1)..n)
    BY <1>0, <1>2, <1>3
  <2>2. \A x \in X : x \in 1..n
    BY <2>1, <1>2, <1>3
  <2>3. {kv[x] : x \in X} = {rho[x] : x \in X}
    BY <2>2, <1>2
  <2>4. A = {rho[x] : x \in (p + 1)..m} /\ B = {rho[x] : x \in (k + 1)..n}
    BY <1>3
  <2>5. PICK U, V : U = (p + 1)..m /\ V = (k + 1)..n
    OBVIOUS
  <2>6. X = U \cup V /\ A = {rho[x] : x \in U} /\ B = {rho[x] : x \in V}
    BY <2>1, <2>4, <2>5
  <2>7. {rho[x] : x \in X} = A \cup B
    BY ONLY <2>6
  <2> QED BY <2>3, <2>7
<1>5. A \subseteq Slots /\ B \subseteq Slots
  <2>1. \A x \in 1..Len(rho) : rho[x] \in Slots
    BY <1>2, Elements
  <2>2. \A x \in (p + 1)..m : x \in 1..Len(rho)
    BY <1>2, <1>3
  <2>3. \A x \in (k + 1)..n : x \in 1..Len(rho)
    BY <1>2, <1>3
  <2> QED BY <2>1, <2>2, <2>3, <1>3
<1>6. PagesOf(A) = {PageTable(rho)[b] : b \in P..(M - 1)}
  <2>1. PICK S, z : S = A /\ z = m
    OBVIOUS
  <2>2. z \in 0..Len(rho) /\ CeilPages(z) = M
    BY <2>1, <1>2, <1>3, CeilMultiple
  <2>3. S = {rho[x] : x \in (P * PageSize + 1)..z}
    BY <2>1
  <2>4. SlotsFrom(S, rho, P, z)
    BY <2>2, <2>3, <1>2 DEF SlotsFrom
  <2>5. PagesOf(S) = {PageTable(rho)[b] : b \in P..(CeilPages(z) - 1)}
    BY ONLY <2>4, PagesFrom
  <2> QED BY <2>1, <2>2, <2>5
<1>7. PagesOf(B) = {PageTable(rho)[b] : b \in N..(CeilPages(n) - 1)}
  <2>1. PICK S, z : S = B /\ z = n
    OBVIOUS
  <2>2. z \in 0..Len(rho)
    BY <2>1, <1>2
  <2>3. S = {rho[x] : x \in (N * PageSize + 1)..z}
    BY <2>1
  <2>4. SlotsFrom(S, rho, N, z)
    BY <2>2, <2>3, <1>2 DEF SlotsFrom
  <2>5. PagesOf(S) = {PageTable(rho)[b] : b \in N..(CeilPages(z) - 1)}
    BY ONLY <2>4, PagesFrom
  <2> QED BY <2>1, <2>5
<1> HIDE DEF A, B
<1>8. Freeable(A \cup B) = PagesOf(A) \cup PagesOf(B)
  <2>1. A \cup B \in SUBSET Slots
    BY <1>5
  <2>2. Freeable(A \cup B) = PagesOf(A \cup B)
    BY <2>1, PagesOfSlots
  <2> QED BY <2>2, PagesOfUnion
<1>9. X = FreedOf(Len(kv), P, M)
  BY <1>0 DEF FreedOf
<1> QED BY <1>0, <1>1, <1>4, <1>6, <1>7, <1>8, <1>9 DEF TablePages

\* insert adds the full pages behind what the tree had.
LEMMA InsertedPages ==
  ASSUME NEW t, TreeOK(t), WholePages(t), NEW key \in Seq(Chunk), NEW val, NEW i,
         Inserted(Chunk, t, key, val, i), NEW u, Known(u) = Known(i), \A p : PageAt(u, p) = PageAt(i, p),
         NEW M, M = Len(Matched(t, key)), NEW T, \A l \in 1..Len(key) : val[l] = PageBlock(T[l - 1]),
         NEW c \in Nat, Len(key) <= c, T \in [0..(c - 1) -> Pages],
         \A a, b \in 0..(c - 1) : T[a] = T[b] => a = b,
         \A b \in M..(Len(key) - 1) : T[b] \notin PagesKnown(t)
  PROVE  /\ M \in Nat /\ M <= Len(key)
         /\ WholePages(u)
         /\ PagesKnown(u) = PagesKnown(t) \cup {T[b] : b \in M..(Len(key) - 1)}
<1> DEFINE N == Len(key)
           s == Matched(t, key)
           New == {p \in Known(u) : p \notin Known(t)}
<1>1. Nodes(t) \in SUBSET (Seq(Chunk) \ {<< >>})
  BY DEF TreeOK, IsTree
<1>2. /\ s \in Seq(Chunk) /\ IsPrefix(s, key) /\ s \in Known(t) \cup {<< >>}
      /\ \A p \in Known(t) : IsPrefix(p, key) => IsPrefix(p, s)
  BY <1>1, MatchedIs
<1> HIDE DEF s
<1>3. M = Len(s) /\ M \in Nat /\ M <= N /\ N \in Nat
  <2>1. Len(s) \in Nat /\ Len(s) <= Len(key) /\ Len(key) \in Nat
    BY <1>2, PrefixOrder, LenProperties
  <2> QED BY <2>1 DEF s
<1>4. /\ \A p : p \in Known(u) <=> p \in Known(t) \/ (p \in Seq(Chunk) \ {<< >>} /\ IsPrefix(p, key))
      /\ \A p \in Known(t) : PageAt(u, p) = PageAt(t, p)
      /\ \A p \in Known(u) : p \notin Known(t) => PageAt(u, p) = val[Len(p)]
  BY DEF Inserted
<1>5. ASSUME NEW p \in New
      PROVE  /\ p \in Seq(Chunk) /\ IsPrefix(p, key) /\ Len(p) \in (M + 1)..N
             /\ Len(p) - 1 \in M..(N - 1) /\ Len(p) - 1 \in 0..(c - 1)
             /\ T[Len(p) - 1] \in Pages /\ PageAt(u, p) = PageBlock(T[Len(p) - 1])
             /\ T[Len(p) - 1] \notin PagesKnown(t)
  <2>1. p \in Seq(Chunk) /\ p # << >> /\ IsPrefix(p, key) /\ p \notin Known(t) /\ PageAt(u, p) = val[Len(p)]
    BY <1>4
  <2>2. Len(p) \in Nat /\ Len(p) <= N
    BY <2>1, PrefixOrder
  <2>3. ~ (Len(p) <= M)
    <3> SUFFICES ASSUME Len(p) <= Len(s) PROVE FALSE
      BY <1>3
    <3>1. IsPrefix(p, s)
      BY <2>1, <1>2, PrefixChain
    <3>2. s # << >>
      <4> SUFFICES ASSUME s = << >> PROVE FALSE
        OBVIOUS
      <4>1. Len(s) = 0
        BY <1>2, EmptySeq
      <4>2. Len(p) = 0
        BY <4>1, <2>2
      <4> QED BY <4>2, <2>1, EmptySeq
    <3>3. s \in Known(t)
      BY <3>2, <1>2
    <3>4. p \in Known(t)
      BY <3>1, <3>3, <2>1, <1>1, KnownPrefix
    <3> QED BY <3>4, <2>1
  <2>4. Len(p) \in (M + 1)..N /\ Len(p) - 1 \in M..(N - 1) /\ Len(p) - 1 \in 0..(c - 1) /\ Len(p) \in 1..N
    BY <2>2, <2>3, <1>3
  <2>5. val[Len(p)] = PageBlock(T[Len(p) - 1])
    BY <2>4
  <2>6. T[Len(p) - 1] \in Pages /\ T[Len(p) - 1] \notin PagesKnown(t)
    BY <2>4
  <2> QED BY <2>1, <2>4, <2>5, <2>6
<1>6. ASSUME NEW b \in M..(N - 1) PROVE \E p \in New : Len(p) - 1 = b
  <2>1. b + 1 \in 0..N /\ b + 1 \in Nat /\ b + 1 > M
    BY <1>3
  <2>2. PICK p : p = Cut(key, b + 1)
    OBVIOUS
  <2>3. p \in Seq(Chunk) /\ Len(p) = b + 1 /\ IsPrefix(p, key)
    BY <2>1, <2>2, CutOf
  <2>4. p # << >>
    <3> SUFFICES ASSUME p = << >> PROVE FALSE
      OBVIOUS
    <3>1. Len(p) = 0
      BY EmptySeq
    <3> QED BY <3>1, <2>1, <2>3, <1>3
  <2>5. p \notin Known(t)
    <3> SUFFICES ASSUME p \in Known(t) PROVE FALSE
      OBVIOUS
    <3>1. IsPrefix(p, s)
      BY <2>3, <1>2
    <3>2. Len(p) <= Len(s)
      BY <3>1, <2>3, <1>2, PrefixOrder
    <3> QED BY <3>2, <2>1, <2>3, <1>3
  <2>6. p \in New
    BY <2>3, <2>4, <2>5, <1>4
  <2>7. Len(p) - 1 = b
    BY <2>1, <2>3
  <2> QED BY <2>6, <2>7
<1>7. ASSUME NEW p \in Known(u) PROVE \E g \in Pages : PageAt(u, p) = PageBlock(g)
  <2>1. CASE p \in Known(t)
    <3>1. \E g \in Pages : PageAt(t, p) = PageBlock(g)
      BY <2>1 DEF WholePages
    <3> QED BY <3>1, <2>1, <1>4
  <2>2. CASE p \notin Known(t)
    BY <2>2, <1>5
  <2> QED BY <2>1, <2>2
<1>8. ASSUME NEW p \in Known(u), NEW q \in Known(u), PageAt(u, p) = PageAt(u, q) PROVE p = q
  <2>1. ASSUME NEW x \in New, NEW y \in Known(t), PageAt(u, x) = PageAt(u, y) PROVE FALSE
    <3>1. PageAt(t, y) = PageBlock(T[Len(x) - 1])
      BY <2>1, <1>4, <1>5
    <3>2. T[Len(x) - 1] \in PagesKnown(t)
      BY <3>1, <1>5 DEF PagesKnown
    <3> QED BY <3>2, <1>5
  <2>2. CASE p \in Known(t) /\ q \in Known(t)
    BY <2>2, <1>4, <1>8 DEF WholePages
  <2>3. CASE p \notin Known(t) /\ q \in Known(t)
    BY <2>1, <2>3, <1>8
  <2>4. CASE p \in Known(t) /\ q \notin Known(t)
    BY <2>1, <2>4, <1>8
  <2>5. CASE p \notin Known(t) /\ q \notin Known(t)
    <3>1. p \in New /\ q \in New
      BY <2>5
    <3>2. PICK g, h \in Pages : g = T[Len(p) - 1] /\ h = T[Len(q) - 1]
      BY <3>1, <1>5
    <3>3. PageBlock(g) = PageBlock(h)
      BY <3>1, <3>2, <1>5, <1>8
    <3>4. g = h
      BY <3>3, PageBlockIs
    <3>5. Len(p) - 1 = Len(q) - 1
      BY <3>1, <3>2, <3>4, <1>5
    <3>6. Len(p) = Len(q) /\ Len(q) \in Nat /\ Len(p) <= Len(q)
      BY <3>1, <3>5, <1>3, <1>5
    <3>7. p \in Seq(Chunk) /\ q \in Seq(Chunk) /\ IsPrefix(p, key) /\ IsPrefix(q, key)
      BY <3>1, <1>5
    <3>8. IsPrefix(p, q)
      BY <3>6, <3>7, PrefixChain
    <3> QED BY <3>6, <3>7, <3>8, PrefixOrder
  <2> QED BY <2>2, <2>3, <2>4, <2>5
<1>9. WholePages(u)
  BY <1>7, <1>8 DEF WholePages
<1>10. ASSUME NEW g \in PagesKnown(u) PROVE g \in PagesKnown(t) \cup {T[b] : b \in M..(N - 1)}
  <2>1. PICK p \in Known(u) : g \in Pages /\ PageAt(u, p) = PageBlock(g)
    BY <1>10 DEF PagesKnown
  <2>2. CASE p \in Known(t)
    BY <2>1, <2>2, <1>4 DEF PagesKnown
  <2>3. CASE p \notin Known(t)
    <3>1. PageBlock(g) = PageBlock(T[Len(p) - 1]) /\ T[Len(p) - 1] \in Pages /\ Len(p) - 1 \in M..(N - 1)
      BY <2>1, <2>3, <1>5
    <3>2. g = T[Len(p) - 1]
      BY <3>1, <2>1, PageBlockIs
    <3> QED BY <3>1, <3>2
  <2> QED BY <2>2, <2>3
<1>11. ASSUME NEW g \in PagesKnown(t) PROVE g \in PagesKnown(u)
  <2>1. PICK p \in Known(t) : g \in Pages /\ PageAt(t, p) = PageBlock(g)
    BY <1>11 DEF PagesKnown
  <2> QED BY <2>1, <1>4 DEF PagesKnown
<1>12. ASSUME NEW b \in M..(N - 1) PROVE T[b] \in PagesKnown(u)
  <2>1. PICK p \in New : Len(p) - 1 = b
    BY <1>6
  <2> QED BY <2>1, <1>5 DEF PagesKnown
<1>13. PagesKnown(u) = PagesKnown(t) \cup {T[b] : b \in M..(N - 1)}
  BY <1>10, <1>11, <1>12
<1> QED BY <1>3, <1>9, <1>13

\* An owner leaves: its pages become free or the tree's.
LEMMA PlacedLess ==
  ASSUME NEW F, NEW T, NEW S, NEW O, Placed(F, T, S, O), NEW r \in S,
         NEW G, NEW B, O[r] = G \cup B, G \cap B = {}, NEW N, \A s \in S : s # r => N[s] = O[s]
  PROVE  Placed(F \cup G, T \cup B, S \ {r}, N)
<1>1. /\ \A p : p \in Pages <=> p \in F \/ p \in T \/ \E s \in S : p \in O[s]
      /\ \A p : ~ (p \in F /\ p \in T)
      /\ \A s \in S : \A p \in O[s] : p \notin F /\ p \notin T
      /\ \A v, s \in S : \A p : p \in O[v] /\ p \in O[s] => v = s
  <2>1. \A p : p \in Pages <=> p \in F \/ p \in T \/ \E s \in S : p \in O[s]
    BY DEF Placed
  <2>2. \A p : ~ (p \in F /\ p \in T)
    BY DEF Placed
  <2>3. \A s \in S : \A p \in O[s] : p \notin F /\ p \notin T
    BY DEF Placed
  <2>4. \A v, s \in S : \A p : p \in O[v] /\ p \in O[s] => v = s
    BY DEF Placed
  <2> QED BY <2>1, <2>2, <2>3, <2>4
<1>2. \A p : p \in O[r] <=> p \in G \/ p \in B
  OBVIOUS
<1>3. \A p : p \in Pages <=> p \in F \cup G \/ p \in T \cup B \/ \E s \in S \ {r} : p \in N[s]
  <2> TAKE p
  <2>1. (\E s \in S : p \in O[s]) <=> p \in O[r] \/ \E s \in S \ {r} : p \in N[s]
    OBVIOUS
  <2> QED BY <2>1, <1>1, <1>2
<1>4. \A s \in S \ {r} : \A p \in N[s] : p \notin F \cup G /\ p \notin T \cup B
  <2> TAKE s \in S \ {r}
  <2>1. N[s] = O[s] /\ s \in S /\ s # r
    OBVIOUS
  <2> QED BY <2>1, <1>1, <1>2
<1>5. \A v, s \in S \ {r} : \A p : p \in N[v] /\ p \in N[s] => v = s
  BY <1>1
<1>6. Pages = (F \cup G) \cup (T \cup B) \cup UNION {N[s] : s \in S \ {r}}
  BY ONLY <1>3
<1>7. (F \cup G) \cap (T \cup B) = {}
  <2>1. \A p \in O[r] : p \notin F /\ p \notin T
    BY <1>1
  <2> QED BY <2>1, <1>1, <1>2
<1>8. \A s \in S \ {r} : /\ N[s] \cap (F \cup G) = {} /\ N[s] \cap (T \cup B) = {}
                         /\ \A v \in S \ {r} : v # s => N[s] \cap N[v] = {}
  BY ONLY <1>4, <1>5
<1> QED BY <1>6, <1>7, <1>8 DEF Placed

\* What a request that leaves has: the row it owns pages in, the tokens it inserts, and
\* how far its prefix P and the tree M reach into the full pages N of its row of C pages.
Leaving(r, rho, kv, key, P, M, N, C) ==
  /\ RowKept(rho, kv)
  /\ kv = [x \in 1..Len(req[r].tokens) |-> req_to_token[req[r].req_pool_idx][x]]
  /\ key = ChunksOf(req[r].tokens) /\ key \in Seq(Chunk) /\ ChunksOf(kv) \in Seq(Chunk)
  /\ Len(kv) = Len(req[r].tokens)
  /\ N = Len(key) /\ N = Len(ChunksOf(kv)) /\ N \in Nat
  /\ P = Len(req[r].last_node) /\ P \in Nat /\ Protected(r) = P * PageSize
  /\ M = Len(Matched(tree, key)) /\ M \in Nat /\ P <= M /\ M <= N
  /\ C \in Nat /\ N <= C /\ C = CeilPages(Len(kv)) /\ C = CeilPages(Len(rho))
  /\ OwnOf(req_to_token, req[r]) = {PageTable(rho)[b] : b \in P..(C - 1)}

\* A request whose last token is in its row.
LEMMA LeavingIs ==
  ASSUME ManagerInv, Places(free_pages, tree, req, req_to_token), NEW r \in RunningIn(req),
         req[r].seq_len >= Len(req[r].tokens)
  PROVE  \E rho, kv, key, P, M, N, C : Leaving(r, rho, kv, key, P, M, N, C)
<1> DEFINE x == req[r]
           kv == [i \in 1..Len(x.tokens) |-> req_to_token[x.req_pool_idx][i]]
           key == ChunksOf(x.tokens)
           rho == RowOf(req_to_token, x)
           P == Len(x.last_node)
           M == Len(Matched(tree, key))
           n == Len(x.tokens)
           C == CeilPages(x.seq_len)
<1>1. /\ RequestsOK(tree, req) /\ TableOK(req_to_token) /\ TreeOK(tree) /\ Begins(req, req_to_token)
      /\ WholePages(tree) /\ RowFits(req_to_token, x) /\ r \in Requests /\ x.state = "running"
  BY DEF ManagerInv, Places, RunningIn
<1>2. RequestOK(r, x) /\ PrefixAt(tree, x)
  BY <1>1 DEF RequestsOK
<1>3. /\ x.seq_len \in Nat /\ n \in Nat /\ x.seq_len \in (n - 1)..(n + 1)
  <2>1. x.seq_len \in Nat /\ Len(x.tokens) \in Nat /\ x.seq_len \in (Len(x.tokens) - 1)..(Len(x.tokens) + 1)
    BY <1>1, RunningRow
  <2> QED BY <2>1
<1>4. /\ rho \in Seq(Slots) /\ SoundRow(rho) /\ Len(rho) = x.seq_len /\ P \in Nat
      /\ OwnOf(req_to_token, x) = {PageTable(rho)[b] : b \in P..(C - 1)}
  <2>1. PICK t, q, m : t = tree /\ q = req /\ m = req_to_token
    OBVIOUS
  <2>2. TreeOK(t) /\ RequestsOK(t, q) /\ r \in RunningIn(q) /\ RowFits(m, q[r])
    BY <2>1, <1>1
  <2>3. OwnRow(q[r], RowOf(m, q[r]), Len(q[r].last_node), OwnOf(m, q[r]))
    BY <2>2, OwnPagesAre
  <2>4. OwnRow(x, rho, P, OwnOf(req_to_token, x))
    BY <2>1, <2>3
  <2> HIDE DEF x, rho, P
  <2> QED BY <2>4 DEF OwnRow
<1>5. /\ kv \in Seq(Nat) /\ Len(kv) = n /\ key \in Seq(Chunk) /\ ChunksOf(kv) \in Seq(Chunk)
      /\ Len(ChunksOf(kv)) = Len(key) /\ Len(key) = n \div PageSize
  <2>1. PICK m, a, z : m = req_to_token /\ a = kv /\ z = x
    OBVIOUS
  <2>2. TableOK(m) /\ RequestOK(r, z) /\ z.state = "running" /\ r \in Requests
        /\ a = [i \in 1..Len(z.tokens) |-> m[z.req_pool_idx][i]]
    BY <2>1, <1>1, <1>2
  <2>3. /\ a \in Seq(Nat) /\ Len(a) = Len(z.tokens) /\ ChunksOf(z.tokens) \in Seq(Chunk)
        /\ ChunksOf(a) \in Seq(Chunk) /\ Len(ChunksOf(a)) = Len(ChunksOf(z.tokens))
        /\ Len(ChunksOf(z.tokens)) = Len(z.tokens) \div PageSize
    BY ONLY <2>2, RowChunks
  <2> QED BY <2>1, <2>3
<1>6. RowKept(rho, kv)
  <2>1. \A i \in 1..n : kv[i] = rho[i]
    <3> TAKE i \in 1..n
    <3>1. i \in 1..x.seq_len
      BY <1>3
    <3> QED BY <3>1 DEF RowOf
  <2>2. Len(kv) <= Len(rho)
    BY <1>3, <1>4, <1>5
  <2> HIDE DEF kv, rho, n
  <2> QED BY <2>1, <2>2, <1>4, <1>5 DEF RowKept
<1>7. Protected(r) = P * PageSize
  <2>1. Len(req[r].prefix_indices) = Len(req[r].last_node) * PageSize
    BY <1>1, PrefixLength
  <2> QED BY <2>1 DEF Protected
<1>8. M \in Nat /\ P <= M /\ M <= Len(key)
  <2>1. PICK s, k, l : s = Matched(tree, key) /\ k = key /\ l = x.last_node
    OBVIOUS
  <2>2. Nodes(tree) \in SUBSET (Seq(Chunk) \ {<< >>})
    BY <1>1 DEF TreeOK, IsTree
  <2>3. k \in Seq(Chunk)
    BY <2>1, <1>5
  <2>4. /\ s \in Seq(Chunk) /\ IsPrefix(s, k) /\ \A p \in Known(tree) : IsPrefix(p, k) => IsPrefix(p, s)
    BY <2>1, <2>2, <2>3, MatchedIs
  <2>5. l \in Nodes(tree) \cup {<< >>} /\ IsPrefix(l, k) /\ l \in Seq(Chunk)
    <3>1. l \in Nodes(tree) \cup {<< >>}
      BY <2>1, <1>2 DEF PrefixAt
    <3>2. IsPrefix(l, k)
      BY <2>1, <1>2 DEF RequestOK
    <3>3. l \in Seq(Chunk)
      BY <2>1, <1>2, FieldsOf DEF RequestOK
    <3> QED BY <3>1, <3>2, <3>3
  <2>6. IsPrefix(l, s)
    <3>1. CASE l = << >>
      BY <3>1, <2>4, PrefixEmpty
    <3>2. CASE l # << >>
      <4>1. l \in Nodes(tree)
        BY <3>2, <2>5
      <4>2. l \in Known(tree)
        BY <4>1, <1>1, AtNode DEF TreeOK
      <4> QED BY <4>2, <2>4, <2>5
    <3> QED BY <3>1, <3>2
  <2>7. Len(l) <= Len(s) /\ Len(s) <= Len(k) /\ Len(s) \in Nat
    BY <2>3, <2>4, <2>5, <2>6, PrefixOrder
  <2> QED BY <2>1, <2>7
<1>9. C \in Nat /\ C = CeilPages(n) /\ C = CeilPages(Len(rho))
  <2>1. x.seq_len = n \/ (x.seq_len = n + 1 /\ n % PageSize # 0)
    <3>1. x.seq_len > n => n % PageSize # 0
      BY <1>1 DEF RowFits
    <3> QED BY <3>1, <1>3
  <2>2. PICK z, k \in Nat : z = x.seq_len /\ k = n
    BY <1>3
  <2>3. CeilPages(z) \in Nat /\ CeilPages(k) \in Nat
    BY CeilSpec
  <2>4. CASE z = k
    BY <2>2, <2>3, <2>4, <1>4
  <2>5. CASE z = k + 1 /\ k % PageSize # 0
    <3>1. NewPages(k, k + 1) = 0
      BY <2>5, NoNewPage
    <3>2. CeilPages(z) = CeilPages(k)
      BY <2>3, <2>5, <3>1 DEF NewPages
    <3> QED BY <2>2, <2>3, <3>2, <1>4
  <2> QED BY <2>1, <2>2, <2>4, <2>5
<1>10. PICK N : N = Len(ChunksOf(kv))
  OBVIOUS
<1>11. N \in Nat /\ N <= C /\ N = Len(key)
  <2>1. PICK c, k, s : c = CeilPages(Len(kv)) /\ k = kv /\ s = rho
    OBVIOUS
  <2>2. RowKept(s, k) /\ N = Len(ChunksOf(k)) /\ c = CeilPages(Len(k))
    BY <2>1, <1>6, <1>10
  <2>3. N \in Nat /\ N <= c
    BY ONLY <2>2, SoundChunks
  <2>4. N = Len(key)
    BY <1>5, <1>10
  <2>5. c = C
    BY <2>1, <1>5, <1>9
  <2> QED BY <2>3, <2>4, <2>5
<1>12. Leaving(r, rho, kv, key, P, M, N, C)
  <2>1. kv = [i \in 1..Len(req[r].tokens) |-> req_to_token[req[r].req_pool_idx][i]]
        /\ key = ChunksOf(req[r].tokens) /\ P = Len(req[r].last_node) /\ M = Len(Matched(tree, key))
        /\ n = Len(req[r].tokens)
    OBVIOUS
  <2>2. OwnOf(req_to_token, req[r]) = {PageTable(rho)[b] : b \in P..(C - 1)}
    BY <1>4
  <2>3. C = CeilPages(Len(kv))
    BY <1>5, <1>9
  <2> HIDE DEF kv, key, P, M, n, C, rho
  <2> QED BY <2>1, <2>2, <2>3, <1>4, <1>5, <1>6, <1>7, <1>8, <1>9, <1>10, <1>11 DEF Leaving
<1> QED BY <1>12

\* release_request of a request whose last token is in its row: the full pages it had of
\* its own become the tree's, the others free.
LEMMA ReleasePlaces ==
  ASSUME ManagerInv, Places(free_pages, tree, req, req_to_token), NEW r \in RunningIn(req),
         req[r].seq_len >= Len(req[r].tokens), NEW y, y.state # "running", Release(r, y)
  PROVE  Places(free_pages', tree', req', req_to_token')
<1>1. PICK rho, kv, key, P, M, N, C : Leaving(r, rho, kv, key, P, M, N, C)
  BY LeavingIs
<1>2. /\ RowKept(rho, kv) /\ kv = [x \in 1..Len(req[r].tokens) |-> req_to_token[req[r].req_pool_idx][x]]
      /\ key = ChunksOf(req[r].tokens) /\ key \in Seq(Chunk) /\ ChunksOf(kv) \in Seq(Chunk)
      /\ Len(kv) = Len(req[r].tokens)
      /\ N = Len(key) /\ N = Len(ChunksOf(kv)) /\ N \in Nat
      /\ P \in Nat /\ Protected(r) = P * PageSize
      /\ M = Len(Matched(tree, key)) /\ M \in Nat /\ P <= M /\ M <= N
      /\ C \in Nat /\ N <= C /\ C = CeilPages(Len(kv)) /\ C = CeilPages(Len(rho))
  BY <1>1 DEF Leaving
<1> DEFINE T == PageTable(rho)
           O == OwnOf(req_to_token, req[r])
           G == {T[b] : b \in P..(M - 1)} \cup {T[b] : b \in N..(C - 1)}
           B == {T[b] : b \in M..(N - 1)}
           i == Insert(tree, key, ChunksOf(kv))
           u == DecLock(i, req[r].last_node)
           X == FreedOnRelease(r, M * PageSize)
<1>3. O = {T[b] : b \in P..(C - 1)}
  BY <1>1 DEF Leaving
<1>4. /\ RequestsOK(tree, req) /\ TreeOK(tree) /\ req = [p \in Requests |-> req[p]]
      /\ WholePages(tree) /\ Placed(free_pages, PagesKnown(tree), RunningIn(req), Owns(req, req_to_token))
      /\ r \in Requests /\ req[r].state = "running"
  BY DEF ManagerInv, RequestsOK, Places, RunningIn
<1>5. /\ tree' = u /\ free_pages' = free_pages \cup Freeable({kv[x] : x \in X})
      /\ req' = [req EXCEPT ![r] = y] /\ req_to_token' = req_to_token
  BY <1>2 DEF Release
<1>6. T \in [0..(C - 1) -> Pages] /\ \A a, b \in 0..(C - 1) : T[a] = T[b] => a = b
  <2>1. rho \in Seq(Slots) /\ SoundRow(rho)
    BY <1>2 DEF RowKept
  <2> QED BY <2>1, <1>2, SoundTable
<1>7. Freeable({kv[x] : x \in X}) = G
  <2>1. X = FreedOf(Len(kv), P, M)
    BY <1>2 DEF FreedOnRelease, FreedOf
  <2>2. M <= Len(ChunksOf(kv)) /\ RowKept(rho, kv) /\ P \in Nat /\ M \in Nat
    BY <1>2
  <2>3. Freeable({kv[x] : x \in FreedOf(Len(kv), P, M)}) =
          TablePages(rho, P, M) \cup TablePages(rho, Len(ChunksOf(kv)), CeilPages(Len(kv)))
    BY ONLY <2>2, FreedPages
  <2>4. TablePages(rho, P, M) \cup TablePages(rho, Len(ChunksOf(kv)), CeilPages(Len(kv))) = G
    BY <1>2 DEF TablePages
  <2> HIDE DEF X, G
  <2> QED BY <2>1, <2>3, <2>4
<1>8. /\ Inserted(Chunk, tree, key, ChunksOf(kv), i) /\ Known(u) = Known(i)
      /\ \A p : PageAt(u, p) = PageAt(i, p)
  <2>1. PICK t, q, val, j, w : t = tree /\ q = req /\ val = ChunksOf(kv) /\ j = i /\ w = u
    OBVIOUS
  <2>2. /\ TreeOK(t) /\ RequestsOK(t, q) /\ r \in Requests /\ key \in Seq(Chunk) /\ val \in Seq(Chunk)
        /\ Len(key) = Len(val) /\ j = Insert(t, key, val) /\ w = DecLock(j, q[r].last_node)
    BY <2>1, <1>2, <1>4
  <2>3. Inserted(Chunk, t, key, val, j) /\ Known(w) = Known(j) /\ \A p : PageAt(w, p) = PageAt(j, p)
    BY ONLY <2>2, ReleaseTree
  <2> QED BY <2>1, <2>3
<1> HIDE DEF i, u, X
<1>9. \A l \in 1..N : ChunksOf(kv)[l] = PageBlock(T[l - 1])
  <2>1. RowKept(rho, kv) /\ N = Len(ChunksOf(kv)) /\ C = CeilPages(Len(kv))
    BY <1>2
  <2>2. \A l \in 1..N : ChunksOf(kv)[l] = PageBlock(PageTable(rho)[l - 1])
    BY ONLY <2>1, SoundChunks
  <2> QED BY <2>2
<1> HIDE DEF T
<1>10. O \cap PagesKnown(tree) = {}
  <2>1. Owns(req, req_to_token)[r] = O
    BY <1>4 DEF Owns
  <2> QED BY <2>1, <1>4 DEF Placed
<1>11. PICK U, V, W, Z : U = P..(M - 1) /\ V = M..(N - 1) /\ W = N..(C - 1) /\ Z = P..(C - 1)
  OBVIOUS
<1>12. /\ Z = U \cup V \cup W /\ U \cap V = {} /\ V \cap W = {}
       /\ \A b \in Z : b \in 0..(C - 1)
  <2>0. P \in Nat /\ M \in Nat /\ N \in Nat /\ C \in Nat /\ P <= M /\ M <= N /\ N <= C
    BY <1>2
  <2>1. Z = U \cup V \cup W
    BY ONLY <2>0, <1>11
  <2>2. U \cap V = {} /\ V \cap W = {}
    BY ONLY <2>0, <1>11
  <2>3. \A b \in Z : b \in 0..(C - 1)
    BY ONLY <2>0, <1>11
  <2> QED BY <2>1, <2>2, <2>3
<1>13. O = G \cup B /\ G \cap B = {} /\ \A b \in V : T[b] \in O
  <2>1. O = {T[b] : b \in Z} /\ G = {T[b] : b \in U} \cup {T[b] : b \in W} /\ B = {T[b] : b \in V}
    BY <1>3, <1>11
  <2> HIDE DEF O, G, B
  <2>2. \A a, b \in Z : T[a] = T[b] => a = b
    BY <1>6, <1>12
  <2>3. O = G \cup B
    BY ONLY <2>1, <1>12
  <2>4. G \cap B = {}
    BY ONLY <2>1, <2>2, <1>12
  <2>5. \A b \in V : T[b] \in O
    BY ONLY <2>1, <1>12
  <2> QED BY <2>3, <2>4, <2>5
<1>14. WholePages(u) /\ PagesKnown(u) = PagesKnown(tree) \cup B
  <2>1. \A b \in M..(Len(key) - 1) : T[b] \notin PagesKnown(tree)
    BY <1>2, <1>10, <1>11, <1>13
  <2>2. PICK t, val : t = tree /\ val = ChunksOf(kv)
    OBVIOUS
  <2>3. /\ TreeOK(t) /\ WholePages(t) /\ key \in Seq(Chunk) /\ Inserted(Chunk, t, key, val, i)
        /\ Known(u) = Known(i) /\ (\A p : PageAt(u, p) = PageAt(i, p)) /\ M = Len(Matched(t, key))
    BY <2>2, <1>2, <1>4, <1>8
  <2>4. /\ \A l \in 1..Len(key) : val[l] = PageBlock(T[l - 1])
        /\ C \in Nat /\ Len(key) <= C /\ T \in [0..(C - 1) -> Pages]
        /\ \A a, b \in 0..(C - 1) : T[a] = T[b] => a = b
        /\ \A b \in M..(Len(key) - 1) : T[b] \notin PagesKnown(t)
    BY <2>1, <2>2, <1>2, <1>6, <1>9
  <2>5. WholePages(u) /\ PagesKnown(u) = PagesKnown(t) \cup {T[b] : b \in M..(Len(key) - 1)}
    BY ONLY <2>3, <2>4, InsertedPages
  <2> QED BY <2>2, <2>5, <1>2
<1>15. req' = [p \in Requests |-> IF p = r THEN y ELSE req[p]]
  BY <1>4, <1>5
<1>16. /\ RunningIn(req') = RunningIn(req) \ {r}
       /\ \A p \in RunningIn(req') : req'[p] = req[p] /\ p \in RunningIn(req)
  BY <1>15 DEF RunningIn
<1>17. Placed(free_pages \cup G, PagesKnown(tree) \cup B, RunningIn(req'), Owns(req', req_to_token))
  <2>1. PICK F, S, K, A, D, E, H :
          /\ F = free_pages /\ S = RunningIn(req) /\ K = PagesKnown(tree) /\ A = Owns(req, req_to_token)
          /\ D = Owns(req', req_to_token) /\ E = G /\ H = B
    OBVIOUS
  <2>2. A[r] = E \cup H /\ E \cap H = {}
    BY <2>1, <1>4, <1>13 DEF Owns
  <2>3. \A p \in S : p # r => D[p] = A[p]
    BY <2>1, <1>15 DEF Owns, RunningIn
  <2>4. Placed(F, K, S, A) /\ r \in S
    BY <2>1, <1>4
  <2>5. Placed(F \cup E, K \cup H, S \ {r}, D)
    BY ONLY <2>2, <2>3, <2>4, PlacedLess
  <2> QED BY <2>1, <2>5, <1>16
<1>18. \A p \in RunningIn(req') : RowFits(req_to_token, req'[p])
  BY <1>16 DEF Places
<1> HIDE DEF G, B
<1> QED BY <1>5, <1>7, <1>14, <1>17, <1>18 DEF Places

---------------------------------------------------------------------------
(* The sound workload.                                                      *)

\* At the start every page is free.
LEMMA PlacesStart ==
  ASSUME Init
  PROVE  Places(free_pages, tree, req, req_to_token)
<1>1. free_pages = Pages /\ tree = EmptyTree /\ req = [r \in Requests |-> Fresh(r)]
  BY DEF Init
<1>2. Known(tree) = {}
  BY <1>1, EmptyIsTree
<1>3. RunningIn(req) = {}
  <2>1. \A r \in Requests : Fresh(r).state = "waiting"
    BY DEF Fresh
  <2> QED BY <2>1, <1>1 DEF RunningIn
<1>4. WholePages(tree) /\ PagesKnown(tree) = {}
  BY <1>2 DEF WholePages, PagesKnown
<1>5. Placed(Pages, {}, {}, Owns(req, req_to_token))
  BY DEF Placed
<1> QED BY <1>1, <1>3, <1>4, <1>5 DEF Places

\* A request that leaves under the sound workload.
LEMMA LeavePlaces ==
  ASSUME ManagerInv, Places(free_pages, tree, req, req_to_token), NEW r \in Requests,
         workload = Sound, TailWritten(r), UpdateFinished(r) \/ (Retract /\ r = Last(running))
  PROVE  Places(free_pages', tree', req', req_to_token')
<1>1. req[r].seq_len >= Len(req[r].tokens)
  BY DEF TailWritten, Sound
<1>2. CASE UpdateFinished(r)
  <2>1. PICK y : y = [Fresh(r) EXCEPT !.state = "done"]
    OBVIOUS
  <2>2. r \in RunningIn(req) /\ Release(r, y)
    BY <2>1, <1>2 DEF UpdateFinished, RunningIn
  <2>3. y.state # "running"
    BY <2>1 DEF Fresh
  <2> QED BY <2>2, <2>3, <1>1, ReleasePlaces
<1>3. CASE Retract /\ r = Last(running)
  <2>1. PICK y : y = [Fresh(r) EXCEPT !.matches = req[r].matches]
    OBVIOUS
  <2>2. running # << >> /\ Release(r, y)
    BY <2>1, <1>3 DEF Retract
  <2>3. r \in RunningIn(req)
    <3>1. running \in Seq(Requests) /\ Range(running) = {p \in Requests : req[p].state = "running"}
      BY DEF ManagerInv, SlotsOK
    <3>2. Len(running) \in 1..Len(running) /\ DOMAIN running = 1..Len(running)
      BY <2>2, <3>1, EmptySeq, LenProperties
    <3>3. r \in Range(running)
      BY <3>2, <1>3 DEF Range, Last
    <3> QED BY <3>1, <3>3 DEF RunningIn
  <2>4. y.state # "running"
    BY <2>1 DEF Fresh
  <2> QED BY <2>2, <2>3, <2>4, <1>1, ReleasePlaces
<1> QED BY <1>2, <1>3

\* Every step of the sound workload keeps the places of the pages.
LEMMA PlacesStep ==
  ASSUME ManagerInv, Places(free_pages, tree, req, req_to_token), workload = Sound, WorkloadNext
  PROVE  Places(free_pages', tree', req', req_to_token')
<1>1. ASSUME NEW r \in Requests, PrefixForWaitingReq(r)
      PROVE  Places(free_pages', tree', req', req_to_token')
  BY <1>1, MatchPlaces
<1>2. ASSUME NEW b \in {<<r>> : r \in Requests} \cup (Requests \X Requests),
             IsInjective(b), PrepareForExtend(b)
      PROVE  Places(free_pages', tree', req', req_to_token')
  <2>1. b \in Seq(Requests)
    BY BatchOf
  <2>2. \E pre, seq, need, last, e : ExtendStep(b, pre, seq, need, last, e)
    BY <2>1, <1>2, ExtendStepIs
  <2> QED BY <2>2, ExtendPlaces
<1>3. ASSUME DecodeInPage, PrepareForDecode PROVE Places(free_pages', tree', req', req_to_token')
  <2>1. \A r \in RunningIn(req) : req[r].seq_len % PageSize >= 2
    BY <1>3 DEF DecodeInPage, Sound, Running, RunningIn
  <2>2. \E seq, last, e : DecodeStep(seq, last, e)
    BY <1>3, DecodeStepIs
  <2> QED BY <2>1, <2>2, DecodePlaces
<1>4. ASSUME NEW r \in Requests, NEW t \in Tokens, AppendOutputToken(r, t)
      PROVE  Places(free_pages', tree', req', req_to_token')
  BY <1>4, AppendPlaces
<1>5. ASSUME NEW r \in Requests, TailWritten(r), UpdateFinished(r)
      PROVE  Places(free_pages', tree', req', req_to_token')
  BY <1>5, LeavePlaces
<1>6. ASSUME TailWritten(Last(running)), Retract PROVE Places(free_pages', tree', req', req_to_token')
  <2>1. Last(running) \in Requests
    <3>1. running \in Seq(Requests) /\ running # << >>
      BY <1>6 DEF Retract, ManagerInv, SlotsOK
    <3>2. Len(running) \in 1..Len(running)
      BY <3>1, EmptySeq, LenProperties
    <3> QED BY <3>1, <3>2, ElementOfSeq DEF Last
  <2> QED BY <2>1, <1>6, LeavePlaces
<1>7. CASE \E b \in {<<r>> : r \in Requests} \cup (Requests \X Requests) :
             IsInjective(b) /\ PrepareForExtend(b)
  BY <1>7, <1>2
<1>8. CASE \/ \E r \in Requests : PrefixForWaitingReq(r)
           \/ DecodeInPage /\ PrepareForDecode
           \/ \E r \in Requests, t \in Tokens : AppendOutputToken(r, t)
           \/ \E r \in Requests : TailWritten(r) /\ UpdateFinished(r)
           \/ TailWritten(Last(running)) /\ Retract
  BY <1>8, <1>1, <1>3, <1>4, <1>5, <1>6
<1> QED BY <1>7, <1>8 DEF WorkloadNext

\* Places of pages, in every behaviour with the sound workload.
PlaceInv == workload = Sound => Places(free_pages, tree, req, req_to_token)

LEMMA PlaceInvariance == WorkloadSpec => [](ManagerInv /\ PlaceInv)
<1>1. WorkloadInit => ManagerInv /\ PlaceInv
  BY ManagerStart, PlacesStart DEF WorkloadInit, PlaceInv
<1>2. ManagerInv /\ PlaceInv /\ [WorkloadNext]_<<vars, workload>> => (ManagerInv /\ PlaceInv)'
  <2> SUFFICES ASSUME ManagerInv, PlaceInv, [WorkloadNext]_<<vars, workload>>
               PROVE  ManagerInv' /\ PlaceInv'
    OBVIOUS
  <2>1. CASE WorkloadNext
    <3>1. Next /\ workload' = workload
      BY <2>1 DEF WorkloadNext, Next
    <3>2. ManagerInv'
      BY <3>1, ManagerStep
    <3>3. workload = Sound => Places(free_pages', tree', req', req_to_token')
      BY <2>1, PlacesStep DEF PlaceInv
    <3>4. PlaceInv'
      BY <3>1, <3>3 DEF PlaceInv, Sound
    <3> QED BY <3>2, <3>4
  <2>2. CASE UNCHANGED <<vars, workload>>
    BY <2>2 DEF vars, ManagerInv, PlaceInv, Sound
  <2> QED BY <2>1, <2>2
<1> QED BY <1>1, <1>2, PTL DEF WorkloadSpec

\* The pages of the tree are those of its paths.
LEMMA TreePagesAre ==
  ASSUME TreeOK(tree), WholePages(tree)
  PROVE  TreePages = PagesKnown(tree)
<1>1. IsTree(Chunk, tree) /\ Nodes(tree) \in SUBSET (Seq(Chunk) \ {<< >>}) /\ Meets(Chunk, Nodes(tree))
  BY DEF TreeOK, IsTree
<1>2. \A n \in Nodes(tree) : Range(tree.value[n]) = {PageAt(tree, p) : p \in PathsIn(tree, {n})}
  BY <1>1, ValueOf
<1>3. \A p \in Known(tree) : \A g : g \in ChunkPages[PageAt(tree, p)] <=> g \in Pages /\ PageAt(tree, p) = PageBlock(g)
  <2> SUFFICES ASSUME NEW p \in Known(tree), NEW g
               PROVE  g \in ChunkPages[PageAt(tree, p)] <=> g \in Pages /\ PageAt(tree, p) = PageBlock(g)
    OBVIOUS
  <2>1. PICK h \in Pages : PageAt(tree, p) = PageBlock(h)
    BY DEF WholePages
  <2>2. ChunkPages[PageAt(tree, p)] = {h} /\ (g \in Pages /\ PageBlock(h) = PageBlock(g) => h = g)
    BY <2>1, PageBlockIs
  <2> QED BY <2>1, <2>2
<1>4. \A g : g \in TreePages <=> \E n \in Nodes(tree) : \E c \in Range(tree.value[n]) : g \in ChunkPages[c]
  BY DEF TreePages
<1>5. ASSUME NEW g \in TreePages PROVE g \in PagesKnown(tree)
  <2>1. PICK n \in Nodes(tree) : \E c \in Range(tree.value[n]) : g \in ChunkPages[c]
    BY <1>4, <1>5
  <2>2. PICK c \in Range(tree.value[n]) : g \in ChunkPages[c]
    BY <2>1
  <2>3. PICK p \in PathsIn(tree, {n}) : c = PageAt(tree, p)
    BY <2>2, <1>2
  <2>4. p \in Known(tree)
    BY <2>3 DEF PathsIn
  <2> QED BY <2>2, <2>3, <2>4, <1>3 DEF PagesKnown
<1>6. ASSUME NEW g \in PagesKnown(tree) PROVE g \in TreePages
  <2>1. PICK p \in Known(tree) : g \in Pages /\ PageAt(tree, p) = PageBlock(g)
    BY <1>6 DEF PagesKnown
  <2>2. At(tree, p) \in Nodes(tree)
    BY <1>1, <2>1, AtIs
  <2>3. p \in PathsIn(tree, {At(tree, p)})
    BY <2>1 DEF PathsIn
  <2>4. PageAt(tree, p) \in Range(tree.value[At(tree, p)])
    BY <2>2, <2>3, <1>2
  <2> QED BY <2>1, <2>2, <2>4, <1>3, <1>4
<1> QED BY <1>5, <1>6

\* Under the sound workload every page of the pool is free, in the tree, or behind the
\* prefix of one running request, and of only one of these: no release frees a page of
\* another request and none is lost, whatever is matched, evicted and inserted.
THEOREM PagesOnePlaceTheorem == WorkloadSpec => []PagesOnePlace
<1>1. ManagerInv /\ PlaceInv => PagesOnePlace
  <2> SUFFICES ASSUME ManagerInv, PlaceInv, workload = Sound PROVE OnePlace
    BY DEF PagesOnePlace
  <2>1. Places(free_pages, tree, req, req_to_token) /\ TreeOK(tree)
    BY DEF PlaceInv, ManagerInv
  <2>2. TreePages = PagesKnown(tree)
    BY <2>1, TreePagesAre DEF Places
  <2>3. Running = RunningIn(req)
    BY DEF Running, RunningIn
  <2>4. \A r \in Running : OwnPages(r) = Owns(req, req_to_token)[r]
    BY DEF OwnPages, Owns, OwnOf, RowOf, Row, Protected, Running
  <2>5. PICK S, T, O, F : S = Running /\ T = TreePages /\ O = Owns(req, req_to_token) /\ F = free_pages
    OBVIOUS
  <2>6. Placed(F, T, S, O) /\ \A r \in S : OwnPages(r) = O[r]
    BY <2>1, <2>2, <2>3, <2>4, <2>5 DEF Places
  <2>7. {OwnPages(r) : r \in S} = {O[r] : r \in S}
    BY <2>6
  <2>8. Pages = F \cup T \cup UNION {OwnPages(r) : r \in S} /\ F \cap T = {}
    BY <2>6, <2>7 DEF Placed
  <2>9. \A r \in S : OwnPages(r) \cap (F \cup T) = {}
    BY <2>6 DEF Placed
  <2>10. \A r \in S : \A q \in S \ {r} : OwnPages(r) \cap OwnPages(q) = {}
    BY <2>6 DEF Placed
  <2> QED BY <2>5, <2>8, <2>9, <2>10 DEF OnePlace
<1> QED BY <1>1, PlaceInvariance, PTL

\* Under the sound workload the row of every running request is a page table the
\* attention backends can read, the prefix it shares included.
THEOREM RowsLaidOutTheorem == WorkloadSpec => []RowsLaidOut
<1>1. ManagerInv /\ PlaceInv => RowsLaidOut
  <2> SUFFICES ASSUME ManagerInv, PlaceInv, workload = Sound, NEW r \in Running PROVE SoundRow(Row(r))
    BY DEF RowsLaidOut, RowLayout
  <2>1. r \in RunningIn(req) /\ Row(r) = RowOf(req_to_token, req[r])
    BY DEF Running, RunningIn, Row, RowOf
  <2> QED BY <2>1 DEF PlaceInv, Places, RowFits
<1> QED BY <1>1, PlaceInvariance, PTL
=============================================================================
