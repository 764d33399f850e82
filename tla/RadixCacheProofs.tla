-------------------------- MODULE RadixCacheProofs --------------------------
(***************************************************************************)
(* The safety of the prefix cache and its refinement of PrefixStore, for   *)
(* any contents, pool, depth and finite set of requests.                   *)
(*                                                                         *)
(* The invariant speaks of paths: the lock of a node is the number of      *)
(* requests and of replaced matches on the path to it, a row begins with the pages of the node the *)
(* request stands on, and every page in use knows the path it was written  *)
(* for.  Each lemma X-Keeps takes one operation through it, with the state *)
(* before and after as parameters.                                         *)
(***************************************************************************)
EXTENDS RadixCache, CacheLemmas


---------------------------------------------------------------------------
(* The inductive invariant, at the level of paths: of a tree t, free pages  *)
(* f, requests q, replaced matches l and contents c.                        *)

Rows == [state : {"idle", "matched", "running"}, key : Paths, node : Paths, kv : Seq(Pages)]

TreeInv(t) == IsTree(Keys, t) /\ Nodes(t) \in SUBSET Paths

\* What a request in each state has.
RowIs(x) ==
  /\ x \in Rows /\ IsPrefix(x.node, x.key)
  /\ x.state = "idle" => x = Idle
  /\ x.state = "matched" => Len(x.kv) = Len(x.node)
  /\ x.state = "running" => Len(x.kv) = Len(x.key) + 1

ReqsInv(q) == q \in [Requests -> Rows] /\ \A r \in Requests : RowIs(q[r])

\* The requests and the replaced matches that hold path p, the nodes' counts of them, and
\* the two sizes.
On(q, p) == {r \in Requests : IsPrefix(p, q[r].node)}
Left(l, p) == {i \in DOMAIN l : IsPrefix(p, l[i])}

LocksOn(q, l, p) == Cardinality(On(q, p)) + Cardinality(Left(l, p))
Unheld(q, l, p)  == On(q, p) = {} /\ Left(l, p) = {}

Pinned(t, q, l) == {p \in Known(t) : ~ Unheld(q, l, p)}

StandsIn(t, q, l) ==
  /\ \A r \in Requests : q[r].node \in Nodes(t) \cup {<< >>}
  /\ l \in Seq(Paths) /\ \A i \in DOMAIN l : l[i] \in Nodes(t) \cup {<< >>}

Counted(t, q, l) == \A n \in Nodes(t) : t.lock[n] = LocksOn(q, l, n)

Sized(t, q, l) == /\ t.evictable = Cardinality(Known(t) \ Pinned(t, q, l))
               /\ t.protected = Cardinality(Pinned(t, q, l))

LocksInv(t, q, l) == StandsIn(t, q, l) /\ Counted(t, q, l) /\ Sized(t, q, l)

\* A row begins with the pages of the node it stands on.
RowsShare(t, q) ==
  \A r \in Requests : \A i \in 1..Len(q[r].node) :
    q[r].kv[i] = PageAt(t, Cut(q[r].node, i))

\* The positions of a row that are the request's own.
Own(x) == (Len(x.node) + 1)..Len(x.kv)

\* A page knows the path that ends in it, so no two paths have one page; the pages of rows
\* beyond the tree and the free ones are others.
TreePlaces(t, f, c) ==
  \A p \in Known(t) : PageAt(t, p) \in Pages /\ PageAt(t, p) \notin f /\ c[PageAt(t, p)] = p

RowPlaces(t, f, q, c) ==
  \A r \in Requests : \A i \in Own(q[r]) :
    /\ q[r].kv[i] \in Pages /\ q[r].kv[i] \notin f
    /\ \A p \in Known(t) : q[r].kv[i] # PageAt(t, p)
    /\ i <= Len(q[r].key) => c[q[r].kv[i]] = Cut(q[r].key, i)

RowsApart(q) ==
  \A r, s \in Requests : \A i \in Own(q[r]) : \A j \in Own(q[s]) :
    q[r].kv[i] = q[s].kv[j] => r = s /\ i = j

\* Every page is somewhere.
Somewhere(t, f, q) ==
  \A x \in Pages :
    \/ x \in f
    \/ \E p \in Known(t) : x = PageAt(t, p)
    \/ \E r \in Requests : \E i \in Own(q[r]) : x = q[r].kv[i]

PlacesInv(t, f, q, c) ==
  /\ f \in SUBSET Pages /\ c \in [Pages -> Paths]
  /\ TreePlaces(t, f, c) /\ RowPlaces(t, f, q, c) /\ RowsApart(q) /\ Somewhere(t, f, q)

CacheInv(t, f, q, l, c) ==
  TreeInv(t) /\ ReqsInv(q) /\ LocksInv(t, q, l) /\ RowsShare(t, q) /\ PlacesInv(t, f, q, c)

---------------------------------------------------------------------------
(* Paths and requests.                                                      *)

\* Paths are the sequences of contents up to MaxDepth.
LEMMA PathsAre ==
  ASSUME NEW p
  PROVE  p \in Paths <=> p \in Seq(Keys) /\ Len(p) <= MaxDepth
<1>1. ASSUME p \in Paths PROVE p \in Seq(Keys) /\ Len(p) <= MaxDepth
  <2>1. PICK d \in 0..MaxDepth : p \in [1..d -> Keys]
    BY <1>1 DEF Paths
  <2>2. d \in Nat /\ d <= MaxDepth
    BY <2>1, DepthAssumption
  <2>3. p \in Seq(Keys) /\ Len(p) = d
    BY <2>1, <2>2
  <2> QED BY <2>2, <2>3
<1>2. ASSUME p \in Seq(Keys), Len(p) <= MaxDepth PROVE p \in Paths
  <2>1. Len(p) \in 0..MaxDepth /\ p \in [1..Len(p) -> Keys]
    BY <1>2, DepthAssumption
  <2> QED BY <2>1 DEF Paths
<1> QED BY <1>1, <1>2

\* Prefixes of paths are paths.
LEMMA PathPrefix ==
  ASSUME NEW p \in Paths, NEW s \in Seq(Keys), IsPrefix(s, p)
  PROVE  s \in Paths
<1>1. p \in Seq(Keys) /\ Len(p) <= MaxDepth
  BY PathsAre
<1>2. Len(s) <= Len(p) /\ Len(s) \in Nat /\ Len(p) \in Nat
  BY <1>1, PrefixOrder
<1>3. Len(s) <= MaxDepth
  BY <1>1, <1>2, DepthAssumption
<1> QED BY <1>3, PathsAre

\* The parts of a request.
LEMMA RowParts ==
  ASSUME NEW q, ReqsInv(q), NEW r \in Requests
  PROVE  /\ q[r].state \in {"idle", "matched", "running"}
         /\ q[r].key \in Paths /\ q[r].key \in Seq(Keys) /\ Len(q[r].key) \in Nat
         /\ q[r].node \in Paths /\ q[r].node \in Seq(Keys) /\ Len(q[r].node) \in Nat
         /\ q[r].kv \in Seq(Pages) /\ Len(q[r].kv) \in Nat
         /\ IsPrefix(q[r].node, q[r].key) /\ Len(q[r].node) <= Len(q[r].key)
<1>1. q[r] \in Rows /\ IsPrefix(q[r].node, q[r].key)
  BY DEF ReqsInv, RowIs
<1>2. /\ q[r].state \in {"idle", "matched", "running"}
      /\ q[r].key \in Paths /\ q[r].node \in Paths /\ q[r].kv \in Seq(Pages)
  BY <1>1 DEF Rows
<1>3. q[r].key \in Seq(Keys) /\ q[r].node \in Seq(Keys)
  BY <1>2, PathsAre
<1> QED BY <1>1, <1>2, <1>3, PrefixOrder, Elements

---------------------------------------------------------------------------
(* Locks.                                                                   *)

\* The requests and the matches on a path can be counted.
LEMMA OnFinite ==
  ASSUME NEW q, NEW l \in Seq(Paths), NEW p
  PROVE  /\ IsFiniteSet(On(q, p)) /\ Cardinality(On(q, p)) \in Nat
         /\ IsFiniteSet(Left(l, p)) /\ Cardinality(Left(l, p)) \in Nat
         /\ LocksOn(q, l, p) \in Nat /\ (LocksOn(q, l, p) = 0 <=> Unheld(q, l, p))
         /\ LocksOn(q, l, p) <= Cardinality(Requests) + Len(l)
<1>1. IsFiniteSet(Requests) /\ On(q, p) \in SUBSET Requests
  BY DepthAssumption DEF On
<1>2. /\ IsFiniteSet(On(q, p)) /\ Cardinality(On(q, p)) \in Nat /\ Cardinality(Requests) \in Nat
      /\ Cardinality(On(q, p)) <= Cardinality(Requests)
  BY <1>1, FS_Subset, FS_CardinalityType
<1>3. Len(l) \in Nat /\ DOMAIN l = 1..Len(l)
  OBVIOUS
<1>4. IsFiniteSet(1..Len(l)) /\ Cardinality(1..Len(l)) = Len(l)
  <2>1. PICK n : n = Len(l)
    OBVIOUS
  <2>2. n \in Int /\ 1 \in Int /\ n >= 0
    BY ONLY <2>1, <1>3
  <2>3. IsFiniteSet(1..n) /\ Cardinality(1..n) = IF 1 > n THEN 0 ELSE n - 1 + 1
    BY ONLY <2>2, FS_Interval
  <2>4. Cardinality(1..n) = n
    BY ONLY <2>2, <2>3
  <2> QED BY ONLY <2>1, <2>3, <2>4
<1>5. Left(l, p) \in SUBSET (1..Len(l))
  BY <1>3 DEF Left
<1>6. /\ IsFiniteSet(Left(l, p)) /\ Cardinality(Left(l, p)) \in Nat
      /\ Cardinality(Left(l, p)) <= Len(l)
  BY ONLY <1>4, <1>5, FS_Subset, FS_CardinalityType
<1>7. (Cardinality(On(q, p)) = 0 <=> On(q, p) = {}) /\ (Cardinality(Left(l, p)) = 0 <=> Left(l, p) = {})
  BY ONLY <1>2, <1>6, FS_EmptySet
<1>8. PICK x : x = Cardinality(On(q, p))
  OBVIOUS
<1>9. PICK y : y = Cardinality(Left(l, p))
  OBVIOUS
<1>10. x \in Nat /\ y \in Nat /\ x <= Cardinality(Requests) /\ y <= Len(l) /\ LocksOn(q, l, p) = x + y
  BY ONLY <1>2, <1>6, <1>8, <1>9 DEF LocksOn
<1>11. LocksOn(q, l, p) = 0 <=> Unheld(q, l, p)
  <2>1. LocksOn(q, l, p) = 0 <=> x = 0 /\ y = 0
    BY ONLY <1>10
  <2>2. Unheld(q, l, p) <=> x = 0 /\ y = 0
    BY ONLY <1>7, <1>8, <1>9 DEF Unheld
  <2> QED BY ONLY <2>1, <2>2
<1>12. LocksOn(q, l, p) \in Nat /\ LocksOn(q, l, p) <= Cardinality(Requests) + Len(l)
  BY ONLY <1>2, <1>3, <1>10
<1> QED BY ONLY <1>2, <1>6, <1>11, <1>12

\* Who holds a path holds the node it ends in.
LEMMA OnAt ==
  ASSUME NEW t, TreeInv(t), NEW q, ReqsInv(q), NEW l, StandsIn(t, q, l), NEW p \in Known(t)
  PROVE  /\ On(q, At(t, p)) = On(q, p) /\ Left(l, At(t, p)) = Left(l, p)
         /\ Counted(t, q, l) => t.lock[At(t, p)] = LocksOn(q, l, p)
<1>1. Nodes(t) \in SUBSET (Seq(Keys) \ {<< >>}) /\ Meets(Keys, Nodes(t))
  BY DEF TreeInv, IsTree
<1> DEFINE n == At(t, p)
<1>2. /\ p \in Seq(Keys) /\ p # << >> /\ n \in Nodes(t) /\ IsPrefix(p, n)
      /\ \A m \in Nodes(t) : IsPrefix(p, m) => IsPrefix(n, m)
  BY <1>1, AtIs
<1> HIDE DEF n
<1>3. ASSUME NEW x \in Nodes(t) \cup {<< >>} PROVE IsPrefix(n, x) <=> IsPrefix(p, x)
  <2>1. x \in Seq(Keys) /\ n \in Seq(Keys)
    BY <1>1, <1>2, EmptySeq
  <2>2. IsPrefix(n, x) => IsPrefix(p, x)
    BY <2>1, <1>2, PrefixTrans
  <2>3. ASSUME IsPrefix(p, x) PROVE IsPrefix(n, x)
    <3>1. x # << >>
      BY <2>3, <1>2, PrefixEmpty
    <3> QED BY <3>1, <2>3, <1>2
  <2> QED BY <2>2, <2>3
<1>4. On(q, n) = On(q, p) /\ Left(l, n) = Left(l, p)
  BY <1>3 DEF On, Left, StandsIn
<1>5. Counted(t, q, l) => t.lock[n] = LocksOn(q, l, p)
  BY <1>2, <1>4 DEF Counted, LocksOn
<1> QED BY <1>4, <1>5 DEF n

\* The walk of a lookup or an insert: the part a split cuts off is held by the same.
LEMMA WalkLocks ==
  ASSUME NEW t, TreeInv(t), NEW q, ReqsInv(q), NEW l, LocksInv(t, q, l), NEW s, NEW w,
         Walked(Keys, t, s, w)
  PROVE  LocksInv(w, q, l)
<1>1. /\ IsTree(Keys, w) /\ Nodes(w) = Nodes(t) \cup ({s} \ {<< >>}) /\ Known(w) = Known(t)
      /\ \A m \in Nodes(w) : w.lock[m] = t.lock[At(t, m)]
      /\ w.evictable = t.evictable /\ w.protected = t.protected
  BY DEF Walked
<1>2. StandsIn(w, q, l)
  BY <1>1 DEF LocksInv, StandsIn
<1>3. \A m \in Nodes(w) : m \in Known(t)
  BY <1>1, AtNode
<1>4. Counted(w, q, l)
  <2>1. StandsIn(t, q, l) /\ Counted(t, q, l)
    BY DEF LocksInv
  <2>2. \A m \in Nodes(w) : t.lock[At(t, m)] = LocksOn(q, l, m)
    BY <2>1, <1>3, OnAt
  <2> QED BY <2>2, <1>1 DEF Counted
<1>5. Sized(w, q, l)
  BY <1>1 DEF LocksInv, Sized, Pinned
<1> QED BY <1>2, <1>4, <1>5 DEF LocksInv

\* Two sets of which one is in the other.
LEMMA CountRest ==
  ASSUME NEW A, IsFiniteSet(A), NEW B \in SUBSET A
  PROVE  /\ IsFiniteSet(B) /\ Cardinality(A) \in Nat /\ Cardinality(B) \in Nat
         /\ IsFiniteSet(A \ B) /\ Cardinality(A \ B) = Cardinality(A) - Cardinality(B)
<1>1. IsFiniteSet(B)
  BY FS_Subset
<1>2. IsFiniteSet(A \ B) /\ Cardinality(A \ B) = Cardinality(A) - Cardinality(A \cap B)
  BY FS_Difference
<1>3. A \cap B = B
  OBVIOUS
<1> QED BY <1>1, <1>2, <1>3, FS_CardinalityType

\* Requests b are a, with r standing on n instead of nowhere.
Stood(a, b, r, n) ==
  /\ a[r].node = << >> /\ b[r].node = n
  /\ \A s \in Requests : s # r => b[s].node = a[s].node

\* The paths that only r holds.
OnlyBy(t, a, l, n) == {p \in Known(t) : IsPrefix(p, n) /\ Unheld(a, l, p)}

\* The locks and the sizes that makes.
Weighed(t, a, b, l, n) ==
  /\ \A p \in Known(t) :
       LocksOn(b, l, p) = IF IsPrefix(p, n) THEN LocksOn(a, l, p) + 1
                               ELSE LocksOn(a, l, p)
  /\ Pinned(t, b, l) = Pinned(t, a, l) \cup OnlyBy(t, a, l, n)
  /\ Pinned(t, a, l) \cap OnlyBy(t, a, l, n) = {}
  /\ Cardinality(Pinned(t, b, l)) = Cardinality(Pinned(t, a, l)) + Cardinality(OnlyBy(t, a, l, n))
  /\ Cardinality(Known(t) \ Pinned(t, b, l)) =
       Cardinality(Known(t) \ Pinned(t, a, l)) - Cardinality(OnlyBy(t, a, l, n))
  /\ Cardinality(OnlyBy(t, a, l, n)) \in Nat /\ Cardinality(Pinned(t, a, l)) \in Nat
  /\ Cardinality(Known(t) \ Pinned(t, a, l)) \in Nat

\* When r moves from the root to node n, it is counted on the paths along n.
LEMMA StoodIs ==
  ASSUME NEW a, NEW b, NEW l \in Seq(Paths), NEW r \in Requests, NEW n \in Seq(Keys),
         Stood(a, b, r, n), NEW t, IsTree(Keys, t)
  PROVE  Weighed(t, a, b, l, n)
<1>1. Nodes(t) \in SUBSET (Seq(Keys) \ {<< >>})
  BY DEF IsTree
<1>2. \A p \in Known(t) : p \in Seq(Keys) /\ p # << >>
  BY <1>1, KnownIs
<1>3. ASSUME NEW p \in Known(t)
      PROVE  /\ IsPrefix(p, n) => On(b, p) = On(a, p) \cup {r}
             /\ ~ IsPrefix(p, n) => On(b, p) = On(a, p)
             /\ r \notin On(a, p)
  <2>1. ~ IsPrefix(p, << >>)
    BY <1>2, PrefixEmpty
  <2> QED BY <2>1 DEF On, Stood
<1>4. ASSUME NEW p \in Known(t)
      PROVE  LocksOn(b, l, p) = IF IsPrefix(p, n) THEN LocksOn(a, l, p) + 1
                                     ELSE LocksOn(a, l, p)
  <2>1. IsFiniteSet(On(a, p))
    BY OnFinite
  <2>2. Cardinality(On(a, p) \cup {r}) = Cardinality(On(a, p)) + 1
    BY <2>1, <1>3, FS_AddElement
  <2>3. Cardinality(On(a, p)) \in Nat /\ Cardinality(Left(l, p)) \in Nat
    BY OnFinite
  <2>4. CASE IsPrefix(p, n)
    <3>1. On(b, p) = On(a, p) \cup {r}
      BY ONLY <2>4, <1>3
    <3>2. Cardinality(On(b, p)) + Cardinality(Left(l, p))
            = Cardinality(On(a, p)) + Cardinality(Left(l, p)) + 1
      BY ONLY <3>1, <2>2, <2>3
    <3> QED BY ONLY <3>2, <2>4 DEF LocksOn
  <2>5. CASE ~ IsPrefix(p, n)
    BY ONLY <2>5, <1>3 DEF LocksOn
  <2> QED BY ONLY <2>4, <2>5
<1> DEFINE A == Pinned(t, a, l)
           B == Pinned(t, b, l)
           O == OnlyBy(t, a, l, n)
           U == Known(t)
<1>5. B = A \cup O
  BY <1>3 DEF Pinned, OnlyBy, Unheld
<1>6. A \cap O = {}
  BY DEF Pinned, OnlyBy
<1>7. IsFiniteSet(U) /\ A \in SUBSET U /\ O \in SUBSET (U \ A)
  BY <1>6, KnownFinite DEF Pinned, OnlyBy
<1> HIDE DEF A, B, O, U
<1>8. /\ IsFiniteSet(A) /\ Cardinality(A) \in Nat /\ Cardinality(U) \in Nat
      /\ IsFiniteSet(U \ A) /\ Cardinality(U \ A) = Cardinality(U) - Cardinality(A)
  BY <1>7, CountRest
<1>9. /\ IsFiniteSet(O) /\ Cardinality(O) \in Nat /\ Cardinality(U \ A) \in Nat
      /\ Cardinality((U \ A) \ O) = Cardinality(U \ A) - Cardinality(O)
  <2> DEFINE R == U \ A
  <2>1. IsFiniteSet(R) /\ O \in SUBSET R
    BY <1>7, <1>8
  <2> HIDE DEF R
  <2>2. /\ IsFiniteSet(O) /\ Cardinality(O) \in Nat /\ Cardinality(R) \in Nat
        /\ Cardinality(R \ O) = Cardinality(R) - Cardinality(O)
    BY <2>1, CountRest
  <2> QED BY <2>2 DEF R
<1>10. U \ B = (U \ A) \ O
  BY <1>5
<1>11. Cardinality(B) = Cardinality(A) + Cardinality(O)
  <2>1. Cardinality(A \cup O) = Cardinality(A) + Cardinality(O) - Cardinality(A \cap O)
    BY <1>8, <1>9, FS_Union
  <2>2. Cardinality(A \cap O) = 0
    BY <1>6, FS_EmptySet
  <2> QED BY <2>1, <2>2, <1>5, <1>8, <1>9
<1> QED BY <1>4, <1>5, <1>6, <1>8, <1>9, <1>10, <1>11 DEF A, B, O, U, Weighed

\* inc_lock_ref for the request that has just matched.
LEMMA LockIs ==
  ASSUME NEW t, TreeInv(t), NEW a, ReqsInv(a), NEW l, LocksInv(t, a, l), NEW b, NEW r \in Requests,
         NEW n \in Nodes(t) \cup {<< >>}, Stood(a, b, r, n),
         NEW u, Relocked(Keys, t, n, 1, Cardinality(Along(t, n, 0)), u)
  PROVE  LocksInv(u, b, l)
<1>1. /\ IsTree(Keys, u) /\ Nodes(u) = Nodes(t) /\ Known(u) = Known(t)
      /\ \A m \in Nodes(t) : u.lock[m] = (IF IsPrefix(m, n) THEN t.lock[m] + 1 ELSE t.lock[m])
      /\ u.evictable = t.evictable - Cardinality(Along(t, n, 0))
      /\ u.protected = t.protected + Cardinality(Along(t, n, 0))
  BY DEF Relocked
<1>2. /\ IsTree(Keys, t) /\ StandsIn(t, a, l) /\ Counted(t, a, l) /\ Sized(t, a, l)
      /\ Nodes(t) \in SUBSET (Seq(Keys) \ {<< >>})
  BY DEF TreeInv, IsTree, LocksInv
<1>20. l \in Seq(Paths)
  BY <1>2 DEF StandsIn
<1>3. n \in Seq(Keys)
  BY <1>2, EmptySeq
<1>10. IsTree(Keys, t)
  BY <1>2
<1>4. Along(t, n, 0) = OnlyBy(t, a, l, n)
  <2>1. \A p \in Known(t) : t.lock[At(t, p)] = LocksOn(a, l, p)
    BY <1>2, OnAt
  <2>2. \A p \in Known(t) : t.lock[At(t, p)] = 0 <=> Unheld(a, l, p)
    BY <2>1, <1>20, OnFinite
  <2> QED BY <2>2 DEF Along, OnlyBy
<1>5. /\ \A p \in Known(t) :
            LocksOn(b, l, p) = IF IsPrefix(p, n) THEN LocksOn(a, l, p) + 1
                                    ELSE LocksOn(a, l, p)
      /\ Cardinality(Pinned(t, b, l)) = Cardinality(Pinned(t, a, l)) + Cardinality(OnlyBy(t, a, l, n))
      /\ Cardinality(Known(t) \ Pinned(t, b, l)) =
           Cardinality(Known(t) \ Pinned(t, a, l)) - Cardinality(OnlyBy(t, a, l, n))
  <2>1. Weighed(t, a, b, l, n)
    BY <1>3, <1>10, <1>20, StoodIs
  <2> QED BY <2>1 DEF Weighed
<1>6. StandsIn(u, b, l)
  BY <1>1, <1>2 DEF StandsIn, Stood
<1>7. Counted(u, b, l)
  <2>1. \A m \in Nodes(t) : m \in Known(t)
    BY <1>2, AtNode
  <2>2. \A m \in Nodes(t) : t.lock[m] = LocksOn(a, l, m)
    BY <1>2 DEF Counted
  <2> QED BY <2>1, <2>2, <1>1, <1>5 DEF Counted
<1>8. Pinned(u, b, l) = Pinned(t, b, l)
  BY <1>1 DEF Pinned
<1>9. Sized(u, b, l)
  BY <1>1, <1>2, <1>4, <1>5, <1>8 DEF Sized
<1> QED BY <1>6, <1>7, <1>9 DEF LocksInv

\* dec_lock_ref for the request that leaves.
LEMMA UnlockIs ==
  ASSUME NEW t, TreeInv(t), NEW a, ReqsInv(a), NEW l, LocksInv(t, a, l), NEW b, NEW r \in Requests,
         NEW n, n = a[r].node, Stood(b, a, r, n)
  PROVE  /\ LocksInv(DecLock(t, n), b, l)
         /\ Relocked(Keys, t, n, 0 - 1, 0 - Cardinality(Along(t, n, 1)), DecLock(t, n))
<1> DEFINE u == DecLock(t, n)
           x == Cardinality(Along(t, n, 1))
<1>2. /\ IsTree(Keys, t) /\ StandsIn(t, a, l) /\ Counted(t, a, l) /\ Sized(t, a, l)
      /\ Nodes(t) \in SUBSET (Seq(Keys) \ {<< >>})
  BY DEF TreeInv, IsTree, LocksInv
<1>20. l \in Seq(Paths)
  BY <1>2 DEF StandsIn
<1>14. n \in Nodes(t) \cup {<< >>}
  BY <1>2 DEF StandsIn
<1>3. n \in Seq(Keys)
  BY <1>2, <1>14, EmptySeq
<1>15. IsTree(Keys, t)
  BY <1>2
<1>10. \A m \in Nodes(t) : m \in Known(t)
  BY <1>2, AtNode
<1>5. /\ \A p \in Known(t) :
            LocksOn(a, l, p) = IF IsPrefix(p, n) THEN LocksOn(b, l, p) + 1
                                    ELSE LocksOn(b, l, p)
      /\ Cardinality(Pinned(t, a, l)) = Cardinality(Pinned(t, b, l)) + Cardinality(OnlyBy(t, b, l, n))
      /\ Cardinality(Known(t) \ Pinned(t, a, l)) =
           Cardinality(Known(t) \ Pinned(t, b, l)) - Cardinality(OnlyBy(t, b, l, n))
      /\ Cardinality(OnlyBy(t, b, l, n)) \in Nat /\ Cardinality(Pinned(t, b, l)) \in Nat
      /\ Cardinality(Known(t) \ Pinned(t, b, l)) \in Nat
  <2>1. Weighed(t, b, a, l, n)
    BY <1>3, <1>15, <1>20, StoodIs
  <2> QED BY <2>1 DEF Weighed
<1>11. \A m \in Nodes(t) : t.lock[m] = LocksOn(a, l, m)
  BY <1>2 DEF Counted
<1>12. \A m \in Nodes(t) : IsPrefix(m, n) => t.lock[m] >= 1
  BY <1>5, <1>10, <1>11, <1>20, OnFinite
<1>13. Relocked(Keys, t, n, 0 - 1, 0 - x, u)
  BY <1>14, <1>15, <1>12, DecLockIs
<1> HIDE DEF u
<1>1. /\ IsTree(Keys, u) /\ Nodes(u) = Nodes(t) /\ Known(u) = Known(t)
      /\ \A m \in Nodes(t) : u.lock[m] = (IF IsPrefix(m, n) THEN t.lock[m] + (0 - 1) ELSE t.lock[m])
      /\ u.evictable = t.evictable - (0 - x)
      /\ u.protected = t.protected + (0 - x)
  BY <1>13 DEF Relocked
<1>4. Along(t, n, 1) = OnlyBy(t, b, l, n)
  <2>1. \A p \in Known(t) : t.lock[At(t, p)] = LocksOn(a, l, p)
    BY <1>2, OnAt
  <2>2. ASSUME NEW p \in Known(t), IsPrefix(p, n)
        PROVE  t.lock[At(t, p)] = 1 <=> Unheld(b, l, p)
    <3>1. t.lock[At(t, p)] = LocksOn(b, l, p) + 1
      BY <2>1, <2>2, <1>5
    <3> QED BY <3>1, <1>20, OnFinite
  <2> QED BY <2>2 DEF Along, OnlyBy
<1>6. StandsIn(u, b, l)
  BY <1>1, <1>2 DEF StandsIn, Stood
<1>7. Counted(u, b, l)
  <2>1. \A m \in Nodes(t) : LocksOn(b, l, m) \in Nat
    BY <1>20, OnFinite
  <2>2. \A m \in Nodes(t) : u.lock[m] = LocksOn(b, l, m)
    BY <2>1, <1>1, <1>5, <1>10, <1>11
  <2> QED BY <2>2, <1>1 DEF Counted
<1>8. Pinned(u, b, l) = Pinned(t, b, l)
  BY <1>1 DEF Pinned
<1>9. Sized(u, b, l)
  BY <1>1, <1>2, <1>4, <1>5, <1>8 DEF Sized
<1> QED BY <1>6, <1>7, <1>9, <1>13 DEF LocksInv, u

\* The prefixes of a key longer than a.
Beyond(K, key, a) == {p \in Seq(K) : IsPrefix(p, key) /\ a < Len(p)}

\* The paths along key that are longer than a are as many as the pages of the rest.
LEMMA BeyondIs ==
  ASSUME NEW K, NEW key \in Seq(K), NEW a \in 0..Len(key)
  PROVE  IsFiniteSet(Beyond(K, key, a)) /\ Cardinality(Beyond(K, key, a)) = Len(key) - a
<1> DEFINE S == (a + 1)..Len(key)
           T == Beyond(K, key, a)
           f == [l \in S |-> SubSeq(key, 1, l)]
<1>1. Len(key) \in Nat /\ a \in Nat /\ a <= Len(key)
  BY Elements
<1>2. IsFiniteSet(S) /\ Cardinality(S) = Len(key) - a
  <2> DEFINE k == Len(key)
             j == a + 1
  <2>1. k \in Int /\ j \in Int /\ j <= k + 1
    BY <1>1
  <2>2. k - j + 1 = k - a
    BY <1>1
  <2> HIDE DEF k, j
  <2>3. IsFiniteSet(j..k) /\ Cardinality(j..k) = IF j > k THEN 0 ELSE k - j + 1
    BY <2>1, FS_Interval
  <2>4. Cardinality(j..k) = k - j + 1
    BY <2>1, <2>3
  <2> QED BY <2>2, <2>3, <2>4 DEF j, k
<1>3. ASSUME NEW l \in S PROVE f[l] \in T /\ Len(f[l]) = l
  <2>1. f[l] = SubSeq(key, 1, l) /\ l \in 0..Len(key)
    BY <1>1
  <2> HIDE DEF f, S, T
  <2>2. f[l] \in Seq(K) /\ Len(f[l]) = l /\ IsPrefix(f[l], key)
    <3>1. PICK p : p = SubSeq(key, 1, l)
      OBVIOUS
    <3>2. l \in 0..Len(key)
      BY <2>1
    <3>3. p \in Seq(K) /\ Len(p) = l /\ IsPrefix(p, key)
      BY <3>1, <3>2, CutIs
    <3> QED BY <3>1, <3>3, <2>1
  <2> QED BY <2>2, <1>1 DEF Beyond, S, T
<1>4. ASSUME NEW p \in T PROVE \E l \in S : f[l] = p
  <2>1. p \in Seq(K) /\ IsPrefix(p, key) /\ a < Len(p)
    BY DEF Beyond
  <2>2. Len(p) \in Nat /\ Len(p) <= Len(key)
    BY <2>1, PrefixOrder
  <2>3. Len(p) \in S /\ Len(p) \in 0..Len(key)
    BY <2>1, <2>2, <1>1
  <2>4. PICK l, q : l = Len(p) /\ q = SubSeq(key, 1, l)
    OBVIOUS
  <2>5. l \in 0..Len(key) /\ key \in Seq(K)
    BY ONLY <2>3, <2>4, key \in Seq(K)
  <2>6. \A x \in Seq(K) : IsPrefix(x, key) /\ Len(x) = l => x = q
    BY ONLY <2>4, <2>5, CutIs
  <2>7. p = q
    BY ONLY <2>1, <2>4, <2>6
  <2> QED BY <2>3, <2>4, <2>7
<1>5. f \in [S -> T]
  <2>1. f = [l \in S |-> f[l]]
    OBVIOUS
  <2> HIDE DEF f, S, T
  <2> QED BY <2>1, <1>3
<1> HIDE DEF f, S, T
<1>6. IsFiniteSet(T) /\ Cardinality(T) = Cardinality(S)
  <2>1. \A x, y \in S : f[x] = f[y] => x = y
    BY <1>3
  <2> QED BY <2>1, <1>2, <1>4, <1>5, ImageCount
<1> QED BY <1>2, <1>6 DEF T

\* The new paths of an insert: nobody stands there, and their pages can be evicted.
LEMMA InsertLocks ==
  ASSUME NEW t, TreeInv(t), NEW q, ReqsInv(q), NEW l, LocksInv(t, q, l), NEW key \in Seq(Keys), NEW value,
         NEW u, Inserted(Keys, t, key, value, u)
  PROVE  LocksInv(u, q, l)
<1>1. /\ IsTree(Keys, u) /\ Nodes(t) \subseteq Nodes(u)
      /\ \A p : p \in Known(u) <=> p \in Known(t) \/ (p \in Seq(Keys) \ {<< >>} /\ IsPrefix(p, key))
      /\ \A m \in Nodes(u) : u.lock[m] = (IF m \in Known(t) THEN t.lock[At(t, m)] ELSE 0)
      /\ u.evictable = t.evictable + (Len(key) - Len(Matched(t, key)))
      /\ u.protected = t.protected
  BY DEF Inserted
<1>2. /\ IsTree(Keys, t) /\ StandsIn(t, q, l) /\ Counted(t, q, l) /\ Sized(t, q, l)
      /\ Nodes(t) \in SUBSET (Seq(Keys) \ {<< >>})
  BY DEF TreeInv, IsTree, LocksInv
<1>20. l \in Seq(Paths)
  BY <1>2 DEF StandsIn
<1>3. StandsIn(u, q, l)
  BY <1>1, <1>2 DEF StandsIn
<1>4. ASSUME NEW p \in Seq(Keys) \ {<< >>}, p \notin Known(t) PROVE Unheld(q, l, p)
  <2>1. ASSUME NEW x \in Nodes(t) \cup {<< >>}, IsPrefix(p, x) PROVE FALSE
    <3>1. x # << >>
      BY <2>1, PrefixEmpty
    <3>2. x \in Nodes(t)
      BY <3>1
    <3> QED BY <3>2, <2>1, <1>2, <1>4, KnownIs
  <2> QED BY <2>1, <1>2 DEF On, Left, Unheld, StandsIn
<1>5. Counted(u, q, l)
  <2>1. \A m \in Nodes(u) : m \in Known(u) /\ m \in Seq(Keys) \ {<< >>}
    BY <1>1, AtNode DEF IsTree
  <2>2. \A m \in Known(t) : t.lock[At(t, m)] = LocksOn(q, l, m)
    BY <1>2, OnAt
  <2>3. \A m \in Seq(Keys) \ {<< >>} : m \notin Known(t) => LocksOn(q, l, m) = 0
    BY <1>4, <1>20, OnFinite
  <2> QED BY <2>1, <2>2, <2>3, <1>1 DEF Counted
<1>6. Pinned(u, q, l) = Pinned(t, q, l)
  BY <1>1, <1>4 DEF Pinned
<1> DEFINE s == Matched(t, key)
           O == Beyond(Keys, key, Len(s))
<1>7. /\ s \in Seq(Keys) /\ IsPrefix(s, key) /\ s \in Known(t) \cup {<< >>}
      /\ \A p \in Known(t) : IsPrefix(p, key) => IsPrefix(p, s)
  BY <1>2, MatchedIs
<1> HIDE DEF s
<1>8. Len(s) \in Nat /\ Len(key) \in Nat /\ Len(s) <= Len(key)
  BY <1>7, PrefixOrder
<1>9. IsFiniteSet(O) /\ Cardinality(O) = Len(key) - Len(s)
  <2> DEFINE a == Len(s)
  <2>1. a \in 0..Len(key)
    BY <1>8
  <2> HIDE DEF a
  <2> QED BY <2>1, BeyondIs DEF a
<1>10. ASSUME NEW p \in Seq(Keys) \ {<< >>}, IsPrefix(p, key)
       PROVE  p \in Known(t) <=> ~ (Len(s) < Len(p))
  <2>1. Len(p) \in Nat
    BY PrefixOrder
  <2>2. p \in Known(t) => Len(p) <= Len(s)
    BY <1>7, <1>10, PrefixOrder
  <2>3. ASSUME Len(p) <= Len(s) PROVE p \in Known(t)
    <3>1. IsPrefix(p, s)
      BY <2>3, <1>7, <1>10, PrefixChain
    <3>2. s # << >>
      BY <3>1, PrefixEmpty
    <3> QED BY <3>1, <3>2, <1>2, <1>7, KnownPrefix
  <2> QED BY <2>1, <2>2, <2>3, <1>8
<1>11. Known(u) \ Known(t) = O
  <2>1. \A p \in O : p # << >>
    BY <1>8, EmptySeq DEF Beyond
  <2> QED BY <2>1, <1>1, <1>10 DEF Beyond
<1>12. Cardinality(Known(u) \ Pinned(u, q, l)) = Cardinality(Known(t) \ Pinned(t, q, l)) + Cardinality(O)
  <2> DEFINE A == Known(t) \ Pinned(t, q, l)
             B == Known(u) \ Pinned(u, q, l)
  <2>1. Pinned(t, q, l) \subseteq Known(t) /\ Known(t) \subseteq Known(u) /\ IsFiniteSet(Known(t))
    BY <1>1, <1>2, KnownFinite DEF Pinned
  <2>2. B = A \cup O /\ A \cap O = {}
    BY <2>1, <1>6, <1>11
  <2>3. IsFiniteSet(A)
    BY <2>1, FS_Difference
  <2> HIDE DEF A, B, O
  <2>4. Cardinality(A \cup O) = Cardinality(A) + Cardinality(O) - Cardinality(A \cap O)
    BY <2>3, <1>9, FS_Union
  <2>5. Cardinality(A \cap O) = 0 /\ Cardinality(A) \in Nat /\ Cardinality(O) \in Nat
    BY <2>2, <2>3, <1>9, FS_EmptySet, FS_CardinalityType
  <2>6. Cardinality(B) = Cardinality(A) + Cardinality(O)
    BY <2>2, <2>4, <2>5
  <2> QED BY <2>6 DEF A, B
<1>13. Sized(u, q, l)
  BY <1>1, <1>2, <1>6, <1>9, <1>12 DEF Sized, s
<1> QED BY <1>3, <1>5, <1>13 DEF LocksInv

\* What eviction forgets, nobody held.
LEMMA EvictLocks ==
  ASSUME NEW t, TreeInv(t), NEW q, ReqsInv(q), NEW l, LocksInv(t, q, l), NEW f,
         NEW e, Evicted(Keys, Itself, t, f, e)
  PROVE  /\ LocksInv(e.tree, q, l)
         /\ \A p \in Lost(t, e) : Unheld(q, l, p)
         /\ \A p \in Pinned(t, q, l) : p \in Known(e.tree)
<1> DEFINE u == e.tree
<1>1. /\ IsTree(Keys, u) /\ Nodes(u) \subseteq Nodes(t) /\ Known(u) \subseteq Known(t)
      /\ \A m \in Nodes(u) : u.lock[m] = t.lock[m]
      /\ \A m \in Nodes(t) : m \notin Nodes(u) => t.lock[m] = 0
      /\ \A p \in Lost(t, e) : At(t, p) \notin Nodes(u)
      /\ u.evictable = t.evictable - Cardinality(Lost(t, e))
      /\ u.protected = t.protected
  BY DEF Evicted
<1>2. /\ IsTree(Keys, t) /\ StandsIn(t, q, l) /\ Counted(t, q, l) /\ Sized(t, q, l)
      /\ Nodes(t) \in SUBSET (Seq(Keys) \ {<< >>}) /\ Meets(Keys, Nodes(t))
  BY DEF TreeInv, IsTree, LocksInv
<1>20. l \in Seq(Paths)
  BY <1>2 DEF StandsIn
<1>3. Lost(t, e) = Known(t) \ Known(u)
  BY DEF Lost
<1> HIDE DEF u
<1>4. ASSUME NEW p \in Known(t), ~ Unheld(q, l, p) PROVE At(t, p) \in Nodes(u)
  <2>1. At(t, p) \in Nodes(t) /\ t.lock[At(t, p)] = LocksOn(q, l, p)
    BY <1>2, AtIs, OnAt
  <2>2. t.lock[At(t, p)] # 0
    BY <2>1, <1>4, <1>20, OnFinite
  <2> QED BY <2>1, <2>2, <1>1
<1>5. \A p \in Lost(t, e) : Unheld(q, l, p)
  BY <1>1, <1>3, <1>4
<1>6. Pinned(u, q, l) = Pinned(t, q, l)
  BY <1>1, <1>3, <1>5 DEF Pinned
<1>7. StandsIn(u, q, l)
  <2>1. ASSUME NEW n \in Nodes(t), n \in Known(t) /\ At(t, n) = n => ~ Unheld(q, l, n)
        PROVE  n \in Nodes(u)
    <3>1. n \in Known(t) /\ At(t, n) = n
      BY <1>2, AtNode
    <3> QED BY <3>1, <2>1, <1>4
  <2>2. \A n \in Nodes(t) : IsPrefix(n, n)
    BY <1>2, PrefixOrder
  <2>3. ASSUME NEW r \in Requests, q[r].node # << >> PROVE q[r].node \in Nodes(u)
    <3>1. q[r].node \in Nodes(t)
      BY <2>3, <1>2 DEF StandsIn
    <3>2. r \in On(q, q[r].node)
      BY <3>1, <2>2 DEF On
    <3> QED BY <3>1, <3>2, <2>1 DEF Unheld
  <2>4. ASSUME NEW i \in DOMAIN l, l[i] # << >> PROVE l[i] \in Nodes(u)
    <3>1. l[i] \in Nodes(t)
      BY <2>4, <1>2 DEF StandsIn
    <3>2. i \in Left(l, l[i])
      BY <3>1, <2>2 DEF Left
    <3> QED BY <3>1, <3>2, <2>1 DEF Unheld
  <2> QED BY <2>3, <2>4, <1>20 DEF StandsIn
<1>8. Counted(u, q, l)
  BY <1>1, <1>2 DEF Counted
<1>9. Sized(u, q, l)
  <2> DEFINE A == Known(t) \ Pinned(t, q, l)
             B == Known(u) \ Pinned(u, q, l)
             O == Lost(t, e)
  <2>1. B = A \ O /\ O \in SUBSET A
    BY <1>1, <1>3, <1>5, <1>6 DEF Pinned
  <2>2. IsFiniteSet(A)
    BY <1>2, KnownFinite, FS_Difference
  <2> HIDE DEF A, B, O
  <2>3. Cardinality(B) = Cardinality(A) - Cardinality(O)
    BY <2>1, <2>2, CountRest
  <2> QED BY <2>3, <1>1, <1>2, <1>6 DEF Sized, A, B, O
<1> QED BY <1>5, <1>6, <1>7, <1>8, <1>9 DEF LocksInv, u, Pinned

---------------------------------------------------------------------------
(* Pages.                                                                   *)

\* Sets of pages are finite.
LEMMA PagesFinite ==
  ASSUME NEW S \in SUBSET Pages
  PROVE  IsFiniteSet(S) /\ Cardinality(S) \in Nat /\ S \subseteq Int
<1>1. IsFiniteSet(Pages)
  <2> DEFINE n == NumPages
  <2>1. n \in Int /\ 1 \in Int
    BY DepthAssumption
  <2> HIDE DEF n
  <2> QED BY <2>1, FS_Interval DEF Pages, n
<1>2. IsFiniteSet(S)
  BY <1>1, FS_Subset
<1>3. S \subseteq Int
  BY DEF Pages
<1> QED BY <1>2, <1>3, FS_CardinalityType

\* The first n free pages, in order.
LEMMA TakenIs ==
  ASSUME NEW S \in SUBSET Pages, NEW n \in 0..Cardinality(S), NEW new,
         new = FirstFree(S, n)
  PROVE  /\ new \in Seq(Pages) /\ Len(new) = n /\ DOMAIN new = 1..n /\ Range(new) \subseteq S
         /\ \A i \in 1..n : new[i] \in S
         /\ \A i, j \in 1..n : new[i] = new[j] => i = j
<1>1. n \in Nat /\ Cardinality(S) \in Nat
  BY PagesFinite
<1>2. \A i \in 1..n : i - 1 \in 0..(Cardinality(S) - 1)
  BY <1>1
<1>3. DOMAIN new = 1..n /\ \A i \in 1..n : new[i] = NthFree(S, i - 1)
  BY DEF FirstFree
<1>9. IsFiniteSet(S) /\ S \in SUBSET Int
  BY PagesFinite
<1> HIDE DEF NthFree
<1>4. \A i \in 1..n : new[i] \in S /\ Rank(S, new[i]) = i - 1
  BY <1>2, <1>3, <1>9, NthFreeProp
<1>5. \A i, j \in 1..n : new[i] = new[j] => i = j
  <2> TAKE i, j \in 1..n
  <2>1. i \in Int /\ j \in Int
    OBVIOUS
  <2>2. new[i] = new[j] => i - 1 = j - 1
    BY <1>4
  <2> QED BY <2>1, <2>2
<1>6. new \in [1..n -> Pages] /\ DOMAIN new = 1..n
  <2>1. \A i \in 1..n : new[i] \in Pages
    BY <1>4
  <2>2. new = [i \in 1..n |-> new[i]]
    BY DEF FirstFree
  <2> QED BY <2>1, <2>2
<1>7. new \in Seq(Pages) /\ Len(new) = n
  BY <1>1, <1>6
<1>8. Range(new) \subseteq S
  BY <1>4, <1>6 DEF Range
<1> QED BY <1>4, <1>5, <1>6, <1>7, <1>8

\* What is pinned for a request is known, and begins its row.
LEMMA SharedIs ==
  ASSUME NEW t, TreeInv(t), NEW q, ReqsInv(q), NEW l, StandsIn(t, q, l), NEW r \in Requests,
         NEW i \in 1..Len(q[r].node), NEW p, p = Cut(q[r].node, i)
  PROVE  /\ p \in Known(t) /\ Len(p) = i /\ p \in Pinned(t, q, l) /\ IsPrefix(p, q[r].node)
         /\ p \in Seq(Keys) /\ p = Cut(q[r].key, i)
         /\ RowsShare(t, q) => q[r].kv[i] = PageAt(t, p)
<1>0. PICK n : n = q[r].node
  OBVIOUS
<1>11. PICK k : k = q[r].key
  OBVIOUS
<1>1. Nodes(t) \in SUBSET (Seq(Keys) \ {<< >>})
  BY DEF TreeInv, IsTree
<1>2. /\ n \in Seq(Keys) /\ Len(n) \in Nat /\ k \in Seq(Keys) /\ IsPrefix(n, k)
      /\ Len(n) <= Len(k) /\ Len(k) \in Nat
  BY <1>0, <1>11, RowParts
<1>3. i \in 0..Len(n) /\ i \in 0..Len(k) /\ i > 0
  BY <1>0, <1>2
<1>4. p \in Seq(Keys) /\ Len(p) = i /\ IsPrefix(p, n)
  <2>1. p = Cut(n, i)
    BY <1>0
  <2>2. n \in Seq(Keys) /\ i \in 0..Len(n)
    BY <1>2, <1>3
  <2>3. Cut(n, i) \in Seq(Keys) /\ Len(Cut(n, i)) = i /\ IsPrefix(Cut(n, i), n)
    BY <2>2, CutOf
  <2> QED BY <2>1, <2>3
<1>5. p # << >> /\ n # << >>
  BY <1>2, <1>3, <1>4, EmptySeq
<1>6. n \in Nodes(t)
  BY <1>0, <1>5 DEF StandsIn
<1>7. p \in Known(t)
  BY <1>1, <1>4, <1>5, <1>6, KnownIs
<1>8. p \in Pinned(t, q, l)
  BY <1>0, <1>4, <1>7 DEF Pinned, On, Unheld
<1>9. IsPrefix(p, k)
  BY <1>2, <1>4, PrefixTrans
<1>10. p = Cut(k, i)
  <2>1. k \in Seq(Keys) /\ i \in 0..Len(k)
    BY <1>2, <1>3
  <2>2. \A x \in Seq(Keys) : IsPrefix(x, k) /\ Len(x) = i => x = Cut(k, i)
    BY <2>1, CutOf
  <2> QED BY <2>2, <1>4, <1>9
<1>12. RowsShare(t, q) => q[r].kv[i] = PageAt(t, p)
  BY DEF RowsShare
<1> QED BY <1>0, <1>11, <1>4, <1>7, <1>8, <1>10, <1>12

---------------------------------------------------------------------------
(* The steps.                                                               *)

\* What is freed are the pages of the forgotten paths.
LEMMA FreedPages ==
  ASSUME NEW t, NEW f, NEW e, Evicted(Keys, Itself, t, f, e),
         \A p \in Known(t) : PageAt(t, p) \in Pages
  PROVE  e.free = f \cup {PageAt(t, p) : p \in Lost(t, e)}
<1>1. e.free = f \cup UNION {Itself[PageAt(t, p)] : p \in Lost(t, e)}
  BY DEF Evicted
<1>2. \A p \in Lost(t, e) : Itself[PageAt(t, p)] = {PageAt(t, p)}
  BY DEF Lost, Itself
<1>3. \A x : x \in UNION {Itself[PageAt(t, p)] : p \in Lost(t, e)}
              <=> \E p \in Lost(t, e) : x \in Itself[PageAt(t, p)]
  OBVIOUS
<1>4. \A x : x \in UNION {Itself[PageAt(t, p)] : p \in Lost(t, e)}
              <=> x \in {PageAt(t, p) : p \in Lost(t, e)}
  BY <1>2, <1>3
<1> QED BY <1>1, <1>4

\* Eviction: the pages of the forgotten paths are free, with nothing in them.
LEMMA EvictKeeps ==
  ASSUME NEW t, NEW f, NEW q, NEW l, NEW c, CacheInv(t, f, q, l, c), NEW e, Evicted(Keys, Itself, t, f, e),
         NEW d, d = [p \in Pages |-> IF p \in e.free THEN Unset ELSE c[p]]
  PROVE  CacheInv(e.tree, e.free, q, l, d)
<1> DEFINE u == e.tree
           g == e.free
<1>1. /\ TreeInv(t) /\ ReqsInv(q) /\ LocksInv(t, q, l) /\ StandsIn(t, q, l) /\ RowsShare(t, q)
      /\ f \in SUBSET Pages /\ c \in [Pages -> Paths]
      /\ TreePlaces(t, f, c) /\ RowPlaces(t, f, q, c) /\ RowsApart(q) /\ Somewhere(t, f, q)
  BY DEF CacheInv, PlacesInv, LocksInv
<1>2. /\ IsTree(Keys, u) /\ Nodes(u) \subseteq Nodes(t) /\ Known(u) \subseteq Known(t)
      /\ \A p \in Known(u) : PageAt(u, p) = PageAt(t, p)
      /\ g = f \cup {PageAt(t, p) : p \in Lost(t, e)}
  <2>1. \A p \in Known(t) : PageAt(t, p) \in Pages
    BY <1>1 DEF TreePlaces
  <2>2. g = f \cup {PageAt(t, p) : p \in Lost(t, e)}
    BY <2>1, FreedPages
  <2> QED BY <2>2 DEF Evicted
<1>3. Lost(t, e) = Known(t) \ Known(u)
  BY DEF Lost
<1> HIDE DEF u, g
<1>4. TreeInv(u)
  BY <1>1, <1>2 DEF TreeInv
<1>5. LocksInv(u, q, l) /\ \A p \in Pinned(t, q, l) : p \in Known(u)
  BY <1>1, EvictLocks DEF u
<1>6. \A p \in Known(t) : PageAt(t, p) \in Pages /\ PageAt(t, p) \notin f /\ c[PageAt(t, p)] = p
  BY <1>1 DEF TreePlaces
<1>7. g \in SUBSET Pages
  BY <1>1, <1>2, <1>3, <1>6
<1>8. \A x \in Pages : x \notin g => d[x] = c[x]
  BY DEF g
<1>9. d \in [Pages -> Paths]
  <2>1. << >> \in Paths
    <3>1. << >> \in Seq(Keys) /\ Len(<< >>) = 0
      BY EmptySeq
    <3>2. 0 <= MaxDepth
      BY DepthAssumption
    <3> QED BY <3>1, <3>2, PathsAre
  <2>2. \A x \in Pages : (IF x \in e.free THEN Unset ELSE c[x]) \in Paths
    BY <2>1, <1>1 DEF Unset
  <2> QED BY <2>2
<1>10. RowsShare(u, q)
  <2> SUFFICES ASSUME NEW r \in Requests, NEW i \in 1..Len(q[r].node)
               PROVE  q[r].kv[i] = PageAt(u, Cut(q[r].node, i))
    BY DEF RowsShare
  <2>1. PICK p : p = Cut(q[r].node, i)
    OBVIOUS
  <2>2. p \in Pinned(t, q, l) /\ q[r].kv[i] = PageAt(t, p)
    BY <2>1, <1>1, SharedIs
  <2> QED BY <2>1, <2>2, <1>2, <1>5
<1>11. TreePlaces(u, g, d)
  <2> SUFFICES ASSUME NEW p \in Known(u)
               PROVE  PageAt(u, p) \in Pages /\ PageAt(u, p) \notin g /\ d[PageAt(u, p)] = p
    BY DEF TreePlaces
  <2>1. p \in Known(t) /\ PageAt(u, p) = PageAt(t, p) /\ p \notin Lost(t, e)
    BY <1>2, <1>3
  <2>2. \A y \in Lost(t, e) : PageAt(t, y) # PageAt(t, p)
    BY <2>1, <1>3, <1>6
  <2>3. PageAt(t, p) \in Pages /\ PageAt(t, p) \notin g
    BY <2>1, <2>2, <1>2, <1>6
  <2> QED BY <2>1, <2>3, <1>6, <1>8
<1>12. RowPlaces(u, g, q, d)
  <2> SUFFICES ASSUME NEW r \in Requests, NEW i \in Own(q[r])
               PROVE  /\ q[r].kv[i] \in Pages /\ q[r].kv[i] \notin g
                      /\ \A p \in Known(u) : q[r].kv[i] # PageAt(u, p)
                      /\ i <= Len(q[r].key) => d[q[r].kv[i]] = Cut(q[r].key, i)
    BY DEF RowPlaces
  <2>1. /\ q[r].kv[i] \in Pages /\ q[r].kv[i] \notin f
        /\ \A p \in Known(t) : q[r].kv[i] # PageAt(t, p)
        /\ i <= Len(q[r].key) => c[q[r].kv[i]] = Cut(q[r].key, i)
    BY <1>1 DEF RowPlaces
  <2>2. q[r].kv[i] \notin g
    BY <2>1, <1>2, <1>3
  <2> QED BY <2>1, <2>2, <1>2, <1>8
<1>13. Somewhere(u, g, q)
  <2> SUFFICES ASSUME NEW x \in Pages
               PROVE  \/ x \in g
                      \/ \E p \in Known(u) : x = PageAt(u, p)
                      \/ \E r \in Requests : \E i \in Own(q[r]) : x = q[r].kv[i]
    BY DEF Somewhere
  <2>1. \/ x \in f
        \/ \E p \in Known(t) : x = PageAt(t, p)
        \/ \E r \in Requests : \E i \in Own(q[r]) : x = q[r].kv[i]
    BY <1>1 DEF Somewhere
  <2>2. ASSUME NEW p \in Known(t), x = PageAt(t, p)
        PROVE  x \in g \/ \E y \in Known(u) : x = PageAt(u, y)
    <3>1. p \in Known(u) \/ p \in Lost(t, e)
      BY <1>3
    <3> QED BY <3>1, <2>2, <1>2
  <2> QED BY <2>1, <2>2, <1>2
<1>14. CacheInv(u, g, q, l, d)
  BY <1>1, <1>4, <1>5, <1>7, <1>9, <1>10, <1>11, <1>12, <1>13 DEF CacheInv, PlacesInv
<1> QED BY <1>14 DEF u, g

\* Locks do not depend on more than where the requests stand.
LEMMA SameNodes ==
  ASSUME NEW t, NEW q, NEW b, NEW l, \A s \in Requests : b[s].node = q[s].node, LocksInv(t, q, l)
  PROVE  LocksInv(t, b, l)
<1>1. \A p : On(b, p) = On(q, p)
  BY DEF On
<1>2. Pinned(t, b, l) = Pinned(t, q, l)
  BY <1>1 DEF Pinned, Unheld
<1> QED BY <1>1, <1>2 DEF LocksInv, StandsIn, Counted, Sized, LocksOn

\* The row of r gets free pages at its end: what b and d are against q and c.
Fresh(q, b, r) == (Len(q[r].kv) + 1)..Len(b[r].kv)

PagesAdded(q, b, r) == {b[r].kv[i] : i \in Fresh(q, b, r)}

Longer(f, q, c, b, d, r) ==
  /\ ReqsInv(b) /\ b[r].node = q[r].node /\ \A s \in Requests : s # r => b[s] = q[s]
  /\ Len(q[r].node) <= Len(q[r].kv) /\ Len(q[r].kv) <= Len(b[r].kv)
  /\ \A i \in 1..Len(q[r].kv) : b[r].kv[i] = q[r].kv[i]
  /\ \A i \in Fresh(q, b, r) : b[r].kv[i] \in f
  /\ \A i, j \in Fresh(q, b, r) : b[r].kv[i] = b[r].kv[j] => i = j
  /\ d \in [Pages -> Paths]
  /\ \A x \in Pages : (\A i \in Own(b[r]) : x # b[r].kv[i]) => d[x] = c[x]
  /\ \A i \in Own(b[r]) : i <= Len(b[r].key) => d[b[r].kv[i]] = Cut(b[r].key, i)

\* A row that gets longer by pages taken from the free list keeps the invariant.
LEMMA LongerKeeps ==
  ASSUME NEW t, NEW f, NEW q, NEW l, NEW c, CacheInv(t, f, q, l, c), NEW r \in Requests, NEW b, NEW d,
         Longer(f, q, c, b, d, r)
  PROVE  CacheInv(t, f \ PagesAdded(q, b, r), b, l, d)
<1>1. /\ TreeInv(t) /\ ReqsInv(q) /\ LocksInv(t, q, l) /\ StandsIn(t, q, l) /\ RowsShare(t, q)
      /\ f \in SUBSET Pages /\ c \in [Pages -> Paths]
      /\ TreePlaces(t, f, c) /\ RowPlaces(t, f, q, c) /\ RowsApart(q) /\ Somewhere(t, f, q)
  BY DEF CacheInv, PlacesInv, LocksInv
<1>2. /\ ReqsInv(b) /\ b[r].node = q[r].node /\ \A s \in Requests : s # r => b[s] = q[s]
      /\ d \in [Pages -> Paths]
  BY DEF Longer
<1>3. PICK o : o = Len(q[r].node)
  OBVIOUS
<1>4. PICK m : m = Len(q[r].kv)
  OBVIOUS
<1>5. PICK z : z = Len(b[r].kv)
  OBVIOUS
<1>6. PICK row : row = b[r].kv
  OBVIOUS
<1>7. PICK old : old = q[r].kv
  OBVIOUS
<1>8. PICK new : new = PagesAdded(q, b, r)
  OBVIOUS
<1>9. o \in Nat /\ m \in Nat /\ z \in Nat /\ o <= m /\ m <= z
  BY <1>1, <1>2, <1>3, <1>4, <1>5, RowParts DEF Longer
<1>10. Fresh(q, b, r) = (m + 1)..z
  BY <1>4, <1>5 DEF Fresh
<1>11. Own(q[r]) = (o + 1)..m /\ Own(b[r]) = (o + 1)..z
  BY <1>2, <1>3, <1>4, <1>5 DEF Own
<1>12. /\ \A i \in 1..m : row[i] = old[i]
       /\ \A i \in (m + 1)..z : row[i] \in f
       /\ \A i, j \in (m + 1)..z : row[i] = row[j] => i = j
       /\ \A x \in Pages : (\A i \in (o + 1)..z : x # row[i]) => d[x] = c[x]
       /\ \A i \in (o + 1)..z : i <= Len(b[r].key) => d[row[i]] = Cut(b[r].key, i)
  BY <1>4, <1>6, <1>7, <1>10, <1>11 DEF Longer
<1>13. new = {row[i] : i \in (m + 1)..z}
  BY <1>6, <1>8, <1>10 DEF PagesAdded
<1>14. /\ \A i \in (o + 1)..m : old[i] \in Pages /\ old[i] \notin f /\ row[i] = old[i]
       /\ \A i \in (o + 1)..m : \A p \in Known(t) : old[i] # PageAt(t, p)
  <2>1. \A i \in (o + 1)..m : old[i] \in Pages /\ old[i] \notin f
                             /\ \A p \in Known(t) : old[i] # PageAt(t, p)
    BY <1>1, <1>7, <1>11 DEF RowPlaces
  <2>2. \A i \in (o + 1)..m : i \in 1..m
    BY <1>9
  <2> QED BY <2>1, <2>2, <1>12
<1>15. \A i \in (o + 1)..z : i \in (o + 1)..m \/ i \in (m + 1)..z
  BY <1>9
<1>16. \A i \in (m + 1)..z : i \in (o + 1)..z
  BY <1>9
<1>17. \A i \in (o + 1)..m : i \in (o + 1)..z
  BY <1>9
<1>18. new \subseteq f
  BY <1>12, <1>13
<1>19. \A i \in (o + 1)..z : \A p \in Known(t) : row[i] # PageAt(t, p)
  BY <1>1, <1>12, <1>14, <1>15 DEF TreePlaces
<1>20. \A s \in Requests : s # r => Own(b[s]) = Own(q[s])
  BY <1>2
<1>21. ASSUME NEW s \in Requests, s # r, NEW i \in Own(q[s]), NEW j \in (o + 1)..z
       PROVE  q[s].kv[i] # row[j]
  <2>1. CASE j \in (m + 1)..z
    <3>1. q[s].kv[i] \notin f
      BY <1>1, <1>21 DEF RowPlaces
    <3> QED BY <3>1, <2>1, <1>12
  <2>2. CASE j \in (o + 1)..m
    <3>1. j \in Own(q[r]) /\ row[j] = q[r].kv[j]
      BY <2>2, <1>7, <1>11, <1>14
    <3>2. \A x \in Own(q[s]), y \in Own(q[r]) : q[s].kv[x] = q[r].kv[y] => s = r /\ x = y
      BY ONLY <1>1, r \in Requests, s \in Requests DEF RowsApart
    <3> QED BY ONLY <3>1, <3>2, <1>21, i \in Own(q[s])
  <2> QED BY <2>1, <2>2, <1>15
<1>22. LocksInv(t, b, l)
  BY <1>1, <1>2, SameNodes
<1>23. RowsShare(t, b)
  <2> SUFFICES ASSUME NEW s \in Requests, NEW i \in 1..Len(b[s].node)
               PROVE  b[s].kv[i] = PageAt(t, Cut(b[s].node, i))
    BY DEF RowsShare
  <2>1. b[s].node = q[s].node
    BY <1>2
  <2>2. q[s].kv[i] = PageAt(t, Cut(q[s].node, i))
    BY <2>1, <1>1 DEF RowsShare
  <2>3. b[s].kv[i] = q[s].kv[i]
    <3>1. CASE s = r
      <4>1. i \in 1..m
        BY <3>1, <2>1, <1>3, <1>9
      <4> QED BY <4>1, <3>1, <1>6, <1>7, <1>12
    <3> QED BY <3>1, <1>2
  <2> QED BY <2>1, <2>2, <2>3
<1> DEFINE g == f \ new
<1>24. g \in SUBSET Pages
  BY <1>1
<1>25. TreePlaces(t, g, d)
  <2> SUFFICES ASSUME NEW p \in Known(t)
               PROVE  PageAt(t, p) \in Pages /\ PageAt(t, p) \notin g /\ d[PageAt(t, p)] = p
    BY DEF TreePlaces
  <2>1. PageAt(t, p) \in Pages /\ PageAt(t, p) \notin f /\ c[PageAt(t, p)] = p
    BY <1>1 DEF TreePlaces
  <2>2. \A i \in (o + 1)..z : PageAt(t, p) # row[i]
    BY <1>19
  <2>3. d[PageAt(t, p)] = c[PageAt(t, p)]
    BY <2>1, <2>2, <1>12
  <2> QED BY <2>1, <2>3
<1>26. RowPlaces(t, g, b, d)
  <2> SUFFICES ASSUME NEW s \in Requests, NEW i \in Own(b[s])
               PROVE  /\ b[s].kv[i] \in Pages /\ b[s].kv[i] \notin g
                      /\ \A p \in Known(t) : b[s].kv[i] # PageAt(t, p)
                      /\ i <= Len(b[s].key) => d[b[s].kv[i]] = Cut(b[s].key, i)
    BY DEF RowPlaces
  <2>1. CASE s = r
    <3>1. i \in (o + 1)..z /\ b[s].kv[i] = row[i]
      BY <2>1, <1>6, <1>11
    <3>2. row[i] \in Pages /\ row[i] \notin g
      BY <3>1, <1>1, <1>12, <1>13, <1>14, <1>15
    <3>3. i <= Len(b[r].key) => d[row[i]] = Cut(b[r].key, i)
      BY <3>1, <1>12
    <3> QED BY <3>1, <3>2, <3>3, <2>1, <1>19
  <2>2. CASE s # r
    <3>1. i \in Own(q[s]) /\ b[s] = q[s]
      BY <2>2, <1>2
    <3>2. /\ q[s].kv[i] \in Pages /\ q[s].kv[i] \notin f
          /\ \A p \in Known(t) : q[s].kv[i] # PageAt(t, p)
          /\ i <= Len(q[s].key) => c[q[s].kv[i]] = Cut(q[s].key, i)
      BY <3>1, <1>1 DEF RowPlaces
    <3>3. d[q[s].kv[i]] = c[q[s].kv[i]]
      BY <3>1, <3>2, <2>2, <1>12, <1>21
    <3> QED BY <3>1, <3>2, <3>3
  <2> QED BY <2>1, <2>2
<1>27. ASSUME NEW i \in (o + 1)..z, NEW j \in (o + 1)..z, row[i] = row[j] PROVE i = j
  <2>1. CASE i \in (m + 1)..z /\ j \in (m + 1)..z
    BY <2>1, <1>12, <1>27
  <2>2. CASE i \in (o + 1)..m /\ j \in (o + 1)..m
    <3>1. i \in Own(q[r]) /\ j \in Own(q[r]) /\ q[r].kv[i] = q[r].kv[j]
      BY <2>2, <1>7, <1>11, <1>14, <1>27
    <3> QED BY <3>1, <1>1 DEF RowsApart
  <2>3. CASE i \in (o + 1)..m /\ j \in (m + 1)..z
    BY <2>3, <1>12, <1>14, <1>27
  <2>4. CASE i \in (m + 1)..z /\ j \in (o + 1)..m
    BY <2>4, <1>12, <1>14, <1>27
  <2> QED BY <2>1, <2>2, <2>3, <2>4, <1>15
<1>28. RowsApart(b)
  <2> SUFFICES ASSUME NEW s1 \in Requests, NEW s2 \in Requests, NEW i \in Own(b[s1]),
                      NEW j \in Own(b[s2]), b[s1].kv[i] = b[s2].kv[j]
               PROVE  s1 = s2 /\ i = j
    BY DEF RowsApart
  <2>1. CASE s1 = r /\ s2 = r
    BY <2>1, <1>6, <1>11, <1>27
  <2>2. CASE s1 # r /\ s2 = r
    BY <2>2, <1>2, <1>6, <1>11, <1>21
  <2>3. CASE s1 = r /\ s2 # r
    BY <2>3, <1>2, <1>6, <1>11, <1>21
  <2>4. CASE s1 # r /\ s2 # r
    BY <2>4, <1>1, <1>2 DEF RowsApart
  <2> QED BY <2>1, <2>2, <2>3, <2>4
<1>29. Somewhere(t, g, b)
  <2> SUFFICES ASSUME NEW x \in Pages
               PROVE  \/ x \in g
                      \/ \E p \in Known(t) : x = PageAt(t, p)
                      \/ \E s \in Requests : \E i \in Own(b[s]) : x = b[s].kv[i]
    BY DEF Somewhere
  <2>1. \/ x \in f
        \/ \E p \in Known(t) : x = PageAt(t, p)
        \/ \E s \in Requests : \E i \in Own(q[s]) : x = q[s].kv[i]
    BY <1>1 DEF Somewhere
  <2>2. ASSUME x \in new PROVE \E i \in Own(b[r]) : x = b[r].kv[i]
    BY <2>2, <1>6, <1>11, <1>13, <1>16
  <2>3. ASSUME NEW s \in Requests, NEW i \in Own(q[s]), x = q[s].kv[i]
        PROVE  i \in Own(b[s]) /\ x = b[s].kv[i]
    <3>1. CASE s = r
      BY <3>1, <2>3, <1>6, <1>7, <1>11, <1>14, <1>17
    <3> QED BY <3>1, <2>3, <1>2
  <2> QED BY <2>1, <2>2, <2>3
<1>30. CacheInv(t, g, b, l, d)
  BY <1>1, <1>2, <1>22, <1>23, <1>24, <1>25, <1>26, <1>28, <1>29 DEF CacheInv, PlacesInv
<1> QED BY <1>30, <1>8

\* b differs from q in r alone; row goes on from old with free pages; the contents d
\* differ from c in what has been written of k.
Only(q, b, r) == b = [s \in Requests |-> b[s]] /\ \A s \in Requests : s # r => b[s] = q[s]

GoesOn(old, row, f, m, z) ==
  /\ \A i \in 1..m : row[i] = old[i]
  /\ \A i \in (m + 1)..z : row[i] \in f
  /\ \A i, j \in (m + 1)..z : row[i] = row[j] => i = j

Filled(k, row, c, d, m, z) ==
  /\ d \in [Pages -> Paths]
  /\ \A x \in Pages : (\A i \in (m + 1)..z : x # row[i]) => d[x] = c[x]
  /\ \A i \in (m + 1)..z : i < z => d[row[i]] = Cut(k, i)

Tops(row, m, z) == {row[i] : i \in (m + 1)..z}

\* A request whose row is one longer than its key is sound while it runs.
LEMMA RunningIs ==
  ASSUME NEW q, ReqsInv(q), NEW r \in Requests, NEW k \in Paths, IsPrefix(q[r].node, k),
         NEW row \in Seq(Pages), Len(row) = Len(k) + 1, NEW b, Only(q, b, r),
         b[r] = [state |-> "running", key |-> k, node |-> q[r].node, kv |-> row]
  PROVE  /\ ReqsInv(b) /\ b[r].node = q[r].node /\ b[r].key = k /\ b[r].kv = row
         /\ \A s \in Requests : s # r => b[s] = q[s]
<1>1. q \in [Requests -> Rows] /\ q[r].node \in Paths
  BY RowParts DEF ReqsInv
<1> DEFINE x == [state |-> "running", key |-> k, node |-> q[r].node, kv |-> row]
<1>2. /\ x \in Rows /\ x.state = "running" /\ x.key = k /\ x.node = q[r].node /\ x.kv = row
  BY <1>1 DEF Rows
<1>3. RowIs(x)
  BY <1>2 DEF RowIs
<1>4. b[r] = x
  OBVIOUS
<1> HIDE DEF x
<1>5. \A s \in Requests : s # r => b[s] = q[s]
  BY DEF Only
<1>6. \A s \in Requests : b[s] \in Rows /\ RowIs(b[s])
  BY <1>1, <1>2, <1>3, <1>4, <1>5 DEF ReqsInv
<1>7. b \in [Requests -> Rows]
  BY <1>6 DEF Only
<1> QED BY <1>2, <1>4, <1>5, <1>6, <1>7 DEF ReqsInv

\* prepare_for_extend: the row of r gets pages up to the tail.
Prefilled(f, q, c, b, d, r, row, m, z) ==
  /\ q[r].state = "matched" /\ m = Len(q[r].node) /\ z = Len(q[r].key) + 1
  /\ row \in Seq(Pages) /\ Len(row) = z /\ GoesOn(q[r].kv, row, f, m, z)
  /\ ReqsInv(b) /\ b[r].node = q[r].node /\ b[r].key = q[r].key /\ b[r].kv = row
  /\ Only(q, b, r) /\ Filled(q[r].key, row, c, d, m, z)

\* What prefill does to a row makes it longer.
LEMMA PrefillLonger ==
  ASSUME NEW t, NEW f, NEW q, NEW l, NEW c, CacheInv(t, f, q, l, c), NEW r \in Requests,
         NEW b, NEW d, NEW row, NEW m, NEW z, Prefilled(f, q, c, b, d, r, row, m, z)
  PROVE  Longer(f, q, c, b, d, r) /\ PagesAdded(q, b, r) = Tops(row, m, z)
<1>0. /\ \A i \in 1..m : row[i] = q[r].kv[i]
      /\ \A i \in (m + 1)..z : row[i] \in f
      /\ \A i, j \in (m + 1)..z : row[i] = row[j] => i = j
      /\ d \in [Pages -> Paths]
      /\ \A x \in Pages : (\A i \in (m + 1)..z : x # row[i]) => d[x] = c[x]
      /\ \A i \in (m + 1)..z : i < z => d[row[i]] = Cut(q[r].key, i)
      /\ \A s \in Requests : s # r => b[s] = q[s]
      /\ q[r].state = "matched" /\ m = Len(q[r].node) /\ z = Len(q[r].key) + 1
      /\ row \in Seq(Pages) /\ Len(row) = z
      /\ ReqsInv(b) /\ b[r].node = q[r].node /\ b[r].key = q[r].key /\ b[r].kv = row
  BY DEF Prefilled, GoesOn, Filled, Only
<1>1. ReqsInv(q)
  BY DEF CacheInv
<1>2. /\ q[r].key \in Paths /\ q[r].node \in Paths /\ IsPrefix(q[r].node, q[r].key)
      /\ Len(q[r].key) \in Nat /\ m \in Nat /\ m <= Len(q[r].key) /\ Len(q[r].kv) = m
  <2>1. Len(q[r].kv) = Len(q[r].node)
    BY <1>0, <1>1 DEF ReqsInv, RowIs
  <2> QED BY <2>1, <1>0, <1>1, RowParts
<1>3. Fresh(q, b, r) = (m + 1)..z /\ Own(b[r]) = (m + 1)..z
  BY <1>0, <1>2 DEF Fresh, Own
<1>4. m <= z
  BY <1>0, <1>2
<1>5. \A i \in Own(b[r]) : i <= Len(b[r].key) => d[b[r].kv[i]] = Cut(b[r].key, i)
  BY <1>0, <1>2, <1>3
<1>6. PagesAdded(q, b, r) = {row[i] : i \in (m + 1)..z}
  BY <1>0, <1>3 DEF PagesAdded
<1>7. Longer(f, q, c, b, d, r)
  <2>1. \A x \in Pages : (\A i \in Own(b[r]) : x # b[r].kv[i]) => d[x] = c[x]
    BY <1>0, <1>3
  <2>2. /\ \A i \in Fresh(q, b, r) : b[r].kv[i] \in f
        /\ \A i, j \in Fresh(q, b, r) : b[r].kv[i] = b[r].kv[j] => i = j
    BY <1>0, <1>3
  <2>3. /\ Len(q[r].node) <= Len(q[r].kv) /\ Len(q[r].kv) <= Len(b[r].kv)
        /\ \A i \in 1..Len(q[r].kv) : b[r].kv[i] = q[r].kv[i]
    BY <1>0, <1>2, <1>4
  <2> HIDE DEF Own
  <2> QED BY <1>0, <1>5, <2>1, <2>2, <2>3 DEF Longer
<1> QED BY <1>6, <1>7 DEF Tops

\* The row that is joined from a and new.
LEMMA JoinedIs ==
  ASSUME NEW S, NEW a \in Seq(S), NEW new \in Seq(S), NEW row, row = a \o new,
         NEW m, m = Len(a), NEW n, n = Len(new)
  PROVE  /\ row \in Seq(S) /\ m \in Nat /\ n \in Nat /\ Len(row) = m + n
         /\ DOMAIN row = 1..(m + n)
         /\ \A i \in 1..m : row[i] = a[i]
         /\ \A i \in (m + 1)..(m + n) : i - m \in 1..n /\ row[i] = new[i - m]
<1>1. m \in Nat /\ n \in Nat
  OBVIOUS
<1>2. row \in Seq(S) /\ Len(row) = m + n
  OBVIOUS
<1>3. DOMAIN row = 1..(m + n)
  BY <1>2
<1>4. \A i \in 1..m : row[i] = a[i]
  BY <1>1
<1>5. \A i \in (m + 1)..(m + n) : i - m \in 1..n /\ row[i] = new[i - m]
  BY <1>1
<1> QED BY <1>1, <1>2, <1>3, <1>4, <1>5

\* What a prefill writes.
LEMMA WrittenIs ==
  ASSUME NEW k, NEW row, NEW new \in SUBSET Pages, NEW c, NEW i \in DOMAIN row, row[i] \in new,
         \A j \in DOMAIN row : row[j] = row[i] => j = i
  PROVE  Written(k, row, new, c)[row[i]] = IF i = Len(row) THEN Unset ELSE Cut(k, i)
<1>1. row[i] \in Pages
  OBVIOUS
<1>2. (CHOOSE j \in DOMAIN row : row[j] = row[i]) = i
  OBVIOUS
<1> QED BY <1>1, <1>2 DEF Written, Cut

PrefillRow(f, q, c, b, d, r, n, new, row) ==
  /\ q[r].state = "matched" /\ n = Len(q[r].key) + 1 - Len(q[r].node)
  /\ n <= Cardinality(f) /\ new = FirstFree(f, n) /\ row = q[r].kv \o new
  /\ b[r] = [state |-> "running", key |-> q[r].key, node |-> q[r].node, kv |-> row]
  /\ Only(q, b, r) /\ d = Written(q[r].key, row, Range(new), c)

\* prepare_for_extend keeps the invariant once evict is done.
LEMMA PrefillKeeps ==
  ASSUME NEW t, NEW f, NEW q, NEW l, NEW c, CacheInv(t, f, q, l, c), NEW r \in Requests,
         NEW b, NEW d, NEW n, NEW new, NEW row, PrefillRow(f, q, c, b, d, r, n, new, row)
  PROVE  CacheInv(t, f \ Range(new), b, l, d)
<1>0. /\ q[r].state = "matched" /\ n = Len(q[r].key) + 1 - Len(q[r].node)
      /\ n <= Cardinality(f) /\ new = FirstFree(f, n) /\ row = q[r].kv \o new
      /\ b[r] = [state |-> "running", key |-> q[r].key, node |-> q[r].node, kv |-> row]
      /\ Only(q, b, r) /\ d = Written(q[r].key, row, Range(new), c)
  BY DEF PrefillRow
<1>1. /\ ReqsInv(q) /\ f \in SUBSET Pages /\ c \in [Pages -> Paths]
      /\ q \in [Requests -> Rows] /\ q[r] \in Rows /\ TreeInv(t) /\ StandsIn(t, q, l)
      /\ RowsShare(t, q) /\ TreePlaces(t, f, c)
  BY DEF CacheInv, PlacesInv, ReqsInv, LocksInv
<1>2. PICK k : k = q[r].key
  OBVIOUS
<1>3. PICK old : old = q[r].kv
  OBVIOUS
<1>4. PICK m : m = Len(q[r].node)
  OBVIOUS
<1>5. /\ k \in Paths /\ k \in Seq(Keys) /\ Len(k) \in Nat /\ m \in Nat /\ m <= Len(k)
      /\ old \in Seq(Pages) /\ Len(old) = m /\ IsPrefix(q[r].node, k)
  <2>1. Len(old) = m
    BY ONLY <1>0, <1>1, <1>3, <1>4, r \in Requests DEF ReqsInv, RowIs
  <2> QED BY ONLY <2>1, <1>1, <1>2, <1>3, <1>4, r \in Requests, RowParts
<1>6. n \in 0..Cardinality(f) /\ n \in Nat /\ m + n = Len(k) + 1
  <2>1. Cardinality(f) \in Nat /\ n = Len(k) + 1 - m
    BY ONLY <1>0, <1>1, <1>2, <1>4, PagesFinite
  <2> QED BY ONLY <2>1, <1>0, <1>5
<1>7. /\ new \in Seq(Pages) /\ Len(new) = n /\ DOMAIN new = 1..n /\ Range(new) \subseteq f
      /\ \A i \in 1..n : new[i] \in f
      /\ \A i, j \in 1..n : new[i] = new[j] => i = j
  <2>1. new = FirstFree(f, n) /\ f \in SUBSET Pages
    BY ONLY <1>0, <1>1
  <2> QED BY ONLY <2>1, <1>6, TakenIs
<1>8. PICK z : z = Len(k) + 1
  OBVIOUS
<1>9. /\ row \in Seq(Pages) /\ Len(row) = z /\ DOMAIN row = 1..z
      /\ \A i \in 1..m : row[i] = old[i]
      /\ \A i \in (m + 1)..z : i - m \in 1..n /\ row[i] = new[i - m]
  <2>1. row = old \o new
    BY ONLY <1>0, <1>3
  <2>3. old \in Seq(Pages) /\ new \in Seq(Pages) /\ m = Len(old) /\ n = Len(new)
    BY ONLY <1>5, <1>7
  <2>2. /\ row \in Seq(Pages) /\ Len(row) = m + n /\ DOMAIN row = 1..(m + n)
        /\ \A i \in 1..m : row[i] = old[i]
        /\ \A i \in (m + 1)..(m + n) : i - m \in 1..n /\ row[i] = new[i - m]
    BY ONLY <2>1, <2>3, JoinedIs
  <2> QED BY ONLY <2>2, <1>6, <1>8
<1>10. PICK w : w = Range(new)
  OBVIOUS
<1>11. \A x : x \in w <=> \E i \in 1..n : x = new[i]
  BY ONLY <1>7, <1>10 DEF Range
<1>12. \A i \in (m + 1)..z : row[i] \in w /\ row[i] \in f
  BY ONLY <1>7, <1>9, <1>11
<1>13. \A i, j \in (m + 1)..z : row[i] = row[j] => i = j
  BY ONLY <1>5, <1>6, <1>7, <1>8, <1>9
<1>14. \A i \in 1..m : row[i] = q[r].kv[i] /\ row[i] \notin f
  <2> SUFFICES ASSUME NEW i \in 1..m PROVE row[i] = q[r].kv[i] /\ row[i] \notin f
    OBVIOUS
  <2>1. PICK p : p = Cut(q[r].node, i)
    OBVIOUS
  <2>2. p \in Known(t) /\ q[r].kv[i] = PageAt(t, p)
    BY ONLY <2>1, <1>1, <1>4, r \in Requests, i \in 1..m, SharedIs
  <2>3. PageAt(t, p) \notin f
    BY ONLY <2>2, <1>1 DEF TreePlaces
  <2> QED BY ONLY <2>2, <2>3, <1>3, <1>9
<1>15. w = {row[i] : i \in (m + 1)..z} /\ w \in SUBSET Pages
  <2>1. \A i \in 1..n : i + m \in (m + 1)..z /\ row[i + m] = new[i]
    <3> TAKE i \in 1..n
    <3>1. i + m \in (m + 1)..z /\ (i + m) - m = i
      BY ONLY <1>5, <1>6, <1>8
    <3> QED BY ONLY <3>1, <1>9
  <2>2. \A x \in w : \E i \in (m + 1)..z : x = row[i]
    BY ONLY <2>1, <1>11
  <2>3. w \subseteq f
    BY ONLY <1>7, <1>10
  <2> QED BY ONLY <2>2, <2>3, <1>1, <1>12
<1>16. \A i \in 1..z : i \in 1..m \/ i \in (m + 1)..z
  BY ONLY <1>5, <1>8
<1>17. \A i \in (m + 1)..z : i \in 1..z
  BY ONLY <1>5, <1>8
<1>18. d = Written(k, row, w, c)
  BY ONLY <1>0, <1>2, <1>10
<1>19. \A i \in (m + 1)..z : d[row[i]] = IF i = z THEN Unset ELSE Cut(k, i)
  <2> SUFFICES ASSUME NEW i \in (m + 1)..z
               PROVE  d[row[i]] = IF i = z THEN Unset ELSE Cut(k, i)
    OBVIOUS
  <2>1. i \in DOMAIN row /\ row[i] \in w
    BY ONLY <1>9, <1>12, <1>17
  <2>2. \A j \in DOMAIN row : row[j] = row[i] => j = i
    BY ONLY <1>9, <1>12, <1>13, <1>14, <1>16
  <2>3. Written(k, row, w, c)[row[i]] = IF i = Len(row) THEN Unset ELSE Cut(k, i)
    BY ONLY <2>1, <2>2, <1>15, WrittenIs
  <2> QED BY ONLY <2>3, <1>9, <1>18
<1>20. \A x \in Pages : x \notin w => d[x] = c[x]
  BY ONLY <1>18 DEF Written
<1>21. d \in [Pages -> Paths]
  <2>1. \A x \in Pages : d[x] \in Paths
    <3> TAKE x \in Pages
    <3>1. CASE x \notin w
      BY ONLY <3>1, <1>20, <1>1
    <3>2. CASE x \in w
      <4>1. PICK i \in (m + 1)..z : x = row[i]
        BY ONLY <3>2, <1>15
      <4>2. d[x] = IF i = z THEN Unset ELSE Cut(k, i)
        BY ONLY <4>1, <1>19
      <4>3. Unset \in Paths
        <5>1. << >> \in Seq(Keys) /\ Len(<< >>) = 0
          BY EmptySeq
        <5>2. 0 <= MaxDepth
          BY DepthAssumption
        <5> QED BY ONLY <5>1, <5>2, PathsAre DEF Unset
      <4>4. i # z => Cut(k, i) \in Paths
        <5> SUFFICES ASSUME i # z PROVE Cut(k, i) \in Paths
          OBVIOUS
        <5>1. i \in 0..Len(k)
          BY ONLY <1>5, <1>8, i # z
        <5>2. Cut(k, i) \in Seq(Keys) /\ IsPrefix(Cut(k, i), k)
          BY ONLY <5>1, <1>5, CutOf
        <5> QED BY ONLY <5>2, <1>5, PathPrefix
      <4> QED BY ONLY <4>2, <4>3, <4>4
    <3> QED BY <3>1, <3>2
  <2>2. DOMAIN d = Pages /\ d = [x \in Pages |-> d[x]]
    BY ONLY <1>18 DEF Written
  <2> QED BY ONLY <2>1, <2>2
<1>22. b[r] = [state |-> "running", key |-> k, node |-> q[r].node, kv |-> row]
  BY ONLY <1>0, <1>2
<1>23. Only(q, b, r)
  BY ONLY <1>0
<1>24. /\ ReqsInv(b) /\ b[r].node = q[r].node /\ b[r].key = k /\ b[r].kv = row
  BY ONLY <1>1, <1>5, <1>8, <1>9, <1>22, <1>23, r \in Requests, RunningIs
<1>25. GoesOn(q[r].kv, row, f, m, z)
  BY ONLY <1>3, <1>12, <1>13, <1>14 DEF GoesOn
<1>26. Filled(q[r].key, row, c, d, m, z)
  <2>1. \A i \in (m + 1)..z : i < z => d[row[i]] = Cut(q[r].key, i)
    BY ONLY <1>2, <1>5, <1>8, <1>19
  <2>2. \A x \in Pages : (\A i \in (m + 1)..z : x # row[i]) => d[x] = c[x]
    BY ONLY <1>15, <1>20
  <2> QED BY ONLY <2>1, <2>2, <1>21 DEF Filled
<1>27. Longer(f, q, c, b, d, r) /\ PagesAdded(q, b, r) = w
  <2>1. b[r].key = q[r].key /\ z = Len(q[r].key) + 1
    BY ONLY <1>2, <1>8, <1>24
  <2>3. /\ row \in Seq(Pages) /\ Len(row) = z
        /\ ReqsInv(b) /\ b[r].node = q[r].node /\ b[r].kv = row
    BY ONLY <1>9, <1>24
  <2>2. Prefilled(f, q, c, b, d, r, row, m, z)
    BY ONLY <2>1, <2>3, <1>4, <1>23, <1>25, <1>26, <1>0 DEF Prefilled
  <2>4. Longer(f, q, c, b, d, r) /\ PagesAdded(q, b, r) = Tops(row, m, z)
    BY ONLY <2>2, CacheInv(t, f, q, l, c), r \in Requests, PrefillLonger
  <2> QED BY ONLY <2>4, <1>15 DEF Tops
<1> QED BY ONLY <1>27, <1>10, CacheInv(t, f, q, l, c), r \in Requests, LongerKeeps

\* prepare_for_decode with a full tail: the row of r gets the page x, and what was the
\* tail holds key from now on.
Grown(f, q, c, b, d, r, key, x) ==
  /\ q[r].state = "running" /\ key \in Paths /\ Len(key) = Len(q[r].key) + 1
  /\ IsPrefix(q[r].key, key) /\ x \in f
  /\ b[r] = [state |-> "running", key |-> key, node |-> q[r].node, kv |-> Append(q[r].kv, x)]
  /\ Only(q, b, r) /\ d = [c EXCEPT ![q[r].kv[Len(key)]] = key]

\* prepare_for_decode keeps the invariant once evict is done.
LEMMA GrowKeeps ==
  ASSUME NEW t, NEW f, NEW q, NEW l, NEW c, CacheInv(t, f, q, l, c), NEW r \in Requests,
         NEW b, NEW d, NEW key, NEW x, Grown(f, q, c, b, d, r, key, x)
  PROVE  CacheInv(t, f \ {x}, b, l, d)
<1>1. /\ ReqsInv(q) /\ f \in SUBSET Pages /\ c \in [Pages -> Paths]
      /\ RowPlaces(t, f, q, c) /\ RowsApart(q)
  BY DEF CacheInv, PlacesInv
<1>2. /\ q[r].state = "running" /\ key \in Paths /\ Len(key) = Len(q[r].key) + 1
      /\ IsPrefix(q[r].key, key) /\ x \in f
      /\ b[r] = [state |-> "running", key |-> key, node |-> q[r].node, kv |-> Append(q[r].kv, x)]
      /\ Only(q, b, r) /\ d = [c EXCEPT ![q[r].kv[Len(key)]] = key]
  BY DEF Grown
<1>3. PICK k : k = q[r].key
  OBVIOUS
<1>4. PICK n : n = q[r].node
  OBVIOUS
<1>5. PICK old : old = q[r].kv
  OBVIOUS
<1>6. PICK row : row = Append(old, x)
  OBVIOUS
<1>7. PICK z : z = Len(key)
  OBVIOUS
<1>8. /\ k \in Seq(Keys) /\ Len(k) \in Nat /\ n \in Seq(Keys) /\ Len(n) \in Nat
      /\ old \in Seq(Pages) /\ IsPrefix(n, k) /\ Len(n) <= Len(k)
  BY ONLY <1>1, <1>3, <1>4, <1>5, r \in Requests, RowParts
<1>9. key \in Seq(Keys) /\ z = Len(k) + 1 /\ z \in Nat /\ IsPrefix(k, key) /\ Len(n) < z
  <2>1. key \in Seq(Keys)
    BY ONLY <1>2, PathsAre
  <2> QED BY ONLY <2>1, <1>2, <1>3, <1>7, <1>8
<1>10. Len(old) = z
  <2>1. Len(q[r].kv) = Len(q[r].key) + 1
    BY ONLY <1>1, <1>2, r \in Requests DEF ReqsInv, RowIs
  <2> QED BY ONLY <2>1, <1>3, <1>5, <1>9
<1>11. /\ row \in Seq(Pages) /\ Len(row) = z + 1 /\ row[z + 1] = x
       /\ \A i \in 1..z : row[i] = old[i]
  <2>1. x \in Pages
    BY ONLY <1>1, <1>2
  <2> QED BY ONLY <2>1, <1>6, <1>8, <1>10
<1>12. IsPrefix(n, key)
  BY ONLY <1>8, <1>9, PrefixTrans
<1>13. /\ ReqsInv(b) /\ b[r].node = n /\ b[r].key = key /\ b[r].kv = row
  <2>1. b[r] = [state |-> "running", key |-> key, node |-> q[r].node, kv |-> row]
    BY ONLY <1>2, <1>5, <1>6
  <2>2. IsPrefix(q[r].node, key) /\ Len(row) = Len(key) + 1
    BY ONLY <1>4, <1>7, <1>11, <1>12
  <2>3. ReqsInv(b) /\ b[r].node = q[r].node /\ b[r].key = key /\ b[r].kv = row
    BY ONLY <2>1, <2>2, <1>1, <1>2, <1>11, r \in Requests, RunningIs
  <2> QED BY ONLY <2>3, <1>4
<1>14. /\ Fresh(q, b, r) = (z + 1)..(z + 1) /\ Own(b[r]) = (Len(n) + 1)..(z + 1)
       /\ Own(q[r]) = (Len(n) + 1)..z
  BY ONLY <1>4, <1>5, <1>10, <1>11, <1>13 DEF Fresh, Own
<1>15. PICK y : y = old[z]
  OBVIOUS
<1>16. z \in Own(q[r]) /\ z \in Own(b[r]) /\ \A i \in Own(b[r]) : i \in Own(q[r]) \/ i = z + 1
  BY ONLY <1>8, <1>9, <1>14
<1>17. \A i \in Own(q[r]) : i \in 1..z
  BY ONLY <1>8, <1>9, <1>14
<1>18. y \in Pages /\ d = [c EXCEPT ![y] = key] /\ row[z] = y
  <2>1. y \in Pages
    BY ONLY <1>1, <1>5, <1>15, <1>16, r \in Requests DEF RowPlaces
  <2>2. z \in 1..z
    BY ONLY <1>16, <1>17
  <2> QED BY ONLY <2>1, <2>2, <1>2, <1>5, <1>7, <1>11, <1>15
<1>19. d \in [Pages -> Paths] /\ d[y] = key /\ \A p \in Pages : p # y => d[p] = c[p]
  <2>1. c \in [Pages -> Paths] /\ y \in Pages /\ key \in Paths
    BY ONLY <1>1, <1>2, <1>18
  <2> QED BY ONLY <2>1, <1>18
<1>20. ASSUME NEW i \in Own(q[r]), i # z
       PROVE  d[row[i]] = Cut(key, i) /\ i \in 1..Len(k)
  <2>0. i \in (Len(n) + 1)..z /\ i # z
    BY ONLY i \in Own(q[r]), <1>20, <1>14
  <2>1. i \in 1..Len(k) /\ i \in 1..z
    <3> DEFINE lo == Len(n)
               hi == Len(k)
    <3>1. lo \in Nat /\ hi \in Nat /\ z = hi + 1 /\ z \in Nat
      BY ONLY <1>8, <1>9
    <3>2. i \in (lo + 1)..z /\ i # z
      BY ONLY <2>0
    <3> HIDE DEF lo, hi
    <3>3. i \in 1..hi /\ i \in 1..z
      BY ONLY <3>1, <3>2
    <3> QED BY ONLY <3>3 DEF hi
  <2>2. /\ q[r].kv[i] \in Pages
        /\ i <= Len(q[r].key) => c[q[r].kv[i]] = Cut(q[r].key, i)
    BY ONLY <1>1, i \in Own(q[r]), r \in Requests DEF RowPlaces
  <2>3. old[i] \in Pages /\ c[old[i]] = Cut(k, i)
    BY ONLY <2>1, <2>2, <1>3, <1>5, <1>8
  <2>4. old[i] # y
    BY ONLY <1>1, <1>5, <1>15, <1>16, <1>20, r \in Requests DEF RowsApart
  <2>5. Cut(k, i) = Cut(key, i)
    <3>1. i \in 0..Len(k) /\ i \in 0..Len(key)
      BY ONLY <2>1, <1>7, <1>8, <1>9
    <3>2. PICK p : p = Cut(k, i)
      OBVIOUS
    <3>3. p \in Seq(Keys) /\ Len(p) = i /\ IsPrefix(p, k)
      BY ONLY <3>1, <3>2, <1>8, CutOf
    <3>4. IsPrefix(p, key)
      BY ONLY <3>3, <1>8, <1>9, PrefixTrans
    <3>5. \A s \in Seq(Keys) : IsPrefix(s, key) /\ Len(s) = i => s = Cut(key, i)
      BY ONLY <3>1, <1>9, CutOf
    <3> QED BY ONLY <3>2, <3>3, <3>4, <3>5
  <2> QED BY ONLY <2>1, <2>3, <2>4, <2>5, <1>11, <1>19
<1>21. key = Cut(key, z)
  <2>1. z \in 0..Len(key)
    BY ONLY <1>7, <1>9
  <2>2. \A s \in Seq(Keys) : IsPrefix(s, key) /\ Len(s) = z => s = Cut(key, z)
    BY ONLY <2>1, <1>9, CutOf
  <2>3. IsPrefix(key, key)
    BY ONLY <1>9, PrefixOrder
  <2> QED BY ONLY <2>2, <2>3, <1>7, <1>9
<1>22. \A i \in Own(b[r]) : i <= Len(b[r].key) => d[b[r].kv[i]] = Cut(b[r].key, i)
  <2>1. ASSUME NEW i \in Own(b[r]), i <= z PROVE d[row[i]] = Cut(key, i)
    <3>0. i \in Own(q[r]) \/ i = z + 1
      BY ONLY <1>16, i \in Own(b[r])
    <3>1. i \in Own(q[r])
      <4>1. i # z + 1
        BY ONLY <1>9, <2>1
      <4> QED BY ONLY <3>0, <4>1
    <3>2. CASE i = z
      BY ONLY <3>2, <1>18, <1>19, <1>21
    <3> QED BY ONLY <3>1, <3>2, <1>20
  <2> QED BY ONLY <2>1, <1>7, <1>13
<1>23. \A p \in Pages : (\A i \in Own(b[r]) : p # b[r].kv[i]) => d[p] = c[p]
  BY ONLY <1>13, <1>16, <1>18, <1>19
<1>24. PagesAdded(q, b, r) = {x} /\ \A i \in Fresh(q, b, r) : i = z + 1
  <2>1. \A i : i \in Fresh(q, b, r) <=> i = z + 1
    BY ONLY <1>9, <1>14
  <2> QED BY ONLY <2>1, <1>11, <1>13 DEF PagesAdded
<1>25. Longer(f, q, c, b, d, r)
  <2>1. /\ Len(q[r].node) <= Len(q[r].kv) /\ Len(q[r].kv) <= Len(b[r].kv)
        /\ \A i \in 1..Len(q[r].kv) : b[r].kv[i] = q[r].kv[i]
    BY ONLY <1>4, <1>5, <1>8, <1>9, <1>10, <1>11, <1>13
  <2>2. /\ \A i \in Fresh(q, b, r) : b[r].kv[i] \in f
        /\ \A i, j \in Fresh(q, b, r) : b[r].kv[i] = b[r].kv[j] => i = j
    BY ONLY <1>2, <1>11, <1>13, <1>24
  <2>3. \A s \in Requests : s # r => b[s] = q[s]
    BY ONLY <1>2 DEF Only
  <2> QED BY ONLY <2>1, <2>2, <2>3, <1>4, <1>13, <1>19, <1>22, <1>23 DEF Longer
<1> QED BY ONLY <1>24, <1>25, CacheInv(t, f, q, l, c), r \in Requests, LongerKeeps

\* The tree u knows the paths of t, on the same pages.
SameMap(t, u) == Known(u) = Known(t) /\ \A p \in Known(t) : PageAt(u, p) = PageAt(t, p)

\* The paths of t keep their pages in u, and u knows those of key too.
Grew(t, key, u) ==
  /\ \A p : p \in Known(u) <=> p \in Known(t) \/ (p \in Seq(Keys) \ {<< >>} /\ IsPrefix(p, key))
  /\ \A p \in Known(t) : PageAt(u, p) = PageAt(t, p)

\* prefix_for_waiting_req: the request stands on what the walk found, and nothing moves.
Looked(t, q, u, b, r, key, s, w) ==
  /\ q[r].state = "idle" /\ key \in Paths /\ s = Matched(t, key) /\ w = Walk(t, key)
  /\ u = IncLock(w, s) /\ Only(q, b, r)
  /\ b[r] = [state |-> "matched", key |-> key, node |-> s, kv |-> ValueTo(w, s)]

\* prefix_for_waiting_req keeps the invariant, and the pages of every path.
LEMMA LookupKeeps ==
  ASSUME NEW t, NEW f, NEW q, NEW l, NEW c, CacheInv(t, f, q, l, c), NEW r \in Requests,
         NEW u, NEW b, NEW key, NEW s, NEW w, Looked(t, q, u, b, r, key, s, w)
  PROVE  CacheInv(u, f, b, l, c) /\ SameMap(t, u)
<1>1. /\ TreeInv(t) /\ ReqsInv(q) /\ LocksInv(t, q, l) /\ StandsIn(t, q, l) /\ RowsShare(t, q)
      /\ f \in SUBSET Pages /\ c \in [Pages -> Paths]
      /\ TreePlaces(t, f, c) /\ RowPlaces(t, f, q, c) /\ RowsApart(q) /\ Somewhere(t, f, q)
  BY DEF CacheInv, PlacesInv, LocksInv
<1>2. /\ q[r].state = "idle" /\ key \in Paths /\ s = Matched(t, key) /\ w = Walk(t, key)
      /\ u = IncLock(w, s) /\ Only(q, b, r)
      /\ b[r] = [state |-> "matched", key |-> key, node |-> s, kv |-> ValueTo(w, s)]
  BY DEF Looked
<1>3. q[r] = Idle /\ q[r].node = << >> /\ Own(q[r]) = {}
  <2>1. q[r] = Idle
    BY ONLY <1>1, <1>2, r \in Requests DEF ReqsInv, RowIs
  <2>2. q[r].node = << >> /\ q[r].kv = << >>
    BY <2>1 DEF Idle
  <2>3. Own(q[r]) = (0 + 1)..0
    BY <2>2, EmptySeq DEF Own
  <2> QED BY <2>1, <2>2, <2>3
<1>4. /\ IsTree(Keys, t) /\ Nodes(t) \in SUBSET (Seq(Keys) \ {<< >>}) /\ Nodes(t) \in SUBSET Paths
      /\ key \in Seq(Keys)
  <2>1. key \in Seq(Keys)
    BY ONLY <1>2, PathsAre
  <2> QED BY ONLY <2>1, <1>1 DEF TreeInv, IsTree
<1>5. s \in Seq(Keys) /\ IsPrefix(s, key) /\ s \in Known(t) \cup {<< >>} /\ Len(s) \in Nat
  <2>1. s \in Seq(Keys) /\ IsPrefix(s, key) /\ s \in Known(t) \cup {<< >>}
    BY ONLY <1>2, <1>4, MatchedIs
  <2> QED BY <2>1, Elements
<1>6. s \in Paths
  BY ONLY <1>2, <1>5, PathPrefix
<1>7. Walked(Keys, t, s, w)
  BY ONLY <1>2, <1>4, WalkIs
<1>8. /\ IsTree(Keys, w) /\ Nodes(w) = Nodes(t) \cup ({s} \ {<< >>}) /\ Known(w) = Known(t)
      /\ \A p \in Known(t) : PageAt(w, p) = PageAt(t, p)
  BY ONLY <1>7 DEF Walked
<1>9. TreeInv(w)
  BY ONLY <1>4, <1>6, <1>8 DEF TreeInv
<1>10. LocksInv(w, q, l)
  BY ONLY <1>1, <1>7, WalkLocks
<1>11. s \in Nodes(w) \cup {<< >>}
  BY ONLY <1>8
<1>12. Relocked(Keys, w, s, 1, Cardinality(Along(w, s, 0)), u)
  BY ONLY <1>2, <1>8, <1>11, IncLockIs
<1>13. /\ IsTree(Keys, u) /\ Nodes(u) = Nodes(w) /\ Known(u) = Known(t)
       /\ \A p \in Known(t) : PageAt(u, p) = PageAt(t, p)
  BY ONLY <1>8, <1>12 DEF Relocked
<1>14. TreeInv(u)
  BY ONLY <1>9, <1>13 DEF TreeInv
<1>15. \A x \in Requests : x # r => b[x] = q[x]
  BY ONLY <1>2 DEF Only
<1>16. LocksInv(u, b, l)
  <2>1. Stood(q, b, r, s)
    BY ONLY <1>2, <1>3, <1>15 DEF Stood
  <2> QED BY ONLY <2>1, <1>1, <1>9, <1>10, <1>11, <1>12, r \in Requests, LockIs
<1>17. ASSUME NEW i \in 1..Len(s)
       PROVE  /\ Cut(s, i) \in Known(t) /\ ValueTo(w, s)[i] = PageAt(t, Cut(s, i))
  <2>1. i \in 0..Len(s) /\ i > 0
    BY ONLY <1>5, i \in 1..Len(s)
  <2>2. PICK p : p = Cut(s, i)
    OBVIOUS
  <2>3. p \in Seq(Keys) /\ Len(p) = i /\ IsPrefix(p, s)
    BY ONLY <2>1, <2>2, <1>5, CutOf
  <2>4. p # << >> /\ s # << >>
    BY ONLY <2>1, <2>3, <1>5, EmptySeq, i \in 1..Len(s)
  <2>5. p \in Known(t)
    <3>1. s \in Known(t)
      BY ONLY <2>4, <1>5
    <3> QED BY ONLY <3>1, <2>3, <2>4, <1>4, KnownPrefix
  <2>6. ValueTo(w, s)[i] = PageAt(w, p)
    BY <2>2 DEF ValueTo, Cut
  <2> QED BY ONLY <2>2, <2>5, <2>6, <1>8
<1>18. /\ ValueTo(w, s) \in Seq(Pages) /\ Len(ValueTo(w, s)) = Len(s)
  <2>1. PICK v : v = ValueTo(w, s)
    OBVIOUS
  <2>2. DOMAIN v = 1..Len(s) /\ v = [i \in 1..Len(s) |-> v[i]]
    BY ONLY <2>1 DEF ValueTo
  <2>3. \A i \in 1..Len(s) : v[i] \in Pages
    BY ONLY <2>1, <1>1, <1>17 DEF TreePlaces
  <2> QED BY ONLY <2>1, <2>2, <2>3, <1>5
<1>19. b[r] \in Rows /\ RowIs(b[r]) /\ b[r].node = s /\ b[r].kv = ValueTo(w, s) /\ b[r].key = key
  <2> HIDE DEF ValueTo
  <2>1. b[r] \in Rows
    BY ONLY <1>2, <1>6, <1>18 DEF Rows
  <2>2. /\ b[r].node = s /\ b[r].kv = ValueTo(w, s) /\ b[r].key = key /\ b[r].state = "matched"
    BY ONLY <1>2
  <2> QED BY ONLY <2>1, <2>2, <1>5, <1>18 DEF RowIs
<1>20. ReqsInv(b)
  <2>1. \A x \in Requests : b[x] \in Rows /\ RowIs(b[x])
    BY ONLY <1>1, <1>15, <1>19 DEF ReqsInv
  <2> QED BY ONLY <2>1, <1>2 DEF ReqsInv, Only
<1>21. Own(b[r]) = {}
  <2>1. Own(b[r]) = (Len(s) + 1)..Len(s)
    BY ONLY <1>18, <1>19 DEF Own
  <2> QED BY ONLY <2>1, <1>5
<1>22. RowsShare(u, b)
  <2> SUFFICES ASSUME NEW x \in Requests, NEW i \in 1..Len(b[x].node)
               PROVE  b[x].kv[i] = PageAt(u, Cut(b[x].node, i))
    BY DEF RowsShare
  <2>1. CASE x = r
    BY ONLY <2>1, <1>13, <1>17, <1>19, i \in 1..Len(b[x].node)
  <2>2. CASE x # r
    <3>1. i \in 1..Len(q[x].node) /\ b[x] = q[x]
      BY ONLY <2>2, <1>15, x \in Requests, i \in 1..Len(b[x].node)
    <3>2. PICK p : p = Cut(q[x].node, i)
      OBVIOUS
    <3>3. p \in Known(t) /\ q[x].kv[i] = PageAt(t, p)
      BY ONLY <3>1, <3>2, <1>1, x \in Requests, SharedIs
    <3> QED BY ONLY <3>1, <3>2, <3>3, <1>13
  <2> QED BY <2>1, <2>2
<1>23. TreePlaces(u, f, c)
  BY ONLY <1>1, <1>13 DEF TreePlaces
<1>24. \A x \in Requests : \A i \in Own(b[x]) : x # r /\ b[x] = q[x] /\ i \in Own(q[x])
  BY ONLY <1>15, <1>21
<1>25. RowPlaces(u, f, b, c)
  <2> SUFFICES ASSUME NEW x \in Requests, NEW i \in Own(b[x])
               PROVE  /\ b[x].kv[i] \in Pages /\ b[x].kv[i] \notin f
                      /\ \A p \in Known(u) : b[x].kv[i] # PageAt(u, p)
                      /\ i <= Len(b[x].key) => c[b[x].kv[i]] = Cut(b[x].key, i)
    BY DEF RowPlaces
  <2>1. b[x] = q[x] /\ i \in Own(q[x])
    BY ONLY <1>24, x \in Requests, i \in Own(b[x])
  <2>2. /\ q[x].kv[i] \in Pages /\ q[x].kv[i] \notin f
        /\ \A p \in Known(t) : q[x].kv[i] # PageAt(t, p)
        /\ i <= Len(q[x].key) => c[q[x].kv[i]] = Cut(q[x].key, i)
    BY ONLY <2>1, <1>1, x \in Requests DEF RowPlaces
  <2> QED BY ONLY <2>1, <2>2, <1>13
<1>26. RowsApart(b)
  <2> SUFFICES ASSUME NEW x \in Requests, NEW y \in Requests, NEW i \in Own(b[x]),
                      NEW j \in Own(b[y]), b[x].kv[i] = b[y].kv[j]
               PROVE  x = y /\ i = j
    BY DEF RowsApart
  <2>1. b[x] = q[x] /\ i \in Own(q[x]) /\ b[y] = q[y] /\ j \in Own(q[y])
    BY <1>24
  <2> QED BY <2>1, <1>1 DEF RowsApart
<1>27. Somewhere(u, f, b)
  <2> SUFFICES ASSUME NEW x \in Pages
               PROVE  \/ x \in f
                      \/ \E p \in Known(u) : x = PageAt(u, p)
                      \/ \E y \in Requests : \E i \in Own(b[y]) : x = b[y].kv[i]
    BY DEF Somewhere
  <2>1. \/ x \in f
        \/ \E p \in Known(t) : x = PageAt(t, p)
        \/ \E y \in Requests : \E i \in Own(q[y]) : x = q[y].kv[i]
    BY ONLY <1>1, x \in Pages DEF Somewhere
  <2>2. \A y \in Requests : \A i \in Own(q[y]) : b[y] = q[y]
    BY ONLY <1>3, <1>15
  <2> QED BY ONLY <2>1, <2>2, <1>13
<1> QED BY ONLY <1>1, <1>13, <1>14, <1>16, <1>20, <1>22, <1>23, <1>25, <1>26, <1>27
        DEF CacheInv, PlacesInv, SameMap

\* A request that was refused, before it is matched again: it stands nowhere, and the match
\* it had is among those that were replaced, unless it was the root.
Forgotten(q, l, b, o, r) ==
  /\ q[r].state = "matched" /\ Only(q, b, r) /\ b[r] = Idle
  /\ o = IF q[r].node = << >> THEN l ELSE Append(l, q[r].node)

\* The locks of a match that is replaced stay where they are.
LEMMA ForgetKeeps ==
  ASSUME NEW t, NEW f, NEW q, NEW l, NEW c, CacheInv(t, f, q, l, c), NEW r \in Requests,
         NEW b, NEW o, Forgotten(q, l, b, o, r)
  PROVE  CacheInv(t, f, b, o, c)
<1>1. /\ TreeInv(t) /\ ReqsInv(q) /\ LocksInv(t, q, l) /\ StandsIn(t, q, l) /\ RowsShare(t, q)
      /\ Counted(t, q, l) /\ Sized(t, q, l) /\ f \in SUBSET Pages /\ c \in [Pages -> Paths]
      /\ TreePlaces(t, f, c) /\ RowPlaces(t, f, q, c) /\ RowsApart(q) /\ Somewhere(t, f, q)
  BY DEF CacheInv, PlacesInv, LocksInv
<1>2. PICK n : n = q[r].node
  OBVIOUS
<1>3. /\ q[r].state = "matched" /\ Only(q, b, r) /\ b[r] = Idle
      /\ o = IF n = << >> THEN l ELSE Append(l, n)
  BY ONLY <1>2, Forgotten(q, l, b, o, r) DEF Forgotten
<1>4. b = [x \in Requests |-> b[x]] /\ \A x \in Requests : x # r => b[x] = q[x]
  BY ONLY <1>3 DEF Only
<1>5. /\ n \in Seq(Keys) /\ n \in Paths /\ Len(n) \in Nat /\ Len(q[r].kv) = Len(n)
      /\ n \in Nodes(t) \cup {<< >>}
  <2>1. Len(q[r].kv) = Len(n)
    BY ONLY <1>1, <1>2, <1>3, r \in Requests DEF ReqsInv, RowIs
  <2> QED BY ONLY <2>1, <1>1, <1>2, r \in Requests, RowParts DEF StandsIn
<1>6. Own(q[r]) = {} /\ Own(Idle) = {} /\ Idle.node = << >> /\ Len(Idle.node) = 0
  <2>1. Own(q[r]) = (Len(n) + 1)..Len(n)
    BY ONLY <1>2, <1>5 DEF Own
  <2>2. Idle.node = << >> /\ Idle.kv = << >>
    BY DEF Idle
  <2>3. Own(Idle) = (0 + 1)..0 /\ Len(Idle.node) = 0
    BY ONLY <2>2, EmptySeq DEF Own
  <2> QED BY ONLY <2>1, <2>2, <2>3, <1>5
<1>7. Idle \in Rows /\ RowIs(Idle)
  <2>1. << >> \in Seq(Keys) /\ Len(<< >>) = 0 /\ << >> \in Seq(Pages) /\ 0 <= MaxDepth
    BY EmptySeq, DepthAssumption
  <2>2. << >> \in Paths
    BY ONLY <2>1, PathsAre
  <2>3. IsPrefix(<< >>, << >>)
    BY ONLY <2>1, PrefixOrder
  <2> QED BY <2>1, <2>2, <2>3 DEF Idle, Rows, RowIs
<1>8. ReqsInv(b)
  <2>1. \A x \in Requests : b[x] \in Rows /\ RowIs(b[x])
    BY ONLY <1>1, <1>3, <1>4, <1>7 DEF ReqsInv
  <2> QED BY ONLY <2>1, <1>4 DEF ReqsInv
<1>9. /\ l \in Seq(Paths) /\ Len(l) \in Nat /\ DOMAIN l = 1..Len(l)
      /\ \A i \in DOMAIN l : l[i] \in Nodes(t) \cup {<< >>}
  BY <1>1 DEF StandsIn
<1>10. ASSUME LocksInv(t, b, o) PROVE CacheInv(t, f, b, o, c)
  <2>1. RowsShare(t, b)
    <3> SUFFICES ASSUME NEW x \in Requests, NEW i \in 1..Len(b[x].node)
                 PROVE  b[x].kv[i] = PageAt(t, Cut(b[x].node, i))
      BY DEF RowsShare
    <3>1. x # r
      BY <1>3, <1>6
    <3> QED BY <3>1, <1>1, <1>4 DEF RowsShare
  <2>2. \A x \in Requests : \A i \in Own(b[x]) : b[x] = q[x] /\ i \in Own(q[x])
    BY ONLY <1>3, <1>4, <1>6
  <2>3. \A x \in Requests : \A i \in Own(q[x]) : b[x] = q[x]
    BY ONLY <1>4, <1>6
  <2>4. RowPlaces(t, f, b, c)
    BY ONLY <2>2, <1>1 DEF RowPlaces
  <2>5. RowsApart(b)
    BY ONLY <2>2, <1>1 DEF RowsApart
  <2>6. Somewhere(t, f, b)
    <3> SUFFICES ASSUME NEW x \in Pages
                 PROVE  \/ x \in f
                        \/ \E p \in Known(t) : x = PageAt(t, p)
                        \/ \E y \in Requests : \E i \in Own(b[y]) : x = b[y].kv[i]
      BY DEF Somewhere
    <3>1. \/ x \in f
          \/ \E p \in Known(t) : x = PageAt(t, p)
          \/ \E y \in Requests : \E i \in Own(q[y]) : x = q[y].kv[i]
      BY ONLY <1>1, x \in Pages DEF Somewhere
    <3> QED BY ONLY <3>1, <2>3
  <2> QED BY ONLY <2>1, <2>4, <2>5, <2>6, <1>1, <1>8, <1>10 DEF CacheInv, PlacesInv
<1>11. CASE n = << >>
  <2>1. o = l
    BY ONLY <1>3, <1>11
  <2>2. \A x \in Requests : b[x].node = q[x].node
    BY ONLY <1>2, <1>3, <1>4, <1>6, <1>11
  <2>3. LocksInv(t, b, o)
    BY ONLY <2>1, <2>2, <1>1, SameNodes
  <2> QED BY ONLY <2>3, <1>10
<1>12. CASE n # << >>
  <2>1. o = Append(l, n)
    BY ONLY <1>3, <1>12
  <2>2. PICK z : z = Len(l) + 1
    OBVIOUS
  <2>3. /\ o \in Seq(Paths) /\ DOMAIN o = (1..Len(l)) \cup {z} /\ z \notin DOMAIN l /\ o[z] = n
        /\ \A i \in DOMAIN l : o[i] = l[i]
    BY ONLY <2>1, <2>2, <1>5, <1>9
  <2>4. StandsIn(t, b, o)
    <3>1. \A x \in Requests : b[x].node \in Nodes(t) \cup {<< >>}
      BY ONLY <1>1, <1>3, <1>4, <1>6 DEF StandsIn
    <3>2. \A i \in DOMAIN o : o[i] \in Nodes(t) \cup {<< >>}
      BY ONLY <2>3, <1>5, <1>9
    <3> QED BY ONLY <3>1, <3>2, <2>3 DEF StandsIn
  <2>5. ASSUME NEW p \in Seq(Keys) \ {<< >>}
        PROVE  LocksOn(b, o, p) = LocksOn(q, l, p) /\ (Unheld(b, o, p) <=> Unheld(q, l, p))
    <3>1. ~ IsPrefix(p, << >>)
      BY <2>5, PrefixEmpty
    <3>2. On(b, p) = On(q, p) \ {r}
      BY ONLY <3>1, <1>3, <1>4, <1>6 DEF On
    <3>3. r \in On(q, p) <=> IsPrefix(p, n)
      BY ONLY <1>2, r \in Requests DEF On
    <3>4. Left(o, p) = IF IsPrefix(p, n) THEN Left(l, p) \cup {z} ELSE Left(l, p)
      BY ONLY <2>3, <1>9 DEF Left
    <3>5. z \notin Left(l, p)
      BY ONLY <2>3 DEF Left
    <3>6. /\ IsFiniteSet(On(q, p)) /\ Cardinality(On(q, p)) \in Nat
          /\ IsFiniteSet(Left(l, p)) /\ Cardinality(Left(l, p)) \in Nat
      BY ONLY <1>9, OnFinite
    <3>7. Cardinality(On(q, p) \ {r}) =
            IF r \in On(q, p) THEN Cardinality(On(q, p)) - 1 ELSE Cardinality(On(q, p))
      BY ONLY <3>6, FS_RemoveElement
    <3>8. Cardinality(Left(l, p) \cup {z}) = Cardinality(Left(l, p)) + 1
      BY ONLY <3>5, <3>6, FS_AddElement
    <3>9. Cardinality(On(b, p)) + Cardinality(Left(o, p)) = Cardinality(On(q, p)) + Cardinality(Left(l, p))
      BY ONLY <3>2, <3>3, <3>4, <3>6, <3>7, <3>8
    <3>10. LocksOn(b, o, p) = LocksOn(q, l, p)
      BY ONLY <3>9 DEF LocksOn
    <3>11. Unheld(b, o, p) <=> Unheld(q, l, p)
      BY ONLY <3>10, <2>3, <1>9, OnFinite
    <3> QED BY ONLY <3>10, <3>11
  <2>6. /\ Nodes(t) \in SUBSET (Seq(Keys) \ {<< >>}) /\ Known(t) \in SUBSET (Seq(Keys) \ {<< >>})
    <3>1. Nodes(t) \in SUBSET (Seq(Keys) \ {<< >>})
      BY ONLY <1>1 DEF TreeInv, IsTree
    <3> QED BY ONLY <3>1, KnownIs
  <2>7. Counted(t, b, o)
    BY ONLY <2>5, <2>6, <1>1 DEF Counted
  <2>8. Pinned(t, b, o) = Pinned(t, q, l)
    BY ONLY <2>5, <2>6 DEF Pinned
  <2>9. LocksInv(t, b, o)
    BY ONLY <2>4, <2>7, <2>8, <1>1 DEF LocksInv, Sized
  <2> QED BY ONLY <2>9, <1>10
<1> QED BY ONLY <1>11, <1>12

\* release_request: what the tree already had of the key (known) and the tail are free,
\* and the rest of the row is the tree's.
Released(t, f, q, c, u, g, b, d, r, key, D, known) ==
  /\ q[r].state = "running" /\ key \in Paths /\ IsPrefix(q[r].key, key)
  /\ Len(key) <= Len(q[r].key) + 1 /\ known = Len(Matched(t, key))
  /\ u = DecLock(Insert(t, key, q[r].kv), q[r].node)
  /\ D = {q[r].kv[i] : i \in (Len(q[r].node) + 1)..known}
         \cup {q[r].kv[i] : i \in (Len(key) + 1)..Len(q[r].kv)}
  /\ g = f \cup D
  /\ d = [p \in Pages |-> IF p \in D THEN Unset
                          ELSE IF p = q[r].kv[Len(q[r].kv)] THEN key ELSE c[p]]
  /\ Only(q, b, r) /\ b[r] = Idle

\* release_request keeps the invariant: the pages it hands over were the request's own.
LEMMA ReleaseKeeps ==
  ASSUME NEW t, NEW f, NEW q, NEW l, NEW c, CacheInv(t, f, q, l, c), NEW r \in Requests, NEW u, NEW g,
         NEW b, NEW d, NEW key, NEW D, NEW known, Released(t, f, q, c, u, g, b, d, r, key, D, known)
  PROVE  CacheInv(u, g, b, l, d) /\ Grew(t, key, u)
<1>1. /\ TreeInv(t) /\ ReqsInv(q) /\ LocksInv(t, q, l) /\ StandsIn(t, q, l) /\ RowsShare(t, q)
      /\ f \in SUBSET Pages /\ c \in [Pages -> Paths]
      /\ TreePlaces(t, f, c) /\ RowPlaces(t, f, q, c) /\ RowsApart(q) /\ Somewhere(t, f, q)
  BY DEF CacheInv, PlacesInv, LocksInv
<1>2. PICK kv : kv = q[r].kv
  OBVIOUS
<1>3. PICK n : n = q[r].node
  OBVIOUS
<1>4. PICK k : k = q[r].key
  OBVIOUS
<1>5. PICK s : s = Matched(t, key)
  OBVIOUS
<1>6. PICK v : v = Insert(t, key, kv)
  OBVIOUS
<1>7. PICK a : a = Len(n)
  OBVIOUS
<1>8. PICK z : z = Len(kv)
  OBVIOUS
<1>9. PICK h : h = Len(key)
  OBVIOUS
<1>10. /\ key \in Paths /\ IsPrefix(k, key) /\ h <= Len(k) + 1 /\ known = Len(s)
       /\ u = DecLock(v, n) /\ q[r].state = "running"
  BY ONLY <1>2, <1>3, <1>4, <1>5, <1>6, <1>9, Released(t, f, q, c, u, g, b, d, r, key, D, known)
     DEF Released
<1>11. /\ D = {kv[i] : i \in (a + 1)..known} \cup {kv[i] : i \in (h + 1)..z}
       /\ g = f \cup D
       /\ d = [p \in Pages |-> IF p \in D THEN Unset ELSE IF p = kv[z] THEN key ELSE c[p]]
  BY ONLY <1>2, <1>3, <1>7, <1>8, <1>9, Released(t, f, q, c, u, g, b, d, r, key, D, known)
     DEF Released
<1>12. /\ Only(q, b, r) /\ b[r] = Idle
  BY ONLY Released(t, f, q, c, u, g, b, d, r, key, D, known) DEF Released
<1>13. /\ k \in Seq(Keys) /\ Len(k) \in Nat /\ n \in Seq(Keys) /\ a \in Nat
       /\ kv \in Seq(Pages) /\ IsPrefix(n, k) /\ a <= Len(k)
  BY ONLY <1>1, <1>2, <1>3, <1>4, <1>7, r \in Requests, RowParts
<1>14. /\ IsTree(Keys, t) /\ Nodes(t) \in SUBSET (Seq(Keys) \ {<< >>}) /\ Nodes(t) \in SUBSET Paths
       /\ key \in Seq(Keys) /\ h \in Nat /\ IsPrefix(key, key)
  <2>1. key \in Seq(Keys)
    BY ONLY <1>10, PathsAre
  <2>2. IsPrefix(key, key)
    BY ONLY <2>1, PrefixOrder
  <2> QED BY ONLY <2>1, <2>2, <1>1, <1>9 DEF TreeInv, IsTree
<1>15. z = Len(k) + 1 /\ z \in Nat /\ a < z /\ h <= z /\ Len(k) <= h
  <2>1. Len(q[r].kv) = Len(q[r].key) + 1
    BY ONLY <1>1, <1>10, r \in Requests DEF ReqsInv, RowIs
  <2>2. Len(k) <= h
    BY ONLY <1>9, <1>10, <1>13, <1>14, PrefixOrder
  <2> QED BY ONLY <2>1, <2>2, <1>2, <1>4, <1>8, <1>10, <1>13
<1>16. IsPrefix(n, key)
  BY ONLY <1>10, <1>13, <1>14, PrefixTrans
<1>17. /\ s \in Seq(Keys) /\ IsPrefix(s, key) /\ s \in Known(t) \cup {<< >>}
       /\ \A p \in Known(t) : IsPrefix(p, key) => IsPrefix(p, s)
  BY ONLY <1>5, <1>14, MatchedIs
<1>18. known \in Nat /\ known <= h /\ a <= known
  <2>1. known \in Nat /\ known <= h
    BY ONLY <1>9, <1>10, <1>14, <1>17, PrefixOrder, Elements
  <2>2. n \in Nodes(t) \cup {<< >>}
    BY ONLY <1>1, <1>3, r \in Requests DEF StandsIn
  <2>3. CASE n = << >>
    BY ONLY <2>1, <2>3, <1>7, EmptySeq
  <2>4. CASE n \in Nodes(t)
    <3>1. n \in Known(t)
      BY ONLY <2>4, <1>14, KnownIs
    <3>2. IsPrefix(n, s)
      BY ONLY <3>1, <1>16, <1>17
    <3>3. Len(n) <= Len(s)
      BY ONLY <3>2, <1>13, <1>17, PrefixOrder
    <3> QED BY ONLY <3>3, <2>1, <1>7, <1>10
  <2> QED BY ONLY <2>1, <2>2, <2>3, <2>4
<1>19. Inserted(Keys, t, key, kv, v)
  <2>1. kv \in Seq(Value)
    <3>1. Pages \subseteq Value
      BY DEF Pages, Value
    <3>3. PICK y : y = Len(kv)
      OBVIOUS
    <3>4. y \in Nat /\ kv \in [1..y -> Pages]
      BY ONLY <3>3, <1>13
    <3>5. kv \in [1..y -> Value]
      BY ONLY <3>1, <3>4
    <3> QED BY ONLY <3>4, <3>5
  <2>2. Len(key) <= Len(kv)
    BY ONLY <1>8, <1>9, <1>15
  <2> QED BY ONLY <2>1, <2>2, <1>6, <1>14, InsertIs
<1>20. /\ IsTree(Keys, v)
       /\ \A p : p \in Known(v) <=> p \in Known(t) \/ (p \in Seq(Keys) \ {<< >>} /\ IsPrefix(p, key))
       /\ \A p \in Known(t) : PageAt(v, p) = PageAt(t, p)
       /\ \A p \in Known(v) : p \notin Known(t) => PageAt(v, p) = kv[Len(p)]
  BY ONLY <1>19 DEF Inserted
<1>21. TreeInv(v)
  <2> SUFFICES ASSUME NEW m \in Nodes(v) PROVE m \in Paths
    BY <1>20 DEF TreeInv
  <2>1. m \in Known(v)
    <3>1. Nodes(v) \in SUBSET (Seq(Keys) \ {<< >>})
      BY ONLY <1>20 DEF IsTree
    <3> QED BY ONLY <3>1, m \in Nodes(v), KnownIs
  <2>2. CASE m \in Known(t)
    <3>1. m \in Seq(Keys) /\ \E y \in Nodes(t) : IsPrefix(m, y)
      BY ONLY <2>2, <1>14, KnownIs
    <3>2. PICK y \in Nodes(t) : IsPrefix(m, y)
      BY ONLY <3>1
    <3>3. y \in Paths
      BY ONLY <1>14, y \in Nodes(t)
    <3> QED BY ONLY <3>1, <3>2, <3>3, PathPrefix
  <2>3. CASE m \in Seq(Keys) /\ IsPrefix(m, key)
    BY ONLY <2>3, <1>10, PathPrefix
  <2> QED BY ONLY <2>1, <2>2, <2>3, <1>20
<1>22. LocksInv(v, q, l)
  BY ONLY <1>1, <1>14, <1>19, InsertLocks
<1>23. \A x \in Requests : x # r => b[x] = q[x]
  BY ONLY <1>12 DEF Only
<1>24. b[r].node = << >> /\ b[r].kv = << >>
  BY <1>12 DEF Idle
<1>25. /\ LocksInv(u, b, l)
       /\ Relocked(Keys, v, n, 0 - 1, 0 - Cardinality(Along(v, n, 1)), u)
  <2>1. Stood(b, q, r, n)
    BY ONLY <1>3, <1>23, <1>24 DEF Stood
  <2>2. /\ LocksInv(DecLock(v, n), b, l)
        /\ Relocked(Keys, v, n, 0 - 1, 0 - Cardinality(Along(v, n, 1)), DecLock(v, n))
    BY ONLY <2>1, <1>1, <1>3, <1>21, <1>22, r \in Requests, UnlockIs
  <2> QED BY ONLY <2>2, <1>10
<1>26. /\ IsTree(Keys, u) /\ Nodes(u) = Nodes(v) /\ Known(u) = Known(v)
       /\ \A p : PageAt(u, p) = PageAt(v, p)
  BY ONLY <1>25 DEF Relocked
<1>27. TreeInv(u)
  BY ONLY <1>21, <1>26 DEF TreeInv
<1>28. /\ Own(q[r]) = (a + 1)..z /\ z \in Own(q[r])
       /\ \A i \in (known + 1)..h : i \in Own(q[r])
       /\ \A i \in (a + 1)..known : i \in Own(q[r])
       /\ \A i \in (h + 1)..z : i \in Own(q[r])
  <2>1. Own(q[r]) = (a + 1)..z
    BY ONLY <1>2, <1>3, <1>7, <1>8 DEF Own
  <2> QED BY ONLY <2>1, <1>13, <1>14, <1>15, <1>18
<1>29. \A i \in Own(q[r]) : i \in (a + 1)..known \/ i \in (known + 1)..h \/ i \in (h + 1)..z
  BY ONLY <1>13, <1>14, <1>15, <1>18, <1>28
<1>30. /\ \A i \in Own(q[r]) : kv[i] \in Pages /\ kv[i] \notin f
       /\ \A i \in Own(q[r]) : \A p \in Known(t) : kv[i] # PageAt(t, p)
       /\ \A i \in Own(q[r]) : i <= Len(k) => c[kv[i]] = Cut(k, i)
       /\ \A i, j \in Own(q[r]) : kv[i] = kv[j] => i = j
       /\ \A x \in Requests : x # r =>
            \A i \in Own(q[r]) : \A j \in Own(q[x]) : kv[i] # q[x].kv[j]
  BY ONLY <1>1, <1>2, <1>4, r \in Requests DEF RowPlaces, RowsApart
<1>31. /\ \A x : x \in D => \E i \in Own(q[r]) : x = kv[i]
       /\ \A i \in (known + 1)..h : kv[i] \notin D
       /\ \A i \in (a + 1)..known : kv[i] \in D
       /\ \A i \in (h + 1)..z : kv[i] \in D
  <2>1. \A x : x \in D => (\E i \in (a + 1)..known : x = kv[i]) \/ (\E i \in (h + 1)..z : x = kv[i])
    BY ONLY <1>11
  <2>2. \A i \in (known + 1)..h : kv[i] \notin D
    <3> SUFFICES ASSUME NEW i \in (known + 1)..h PROVE kv[i] \notin D
      OBVIOUS
    <3>1. i \notin (a + 1)..known /\ i \notin (h + 1)..z
      BY ONLY i \in (known + 1)..h, <1>13, <1>14, <1>15, <1>18
    <3> QED BY ONLY <3>1, <2>1, <1>28, <1>30, i \in (known + 1)..h
  <2>3. (\A i \in (a + 1)..known : kv[i] \in D) /\ (\A i \in (h + 1)..z : kv[i] \in D)
    BY ONLY <1>11
  <2>4. ASSUME NEW x, x \in D PROVE \E i \in Own(q[r]) : x = kv[i]
    <3>1. CASE \E i \in (a + 1)..known : x = kv[i]
      <4>1. PICK i \in (a + 1)..known : x = kv[i]
        BY <3>1
      <4> QED BY <4>1, <1>28
    <3>2. CASE \E i \in (h + 1)..z : x = kv[i]
      <4>1. PICK i \in (h + 1)..z : x = kv[i]
        BY <3>2
      <4> QED BY <4>1, <1>28
    <3> QED BY ONLY <2>1, <2>4, <3>1, <3>2
  <2>5. \A x : x \in D => \E i \in Own(q[r]) : x = kv[i]
    BY ONLY <2>4
  <2> QED BY <2>2, <2>3, <2>5
<1>32. D \in SUBSET Pages /\ g \in SUBSET Pages
  <2>1. ASSUME NEW x \in D PROVE x \in Pages
    <3>1. PICK i \in Own(q[r]) : x = kv[i]
      BY ONLY <1>31, x \in D
    <3> QED BY <3>1, <1>30
  <2>2. f \subseteq Pages /\ g = f \cup D
    BY <1>1, <1>11
  <2> QED BY ONLY <2>1, <2>2
<1>33. /\ d \in [Pages -> Paths]
       /\ \A x \in Pages : x \notin D => d[x] = IF x = kv[z] THEN key ELSE c[x]
  <2>1. << >> \in Paths
    <3>1. << >> \in Seq(Keys) /\ Len(<< >>) = 0
      BY EmptySeq
    <3>2. 0 <= MaxDepth
      BY DepthAssumption
    <3> QED BY ONLY <3>1, <3>2, PathsAre
  <2>2. \A x \in Pages : d[x] = IF x \in D THEN Unset ELSE IF x = kv[z] THEN key ELSE c[x]
    BY ONLY <1>11
  <2>3. \A x \in Pages : d[x] \in Paths
    BY ONLY <2>1, <2>2, <1>1, <1>10 DEF Unset
  <2>4. d = [x \in Pages |-> d[x]]
    BY ONLY <1>11
  <2> QED BY ONLY <2>2, <2>3, <2>4
\* The paths that are new, and their pages.
<1>34. ASSUME NEW p \in Known(v), p \notin Known(t)
       PROVE  Len(p) \in (known + 1)..h /\ PageAt(v, p) = kv[Len(p)] /\ IsPrefix(p, key)
              /\ p \in Seq(Keys)
  <2>1. p \in Seq(Keys) /\ p # << >> /\ IsPrefix(p, key) /\ PageAt(v, p) = kv[Len(p)]
    BY ONLY <1>20, p \in Known(v), p \notin Known(t)
  <2>2. Len(p) \in Nat /\ Len(p) <= h
    BY ONLY <2>1, <1>9, <1>14, PrefixOrder, Elements
  <2>3. ~ (Len(p) <= known)
    <3> SUFFICES ASSUME Len(p) <= known PROVE FALSE
      OBVIOUS
    <3>1. IsPrefix(p, s)
      BY ONLY <2>1, <1>10, <1>14, <1>17, Len(p) <= known, PrefixChain
    <3>2. s # << >>
      BY ONLY <3>1, <2>1, PrefixEmpty
    <3>3. s \in Known(t)
      BY ONLY <3>2, <1>17
    <3>4. p \in Known(t)
      BY ONLY <3>1, <3>3, <2>1, <1>14, KnownPrefix
    <3> QED BY ONLY <3>4, p \notin Known(t)
  <2> QED BY ONLY <2>1, <2>2, <2>3, <1>18
<1>35. ASSUME NEW i \in (known + 1)..h PROVE \E p \in Known(v) : PageAt(v, p) = kv[i]
  <2>1. i \in 0..h /\ i > known /\ i > 0
    BY ONLY i \in (known + 1)..h, <1>14, <1>18
  <2>2. PICK p : p = Cut(key, i)
    OBVIOUS
  <2>3. p \in Seq(Keys) /\ Len(p) = i /\ IsPrefix(p, key)
    BY ONLY <2>1, <2>2, <1>9, <1>14, CutOf
  <2>4. p # << >>
    BY ONLY <2>1, <2>3, EmptySeq
  <2>5. p \notin Known(t)
    <3> SUFFICES ASSUME p \in Known(t) PROVE FALSE
      OBVIOUS
    <3>1. IsPrefix(p, s)
      BY ONLY <2>3, <1>17, p \in Known(t)
    <3>2. Len(p) <= Len(s)
      BY ONLY <3>1, <2>3, <1>17, PrefixOrder
    <3> QED BY ONLY <3>2, <2>1, <2>3, <1>10, <1>18
  <2>6. p \in Known(v)
    BY ONLY <2>3, <2>4, <1>20
  <2> QED BY ONLY <2>3, <2>5, <2>6, <1>20
<1>36. RowsShare(u, b)
  <2> SUFFICES ASSUME NEW x \in Requests, NEW i \in 1..Len(b[x].node)
               PROVE  b[x].kv[i] = PageAt(u, Cut(b[x].node, i))
    BY DEF RowsShare
  <2>1. x # r
    <3>1. Len(<< >>) = 0
      BY EmptySeq
    <3> QED BY ONLY <3>1, <1>24, i \in 1..Len(b[x].node)
  <2>2. i \in 1..Len(q[x].node) /\ b[x] = q[x]
    BY ONLY <2>1, <1>23, x \in Requests, i \in 1..Len(b[x].node)
  <2>3. PICK p : p = Cut(q[x].node, i)
    OBVIOUS
  <2>4. p \in Known(t) /\ q[x].kv[i] = PageAt(t, p)
    BY ONLY <2>2, <2>3, <1>1, x \in Requests, SharedIs
  <2> QED BY ONLY <2>2, <2>3, <2>4, <1>20, <1>26
<1>37. TreePlaces(u, g, d)
  <2> SUFFICES ASSUME NEW p \in Known(v)
               PROVE  PageAt(v, p) \in Pages /\ PageAt(v, p) \notin g /\ d[PageAt(v, p)] = p
    BY <1>26 DEF TreePlaces
  <2>1. CASE p \in Known(t)
    <3>1. PageAt(t, p) \in Pages /\ PageAt(t, p) \notin f /\ c[PageAt(t, p)] = p
      BY ONLY <2>1, <1>1 DEF TreePlaces
    <3>2. \A i \in Own(q[r]) : PageAt(t, p) # kv[i]
      BY ONLY <2>1, <1>30
    <3>3. PageAt(t, p) \notin D /\ PageAt(t, p) # kv[z]
      BY ONLY <3>2, <1>28, <1>31
    <3>4. PageAt(v, p) = PageAt(t, p)
      BY ONLY <2>1, <1>20
    <3> QED BY ONLY <3>1, <3>3, <3>4, <1>11, <1>33
  <2>2. CASE p \notin Known(t)
    <3>1. PICK i : i = Len(p)
      OBVIOUS
    <3>2. i \in (known + 1)..h /\ PageAt(v, p) = kv[i] /\ IsPrefix(p, key) /\ p \in Seq(Keys)
      BY ONLY <2>2, <3>1, <1>34, p \in Known(v)
    <3>3. i \in Own(q[r]) /\ kv[i] \in Pages /\ kv[i] \notin f /\ kv[i] \notin D
      BY ONLY <3>2, <1>28, <1>30, <1>31
    <3>4. i \in Nat /\ i <= h
      BY ONLY <3>2, <1>14, <1>18
    <3>5. CASE i = z
      <4>1. i = h
        BY ONLY <3>4, <3>5, <1>14, <1>15
      <4>2. p = key
        BY ONLY <4>1, <3>1, <3>2, <1>9, <1>14, PrefixChain, PrefixOrder
      <4> QED BY ONLY <4>2, <3>2, <3>3, <3>5, <1>11, <1>33
    <3>6. CASE i # z
      <4>1. i \in 0..Len(k) /\ i <= Len(k)
        BY ONLY <3>4, <3>6, <1>13, <1>14, <1>15
      <4>2. IsPrefix(p, k)
        BY ONLY <4>1, <3>1, <3>2, <1>10, <1>13, <1>14, PrefixChain
      <4>3. \A y \in Seq(Keys) : IsPrefix(y, k) /\ Len(y) = i => y = Cut(k, i)
        BY ONLY <4>1, <1>13, CutOf
      <4>4. p = Cut(k, i)
        BY ONLY <4>2, <4>3, <3>1, <3>2
      <4>5. c[kv[i]] = p
        BY ONLY <4>1, <4>4, <3>3, <1>30
      <4>6. kv[i] # kv[z]
        BY ONLY <3>3, <3>6, <1>28, <1>30
      <4> QED BY ONLY <4>5, <4>6, <3>2, <3>3, <1>11, <1>33
    <3> QED BY ONLY <3>5, <3>6
  <2> QED BY ONLY <2>1, <2>2
<1>38. ASSUME NEW x \in Requests, NEW i \in Own(b[x])
       PROVE  x # r /\ b[x] = q[x] /\ i \in Own(q[x])
  <2>1. Own(b[r]) = {}
    <3>1. Len(<< >>) = 0
      BY EmptySeq
    <3>2. Own(b[r]) = (0 + 1)..0
      BY ONLY <3>1, <1>24 DEF Own
    <3> QED BY <3>2
  <2> QED BY ONLY <2>1, <1>23, x \in Requests, i \in Own(b[x])
<1>39. RowPlaces(u, g, b, d)
  <2> SUFFICES ASSUME NEW x \in Requests, NEW i \in Own(b[x])
               PROVE  /\ b[x].kv[i] \in Pages /\ b[x].kv[i] \notin g
                      /\ \A p \in Known(v) : b[x].kv[i] # PageAt(v, p)
                      /\ i <= Len(b[x].key) => d[b[x].kv[i]] = Cut(b[x].key, i)
    BY <1>26 DEF RowPlaces
  <2>1. x # r /\ b[x] = q[x] /\ i \in Own(q[x])
    BY ONLY <1>38, x \in Requests, i \in Own(b[x])
  <2>2. PICK y : y = q[x].kv[i]
    OBVIOUS
  <2>3. /\ y \in Pages /\ y \notin f /\ \A p \in Known(t) : y # PageAt(t, p)
        /\ i <= Len(q[x].key) => c[y] = Cut(q[x].key, i)
    BY ONLY <2>1, <2>2, <1>1, x \in Requests DEF RowPlaces
  <2>4. \A j \in Own(q[r]) : kv[j] # y
    BY ONLY <2>1, <2>2, <1>30, x \in Requests
  <2>5. y \notin D /\ y # kv[z]
    BY ONLY <2>4, <1>28, <1>31
  <2>6. \A p \in Known(v) : y # PageAt(v, p)
    <3> SUFFICES ASSUME NEW p \in Known(v) PROVE y # PageAt(v, p)
      OBVIOUS
    <3>1. CASE p \in Known(t)
      BY ONLY <3>1, <2>3, <1>20
    <3>2. CASE p \notin Known(t)
      <4>1. Len(p) \in (known + 1)..h /\ PageAt(v, p) = kv[Len(p)]
        BY ONLY <3>2, <1>34, p \in Known(v)
      <4> QED BY ONLY <4>1, <2>4, <1>28
    <3> QED BY ONLY <3>1, <3>2
  <2>7. d[y] = c[y]
    BY ONLY <2>3, <2>5, <1>33
  <2> QED BY ONLY <2>1, <2>2, <2>3, <2>5, <2>6, <2>7, <1>11
<1>40. RowsApart(b)
  <2> SUFFICES ASSUME NEW x \in Requests, NEW y \in Requests, NEW i \in Own(b[x]),
                      NEW j \in Own(b[y]), b[x].kv[i] = b[y].kv[j]
               PROVE  x = y /\ i = j
    BY DEF RowsApart
  <2>1. b[x] = q[x] /\ i \in Own(q[x]) /\ b[y] = q[y] /\ j \in Own(q[y])
    BY <1>38
  <2> QED BY <2>1, <1>1 DEF RowsApart
<1>41. Somewhere(u, g, b)
  <2> SUFFICES ASSUME NEW x \in Pages
               PROVE  \/ x \in g
                      \/ \E p \in Known(v) : x = PageAt(v, p)
                      \/ \E y \in Requests : \E i \in Own(b[y]) : x = b[y].kv[i]
    BY <1>26 DEF Somewhere
  <2>1. \/ x \in f
        \/ \E p \in Known(t) : x = PageAt(t, p)
        \/ \E y \in Requests : \E i \in Own(q[y]) : x = q[y].kv[i]
    BY ONLY <1>1, x \in Pages DEF Somewhere
  <2>2. ASSUME NEW i \in Own(q[r]), x = kv[i]
        PROVE  x \in D \/ \E p \in Known(v) : x = PageAt(v, p)
    BY ONLY <2>2, <1>29, <1>31, <1>35
  <2>3. CASE \E y \in Requests : \E i \in Own(q[y]) : x = q[y].kv[i]
    <3>1. PICK y \in Requests : \E i \in Own(q[y]) : x = q[y].kv[i]
      BY ONLY <2>3
    <3>2. PICK i \in Own(q[y]) : x = q[y].kv[i]
      BY ONLY <3>1
    <3>3. CASE y = r
      BY ONLY <3>2, <3>3, <2>2, <1>2, <1>11
    <3>4. CASE y # r
      BY ONLY <3>1, <3>2, <3>4, <1>23
    <3> QED BY ONLY <3>3, <3>4
  <2>4. CASE \E p \in Known(t) : x = PageAt(t, p)
    BY ONLY <2>4, <1>20
  <2> QED BY ONLY <2>1, <2>3, <2>4, <1>11
<1>42. ReqsInv(b)
  <2>1. Idle \in Rows /\ RowIs(Idle)
    <3>1. << >> \in Seq(Keys) /\ Len(<< >>) = 0 /\ << >> \in Seq(Pages)
      BY EmptySeq
    <3>2. << >> \in Paths
      <4>1. 0 <= MaxDepth
        BY DepthAssumption
      <4> QED BY ONLY <3>1, <4>1, PathsAre
    <3>3. IsPrefix(<< >>, << >>)
      BY ONLY <3>1, PrefixOrder
    <3> QED BY <3>1, <3>2, <3>3 DEF Idle, Rows, RowIs
  <2>2. \A x \in Requests : b[x] \in Rows /\ RowIs(b[x])
    BY ONLY <2>1, <1>1, <1>12, <1>23 DEF ReqsInv
  <2> QED BY ONLY <2>2, <1>12 DEF ReqsInv, Only
<1>43. Grew(t, key, u)
  BY ONLY <1>20, <1>26 DEF Grew
<1> QED BY ONLY <1>25, <1>27, <1>32, <1>33, <1>36, <1>37, <1>39, <1>40, <1>41, <1>42, <1>43
        DEF CacheInv, PlacesInv

---------------------------------------------------------------------------
(* The invariant of the specification.                                      *)

RadixInv == CacheInv(tree, free_pages, req, lost, content) /\ Len(lost) <= MaxRematches

\* The parts of the invariant that the properties need.
LEMMA InvParts ==
  ASSUME NEW t, NEW f, NEW q, NEW l, NEW c, CacheInv(t, f, q, l, c)
  PROVE  /\ TreeInv(t) /\ IsTree(Keys, t) /\ Nodes(t) \in SUBSET (Seq(Keys) \ {<< >>})
         /\ Nodes(t) \in SUBSET Paths /\ Meets(Keys, Nodes(t)) /\ IsFiniteSet(Nodes(t))
         /\ ReqsInv(q) /\ LocksInv(t, q, l) /\ StandsIn(t, q, l) /\ Counted(t, q, l) /\ Sized(t, q, l)
         /\ RowsShare(t, q) /\ f \in SUBSET Pages /\ c \in [Pages -> Paths]
         /\ TreePlaces(t, f, c) /\ RowPlaces(t, f, q, c) /\ RowsApart(q) /\ Somewhere(t, f, q)
<1> QED BY DEF CacheInv, TreeInv, IsTree, LocksInv, PlacesInv

\* The invariant holds of every result of evict, before its caller goes on.
LEMMA EvictStep ==
  ASSUME RadixInv, NEW need, NEW e \in Evict(need)
  PROVE  CacheInv(e.tree, e.free, req, lost, Clear(e.free))
<1>1. IsTree(Keys, tree) /\ CacheInv(tree, free_pages, req, lost, content)
  BY DEF RadixInv, CacheInv, TreeInv
<1>2. Evicted(Keys, Itself, tree, free_pages, e)
  BY <1>1, EvictedIs DEF Evict
<1>3. PICK d : d = Clear(e.free)
  OBVIOUS
<1>4. d = [p \in Pages |-> IF p \in e.free THEN Unset ELSE content[p]]
  BY ONLY <1>3 DEF Clear
<1>5. CacheInv(e.tree, e.free, req, lost, d)
  BY ONLY <1>1, <1>2, <1>4, EvictKeeps
<1> QED BY ONLY <1>3, <1>5

\* The invariant holds at the start.
LEMMA RadixStart ==
  ASSUME NEW q, q = [r \in Requests |-> Idle], NEW l, l = << >>,
         NEW c, c = [p \in Pages |-> Unset]
  PROVE  CacheInv(EmptyTree, Pages, q, l, c)
<1> DEFINE t == EmptyTree
<1>1. IsTree(Keys, t) /\ Known(t) = {} /\ Nodes(t) = {}
  BY EmptyIsTree
<1>2. t.evictable = 0 /\ t.protected = 0
  BY DEF EmptyTree
<1> HIDE DEF t
<1>3. TreeInv(t)
  BY <1>1 DEF TreeInv
<1>4. << >> \in Seq(Keys) /\ Len(<< >>) = 0 /\ << >> \in Seq(Pages)
  BY EmptySeq
<1>5. << >> \in Paths
  <2>1. 0 <= MaxDepth
    BY DepthAssumption
  <2> QED BY ONLY <2>1, <1>4, PathsAre
<1>6. Idle \in Rows /\ RowIs(Idle) /\ Idle.node = << >> /\ Idle.kv = << >>
  <2>1. IsPrefix(<< >>, << >>)
    BY ONLY <1>4, PrefixOrder
  <2> QED BY <2>1, <1>4, <1>5 DEF Idle, Rows, RowIs
<1>7. ReqsInv(q)
  BY <1>6 DEF ReqsInv
<1>8. LocksInv(t, q, l)
  <2>1. Pinned(t, q, l) = {} /\ Known(t) \ Pinned(t, q, l) = {}
    BY ONLY <1>1 DEF Pinned
  <2>2. Cardinality({}) = 0
    BY FS_EmptySet
  <2>3. Sized(t, q, l)
    BY ONLY <2>1, <2>2, <1>2 DEF Sized
  <2>4. Counted(t, q, l)
    BY ONLY <1>1 DEF Counted
  <2>6. l \in Seq(Paths) /\ DOMAIN l = {}
    BY <1>4
  <2>5. StandsIn(t, q, l)
    BY <1>6, <2>6 DEF StandsIn
  <2> QED BY ONLY <2>3, <2>4, <2>5 DEF LocksInv
<1>9. \A r \in Requests : Own(q[r]) = {} /\ Len(q[r].node) = 0
  <2>1. Own(Idle) = (0 + 1)..0
    BY ONLY <1>4, <1>6 DEF Own
  <2>2. Own(Idle) = {}
    BY <2>1
  <2> QED BY <2>2, <1>4, <1>6
<1>10. RowsShare(t, q)
  BY <1>9 DEF RowsShare
<1>11. TreePlaces(t, Pages, c) /\ RowPlaces(t, Pages, q, c) /\ RowsApart(q) /\ Somewhere(t, Pages, q)
  BY ONLY <1>1, <1>9 DEF TreePlaces, RowPlaces, RowsApart, Somewhere
<1>12. c \in [Pages -> Paths]
  BY <1>5 DEF Unset
<1> QED BY <1>3, <1>7, <1>8, <1>10, <1>11, <1>12 DEF CacheInv, PlacesInv, t

\* Lookup keeps the invariant, as prefix_for_waiting_req does, at the first match of a request
\* and at a later one.
LEMMA LookupStep ==
  ASSUME RadixInv, NEW r \in Requests, NEW key \in Paths, Lookup(r, key)
  PROVE  /\ RadixInv' /\ SameMap(tree, tree') /\ Only(req, req', r)
         /\ req[r].node \in Prefixes(key) /\ req'[r].node = Matched(tree, key)
<1>1. PICK s : s = Matched(tree, key)
  OBVIOUS
<1>2. PICK w : w = Walk(tree, key)
  OBVIOUS
<1>3. /\ tree' = IncLock(w, s)
      /\ req' = [req EXCEPT ![r] = [state |-> "matched", key |-> key, node |-> s,
                                    kv |-> ValueTo(w, s)]]
      /\ free_pages' = free_pages /\ content' = content
  BY <1>1, <1>2 DEF Lookup
<1>4. \/ req[r].state = "idle" /\ lost' = lost
      \/ /\ req[r].state = "matched" /\ key = req[r].key /\ Len(lost) < MaxRematches
         /\ lost' = IF req[r].node = << >> THEN lost ELSE Append(lost, req[r].node)
  BY DEF Lookup
<1>5. /\ CacheInv(tree, free_pages, req, lost, content) /\ Len(lost) <= MaxRematches
      /\ ReqsInv(req) /\ req \in [Requests -> Rows] /\ lost \in Seq(Paths)
  BY ONLY RadixInv, InvParts DEF RadixInv, ReqsInv, StandsIn
<1>6. /\ req'[r] = [state |-> "matched", key |-> key, node |-> s, kv |-> ValueTo(w, s)]
      /\ Only(req, req', r)
  BY ONLY <1>3, <1>5, r \in Requests DEF Only
<1>7. req'[r].node = s
  BY ONLY <1>6
<1>8. key \in Seq(Keys)
  BY ONLY key \in Paths, PathsAre
<1>9. CASE req[r].state = "idle" /\ lost' = lost
  <2>1. Looked(tree, req, tree', req', r, key, s, w)
    BY ONLY <1>1, <1>2, <1>3, <1>6, <1>9, key \in Paths DEF Looked
  <2>2. CacheInv(tree', free_pages, req', lost, content) /\ SameMap(tree, tree')
    BY ONLY <2>1, <1>5, r \in Requests, LookupKeeps
  <2>3. req[r] = Idle
    BY ONLY <1>5, <1>9, r \in Requests DEF ReqsInv, RowIs
  <2>4. req[r].node = << >>
    BY ONLY <2>3 DEF Idle
  <2>5. req[r].node \in Prefixes(key)
    BY ONLY <2>4, <1>8, PrefixEmpty, PrefixesAre
  <2> QED BY ONLY <2>2, <2>5, <1>1, <1>3, <1>5, <1>6, <1>7, <1>9 DEF RadixInv
<1>10. CASE /\ req[r].state = "matched" /\ key = req[r].key /\ Len(lost) < MaxRematches
            /\ lost' = IF req[r].node = << >> THEN lost ELSE Append(lost, req[r].node)
  <2>1. PICK b : b = [req EXCEPT ![r] = Idle]
    OBVIOUS
  <2>2. b = [x \in Requests |-> b[x]] /\ b[r] = Idle /\ \A x \in Requests : x # r => b[x] = req[x]
    BY ONLY <2>1, <1>5, r \in Requests
  <2>3. Forgotten(req, lost, b, lost', r)
    BY ONLY <2>2, <1>10 DEF Forgotten, Only
  <2>4. CacheInv(tree, free_pages, b, lost', content)
    BY ONLY <2>3, <1>5, r \in Requests, ForgetKeeps
  <2>5. Only(b, req', r) /\ b[r].state = "idle"
    BY ONLY <2>2, <1>6 DEF Only, Idle
  <2>6. Looked(tree, b, tree', req', r, key, s, w)
    BY ONLY <2>5, <1>1, <1>2, <1>3, <1>6, key \in Paths DEF Looked
  <2>7. CacheInv(tree', free_pages, req', lost', content) /\ SameMap(tree, tree')
    BY ONLY <2>4, <2>6, r \in Requests, LookupKeeps
  <2>8. req[r].node \in Prefixes(key)
    <3>1. req[r].node \in Seq(Keys) /\ IsPrefix(req[r].node, req[r].key)
      BY ONLY <1>5, r \in Requests, RowParts
    <3> QED BY ONLY <3>1, <1>8, <1>10, PrefixesAre
  <2>9. Len(lost') <= MaxRematches
    <3>1. req[r].node \in Paths
      BY ONLY <1>5, r \in Requests, RowParts
    <3>2. Len(Append(lost, req[r].node)) = Len(lost) + 1 /\ Len(lost) \in Nat
      BY ONLY <3>1, <1>5
    <3>3. MaxRematches \in Nat
      BY DepthAssumption
    <3> QED BY ONLY <3>2, <3>3, <1>5, <1>10
  <2> QED BY ONLY <2>7, <2>8, <2>9, <1>1, <1>3, <1>6, <1>7 DEF RadixInv
<1> QED BY ONLY <1>4, <1>9, <1>10

\* What prefill and grow leave of the tree, and of the nodes the requests stand on.
Shed(e) == tree' = e.tree /\ \A s \in Requests : req'[s].node = req[s].node

\* Prefill keeps the invariant, whatever evict has freed before.
LEMMA PrefillStep ==
  ASSUME RadixInv, NEW r \in Requests, Prefill(r)
  PROVE  RadixInv' /\ \E need : \E e \in Evict(need) : Shed(e)
<1>1. PICK n : n = Len(req[r].key) + 1 - Len(req[r].node)
  OBVIOUS
<1>2. /\ req[r].state = "matched"
      /\ \E e \in Evict(n - Cardinality(free_pages)) :
           LET new == FirstFree(e.free, n)
               row == req[r].kv \o new
           IN /\ n <= Cardinality(e.free)
              /\ tree' = e.tree
              /\ free_pages' = e.free \ Range(new)
              /\ req' = [req EXCEPT ![r].state = "running", ![r].kv = row]
              /\ content' = Written(req[r].key, row, Range(new), Clear(e.free))
  BY <1>1 DEF Prefill
<1>3. PICK e \in Evict(n - Cardinality(free_pages)) :
           LET new == FirstFree(e.free, n)
               row == req[r].kv \o new
           IN /\ n <= Cardinality(e.free)
              /\ tree' = e.tree
              /\ free_pages' = e.free \ Range(new)
              /\ req' = [req EXCEPT ![r].state = "running", ![r].kv = row]
              /\ content' = Written(req[r].key, row, Range(new), Clear(e.free))
  BY ONLY <1>2
<1>4. PICK new : new = FirstFree(e.free, n)
  OBVIOUS
<1>5. PICK row : row = req[r].kv \o new
  OBVIOUS
<1>6. PICK c : c = Clear(e.free)
  OBVIOUS
<1>7. /\ n <= Cardinality(e.free) /\ tree' = e.tree /\ free_pages' = e.free \ Range(new)
      /\ req' = [req EXCEPT ![r].state = "running", ![r].kv = row]
      /\ content' = Written(req[r].key, row, Range(new), c)
  BY ONLY <1>3, <1>4, <1>5, <1>6
<1>15. lost' = lost
  BY DEF Prefill
<1>8. CacheInv(e.tree, e.free, req, lost, c)
  BY ONLY <1>6, RadixInv, EvictStep, e \in Evict(n - Cardinality(free_pages))
<1>9. req \in [Requests -> Rows] /\ req[r] \in Rows
  BY ONLY <1>8, r \in Requests DEF CacheInv, ReqsInv
<1>10. /\ req'[r] = [state |-> "running", key |-> req[r].key, node |-> req[r].node, kv |-> row]
       /\ req' = [s \in Requests |-> req'[s]] /\ \A s \in Requests : s # r => req'[s] = req[s]
  BY ONLY <1>7, <1>9, r \in Requests DEF Rows
<1>11. Only(req, req', r)
  BY ONLY <1>10 DEF Only
<1>12. PrefillRow(e.free, req, c, req', content', r, n, new, row)
  BY ONLY <1>1, <1>2, <1>4, <1>5, <1>7, <1>10, <1>11 DEF PrefillRow
<1>13. CacheInv(e.tree, e.free \ Range(new), req', lost, content')
  BY ONLY <1>8, <1>12, r \in Requests, PrefillKeeps
<1>14. Shed(e)
  <2>1. req'[r].node = req[r].node
    BY <1>10
  <2>2. tree' = e.tree
    BY ONLY <1>7
  <2> QED BY ONLY <2>1, <2>2, <1>11 DEF Shed, Only
<1> QED BY ONLY RadixInv, <1>7, <1>13, <1>14, <1>15, e \in Evict(n - Cardinality(free_pages)) DEF RadixInv

\* Grow keeps the invariant, whatever evict has freed before.
LEMMA GrowStep ==
  ASSUME RadixInv, NEW r \in Requests, NEW k \in Keys, Grow(r, k)
  PROVE  RadixInv' /\ \E need : \E e \in Evict(need) : Shed(e)
<1>1. PICK key : key = Append(req[r].key, k)
  OBVIOUS
<1>2. /\ req[r].state = "running" /\ Len(key) <= MaxDepth
      /\ \E e \in Evict(1 - Cardinality(free_pages)) :
           /\ e.free # {}
           /\ tree' = e.tree
           /\ free_pages' = e.free \ {NthFree(e.free, 0)}
           /\ req' = [req EXCEPT ![r].key = key, ![r].kv = Append(@, NthFree(e.free, 0))]
           /\ content' = [Clear(e.free) EXCEPT ![req[r].kv[Len(key)]] = key]
  BY <1>1 DEF Grow
<1>3. PICK e \in Evict(1 - Cardinality(free_pages)) :
           /\ e.free # {}
           /\ tree' = e.tree
           /\ free_pages' = e.free \ {NthFree(e.free, 0)}
           /\ req' = [req EXCEPT ![r].key = key, ![r].kv = Append(@, NthFree(e.free, 0))]
           /\ content' = [Clear(e.free) EXCEPT ![req[r].kv[Len(key)]] = key]
  BY ONLY <1>2
<1>4. PICK x : x = NthFree(e.free, 0)
  OBVIOUS
<1>5. PICK c : c = Clear(e.free)
  OBVIOUS
<1>6. /\ tree' = e.tree /\ free_pages' = e.free \ {x} /\ e.free # {}
      /\ req' = [req EXCEPT ![r].key = key, ![r].kv = Append(@, x)]
      /\ content' = [c EXCEPT ![req[r].kv[Len(key)]] = key]
  BY ONLY <1>3, <1>4, <1>5
<1>17. lost' = lost
  BY DEF Grow
<1>7. CacheInv(e.tree, e.free, req, lost, c)
  BY ONLY <1>5, RadixInv, EvictStep, e \in Evict(1 - Cardinality(free_pages))
<1>8. ReqsInv(req) /\ req \in [Requests -> Rows] /\ req[r] \in Rows /\ e.free \in SUBSET Pages
  BY ONLY <1>7, r \in Requests DEF CacheInv, PlacesInv, ReqsInv
<1>9. req[r].key \in Seq(Keys) /\ Len(req[r].key) \in Nat
  BY ONLY <1>8, r \in Requests, RowParts
<1>10. /\ key \in Paths /\ Len(key) = Len(req[r].key) + 1 /\ IsPrefix(req[r].key, key)
  <2>1. PICK o : o = req[r].key
    OBVIOUS
  <2>2. /\ key \in Seq(Keys) /\ Len(key) = Len(o) + 1 /\ o \in Seq(Keys) /\ Len(o) \in Nat
        /\ \A i \in 1..Len(o) : o[i] = key[i]
    BY ONLY <1>1, <1>9, <2>1, k \in Keys
  <2>3. Len(o) <= Len(key)
    BY ONLY <2>2
  <2>4. IsPrefix(o, key)
    BY ONLY <2>2, <2>3, PrefixIs
  <2>5. key \in Paths
    BY ONLY <2>2, <1>2, PathsAre
  <2> QED BY ONLY <2>1, <2>2, <2>4, <2>5
<1>11. x \in e.free
  <2>1. Cardinality(e.free) \in Nat /\ IsFiniteSet(e.free) /\ e.free \in SUBSET Int
    BY ONLY <1>8, PagesFinite
  <2>2. Cardinality(e.free) # 0
    BY ONLY <2>1, <1>6, FS_EmptySet
  <2>3. 0 \in 0..(Cardinality(e.free) - 1)
    BY ONLY <2>1, <2>2
  <2> QED BY ONLY <2>1, <2>3, <1>4, NthFreeProp
<1>12. /\ req'[r] = [state |-> "running", key |-> key, node |-> req[r].node,
                     kv |-> Append(req[r].kv, x)]
       /\ req' = [s \in Requests |-> req'[s]] /\ \A s \in Requests : s # r => req'[s] = req[s]
  BY ONLY <1>2, <1>6, <1>8, r \in Requests DEF Rows
<1>13. Only(req, req', r)
  BY ONLY <1>12 DEF Only
<1>14. Grown(e.free, req, c, req', content', r, key, x)
  BY ONLY <1>2, <1>6, <1>10, <1>11, <1>12, <1>13 DEF Grown
<1>15. CacheInv(e.tree, e.free \ {x}, req', lost, content')
  BY ONLY <1>7, <1>14, r \in Requests, GrowKeeps
<1>16. Shed(e)
  <2>1. req'[r].node = req[r].node
    BY <1>12
  <2>2. tree' = e.tree
    BY ONLY <1>6
  <2> QED BY ONLY <2>1, <2>2, <1>13 DEF Shed, Only
<1> QED BY ONLY RadixInv, <1>6, <1>15, <1>16, <1>17, e \in Evict(1 - Cardinality(free_pages)) DEF RadixInv

\* Release keeps the invariant.
LEMMA ReleaseStep ==
  ASSUME RadixInv, NEW r \in Requests, NEW key \in Paths, Release(r, key)
  PROVE  /\ RadixInv' /\ Grew(tree, key, tree') /\ Only(req, req', r)
         /\ req'[r].node = << >>
<1>1. PICK kv : kv = req[r].kv
  OBVIOUS
<1>2. PICK known : known = Len(Matched(tree, key))
  OBVIOUS
<1>3. PICK D : D = {kv[i] : i \in (Len(req[r].node) + 1)..known}
                   \cup {kv[i] : i \in (Len(key) + 1)..Len(kv)}
  OBVIOUS
<1>4. /\ req[r].state = "running"
      /\ key \in {req[r].key} \cup {Append(req[r].key, k) : k \in Keys}
      /\ tree' = DecLock(Insert(tree, key, kv), req[r].node)
      /\ free_pages' = free_pages \cup D
      /\ content' = [p \in Pages |-> IF p \in D THEN Unset
                                     ELSE IF p = kv[Len(kv)] THEN key ELSE content[p]]
      /\ req' = [req EXCEPT ![r] = Idle] /\ lost' = lost
  BY ONLY <1>1, <1>2, <1>3, Release(r, key) DEF Release
<1>5. ReqsInv(req) /\ req \in [Requests -> Rows]
  BY ONLY RadixInv, r \in Requests DEF RadixInv, CacheInv, PlacesInv, ReqsInv
<1>6. req[r].key \in Seq(Keys) /\ Len(req[r].key) \in Nat
  BY ONLY <1>5, r \in Requests, RowParts
<1>7. IsPrefix(req[r].key, key) /\ Len(key) <= Len(req[r].key) + 1
  <2>1. PICK o : o = req[r].key
    OBVIOUS
  <2>2. CASE key = o
    BY ONLY <2>1, <2>2, <1>6, PrefixOrder
  <2>3. ASSUME NEW k \in Keys, key = Append(o, k)
        PROVE  IsPrefix(o, key) /\ Len(key) <= Len(o) + 1
    <3>1. /\ key \in Seq(Keys) /\ Len(key) = Len(o) + 1 /\ o \in Seq(Keys) /\ Len(o) \in Nat
          /\ \A i \in 1..Len(o) : o[i] = key[i]
      BY ONLY <1>6, <2>1, <2>3
    <3>2. Len(o) <= Len(key)
      BY ONLY <3>1
    <3> QED BY ONLY <3>1, <3>2, PrefixIs
  <2> QED BY ONLY <1>4, <2>1, <2>2, <2>3
<1>8. Only(req, req', r) /\ req'[r] = Idle
  BY ONLY <1>4, <1>5, r \in Requests DEF Only
<1>9. Released(tree, free_pages, req, content, tree', free_pages', req', content', r, key, D, known)
  BY ONLY <1>1, <1>2, <1>3, <1>4, <1>7, <1>8, key \in Paths DEF Released
<1>10. CacheInv(tree', free_pages', req', lost, content') /\ Grew(tree, key, tree')
  BY ONLY <1>9, RadixInv, r \in Requests, ReleaseKeeps DEF RadixInv
<1>11. req'[r].node = << >>
  BY <1>8 DEF Idle
<1> QED BY ONLY RadixInv, <1>4, <1>8, <1>10, <1>11 DEF RadixInv

\* The tree, the locks, the rows and the pages belong together in every reachable state.
THEOREM RadixInvariance == Spec => []RadixInv
<1>1. Init => RadixInv
  <2>1. << >> \in Seq(Paths) /\ Len(<< >>) = 0 /\ 0 <= MaxRematches
    BY EmptySeq, DepthAssumption
  <2> QED BY <2>1, RadixStart DEF Init, RadixInv
<1>2. ASSUME RadixInv, [Next]_vars PROVE RadixInv'
  <2>1. ASSUME NEW r \in Requests, NEW key \in Paths, Lookup(r, key) PROVE RadixInv'
    BY ONLY <1>2, <2>1, LookupStep
  <2>2. ASSUME NEW r \in Requests, Prefill(r) PROVE RadixInv'
    BY ONLY <1>2, <2>2, PrefillStep
  <2>3. ASSUME NEW r \in Requests, NEW k \in Keys, Grow(r, k) PROVE RadixInv'
    BY ONLY <1>2, <2>3, GrowStep
  <2>4. ASSUME NEW r \in Requests, NEW key \in Paths, Release(r, key) PROVE RadixInv'
    BY ONLY <1>2, <2>4, ReleaseStep
  <2>5. CASE UNCHANGED vars
    BY ONLY <1>2, <2>5 DEF RadixInv, vars
  <2> QED BY ONLY <1>2, <2>1, <2>2, <2>3, <2>4, <2>5 DEF Next
<1> QED BY ONLY <1>1, <1>2, PTL DEF Spec

---------------------------------------------------------------------------
(* What follows from the invariant.                                         *)

\* Pages of the tree and of rows hold what their paths say.
LEMMA ContentIs ==
  ASSUME RadixInv
  PROVE  ContentMatchesPath
<1>1. PICK t : t = tree
  OBVIOUS
<1>2. PICK q : q = req
  OBVIOUS
<1>3. PICK c : c = content
  OBVIOUS
<1>4. PICK f : f = free_pages
  OBVIOUS
<1>20. PICK l : l = lost
  OBVIOUS
<1>5. CacheInv(t, f, q, l, c)
  BY ONLY <1>1, <1>2, <1>3, <1>4, <1>20, RadixInv DEF RadixInv
<1>6. /\ TreeInv(t) /\ Nodes(t) \in SUBSET (Seq(Keys) \ {<< >>}) /\ ReqsInv(q) /\ StandsIn(t, q, l)
      /\ RowsShare(t, q) /\ TreePlaces(t, f, c) /\ RowPlaces(t, f, q, c)
  BY ONLY <1>5, InvParts
<1>7. ASSUME NEW n \in Nodes(t), NEW p \in Prefixes(n) \ {<< >>}
      PROVE  c[PageAt(t, p)] = p
  <2>1. p \in Known(t)
    BY <1>7 DEF Known
  <2> QED BY ONLY <2>1, <1>6 DEF TreePlaces
<1>8. ASSUME NEW r \in Requests, NEW i \in 1..Len(q[r].kv), i <= Len(q[r].key)
      PROVE  c[q[r].kv[i]] = SubSeq(q[r].key, 1, i)
  <2>1. PICK k : k = q[r].key
    OBVIOUS
  <2>2. PICK n : n = q[r].node
    OBVIOUS
  <2>3. Len(n) \in Nat /\ Len(q[r].kv) \in Nat
    BY ONLY <2>2, <1>6, r \in Requests, RowParts
  <2>4. CASE i \in 1..Len(n)
    <3>1. PICK p : p = Cut(q[r].node, i)
      OBVIOUS
    <3>2. p \in Known(t) /\ p = Cut(q[r].key, i) /\ q[r].kv[i] = PageAt(t, p)
      BY ONLY <2>2, <2>4, <3>1, <1>6, r \in Requests, SharedIs
    <3>3. c[PageAt(t, p)] = p
      BY ONLY <3>2, <1>6 DEF TreePlaces
    <3> QED BY ONLY <3>2, <3>3 DEF Cut
  <2>5. CASE i \notin 1..Len(n)
    <3>1. i \in Own(q[r])
      BY ONLY <2>2, <2>3, <2>5, i \in 1..Len(q[r].kv) DEF Own
    <3>2. i <= Len(q[r].key) => c[q[r].kv[i]] = Cut(q[r].key, i)
      BY ONLY <3>1, <1>6, r \in Requests DEF RowPlaces
    <3> QED BY ONLY <3>2, <1>8 DEF Cut
  <2> QED BY ONLY <2>4, <2>5
<1> QED BY ONLY <1>1, <1>2, <1>3, <1>7, <1>8 DEF ContentMatchesPath

\* lock_ref and the two sizes, counted by nodes as radix_cache.py does.
LEMMA AccountingIs ==
  ASSUME RadixInv
  PROVE  LockAccounting
<1>1. PICK t : t = tree
  OBVIOUS
<1>2. PICK q : q = req
  OBVIOUS
<1>20. PICK l : l = lost
  OBVIOUS
<1>3. CacheInv(t, free_pages, q, l, content)
  BY ONLY <1>1, <1>2, <1>20, RadixInv DEF RadixInv
<1>4. /\ TreeInv(t) /\ IsTree(Keys, t) /\ Nodes(t) \in SUBSET (Seq(Keys) \ {<< >>})
      /\ Meets(Keys, Nodes(t)) /\ ReqsInv(q) /\ StandsIn(t, q, l) /\ Counted(t, q, l) /\ Sized(t, q, l)
  BY ONLY <1>3, InvParts
<1>5. ASSUME NEW n \in Nodes(t) PROVE Holders(n) = On(q, n) /\ Leaked(n) = Left(l, n)
  <2>1. ~ IsPrefix(n, << >>)
    BY ONLY <1>4, n \in Nodes(t), PrefixEmpty
  <2>2. \A r \in Requests : q[r].state = "idle" => q[r].node = << >>
    BY ONLY <1>4 DEF ReqsInv, RowIs, Idle
  <2> QED BY ONLY <2>1, <2>2, <1>2, <1>20 DEF Holders, On, Leaked, Left
<1>6. \A n \in Nodes(t) : t.lock[n] = Cardinality(Holders(n)) + Cardinality(Leaked(n))
  BY ONLY <1>4, <1>5 DEF Counted, LocksOn
<1>7. ASSUME NEW p \in Known(t)
      PROVE  /\ At(t, p) \in Nodes(t) /\ t.lock[At(t, p)] \in Nat
             /\ t.lock[At(t, p)] = 0 <=> Unheld(q, l, p)
  <2>1. t.lock[At(t, p)] = LocksOn(q, l, p)
    BY ONLY <1>4, p \in Known(t), OnAt
  <2>2. At(t, p) \in Nodes(t)
    BY ONLY <1>4, p \in Known(t), AtIs
  <2>3. l \in Seq(Paths)
    BY ONLY <1>4 DEF StandsIn
  <2> QED BY ONLY <2>1, <2>2, <2>3, OnFinite
<1>8. PICK U : U = {n \in Nodes(t) : t.lock[n] = 0}
  OBVIOUS
<1>9. PICK L : L = {n \in Nodes(t) : t.lock[n] > 0}
  OBVIOUS
<1>10. /\ PagesIn(t, U) = Cardinality(PathsIn(t, U))
       /\ PagesIn(t, L) = Cardinality(PathsIn(t, L))
  <2>1. U \in SUBSET Nodes(t) /\ L \in SUBSET Nodes(t)
    BY ONLY <1>8, <1>9
  <2> QED BY ONLY <2>1, <1>4, PagesInIs
<1>11. PathsIn(t, U) = Known(t) \ Pinned(t, q, l)
  BY ONLY <1>7, <1>8 DEF PathsIn, Pinned
<1>12. PathsIn(t, L) = Pinned(t, q, l)
  <2>1. \A x \in Nat : x > 0 <=> x # 0
    OBVIOUS
  <2>2. \A p \in Known(t) : At(t, p) \in L <=> ~ Unheld(q, l, p)
    BY ONLY <2>1, <1>7, <1>9
  <2> QED BY ONLY <2>2 DEF PathsIn, Pinned
<1>13. t.evictable = PagesIn(t, U) /\ t.protected = PagesIn(t, L)
  BY ONLY <1>4, <1>10, <1>11, <1>12 DEF Sized
<1> QED BY ONLY <1>1, <1>6, <1>8, <1>9, <1>13 DEF LockAccounting

\* Every known path has a page of its own.

\* Different paths have different pages.
LEMMA PagesOwn ==
  ASSUME NEW t, NEW f, NEW q, NEW l, NEW c, CacheInv(t, f, q, l, c), NEW S \in SUBSET Known(t)
  PROVE  /\ IsFiniteSet(S) /\ Cardinality(S) \in Nat /\ Cardinality(S) <= NumPages
         /\ {PageAt(t, p) : p \in S} \in SUBSET Pages
         /\ Cardinality({PageAt(t, p) : p \in S}) = Cardinality(S)
<1>1. IsTree(Keys, t) /\ TreePlaces(t, f, c)
  BY ONLY CacheInv(t, f, q, l, c), InvParts
<1>2. IsFiniteSet(Known(t))
  BY ONLY <1>1, KnownFinite
<1>3. IsFiniteSet(S) /\ Cardinality(S) \in Nat
  BY ONLY <1>2, S \in SUBSET Known(t), FS_Subset, FS_CardinalityType
<1> DEFINE T == {PageAt(t, p) : p \in S}
           g == [p \in S |-> PageAt(t, p)]
<1>4. T \in SUBSET Pages
  BY <1>1 DEF TreePlaces
<1>5. \A x, y \in S : g[x] = g[y] => x = y
  BY <1>1 DEF TreePlaces
<1>6. g \in [S -> T] /\ \A y \in T : \E x \in S : g[x] = y
  OBVIOUS
<1> HIDE DEF g, T
<1>7. Cardinality(T) = Cardinality(S)
  BY ONLY <1>3, <1>5, <1>6, ImageCount
<1>8. Cardinality(T) <= NumPages
  <2> DEFINE n == NumPages
  <2>1. n \in Int /\ 1 \in Int /\ n >= 0
    BY DepthAssumption
  <2>2. Pages = 1..n
    BY DEF Pages
  <2> HIDE DEF n
  <2>3. IsFiniteSet(1..n) /\ Cardinality(1..n) = IF 1 > n THEN 0 ELSE n - 1 + 1
    BY ONLY <2>1, FS_Interval
  <2>4. Cardinality(1..n) = n
    BY ONLY <2>1, <2>3
  <2>5. IsFiniteSet(Pages) /\ Cardinality(Pages) = n
    BY ONLY <2>2, <2>3, <2>4
  <2>6. Cardinality(T) <= Cardinality(Pages)
    BY ONLY <1>4, <2>5, FS_Subset
  <2> QED BY <2>5, <2>6 DEF n
<1> QED BY <1>3, <1>4, <1>7, <1>8 DEF T

\* The pages of a node.
LEMMA NodePages ==
  ASSUME NEW t, NEW f, NEW q, NEW l, NEW c, CacheInv(t, f, q, l, c), NEW n \in Nodes(t)
  PROVE  /\ Range(t.value[n]) = {PageAt(t, p) : p \in PathsIn(t, {n})}
         /\ PathsIn(t, {n}) \in SUBSET Known(t)
         /\ Range(t.value[n]) \in SUBSET Pages
         /\ Len(t.value[n]) = Cardinality(Range(t.value[n]))
<1>1. IsTree(Keys, t)
  BY ONLY CacheInv(t, f, q, l, c), InvParts
<1>2. PICK S : S = PathsIn(t, {n})
  OBVIOUS
<1>3. S \in SUBSET Known(t)
  BY ONLY <1>2 DEF PathsIn
<1>4. Range(t.value[n]) = {PageAt(t, p) : p \in S} /\ Len(t.value[n]) = Cardinality(S)
  BY ONLY <1>1, <1>2, n \in Nodes(t), ValueOf
<1>5. /\ {PageAt(t, p) : p \in S} \in SUBSET Pages
      /\ Cardinality({PageAt(t, p) : p \in S}) = Cardinality(S)
  BY ONLY <1>3, CacheInv(t, f, q, l, c), PagesOwn
<1> QED BY ONLY <1>2, <1>3, <1>4, <1>5

\* Free pages, tree pages and own pages make up the pool and do not meet.
LEMMA PlaceIs ==
  ASSUME RadixInv
  PROVE  OnePlace
<1>1. PICK t : t = tree
  OBVIOUS
<1>2. PICK q : q = req
  OBVIOUS
<1>3. PICK f : f = free_pages
  OBVIOUS
<1>4. PICK c : c = content
  OBVIOUS
<1>20. PICK l : l = lost
  OBVIOUS
<1>5. CacheInv(t, f, q, l, c)
  BY ONLY <1>1, <1>2, <1>3, <1>4, <1>20, RadixInv DEF RadixInv
<1>6. /\ TreeInv(t) /\ IsTree(Keys, t) /\ Nodes(t) \in SUBSET (Seq(Keys) \ {<< >>})
      /\ Meets(Keys, Nodes(t)) /\ ReqsInv(q) /\ f \in SUBSET Pages
      /\ TreePlaces(t, f, c) /\ RowPlaces(t, f, q, c) /\ RowsApart(q) /\ Somewhere(t, f, q)
  BY ONLY <1>5, InvParts
<1>7. \A p \in Known(t) : PageAt(t, p) \in Pages /\ PageAt(t, p) \notin f /\ c[PageAt(t, p)] = p
  BY ONLY <1>6 DEF TreePlaces
<1>8. \A n \in Nodes(t) : \A x \in Range(t.value[n]) :
        \E p \in Known(t) : At(t, p) = n /\ x = PageAt(t, p)
  <2> SUFFICES ASSUME NEW n \in Nodes(t), NEW x \in Range(t.value[n])
               PROVE  \E p \in Known(t) : At(t, p) = n /\ x = PageAt(t, p)
    OBVIOUS
  <2>1. Range(t.value[n]) = {PageAt(t, p) : p \in PathsIn(t, {n})}
    BY ONLY <1>5, n \in Nodes(t), NodePages
  <2>2. PICK p \in PathsIn(t, {n}) : x = PageAt(t, p)
    BY ONLY <2>1, x \in Range(t.value[n])
  <2> QED BY <2>2 DEF PathsIn
<1>9. \A p \in Known(t) : At(t, p) \in Nodes(t) /\ PageAt(t, p) \in Range(t.value[At(t, p)])
  <2> SUFFICES ASSUME NEW p \in Known(t)
               PROVE  At(t, p) \in Nodes(t) /\ PageAt(t, p) \in Range(t.value[At(t, p)])
    OBVIOUS
  <2>1. PICK n : n = At(t, p)
    OBVIOUS
  <2>2. n \in Nodes(t)
    BY ONLY <2>1, <1>6, p \in Known(t), AtIs
  <2>3. Range(t.value[n]) = {PageAt(t, y) : y \in PathsIn(t, {n})}
    BY ONLY <1>5, <2>2, NodePages
  <2>4. p \in PathsIn(t, {n})
    BY ONLY <2>1, p \in Known(t) DEF PathsIn
  <2> QED BY ONLY <2>1, <2>2, <2>3, <2>4
<1>10. /\ \A x \in TreePages : \E p \in Known(t) : x = PageAt(t, p)
       /\ \A p \in Known(t) : PageAt(t, p) \in TreePages
  BY ONLY <1>1, <1>8, <1>9 DEF TreePages
<1>11. \A r \in Requests : OwnPages(r) = {q[r].kv[i] : i \in Own(q[r])}
  BY ONLY <1>2 DEF OwnPages, Own
<1>12. \A r \in Requests : \A i \in Own(q[r]) :
         /\ q[r].kv[i] \in Pages /\ q[r].kv[i] \notin f
         /\ \A p \in Known(t) : q[r].kv[i] # PageAt(t, p)
  BY ONLY <1>6 DEF RowPlaces
<1>13. Pages = f \cup TreePages \cup UNION {OwnPages(r) : r \in Requests}
  <2>1. ASSUME NEW x \in Pages
        PROVE  x \in f \cup TreePages \cup UNION {OwnPages(r) : r \in Requests}
    <3>1. \/ x \in f
          \/ \E p \in Known(t) : x = PageAt(t, p)
          \/ \E r \in Requests : \E i \in Own(q[r]) : x = q[r].kv[i]
      BY ONLY <1>6, x \in Pages DEF Somewhere
    <3> QED BY ONLY <3>1, <1>10, <1>11
  <2>2. f \subseteq Pages /\ TreePages \subseteq Pages
    BY ONLY <1>6, <1>7, <1>10
  <2>3. \A r \in Requests : OwnPages(r) \subseteq Pages
    BY ONLY <1>11, <1>12
  <2> QED BY ONLY <2>1, <2>2, <2>3
<1>14. f \cap TreePages = {}
  BY ONLY <1>7, <1>10
<1>15. \A n \in Nodes(t) : Len(t.value[n]) = Cardinality(Range(t.value[n]))
  BY ONLY <1>5, NodePages
<1>16. ASSUME NEW n \in Nodes(t), NEW m \in Nodes(t), n # m
       PROVE  Range(t.value[n]) \cap Range(t.value[m]) = {}
  <2> SUFFICES ASSUME NEW x \in Range(t.value[n]), x \in Range(t.value[m]) PROVE FALSE
    OBVIOUS
  <2>1. PICK p \in Known(t) : At(t, p) = n /\ x = PageAt(t, p)
    BY ONLY <1>8, n \in Nodes(t), x \in Range(t.value[n])
  <2>2. PICK y \in Known(t) : At(t, y) = m /\ x = PageAt(t, y)
    BY ONLY <1>8, m \in Nodes(t), x \in Range(t.value[m])
  <2> QED BY <2>1, <2>2, <1>7, <1>16
<1>17. ASSUME NEW r \in Requests
       PROVE  /\ OwnPages(r) \cap (f \cup TreePages) = {}
              /\ \A s \in Requests \ {r} : OwnPages(r) \cap OwnPages(s) = {}
  <2>1. OwnPages(r) \cap (f \cup TreePages) = {}
    BY ONLY <1>10, <1>11, <1>12, r \in Requests
  <2>2. ASSUME NEW s \in Requests \ {r} PROVE OwnPages(r) \cap OwnPages(s) = {}
    <3>1. \A i \in Own(q[r]) : \A j \in Own(q[s]) : q[r].kv[i] # q[s].kv[j]
      BY <1>6 DEF RowsApart
    <3> QED BY <3>1, <1>11
  <2> QED BY ONLY <2>1, <2>2
<1> QED BY ONLY <1>1, <1>3, <1>13, <1>14, <1>15, <1>16, <1>17 DEF OnePlace

\* Where two nodes part there is a node.
LEMMA BranchIs ==
  ASSUME RadixInv
  PROVE  Branching
<1>1. PICK t : t = tree
  OBVIOUS
<1>2. CacheInv(t, free_pages, req, lost, content)
  BY ONLY <1>1, RadixInv DEF RadixInv
<1>3. /\ IsTree(Keys, t) /\ Nodes(t) \in SUBSET (Seq(Keys) \ {<< >>}) /\ Meets(Keys, Nodes(t))
  BY ONLY <1>2, InvParts
<1>4. ASSUME NEW n \in Nodes(t), NEW m \in Nodes(t), NEW u,
             u = [t EXCEPT !.value = Restrict(@, {n})], NEW s, s = Matched(u, m)
      PROVE  s = << >> \/ s \in Nodes(t)
  <2>1. DOMAIN Restrict(t.value, {n}) = {n}
    BY DEF Restrict, Nodes
  <2>2. Nodes(u) = {n}
    <3>1. u.value = Restrict(t.value, {n})
      BY <1>3, <1>4 DEF IsTree, IsRecord
    <3> QED BY ONLY <3>1, <2>1 DEF Nodes
  <2>3. n \in Seq(Keys) \ {<< >>} /\ m \in Seq(Keys) \ {<< >>}
    BY ONLY <1>3, n \in Nodes(t), m \in Nodes(t)
  <2>4. Nodes(u) \in SUBSET (Seq(Keys) \ {<< >>})
    BY ONLY <2>2, <2>3
  <2>5. /\ s \in Seq(Keys) /\ IsPrefix(s, m) /\ s \in Known(u) \cup {<< >>}
        /\ \A p \in Known(u) : IsPrefix(p, m) => IsPrefix(p, s)
    BY ONLY <2>3, <2>4, <1>4, MatchedIs
  <2> SUFFICES ASSUME s # << >> PROVE s \in Nodes(t)
    OBVIOUS
  <2>6. IsPrefix(s, n)
    BY ONLY <2>2, <2>4, <2>5, s # << >>, KnownIs
  <2>7. s \in Seq(Keys) \ {<< >>}
    BY ONLY <2>5, s # << >>
  <2>8. PICK x \in Nodes(t) : IsPrefix(s, x) /\ IsPrefix(x, n) /\ IsPrefix(x, m)
    BY ONLY <2>5, <2>6, <2>7, <1>3, n \in Nodes(t), m \in Nodes(t) DEF Meets
  <2>9. x \in Seq(Keys) /\ x # << >>
    BY ONLY <1>3, x \in Nodes(t)
  <2>10. x \in Known(u)
    BY ONLY <2>2, <2>4, <2>8, <2>9, KnownIs
  <2>11. IsPrefix(x, s)
    BY ONLY <2>5, <2>8, <2>10
  <2>12. x = s
    BY ONLY <2>5, <2>8, <2>9, <2>11, PrefixOrder
  <2> QED BY ONLY <2>12, x \in Nodes(t)
<1>5. \A n, m \in Nodes(t) :
        Matched([t EXCEPT !.value = Restrict(@, {n})], m) \in Nodes(t) \cup {<< >>}
  BY ONLY <1>4
<1> QED BY <1>1, <1>5 DEF Branching

\* Type correctness.
LEMMA TypesAre ==
  ASSUME RadixInv
  PROVE  TypeOK
<1>1. PICK t : t = tree
  OBVIOUS
<1>2. PICK q : q = req
  OBVIOUS
<1>20. PICK l : l = lost
  OBVIOUS
<1>3. CacheInv(t, free_pages, q, l, content) /\ Len(l) <= MaxRematches
  BY ONLY <1>1, <1>2, <1>20, RadixInv DEF RadixInv
<1>4. /\ IsTree(Keys, t) /\ Nodes(t) \in SUBSET (Seq(Keys) \ {<< >>}) /\ Nodes(t) \in SUBSET Paths
      /\ ReqsInv(q) /\ StandsIn(t, q, l) /\ Counted(t, q, l) /\ Sized(t, q, l)
      /\ free_pages \in SUBSET Pages /\ content \in [Pages -> Paths]
  BY ONLY <1>3, InvParts
<1>21. l \in Seq(Paths) /\ Len(l) \in Nat
  BY ONLY <1>4 DEF StandsIn
<1>5. DOMAIN t.lock = Nodes(t) /\ DOMAIN t.atime = Nodes(t)
  BY ONLY <1>4 DEF IsTree
<1>6. ASSUME NEW n \in Nodes(t)
      PROVE  /\ Len(t.value[n]) = Len(n) - Len(Parent(t, n)) /\ t.atime[n] \in Nat
             /\ Range(t.value[n]) \subseteq Pages
             /\ t.lock[n] \in 0..(Cardinality(Requests) + Len(l))
  <2>1. Len(t.value[n]) = Len(n) - Len(Parent(t, n)) /\ t.atime[n] \in Nat
    BY ONLY <1>4, n \in Nodes(t) DEF IsTree
  <2>2. Range(t.value[n]) \subseteq Pages
    BY ONLY <1>3, n \in Nodes(t), NodePages
  <2>3. t.lock[n] = LocksOn(q, l, n)
    BY ONLY <1>4, n \in Nodes(t) DEF Counted
  <2>4. LocksOn(q, l, n) \in Nat /\ LocksOn(q, l, n) <= Cardinality(Requests) + Len(l)
    BY ONLY <1>21, OnFinite
  <2>5. Cardinality(Requests) \in Nat
    BY DepthAssumption, FS_CardinalityType
  <2>6. t.lock[n] \in 0..(Cardinality(Requests) + Len(l))
    BY ONLY <2>3, <2>4, <2>5, <1>21
  <2> QED BY ONLY <2>1, <2>2, <2>6
<1>7. t.evictable \in 0..NumPages /\ t.protected \in 0..NumPages
  <2>1. Pinned(t, q, l) \in SUBSET Known(t) /\ (Known(t) \ Pinned(t, q, l)) \in SUBSET Known(t)
    BY DEF Pinned
  <2>2. \A S \in SUBSET Known(t) : Cardinality(S) \in Nat /\ Cardinality(S) <= NumPages
    BY ONLY <1>3, PagesOwn
  <2>3. NumPages \in Nat
    BY DepthAssumption
  <2>4. t.evictable = Cardinality(Known(t) \ Pinned(t, q, l)) /\ t.protected = Cardinality(Pinned(t, q, l))
    BY ONLY <1>4 DEF Sized
  <2> QED BY ONLY <2>1, <2>2, <2>3, <2>4
<1>8. ASSUME NEW r \in Requests
      PROVE  /\ q[r].state \in {"idle", "matched", "running"}
             /\ q[r].key \in Paths /\ q[r].node \in Prefixes(q[r].key)
             /\ Range(q[r].kv) \subseteq Pages
  <2>1. /\ q[r].state \in {"idle", "matched", "running"}
        /\ q[r].key \in Paths /\ q[r].key \in Seq(Keys) /\ q[r].node \in Seq(Keys)
        /\ IsPrefix(q[r].node, q[r].key) /\ q[r].kv \in Seq(Pages)
    BY ONLY <1>4, r \in Requests, RowParts
  <2>2. q[r].node \in Prefixes(q[r].key)
    BY ONLY <2>1, PrefixesAre
  <2>3. Range(q[r].kv) \subseteq Pages
    BY ONLY <2>1 DEF Range
  <2> QED BY ONLY <2>1, <2>2, <2>3
<1>9. Nodes(t) \subseteq Paths \ {<< >>}
  BY ONLY <1>4
<1> QED BY ONLY <1>1, <1>2, <1>20, <1>21, <1>3, <1>4, <1>5, <1>6, <1>7, <1>8, <1>9 DEF TypeOK

\* When the heap of evict is empty, every path is held: below a node nobody holds there is
\* an unlocked leaf.
LEMMA HeapEmpty ==
  ASSUME NEW t, NEW f, NEW q, NEW l, NEW c, CacheInv(t, f, q, l, c), Victims(t) = {}
  PROVE  Known(t) \ Pinned(t, q, l) = {}
<1>1. /\ TreeInv(t) /\ IsTree(Keys, t) /\ Nodes(t) \in SUBSET (Seq(Keys) \ {<< >>})
      /\ Nodes(t) \in SUBSET Paths
      /\ Meets(Keys, Nodes(t)) /\ ReqsInv(q) /\ StandsIn(t, q, l) /\ Counted(t, q, l)
  BY ONLY CacheInv(t, f, q, l, c), InvParts
<1>2. t.atime \in [Nodes(t) -> Nat]
  BY ONLY <1>1 DEF IsTree
<1>3. ASSUME NEW p \in Known(t), Unheld(q, l, p) PROVE FALSE
  <2>1. PICK n : n = At(t, p)
    OBVIOUS
  <2>2. n \in Nodes(t) /\ Unheld(q, l, n)
    <3>1. n \in Nodes(t)
      BY ONLY <2>1, <1>1, p \in Known(t), AtIs
    <3>2. On(q, n) = On(q, p) /\ Left(l, n) = Left(l, p)
      BY ONLY <2>1, <1>1, p \in Known(t), OnAt
    <3> QED BY ONLY <3>1, <3>2, <1>3 DEF Unheld
  <2> DEFINE B == {m \in Nodes(t) : IsPrefix(n, m)}
             S == {MaxDepth - Len(m) : m \in B}
  <2>3. \A m \in B : m \in Nodes(t) /\ m \in Seq(Keys) /\ Len(m) \in Nat /\ Len(m) <= MaxDepth /\ IsPrefix(n, m)
    BY <1>1, PathsAre
  <2>4. n \in B /\ n \in Seq(Keys)
    BY <1>1, <2>2, PrefixOrder
  <2>5. S \in SUBSET Nat /\ S # {}
    BY <2>3, <2>4, DepthAssumption
  <2> HIDE DEF S
  <2>6. PICK k \in S : \A j \in S : k <= j
    BY ONLY <2>5, LeastNat
  <2>7. PICK m \in B : k = MaxDepth - Len(m)
    BY ONLY <2>6 DEF S
  <2>8. ASSUME NEW o \in B PROVE Len(o) <= Len(m)
    <3>1. MaxDepth - Len(m) <= MaxDepth - Len(o)
      BY ONLY o \in B, <2>6, <2>7 DEF S
    <3>2. Len(o) \in Nat /\ Len(m) \in Nat /\ MaxDepth \in Nat
      BY <2>3, DepthAssumption
    <3> QED BY ONLY <3>1, <3>2
  <2>9. m \in Leaves(t)
    <3>1. ASSUME NEW o \in Nodes(t), IsPrefix(m, o) PROVE o = m
      <4>1. o \in Seq(Keys) /\ m \in Seq(Keys)
        BY <1>1, <2>3
      <4>2. o \in B
        BY <4>1, <3>1, <2>3, <2>4, PrefixTrans
      <4>3. Len(o) <= Len(m) /\ Len(m) <= Len(o)
        BY <4>1, <4>2, <3>1, <2>8, PrefixOrder
      <4> QED BY <4>1, <4>3, <3>1, PrefixOrder
    <3> QED BY <3>1, <2>3 DEF Leaves
  <2>10. Unheld(q, l, m)
    <3>1. ASSUME NEW x \in Nodes(t) \cup {<< >>}, IsPrefix(m, x) PROVE IsPrefix(n, x)
      <4>1. x \in Seq(Keys)
        BY <1>1, EmptySeq
      <4> QED BY <4>1, <3>1, <2>3, <2>4, PrefixTrans
    <3>2. ASSUME NEW r \in Requests, IsPrefix(m, q[r].node) PROVE FALSE
      BY <3>1, <3>2, <2>2, <1>1 DEF On, Unheld, StandsIn
    <3>3. ASSUME NEW i \in DOMAIN l, IsPrefix(m, l[i]) PROVE FALSE
      BY <3>1, <3>3, <2>2, <1>1 DEF Left, Unheld, StandsIn
    <3> QED BY <3>2, <3>3 DEF On, Left, Unheld
  <2>18. l \in Seq(Paths)
    BY <1>1 DEF StandsIn
  <2>11. t.lock[m] = 0
    BY <2>3, <2>10, <2>18, <1>1, OnFinite DEF Counted
  <2> DEFINE H == {x \in Leaves(t) : t.lock[x] = 0}
             A == {t.atime[x] : x \in H}
  <2>12. m \in H /\ \A x \in H : x \in Nodes(t)
    BY <2>9, <2>11 DEF Leaves
  <2>13. A \in SUBSET Nat /\ A # {}
    BY <2>12, <1>2
  <2> HIDE DEF A
  <2>14. PICK a \in A : \A j \in A : a <= j
    BY ONLY <2>13, LeastNat
  <2>15. PICK x \in H : a = t.atime[x]
    BY ONLY <2>14 DEF A
  <2>16. \A y \in H : t.atime[x] <= t.atime[y]
    BY ONLY <2>14, <2>15 DEF A
  <2>17. x \in Victims(t)
    BY ONLY <2>15, <2>16 DEF Victims
  <2> QED BY <2>17
<1> QED BY ONLY <1>3 DEF Pinned

\* Evict delivers evictable_size.
LEMMA DeliveredIs ==
  ASSUME RadixInv
  PROVE  EvictableIsReal
<1>1. ASSUME NEW e \in Evict(tree.evictable)
      PROVE  Cardinality(e.free) = Cardinality(free_pages) + tree.evictable
  <2>1. PICK t : t = tree
    OBVIOUS
  <2>2. PICK f : f = free_pages
    OBVIOUS
  <2>3. CacheInv(t, f, req, lost, content)
    BY ONLY <2>1, <2>2, RadixInv DEF RadixInv
  <2>4. IsTree(Keys, t) /\ f \in SUBSET Pages /\ TreePlaces(t, f, content)
        /\ Sized(t, req, lost)
    BY ONLY <2>3, InvParts
  <2>5. Evicted(Keys, Itself, t, f, e) /\ Done(f, t.evictable, e)
    BY ONLY <2>1, <2>2, <2>4, e \in Evict(tree.evictable), EvictedIs DEF Evict
  <2>6. CacheInv(e.tree, e.free, req, lost, Clear(e.free))
    BY ONLY RadixInv, e \in Evict(tree.evictable), EvictStep
  <2>7. PICK D : D = Lost(t, e)
    OBVIOUS
  <2>8. PICK T : T = {PageAt(t, p) : p \in D}
    OBVIOUS
  <2>9. /\ e.free = f \cup T /\ e.tree.evictable = t.evictable - Cardinality(D)
        /\ D \in SUBSET Known(t)
    <3>1. \A p \in Known(t) : PageAt(t, p) \in Pages
      BY ONLY <2>4 DEF TreePlaces
    <3>2. e.free = f \cup {PageAt(t, p) : p \in Lost(t, e)}
      BY ONLY <2>5, <3>1, FreedPages
    <3> QED BY ONLY <3>2, <2>5, <2>7, <2>8 DEF Evicted, Lost
  <2>10. /\ Cardinality(D) \in Nat /\ T \in SUBSET Pages /\ Cardinality(T) = Cardinality(D)
    BY ONLY <2>3, <2>8, <2>9, PagesOwn
  <2>11. f \cap T = {}
    BY ONLY <2>4, <2>8, <2>9 DEF TreePlaces
  <2>12. IsFiniteSet(f) /\ IsFiniteSet(T) /\ Cardinality(f) \in Nat
    BY ONLY <2>4, <2>10, PagesFinite
  <2>13. Cardinality(e.free) = Cardinality(f) + Cardinality(D)
    <3>1. Cardinality(f \cup T) = Cardinality(f) + Cardinality(T) - Cardinality(f \cap T)
      BY ONLY <2>12, FS_Union
    <3>2. Cardinality(f \cap T) = 0
      BY ONLY <2>11, FS_EmptySet
    <3> QED BY ONLY <3>1, <3>2, <2>9, <2>10, <2>12
  <2>14. PICK u : u = e.tree
    OBVIOUS
  <2>15. CacheInv(u, e.free, req, lost, Clear(e.free))
    BY ONLY <2>6, <2>14
  <2>16. PICK R : R = Known(u) \ Pinned(u, req, lost)
    OBVIOUS
  <2>17. u.evictable = Cardinality(R) /\ R \in SUBSET Known(u)
    <3>1. Sized(u, req, lost)
      BY ONLY <2>15, InvParts
    <3> QED BY ONLY <3>1, <2>16 DEF Sized
  <2>18. Cardinality(R) \in Nat
    BY ONLY <2>15, <2>17, PagesOwn
  <2>19. t.evictable \in Int
    BY ONLY <2>4 DEF IsTree
  <2>20. CASE Cardinality(e.free) - Cardinality(f) >= t.evictable
    BY ONLY <2>20, <2>1, <2>2, <2>9, <2>10, <2>12, <2>13, <2>14, <2>17, <2>18, <2>19
  <2>21. CASE Victims(u) = {}
    <3>1. R = {}
      BY ONLY <2>21, <2>15, <2>16, HeapEmpty
    <3>2. Cardinality(R) = 0
      BY ONLY <3>1, FS_EmptySet
    <3> QED BY ONLY <3>2, <2>1, <2>2, <2>9, <2>10, <2>12, <2>13, <2>14, <2>17, <2>19
  <2> QED BY ONLY <2>5, <2>14, <2>20, <2>21 DEF Done
<1> QED BY ONLY <1>1 DEF EvictableIsReal

---------------------------------------------------------------------------
(* The abstract store.                                                      *)

\* The beginnings of a path other than the empty one.
LEMMA BeginsAre ==
  ASSUME NEW t, Nodes(t) \in SUBSET (Seq(Keys) \ {<< >>}), NEW n \in Seq(Keys)
  PROVE  /\ \A p : p \in Prefixes(n) \ {<< >>} <=> p \in Seq(Keys) \ {<< >>} /\ IsPrefix(p, n)
         /\ n \in Known(t) \cup {<< >>} => Prefixes(n) \ {<< >>} \subseteq Known(t)
<1>1. \A p : p \in Prefixes(n) <=> p \in Seq(Keys) /\ IsPrefix(p, n)
  BY ONLY n \in Seq(Keys), PrefixesAre
<1>2. ASSUME NEW p \in Seq(Keys) \ {<< >>}, IsPrefix(p, n), n \in Known(t) \cup {<< >>}
      PROVE  p \in Known(t)
  <2>1. n # << >>
    BY <1>2, PrefixEmpty
  <2> QED BY <2>1, <1>2, KnownPrefix
<1> QED BY ONLY <1>1, <1>2

\* The store's operators are those of the tree's module.
LEMMA StoreOps ==
  ASSUME NEW p
  PROVE  Store!Prefixes(p) = Prefixes(p) /\ Store!Begins(p) = Prefixes(p) \ {<< >>}
<1>1. Store!Prefixes(p) = Prefixes(p)
  BY DEF Store!Prefixes, Prefixes
<1> QED BY ONLY <1>1 DEF Store!Begins

\* What the cache knows, as the abstract store sees it.
LEMMA CachedIs == Cached = Known(tree)
<1> QED BY DEF Cached, Known

\* The empty tree is the empty store.
LEMMA StoreStart ==
  ASSUME Init
  PROVE  Store!Init
<1>1. tree = EmptyTree /\ req = [r \in Requests |-> Idle]
  BY DEF Init
<1>2. Cached = {}
  BY ONLY <1>1, CachedIs, EmptyIsTree
<1>3. [p \in Cached |-> PageAt(tree, p)] = << >>
  BY ONLY <1>2
<1>4. [r \in Requests |-> req[r].node] = [r \in Requests |-> << >>]
  BY ONLY <1>1 DEF Idle
<1> QED BY ONLY <1>3, <1>4 DEF Store!Init

\* A lookup pins the longest prefix the store has.
LEMMA StoreLookup ==
  ASSUME RadixInv, NEW r \in Requests, NEW key \in Paths, Lookup(r, key)
  PROVE  Store!Lookup
<1>1. PICK t : t = tree
  OBVIOUS
<1>2. PICK s : s = Matched(t, key)
  OBVIOUS
<1>3. /\ SameMap(t, tree') /\ Only(req, req', r) /\ req[r].node \in Prefixes(key)
      /\ req'[r].node = s
  BY ONLY <1>1, <1>2, RadixInv, r \in Requests, key \in Paths, Lookup(r, key), LookupStep
<1>4. Nodes(t) \in SUBSET (Seq(Keys) \ {<< >>})
  BY ONLY <1>1, RadixInv, InvParts DEF RadixInv
<1>5. key \in Seq(Keys)
  BY ONLY key \in Paths, PathsAre
<1>6. /\ s \in Seq(Keys) /\ IsPrefix(s, key) /\ s \in Known(t) \cup {<< >>}
      /\ \A p \in Known(t) : IsPrefix(p, key) => IsPrefix(p, s)
  BY ONLY <1>2, <1>4, <1>5, MatchedIs
<1> DEFINE Fits(p) == /\ Prefixes(p) \ {<< >>} \subseteq Known(t)
                      /\ \A q \in (Prefixes(key) \ {<< >>}) \cap Known(t) : Len(q) <= Len(p)
<1>7. s \in Prefixes(key) /\ Fits(s)
  <2>1. s \in Prefixes(key)
    BY ONLY <1>5, <1>6, PrefixesAre
  <2>2. Prefixes(s) \ {<< >>} \subseteq Known(t)
    BY ONLY <1>4, <1>6, BeginsAre
  <2>3. ASSUME NEW q \in (Prefixes(key) \ {<< >>}) \cap Known(t) PROVE Len(q) <= Len(s)
    <3>1. q \in Seq(Keys) /\ IsPrefix(q, key)
      BY ONLY <2>3, <1>5, PrefixesAre
    <3>2. IsPrefix(q, s)
      BY ONLY <3>1, <2>3, <1>6
    <3> QED BY ONLY <3>1, <3>2, <1>6, PrefixOrder
  <2> QED BY ONLY <2>1, <2>2, <2>3
<1>8. ASSUME NEW p \in Prefixes(key), Fits(p) PROVE p = s
  <2>1. p \in Seq(Keys) /\ IsPrefix(p, key)
    BY ONLY <1>5, <1>8, PrefixesAre
  <2>2. IsPrefix(p, s)
    <3>1. CASE p = << >>
      BY ONLY <3>1, <1>6, PrefixEmpty
    <3>2. CASE p # << >>
      <4>1. p \in Prefixes(p)
        BY ONLY <2>1, PrefixesAre, PrefixOrder
      <4>2. p \in Known(t)
        BY ONLY <4>1, <3>2, <1>8
      <4> QED BY ONLY <4>2, <2>1, <1>6
    <3> QED BY ONLY <3>1, <3>2
  <2>3. Len(s) <= Len(p)
    <3>1. CASE s = << >>
      <4>1. Len(s) <= Len(p)
        BY ONLY <3>1, <1>6, <2>1, EmptySeq, PrefixEmpty, PrefixOrder
      <4> QED BY <4>1
    <3>2. CASE s # << >>
      BY ONLY <3>2, <1>6, <1>7, <1>8
    <3> QED BY ONLY <3>1, <3>2
  <2> QED BY ONLY <2>1, <2>2, <2>3, <1>6, PrefixOrder
<1>9. s = CHOOSE p \in Prefixes(key) : Fits(p)
  <2> HIDE DEF Fits
  <2> QED BY ONLY <1>7, <1>8
<1>10. Cached = Known(t) /\ Cached' = Known(tree') /\ Known(tree') = Known(t)
       /\ \A p \in Known(t) : PageAt(tree', p) = PageAt(t, p)
  <2>1. Cached' = Known(tree')
    BY DEF Cached, Known
  <2> QED BY ONLY <2>1, <1>1, <1>3, CachedIs DEF SameMap
<1>11. [p \in Cached |-> PageAt(tree, p)]' = [p \in Cached |-> PageAt(tree, p)]
  BY ONLY <1>1, <1>10
<1> DEFINE pin == [x \in Requests |-> req[x].node]
<1>12. pin[r] \in Store!Prefixes(key)
  BY ONLY <1>3, r \in Requests, StoreOps
<1>13. pin' = [pin EXCEPT ![r] = s]
  <2>1. \A x \in Requests : x # r => req'[x] = req[x]
    BY ONLY <1>3 DEF Only
  <2> QED BY ONLY <2>1, <1>3, r \in Requests
<1> DEFINE cache == [p \in Cached |-> PageAt(tree, p)]
<1>14. DOMAIN cache = Known(t)
  BY ONLY <1>10
<1> HIDE DEF pin, cache
<1>15. s = Store!Longest(key, DOMAIN cache)
  <2>1. s = CHOOSE p \in Prefixes(key) :
              /\ Store!Begins(p) \subseteq DOMAIN cache
              /\ \A q \in Store!Begins(key) \cap DOMAIN cache : Len(q) <= Len(p)
    BY ONLY <1>9, <1>14, StoreOps
  <2> QED BY ONLY <2>1, StoreOps DEF Store!Longest
<1>16. pin' = [pin EXCEPT ![r] = Store!Longest(key, DOMAIN cache)]
  BY ONLY <1>13, <1>15
<1>17. cache' = cache
  BY ONLY <1>11 DEF cache
<1> QED BY ONLY <1>12, <1>16, <1>17, r \in Requests, key \in Paths DEF Store!Lookup, pin, cache

\* Eviction forgets whole ends of paths, none of them pinned.
LEMMA StoreEvict ==
  ASSUME RadixInv, RadixInv', NEW need, NEW e \in Evict(need), Shed(e)
  PROVE  Store!Evict
<1>1. PICK t : t = tree
  OBVIOUS
<1>2. PICK u : u = e.tree
  OBVIOUS
<1>3. IsTree(Keys, t)
  BY ONLY <1>1, RadixInv, InvParts DEF RadixInv
<1>4. Evicted(Keys, Itself, t, free_pages, e)
  BY ONLY <1>1, <1>3, e \in Evict(need), EvictedIs DEF Evict
<1>5. Known(u) \subseteq Known(t) /\ \A p \in Known(u) : PageAt(u, p) = PageAt(t, p)
  BY ONLY <1>2, <1>4 DEF Evicted
<1>6. tree' = u /\ \A s \in Requests : req'[s].node = req[s].node
  BY ONLY <1>2, Shed(e) DEF Shed
<1>7. /\ Nodes(u) \in SUBSET (Seq(Keys) \ {<< >>}) /\ ReqsInv(req') /\ StandsIn(u, req', lost')
  BY ONLY <1>6, RadixInv', InvParts DEF RadixInv
<1> DEFINE cache == [p \in Cached |-> PageAt(tree, p)]
           pin == [x \in Requests |-> req[x].node]
<1>8. DOMAIN cache = Known(t) /\ \A p \in Known(t) : cache[p] = PageAt(t, p)
  BY ONLY <1>1, CachedIs
<1>9. cache' = [p \in Known(u) |-> PageAt(u, p)]
  <2>1. Cached' = Known(tree')
    BY DEF Cached, Known
  <2> QED BY ONLY <2>1, <1>6
<1>10. pin' = pin
  BY ONLY <1>6
<1> HIDE DEF cache
<1>11. DOMAIN cache' = Known(u)
  BY ONLY <1>9
<1>12. \A p \in DOMAIN cache' : cache'[p] = cache[p]
  BY ONLY <1>5, <1>8, <1>9, <1>11
<1>13. \A p \in DOMAIN cache' : Store!Begins(p) \subseteq DOMAIN cache'
  <2>1. ASSUME NEW p \in Known(u) PROVE Prefixes(p) \ {<< >>} \subseteq Known(u)
    <3>1. p \in Seq(Keys)
      BY ONLY <1>7, <2>1, KnownIs
    <3> QED BY ONLY <3>1, <2>1, <1>7, BeginsAre
  <2> QED BY ONLY <2>1, <1>11, StoreOps
<1>14. \A r \in Requests : Store!Begins(pin[r]) \subseteq DOMAIN cache'
  <2>1. ASSUME NEW r \in Requests PROVE Prefixes(pin[r]) \ {<< >>} \subseteq Known(u)
    <3>1. PICK n : n = pin[r]
      OBVIOUS
    <3>2. n = req'[r].node
      BY ONLY <3>1, <1>6, r \in Requests
    <3>3. n \in Seq(Keys) /\ n \in Nodes(u) \cup {<< >>}
      BY ONLY <3>2, <1>7, r \in Requests, RowParts DEF StandsIn
    <3>4. n \in Known(u) \cup {<< >>}
      BY ONLY <3>3, <1>7, KnownIs
    <3> QED BY ONLY <3>1, <3>3, <3>4, <1>7, BeginsAre
  <2> QED BY ONLY <2>1, <1>11, StoreOps
<1> HIDE DEF pin
<1>15. DOMAIN cache' \subseteq DOMAIN cache
  BY ONLY <1>5, <1>8, <1>11
<1> QED BY ONLY <1>10, <1>12, <1>13, <1>14, <1>15 DEF Store!Evict, pin, cache

\* A release returns the pin and binds only paths that were not there.
LEMMA StoreInsert ==
  ASSUME RadixInv, NEW r \in Requests, NEW key \in Paths, Release(r, key)
  PROVE  Store!Insert
<1>1. PICK t : t = tree
  OBVIOUS
<1>2. PICK u : u = tree'
  OBVIOUS
<1>3. RadixInv' /\ Grew(t, key, u) /\ Only(req, req', r) /\ req'[r].node = << >>
  BY ONLY <1>1, <1>2, RadixInv, r \in Requests, key \in Paths, Release(r, key), ReleaseStep
<1>4. /\ \A p : p \in Known(u) <=> p \in Known(t) \/ (p \in Seq(Keys) \ {<< >>} /\ IsPrefix(p, key))
      /\ \A p \in Known(t) : PageAt(u, p) = PageAt(t, p)
  BY ONLY <1>3 DEF Grew
<1>5. key \in Seq(Keys)
  BY ONLY key \in Paths, PathsAre
<1>6. Nodes(u) \in SUBSET (Seq(Keys) \ {<< >>}) /\ TreePlaces(u, free_pages', content')
  BY ONLY <1>2, <1>3, InvParts DEF RadixInv
<1> DEFINE cache == [p \in Cached |-> PageAt(tree, p)]
           pin == [x \in Requests |-> req[x].node]
<1>7. cache = [p \in Known(t) |-> PageAt(t, p)]
  BY ONLY <1>1, CachedIs
<1>8. cache' = [p \in Known(u) |-> PageAt(u, p)]
  <2>1. Cached' = Known(tree')
    BY DEF Cached, Known
  <2> QED BY ONLY <2>1, <1>2
<1>9. pin' = [pin EXCEPT ![r] = << >>]
  <2>1. \A x \in Requests : x # r => req'[x] = req[x]
    BY ONLY <1>3 DEF Only
  <2> QED BY ONLY <2>1, <1>3, r \in Requests
<1> HIDE DEF cache, pin
<1>10. DOMAIN cache = Known(t) /\ DOMAIN cache' = Known(u)
  BY ONLY <1>7, <1>8
<1>11. \A p : p \in Store!Begins(key) <=> p \in Seq(Keys) \ {<< >>} /\ IsPrefix(p, key)
  BY ONLY <1>5, <1>6, BeginsAre, StoreOps
<1>12. DOMAIN cache' = DOMAIN cache \cup Store!Begins(key)
  BY ONLY <1>4, <1>10, <1>11
<1>13. DOMAIN cache \subseteq DOMAIN cache' /\ \A p \in DOMAIN cache : cache'[p] = cache[p]
  BY ONLY <1>4, <1>7, <1>8, <1>10, <1>12
<1>14. \A p \in Store!Begins(key) : cache'[p] \in Pages
  <2>1. \A p \in Known(u) : PageAt(u, p) \in Pages
    BY ONLY <1>6 DEF TreePlaces
  <2>2. \A p \in Store!Begins(key) : p \in Known(u)
    BY ONLY <1>4, <1>11
  <2> QED BY ONLY <2>1, <2>2, <1>8
<1> QED BY ONLY <1>9, <1>12, <1>13, <1>14, r \in Requests, key \in Paths DEF Store!Insert, pin, cache

---------------------------------------------------------------------------
(* The properties of the specification.                                     *)

\* The compressed tree keeps its shape: its nodes are paths with values as long as their
\* own keys, and where two paths part there is a node, so that the children of a node
\* (a dict by first page in radix_cache.py) never overwrite one another.
THEOREM TreeWellFormedTheorem == Spec => []TreeWellFormed
<1>1. RadixInv => TreeWellFormed
  BY TypesAre, BranchIs DEF TreeWellFormed
<1> QED BY ONLY <1>1, RadixInvariance, PTL

\* lock_ref is the number of the requests that stand on a node or below it and of the matches
\* there that refused requests have left behind, through every split, and evictable_size_ and
\* protected_size_ are the pages of the unlocked and of the locked nodes.
THEOREM LockAccountingTheorem == Spec => []LockAccounting
<1>1. RadixInv => LockAccounting
  BY AccountingIs
<1> QED BY ONLY <1>1, RadixInvariance, PTL

\* No page is leaked or owned twice between the allocator, the tree and the rows.
THEOREM OnePlaceTheorem == Spec => []OnePlace
<1>1. RadixInv => OnePlace
  BY PlaceIs
<1> QED BY ONLY <1>1, RadixInvariance, PTL

\* A prefix hit returns the KV of exactly the tokens asked for, as long as it is in use.
THEOREM ContentMatchesPathTheorem == Spec => []ContentMatchesPath
<1>1. RadixInv => ContentMatchesPath
  BY ContentIs
<1> QED BY ONLY <1>1, RadixInvariance, PTL

\* The evictable pages that the scheduler counts as available can be had: whichever
\* leaves evict takes first, it ends with all of them free.
THEOREM EvictableIsRealTheorem == Spec => []EvictableIsReal
<1>1. RadixInv => EvictableIsReal
  BY DeliveredIs
<1> QED BY ONLY <1>1, RadixInvariance, PTL

\* The tree implements a map from prefixes to pages in which a lookup pins the longest
\* prefix there is, an insert rebinds nothing and eviction spares what is pinned.
THEOREM StoreRefinement == Spec => ImplementsStore
<1>1. Init => Store!Init
  BY StoreStart
<1>2. ASSUME RadixInv, RadixInv', [Next]_vars PROVE [Store!Next]_(Store!vars)
  <2>1. ASSUME NEW r \in Requests, NEW key \in Paths, Lookup(r, key) PROVE Store!Next
    BY ONLY <1>2, <2>1, StoreLookup DEF Store!Next
  <2>2. ASSUME NEW r \in Requests, Prefill(r) PROVE Store!Next
    BY ONLY <1>2, <2>2, PrefillStep, StoreEvict DEF Store!Next
  <2>3. ASSUME NEW r \in Requests, NEW k \in Keys, Grow(r, k) PROVE Store!Next
    BY ONLY <1>2, <2>3, GrowStep, StoreEvict DEF Store!Next
  <2>4. ASSUME NEW r \in Requests, NEW key \in Paths, Release(r, key) PROVE Store!Next
    BY ONLY <1>2, <2>4, StoreInsert DEF Store!Next
  <2>5. CASE UNCHANGED vars
    BY <2>5, CachedIs DEF vars, Store!vars, Cached
  <2> QED BY ONLY <1>2, <2>1, <2>2, <2>3, <2>4, <2>5 DEF Next
<1> QED BY ONLY <1>1, <1>2, RadixInvariance, PTL DEF Spec, ImplementsStore, Store!Spec
=============================================================================
