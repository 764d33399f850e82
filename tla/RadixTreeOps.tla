---------------------------- MODULE RadixTreeOps ----------------------------
(***************************************************************************)
(* The operations of miniinfer/kvcache/radix_cache.py on the prefix tree.  *)
(* In paged mode every key, value and split is aligned down to whole       *)
(* pages, so a key is here a sequence of page contents, a value the        *)
(* sequence of pages that hold them, and every size counts pages.      *)
(*                                                                         *)
(* A TreeNode is named by its path, the keys from the root down to it      *)
(* concatenated; the root is << >> and has no entry.  A tree is a record   *)
(*   value      node -> pages of the node's own key                        *)
(*   lock       node -> lock_ref                                           *)
(*   atime      node -> last_access_time (0: never set)                    *)
(*   evictable  evictable_size_                                            *)
(*   protected  protected_size_                                            *)
(* Only the order of access times is read, so they are kept as dense ranks.*)
(***************************************************************************)
EXTENDS Integers, SequencesExt

EmptyTree == [value |-> << >>, lock |-> << >>, atime |-> << >>,
              evictable |-> 0, protected |-> 0]

Nodes(t) == DOMAIN t.value

Longest(S) == CHOOSE p \in S : \A q \in S : Len(q) <= Len(p)

Parent(t, n) == Longest({<< >>} \cup {m \in Nodes(t) \ {n} : IsPrefix(m, n)})

Leaves(t) == {n \in Nodes(t) : \A m \in Nodes(t) : IsPrefix(n, m) => m = n}

---------------------------------------------------------------------------
\* Mutant of Matched: only whole nodes match.
MatchedNodes(t, key) == Longest({<< >>} \cup {n \in Nodes(t) : IsPrefix(n, key)})

\* How far the walk of match_prefix and _insert_helper gets along key: the
\* longest prefix of key that some node's path starts with.
Matched(t, key) ==
  Longest({<< >>} \cup {p \in Prefixes(key) : \E n \in Nodes(t) : IsPrefix(p, n)})

\* The nodes on the way to the matched path s, and the child that only begins
\* with the rest of s, if the walk ends inside one.
Visited(t, s) ==
  {n \in Nodes(t) : \/ IsPrefix(n, s)
                    \/ IsPrefix(s, n) /\ IsPrefix(Parent(t, n), s) /\ Parent(t, n) # s}

Ranked(at) == [n \in DOMAIN at |-> Cardinality({at[m] : m \in DOMAIN at} \cap 1..at[n])]

\* node.last_access_time = access_time along the walk.
Touch(t, s) ==
  [t EXCEPT !.atime = Ranked([n \in Nodes(t) |->
     IF n \in Visited(t, s) THEN Cardinality(Nodes(t)) + 1 ELSE t.atime[n]])]

\* A new TreeNode n: its access time is not set.
AddNode(t, n, value, lock) ==
  [t EXCEPT !.value = [m \in Nodes(t) \cup {n} |-> IF m = n THEN value ELSE t.value[m]],
            !.lock  = [m \in Nodes(t) \cup {n} |-> IF m = n THEN lock ELSE t.lock[m]],
            !.atime = [m \in Nodes(t) \cup {n} |-> IF m = n THEN 0 ELSE t.atime[m]]]

\* The node that keeps the rest of its key when path s becomes a node.
Lower(t, s) ==
  CHOOSE n \in Nodes(t) :
    IsPrefix(s, n) /\ \A m \in Nodes(t) : IsPrefix(s, m) => IsPrefix(n, m)

\* The upper node s takes the front of the lower node's value.
SplitWithLock(t, s, lock) ==
  LET c == Lower(t, s)
      k == Len(s) - Len(Parent(t, c))
  IN AddNode([t EXCEPT !.value[c] = SubSeq(@, k + 1, Len(@))],
             s, SubSeq(t.value[c], 1, k), lock)

\* Mutant of SplitNode: the upper node starts unlocked.
SplitUnlocked(t, s) == SplitWithLock(t, s, 0)

\* _split_node: new_node.lock_ref = child.lock_ref.
SplitNode(t, s) == SplitWithLock(t, s, t.lock[Lower(t, s)])

\* Mutant of Walk: the walk stops inside a node and leaves it whole.
WalkNoSplit(t, key) == Touch(t, Matched(t, key))

\* The walk along key, which both match_prefix and insert begin with: afterwards
\* Matched(t, key) is a node.
Walk(t, key) ==
  LET s == Matched(t, key)
  IN IF s = << >> \/ s \in Nodes(t)
       THEN Touch(t, s)
       ELSE SplitNode(Touch(t, s), s)

\* The page of the tree at the end of path p, and the indices match_prefix
\* returns: the values down to node n, concatenated.
PageAt(t, p) ==
  LET n == CHOOSE n \in Nodes(t) : IsPrefix(p, n) /\ Len(Parent(t, n)) < Len(p)
  IN t.value[n][Len(p) - Len(Parent(t, n))]

ValueTo(t, n) == [i \in 1..Len(n) |-> PageAt(t, SubSeq(n, 1, i))]

\* insert: the walk, and a new leaf for what of key is not in the tree yet.
\* The call returns Len(Matched(t, key)).
Insert(t, key, value) ==
  LET s == Matched(t, key)
      w == Walk(t, key)
  IN IF s = key
       THEN w
       ELSE [AddNode(w, key, SubSeq(value, Len(s) + 1, Len(key)), 0)
               EXCEPT !.evictable = @ + Len(key) - Len(s)]

---------------------------------------------------------------------------
\* Pages of a set of nodes.
PagesIn(t, S) == Cardinality(UNION {{n} \X DOMAIN t.value[n] : n \in S})

Line(t, n) == {m \in Nodes(t) : IsPrefix(m, n)}

\* Mutant of IncLock: the locked pages stay evictable.
IncLockEvictable(t, n) ==
  LET fresh == PagesIn(t, {m \in Line(t, n) : t.lock[m] = 0})
  IN [t EXCEPT !.lock = [m \in Nodes(t) |-> IF m \in Line(t, n) THEN @[m] + 1 ELSE @[m]],
               !.protected = @ + fresh]

\* inc_lock_ref: every node from n up to the root; a node locked for the first
\* time turns from evictable to protected.
IncLock(t, n) ==
  LET fresh == PagesIn(t, {m \in Line(t, n) : t.lock[m] = 0})
  IN [t EXCEPT !.lock = [m \in Nodes(t) |-> IF m \in Line(t, n) THEN @[m] + 1 ELSE @[m]],
               !.evictable = @ - fresh,
               !.protected = @ + fresh]

\* dec_lock_ref: the way back.
DecLock(t, n) ==
  LET freed == PagesIn(t, {m \in Line(t, n) : t.lock[m] = 1})
  IN [t EXCEPT !.lock = [m \in Nodes(t) |-> IF m \in Line(t, n) THEN @[m] - 1 ELSE @[m]],
               !.evictable = @ + freed,
               !.protected = @ - freed]

---------------------------------------------------------------------------
\* _delete_leaf.
DeleteLeaf(t, n) ==
  [t EXCEPT !.value = Restrict(@, Nodes(t) \ {n}),
            !.lock  = Restrict(@, Nodes(t) \ {n}),
            !.atime = Restrict(@, Nodes(t) \ {n}),
            !.evictable = @ - Len(t.value[n])]

\* Mutant of Victims: locked leaves are candidates too.
VictimsLocked(t) == {n \in Leaves(t) : \A m \in Leaves(t) : t.atime[n] <= t.atime[m]}

\* What the heap of evict can pop next: an unlocked leaf with the least access
\* time, any of them among equals.  A parent enters the heap when its last
\* child is deleted, so the heap holds the unlocked leaves of the moment.
Victims(t) ==
  LET heap == {n \in Leaves(t) : t.lock[n] = 0}
  IN {n \in heap : \A m \in heap : t.atime[n] <= t.atime[m]}

\* evict: the possible results of freeing leaves until `need` pages have become
\* available or the heap is empty.  own[x] are the pages that free() makes of an
\* entry x of a node's value.
EvictOutcomes(t, free, need, own) ==
  LET after[k \in Nat] ==
        IF k = 0
          THEN {[tree |-> t, free |-> free]}
          ELSE UNION {IF Cardinality(e.free) - Cardinality(free) >= need \/ Victims(e.tree) = {}
                        THEN {e}
                        ELSE {[tree |-> DeleteLeaf(e.tree, n),
                               free |-> e.free \cup UNION {own[x] : x \in Range(e.tree.value[n])}] :
                                n \in Victims(e.tree)}
                      : e \in after[k - 1]}
  IN after[Cardinality(Nodes(t))]
=============================================================================
