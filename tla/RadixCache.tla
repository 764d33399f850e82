----------------------------- MODULE RadixCache -----------------------------
(***************************************************************************)
(* The prefix cache at work (kvcache/radix_cache.py), with the requests    *)
(* that use it as kvcache/kv_cache_manager.py makes them: a request        *)
(* matches its prompt and locks what it found, once in every step until it *)
(* is admitted, allocates pages for the rest and evicts when they are      *)
(* short, grows while it decodes, and hands its full pages to the tree     *)
(* when it is finished or retracted.                                       *)
(*                                                                         *)
(* Everything is counted in pages here: a request's row is one page per    *)
(* full page of its token ids and one more, the tail, which is not full    *)
(* yet.  The tokens inside a page and batches are in KVCacheManager.       *)
(***************************************************************************)
EXTENDS RadixTreeOps, PagePool

CONSTANTS Requests,    \* callers
          Keys,        \* contents a page of token ids can have
          MaxDepth,    \* bound: full pages of one request
          MaxRematches \* bound: matches of requests that were matched already

ASSUME DepthAssumption ==
  NumPages \in Nat /\ MaxDepth \in Nat /\ MaxRematches \in Nat /\ IsFiniteSet(Requests)

VARIABLES
  tree,        \* the radix tree
  free_pages,  \* allocatable pages
  req,         \* per request: state, token ids, last_node, row of pages
  content,     \* which token ids a page holds the KV of (history)
  lost         \* nodes of matches that a later match of the request replaced (history)

vars == <<tree, free_pages, req, content, lost>>

Paths == UNION {[1..d -> Keys] : d \in 0..MaxDepth}

\* A page that is free or not yet full holds no usable KV.
Unset == << >>

Idle == [state |-> "idle", key |-> << >>, node |-> << >>, kv |-> << >>]

TypeOK ==
  /\ Nodes(tree) \subseteq Paths \ {<< >>}
  /\ DOMAIN tree.lock = Nodes(tree) /\ DOMAIN tree.atime = Nodes(tree)
  /\ \A n \in Nodes(tree) :
       /\ Len(tree.value[n]) = Len(n) - Len(Parent(tree, n))
       /\ Range(tree.value[n]) \subseteq Pages
       /\ tree.lock[n] \in 0..(Cardinality(Requests) + Len(lost))
       /\ tree.atime[n] \in Nat
  /\ tree.evictable \in 0..NumPages /\ tree.protected \in 0..NumPages
  /\ free_pages \subseteq Pages
  /\ \A r \in Requests :
       /\ req[r].state \in {"idle", "matched", "running"}
       /\ req[r].key \in Paths
       /\ req[r].node \in Prefixes(req[r].key)
       /\ Range(req[r].kv) \subseteq Pages
  /\ content \in [Pages -> Paths]
  /\ lost \in Seq(Paths) /\ Len(lost) <= MaxRematches

---------------------------------------------------------------------------
Init ==
  /\ tree = EmptyTree
  /\ free_pages = Pages
  /\ req = [r \in Requests |-> Idle]
  /\ content = [p \in Pages |-> Unset]
  /\ lost = << >>

\* The first n pages of the sorted free list.
FirstFree(S, n) == [i \in 1..n |-> NthFree(S, i - 1)]

\* What free() makes of an entry of a node's value, which here is a page.
Itself == [p \in Pages |-> {p}]

\* evict: what it can end with when `need` pages are asked of it.
Evict(need) == EvictOutcomes(tree, free_pages, need, Itself)

Clear(pages) == [p \in Pages |-> IF p \in pages THEN Unset ELSE content[p]]

\* What the pages hold once the forward pass of key has filled those in `pages` of its
\* row, but for the tail, on top of what they held before.
Written(key, row, pages, before) ==
  [p \in Pages |-> IF p \in pages
                     THEN LET i == CHOOSE i \in DOMAIN row : row[i] = p
                          IN IF i = Len(row) THEN Unset ELSE SubSeq(key, 1, i)
                     ELSE before[p]]

\* prefix_for_waiting_req: match all but the last token and lock what was found.
\* key is what the request has in full pages, the last token left out.  A request that
\* is refused stays in the waiting queue and is matched and locked again in the next
\* step; its last_node is replaced, and the lock of the match before, if that was not the
\* root, is never undone.
Lookup(r, key) ==
  /\ \/ req[r].state = "idle" /\ UNCHANGED lost
     \/ /\ req[r].state = "matched" /\ key = req[r].key /\ Len(lost) < MaxRematches
        /\ lost' = IF req[r].node = << >> THEN lost ELSE Append(lost, req[r].node)
  /\ LET s == Matched(tree, key)
         w == Walk(tree, key)
     IN /\ tree' = IncLock(w, s)
        /\ req' = [req EXCEPT ![r] = [state |-> "matched", key |-> key, node |-> s,
                                      kv |-> ValueTo(w, s)]]
  /\ UNCHANGED <<free_pages, content>>

\* prepare_for_extend for one request: evict what is missing, take the pages for
\* everything behind the prefix, the tail among them.
Prefill(r) ==
  LET n == Len(req[r].key) + 1 - Len(req[r].node)
  IN /\ req[r].state = "matched"
     /\ \E e \in Evict(n - Cardinality(free_pages)) :
          LET new == FirstFree(e.free, n)
              row == req[r].kv \o new
          IN /\ n <= Cardinality(e.free)
             /\ tree' = e.tree
             /\ free_pages' = e.free \ Range(new)
             /\ req' = [req EXCEPT ![r].state = "running", ![r].kv = row]
             /\ content' = Written(req[r].key, row, Range(new), Clear(e.free))
     /\ UNCHANGED lost

\* prepare_for_decode when the tail has become full, with content k: a new tail.
Grow(r, k) ==
  LET key == Append(req[r].key, k)
  IN /\ req[r].state = "running"
     /\ Len(key) <= MaxDepth
     /\ \E e \in Evict(1 - Cardinality(free_pages)) :
          /\ e.free # {}
          /\ tree' = e.tree
          /\ free_pages' = e.free \ {NthFree(e.free, 0)}
          /\ req' = [req EXCEPT ![r].key = key, ![r].kv = Append(@, NthFree(e.free, 0))]
          /\ content' = [Clear(e.free) EXCEPT ![req[r].kv[Len(key)]] = key]
     /\ UNCHANGED lost

\* Mutant of Release: what the tree already has is freed from the start of the
\* row, not from the request's own part on.
ReleaseFromZero(r, key) ==
  /\ req[r].state = "running"
  /\ key \in {req[r].key} \cup {Append(req[r].key, k) : k \in Keys}
  /\ Len(key) <= MaxDepth
  /\ LET kv    == req[r].kv
         known == Len(Matched(tree, key))
         dups  == {kv[i] : i \in 1..known}
         tail  == {kv[i] : i \in (Len(key) + 1)..Len(kv)}
     IN /\ tree' = DecLock(Insert(tree, key, kv), req[r].node)
        /\ free_pages' = free_pages \cup dups \cup tail
        /\ content' = [p \in Pages |->
                         IF p \in dups \cup tail THEN Unset
                         ELSE IF p = kv[Len(kv)] THEN key
                         ELSE content[p]]
  /\ req' = [req EXCEPT ![r] = Idle]
  /\ UNCHANGED lost

\* release_request and update_finished_req_radix_cache: insert the full pages,
\* free those the tree had from others and the tail unless it has become full
\* with the last tokens, and unlock.
Release(r, key) ==
  /\ req[r].state = "running"
  /\ key \in {req[r].key} \cup {Append(req[r].key, k) : k \in Keys}
  /\ Len(key) <= MaxDepth
  /\ LET kv    == req[r].kv
         known == Len(Matched(tree, key))
         dups  == {kv[i] : i \in (Len(req[r].node) + 1)..known}
         tail  == {kv[i] : i \in (Len(key) + 1)..Len(kv)}
     IN /\ tree' = DecLock(Insert(tree, key, kv), req[r].node)
        /\ free_pages' = free_pages \cup dups \cup tail
        /\ content' = [p \in Pages |->
                         IF p \in dups \cup tail THEN Unset
                         ELSE IF p = kv[Len(kv)] THEN key
                         ELSE content[p]]
  /\ req' = [req EXCEPT ![r] = Idle]
  /\ UNCHANGED lost

Next ==
  \/ \E r \in Requests, key \in Paths : Lookup(r, key)
  \/ \E r \in Requests : Prefill(r)
  \/ \E r \in Requests, k \in Keys : Grow(r, k)
  \/ \E r \in Requests, key \in Paths : Release(r, key)

Spec == Init /\ [][Next]_vars

---------------------------------------------------------------------------
\* Requests whose matched prefix ends at or below node n, and matches there that were
\* replaced while their request waited.
Holders(n) == {r \in Requests : req[r].state # "idle" /\ IsPrefix(n, req[r].node)}
Leaked(n)  == {i \in DOMAIN lost : IsPrefix(n, lost[i])}

\* lock_ref counts the requests in flight that stand on a node and, for good, every
\* match of a request that was refused and matched again, whatever splits have happened
\* on the path since it was locked; and the two sizes are the pages of the unlocked and
\* of the locked nodes.  So a node is free of locks once its requests are gone exactly if
\* none of them was ever refused (scheduler.py:368-386, kv_cache_manager.py:194-200).
LockAccounting ==
  /\ \A n \in Nodes(tree) :
       tree.lock[n] = Cardinality(Holders(n)) + Cardinality(Leaked(n))
  /\ tree.evictable = PagesIn(tree, {n \in Nodes(tree) : tree.lock[n] = 0})
  /\ tree.protected = PagesIn(tree, {n \in Nodes(tree) : tree.lock[n] > 0})

TreePages == UNION {Range(tree.value[n]) : n \in Nodes(tree)}
OwnPages(r) == {req[r].kv[i] : i \in (Len(req[r].node) + 1)..Len(req[r].kv)}

\* Every page is in exactly one place: free, in one node of the tree, or in the
\* part of one request's row that the request does not share with the tree.
OnePlace ==
  /\ Pages = free_pages \cup TreePages \cup UNION {OwnPages(r) : r \in Requests}
  /\ free_pages \cap TreePages = {}
  /\ \A n \in Nodes(tree) : Len(tree.value[n]) = Cardinality(Range(tree.value[n]))
  /\ \A n, m \in Nodes(tree) : n # m => Range(tree.value[n]) \cap Range(tree.value[m]) = {}
  /\ \A r \in Requests :
       /\ OwnPages(r) \cap (free_pages \cup TreePages) = {}
       /\ \A q \in Requests \ {r} : OwnPages(r) \cap OwnPages(q) = {}

\* A hit returns the KV of exactly the token ids that were asked for, and it
\* stays so for as long as the request runs: in the tree and in every row, the
\* page at depth i of a path was written for the first i pages of that path.
ContentMatchesPath ==
  /\ \A n \in Nodes(tree) : \A p \in Prefixes(n) \ {<< >>} :
       content[PageAt(tree, p)] = p
  /\ \A r \in Requests : \A i \in 1..Len(req[r].kv) :
       i <= Len(req[r].key) => content[req[r].kv[i]] = SubSeq(req[r].key, 1, i)

\* The children of a node differ in their first page, so the dict of children
\* never loses one: where two paths part there is a node.
Branching ==
  \A n, m \in Nodes(tree) :
    LET s == Matched([tree EXCEPT !.value = Restrict(@, {n})], m)
    IN s = << >> \/ s \in Nodes(tree)

\* The tree is a compressed prefix tree of sound nodes.
TreeWellFormed == TypeOK /\ Branching

\* evictable_size can be delivered.  The scheduler admits requests against
\* available_size() + evictable_size(): evicting that many pages ends with as
\* many available, whichever leaves go first.
EvictableIsReal ==
  \A e \in Evict(tree.evictable) :
    Cardinality(e.free) = Cardinality(free_pages) + tree.evictable

\* Every path the cache knows.
Cached == (UNION {Prefixes(n) : n \in Nodes(tree)}) \ {<< >>}

Store == INSTANCE PrefixStore WITH
           cache <- [p \in Cached |-> PageAt(tree, p)],
           pin   <- [r \in Requests |-> req[r].node]

\* The tree, with its nodes, splits and locks, is a map from prefixes to pages:
\* a lookup pins the longest prefix there is, an insert adds what is missing and
\* rebinds nothing, eviction takes whole subtrees and nothing pinned.
ImplementsStore == Store!Spec
=============================================================================
