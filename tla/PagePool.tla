------------------------------ MODULE PagePool ------------------------------
(***************************************************************************)
(* The pages of miniinfer's paged KV cache and the tensor free_pages that  *)
(* holds the free ones (kvcache/memory_pool.py).  Page 0 is the padded     *)
(* page that is never handed out.                                          *)
(*                                                                         *)
(* free_pages is a tensor without duplicates in ascending order (arange in *)
(* clear, torch.unique after every free, slicing off the front in every    *)
(* alloc), so the set of its elements determines it: free_pages[k] is the  *)
(* element with k smaller ones, free_pages[:n] the n smallest elements.    *)
(***************************************************************************)
EXTENDS Integers, FiniteSets

CONSTANT NumPages      \* pages the pool owns, numbered 1..NumPages

Pages == 1..NumPages

Rank(S, p)     == Cardinality({q \in S : q < p})
NthFree(S, k)  == CHOOSE p \in S : Rank(S, p) = k
Smallest(S, n) == {p \in S : Rank(S, p) < n}

=============================================================================
