----------------------- MODULE MCPagedTokenAllocator -----------------------
(***************************************************************************)
(* PagedTokenAllocator for TLC.                                            *)
(***************************************************************************)
EXTENDS PagedTokenAllocator, TLC

Symmetry == Permutations(Requests)
=============================================================================
