---------------------------- MODULE MCRadixCache ----------------------------
(***************************************************************************)
(* RadixCache for TLC.                                                     *)
(***************************************************************************)
EXTENDS RadixCache

Symmetry == Permutations(Requests) \cup Permutations(Keys)
=============================================================================
