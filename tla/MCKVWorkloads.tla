--------------------------- MODULE MCKVWorkloads ---------------------------
(***************************************************************************)
(* KVWorkloads for TLC: every workload, the sound one, and one that breaks *)
(* the page tables.                                                        *)
(***************************************************************************)
EXTENDS KVWorkloads

CONSTANTS r1, r2, r3

\* Prompts of a page and a half; two of them share the first page.
MCPrompt == r1 :> <<1, 1, 1, 1, 1, 1>> @@ r2 :> <<1, 1, 1, 1, 2, 2>> @@ r3 :> <<2, 2>>

AnyAndSound   == {Unrestricted, Sound}
OnlyAnyDecode == {AnyDecode}
=============================================================================
