-------------------------- MODULE MCOverlapEngine --------------------------
(***************************************************************************)
(* OverlapEngine for TLC: prompts and outputs of a few tokens.             *)
(***************************************************************************)
EXTENDS OverlapEngine

CONSTANT r1

MCPromptLen == [r \in Requests |-> IF r = r1 THEN 2 ELSE 3]
MCMaxTokens == [r \in Requests |-> IF r = r1 THEN 4 ELSE 3]
=============================================================================
