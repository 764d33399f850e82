--------------------------- MODULE SamplerRoutes ---------------------------
(***************************************************************************)
(* Which tokens the sampler may return for the rows of a batch.            *)
(*                                                                         *)
(* The sampler takes one of three routes for the whole batch, by flags the *)
(* host computed from the requests, and reads each row's temperature,      *)
(* top-k and top-p from device tensors.  A row is abstracted to the kind   *)
(* of its parameters: greedy (temperature 0), narrow (top-k or top-p cuts  *)
(* its candidates), wide (neither does).  A row of logits has a best token,*)
(* another one a cut keeps, and one it removes.                            *)
(***************************************************************************)
EXTENDS Integers, Sequences

Kinds  == {"greedy", "narrow", "wide"}
Tokens == {"best", "likely", "unlikely"}

\* What the parameters of a row allow.
Allowed(kind) == CASE kind = "greedy" -> {"best"}
                   [] kind = "narrow" -> {"best", "likely"}
                   [] kind = "wide"   -> Tokens

\* Mutant of AllNonGreedy: some row is sampled.
SomeNonGreedy(rows) == \E i \in DOMAIN rows : rows[i] # "greedy"

\* ForwardBatch.init_new: the flags, from the requests' own parameters.
AllNonGreedy(rows) == \A i \in DOMAIN rows : rows[i] # "greedy"

AllGreedy(rows) == \A i \in DOMAIN rows : rows[i] = "greedy"
Filters(rows)   == \E i \in DOMAIN rows : rows[i] = "narrow"

\* The fused route on a row whose tensors say "kind": a temperature of 0 gives the
\* uniform distribution there, and the cut needs the flag as well.
Fused(kind, filters) == IF filters /\ kind = "narrow" THEN Allowed(kind) ELSE Tokens

\* The route for mixed batches: a softmax so sharp that it is the best token, or a
\* draw from the whole of it.
Gumbel(kind) == IF kind = "greedy" THEN {"best"} ELSE Tokens

\* _sample_impl, with the flags of the batch "rows" and the tensors "seen".
Sampled(rows, seen) ==
  [i \in DOMAIN rows |-> CASE AllGreedy(rows)    -> {"best"}
                           [] AllNonGreedy(rows) -> Fused(seen[i], Filters(rows))
                           [] OTHER              -> Gumbel(seen[i])]
=============================================================================
