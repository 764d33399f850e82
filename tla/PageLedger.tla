----------------------------- MODULE PageLedger -----------------------------
(***************************************************************************)
(* What the page allocator promises, with no addresses and no lengths:     *)
(* every page has one owner at all times.  A page is free, held by one     *)
(* request, or returned by its holder and not allocatable yet.             *)
(***************************************************************************)
CONSTANTS Requests, Pages

VARIABLE owner

Free     == "free"
Returned == "returned"

Init == owner = [p \in Pages |-> Free]

\* One call may serve several requests; it takes free pages only.
Grant ==
  /\ owner' \in [Pages -> Requests \cup {Free, Returned}]
  /\ \A p \in Pages : owner'[p] # owner[p] => owner[p] = Free /\ owner'[p] \in Requests

\* A request gives pages back; all of one call get the same new owner.
GiveBack(r, to) ==
  \E S \in SUBSET Pages :
    /\ \A p \in S : owner[p] = r
    /\ owner' = [p \in Pages |-> IF p \in S THEN to ELSE owner[p]]

\* The returned pages become allocatable, all at once.
Settle ==
  owner' = [p \in Pages |-> IF owner[p] = Returned THEN Free ELSE owner[p]]

Next ==
  \/ Grant
  \/ \E r \in Requests : GiveBack(r, Free) \/ GiveBack(r, Returned)
  \/ Settle

Spec == Init /\ [][Next]_owner
=============================================================================
