---------------------------- MODULE PrefixStore ----------------------------
(***************************************************************************)
(* What a prefix cache promises: a map from token prefixes (sequences of   *)
(* page contents) to pages, in which the prefix a request was given stays, *)
(* bound to the same pages, until the request gives it back.               *)
(***************************************************************************)
EXTENDS SequencesExt

CONSTANTS Requests, Paths, Pages

VARIABLES
  cache,  \* prefix -> page, closed under shorter prefixes
  pin     \* the prefix each request was given, << >> for none

vars == <<cache, pin>>

Begins(path) == Prefixes(path) \ {<< >>}

Init ==
  /\ cache = << >>
  /\ pin = [r \in Requests |-> << >>]

\* The longest prefix of path among those that are known.
Longest(path, known) ==
  CHOOSE p \in Prefixes(path) :
    /\ Begins(p) \subseteq known
    /\ \A q \in Begins(path) \cap known : Len(q) <= Len(p)

\* A request is given the longest prefix there is of what it asks for, again and again
\* if it asks once more for the same path.  (\E x \in {e} has TLC compute e once.)
Lookup ==
  /\ UNCHANGED cache
  /\ \E known \in {DOMAIN cache} : \E path \in Paths : \E r \in Requests :
       /\ pin[r] \in Prefixes(path)
       /\ pin' = [pin EXCEPT ![r] = Longest(path, known)]

\* A request gives its prefix back and path is cached from now on.  Prefixes of
\* it that were cached keep their pages.
Insert ==
  /\ \E r \in Requests : pin' = [pin EXCEPT ![r] = << >>]
  /\ \E known \in {DOMAIN cache}, after \in {DOMAIN cache'} :
       /\ known \subseteq after
       /\ \A p \in known : cache'[p] = cache[p]
       /\ \E path \in Paths : /\ after = known \cup Begins(path)
                              /\ \A p \in Begins(path) : cache'[p] \in Pages

\* Some prefixes are forgotten, with everything longer, but none that is pinned.
Evict ==
  /\ UNCHANGED pin
  /\ \E kept \in {DOMAIN cache'} :
       /\ kept \subseteq DOMAIN cache
       /\ \A p \in kept : cache'[p] = cache[p]
       /\ \A p \in kept : Begins(p) \subseteq kept
       /\ \A r \in Requests : Begins(pin[r]) \subseteq kept

Next == Evict \/ Lookup \/ Insert

Spec == Init /\ [][Next]_vars
=============================================================================
