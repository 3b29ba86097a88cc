---------------------------- MODULE CatalogPromise ----------------------------
(***************************************************************************)
(* What the catalog promises the user: a set of catalogs that were         *)
(* imported, one of which is active.  An import adds one, a removal takes  *)
(* one that is not active, and each happens at once or not at all, whatever *)
(* fails and whenever the launcher stops.  CatalogGenerations implements   *)
(* it with rows, directories, a store in memory and a search index.        *)
(***************************************************************************)
CONSTANTS Generations, Embedded

VARIABLES
    kept,       \* catalogs the user has, the embedded one among them
    active      \* the one that is active

promise == <<kept, active>>

Init == kept = {Embedded} /\ active = Embedded

Import(g) == g \notin kept /\ kept' = kept \cup {g} /\ UNCHANGED active

Activate(g) == g \in kept /\ active' = g /\ UNCHANGED kept

Remove(g) == g \in kept \ {Embedded, active} /\ kept' = kept \ {g} /\ UNCHANGED active

\* The active catalog cannot be opened when the launcher starts.
FallBack == active' = Embedded /\ UNCHANGED kept

Next ==
    \/ \E g \in Generations : Import(g) \/ Remove(g)
    \/ \E g \in Generations \cup {Embedded} : Activate(g)
    \/ FallBack

Spec == Init /\ [][Next]_promise
=============================================================================
