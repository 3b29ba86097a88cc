-------------------------- MODULE MCDeliveryQueue --------------------------
(***************************************************************************)
(* Model-checking instance of the download queue: the configurations give  *)
(* the constants their values.  Threads and callers are interchangeable;   *)
(* symmetry is used only by the configurations without liveness.           *)
(***************************************************************************)
EXTENDS DeliveryQueue, TLC

Symmetry == Permutations(Workers) \cup Permutations(Callers)
               \cup Permutations(Works)
=============================================================================
