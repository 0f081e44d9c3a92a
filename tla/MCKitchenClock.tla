---------------------------- MODULE MCKitchenClock ---------------------------
(* KitchenClock on small instances. *)
EXTENDS KitchenClock, TLC

Symmetry == Permutations(Orders) \cup Permutations(Requests)

=============================================================================
