----------------------------- MODULE MCCheckout -----------------------------
(* Checkout on small instances. *)
EXTENDS Checkout, TLC

Symmetry == Permutations(Guests) \cup Permutations(Carts) \cup Permutations(Requests)

=============================================================================
