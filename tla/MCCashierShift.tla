--------------------------- MODULE MCCashierShift ---------------------------
(* CashierShift on small instances. *)
EXTENDS CashierShift, TLC

Symmetry == Permutations(Calls) \cup Permutations(Keys)

=============================================================================
