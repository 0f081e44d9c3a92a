---------------------------- MODULE MCOrderMoney ----------------------------
(* OrderMoney on a small instance. *)
EXTENDS MoneyReports, TLC

Symmetry == Permutations(Orders) \cup Permutations(Issues)

=============================================================================
