-------------------------- MODULE MCOrderInventory --------------------------
(* OrderInventory on a small instance, with the reports read off its stock. *)
EXTENDS StockReports, TLC

\* Orders, branches and items are interchangeable.
Symmetry == Permutations(Orders) \cup Permutations(Stores) \cup Permutations(Items)

=============================================================================
