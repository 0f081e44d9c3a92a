---------------------- MODULE MCInventoryTransactions ----------------------
(* InventoryTransactions on small instances: one branch with two           *)
(* ingredients, and two branches that ship to each other.                  *)
EXTENDS InventoryTransactions, TLC

Symmetry == Permutations(Requests) \cup Permutations(Orders) \cup Permutations(Items)
                \cup Permutations(Keys) \cup Permutations(Ladders)

=============================================================================
