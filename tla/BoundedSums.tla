---------------------------- MODULE BoundedSums ----------------------------
(***************************************************************************)
(* Sums of the figures a NUMERIC column holds: quantities in units of      *)
(* 0.001, money in units of 0.01. No figure exceeds Capacity.              *)
(***************************************************************************)
EXTENDS Integers, FiniteSets

CONSTANT Capacity      \* the largest figure a column holds

ASSUME CapacityIsNat == Capacity \in Nat

\* The sum of f over D: f[d] units for every d in D.
Units(f, D) == {u \in D \X (1..Capacity) : u[2] <= f[u[1]]}
Total(f, D) == Cardinality(Units(f, D))

=============================================================================
