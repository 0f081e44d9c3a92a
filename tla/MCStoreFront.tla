---------------------------- MODULE MCStoreFront ----------------------------
(* StoreFront on small instances. *)
EXTENDS StoreFront, TLC

Symmetry == Permutations(Calls) \cup Permutations(Tables) \cup
            Permutations(Products) \cup Permutations(Stores)

=============================================================================
