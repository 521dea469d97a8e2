-------------------------- MODULE MC_DiningTables --------------------------
(* Tables and customers are interchangeable: no action tells one from another. *)
EXTENDS DiningTables, TLC

Symmetry == Permutations(Tables) \cup Permutations(Customers)
=============================================================================
