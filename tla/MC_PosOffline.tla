---- MODULE MC_PosOffline ----
EXTENDS PosOffline, TLC

Symmetry == Permutations(Sales) \cup Permutations(Runs)
====
