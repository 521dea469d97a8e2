----------------------------- MODULE MC_PosBill -----------------------------
(* One bill that can be divided in every way, and a small one to group it with. *)
EXTENDS PosBill

CONSTANTS big, small

BothBills == {big, small}
Sizes == [b \in BothBills |-> IF b = big THEN 3 ELSE 1]
=============================================================================
