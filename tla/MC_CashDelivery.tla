--------------------------- MODULE MC_CashDelivery ---------------------------
(* A small branch for TLC: the orders are alike, and so are the drivers and  *)
(* the cashiers.  All the properties are about safety, so the symmetry is    *)
(* sound.                                                                    *)
EXTENDS CashDelivery, TLC

Symmetry ==
    Permutations(Orders) \cup Permutations(Drivers) \cup Permutations(Cashiers)

=============================================================================
