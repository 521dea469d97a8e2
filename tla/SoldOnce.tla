---- MODULE SoldOnce ----
(* What a branch promises of a sale that may be sent more than once and over  *)
(* more than one way: it takes effect once, with one unit of stock, or not at *)
(* all, and no unit is sold that is not there.                                *)
EXTENDS Naturals

CONSTANTS
    Sales,          \* the ids under which sales are sent
    InitialStock

VARIABLES
    sold,           \* the sales that took effect
    elsewhere,      \* units sold by other channels
    left            \* units in stock

vars == <<sold, elsewhere, left>>

Init == sold = {} /\ elsewhere = 0 /\ left = InitialStock

Sell(s) ==
    /\ s \notin sold
    /\ left > 0
    /\ sold' = sold \cup {s}
    /\ left' = left - 1
    /\ UNCHANGED elsewhere

SellElsewhere ==
    /\ left > 0
    /\ elsewhere' = elsewhere + 1
    /\ left' = left - 1
    /\ UNCHANGED sold

Next == SellElsewhere \/ \E s \in Sales : Sell(s)

Spec == Init /\ [][Next]_vars
====
