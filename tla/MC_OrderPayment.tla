--------------------------- MODULE MC_OrderPayment ---------------------------
(* Two orders of one customer, who may claim the promotion once; both compete *)
(* for stock and for the claim, and the checkout of one of them may be        *)
(* requested again while the other runs.                                      *)
EXTENDS OrderPayment

CONSTANTS od, tk

BothOrders == {od, tk}

OneRetry == [o \in BothOrders |-> IF o = od THEN 2 ELSE 1]
TwoRetries == [o \in {tk} |-> 3]
=============================================================================
