---------------------------- MODULE OrderPromise ----------------------------
(***************************************************************************)
(* What the order and payment contracts promise for an online order, with    *)
(* no mention of handlers, awaits or notifications:                          *)
(*   - money, once recorded, stays recorded;                                  *)
(*   - the branch's acceptance is final: an accepted order is fulfilled, or   *)
(*     goes to the refund queue when it was paid for;                         *)
(*   - an order is dropped only while no money is recorded for it, and money  *)
(*     that turns up for a dropped order sends it to the refund queue in the  *)
(*     same step;                                                             *)
(*   - all this until an answer that comes too late overwrites an order that   *)
(*     was decided, of which nothing more is promised.                        *)
(***************************************************************************)
CONSTANT Orders

VARIABLES
    phase,   \* where the order is
    paid     \* the settlement is recorded

vars == <<phase, paid>>

Phases == {"none", "awaiting", "accepted", "fulfilled", "dropped", "refund", "overwritten"}

Init ==
    /\ phase = [o \in Orders |-> "none"]
    /\ paid = [o \in Orders |-> FALSE]

Go(o, from, to) ==
    /\ phase[o] = from
    /\ phase' = [phase EXCEPT ![o] = to]

Place(o) == Go(o, "none", "awaiting") /\ UNCHANGED paid

Accept(o) == Go(o, "awaiting", "accepted") /\ UNCHANGED paid

Fulfil(o) == Go(o, "accepted", "fulfilled") /\ UNCHANGED paid

Drop(o) == ~paid[o] /\ Go(o, "awaiting", "dropped") /\ UNCHANGED paid

Book(o) ==
    /\ ~paid[o]
    /\ paid' = [paid EXCEPT ![o] = TRUE]

Pay(o) ==
    /\ phase[o] \in {"awaiting", "accepted", "fulfilled"}
    /\ Book(o)
    /\ UNCHANGED phase

\* Money for a dropped order, or for one that cannot be served after all.
PayToRefund(o) ==
    /\ phase[o] \in {"accepted", "fulfilled", "dropped"}
    /\ Book(o)
    /\ phase' = [phase EXCEPT ![o] = "refund"]

\* A paid order that the branch finds it cannot serve.
Refund(o) == paid[o] /\ Go(o, "awaiting", "refund") /\ UNCHANGED paid

\* A late answer: only an order that is decided, or paid for, has one to fear.
Overwrite(o) ==
    /\ phase[o] \notin {"none", "overwritten"}
    /\ phase[o] = "awaiting" => paid[o]
    /\ phase' = [phase EXCEPT ![o] = "overwritten"]
    /\ paid' = [paid EXCEPT ![o] = FALSE]

Next ==
    \E o \in Orders :
        \/ Place(o) \/ Accept(o) \/ Fulfil(o) \/ Drop(o)
        \/ Pay(o) \/ PayToRefund(o) \/ Refund(o) \/ Overwrite(o)

Spec == Init /\ [][Next]_vars
=============================================================================
