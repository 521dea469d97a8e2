---------------------------- MODULE OrderContract ----------------------------
(***************************************************************************)
(* The state tables that every order and payment handler consults: the      *)
(* canonical order status contract, the operational order state machine,    *)
(* the transitions each fulfilment environment allows, and the payment      *)
(* state machine.                                                            *)
(***************************************************************************)

\* core/domain/OrderStatusContract.js: the branch accepted the order and it
\* was never terminally failed.
ConsumingStatuses ==
    {"confirmed", "preparing", "ready", "out_for_delivery", "completed"}

\* Statuses a customer order can be found in.
OrderStatuses ==
    ConsumingStatuses \cup
    {"pending", "cancelled", "rejected", "timeout", "fulfillment_exception"}

\* The statuses that make OrderStateMachine void a referral commission.
VoidingStatuses == {"cancelled", "rejected", "timeout"}

\* OrderStateMachine.VALID_TRANSITIONS, as pairs.
OrderTransitions ==
    ({"pending"} \X {"confirmed", "cancelled", "rejected", "timeout"})
    \cup {<<"confirmed", "preparing">>,
          <<"preparing", "ready">>,
          <<"ready", "out_for_delivery">>,
          <<"ready", "completed">>,
          <<"out_for_delivery", "completed">>}
    \cup ({"confirmed", "preparing", "ready", "out_for_delivery"} \X {"cancelled"})

\* FulfillmentEnvironmentService.ENVIRONMENTS: what each environment takes
\* out of the universal table (pickup and dine-in share theirs).
EnvironmentTransitions(type) ==
    IF type = "delivery"
    THEN OrderTransitions \ {<<"ready", "completed">>}
    ELSE {t \in OrderTransitions :
             t[1] # "out_for_delivery" /\ t[2] # "out_for_delivery"}

\* OrderStateMachine.canTransition and assertTransition together.
CanMove(type, from, to) ==
    /\ <<from, to>> \in OrderTransitions
    /\ <<from, to>> \in EnvironmentTransitions(type)

-----------------------------------------------------------------------------
\* PaymentModel.STATUSES, and 'failed', which only checkout.js writes.  No code
\* writes 'refunded'.
PaymentStatuses ==
    {"pending", "reconciliation_pending", "challenge", "settlement",
     "cancel", "deny", "expire", "failed"}

ClosedPayments == {"cancel", "deny", "expire"}

\* PaymentModel.VALID_TRANSITIONS; settlement -> refunded is never taken.
PaymentTransitions ==
    ({"pending", "reconciliation_pending"}
         \X ({"settlement", "challenge"} \cup ClosedPayments))
    \cup {<<"pending", "reconciliation_pending">>}
    \cup ({"challenge"} \X ({"settlement"} \cup ClosedPayments))

\* PaymentModel.canTransition.
CanPay(from, to) == <<from, to>> \in PaymentTransitions
=============================================================================
