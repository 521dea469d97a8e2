---------------------------- MODULE OrderPayment ----------------------------
(***************************************************************************)
(* The life of customer_app orders paid online, for delivery or pickup, at  *)
(* one branch: checkout, the call that opens a transaction at the payment   *)
(* gateway, its notifications, the reconciliation worker, the branch's      *)
(* acceptance, the acceptance timeout, the customer's cancellation and the  *)
(* kitchen; and what these do to stock, to the one claim of a promotion a   *)
(* customer has, and to the commission of the affiliate who referred them.  *)
(*                                                                         *)
(* A handler of the single Node process is one action up to its next await. *)
(* The awaits are the gateway calls: checkout.js awaits createTransaction   *)
(* (`opening`), checkTransactionStatus awaits the status inquiry            *)
(* (`inquiry`).  Every other handler may run in between.                    *)
(*                                                                         *)
(* Each order is for one unit of the same product; the orders WithPromo     *)
(* claim the same promotion and are one customer's.                         *)
(***************************************************************************)
EXTENDS Naturals, FiniteSets, OrderContract

CONSTANTS
    Orders,
    Pickup,         \* the orders of type pickup; the others are delivery
    WithPromo,      \* the orders with a reward line of the promotion
    Referred,       \* the orders an affiliate referred
    InitialStock,
    PromoLimit,     \* promotions.max_redemptions_per_customer
    MaxTries        \* bounds on the checkout requests for each order

ASSUME OrderSubsets == /\ Pickup \subseteq Orders
                       /\ WithPromo \subseteq Orders
                       /\ Referred \subseteq Orders
ASSUME FiniteOrders == IsFiniteSet(Orders)
ASSUME Amounts == /\ InitialStock \in Nat
                  /\ PromoLimit \in Nat \ {0}
                  /\ MaxTries \in [Orders -> Nat \ {0}]

VARIABLES
    status,      \* orders.status, "none" before the order is placed
    payment,     \* order_payments.payment_status
    token,       \* order_payments.snap_token is set: the customer can pay
    stock,       \* branch_products.stock
    deducted,    \* orders with a sale_deduction movement of their own
    claim,       \* promotion_redemptions row of the order: "none" is no row
    commission,  \* affiliate_conversions.status of the order
    opening,     \* checkout requests awaiting createTransaction
    tries,       \* checkout requests made for the order
    inquiry,     \* checkTransactionStatus: "none", "asked" or the answer
    gateway,     \* the transaction at the gateway, "none" if it knows none
    notices,     \* notifications the gateway has sent
    overwritten  \* history: orders that were decided when a late answer wrote
                 \*   over them

orderVars == <<status, payment, token, stock, deducted, claim, commission>>
callVars == <<opening, tries, inquiry>>
gatewayVars == <<gateway, notices>>
vars == <<orderVars, callVars, gatewayVars, overwritten>>

GatewayStatuses ==
    {"pending", "challenge", "settlement"} \cup ClosedPayments

TypeOK ==
    /\ status \in [Orders -> OrderStatuses \cup {"none"}]
    /\ payment \in [Orders -> PaymentStatuses \cup {"none"}]
    /\ token \in [Orders -> BOOLEAN]
    /\ stock \in Nat
    /\ deducted \in SUBSET Orders
    /\ claim \in [Orders -> {"none", "active", "voided"}]
    /\ commission \in [Orders -> {"none", "pending", "approved", "voided"}]
    /\ opening \in [Orders -> Nat]
    /\ tries \in [Orders -> Nat]
    /\ inquiry \in [Orders -> {"none", "asked", "404"} \cup GatewayStatuses]
    /\ gateway \in [Orders -> {"none"} \cup GatewayStatuses]
    /\ notices \in SUBSET (Orders \X GatewayStatuses)
    /\ overwritten \in SUBSET Orders

Init ==
    /\ status = [o \in Orders |-> "none"]
    /\ payment = [o \in Orders |-> "none"]
    /\ token = [o \in Orders |-> FALSE]
    /\ stock = InitialStock
    /\ deducted = {}
    /\ claim = [o \in Orders |-> "none"]
    /\ commission = [o \in Orders |-> "none"]
    /\ opening = [o \in Orders |-> 0]
    /\ tries = [o \in Orders |-> 0]
    /\ inquiry = [o \in Orders |-> "none"]
    /\ gateway = [o \in Orders |-> "none"]
    /\ notices = {}
    /\ overwritten = {}

-----------------------------------------------------------------------------
(* What the handlers share. *)

Placed(o) == status[o] # "none"

TypeOf(o) == IF o \in Pickup THEN "pickup" ELSE "delivery"

ActiveClaims == {o \in Orders : claim[o] = "active"}

\* promotionRepository.voidRedemptions
Voided(c) == IF c = "active" THEN "voided" ELSE c

\* A slip of its: the branch's stock is not looked at.
StockAlwaysSuffices(o) == TRUE

\* deductStockForSettledOrder would not raise OUT_OF_STOCK_RACE.
StockSuffices(o) == o \in deducted \/ stock > 0

\* A slip of its: the limit may be exceeded by one.
ClaimAllowedOffByOne(o) ==
    o \in WithPromo => Cardinality(ActiveClaims) <= PromoLimit

\* recordOrderRedemptions would not raise PROMO_LIMIT_EXCEEDED_RACE: it counts
\* every active claim of the customer, the order's own included.
ClaimAllowed(o) ==
    o \in WithPromo => Cardinality(ActiveClaims) < PromoLimit

\* Slips of its: the ledger is not consulted, or not written.
DeductStockAlways(o) ==
    /\ stock' = stock - 1
    /\ deducted' = deducted \cup {o}

DeductStockUnrecorded(o) ==
    /\ stock' = IF o \in deducted THEN stock ELSE stock - 1
    /\ UNCHANGED deducted

\* deductStockForSettledOrder: at most one deduction per order.
DeductStock(o) ==
    /\ stock' = IF o \in deducted THEN stock ELSE stock - 1
    /\ deducted' = deducted \cup {o}

\* recordRedemptions: INSERT ... ON CONFLICT(order_id, promotion_id) DO NOTHING.
RecordClaim(o) ==
    claim' = IF o \in WithPromo /\ claim[o] = "none"
             THEN [claim EXCEPT ![o] = "active"]
             ELSE claim

VoidClaim(o) == claim' = [claim EXCEPT ![o] = Voided(@)]

\* A slip of its: a commission is voided on cancellation only.
SettleCommissionOnCancel(o, to) ==
    commission' = [commission EXCEPT ![o] =
        IF to = "completed" /\ @ = "pending" THEN "approved"
        ELSE IF to = "cancelled" /\ @ # "none" THEN "voided"
        ELSE @]

\* approveOrderCommission and voidOrderCommission, as the transition hooks.
SettleCommission(o, to) ==
    commission' = [commission EXCEPT ![o] =
        IF to = "completed" /\ @ = "pending" THEN "approved"
        ELSE IF to \in VoidingStatuses /\ @ # "none" THEN "voided"
        ELSE @]

\* OrderStateMachine.transition, by any actor.  It does not look at who has an
\* await pending on the order.
Transition(o, to) ==
    /\ CanMove(TypeOf(o), status[o], to)
    /\ to \in VoidingStatuses => payment[o] # "settlement"
    /\ claim' = IF to \notin ConsumingStatuses /\ status[o] \notin ConsumingStatuses
                THEN [claim EXCEPT ![o] = Voided(@)]
                ELSE claim
    /\ SettleCommission(o, to)
    /\ status' = [status EXCEPT ![o] = to]

-----------------------------------------------------------------------------
(* Checkout (server/routes/checkout.js, OrderPlacementService.submitOrder). *)

\* A new order: verified against stock and against the promotion, inserted as
\* pending with a pending payment, its referral recorded, and createTransaction
\* called.
PlaceOrder(o) ==
    /\ status[o] = "none"
    /\ stock > 0
    /\ ClaimAllowed(o)
    /\ status' = [status EXCEPT ![o] = "pending"]
    /\ payment' = [payment EXCEPT ![o] = "pending"]
    /\ commission' = [commission EXCEPT
                        ![o] = IF o \in Referred THEN "pending" ELSE "none"]
    /\ opening' = [opening EXCEPT ![o] = 1]
    /\ tries' = [tries EXCEPT ![o] = 1]
    /\ UNCHANGED <<token, stock, deducted, claim, inquiry, gatewayVars, overwritten>>

\* The same client_transaction_id again (a double tap, or the app's retry after
\* an error): submitOrder answers with the existing order, whatever its status,
\* and checkout opens another transaction for it unless it has a token.
RetryCheckout(o) ==
    /\ Placed(o)
    /\ tries[o] < MaxTries[o]
    /\ ~token[o]
    /\ opening' = [opening EXCEPT ![o] = @ + 1]
    /\ tries' = [tries EXCEPT ![o] = @ + 1]
    /\ UNCHANGED <<orderVars, inquiry, gatewayVars, overwritten>>

\* createTransaction returned: the token is saved and given to the customer.
SnapOpened(o) ==
    /\ opening[o] > 0
    /\ opening' = [opening EXCEPT ![o] = @ - 1]
    /\ token' = [token EXCEPT ![o] = TRUE]
    /\ UNCHANGED <<status, payment, stock, deducted, claim, commission,
                   tries, inquiry, gatewayVars, overwritten>>

NoteOverwrite(o, decided) ==
    overwritten' = IF decided THEN overwritten \cup {o} ELSE overwritten

\* It timed out: both rows are overwritten, whatever they hold by now.
SnapTimeout(o) ==
    /\ opening[o] > 0
    /\ opening' = [opening EXCEPT ![o] = @ - 1]
    /\ payment' = [payment EXCEPT ![o] = "reconciliation_pending"]
    /\ status' = [status EXCEPT ![o] = "pending"]
    /\ NoteOverwrite(o, status[o] # "pending" \/ payment[o] = "settlement")
    /\ UNCHANGED <<token, stock, deducted, claim, commission,
                   tries, inquiry, gatewayVars>>

\* It failed otherwise: likewise.
SnapError(o) ==
    /\ opening[o] > 0
    /\ opening' = [opening EXCEPT ![o] = @ - 1]
    /\ payment' = [payment EXCEPT ![o] = "failed"]
    /\ status' = [status EXCEPT ![o] = "cancelled"]
    /\ NoteOverwrite(o, status[o] # "pending" \/ payment[o] = "settlement")
    /\ UNCHANGED <<token, stock, deducted, claim, commission,
                   tries, inquiry, gatewayVars>>

-----------------------------------------------------------------------------
(* The branch, the customer, the acceptance worker and the kitchen. *)

\* POST /orders/:id/branch-acceptance, accept: stock, claim and status in one
\* transaction.
BranchAccept(o) ==
    /\ StockSuffices(o)
    /\ ClaimAllowed(o)
    /\ CanMove(TypeOf(o), status[o], "confirmed")
    /\ DeductStock(o)
    /\ RecordClaim(o)
    /\ status' = [status EXCEPT ![o] = "confirmed"]
    /\ UNCHANGED <<payment, token, commission, callVars, gatewayVars, overwritten>>

\* The same, lost to the race for stock or for the claim: everything is rolled
\* back, and an order already paid for goes to the refund queue.
BranchAcceptRace(o) ==
    /\ CanMove(TypeOf(o), status[o], "confirmed")
    /\ ~(StockSuffices(o) /\ ClaimAllowed(o))
    /\ payment[o] = "settlement"
    /\ status' = [status EXCEPT ![o] = "fulfillment_exception"]
    /\ UNCHANGED <<payment, token, stock, deducted, claim, commission,
                   callVars, gatewayVars, overwritten>>

\* The same endpoint, reject.
BranchReject(o) ==
    /\ Transition(o, "rejected")
    /\ UNCHANGED <<payment, token, stock, deducted, callVars, gatewayVars, overwritten>>

\* POST /orders/:id/cancel: expected_current_status is 'pending'.
CustomerCancel(o) ==
    /\ status[o] = "pending"
    /\ Transition(o, "cancelled")
    /\ UNCHANGED <<payment, token, stock, deducted, callVars, gatewayVars, overwritten>>

\* A slip of its: an order with an unresolved payment is passed over.
TimeoutSweepPaidOnly(o) ==
    /\ status[o] = "pending"
    /\ payment[o] = "pending"
    /\ Transition(o, "timeout")
    /\ UNCHANGED <<payment, token, stock, deducted, callVars, gatewayVars, overwritten>>

\* AcceptanceTimeoutService, once the order is overdue.
TimeoutSweep(o) ==
    /\ status[o] = "pending"
    /\ Transition(o, "timeout")
    /\ UNCHANGED <<payment, token, stock, deducted, callVars, gatewayVars, overwritten>>

\* PATCH /kitchen/orders/:id/status by kitchen or manager; a driver's
\* on_delivery and delivered move the order by the same transition.
KitchenStatus(o, to) ==
    /\ to \in {"preparing", "ready", "out_for_delivery", "completed"}
    /\ Transition(o, to)
    /\ UNCHANGED <<payment, token, stock, deducted, callVars, gatewayVars, overwritten>>

-----------------------------------------------------------------------------
(* PaymentGatewayService.handleWebhook, for a notification or for the answer *)
(* to an inquiry that says the transaction is in status st.                  *)

\* A slip of its: money confirms the order.
SettleAwaitingConfirms(o) ==
    /\ status[o] = "pending"
    /\ status' = [status EXCEPT ![o] = "confirmed"]
    /\ UNCHANGED <<stock, deducted, claim>>

\* Money for an order that is still waiting for the branch: recorded, no more.
SettleAwaiting(o) ==
    /\ status[o] = "pending"
    /\ UNCHANGED <<status, stock, deducted, claim>>

\* Money for an order the branch has accepted: make sure of stock and claim.
SettleAccepted(o) ==
    /\ status[o] \in ConsumingStatuses
    /\ StockSuffices(o) /\ ClaimAllowed(o)
    /\ DeductStock(o)
    /\ RecordClaim(o)
    /\ UNCHANGED status

\* That raised a race error: a second transaction records the settlement and
\* sends the order to the refund queue; an accepted order keeps its claim.
SettleAcceptedRace(o) ==
    /\ status[o] \in ConsumingStatuses
    /\ ~(StockSuffices(o) /\ ClaimAllowed(o))
    /\ status' = [status EXCEPT ![o] = "fulfillment_exception"]
    /\ UNCHANGED <<stock, deducted, claim>>

\* Slips of its: the order is left where it was, or an overdue one is forgotten.
SettleTerminalLeaves(o) ==
    /\ status[o] \in {"rejected", "timeout", "fulfillment_exception"}
    /\ VoidClaim(o)
    /\ UNCHANGED <<status, stock, deducted>>

SettleTerminalNoTimeout(o) ==
    /\ status[o] \in {"rejected", "fulfillment_exception"}
    /\ status' = [status EXCEPT ![o] = "fulfillment_exception"]
    /\ VoidClaim(o)
    /\ UNCHANGED <<stock, deducted>>

\* Money for an order that is over: refund queue, and the claim is released.
SettleTerminal(o) ==
    /\ status[o] \in {"rejected", "timeout", "fulfillment_exception"}
    /\ status' = [status EXCEPT ![o] = "fulfillment_exception"]
    /\ VoidClaim(o)
    /\ UNCHANGED <<stock, deducted>>

\* A settlement is refused while the order is 'cancelled'.
Settle(o) ==
    /\ status[o] # "cancelled"
    /\ \/ SettleAwaiting(o)
       \/ SettleAccepted(o)
       \/ SettleAcceptedRace(o)
       \/ SettleTerminal(o)

\* Slips of its: the claim is released, or the order cancelled, accepted or not.
ClosePaymentVoids(o) ==
    /\ status' = [status EXCEPT ![o] = IF @ = "pending" THEN "cancelled" ELSE @]
    /\ VoidClaim(o)
    /\ UNCHANGED <<stock, deducted>>

ClosePaymentCancels(o) ==
    /\ status' = [status EXCEPT ![o] = "cancelled"]
    /\ VoidClaim(o)
    /\ UNCHANGED <<stock, deducted>>

\* cancel, deny, expire: a pending order is cancelled and its claim released.
ClosePayment(o) ==
    /\ IF status[o] = "pending"
       THEN /\ status' = [status EXCEPT ![o] = "cancelled"]
            /\ VoidClaim(o)
       ELSE UNCHANGED <<status, claim>>
    /\ UNCHANGED <<stock, deducted>>

\* Anything PaymentModel does not allow is refused or already done.
HandleWebhook(o, st) ==
    /\ CanPay(payment[o], st)
    /\ payment' = [payment EXCEPT ![o] = st]
    /\ \/ st = "settlement" /\ Settle(o)
       \/ st \in ClosedPayments /\ ClosePayment(o)
       \/ st = "challenge" /\ UNCHANGED <<status, stock, deducted, claim>>
    /\ UNCHANGED <<token, commission>>

\* Notifications arrive in any order, late and more than once.
Webhook(o, st) ==
    /\ <<o, st>> \in notices
    /\ HandleWebhook(o, st)
    /\ UNCHANGED <<callVars, gatewayVars, overwritten>>

-----------------------------------------------------------------------------
(* Reconciliation: the worker of app.js every 60 s, and the inquiry checkout *)
(* makes first when the customer has an unreconciled order.                  *)

\* A slip of its: only orders still waiting for the branch are listed.
ReconcileStartAwaiting(o) ==
    /\ payment[o] = "reconciliation_pending"
    /\ status[o] = "pending"
    /\ inquiry[o] = "none"
    /\ inquiry' = [inquiry EXCEPT ![o] = "asked"]
    /\ UNCHANGED <<orderVars, opening, tries, gatewayVars, overwritten>>

\* findPendingReconciliationPayments lists the order and the inquiry is sent.
ReconcileStart(o) ==
    /\ payment[o] = "reconciliation_pending"
    /\ inquiry[o] = "none"
    /\ inquiry' = [inquiry EXCEPT ![o] = "asked"]
    /\ UNCHANGED <<orderVars, opening, tries, gatewayVars, overwritten>>

\* The answer is for what the gateway knows now; it is used later.
GatewayAnswers(o) ==
    /\ inquiry[o] = "asked"
    /\ inquiry' = [inquiry EXCEPT ![o] = IF gateway[o] = "none" THEN "404" ELSE gateway[o]]
    /\ UNCHANGED <<orderVars, opening, tries, gatewayVars, overwritten>>

\* The call fails, or its answer is one handleWebhook refuses.
InquiryFruitless(o) ==
    /\ inquiry[o] # "none"
    /\ \/ inquiry[o] = "asked"
       \/ inquiry[o] \in GatewayStatuses /\ ~CanPay(payment[o], inquiry[o])
       \/ inquiry[o] = "settlement" /\ status[o] = "cancelled"
    /\ inquiry' = [inquiry EXCEPT ![o] = "none"]
    /\ UNCHANGED <<orderVars, opening, tries, gatewayVars, overwritten>>

\* The answer is handled as a notification.
InquiryApplied(o) ==
    /\ inquiry[o] \in GatewayStatuses
    /\ HandleWebhook(o, inquiry[o])
    /\ inquiry' = [inquiry EXCEPT ![o] = "none"]
    /\ UNCHANGED <<opening, tries, gatewayVars, overwritten>>

\* 404: the payment is overwritten and a pending order cancelled; its claim and
\* its commission are left.
Inquiry404(o) ==
    /\ inquiry[o] = "404"
    /\ payment' = [payment EXCEPT ![o] = "cancel"]
    /\ status' = [status EXCEPT ![o] = IF @ = "pending" THEN "cancelled" ELSE @]
    /\ inquiry' = [inquiry EXCEPT ![o] = "none"]
    /\ NoteOverwrite(o, payment[o] = "settlement")
    /\ UNCHANGED <<token, stock, deducted, claim, commission,
                   opening, tries, gatewayVars>>

\* The process restarts: the handlers that were waiting are gone.
Restart ==
    /\ opening' = [o \in Orders |-> 0]
    /\ inquiry' = [o \in Orders |-> "none"]
    /\ UNCHANGED <<orderVars, tries, gatewayVars, overwritten>>

-----------------------------------------------------------------------------
(* The gateway and the customer at it (external). *)

GatewaySteps ==
    ({"none"} \X {"pending"})
    \cup ({"pending", "challenge"} \X ({"settlement"} \cup ClosedPayments))
    \cup {<<"pending", "challenge">>}

\* The customer picks a way to pay, pays, is refused, or lets it expire; the
\* gateway notifies each change.
GatewayStep(o, st) ==
    /\ token[o]
    /\ <<gateway[o], st>> \in GatewaySteps
    /\ gateway' = [gateway EXCEPT ![o] = st]
    /\ notices' = notices \cup {<<o, st>>}
    /\ UNCHANGED <<orderVars, callVars, overwritten>>

-----------------------------------------------------------------------------
SnapReturns(o) == SnapOpened(o) \/ SnapTimeout(o) \/ SnapError(o)

Operate(o) ==
    \/ BranchAccept(o)
    \/ BranchAcceptRace(o)
    \/ BranchReject(o)
    \/ CustomerCancel(o)
    \/ TimeoutSweep(o)
    \/ \E to \in ConsumingStatuses : KitchenStatus(o, to)

Reconcile(o) ==
    \/ ReconcileStart(o)
    \/ GatewayAnswers(o)
    \/ InquiryFruitless(o)
    \/ InquiryApplied(o)
    \/ Inquiry404(o)

OrderStep(o) ==
    \/ PlaceOrder(o)
    \/ RetryCheckout(o)
    \/ SnapReturns(o)
    \/ Operate(o)
    \/ Reconcile(o)
    \/ \E st \in GatewayStatuses : Webhook(o, st) \/ GatewayStep(o, st)

Next == Restart \/ \E o \in Orders : OrderStep(o)

Spec == Init /\ [][Next]_vars

-----------------------------------------------------------------------------
TransactionEnds(o) ==
    \E st \in {"settlement"} \cup ClosedPayments : GatewayStep(o, st)

(* What is scheduled: axios gives up (8 s at checkout, 6 s for an inquiry),  *)
(* and the two workers run every 60 s and 15 s.  Of the world outside: an    *)
(* inquiry does not fail for ever, the gateway repeats a notification of a    *)
(* settlement until it is handled, and an opened transaction expires.        *)
Fairness ==
    \A o \in Orders :
        /\ WF_vars(SnapReturns(o))
        /\ WF_vars(TimeoutSweep(o))
        /\ WF_vars(ReconcileStart(o))
        /\ SF_vars(GatewayAnswers(o))
        /\ WF_vars(InquiryFruitless(o) /\ inquiry[o] # "asked")
        /\ SF_vars(InquiryApplied(o) \/ Inquiry404(o))
        /\ SF_vars(Webhook(o, "settlement"))
        /\ WF_vars(TransactionEnds(o))

FairSpec == Spec /\ Fairness

-----------------------------------------------------------------------------
(* No unit of stock is made or lost: every unit gone from the branch is the   *)
(* deduction of one order (insertSaleDeduction beside deductBranchProduct).   *)
StockConserved == stock + Cardinality(deducted) = InitialStock

(* An order the branch has accepted has had its stock taken, whatever         *)
(* settlements and inquiries came before or after.                            *)
AcceptedIsDeducted ==
    \A o \in Orders : status[o] \in ConsumingStatuses => o \in deducted

(* A customer never holds more live claims of the promotion than its limit,   *)
(* in whatever order the branch accepts and the gateway settles.              *)
ClaimLimit == Cardinality(ActiveClaims) <= PromoLimit

(* Money recorded for an order is never left on an order that was dropped:    *)
(* it is on a live one or in the refund queue ("fulfillment_exception").      *)
SettledIsNotDropped ==
    \A o \in Orders :
        payment[o] = "settlement" => status[o] \notin VoidingStatuses

(* Payment is not acceptance: no step that records or changes a payment moves *)
(* an order into the accepted statuses or takes stock.                        *)
PaymentNeverAccepts ==
    [][\A o \in Orders : payment'[o] # payment[o] =>
          /\ status'[o] \in ConsumingStatuses => status[o] \in ConsumingStatuses
          /\ stock' = stock]_vars

(* A reward is consumed exactly by an accepted order: a claim is live only on  *)
(* an order that was accepted, and every accepted order with the reward has a *)
(* live claim (OrderStatusContract), through retried checkouts and late       *)
(* notifications, unless an answer that came too late overwrote the order.    *)
ClaimIffAccepted ==
    \A o \in WithPromo \ overwritten :
        /\ claim[o] = "active" =>
              status[o] \in ConsumingStatuses \cup {"fulfillment_exception"}
        /\ status[o] \in ConsumingStatuses => claim[o] = "active"

(* A commission is payable only for a completed order, unless a late answer    *)
(* overwrote that, and is no longer owed once the branch rejected the order or *)
(* let it time out.                                                           *)
CommissionFollowsOrder ==
    \A o \in Orders :
        /\ commission[o] = "approved" /\ o \notin overwritten =>
              status[o] \in {"completed", "fulfillment_exception"}
        /\ status[o] \in {"rejected", "timeout"} =>
              commission[o] \notin {"pending", "approved"}

(* An order's phase and payment as OrderPromise speaks of them.               *)
PhaseOf(s) ==
    CASE s = "none" -> "none"
      [] s = "pending" -> "awaiting"
      [] s = "completed" -> "fulfilled"
      [] s \in ConsumingStatuses \ {"completed"} -> "accepted"
      [] s \in VoidingStatuses -> "dropped"
      [] s = "fulfillment_exception" -> "refund"

Promise == INSTANCE OrderPromise
             WITH phase <- [o \in Orders |-> IF o \in overwritten THEN "overwritten"
                                             ELSE PhaseOf(status[o])],
                  paid <- [o \in Orders |-> o \notin overwritten
                                             /\ payment[o] = "settlement"]

KeepsPromise == Promise!Spec

(* The reconciliation worker resolves every payment checkout left unknown,    *)
(* unless the order was cancelled meanwhile.                                  *)
UncancelledReconciles ==
    \A o \in Orders :
        payment[o] = "reconciliation_pending"
            ~> payment[o] # "reconciliation_pending" \/ status[o] = "cancelled"

(* An unpaid order does not wait for the branch for ever.                     *)
AwaitingEnds ==
    \A o \in Orders :
        status[o] = "pending" ~> status[o] # "pending" \/ payment[o] = "settlement"

PaidAfterFailure(o) ==
    /\ gateway[o] = "settlement"
    /\ payment[o] = "pending"
    /\ status[o] \in {"rejected", "timeout"}

(* Money the gateway took for an order the branch rejected or let time out    *)
(* reaches the refund queue, when checkout saw the transaction open and no     *)
(* late answer of another attempt overwrites the order.                       *)
PaidFailureIsRecovered ==
    \A o \in Orders :
        PaidAfterFailure(o) ~> status[o] = "fulfillment_exception" \/ o \in overwritten
=============================================================================
