------------------------- MODULE OrderPayment_proofs -------------------------
(***************************************************************************)
(* Theorems about OrderPayment for any finite set of orders, any stock, any *)
(* promotion limit and any number of checkout retries, under Spec: the      *)
(* awaits of checkout and of the reconciliation may interleave with every   *)
(* other handler.                                                           *)
(*                                                                         *)
(* The inductive invariant IInv is the conjunction of what the rows of the  *)
(* database satisfy (RowInv) and the types of the calls in flight and of    *)
(* the gateway (CallTypes).  An action touches one of the two halves or     *)
(* both, and the parts it cannot disturb are carried by UNCHANGED.          *)
(*                                                                         *)
(* The last part is about what an order promises.  ContractInv adds what    *)
(* claims, commissions and refunds have to do with the status of an order   *)
(* that no late answer overwrote; from it follow the claims, the            *)
(* commissions and the refinement of OrderPromise.                          *)
(***************************************************************************)
EXTENDS OrderPayment, FiniteSetTheorems, TLAPS

RowTypes ==
    /\ status \in [Orders -> OrderStatuses \cup {"none"}]
    /\ payment \in [Orders -> PaymentStatuses \cup {"none"}]
    /\ token \in [Orders -> BOOLEAN]
    /\ stock \in Nat
    /\ deducted \in SUBSET Orders
    /\ claim \in [Orders -> {"none", "active", "voided"}]
    /\ commission \in [Orders -> {"none", "pending", "approved", "voided"}]

CallTypes ==
    /\ opening \in [Orders -> Nat]
    /\ tries \in [Orders -> Nat]
    /\ inquiry \in [Orders -> {"none", "asked", "404"} \cup GatewayStatuses]
    /\ gateway \in [Orders -> {"none"} \cup GatewayStatuses]
    /\ notices \in SUBSET (Orders \X GatewayStatuses)
    /\ overwritten \in SUBSET Orders

RowInv ==
    /\ RowTypes
    /\ StockConserved
    /\ AcceptedIsDeducted
    /\ ClaimLimit
    /\ SettledIsNotDropped

IInv == RowInv /\ CallTypes

-----------------------------------------------------------------------------
(* Lemmas about the tables of OrderContract. *)

(* The kitchen moves only orders that the branch has accepted.                *)
LEMMA KitchenMoves ==
    ASSUME NEW type, NEW from, NEW to, CanMove(type, from, to),
           to \in {"preparing", "ready", "out_for_delivery", "completed"}
    PROVE  from \in ConsumingStatuses
    BY DEF CanMove, OrderTransitions, ConsumingStatuses

-----------------------------------------------------------------------------
(* Lemmas about what the handlers share. *)

(* A deduction takes one unit for an order that had none and nothing for one  *)
(* that had, so stock and ledger stay in step.                                *)
LEMMA Deduction ==
    ASSUME RowTypes, StockConserved, NEW o \in Orders,
           StockSuffices(o), DeductStock(o)
    PROVE  /\ stock' \in Nat
           /\ deducted' = deducted \cup {o}
           /\ StockConserved'
           /\ o \in deducted => stock' = stock
<1>1. IsFiniteSet(deducted) /\ Cardinality(deducted) \in Nat
  BY FiniteOrders, FS_Subset, FS_CardinalityType DEF RowTypes
<1>2. /\ deducted' = deducted \cup {o}
      /\ stock' = IF o \in deducted THEN stock ELSE stock - 1
      /\ o \in deducted \/ stock > 0
  BY DEF DeductStock, StockSuffices
<1>3. Cardinality(deducted') = IF o \in deducted THEN Cardinality(deducted)
                               ELSE Cardinality(deducted) + 1
  BY <1>1, <1>2, FS_AddElement
<1> QED
  BY <1>1, <1>2, <1>3, Amounts DEF RowTypes, StockConserved

(* The claims of a customer are finite in number, and never more than the     *)
(* limit after a step that makes none active.                                 *)
LEMMA NoMoreClaims ==
    ASSUME RowTypes, ClaimLimit,
           claim' \in [Orders -> {"none", "active", "voided"}],
           \A o \in Orders : claim'[o] = "active" => claim[o] = "active"
    PROVE  ClaimLimit'
<1>1. IsFiniteSet(ActiveClaims) /\ Cardinality(ActiveClaims) \in Nat
  BY FiniteOrders, FS_Subset, FS_CardinalityType DEF ActiveClaims
<1>2. ActiveClaims' \in SUBSET ActiveClaims
  BY DEF ActiveClaims
<1>3. Cardinality(ActiveClaims') \in Nat /\ Cardinality(ActiveClaims') <= Cardinality(ActiveClaims)
  BY <1>1, <1>2, FS_Subset, FS_CardinalityType
<1> QED
  BY <1>1, <1>3, Amounts DEF ClaimLimit

(* A recorded claim is one the limit allowed.                                 *)
LEMMA RecordedClaim ==
    ASSUME RowTypes, ClaimLimit, NEW o \in Orders, ClaimAllowed(o), RecordClaim(o)
    PROVE  claim' \in [Orders -> {"none", "active", "voided"}] /\ ClaimLimit'
<1>1. claim' \in [Orders -> {"none", "active", "voided"}]
  BY DEF RowTypes, RecordClaim
<1>2. CASE o \in WithPromo /\ claim[o] = "none"
  <2>1. IsFiniteSet(ActiveClaims) /\ Cardinality(ActiveClaims) \in Nat
    BY FiniteOrders, FS_Subset, FS_CardinalityType DEF ActiveClaims
  <2>2. ActiveClaims' = ActiveClaims \cup {o}
    BY <1>2 DEF ActiveClaims, RecordClaim, RowTypes
  <2>3. o \notin ActiveClaims
    BY <1>2 DEF ActiveClaims
  <2>4. Cardinality(ActiveClaims') = Cardinality(ActiveClaims) + 1
    BY <2>1, <2>2, <2>3, FS_AddElement
  <2> QED
    BY <1>1, <1>2, <2>1, <2>4, Amounts DEF ClaimAllowed, ClaimLimit
<1>3. CASE ~(o \in WithPromo /\ claim[o] = "none")
  BY <1>1, <1>3, NoMoreClaims DEF RecordClaim
<1> QED
  BY <1>2, <1>3

(* OrderStateMachine.transition keeps the rows consistent whenever it does not *)
(* accept an order, or the order's stock has been taken.                      *)
LEMMA TransitionKeepsRows ==
    ASSUME RowInv, NEW o \in Orders, NEW to \in OrderStatuses, Transition(o, to),
           to \in ConsumingStatuses => status[o] \in ConsumingStatuses,
           UNCHANGED <<payment, token, stock, deducted>>
    PROVE  RowInv'
<1> USE DEF RowInv
<1>1. /\ claim' \in [Orders -> {"none", "active", "voided"}]
      /\ \A p \in Orders : claim'[p] = "active" => claim[p] = "active"
  BY DEF Transition, Voided, RowTypes
<1>2. commission' \in [Orders -> {"none", "pending", "approved", "voided"}]
  BY DEF Transition, SettleCommission, RowTypes
<1>3. status' = [status EXCEPT ![o] = to] /\ (to \in VoidingStatuses => payment[o] # "settlement")
  BY DEF Transition
<1>4. RowTypes'
  BY <1>1, <1>2, <1>3 DEF RowTypes
<1>5. StockConserved' /\ ClaimLimit'
  BY <1>1, NoMoreClaims DEF StockConserved
<1>6. AcceptedIsDeducted' /\ SettledIsNotDropped'
  BY <1>3 DEF AcceptedIsDeducted, SettledIsNotDropped, RowTypes
<1> QED
  BY <1>4, <1>5, <1>6

(* Whatever a notification or an inquiry says, handling it keeps the rows      *)
(* consistent.                                                                *)
LEMMA WebhookKeepsRows ==
    ASSUME RowInv, NEW o \in Orders, NEW st \in GatewayStatuses, HandleWebhook(o, st)
    PROVE  RowInv'
<1> USE DEF RowInv
<1>1. /\ payment' = [payment EXCEPT ![o] = st]
      /\ UNCHANGED <<token, commission>>
      /\ st \in PaymentStatuses
  BY DEF HandleWebhook, GatewayStatuses, PaymentStatuses, ClosedPayments
<1>2. CASE UNCHANGED <<status, stock, deducted, claim>>
           /\ (st = "settlement" => status[o] \notin VoidingStatuses)
  <2>1. RowTypes' /\ StockConserved' /\ AcceptedIsDeducted' /\ ClaimLimit'
    BY <1>1, <1>2 DEF RowTypes, StockConserved, AcceptedIsDeducted, ClaimLimit, ActiveClaims
  <2>2. SettledIsNotDropped'
    BY <1>1, <1>2 DEF SettledIsNotDropped, RowTypes
  <2> QED
    BY <2>1, <2>2
<1>3. CASE st = "settlement" /\ SettleAccepted(o)
  <2>1. UNCHANGED status /\ status[o] \in ConsumingStatuses
    BY <1>3 DEF SettleAccepted
  <2>2. stock' \in Nat /\ deducted' = deducted \cup {o} /\ StockConserved'
    BY <1>3, Deduction DEF SettleAccepted
  <2>3. claim' \in [Orders -> {"none", "active", "voided"}] /\ ClaimLimit'
    BY <1>3, RecordedClaim DEF SettleAccepted
  <2>4. RowTypes'
    BY <1>1, <2>1, <2>2, <2>3 DEF RowTypes
  <2>5. AcceptedIsDeducted' /\ SettledIsNotDropped'
    BY <1>1, <2>1, <2>2
       DEF AcceptedIsDeducted, SettledIsNotDropped, RowTypes, ConsumingStatuses, VoidingStatuses
  <2> QED
    BY <2>2, <2>3, <2>4, <2>5
<1>4. CASE \/ st = "settlement" /\ (SettleAcceptedRace(o) \/ SettleTerminal(o))
           \/ st \in ClosedPayments /\ status[o] = "pending" /\ ClosePayment(o)
  <2>1. /\ \/ status' = [status EXCEPT ![o] = "fulfillment_exception"]
           \/ status' = [status EXCEPT ![o] = "cancelled"] /\ st # "settlement"
        /\ UNCHANGED <<stock, deducted>>
        /\ claim' = claim \/ claim' = [claim EXCEPT ![o] = Voided(@)]
    BY <1>4 DEF SettleAcceptedRace, SettleTerminal, ClosePayment, VoidClaim, ClosedPayments
  <2>2. /\ claim' \in [Orders -> {"none", "active", "voided"}]
        /\ \A p \in Orders : claim'[p] = "active" => claim[p] = "active"
    BY <2>1 DEF Voided, RowTypes
  <2>3. RowTypes'
    BY <1>1, <2>1, <2>2 DEF RowTypes, OrderStatuses
  <2>4. StockConserved' /\ ClaimLimit'
    BY <2>1, <2>2, NoMoreClaims DEF StockConserved
  <2>5. AcceptedIsDeducted' /\ SettledIsNotDropped'
    BY <1>1, <2>1
       DEF AcceptedIsDeducted, SettledIsNotDropped, RowTypes, ConsumingStatuses, VoidingStatuses
  <2> QED
    BY <2>3, <2>4, <2>5
<1> QED
  <2>1. CASE st = "settlement" /\ Settle(o)
    <3>1. CASE SettleAwaiting(o)
      BY <1>2, <2>1, <3>1 DEF SettleAwaiting, VoidingStatuses
    <3> QED
      BY <1>3, <1>4, <2>1, <3>1 DEF Settle
  <2>2. CASE st \in ClosedPayments /\ ClosePayment(o)
    BY <1>2, <1>4, <2>2 DEF ClosePayment, ClosedPayments
  <2>3. CASE st = "challenge" /\ UNCHANGED <<status, stock, deducted, claim>>
    BY <1>2, <2>3
  <2> QED
    BY <2>1, <2>2, <2>3 DEF HandleWebhook

-----------------------------------------------------------------------------
(* The inductive invariant. *)

(* One step of any handler, worker, customer or gateway keeps it.             *)
LEMMA StepKeepsInv ==
    ASSUME IInv, Next
    PROVE  IInv'
<1> USE DEF IInv
<1>1. CASE Restart
  BY <1>1 DEF Restart, orderVars, gatewayVars, CallTypes, RowInv, RowTypes, StockConserved,
              AcceptedIsDeducted, ClaimLimit, ActiveClaims, SettledIsNotDropped
<1>2. ASSUME UNCHANGED orderVars, CallTypes' PROVE IInv'
  BY <1>2 DEF orderVars, RowInv, RowTypes, StockConserved, AcceptedIsDeducted,
              ClaimLimit, ActiveClaims, SettledIsNotDropped
<1>3. ASSUME UNCHANGED <<callVars, gatewayVars, overwritten>>, RowInv' PROVE IInv'
  BY <1>3 DEF callVars, gatewayVars, CallTypes
<1>4. ASSUME NEW o \in Orders, OrderStep(o) PROVE IInv'
  <2>1. CASE PlaceOrder(o)
    <3>1. /\ status' = [status EXCEPT ![o] = "pending"]
          /\ payment' = [payment EXCEPT ![o] = "pending"]
          /\ UNCHANGED <<token, stock, deducted, claim>>
      BY <2>1 DEF PlaceOrder
    <3>2. RowTypes' /\ CallTypes'
      BY <2>1 DEF PlaceOrder, RowInv, RowTypes, CallTypes, gatewayVars,
                  OrderStatuses, PaymentStatuses
    <3>3. StockConserved' /\ ClaimLimit' /\ AcceptedIsDeducted' /\ SettledIsNotDropped'
      BY <3>1 DEF RowInv, RowTypes, StockConserved, AcceptedIsDeducted, ClaimLimit,
                  ActiveClaims, SettledIsNotDropped, ConsumingStatuses, VoidingStatuses
    <3> QED
      BY <3>2, <3>3 DEF RowInv
  <2>2. CASE RetryCheckout(o)
    BY <1>2, <2>2 DEF RetryCheckout, CallTypes, gatewayVars
  <2>3. CASE SnapReturns(o)
    <3>1. /\ UNCHANGED <<stock, deducted, claim, commission, tries, inquiry, gateway, notices>>
          /\ opening' = [opening EXCEPT ![o] = @ - 1] /\ opening[o] > 0
          /\ token' \in [Orders -> BOOLEAN]
      BY <2>3 DEF SnapReturns, SnapOpened, SnapTimeout, SnapError, RowInv, RowTypes, gatewayVars
    <3>2. \/ UNCHANGED <<status, payment>>
          \/ /\ status' = [status EXCEPT ![o] = "pending"]
             /\ payment' = [payment EXCEPT ![o] = "reconciliation_pending"]
          \/ /\ status' = [status EXCEPT ![o] = "cancelled"]
             /\ payment' = [payment EXCEPT ![o] = "failed"]
      BY <2>3 DEF SnapReturns, SnapOpened, SnapTimeout, SnapError
    <3>3. RowTypes'
      BY <3>1, <3>2 DEF RowInv, RowTypes, OrderStatuses, PaymentStatuses
    <3>4. CallTypes'
      <4>1. overwritten' \in SUBSET Orders
        BY <2>3 DEF SnapReturns, SnapOpened, SnapTimeout, SnapError, NoteOverwrite, CallTypes
      <4> QED
        BY <3>1, <4>1 DEF CallTypes
    <3>5. StockConserved' /\ ClaimLimit'
      BY <3>1 DEF RowInv, StockConserved, ClaimLimit, ActiveClaims
    <3>6. AcceptedIsDeducted' /\ SettledIsNotDropped'
      BY <3>1, <3>2 DEF RowInv, RowTypes, AcceptedIsDeducted, SettledIsNotDropped,
                        ConsumingStatuses, VoidingStatuses
    <3> QED
      BY <3>3, <3>4, <3>5, <3>6 DEF RowInv
  <2>4. CASE BranchAccept(o)
    <3>1. /\ status' = [status EXCEPT ![o] = "confirmed"]
          /\ UNCHANGED <<payment, token, commission, callVars, gatewayVars, overwritten>>
      BY <2>4 DEF BranchAccept
    <3>2. stock' \in Nat /\ deducted' = deducted \cup {o} /\ StockConserved'
      BY <2>4, Deduction DEF BranchAccept, RowInv
    <3>3. claim' \in [Orders -> {"none", "active", "voided"}] /\ ClaimLimit'
      BY <2>4, RecordedClaim DEF BranchAccept, RowInv
    <3>4. RowTypes'
      BY <3>1, <3>2, <3>3 DEF RowInv, RowTypes, OrderStatuses, ConsumingStatuses
    <3>5. AcceptedIsDeducted' /\ SettledIsNotDropped'
      BY <3>1, <3>2 DEF RowInv, RowTypes, AcceptedIsDeducted, SettledIsNotDropped,
                        VoidingStatuses
    <3> QED
      BY <1>3, <3>1, <3>2, <3>3, <3>4, <3>5 DEF RowInv
  <2>5. CASE BranchAcceptRace(o)
    <3>1. /\ status' = [status EXCEPT ![o] = "fulfillment_exception"]
          /\ UNCHANGED <<payment, token, stock, deducted, claim, commission, callVars, gatewayVars,
                          overwritten>>
      BY <2>5 DEF BranchAcceptRace
    <3>2. RowInv'
      BY <3>1 DEF RowInv, RowTypes, OrderStatuses, StockConserved, AcceptedIsDeducted, ClaimLimit,
                  ActiveClaims, SettledIsNotDropped, ConsumingStatuses, VoidingStatuses
    <3> QED
      BY <1>3, <3>1, <3>2
  <2>6. CASE BranchReject(o) \/ CustomerCancel(o) \/ TimeoutSweep(o)
    <3>1. PICK to \in {"rejected", "cancelled", "timeout"} :
             /\ Transition(o, to)
             /\ UNCHANGED <<payment, token, stock, deducted, callVars, gatewayVars, overwritten>>
      BY <2>6 DEF BranchReject, CustomerCancel, TimeoutSweep
    <3>2. RowInv'
      BY <3>1, TransitionKeepsRows DEF OrderStatuses, ConsumingStatuses
    <3> QED
      BY <1>3, <3>1, <3>2
  <2>7. ASSUME NEW to \in ConsumingStatuses, KitchenStatus(o, to) PROVE IInv'
    <3>1. /\ Transition(o, to)
          /\ UNCHANGED <<payment, token, stock, deducted, callVars, gatewayVars, overwritten>>
      BY <2>7 DEF KitchenStatus
    <3>2. status[o] \in ConsumingStatuses
      BY <2>7, KitchenMoves DEF KitchenStatus, Transition
    <3>3. RowInv'
      BY <3>1, <3>2, TransitionKeepsRows DEF OrderStatuses
    <3> QED
      BY <1>3, <3>1, <3>3
  <2>8. CASE ReconcileStart(o) \/ GatewayAnswers(o) \/ InquiryFruitless(o)
    <3>1. UNCHANGED orderVars
      BY <2>8 DEF ReconcileStart, GatewayAnswers, InquiryFruitless
    <3>2. CallTypes'
      BY <2>8 DEF ReconcileStart, GatewayAnswers, InquiryFruitless, CallTypes, gatewayVars
    <3> QED
      BY <1>2, <3>1, <3>2
  <2>9. CASE InquiryApplied(o)
    <3>1. RowInv'
      BY <2>9, WebhookKeepsRows DEF InquiryApplied
    <3>2. CallTypes'
      BY <2>9 DEF InquiryApplied, CallTypes, gatewayVars
    <3> QED
      BY <3>1, <3>2
  <2>10. CASE Inquiry404(o)
    <3>1. /\ payment' = [payment EXCEPT ![o] = "cancel"]
          /\ status' = [status EXCEPT ![o] = IF @ = "pending" THEN "cancelled" ELSE @]
          /\ UNCHANGED <<token, stock, deducted, claim, commission>>
      BY <2>10 DEF Inquiry404
    <3>2. RowTypes'
      BY <3>1 DEF RowInv, RowTypes, OrderStatuses, PaymentStatuses
    <3>3. StockConserved' /\ ClaimLimit' /\ AcceptedIsDeducted' /\ SettledIsNotDropped'
      BY <3>1 DEF RowInv, RowTypes, StockConserved, AcceptedIsDeducted, ClaimLimit,
                  ActiveClaims, SettledIsNotDropped, ConsumingStatuses
    <3>4. CallTypes'
      BY <2>10 DEF Inquiry404, CallTypes, gatewayVars, NoteOverwrite
    <3> QED
      BY <3>2, <3>3, <3>4 DEF RowInv
  <2>11. ASSUME NEW st \in GatewayStatuses, Webhook(o, st) PROVE IInv'
    BY <1>3, <2>11, WebhookKeepsRows DEF Webhook
  <2>12. ASSUME NEW st \in GatewayStatuses, GatewayStep(o, st) PROVE IInv'
    <3>1. CallTypes' /\ UNCHANGED orderVars
      BY <2>12 DEF GatewayStep, CallTypes, callVars
    <3> QED
      BY <1>2, <3>1
  <2> QED
    BY <1>4, <2>1, <2>2, <2>3, <2>4, <2>5, <2>6, <2>7, <2>8, <2>9, <2>10, <2>11, <2>12
       DEF OrderStep, Operate, Reconcile
<1> QED
  BY <1>1, <1>4 DEF Next

(* An empty orders table (the schema of server/database/db.js) satisfies it.  *)
LEMMA InitInv == Init => IInv
<1> SUFFICES ASSUME Init PROVE IInv
  OBVIOUS
<1>1. Cardinality({}) = 0
  BY FS_EmptySet
<1>2. ActiveClaims = {}
  BY DEF Init, ActiveClaims
<1> QED
  BY <1>1, <1>2, Amounts
     DEF Init, IInv, RowInv, RowTypes, CallTypes, StockConserved, AcceptedIsDeducted,
         ClaimLimit, SettledIsNotDropped, ConsumingStatuses, VoidingStatuses

(* So does every step outside this part of the program: no row moves.         *)
LEMMA StutterKeepsInv == ASSUME IInv, UNCHANGED vars PROVE IInv'
    BY DEF vars, orderVars, callVars, gatewayVars, IInv, RowInv, RowTypes, CallTypes,
           StockConserved, AcceptedIsDeducted, ClaimLimit, ActiveClaims, SettledIsNotDropped

(* Every reachable state satisfies the invariant.                             *)
THEOREM Invariance == Spec => []IInv
<1>1. IInv /\ [Next]_vars => IInv'
  BY StepKeepsInv, StutterKeepsInv
<1> QED
  BY <1>1, InitInv, PTL DEF Spec

-----------------------------------------------------------------------------
(* What follows from it. *)

(* The rows have the values their columns allow.                              *)
THEOREM TypesAreCorrect == Spec => []TypeOK
<1>1. IInv => TypeOK
  BY DEF IInv, RowInv, RowTypes, CallTypes, TypeOK
<1> QED
  BY <1>1, Invariance, PTL

(* For any number of orders, whatever interleaves with the awaits of checkout *)
(* and reconciliation: stock is gone exactly by recorded deductions           *)
(* (InventoryRepository.deductBranchProduct, insertSaleDeduction).            *)
THEOREM StockIsConserved == Spec => []StockConserved
<1>1. IInv => StockConserved
  BY DEF IInv, RowInv
<1> QED
  BY <1>1, Invariance, PTL

(* deductStockForSettledOrder runs for every order the branch accepts.        *)
THEOREM AcceptedOrdersAreDeducted == Spec => []AcceptedIsDeducted
<1>1. IInv => AcceptedIsDeducted
  BY DEF IInv, RowInv
<1> QED
  BY <1>1, Invariance, PTL

(* recordOrderRedemptions counts before it inserts, so the limit holds for    *)
(* every number of orders competing for it.                                    *)
THEOREM ClaimsRespectTheLimit == Spec => []ClaimLimit
<1>1. IInv => ClaimLimit
  BY DEF IInv, RowInv
<1> QED
  BY <1>1, Invariance, PTL

(* transition refuses to drop a settled order and handleWebhook sends money   *)
(* for a dropped one to the refund queue.                                      *)
THEOREM NoMoneyOnDroppedOrders == Spec => []SettledIsNotDropped
<1>1. IInv => SettledIsNotDropped
  BY DEF IInv, RowInv
<1> QED
  BY <1>1, Invariance, PTL

(* A payment, notified or found out, moves no order into the accepted         *)
(* statuses and takes no stock: handleWebhook only makes sure of what          *)
(* acceptance has already taken.                                               *)
THEOREM PaymentIsNotAcceptance == Spec => PaymentNeverAccepts
<1> DEFINE Step == \A o \in Orders : payment'[o] # payment[o] =>
                      /\ status'[o] \in ConsumingStatuses => status[o] \in ConsumingStatuses
                      /\ stock' = stock
<1>1. ASSUME IInv, Next PROVE Step
  <2> SUFFICES ASSUME payment' # payment
               PROVE  \A o \in Orders :
                         /\ status'[o] \in ConsumingStatuses => status[o] \in ConsumingStatuses
                         /\ stock' = stock
    OBVIOUS
  <2> USE DEF IInv, RowInv, RowTypes
  <2>1. PICK o \in Orders : OrderStep(o)
    BY <1>1 DEF Next, Restart, orderVars
  <2>2. ASSUME NEW st \in GatewayStatuses, HandleWebhook(o, st)
        PROVE  /\ stock' = stock
               /\ \/ UNCHANGED status
                  \/ status' = [status EXCEPT ![o] = "fulfillment_exception"]
                  \/ status' = [status EXCEPT ![o] = "cancelled"]
    <3>1. CASE st = "settlement" /\ Settle(o)
      <4>1. CASE SettleAccepted(o)
        <5>1. o \in deducted
          BY <1>1, <4>1 DEF SettleAccepted, AcceptedIsDeducted
        <5> QED
          BY <4>1, <5>1 DEF SettleAccepted, DeductStock
      <4> QED
        BY <3>1, <4>1 DEF Settle, SettleAwaiting, SettleAcceptedRace, SettleTerminal
    <3>2. CASE st \in ClosedPayments /\ ClosePayment(o)
      BY <3>2 DEF ClosePayment
    <3>3. CASE st = "challenge" /\ UNCHANGED <<status, stock, deducted, claim>>
      BY <3>3
    <3> QED
      BY <2>2, <3>1, <3>2, <3>3 DEF HandleWebhook
  <2>3. CASE PlaceOrder(o)
    BY <1>1, <2>3 DEF PlaceOrder, ConsumingStatuses
  <2>4. CASE SnapReturns(o)
    BY <1>1, <2>4 DEF SnapReturns, SnapOpened, SnapTimeout, SnapError, ConsumingStatuses
  <2>5. CASE Inquiry404(o)
    BY <1>1, <2>5 DEF Inquiry404, ConsumingStatuses
  <2>6. CASE \E st \in GatewayStatuses : HandleWebhook(o, st)
    BY <1>1, <2>2, <2>6 DEF ConsumingStatuses
  <2>7. ~(RetryCheckout(o) \/ Operate(o))
    BY DEF RetryCheckout, Operate, BranchAccept, BranchAcceptRace, BranchReject,
           CustomerCancel, TimeoutSweep, KitchenStatus, orderVars
  <2>8. ~(ReconcileStart(o) \/ GatewayAnswers(o) \/ InquiryFruitless(o))
    BY DEF ReconcileStart, GatewayAnswers, InquiryFruitless, orderVars
  <2> QED
    BY <2>1, <2>3, <2>4, <2>5, <2>6, <2>7, <2>8
       DEF OrderStep, Reconcile, InquiryApplied, Webhook, GatewayStep, orderVars
<1>2. ASSUME IInv, UNCHANGED vars PROVE Step
  BY <1>2 DEF vars, orderVars
<1>3. IInv /\ [Next]_vars => [Step]_vars
  BY <1>1, <1>2
<1> QED
  BY <1>3, Invariance, PTL DEF Spec, PaymentNeverAccepts

-----------------------------------------------------------------------------
(* What claims, commissions and refunds have to do with the status.  Nothing   *)
(* is assumed of how often checkout is requested, or of who acts while it or   *)
(* the reconciliation awaits the gateway: an order that such an answer         *)
(* overwrites is in `overwritten`, and the rest is about the others.           *)

\* Nothing happens to an order before it is placed, no claim is taken before the
\* branch accepts it, and the refund queue is for money.
RowsMatch(o) ==
    /\ status[o] = "none" =>
          payment[o] = "none" /\ opening[o] = 0 /\ inquiry[o] = "none"
    /\ o \notin overwritten =>
          /\ status[o] \in {"none", "pending"} => claim[o] = "none"
          /\ status[o] = "fulfillment_exception" => payment[o] = "settlement"

\* ClaimIffAccepted and CommissionFollowsOrder for one order.
ContractKept(o) ==
    /\ o \in WithPromo /\ o \notin overwritten =>
          /\ claim[o] = "active" =>
                status[o] \in ConsumingStatuses \cup {"fulfillment_exception"}
          /\ status[o] \in ConsumingStatuses => claim[o] = "active"
    /\ commission[o] = "approved" /\ o \notin overwritten =>
          status[o] \in {"completed", "fulfillment_exception"}
    /\ status[o] \in {"rejected", "timeout"} =>
          commission[o] \notin {"pending", "approved"}

ContractInv == IInv /\ \A o \in Orders : RowsMatch(o) /\ ContractKept(o)

(* A step at one order leaves the rows, the calls and the transaction of every *)
(* other order alone.                                                          *)
LEMMA OtherOrders ==
    ASSUME IInv, NEW o \in Orders, OrderStep(o), NEW p \in Orders, p # o
    PROVE  /\ status'[p] = status[p] /\ payment'[p] = payment[p]
           /\ token'[p] = token[p] /\ claim'[p] = claim[p]
           /\ commission'[p] = commission[p]
           /\ opening'[p] = opening[p] /\ tries'[p] = tries[p]
           /\ inquiry'[p] = inquiry[p] /\ gateway'[p] = gateway[p]
           /\ p \in overwritten' <=> p \in overwritten
<1> USE DEF IInv, RowInv, RowTypes, CallTypes, orderVars, callVars, gatewayVars
<1>1. ASSUME NEW to, Transition(o, to)
      PROVE  status'[p] = status[p] /\ claim'[p] = claim[p] /\ commission'[p] = commission[p]
  BY <1>1 DEF Transition, SettleCommission
<1>2. ASSUME NEW st, HandleWebhook(o, st)
      PROVE  /\ status'[p] = status[p] /\ payment'[p] = payment[p]
             /\ claim'[p] = claim[p] /\ UNCHANGED <<token, commission>>
  BY <1>2 DEF HandleWebhook, Settle, SettleAwaiting, SettleAccepted, SettleAcceptedRace,
              SettleTerminal, ClosePayment, VoidClaim, RecordClaim
<1>3. CASE PlaceOrder(o) \/ RetryCheckout(o) \/ SnapReturns(o)
  BY <1>3 DEF PlaceOrder, RetryCheckout, SnapReturns, SnapOpened, SnapTimeout, SnapError,
              NoteOverwrite
<1>4. CASE BranchAccept(o) \/ BranchAcceptRace(o)
  BY <1>4 DEF BranchAccept, BranchAcceptRace, RecordClaim
<1>5. CASE \/ BranchReject(o) \/ CustomerCancel(o) \/ TimeoutSweep(o)
           \/ \E to \in ConsumingStatuses : KitchenStatus(o, to)
  BY <1>1, <1>5 DEF BranchReject, CustomerCancel, TimeoutSweep, KitchenStatus
<1>6. CASE ReconcileStart(o) \/ GatewayAnswers(o) \/ InquiryFruitless(o) \/ Inquiry404(o)
  BY <1>6 DEF ReconcileStart, GatewayAnswers, InquiryFruitless, Inquiry404, NoteOverwrite
<1>7. CASE InquiryApplied(o)
  BY <1>2, <1>7 DEF InquiryApplied
<1>8. CASE \E st \in GatewayStatuses : Webhook(o, st) \/ GatewayStep(o, st)
  BY <1>2, <1>8 DEF Webhook, GatewayStep
<1> QED
  BY <1>3, <1>4, <1>5, <1>6, <1>7, <1>8 DEF OrderStep, Operate, Reconcile

(* The order a step is about keeps its part of the invariant, whoever else     *)
(* waits for the gateway with it.                                              *)
LEMMA OrderStepKeepsContract ==
    ASSUME ContractInv, NEW o \in Orders, OrderStep(o)
    PROVE  RowsMatch(o)' /\ ContractKept(o)'
<1> USE DEF ContractInv, IInv, RowInv, RowTypes, CallTypes, RowsMatch, ContractKept,
            orderVars, callVars, gatewayVars
<1>2. ASSUME NEW st \in GatewayStatuses, HandleWebhook(o, st),
             UNCHANGED <<opening, overwritten>>,
             inquiry'[o] = "none" \/ inquiry'[o] = inquiry[o]
      PROVE  RowsMatch(o)' /\ ContractKept(o)'
  <2>1. /\ payment' = [payment EXCEPT ![o] = st] /\ CanPay(payment[o], st)
        /\ UNCHANGED <<token, commission>>
        /\ payment[o] # "settlement" /\ status[o] # "none"
    BY <1>2 DEF HandleWebhook, CanPay, PaymentTransitions, GatewayStatuses, ClosedPayments
  <2>2. CASE st = "settlement" /\ Settle(o)
    BY <1>2, <2>1, <2>2
       DEF Settle, SettleAwaiting, SettleAccepted, SettleAcceptedRace, SettleTerminal,
           RecordClaim, VoidClaim, Voided, ConsumingStatuses
  <2>3. CASE st \in ClosedPayments /\ ClosePayment(o)
    BY <1>2, <2>1, <2>3 DEF ClosePayment, VoidClaim, Voided, ConsumingStatuses
  <2>4. CASE st = "challenge" /\ UNCHANGED <<status, stock, deducted, claim>>
    BY <1>2, <2>1, <2>4 DEF ConsumingStatuses
  <2> QED
    BY <1>2, <2>2, <2>3, <2>4 DEF HandleWebhook
<1>3. ASSUME NEW to \in OrderStatuses \ {"pending", "fulfillment_exception"}, Transition(o, to),
             status[o] \notin ConsumingStatuses => to \notin ConsumingStatuses,
             status[o] \in ConsumingStatuses => to \in ConsumingStatuses,
             UNCHANGED <<payment, token, stock, deducted, callVars, gatewayVars, overwritten>>
      PROVE  RowsMatch(o)' /\ ContractKept(o)'
  <2>1. /\ status' = [status EXCEPT ![o] = to] /\ status[o] \notin {"none", "completed"}
        /\ status[o] \notin ConsumingStatuses => status[o] = "pending"
        /\ to # "none"
        /\ commission' = [commission EXCEPT ![o] =
                             IF to = "completed" /\ @ = "pending" THEN "approved"
                             ELSE IF to \in VoidingStatuses /\ @ # "none" THEN "voided"
                             ELSE @]
    BY <1>3 DEF Transition, SettleCommission, CanMove, OrderTransitions, OrderStatuses,
                ConsumingStatuses
  <2>2. \/ claim' = claim
        \/ /\ status[o] \notin ConsumingStatuses
           /\ claim' = [claim EXCEPT ![o] = Voided(@)]
    BY <1>3 DEF Transition
  <2>3. RowsMatch(o)'
    BY <1>3, <2>1, <2>2 DEF ConsumingStatuses, Voided
  <2>4. ContractKept(o)'
    BY <1>3, <2>1, <2>2 DEF Voided, ConsumingStatuses, VoidingStatuses, OrderStatuses
  <2> QED
    BY <2>3, <2>4
<1>4. CASE PlaceOrder(o)
  BY <1>4 DEF PlaceOrder, ConsumingStatuses
<1>5. CASE RetryCheckout(o)
  BY <1>5 DEF RetryCheckout, Placed
<1>6. CASE SnapReturns(o)
  <2>1. opening[o] > 0 /\ opening' = [opening EXCEPT ![o] = @ - 1] /\ UNCHANGED <<claim, commission, inquiry>>
    BY <1>6 DEF SnapReturns, SnapOpened, SnapTimeout, SnapError
  <2>2. status[o] # "none"
    BY <2>1
  <2>3. CASE SnapOpened(o)
    BY <2>1, <2>2, <2>3 DEF SnapOpened
  <2>4. CASE SnapTimeout(o) \/ SnapError(o)
    <3>1. /\ status'[o] \in {"pending", "cancelled"}
          /\ overwritten' = IF status[o] # "pending" \/ payment[o] = "settlement"
                            THEN overwritten \cup {o} ELSE overwritten
      BY <2>4 DEF SnapTimeout, SnapError, NoteOverwrite
    <3> QED
      BY <2>1, <2>2, <3>1 DEF ConsumingStatuses
  <2> QED
    BY <1>6, <2>3, <2>4 DEF SnapReturns
<1>7. CASE BranchAccept(o)
  <2>1. status[o] = "pending"
    BY <1>7 DEF BranchAccept, CanMove, OrderTransitions
  <2> QED
    BY <1>7, <2>1 DEF BranchAccept, RecordClaim, ConsumingStatuses
<1>8. CASE BranchAcceptRace(o)
  BY <1>8 DEF BranchAcceptRace, CanMove, OrderTransitions, ConsumingStatuses
<1>9. CASE BranchReject(o) \/ CustomerCancel(o) \/ TimeoutSweep(o)
  <2>1. PICK to \in {"rejected", "cancelled", "timeout"} :
           /\ Transition(o, to)
           /\ UNCHANGED <<payment, token, stock, deducted, callVars, gatewayVars, overwritten>>
    BY <1>9 DEF BranchReject, CustomerCancel, TimeoutSweep
  <2>2. status[o] = "pending"
    BY <1>9 DEF BranchReject, CustomerCancel, TimeoutSweep, Transition, CanMove, OrderTransitions,
                EnvironmentTransitions
  <2> QED
    BY <1>3, <2>1, <2>2 DEF OrderStatuses, ConsumingStatuses
<1>10. ASSUME NEW to \in ConsumingStatuses, KitchenStatus(o, to)
       PROVE  RowsMatch(o)' /\ ContractKept(o)'
  <2>1. status[o] \in ConsumingStatuses /\ Transition(o, to)
    BY <1>10, KitchenMoves DEF KitchenStatus, Transition
  <2> QED
    BY <1>3, <1>10, <2>1 DEF KitchenStatus, OrderStatuses, ConsumingStatuses
<1>11. CASE ReconcileStart(o) \/ GatewayAnswers(o) \/ InquiryFruitless(o)
  BY <1>11 DEF ReconcileStart, GatewayAnswers, InquiryFruitless
<1>12. CASE InquiryApplied(o)
  BY <1>2, <1>12 DEF InquiryApplied
<1>13. CASE Inquiry404(o)
  <2>1. /\ status[o] # "none"
        /\ status'[o] = (IF status[o] = "pending" THEN "cancelled" ELSE status[o])
        /\ inquiry'[o] = "none" /\ UNCHANGED <<claim, commission, opening>>
        /\ overwritten' = IF payment[o] = "settlement" THEN overwritten \cup {o} ELSE overwritten
    BY <1>13 DEF Inquiry404, NoteOverwrite
  <2> QED
    BY <2>1 DEF ConsumingStatuses
<1>14. ASSUME NEW st \in GatewayStatuses, Webhook(o, st)
       PROVE  RowsMatch(o)' /\ ContractKept(o)'
  BY <1>2, <1>14 DEF Webhook
<1>15. ASSUME NEW st \in GatewayStatuses, GatewayStep(o, st)
       PROVE  RowsMatch(o)' /\ ContractKept(o)'
  BY <1>15 DEF GatewayStep
<1> QED
  BY <1>4, <1>5, <1>6, <1>7, <1>8, <1>9, <1>10, <1>11, <1>12, <1>13, <1>14, <1>15
     DEF OrderStep, Operate, Reconcile

(* Such a step keeps it for every order, and so does a restart: what checkout  *)
(* and reconciliation were waiting for is lost, nothing else.                  *)
LEMMA ContractStepKeepsInv ==
    ASSUME ContractInv, Next
    PROVE  ContractInv'
<1>1. IInv'
  BY StepKeepsInv DEF ContractInv
<1>2. CASE Restart
  <2>1. \A o \in Orders : opening'[o] = 0 /\ inquiry'[o] = "none"
    BY <1>2 DEF Restart
  <2> QED
    BY <1>1, <1>2, <2>1
       DEF Restart, ContractInv, RowsMatch, ContractKept, orderVars, gatewayVars
<1>3. ASSUME NEW o \in Orders, OrderStep(o) PROVE ContractInv'
  <2>1. RowsMatch(o)' /\ ContractKept(o)'
    BY <1>3, OrderStepKeepsContract
  <2>2. ASSUME NEW p \in Orders, p # o PROVE RowsMatch(p)' /\ ContractKept(p)'
    <3>1. RowsMatch(p) /\ ContractKept(p) /\ IInv
      BY DEF ContractInv
    <3> QED
      BY <1>3, <2>2, <3>1, OtherOrders DEF RowsMatch, ContractKept
  <2> QED
    BY <1>1, <2>1, <2>2 DEF ContractInv
<1> QED
  BY <1>2, <1>3 DEF Next

(* It holds from the start and for ever.                                       *)
LEMMA ContractInvariance == Spec => []ContractInv
<1>1. Init => ContractInv
  BY InitInv DEF Init, ContractInv, RowsMatch, ContractKept, ConsumingStatuses
<1>2. ContractInv /\ UNCHANGED vars => ContractInv'
  BY StutterKeepsInv
     DEF vars, orderVars, callVars, gatewayVars, ContractInv, RowsMatch, ContractKept
<1>3. ContractInv /\ [Next]_vars => ContractInv'
  BY <1>2, ContractStepKeepsInv
<1> QED
  BY <1>1, <1>3, PTL DEF Spec

(* A reward is consumed exactly by the orders the branch accepted             *)
(* (recordOrderRedemptions and voidRedemptions of the promotion repository),   *)
(* unless an answer of the gateway that came too late overwrote the order.     *)
THEOREM ClaimsAreOfAcceptedOrders == Spec => []ClaimIffAccepted
<1>1. ContractInv => ClaimIffAccepted
  BY OrderSubsets DEF ContractInv, ContractKept, ClaimIffAccepted
<1> QED
  BY <1>1, ContractInvariance, PTL

(* A commission is payable for completed orders only (approveOrderCommission   *)
(* and voidOrderCommission as the hooks of OrderStateMachine.transition),      *)
(* unless a late answer overwrote the order.                                   *)
THEOREM CommissionsFollowOrders == Spec => []CommissionFollowsOrder
<1>1. ContractInv => CommissionFollowsOrder
  BY DEF ContractInv, ContractKept, CommissionFollowsOrder
<1> QED
  BY <1>1, ContractInvariance, PTL

-----------------------------------------------------------------------------
(* The handlers implement OrderPromise. *)

(* The phase of each status.                                                   *)
LEMMA Phases ==
    /\ PhaseOf("none") = "none" /\ PhaseOf("pending") = "awaiting"
    /\ PhaseOf("completed") = "fulfilled"
    /\ \A s \in ConsumingStatuses \ {"completed"} : PhaseOf(s) = "accepted"
    /\ \A s \in VoidingStatuses : PhaseOf(s) = "dropped"
    /\ PhaseOf("fulfillment_exception") = "refund"
    BY DEF PhaseOf, ConsumingStatuses, VoidingStatuses

\* The steps OrderPromise gives one order: its phase goes from p to q, and money
\* is recorded for it before (was) and after (is) the step.
PromisedStep(p, q, was, is) ==
    \/ p = q /\ (is <=> was)
    \/ /\ <<p, q>> \in {<<"none", "awaiting">>, <<"awaiting", "accepted">>,
                        <<"accepted", "fulfilled">>}
       /\ is <=> was
    \/ <<p, q>> = <<"awaiting", "dropped">> /\ ~was /\ ~is
    \/ p \in {"awaiting", "accepted", "fulfilled"} /\ q = p /\ ~was /\ is
    \/ p \in {"accepted", "fulfilled", "dropped"} /\ q = "refund" /\ ~was /\ is
    \/ <<p, q>> = <<"awaiting", "refund">> /\ was /\ is
    \/ p \notin {"none", "overwritten"} /\ (p = "awaiting" => was) /\ q = "overwritten" /\ ~is

\* An order as OrderPromise sees it, and whether it sees money for it.
PhaseSeen(o) == IF o \in overwritten THEN "overwritten" ELSE PhaseOf(status[o])

PaidSeen(o) == o \notin overwritten /\ payment[o] = "settlement"

(* A step at an order that no answer overwrites moves it only so: nobody        *)
(* accepts, drops or refunds it otherwise, whatever notification, inquiry or    *)
(* endpoint makes the step.                                                     *)
LEMMA OrderStepIsPromised ==
    ASSUME ContractInv, NEW o \in Orders, OrderStep(o), o \notin overwritten, o \notin overwritten'
    PROVE  PromisedStep(PhaseOf(status[o]), PhaseOf(status'[o]),
                        payment[o] = "settlement", payment'[o] = "settlement")
<1> DEFINE Promised == PromisedStep(PhaseOf(status[o]), PhaseOf(status'[o]),
                                    payment[o] = "settlement", payment'[o] = "settlement")
<1> SUFFICES Promised
  OBVIOUS
<1> USE DEF ContractInv, IInv, RowInv, RowTypes, CallTypes, RowsMatch, orderVars
<1>1. CASE status'[o] = status[o] /\ payment'[o] = payment[o]
  BY <1>1 DEF PromisedStep
<1>2. ASSUME NEW st \in GatewayStatuses, HandleWebhook(o, st) PROVE Promised
  <2>1. /\ payment'[o] = st /\ payment[o] # "settlement" /\ status[o] # "none"
    BY <1>2 DEF HandleWebhook, CanPay, PaymentTransitions
  <2>2. CASE st = "settlement" /\ Settle(o)
    <3>1. CASE SettleAwaiting(o)
      BY <2>1, <2>2, <3>1, Phases DEF SettleAwaiting, PromisedStep
    <3>2. CASE SettleAccepted(o)
      BY <2>1, <2>2, <3>2, Phases DEF SettleAccepted, PromisedStep
    <3>3. CASE SettleAcceptedRace(o)
      <4>1. status'[o] = "fulfillment_exception" /\ status[o] \in ConsumingStatuses
        BY <3>3 DEF SettleAcceptedRace
      <4> QED
        BY <2>1, <2>2, <4>1, Phases DEF PromisedStep
    <3>4. CASE SettleTerminal(o)
      <4>1. status'[o] = "fulfillment_exception" /\ status[o] \in VoidingStatuses
        BY <2>1, <3>4 DEF SettleTerminal, VoidingStatuses
      <4> QED
        BY <2>1, <2>2, <4>1, Phases DEF PromisedStep
    <3> QED
      BY <2>2, <3>1, <3>2, <3>3, <3>4 DEF Settle
  <2>3. CASE st \in ClosedPayments /\ ClosePayment(o)
    BY <2>1, <2>3, Phases DEF ClosePayment, ClosedPayments, VoidingStatuses, PromisedStep
  <2>4. CASE st = "challenge" /\ UNCHANGED <<status, stock, deducted, claim>>
    BY <2>1, <2>4 DEF PromisedStep
  <2> QED
    BY <1>2, <2>2, <2>3, <2>4 DEF HandleWebhook
<1>3. CASE PlaceOrder(o)
  BY <1>3, Phases DEF PlaceOrder, PromisedStep
<1>4. CASE RetryCheckout(o)
  BY <1>1, <1>4 DEF RetryCheckout
<1>5. CASE SnapReturns(o)
  <2>1. CASE SnapOpened(o)
    BY <1>1, <2>1 DEF SnapOpened
  <2>2. CASE SnapTimeout(o) \/ SnapError(o)
    <3>1. status[o] = "pending" /\ payment[o] # "settlement"
      BY <2>2 DEF SnapTimeout, SnapError, NoteOverwrite
    <3>2. status'[o] \in {"pending", "cancelled"} /\ payment'[o] # "settlement"
      BY <2>2 DEF SnapTimeout, SnapError
    <3> QED
      BY <3>1, <3>2, Phases DEF VoidingStatuses, PromisedStep
  <2> QED
    BY <1>5, <2>1, <2>2 DEF SnapReturns
<1>6. CASE BranchAccept(o)
  <2>1. status[o] = "pending" /\ status'[o] = "confirmed" /\ payment'[o] = payment[o]
    BY <1>6 DEF BranchAccept, CanMove, OrderTransitions
  <2> QED
    BY <2>1, Phases DEF ConsumingStatuses, PromisedStep
<1>7. CASE BranchAcceptRace(o)
  <2>1. /\ status[o] = "pending" /\ status'[o] = "fulfillment_exception"
        /\ payment[o] = "settlement" /\ payment'[o] = "settlement"
    BY <1>7 DEF BranchAcceptRace, CanMove, OrderTransitions
  <2> QED
    BY <2>1, Phases DEF PromisedStep
<1>8. CASE BranchReject(o) \/ CustomerCancel(o) \/ TimeoutSweep(o)
  <2>1. /\ status[o] = "pending" /\ status'[o] \in VoidingStatuses
        /\ payment[o] # "settlement" /\ payment'[o] = payment[o]
    BY <1>8 DEF BranchReject, CustomerCancel, TimeoutSweep, Transition, CanMove,
                OrderTransitions, VoidingStatuses
  <2> QED
    BY <2>1, Phases DEF PromisedStep
<1>9. ASSUME NEW to \in ConsumingStatuses, KitchenStatus(o, to) PROVE Promised
  <2>1. /\ status[o] \in ConsumingStatuses \ {"completed"} /\ status'[o] = to
        /\ payment'[o] = payment[o]
    BY <1>9 DEF KitchenStatus, Transition, CanMove, OrderTransitions, ConsumingStatuses
  <2> QED
    BY <2>1, Phases DEF ConsumingStatuses, PromisedStep
<1>10. CASE ReconcileStart(o) \/ GatewayAnswers(o) \/ InquiryFruitless(o)
  BY <1>1, <1>10 DEF ReconcileStart, GatewayAnswers, InquiryFruitless
<1>11. CASE InquiryApplied(o)
  BY <1>2, <1>11 DEF InquiryApplied
<1>12. CASE Inquiry404(o)
  <2>1. payment[o] # "settlement" /\ payment'[o] = "cancel"
    BY <1>12 DEF Inquiry404, NoteOverwrite
  <2>2. \/ status'[o] = status[o]
        \/ status[o] = "pending" /\ status'[o] = "cancelled"
    BY <1>12 DEF Inquiry404
  <2> QED
    BY <2>1, <2>2, Phases DEF VoidingStatuses, PromisedStep
<1>13. ASSUME NEW st \in GatewayStatuses, Webhook(o, st) PROVE Promised
  BY <1>2, <1>13 DEF Webhook
<1>14. ASSUME NEW st \in GatewayStatuses, GatewayStep(o, st) PROVE Promised
  BY <1>1, <1>14 DEF GatewayStep
<1> QED
  BY <1>3, <1>4, <1>5, <1>6, <1>7, <1>8, <1>9, <1>10, <1>11, <1>12, <1>13, <1>14
     DEF OrderStep, Operate, Reconcile

(* What is overwritten stays so, and only a decided order is.                   *)
LEMMA OnlyDecidedAreOverwritten ==
    ASSUME ContractInv, NEW o \in Orders, OrderStep(o)
    PROVE  /\ overwritten \subseteq overwritten'
           /\ o \in overwritten' \ overwritten =>
                 /\ status[o] # "none"
                 /\ status[o] = "pending" => payment[o] = "settlement"
<1>1. CASE SnapReturns(o)
  <2>1. opening[o] > 0
    BY <1>1 DEF SnapReturns, SnapOpened, SnapTimeout, SnapError
  <2>2. status[o] # "none"
    BY <2>1 DEF ContractInv, RowsMatch
  <2> QED
    BY <1>1, <2>2 DEF SnapReturns, SnapOpened, SnapTimeout, SnapError, NoteOverwrite
<1>2. CASE Inquiry404(o)
  <2>1. status[o] # "none"
    BY <1>2 DEF Inquiry404, ContractInv, RowsMatch
  <2> QED
    BY <1>2, <2>1 DEF Inquiry404, NoteOverwrite
<1>3. CASE UNCHANGED overwritten
  BY <1>3
<1> QED
  BY <1>1, <1>2, <1>3
     DEF OrderStep, Operate, Reconcile, PlaceOrder, RetryCheckout, BranchAccept, BranchAcceptRace,
         BranchReject, CustomerCancel, TimeoutSweep, KitchenStatus, ReconcileStart, GatewayAnswers,
         InquiryFruitless, InquiryApplied, Webhook, GatewayStep

(* So OrderPromise allows what it sees of every step at an order.               *)
LEMMA OrderStepIsSeen ==
    ASSUME ContractInv, NEW o \in Orders, OrderStep(o)
    PROVE  PromisedStep(PhaseSeen(o), PhaseSeen(o)', PaidSeen(o), PaidSeen(o)')
<1>1. CASE o \in overwritten
  BY <1>1, OnlyDecidedAreOverwritten DEF PhaseSeen, PaidSeen, PromisedStep
<1>2. CASE o \notin overwritten /\ o \in overwritten'
  <2>1. status[o] # "none" /\ (status[o] = "pending" => payment[o] = "settlement")
    BY <1>2, OnlyDecidedAreOverwritten
  <2>2. status[o] \in OrderStatuses
    BY <2>1 DEF ContractInv, IInv, RowInv, RowTypes
  <2>3. PhaseOf(status[o]) \notin {"none", "overwritten"}
    BY <2>2, Phases DEF OrderStatuses, ConsumingStatuses, VoidingStatuses
  <2>4. PhaseOf(status[o]) = "awaiting" => status[o] = "pending"
    BY <2>2, Phases DEF OrderStatuses, ConsumingStatuses, VoidingStatuses
  <2> QED
    BY <1>2, <2>1, <2>3, <2>4 DEF PhaseSeen, PaidSeen, PromisedStep
<1>3. CASE o \notin overwritten /\ o \notin overwritten'
  <2>1. PromisedStep(PhaseOf(status[o]), PhaseOf(status'[o]),
                     payment[o] = "settlement", payment'[o] = "settlement")
    BY <1>3, OrderStepIsPromised
  <2>2. /\ PhaseSeen(o) = PhaseOf(status[o]) /\ PhaseSeen(o)' = PhaseOf(status'[o])
        /\ PaidSeen(o) <=> payment[o] = "settlement"
        /\ PaidSeen(o)' <=> payment'[o] = "settlement"
    BY <1>3 DEF PhaseSeen, PaidSeen
  <2> QED
    BY <2>1, <2>2 DEF PromisedStep
<1> QED
  BY <1>1, <1>2, <1>3

(* However often checkout is requested and whatever happens while it and the    *)
(* reconciliation await the gateway, the handlers of checkout, branch, kitchen, *)
(* worker and webhook together keep the promise of OrderPromise: recorded money *)
(* stays, acceptance is final, and only unpaid orders are dropped, until a late *)
(* answer overwrites an order that was decided.                                 *)
THEOREM PromiseIsKept == Spec => KeepsPromise
<1> USE DEF KeepsPromise
<1> DEFINE phase == [o \in Orders |-> PhaseSeen(o)]
           paid == [o \in Orders |-> PaidSeen(o)]
<1>1. Init => Promise!Init
  BY Phases DEF Init, Promise!Init
<1>2. ASSUME ContractInv, Next PROVE [Promise!Next]_(Promise!vars)
  <2>1. CASE Restart
    BY <2>1 DEF Restart, orderVars, Promise!vars
  <2>2. ASSUME NEW o \in Orders, OrderStep(o) PROVE [Promise!Next]_(Promise!vars)
    <3>1. \A p \in Orders : p # o =>
             PhaseSeen(p)' = PhaseSeen(p) /\ (PaidSeen(p)' <=> PaidSeen(p))
      BY <1>2, <2>2, OtherOrders DEF ContractInv, PhaseSeen, PaidSeen
    <3>2. phase' = [phase EXCEPT ![o] = PhaseSeen(o)']
      BY <3>1
    <3>3. paid' = [paid EXCEPT ![o] = PaidSeen(o)']
      BY <3>1 DEF PaidSeen
    <3>4. PromisedStep(phase[o], PhaseSeen(o)', paid[o], PaidSeen(o)')
      BY <1>2, <2>2, OrderStepIsSeen
    <3>5. (PaidSeen(o)' <=> paid[o]) => paid' = paid
      BY <3>3 DEF PaidSeen
    <3>6. PhaseSeen(o)' = phase[o] => phase' = phase
      BY <3>2
    <3>7. /\ [p \in Orders |-> IF p \in overwritten THEN "overwritten" ELSE PhaseOf(status[p])] = phase
          /\ [p \in Orders |-> p \notin overwritten /\ payment[p] = "settlement"] = paid
      BY DEF PhaseSeen, PaidSeen
    <3>8. CASE phase' = phase /\ paid' = paid
      BY <3>7, <3>8 DEF Promise!vars, PhaseSeen, PaidSeen
    <3>9. CASE phase' # phase /\ paid' = paid
      <4>1. \/ Promise!Place(o) \/ Promise!Accept(o) \/ Promise!Fulfil(o)
            \/ Promise!Drop(o) \/ Promise!Refund(o) \/ Promise!Overwrite(o)
        BY <3>2, <3>3, <3>4, <3>6, <3>9
           DEF PromisedStep, Promise!Place, Promise!Accept, Promise!Fulfil, Promise!Drop,
               Promise!Refund, Promise!Overwrite, Promise!Go, PhaseSeen, PaidSeen
      <4> QED
        BY <4>1 DEF Promise!Next
    <3>10. CASE paid' # paid
      <4>1. Promise!Pay(o) \/ Promise!PayToRefund(o) \/ Promise!Overwrite(o)
        BY <3>2, <3>3, <3>4, <3>5, <3>6, <3>10
           DEF PromisedStep, Promise!Pay, Promise!PayToRefund, Promise!Book, Promise!Overwrite,
               PhaseSeen, PaidSeen
      <4> QED
        BY <4>1 DEF Promise!Next
    <3> QED
      BY <3>8, <3>9, <3>10
  <2> QED
    BY <1>2, <2>1, <2>2 DEF Next
<1>3. ASSUME UNCHANGED vars PROVE [Promise!Next]_(Promise!vars)
  BY <1>3 DEF vars, orderVars, Promise!vars
<1>4. ContractInv /\ [Next]_vars => [Promise!Next]_(Promise!vars)
  BY <1>2, <1>3
<1> QED
  BY <1>1, <1>4, ContractInvariance, PTL DEF Spec, Promise!Spec
=============================================================================
