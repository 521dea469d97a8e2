-------------------------- MODULE KitchenStock_proofs --------------------------
(***************************************************************************)
(* For any materials, orders, batches and sales: rows stay well-formed,     *)
(* receipts fit their order, a sale is taken once, and all there is of a     *)
(* material or a dish is explained by the ledgers of what moved it.  The    *)
(* last needs sums over the ledgers (the same facts as for the checks of a  *)
(* bill in PosBill_proofs).                                                 *)
(***************************************************************************)
EXTENDS KitchenStock, FiniteSetTheorems, WellFoundedInduction, TLAPS

\* A sale that was taken from the balance shows that there is one.
SalesHaveABalance == \A s \in Sales : sale[s] = "balance" => product.cost # "none"

IInv == TypeOK /\ ReceiptsFitTheOrder /\ SoldOnce /\ SalesHaveABalance

Sound(r) == r \in Row /\ Shaped(r)

-----------------------------------------------------------------------------
(* What the operators on rows return: a row again, and never no row. *)

(* Stock that arrives leaves a row, and a cost that was known.               *)
LEMMA InboundRow ==
    ASSUME NEW r, Sound(r), NEW q \in Nat
    PROVE  /\ Sound(Inbound(r, q))
           /\ r.cost # "none" => Inbound(r, q).cost # "none"
BY DEF Sound, Row, Shaped, Inbound

(* Stock that is used leaves a row; there was a cost if any was used.        *)
LEMMA OutboundRow ==
    ASSUME NEW r, Sound(r), NEW q \in Nat, MayIssue(r, q)
    PROVE  /\ Sound(Outbound(r, q))
           /\ r.cost # "none" => Outbound(r, q).cost # "none"
           /\ q > 0 => r.cost # "none"
BY DEF Sound, Row, Shaped, Outbound, MayIssue

(* A market purchase leaves a row, and a cost that was known.                *)
LEMMA BoughtRow ==
    ASSUME NEW r, Sound(r), NEW q \in Nat
    PROVE  /\ Sound(Bought(r, q))
           /\ r.cost # "none" => Bought(r, q).cost # "none"
BY DEF Sound, Row, Shaped, Bought

(* A count of a shape that the table accepts leaves a row.                   *)
LEMMA CountedRow ==
    ASSUME NEW r, Sound(r), NEW q \in Nat, NEW moved \in BOOLEAN, Shaped(Counted(r, q, moved))
    PROVE  Sound(Counted(r, q, moved))
BY DEF Sound, Row, Shaped, Counted

(* A correction of a shape that the table accepts leaves a row that exists.  *)
LEMMA MatchedRow ==
    ASSUME NEW r, Sound(r), NEW q \in Nat, NEW moved \in BOOLEAN, Shaped(Matched(r, q, moved))
    PROVE  Sound(Matched(r, q, moved)) /\ Matched(r, q, moved).cost # "none"
BY DEF Sound, Row, Shaped, Matched

-----------------------------------------------------------------------------
(* The groups of variables an action leaves alone carry their part of the     *)
(* invariant with them.                                                       *)

OrdersType ==
    /\ purchase \in [Purchases -> {"draft", "approved", "ordered", "partial", "received", "cancelled"}]
    /\ received \in [Purchases -> [Items -> Nat]]
    /\ receipts \subseteq Receipt

MaterialsType ==
    /\ material \in [Items -> Row]
    /\ \A i \in Items : Shaped(material[i])
    /\ counted \in [Items -> Int]
    /\ torn \subseteq Items

BatchType ==
    batch \in [Batches -> [status : {"none", "draft", "planned", "in_progress", "completed"},
                           key : Keys \cup {"none"}, used : [Items -> Nat]]]

TripType == trip \in [Trips -> [settled : BOOLEAN, brought : [Items -> Nat], portions : Nat]]

DishType ==
    /\ Sound(product)
    /\ shelf \in Nat
    /\ correction \in [Counts -> [step : {"none", "shelf", "posted"}, by : Int, current : Nat]]

SalesType ==
    /\ sale \in [Sales -> {"none", "shelf", "balance"}]
    /\ taken \in [Sales -> Nat]
    /\ SoldOnce
    /\ SalesHaveABalance

(* The invariant is what it says of each group of variables.                 *)
LEMMA Groups ==
    IInv <=> /\ OrdersType /\ ReceiptsFitTheOrder
             /\ MaterialsType /\ BatchType /\ TripType /\ DishType /\ SalesType
BY DEF IInv, TypeOK, OrdersType, MaterialsType, BatchType, TripType, DishType, SalesType, Sound

(* The same after a step.                                                    *)
LEMMA GroupsAfter ==
    /\ OrdersType' /\ ReceiptsFitTheOrder'
    /\ MaterialsType' /\ BatchType' /\ TripType' /\ DishType' /\ SalesType'
    => IInv'
BY DEF IInv, TypeOK, OrdersType, MaterialsType, BatchType, TripType, DishType, SalesType, Sound

(* A step that leaves the purchase orders alone keeps what is said of them.  *)
LEMMA OrdersUntouched ==
    OrdersType /\ ReceiptsFitTheOrder /\ UNCHANGED orders => OrdersType' /\ ReceiptsFitTheOrder'
BY DEF OrdersType, ReceiptsFitTheOrder, WithinTolerance, StatusFitsReceipts, orders

(* A step that leaves the materials alone keeps what is said of them.        *)
LEMMA MaterialsUntouched == MaterialsType /\ UNCHANGED materials => MaterialsType'
BY DEF MaterialsType, Shaped, materials

(* A step without a sale keeps what is said of sales, if no balance vanishes. *)
LEMMA SalesUntouched ==
    ASSUME SalesType, UNCHANGED <<sale, taken>>, product.cost # "none" => product'.cost # "none"
    PROVE  SalesType'
BY DEF SalesType, SoldOnce, SalesHaveABalance

(* A step that leaves the dish alone keeps what is said of it and its sales. *)
LEMMA DishUntouched == DishType /\ SalesType /\ UNCHANGED dish => DishType' /\ SalesType'
BY DEF DishType, SalesType, SoldOnce, SalesHaveABalance, Sound, Row, Shaped, dish

-----------------------------------------------------------------------------
(* The initial state, and one lemma per group of actions. *)

(* Nothing was ordered, received, produced or sold at first.                 *)
LEMMA InitHolds == Init => IInv
<1> SUFFICES ASSUME Init PROVE IInv
  OBVIOUS
<1> USE StockAssumption DEF Init
<1>1. OrdersType /\ ReceiptsFitTheOrder
  BY DEF OrdersType, ReceiptsFitTheOrder, WithinTolerance, StatusFitsReceipts
<1>2. MaterialsType
  BY DEF MaterialsType, NoRow, Row, Shaped
<1>3. BatchType /\ TripType
  BY DEF BatchType, TripType, NoBatch, NoTrip
<1>4. DishType
  BY DEF DishType, NoRow, Row, Shaped, Sound, NoCorrection
<1>5. SalesType
  BY DEF SalesType, SoldOnce, SalesHaveABalance
<1> QED
  BY <1>1, <1>2, <1>3, <1>4, <1>5, Groups

(* Approving and ordering move the status only.                              *)
LEMMA OrderingHolds ==
    ASSUME IInv, NEW p \in Purchases, ApprovePurchaseOrder(p) \/ OrderPurchaseOrder(p)
    PROVE  IInv'
<1>1. OrdersType' /\ ReceiptsFitTheOrder'
  <2>1. OrdersType /\ ReceiptsFitTheOrder
    BY Groups
  <2>2. UNCHANGED <<received, receipts>> /\ OrdersType'
    BY <2>1 DEF ApprovePurchaseOrder, OrderPurchaseOrder, OrdersType
  <2>3. StatusFitsReceipts'
    BY <2>1, <2>2 DEF ApprovePurchaseOrder, OrderPurchaseOrder, ReceiptsFitTheOrder,
          StatusFitsReceipts, OrdersType
  <2> QED
    BY <2>1, <2>2, <2>3 DEF ReceiptsFitTheOrder, WithinTolerance
<1>2. UNCHANGED <<materials, batch, trip, dish>>
  BY DEF ApprovePurchaseOrder, OrderPurchaseOrder
<1>3. MaterialsType' /\ BatchType' /\ TripType' /\ DishType' /\ SalesType'
  BY <1>2, Groups, MaterialsUntouched, DishUntouched DEF BatchType, TripType
<1> QED
  BY <1>1, <1>3, GroupsAfter

\* A receipt that fits what is open keeps the line within the tolerance on all
\* that was ordered: what was received before counts in full, the rest with 10%.
LEMMA ReceiptFits ==
    ASSUME NEW o \in Nat, NEW g \in Nat, NEW q \in Nat,
           NEW f \in {10, 11}, g * 10 <= o * f, q * 10 <= (o - g) * f
    PROVE  (g + q) * 10 <= o * f
<1>1. CASE f = 10
  BY <1>1
<1>2. CASE f = 11
  BY <1>2
<1> QED
  BY <1>1, <1>2

(* A receipt fits its order, as the guard on its lines demands.              *)
LEMMA ReceiptHolds ==
    ASSUME IInv, NEW p \in Purchases, NEW k \in Postings, NEW L \in SUBSET Items,
           NEW accepted \in [Items -> Nat], PostGoodsReceipt(p, k, L, accepted)
    PROVE  IInv'
<1> USE DEF PostGoodsReceipt
<1>1. /\ OrdersType /\ ReceiptsFitTheOrder /\ MaterialsType
      /\ BatchType /\ TripType /\ DishType /\ SalesType
  BY Groups
<1>2. received'[p] = [i \in Items |-> received[p][i] + accepted[i]]
  BY <1>1 DEF OrdersType
<1>3. received' \in [Purchases -> [Items -> Nat]]
  BY <1>1 DEF OrdersType
<1>4. OrdersType'
  <2>1. StatusOf(p, received'[p]) \in {"received", "cancelled", "partial"}
    BY DEF StatusOf
  <2>2. purchase' \in [Purchases -> {"draft", "approved", "ordered", "partial", "received", "cancelled"}]
    BY <2>1, <1>1 DEF OrdersType
  <2>3. receipts' \subseteq Receipt
    BY <1>1 DEF OrdersType, Receipt
  <2> QED
    BY <1>3, <2>2, <2>3 DEF OrdersType
<1>5. ReceiptsFitTheOrder'
  <2>1. \A r, q \in receipts' : r.posting = q.posting => r = q
    BY <1>1 DEF ReceiptsFitTheOrder
  <2>2. ASSUME NEW x \in Purchases, NEW i \in Items
        PROVE  received'[x][i] * 10 <= Ordered[x][i] * (IF i \in Weighable THEN 11 ELSE 10)
    <3>1. received[x][i] * 10 <= Ordered[x][i] * (IF i \in Weighable THEN 11 ELSE 10)
      BY <1>1 DEF ReceiptsFitTheOrder, WithinTolerance
    <3>2. CASE x # p \/ i \notin L
      <4>1. received'[x][i] = received[x][i]
        BY <3>2, <1>1, <1>2 DEF OrdersType
      <4> QED
        BY <3>1, <4>1
    <3>3. CASE x = p /\ i \in L
      <4>1. accepted[i] * 10 <= (Ordered[p][i] - received[p][i]) * (IF i \in Weighable THEN 11 ELSE 10)
        <5>1. CASE accepted[i] = 0
          <6>1. 1 * 10 <= (Ordered[p][i] - received[p][i]) * (IF i \in Weighable THEN 11 ELSE 10)
            BY <3>3, <5>1 DEF Fits
          <6> QED
            BY <5>1, <6>1, <1>1, StockAssumption DEF OrdersType
        <5>2. CASE accepted[i] # 0
          BY <3>3, <5>2 DEF Fits
        <5> QED
          BY <5>1, <5>2
      <4>2. received'[p][i] = received[p][i] + accepted[i]
        BY <1>2
      <4>3. Ordered[p][i] \in Nat /\ received[p][i] \in Nat /\ accepted[i] \in Nat
        BY <1>1, StockAssumption DEF OrdersType
      <4> DEFINE f == IF i \in Weighable THEN 11 ELSE 10
      <4>4. f \in {10, 11}
        OBVIOUS
      <4>5. (received[p][i] + accepted[i]) * 10 <= Ordered[p][i] * f
        <5> HIDE DEF f
        <5> QED
          BY <4>3, <4>4, <3>1, <4>1, <3>3, ReceiptFits DEF f
      <4> QED
        BY <3>3, <4>2, <4>5
    <3> QED
      BY <3>2, <3>3
  <2>3. StatusFitsReceipts'
    <3>1. \A x \in Purchases \ {p} : purchase'[x] = purchase[x] /\ received'[x] = received[x]
      BY <1>1 DEF OrdersType
    <3>2. purchase'[p] = StatusOf(p, received'[p])
      BY <1>1 DEF OrdersType
    <3>3. \A x \in Purchases \ {p} :
             LET full == \A i \in Items : received'[x][i] >= Ordered[x][i]
                 none == \A i \in Items : received'[x][i] = 0
             IN  CASE purchase'[x] = "received" -> full
                   [] purchase'[x] = "partial" -> ~full /\ ~none
                   [] OTHER -> none
      BY <3>1, <1>1 DEF ReceiptsFitTheOrder, StatusFitsReceipts
    <3>4. LET full == \A i \in Items : received'[p][i] >= Ordered[p][i]
              none == \A i \in Items : received'[p][i] = 0
          IN  CASE purchase'[p] = "received" -> full
                [] purchase'[p] = "partial" -> ~full /\ ~none
                [] OTHER -> none
      BY <3>2 DEF StatusOf
    <3> QED
      BY <3>3, <3>4 DEF StatusFitsReceipts
  <2> QED
    BY <2>1, <2>2, <2>3 DEF ReceiptsFitTheOrder, WithinTolerance
<1>6. MaterialsType'
  <2>1. \A i \in Items : Sound(Inbound(material[i], accepted[i]))
    BY <1>1, InboundRow DEF MaterialsType, Sound
  <2> QED
    BY <1>1, <2>1 DEF MaterialsType, Sound
<1>7. BatchType' /\ TripType' /\ DishType' /\ SalesType'
  BY <1>1, DishUntouched DEF BatchType, TripType
<1> QED
  BY <1>4, <1>5, <1>6, <1>7, GroupsAfter

(* A count, whole or torn, writes a balance the table accepts.               *)
LEMMA CountHolds ==
    ASSUME IInv, NEW i \in Items, NEW q \in Nat,
           CountMaterial(i, q) \/ CountMaterialCrash(i, q)
    PROVE  IInv'
<1>1. /\ OrdersType /\ ReceiptsFitTheOrder /\ MaterialsType
      /\ BatchType /\ TripType /\ DishType /\ SalesType
  BY Groups
<1>2. UNCHANGED <<orders, batch, trip, dish>>
  BY DEF CountMaterial, CountMaterialCrash
<1>3. MaterialsType'
  <2>1. Sound(material[i])
    BY <1>1 DEF MaterialsType, Sound
  <2>2. CASE CountMaterial(i, q)
    <3>1. counted' \in [Items -> Int]
      <4>1. counted[i] + q - material[i].qty \in Int
        BY <1>1, <2>1 DEF MaterialsType, Sound, Row
      <4> QED
        BY <1>1, <2>2, <4>1 DEF MaterialsType, CountMaterial
    <3>2. Sound(Counted(material[i], q, TRUE))
      BY <2>1, <2>2, CountedRow DEF CountMaterial
    <3> QED
      BY <1>1, <2>2, <3>1, <3>2 DEF MaterialsType, CountMaterial, Sound
  <2>3. CASE CountMaterialCrash(i, q)
    BY <1>1, <2>1, <2>3, CountedRow DEF MaterialsType, CountMaterialCrash, Sound
  <2> QED
    BY <2>2, <2>3
<1> QED
  BY <1>1, <1>2, <1>3, OrdersUntouched, DishUntouched, GroupsAfter DEF BatchType, TripType

(* A settled market trip adds to materials and dish.                         *)
LEMMA TripHolds ==
    ASSUME IInv, NEW t \in Trips, NEW brought \in [Items -> Nat], NEW n \in Nat,
           SettleTrip(t, brought, n)
    PROVE  IInv'
<1> USE DEF SettleTrip
<1>1. /\ OrdersType /\ ReceiptsFitTheOrder /\ MaterialsType
      /\ BatchType /\ TripType /\ DishType /\ SalesType
  BY Groups
<1>2. TripType'
  BY <1>1 DEF TripType
<1>3. MaterialsType'
  <2>1. \A i \in Items : Sound(Bought(material[i], brought[i]))
    BY <1>1, BoughtRow DEF MaterialsType, Sound
  <2> QED
    BY <1>1, <2>1 DEF MaterialsType, Sound
<1>4. Sound(product') /\ (product.cost # "none" => product'.cost # "none")
  BY <1>1, BoughtRow DEF DishType
<1>5. DishType' /\ SalesType'
  BY <1>1, <1>4, SalesUntouched DEF DishType
<1> QED
  BY <1>1, <1>2, <1>3, <1>5, OrdersUntouched, GroupsAfter DEF BatchType

(* A batch that stops half-way has used nothing.                             *)
LEMMA StopHolds ==
    ASSUME IInv, NEW b \in Batches, NEW s \in {"draft", "planned", "in_progress"},
           ProductionStops(b, s)
    PROVE  IInv'
<1>1. /\ OrdersType /\ ReceiptsFitTheOrder /\ MaterialsType
      /\ BatchType /\ TripType /\ DishType /\ SalesType
  BY Groups
<1>2. BatchType' /\ UNCHANGED <<orders, materials, trip, dish>>
  BY <1>1 DEF BatchType, ProductionStops
<1> QED
  BY <1>1, <1>2, OrdersUntouched, MaterialsUntouched, DishUntouched, GroupsAfter DEF TripType

\* A completed batch, whichever way it was asked for: Produce and Prepare add to
\* this only whether the shelf is raised.
LEMMA BatchHolds ==
    ASSUME IInv, NEW b \in Batches, NEW k \in Keys, NEW used \in [Items -> Nat],
           CompleteBatch(b, k, used),
           UNCHANGED <<orders, counted, torn, trip, sale, taken, correction>>, shelf' \in Nat
    PROVE  IInv'
<1> USE DEF CompleteBatch
<1>1. /\ OrdersType /\ ReceiptsFitTheOrder /\ MaterialsType
      /\ BatchType /\ TripType /\ DishType /\ SalesType
  BY Groups
<1>2. BatchType'
  BY <1>1 DEF BatchType
<1>3. MaterialsType'
  <2>1. \A i \in Items : Sound(Outbound(material[i], used[i]))
    BY <1>1, OutboundRow DEF MaterialsType, Sound, Issue
  <2> QED
    BY <1>1, <2>1 DEF MaterialsType, Sound, Issue
<1>4. Sound(product') /\ (product.cost # "none" => product'.cost # "none")
  BY <1>1, InboundRow DEF DishType
<1>5. DishType' /\ SalesType'
  BY <1>1, <1>4, SalesUntouched DEF DishType
<1> QED
  BY <1>1, <1>2, <1>3, <1>5, OrdersUntouched, GroupsAfter DEF TripType

(* A sale is taken from the balance if there is one, else from the shelf.    *)
LEMMA SaleHolds ==
    ASSUME IInv, NEW s \in Sales, Sell(s)
    PROVE  IInv'
<1>1. /\ OrdersType /\ ReceiptsFitTheOrder /\ MaterialsType
      /\ BatchType /\ TripType /\ DishType /\ SalesType
  BY Groups
<1>2. UNCHANGED <<orders, materials, batch, trip, correction>>
  BY DEF Sell, SellFromShelf, SellFromBalance
<1>3. CASE SellFromShelf(s)
  <2> USE <1>3 DEF SellFromShelf
  <2>1. DishType'
    BY <1>1 DEF DishType, Sound, Row, Shaped
  <2>2. sale[s] = "none"
    BY <1>1 DEF SalesType, SalesHaveABalance, Sell
  <2>3. SalesType'
    BY <1>1, <2>2 DEF SalesType, SoldOnce, SalesHaveABalance
  <2> QED
    BY <1>1, <1>2, <2>1, <2>3, OrdersUntouched, MaterialsUntouched, GroupsAfter DEF BatchType, TripType
<1>4. CASE SellFromBalance(s)
  <2> USE <1>4 DEF SellFromBalance
  <2>1. Sound(product') /\ product'.cost # "none"
    BY <1>1, OutboundRow DEF DishType
  <2>2. DishType'
    BY <1>1, <2>1 DEF DishType, Sound, Row
  <2>3. sale[s] = "none"
    BY <1>1 DEF SalesType, Sell
  <2>4. SalesType'
    BY <1>1, <2>1, <2>3 DEF SalesType, SoldOnce, SalesHaveABalance
  <2> QED
    BY <1>1, <1>2, <2>2, <2>4, OrdersUntouched, MaterialsUntouched, GroupsAfter DEF BatchType, TripType
<1> QED
  BY <1>3, <1>4 DEF Sell

(* A correction, whole or torn, leaves a balance that is there.              *)
LEMMA CorrectionHolds ==
    ASSUME IInv, NEW c \in Counts, NEW d \in Int,
           CorrectShelfOnly(c, d) \/ CorrectBalanceOnly(c, d) \/ Correct(c, d)
    PROVE  IInv'
<1>1. /\ OrdersType /\ ReceiptsFitTheOrder /\ MaterialsType
      /\ BatchType /\ TripType /\ DishType /\ SalesType
  BY Groups
<1>2. UNCHANGED <<orders, materials, batch, trip, sale, taken>>
  BY DEF CorrectShelfOnly, CorrectBalanceOnly, Correct
<1>3. ASSUME NEW x \in {"shelf", "posted"}, RecordMovement(c, d, x)
      PROVE  /\ shelf' \in Nat
             /\ correction' \in [Counts -> [step : {"none", "shelf", "posted"}, by : Int, current : Nat]]
             /\ correction'[c].current \in Nat
  BY <1>1, <1>3 DEF RecordMovement, DishType
<1>4. DishType' /\ (product.cost # "none" => product'.cost # "none")
  <2>1. CASE CorrectShelfOnly(c, d)
    BY <1>1, <1>3, <2>1 DEF DishType, CorrectShelfOnly, Sound, Row, Shaped
  <2>2. CASE CorrectBalanceOnly(c, d)
    BY <1>1, <1>3, <2>2, MatchedRow DEF DishType, CorrectBalanceOnly
  <2>3. CASE Correct(c, d)
    BY <1>1, <1>3, <2>3, MatchedRow DEF DishType, Correct
  <2> QED
    BY <2>1, <2>2, <2>3
<1>5. SalesType'
  BY <1>1, <1>2, <1>4, SalesUntouched
<1> QED
  BY <1>1, <1>2, <1>4, <1>5, OrdersUntouched, MaterialsUntouched, GroupsAfter DEF BatchType, TripType

-----------------------------------------------------------------------------
(* The invariant holds in every reachable state.                             *)
LEMMA Inductive == Spec => []IInv
<1>1. Init => IInv
  BY InitHolds
<1>2. IInv /\ [Next]_vars => IInv'
  <2> SUFFICES ASSUME IInv, [Next]_vars PROVE IInv'
    OBVIOUS
  <2>1. CASE PurchaseStep
    <3>1. PICK p \in Purchases :
             \/ ApprovePurchaseOrder(p)
             \/ OrderPurchaseOrder(p)
             \/ \E k \in Postings, L \in SUBSET Items, accepted \in Deliveries :
                   /\ \A i \in Items : accepted[i] \in Parcels[i] \cup {0}
                   /\ PostGoodsReceipt(p, k, L, accepted)
      BY <2>1 DEF PurchaseStep
    <3>2. ASSUME NEW k \in Postings, NEW L \in SUBSET Items, NEW accepted \in Deliveries,
                 \A i \in Items : accepted[i] \in Parcels[i] \cup {0},
                 PostGoodsReceipt(p, k, L, accepted)
          PROVE  IInv'
      <4>1. \A i \in Items : Parcels[i] \subseteq Nat
        BY StockAssumption
      <4>2. accepted \in [Items -> Nat]
        BY <3>2, <4>1 DEF Deliveries
      <4> QED
        BY <3>2, <4>2, ReceiptHolds
    <3> QED
      BY <3>1, <3>2, OrderingHolds
  <2>2. CASE CountStep
    BY <2>2, CountHolds, StockAssumption DEF CountStep
  <2>3. CASE TripStep
    <3>1. \A S \in SUBSET Items : [i \in Items |-> IF i \in S THEN Needs[i] ELSE 0] \in [Items -> Nat]
      BY StockAssumption
    <3> QED
      BY <2>3, <3>1, TripHolds DEF TripStep
  <2>4. CASE ProductionStep
    <3>1. PICK b \in Batches :
             \/ \E s \in {"draft", "planned", "in_progress"} : ProductionStops(b, s)
             \/ \E k \in Keys, S \in SUBSET Items : Produce(b, k, S)
             \/ \E k \in Keys, shelved \in BOOLEAN : Prepare(b, k, shelved)
      BY <2>4 DEF ProductionStep
    <3>2. shelf \in Nat
      BY Groups DEF DishType
    <3>3. ASSUME NEW k \in Keys, NEW S \in SUBSET Items, Produce(b, k, S) PROVE IInv'
      <4>1. [i \in Items |-> IF i \in S THEN Needs[i] ELSE 0] \in [Items -> Nat]
        BY StockAssumption
      <4> QED
        BY <3>2, <3>3, <4>1, BatchHolds DEF Produce
    <3>4. ASSUME NEW k \in Keys, NEW shelved \in BOOLEAN, Prepare(b, k, shelved) PROVE IInv'
      <4>1. Needs \in [Items -> Nat]
        BY StockAssumption
      <4> QED
        BY <3>2, <3>4, <4>1, BatchHolds DEF Prepare
    <3> QED
      BY <3>1, <3>3, <3>4, StopHolds
  <2>5. CASE \E s \in Sales : Sell(s)
    BY <2>5, SaleHolds
  <2>6. CASE CorrectionStep
    BY <2>6, CorrectionHolds DEF CorrectionStep
  <2>7. CASE UNCHANGED vars
    <3>1. UNCHANGED <<orders, materials, batch, trip, dish>>
      BY <2>7 DEF vars
    <3> QED
      BY <3>1, Groups, GroupsAfter, OrdersUntouched, MaterialsUntouched, DishUntouched DEF BatchType, TripType
  <2> QED
    BY <2>1, <2>2, <2>3, <2>4, <2>5, <2>6, <2>7 DEF Next
<1> QED
  BY <1>1, <1>2, PTL DEF Spec

(* Rows of both ledgers keep the shape the schema demands, whatever is        *)
(* received, counted, bought, produced, sold or corrected.                    *)
THEOREM RowsAreWellFormed == Spec => []TypeOK
<1>1. IInv => TypeOK
  BY DEF IInv
<1> QED
  BY <1>1, Inductive, PTL

(* For any orders and postings: a posting is received once, no line gets more *)
(* than its tolerance, and the order's status says what was received.         *)
THEOREM ReceiptsFit == Spec => []ReceiptsFitTheOrder
<1>1. IInv => ReceiptsFitTheOrder
  BY DEF IInv
<1> QED
  BY <1>1, Inductive, PTL

(* A sale is taken once, from one ledger, however often it is asked for.      *)
THEOREM SalesAreTakenOnce == Spec => []SoldOnce
<1>1. IInv => SoldOnce
  BY DEF IInv
<1> QED
  BY <1>1, Inductive, PTL

-----------------------------------------------------------------------------
(* Sums over finite sets (SumFunctionOnSet of the community module Functions): *)
(* the facts that the sums over the ledgers are reasoned about with.           *)

\* The element that a sum starts with.
Pick(s) == CHOOSE x \in s : TRUE

\* g holds the sum of f over every subset of S.
SumTable(f, S, g) ==
    g = [s \in SUBSET S |-> IF s = {} THEN 0 ELSE f[Pick(s)] + g[s \ {Pick(s)}]]

(* The sum of f over S is what the table of the sums of f over all subsets of  *)
(* S holds for S.                                                              *)
LEMMA SumIsTable ==
    ASSUME NEW f, NEW S
    PROVE  SumFunctionOnSet(f, S) = (CHOOSE g : SumTable(f, S, g))[S]
  BY DEF SumFunctionOnSet, FoldFunctionOnSet, MapThenFoldSet, SumTable, Pick

(* Among subsets of a finite set there is one that contains no other: what      *)
(* stands for an induction here is the smallest set of which a claim is false.  *)
LEMMA SmallestSet ==
    ASSUME NEW S, IsFiniteSet(S), NEW C \in SUBSET (SUBSET S), C # {}
    PROVE  \E T \in C : \A U \in SUBSET T : U # T => U \notin C
<1>1. C \subseteq FiniteSubsetsOf(S)
  BY FS_Subset DEF FiniteSubsetsOf
<1>2. PICK T \in C : \A U \in C : ~(<<U, T>> \in StrictSubsetOrdering(S))
  BY <1>1, FS_StrictSubsetOrderingWellFounded, WFMin
<1>3. ASSUME NEW U \in SUBSET T, U # T, U \in C PROVE FALSE
  <2>1. <<U, T>> \in StrictSubsetOrdering(S)
    BY <1>3 DEF StrictSubsetOrdering
  <2> QED
    BY <1>2, <1>3, <2>1
<1> QED
  BY <1>2, <1>3

(* Pick takes an element of the set.                                           *)
LEMMA PickIn == ASSUME NEW s, s # {} PROVE Pick(s) \in s
  BY DEF Pick

(* Tables for different sets agree on the sets that both know.                 *)
LEMMA TablesAgree ==
    ASSUME NEW f, NEW e, NEW S, NEW T, NEW g, NEW h,
           SumTable(f, S, g), SumTable(e, T, h),
           NEW U, IsFiniteSet(U), U \subseteq S, U \subseteq T,
           \A x \in U : f[x] = e[x]
    PROVE  g[U] = h[U]
<1> DEFINE Bad == {V \in SUBSET U : g[V] # h[V]}
<1> SUFFICES ASSUME Bad # {} PROVE FALSE
  OBVIOUS
<1>1. PICK V \in Bad : \A W \in SUBSET V : W # V => W \notin Bad
  <2> HIDE DEF Bad
  <2>1. Bad \in SUBSET (SUBSET U)
    BY DEF Bad
  <2> QED
    BY <2>1, SmallestSet
<1>2. V # {}
  BY <1>1 DEF SumTable
<1>3. Pick(V) \in V
  BY <1>2, PickIn
<1>4. g[V \ {Pick(V)}] = h[V \ {Pick(V)}]
  BY <1>1, <1>3
<1>5. g[V] = f[Pick(V)] + g[V \ {Pick(V)}] /\ h[V] = e[Pick(V)] + h[V \ {Pick(V)}]
  BY <1>1, <1>2 DEF SumTable
<1> QED
  BY <1>1, <1>3, <1>4, <1>5

(* There is a table for every finite set.                                      *)
LEMMA TableExists ==
    ASSUME NEW f, NEW S, IsFiniteSet(S)
    PROVE  \E g : SumTable(f, S, g)
<1> DEFINE Bad == {T \in SUBSET S : ~\E g : SumTable(f, T, g)}
<1> SUFFICES ASSUME Bad # {} PROVE FALSE
  OBVIOUS
<1>1. PICK T \in Bad : \A U \in SUBSET T : U # T => U \notin Bad
  <2> HIDE DEF Bad
  <2>1. Bad \in SUBSET (SUBSET S)
    BY DEF Bad
  <2> QED
    BY <2>1, SmallestSet
<1>2. \A U \in SUBSET T : U # T => SumTable(f, U, CHOOSE g : SumTable(f, U, g))
  BY <1>1
<1> DEFINE Table(U) == CHOOSE g : SumTable(f, U, g)
           h == [s \in SUBSET T |-> IF s = {} THEN 0
                   ELSE f[Pick(s)] + Table(s \ {Pick(s)})[s \ {Pick(s)}]]
<1>3. ASSUME NEW U \in SUBSET T, U # T PROVE h[U] = Table(U)[U]
  <2>1. SumTable(f, U, Table(U))
    BY <1>2, <1>3
  <2>2. CASE U = {}
    BY <2>1, <2>2 DEF SumTable
  <2>3. CASE U # {}
    <3> DEFINE W == U \ {Pick(U)}
    <3>1. W \in SUBSET U /\ W \in SUBSET T /\ W # T
      BY <1>3
    <3>2. Table(U)[U] = f[Pick(U)] + Table(U)[W]
      BY <2>1, <2>3 DEF SumTable
    <3>3. SumTable(f, W, Table(W))
      BY <1>2, <3>1
    <3>4. IsFiniteSet(W)
      BY <1>1, <3>1, FS_Subset
    <3>5. Table(U)[W] = Table(W)[W]
      <4> HIDE DEF Table, W
      <4> QED
        BY <2>1, <3>1, <3>3, <3>4, TablesAgree
    <3>6. h[U] = f[Pick(U)] + Table(W)[W]
      BY <2>3
    <3> QED
      BY <3>2, <3>5, <3>6
  <2> QED
    BY <2>2, <2>3
<1>4. \A s \in SUBSET T : s # {} => 
         h[s] = f[Pick(s)] + h[s \ {Pick(s)}]
  <2> SUFFICES ASSUME NEW s \in SUBSET T, s # {} PROVE h[s] = f[Pick(s)] + h[s \ {Pick(s)}]
    OBVIOUS
  <2>1. s \ {Pick(s)} \in SUBSET T /\ s \ {Pick(s)} # T
    BY PickIn
  <2>2. h[s] = f[Pick(s)] + Table(s \ {Pick(s)})[s \ {Pick(s)}]
    OBVIOUS
  <2> HIDE DEF h, Table
  <2> QED
    BY <1>3, <2>1, <2>2
<1>5. h[{}] = 0 /\ h = [s \in SUBSET T |-> h[s]]
  OBVIOUS
<1>6. SumTable(f, T, h)
  <2> HIDE DEF h
  <2> QED 
    BY <1>4, <1>5 DEF SumTable
<1> QED
  BY <1>1, <1>6

(* The empty sum.                                                              *)
LEMMA SumEmpty == ASSUME NEW f PROVE SumFunctionOnSet(f, {}) = 0
<1>1. SumTable(f, {}, CHOOSE g : SumTable(f, {}, g))
  BY TableExists, FS_EmptySet
<1> QED
  BY <1>1, SumIsTable DEF SumTable

(* A sum depends on the summands only.                                         *)
LEMMA SumAgrees ==
    ASSUME NEW f, NEW e, NEW S, IsFiniteSet(S), \A x \in S : f[x] = e[x]
    PROVE  SumFunctionOnSet(f, S) = SumFunctionOnSet(e, S)
<1> DEFINE g == CHOOSE g : SumTable(f, S, g)
           h == CHOOSE h : SumTable(e, S, h)
<1>1. SumTable(f, S, g) /\ SumTable(e, S, h)
  BY TableExists
<1>2. g[S] = h[S]
  <2> HIDE DEF g, h
  <2> QED
    BY <1>1, TablesAgree
<1> QED
  BY <1>2, SumIsTable

(* What the recursion of the table says of the sum.                            *)
LEMMA SumPick ==
    ASSUME NEW f, NEW S, IsFiniteSet(S), S # {}
    PROVE  SumFunctionOnSet(f, S) = f[Pick(S)] + SumFunctionOnSet(f, S \ {Pick(S)})
<1> DEFINE R == S \ {Pick(S)}
           g == CHOOSE g : SumTable(f, S, g)
           h == CHOOSE h : SumTable(f, R, h)
<1>1. IsFiniteSet(R)
  BY FS_Subset
<1>2. SumTable(f, S, g) /\ SumTable(f, R, h)
  BY <1>1, TableExists
<1>3. g[S] = f[Pick(S)] + g[R]
  BY <1>2 DEF SumTable
<1>4. g[R] = h[R]
  <2>1. R \subseteq S /\ R \subseteq R
    OBVIOUS
  <2> HIDE DEF g, h, R
  <2> QED
    BY <1>1, <1>2, <2>1, TablesAgree
<1>5. SumFunctionOnSet(f, S) = g[S] /\ SumFunctionOnSet(f, R) = h[R]
  BY SumIsTable
<1> QED
  BY <1>3, <1>4, <1>5

(* Sums of integers are integers, and of naturals naturals.                    *)
LEMMA SumInt ==
    ASSUME NEW f, NEW S, IsFiniteSet(S), \A x \in S : f[x] \in Int
    PROVE  /\ SumFunctionOnSet(f, S) \in Int
           /\ (\A x \in S : f[x] \in Nat) => SumFunctionOnSet(f, S) \in Nat
<1> DEFINE OK(T) == /\ SumFunctionOnSet(f, T) \in Int
                    /\ (\A x \in S : f[x] \in Nat) => SumFunctionOnSet(f, T) \in Nat
           Bad == {T \in SUBSET S : ~OK(T)}
<1> SUFFICES ASSUME Bad # {} PROVE FALSE
  OBVIOUS
<1>1. PICK T \in Bad : \A U \in SUBSET T : U # T => U \notin Bad
  <2> HIDE DEF Bad
  <2>1. Bad \in SUBSET (SUBSET S)
    BY DEF Bad
  <2> QED
    BY <2>1, SmallestSet
<1>2. T # {}
  <2>1. SumFunctionOnSet(f, {}) = 0
    BY SumEmpty
  <2>2. OK({})
    BY <2>1
  <2> QED
    BY <1>1, <2>2
<1>3. Pick(T) \in T /\ OK(T \ {Pick(T)})
  BY <1>1, <1>2, PickIn
<1>4. SumFunctionOnSet(f, T) = f[Pick(T)] + SumFunctionOnSet(f, T \ {Pick(T)})
  BY <1>1, <1>2, FS_Subset, SumPick
<1> QED
  BY <1>1, <1>3, <1>4

(* Any element may be summed first.                                            *)
LEMMA SumRemove ==
    ASSUME NEW f, NEW S, IsFiniteSet(S), \A y \in S : f[y] \in Int, NEW x \in S
    PROVE  SumFunctionOnSet(f, S) = f[x] + SumFunctionOnSet(f, S \ {x})
<1> DEFINE Bad == {T \in SUBSET S : \E y \in T :
                      SumFunctionOnSet(f, T) # f[y] + SumFunctionOnSet(f, T \ {y})}
<1> SUFFICES ASSUME Bad # {} PROVE FALSE
  OBVIOUS
<1>1. PICK T \in Bad : \A U \in SUBSET T : U # T => U \notin Bad
  <2> HIDE DEF Bad
  <2>1. Bad \in SUBSET (SUBSET S)
    BY DEF Bad
  <2> QED
    BY <2>1, SmallestSet
<1>2. PICK y \in T : SumFunctionOnSet(f, T) # f[y] + SumFunctionOnSet(f, T \ {y})
  BY <1>1
<1> DEFINE p == Pick(T)
<1>3. p \in T /\ IsFiniteSet(T) /\ T # {}
  BY <1>1, <1>2, PickIn, FS_Subset
<1>4. SumFunctionOnSet(f, T) = f[p] + SumFunctionOnSet(f, T \ {p})
  BY <1>3, SumPick
<1>5. y # p
  BY <1>2, <1>4
<1>6. SumFunctionOnSet(f, T \ {p}) = f[y] + SumFunctionOnSet(f, (T \ {p}) \ {y})
  <2>1. T \ {p} \in SUBSET T /\ T \ {p} # T /\ T \ {p} \in SUBSET S /\ y \in T \ {p}
    BY <1>3, <1>5
  <2> QED
    BY <1>1, <2>1
<1>7. SumFunctionOnSet(f, T \ {y}) = f[p] + SumFunctionOnSet(f, (T \ {y}) \ {p})
  <2>1. T \ {y} \in SUBSET T /\ T \ {y} # T /\ T \ {y} \in SUBSET S /\ p \in T \ {y}
    BY <1>3, <1>5
  <2> QED
    BY <1>1, <2>1
<1> DEFINE rest == SumFunctionOnSet(f, (T \ {p}) \ {y})
<1>8. SumFunctionOnSet(f, T \ {y}) = f[p] + rest /\ SumFunctionOnSet(f, T \ {p}) = f[y] + rest
  <2>1. (T \ {y}) \ {p} = (T \ {p}) \ {y}
    OBVIOUS
  <2> QED
    BY <1>6, <1>7, <2>1
<1>9. /\ rest \in Int /\ f[p] \in Int /\ f[y] \in Int
  <2>1. (T \ {p}) \ {y} \in SUBSET S
    OBVIOUS
  <2>2. IsFiniteSet((T \ {p}) \ {y})
    BY <2>1, FS_Subset
  <2> QED
    BY <1>3, <2>1, <2>2, SumInt
<1> HIDE DEF rest
<1> QED
  BY <1>2, <1>4, <1>8, <1>9

(* A sum of which one summand changes.                                         *)
LEMMA SumReplace ==
    ASSUME NEW f, NEW e, NEW S, IsFiniteSet(S), NEW x \in S,
           \A y \in S : f[y] \in Int, \A y \in S \ {x} : e[y] = f[y], e[x] \in Int
    PROVE  SumFunctionOnSet(e, S) = (SumFunctionOnSet(f, S) - f[x]) + e[x]
<1>1. IsFiniteSet(S \ {x})
  BY FS_Subset
<1>2. SumFunctionOnSet(f, S) = f[x] + SumFunctionOnSet(f, S \ {x})
  BY SumRemove
<1>3. SumFunctionOnSet(e, S) = e[x] + SumFunctionOnSet(e, S \ {x})
  BY SumRemove
<1>4. SumFunctionOnSet(e, S \ {x}) = SumFunctionOnSet(f, S \ {x})
  BY <1>1, SumAgrees
<1>5. SumFunctionOnSet(f, S \ {x}) \in Int
  BY <1>1, SumInt
<1> QED
  BY <1>2, <1>3, <1>4, <1>5

(* The sum of nothing but zeros.                                               *)
LEMMA SumZero ==
    ASSUME NEW f, NEW S, IsFiniteSet(S), \A x \in S : f[x] = 0
    PROVE  SumFunctionOnSet(f, S) = 0
<1> DEFINE Bad == {T \in SUBSET S : SumFunctionOnSet(f, T) # 0}
<1> SUFFICES ASSUME Bad # {} PROVE FALSE
  OBVIOUS
<1>1. PICK T \in Bad : \A U \in SUBSET T : U # T => U \notin Bad
  <2> HIDE DEF Bad
  <2>1. Bad \in SUBSET (SUBSET S)
    BY DEF Bad
  <2> QED
    BY <2>1, SmallestSet
<1>2. T # {}
  BY <1>1, SumEmpty
<1>3. Pick(T) \in T /\ SumFunctionOnSet(f, T \ {Pick(T)}) = 0
  BY <1>1, <1>2, PickIn
<1>4. SumFunctionOnSet(f, T) = f[Pick(T)] + SumFunctionOnSet(f, T \ {Pick(T)})
  BY <1>1, <1>2, FS_Subset, SumPick
<1> QED
  BY <1>1, <1>3, <1>4

-----------------------------------------------------------------------------
(* What the ledgers sum up to. *)

AcceptedOn(rs, i) == [r \in rs |-> r.accepted[i]]
BroughtOn(trips, i) == [t \in DOMAIN trips |-> trips[t].brought[i]]
PortionsOn(trips) == [t \in DOMAIN trips |-> trips[t].portions]
UsedOn(batches, i) == [b \in DOMAIN batches |-> batches[b].used[i]]

(* The sums of the ledgers as sums of functions.                               *)
LEMMA AcceptedIsSum ==
    ASSUME NEW rs, NEW i
    PROVE  Accepted(rs, i) = SumFunctionOnSet(AcceptedOn(rs, i), rs)
<1> DEFINE Table(g) == g = [s \in SUBSET rs |->
              IF s = {} THEN 0 ELSE Pick(s).accepted[i] + g[s \ {Pick(s)}]]
<1>1. Accepted(rs, i) = (CHOOSE g : Table(g))[rs]
  BY DEF Accepted, MapThenSumSet, MapThenFoldSet, Pick
<1>2. ASSUME NEW g PROVE Table(g) <=> SumTable(AcceptedOn(rs, i), rs, g)
  <2>1. \A s \in SUBSET rs : s # {} => AcceptedOn(rs, i)[Pick(s)] = Pick(s).accepted[i]
    BY PickIn DEF AcceptedOn
  <2> QED
    BY <2>1 DEF SumTable
<1>3. (CHOOSE g : Table(g)) = (CHOOSE g : SumTable(AcceptedOn(rs, i), rs, g))
  BY <1>2
<1> QED
  BY <1>1, <1>3, SumIsTable

(* What market purchases brought of a material.                                *)
LEMMA BroughtIsSum ==
    ASSUME NEW trips, NEW i
    PROVE  Brought(trips, i) = SumFunctionOnSet(BroughtOn(trips, i), DOMAIN trips)
<1> DEFINE Table(g) == g = [s \in SUBSET DOMAIN trips |->
              IF s = {} THEN 0 ELSE trips[Pick(s)].brought[i] + g[s \ {Pick(s)}]]
<1>1. Brought(trips, i) = (CHOOSE g : Table(g))[DOMAIN trips]
  BY DEF Brought, MapThenSumSet, MapThenFoldSet, Pick
<1>2. ASSUME NEW g PROVE Table(g) <=> SumTable(BroughtOn(trips, i), DOMAIN trips, g)
  <2>1. \A s \in SUBSET DOMAIN trips :
          s # {} => BroughtOn(trips, i)[Pick(s)] = trips[Pick(s)].brought[i]
    BY PickIn DEF BroughtOn
  <2> QED
    BY <2>1 DEF SumTable
<1>3. (CHOOSE g : Table(g)) = (CHOOSE g : SumTable(BroughtOn(trips, i), DOMAIN trips, g))
  BY <1>2
<1> QED
  BY <1>1, <1>3, SumIsTable

(* What they brought of the dish.                                              *)
LEMMA PortionsIsSum ==
    ASSUME NEW trips
    PROVE  Portions(trips) = SumFunctionOnSet(PortionsOn(trips), DOMAIN trips)
<1> DEFINE Table(g) == g = [s \in SUBSET DOMAIN trips |->
              IF s = {} THEN 0 ELSE trips[Pick(s)].portions + g[s \ {Pick(s)}]]
<1>1. Portions(trips) = (CHOOSE g : Table(g))[DOMAIN trips]
  BY DEF Portions, MapThenSumSet, MapThenFoldSet, Pick
<1>2. ASSUME NEW g PROVE Table(g) <=> SumTable(PortionsOn(trips), DOMAIN trips, g)
  <2>1. \A s \in SUBSET DOMAIN trips :
          s # {} => PortionsOn(trips)[Pick(s)] = trips[Pick(s)].portions
    BY PickIn DEF PortionsOn
  <2> QED
    BY <2>1 DEF SumTable
<1>3. (CHOOSE g : Table(g)) = (CHOOSE g : SumTable(PortionsOn(trips), DOMAIN trips, g))
  BY <1>2
<1> QED
  BY <1>1, <1>3, SumIsTable

(* What production used of a material.                                         *)
LEMMA UsedIsSum ==
    ASSUME NEW batches, NEW i
    PROVE  UsedUp(batches, i) = SumFunctionOnSet(UsedOn(batches, i), DOMAIN batches)
<1> DEFINE Table(g) == g = [s \in SUBSET DOMAIN batches |->
              IF s = {} THEN 0 ELSE batches[Pick(s)].used[i] + g[s \ {Pick(s)}]]
<1>1. UsedUp(batches, i) = (CHOOSE g : Table(g))[DOMAIN batches]
  BY DEF UsedUp, MapThenSumSet, MapThenFoldSet, Pick
<1>2. ASSUME NEW g PROVE Table(g) <=> SumTable(UsedOn(batches, i), DOMAIN batches, g)
  <2>1. \A s \in SUBSET DOMAIN batches :
          s # {} => UsedOn(batches, i)[Pick(s)] = batches[Pick(s)].used[i]
    BY PickIn DEF UsedOn
  <2> QED
    BY <2>1 DEF SumTable
<1>3. (CHOOSE g : Table(g)) = (CHOOSE g : SumTable(UsedOn(batches, i), DOMAIN batches, g))
  BY <1>2
<1> QED
  BY <1>1, <1>3, SumIsTable

(* No receipts accepted nothing; a receipt more adds what it accepted.         *)
LEMMA AcceptedMore ==
    ASSUME NEW rs, IsFiniteSet(rs), rs \subseteq Receipt, NEW i \in Items
    PROVE  /\ Accepted(rs, i) \in Nat
           /\ rs = {} => Accepted(rs, i) = 0
           /\ \A r \in Receipt \ rs : Accepted(rs \cup {r}, i) = Accepted(rs, i) + r.accepted[i]
<1>1. \A qs \in SUBSET Receipt : \A r \in qs : /\ AcceptedOn(qs, i)[r] = r.accepted[i]
                                              /\ r.accepted[i] \in Nat
  BY DEF AcceptedOn, Receipt
<1>2. SumFunctionOnSet(AcceptedOn(rs, i), rs) \in Nat
  <2>1. \A r \in rs : AcceptedOn(rs, i)[r] \in Nat
    BY <1>1
  <2> QED
    BY <2>1, SumInt
<1>3. ASSUME NEW r \in Receipt \ rs
      PROVE  Accepted(rs \cup {r}, i) = Accepted(rs, i) + r.accepted[i]
  <2> DEFINE qs == rs \cup {r}
  <2>1. qs \in SUBSET Receipt /\ r \in qs /\ qs \ {r} = rs /\ r.accepted[i] \in Nat
    BY <1>1
  <2>2. IsFiniteSet(qs)
    BY FS_AddElement
  <2>3. \A x \in qs : AcceptedOn(qs, i)[x] = x.accepted[i] /\ AcceptedOn(qs, i)[x] \in Int
    BY <1>1, <2>1
  <2>4. \A x \in rs : AcceptedOn(qs, i)[x] = AcceptedOn(rs, i)[x]
    BY <1>1, <2>3
  <2> HIDE DEF qs
  <2>5. SumFunctionOnSet(AcceptedOn(qs, i), qs)
          = AcceptedOn(qs, i)[r] + SumFunctionOnSet(AcceptedOn(qs, i), qs \ {r})
    BY <2>1, <2>2, <2>3, SumRemove
  <2>6. SumFunctionOnSet(AcceptedOn(qs, i), rs) = SumFunctionOnSet(AcceptedOn(rs, i), rs)
    BY <2>4, SumAgrees
  <2>7. Accepted(qs, i) = r.accepted[i] + Accepted(rs, i)
    BY <2>1, <2>3, <2>5, <2>6, AcceptedIsSum
  <2>8. Accepted(rs, i) \in Nat
    BY <1>2, AcceptedIsSum
  <2> QED
    BY <2>1, <2>7, <2>8 DEF qs
<1>4. rs = {} => Accepted(rs, i) = 0
  BY AcceptedIsSum, SumEmpty
<1> QED
  BY <1>2, <1>3, <1>4, AcceptedIsSum

TripRecord == [settled : BOOLEAN, brought : [Items -> Nat], portions : Nat]

(* Before any market purchase nothing was brought; one more adds what it       *)
(* brought.                                                                    *)
LEMMA TripsMore ==
    ASSUME NEW trips \in [Trips -> TripRecord], NEW i \in Items
    PROVE  /\ Brought(trips, i) \in Nat
           /\ (\A t \in Trips : trips[t] = NoTrip) => Brought(trips, i) = 0
           /\ \A t \in Trips, x \in TripRecord : trips[t] = NoTrip =>
                 Brought([trips EXCEPT ![t] = x], i) = Brought(trips, i) + x.brought[i]
<1>1. IsFiniteSet(Trips)
  BY FiniteAssumption
<1>2. ASSUME NEW ts \in [Trips -> TripRecord]
      PROVE  /\ \A t \in Trips : BroughtOn(ts, i)[t] = ts[t].brought[i] /\ BroughtOn(ts, i)[t] \in Nat
             /\ Brought(ts, i) = SumFunctionOnSet(BroughtOn(ts, i), Trips)
  <2>1. DOMAIN ts = Trips
    OBVIOUS
  <2>2. \A t \in Trips : ts[t].brought[i] \in Nat
    BY DEF TripRecord
  <2>3. \A t \in Trips : BroughtOn(ts, i)[t] = ts[t].brought[i]
    BY <2>1 DEF BroughtOn
  <2> QED
    BY <2>1, <2>2, <2>3, BroughtIsSum
<1>3. Brought(trips, i) \in Nat
  <2>1. \A t \in Trips : BroughtOn(trips, i)[t] \in Nat
    BY <1>2
  <2>2. SumFunctionOnSet(BroughtOn(trips, i), Trips) \in Nat
    BY <1>1, <2>1, SumInt
  <2> QED
    BY <1>2, <2>2
<1>4. ASSUME \A t \in Trips : trips[t] = NoTrip PROVE Brought(trips, i) = 0
  <2>1. \A t \in Trips : BroughtOn(trips, i)[t] = 0
    BY <1>2, <1>4 DEF NoTrip
  <2> QED
    BY <1>1, <1>2, <2>1, SumZero
<1>5. ASSUME NEW t \in Trips, NEW x \in TripRecord, trips[t] = NoTrip
      PROVE  Brought([trips EXCEPT ![t] = x], i) = Brought(trips, i) + x.brought[i]
  <2> DEFINE us == [trips EXCEPT ![t] = x]
  <2>1. us \in [Trips -> TripRecord] /\ us[t] = x /\ \A y \in Trips \ {t} : us[y] = trips[y]
    OBVIOUS
  <2> HIDE DEF us
  <2>2. \A y \in Trips \ {t} : BroughtOn(us, i)[y] = BroughtOn(trips, i)[y]
    BY <1>2, <2>1
  <2>3. BroughtOn(us, i)[t] = x.brought[i] /\ BroughtOn(us, i)[t] \in Int
    BY <1>2, <2>1
  <2>4. BroughtOn(trips, i)[t] = 0
    BY <1>2, <1>5 DEF NoTrip
  <2>5. \A y \in Trips : BroughtOn(trips, i)[y] \in Int
    BY <1>2
  <2>6. SumFunctionOnSet(BroughtOn(us, i), Trips)
          = (SumFunctionOnSet(BroughtOn(trips, i), Trips) - BroughtOn(trips, i)[t]) + BroughtOn(us, i)[t]
    BY <1>1, <2>2, <2>3, <2>5, SumReplace
  <2>7. /\ Brought(us, i) = SumFunctionOnSet(BroughtOn(us, i), Trips)
        /\ Brought(trips, i) = SumFunctionOnSet(BroughtOn(trips, i), Trips)
    BY <1>2, <2>1
  <2>8. Brought(us, i) = (Brought(trips, i) - 0) + x.brought[i]
    BY <2>3, <2>4, <2>6, <2>7
  <2> QED
    BY <1>3, <2>8 DEF us
<1> QED
  BY <1>3, <1>4, <1>5

(* And so for the portions of the dish.                                        *)
LEMMA PortionsMore ==
    ASSUME NEW trips \in [Trips -> TripRecord]
    PROVE  /\ Portions(trips) \in Nat
           /\ (\A t \in Trips : trips[t] = NoTrip) => Portions(trips) = 0
           /\ \A t \in Trips, x \in TripRecord : trips[t] = NoTrip =>
                 Portions([trips EXCEPT ![t] = x]) = Portions(trips) + x.portions
<1>1. IsFiniteSet(Trips)
  BY FiniteAssumption
<1>2. ASSUME NEW ts \in [Trips -> TripRecord]
      PROVE  /\ \A t \in Trips : PortionsOn(ts)[t] = ts[t].portions /\ PortionsOn(ts)[t] \in Nat
             /\ Portions(ts) = SumFunctionOnSet(PortionsOn(ts), Trips)
  <2>1. DOMAIN ts = Trips
    OBVIOUS
  <2>2. \A t \in Trips : ts[t].portions \in Nat
    BY DEF TripRecord
  <2>3. \A t \in Trips : PortionsOn(ts)[t] = ts[t].portions
    BY <2>1 DEF PortionsOn
  <2> QED
    BY <2>1, <2>2, <2>3, PortionsIsSum
<1>3. Portions(trips) \in Nat
  <2>1. \A t \in Trips : PortionsOn(trips)[t] \in Nat
    BY <1>2
  <2>2. SumFunctionOnSet(PortionsOn(trips), Trips) \in Nat
    BY <1>1, <2>1, SumInt
  <2> QED
    BY <1>2, <2>2
<1>4. ASSUME \A t \in Trips : trips[t] = NoTrip PROVE Portions(trips) = 0
  <2>1. \A t \in Trips : PortionsOn(trips)[t] = 0
    BY <1>2, <1>4 DEF NoTrip
  <2> QED
    BY <1>1, <1>2, <2>1, SumZero
<1>5. ASSUME NEW t \in Trips, NEW x \in TripRecord, trips[t] = NoTrip
      PROVE  Portions([trips EXCEPT ![t] = x]) = Portions(trips) + x.portions
  <2> DEFINE us == [trips EXCEPT ![t] = x]
  <2>1. us \in [Trips -> TripRecord] /\ us[t] = x /\ \A y \in Trips \ {t} : us[y] = trips[y]
    OBVIOUS
  <2> HIDE DEF us
  <2>2. \A y \in Trips \ {t} : PortionsOn(us)[y] = PortionsOn(trips)[y]
    BY <1>2, <2>1
  <2>3. PortionsOn(us)[t] = x.portions /\ PortionsOn(us)[t] \in Int
    BY <1>2, <2>1
  <2>4. PortionsOn(trips)[t] = 0
    BY <1>2, <1>5 DEF NoTrip
  <2>5. \A y \in Trips : PortionsOn(trips)[y] \in Int
    BY <1>2
  <2>6. SumFunctionOnSet(PortionsOn(us), Trips)
          = (SumFunctionOnSet(PortionsOn(trips), Trips) - PortionsOn(trips)[t]) + PortionsOn(us)[t]
    BY <1>1, <2>2, <2>3, <2>5, SumReplace
  <2>7. /\ Portions(us) = SumFunctionOnSet(PortionsOn(us), Trips)
        /\ Portions(trips) = SumFunctionOnSet(PortionsOn(trips), Trips)
    BY <1>2, <2>1
  <2>8. Portions(us) = (Portions(trips) - 0) + x.portions
    BY <2>3, <2>4, <2>6, <2>7
  <2> QED
    BY <1>3, <2>8 DEF us
<1> QED
  BY <1>3, <1>4, <1>5

BatchRecord == [status : {"none", "draft", "planned", "in_progress", "completed"},
                key : Keys \cup {"none"}, used : [Items -> Nat]]

(* What batches used before any was completed, and what one more uses; its     *)
(* status alone changes nothing.                                               *)
LEMMA BatchesMore ==
    ASSUME NEW batches \in [Batches -> BatchRecord], NEW i \in Items
    PROVE  /\ UsedUp(batches, i) \in Nat
           /\ (\A b \in Batches : batches[b].used[i] = 0) => UsedUp(batches, i) = 0
           /\ \A b \in Batches, x \in BatchRecord :
                 UsedUp([batches EXCEPT ![b] = x], i)
                    = (UsedUp(batches, i) - batches[b].used[i]) + x.used[i]
<1>1. IsFiniteSet(Batches)
  BY FiniteAssumption
<1>2. ASSUME NEW bs \in [Batches -> BatchRecord]
      PROVE  /\ DOMAIN bs = Batches
             /\ \A b \in Batches : UsedOn(bs, i)[b] = bs[b].used[i] /\ UsedOn(bs, i)[b] \in Nat
             /\ UsedUp(bs, i) = SumFunctionOnSet(UsedOn(bs, i), Batches)
  <2>1. DOMAIN bs = Batches
    OBVIOUS
  <2>2. \A b \in Batches : bs[b].used[i] \in Nat
    BY DEF BatchRecord
  <2>3. \A b \in Batches : UsedOn(bs, i)[b] = bs[b].used[i]
    BY <2>1 DEF UsedOn
  <2> QED
    BY <2>1, <2>2, <2>3, UsedIsSum
<1>3. UsedUp(batches, i) \in Nat
  <2>1. \A b \in Batches : UsedOn(batches, i)[b] \in Nat
    BY <1>2
  <2>2. SumFunctionOnSet(UsedOn(batches, i), Batches) \in Nat
    BY <1>1, <2>1, SumInt
  <2> QED
    BY <1>2, <2>2
<1>4. ASSUME \A b \in Batches : batches[b].used[i] = 0 PROVE UsedUp(batches, i) = 0
  <2>1. \A b \in Batches : UsedOn(batches, i)[b] = 0
    BY <1>2, <1>4
  <2> QED
    BY <1>1, <1>2, <2>1, SumZero
<1>5. ASSUME NEW b \in Batches, NEW x \in BatchRecord
      PROVE  UsedUp([batches EXCEPT ![b] = x], i) = (UsedUp(batches, i) - batches[b].used[i]) + x.used[i]
  <2> DEFINE us == [batches EXCEPT ![b] = x]
  <2>1. us \in [Batches -> BatchRecord] /\ us[b] = x /\ \A y \in Batches \ {b} : us[y] = batches[y]
    OBVIOUS
  <2> HIDE DEF us
  <2>2. \A y \in Batches \ {b} : UsedOn(us, i)[y] = UsedOn(batches, i)[y]
    BY <1>2, <2>1
  <2>3. UsedOn(us, i)[b] = x.used[i] /\ UsedOn(us, i)[b] \in Int
    BY <1>2, <2>1
  <2>4. UsedOn(batches, i)[b] = batches[b].used[i] /\ \A y \in Batches : UsedOn(batches, i)[y] \in Int
    BY <1>2
  <2>5. SumFunctionOnSet(UsedOn(us, i), Batches)
          = (SumFunctionOnSet(UsedOn(batches, i), Batches) - UsedOn(batches, i)[b]) + UsedOn(us, i)[b]
    BY <1>1, <2>2, <2>3, <2>4, SumReplace
  <2>6. /\ UsedUp(us, i) = SumFunctionOnSet(UsedOn(us, i), Batches)
        /\ UsedUp(batches, i) = SumFunctionOnSet(UsedOn(batches, i), Batches)
    BY <1>2, <2>1
  <2> QED
    BY <2>3, <2>4, <2>5, <2>6 DEF us
<1> QED
  BY <1>3, <1>4, <1>5

-----------------------------------------------------------------------------
(* The invariant behind StockIsExplained: what was not completed used nothing, *)
(* what was not settled brought nothing.                                       *)

Explained ==
    /\ IsFiniteSet(receipts)
    /\ StockIsExplained
    /\ \A b \in Batches : batch[b].status # "completed" => batch[b].used = [i \in Items |-> 0]
    /\ \A t \in Trips : ~trip[t].settled => trip[t] = NoTrip

(* What the types say of each row and sum.                                     *)
LEMMA StockTypes ==
    ASSUME IInv, Explained
    PROVE  /\ receipts \subseteq Receipt /\ received \in [Purchases -> [Items -> Nat]]
           /\ material \in [Items -> Row] /\ counted \in [Items -> Int]
           /\ batch \in [Batches -> BatchRecord] /\ trip \in [Trips -> TripRecord]
           /\ product \in Row
           /\ \A i \in Items : /\ material[i].qty \in Nat /\ Accepted(receipts, i) \in Nat
                               /\ Brought(trip, i) \in Nat /\ UsedUp(batch, i) \in Nat
                               /\ counted[i] \in Int
           /\ product.qty \in Nat
           /\ IsFiniteSet(Produced) /\ Cardinality(Produced) \in Nat
           /\ IsFiniteSet(SoldFromBalance) /\ Cardinality(SoldFromBalance) \in Nat
<1>1. /\ receipts \subseteq Receipt /\ received \in [Purchases -> [Items -> Nat]]
      /\ material \in [Items -> Row] /\ counted \in [Items -> Int]
      /\ batch \in [Batches -> BatchRecord] /\ trip \in [Trips -> TripRecord]
      /\ product \in Row
  BY DEF IInv, TypeOK, BatchRecord, TripRecord
<1>2. \A i \in Items : Accepted(receipts, i) \in Nat
  BY <1>1, AcceptedMore DEF Explained
<1>3. \A i \in Items : Brought(trip, i) \in Nat /\ UsedUp(batch, i) \in Nat
  BY <1>1, TripsMore, BatchesMore
<1>4. /\ IsFiniteSet(Produced) /\ Cardinality(Produced) \in Nat
      /\ IsFiniteSet(SoldFromBalance) /\ Cardinality(SoldFromBalance) \in Nat
  BY FiniteAssumption, FS_Subset, FS_CardinalityType DEF Produced, SoldFromBalance
<1>5. product.qty \in Nat /\ \A i \in Items : material[i].qty \in Nat /\ counted[i] \in Int
  BY <1>1 DEF Row
<1> QED
  BY <1>1, <1>2, <1>3, <1>4, <1>5

(* What a row holds after goods come in or go out.                             *)
LEMMA Quantities ==
    ASSUME NEW r \in Row, NEW q \in Nat
    PROVE  /\ Inbound(r, q).qty = r.qty + q
           /\ Bought(r, q).qty = r.qty + q
           /\ Outbound(r, q).qty = r.qty - q
<1>1. r.qty \in Nat
  BY DEF Row
<1> QED
  BY <1>1 DEF Inbound, Bought, Outbound

(* Steps that move no stock on these ledgers.                                  *)
LEMMA NothingMoves ==
    ASSUME Explained, UNCHANGED <<received, receipts, material, counted, torn, batch, trip>>,
           \/ \E c \in Counts : correction'[c] # NoCorrection
           \/ UNCHANGED <<product, sale, correction>>
    PROVE  Explained'
<1>1. LinesAreExplained' /\ MaterialsAreExplained'
  BY DEF Explained, StockIsExplained, LinesAreExplained, MaterialsAreExplained
<1>2. DishIsExplained'
  BY DEF Explained, StockIsExplained, DishIsExplained, Produced, SoldFromBalance
<1> QED
  BY <1>1, <1>2 DEF Explained, StockIsExplained

(* A receipt adds what it accepted to its lines and to the materials.          *)
LEMMA ReceiptExplained ==
    ASSUME IInv, Explained, NEW p \in Purchases, NEW k \in Postings, NEW L \in SUBSET Items,
           NEW accepted \in [Items -> Nat], PostGoodsReceipt(p, k, L, accepted)
    PROVE  Explained'
<1> DEFINE new == [posting |-> k, purchase |-> p, accepted |-> accepted]
           Of(rs, x) == {r \in rs : r.purchase = x}
<1>1. /\ new \in Receipt \ receipts /\ receipts' = receipts \cup {new}
      /\ received' = [received EXCEPT ![p] = [i \in Items |-> received[p][i] + accepted[i]]]
      /\ material' = [i \in Items |-> Inbound(material[i], accepted[i])]
      /\ UNCHANGED <<counted, torn, batch, trip, product, sale, correction>>
  BY DEF PostGoodsReceipt, Receipt, dish
<1>2. /\ receipts \subseteq Receipt /\ received \in [Purchases -> [Items -> Nat]]
      /\ material \in [Items -> Row] /\ IsFiniteSet(receipts)
      /\ \A i \in Items : /\ material[i].qty \in Nat /\ Accepted(receipts, i) \in Nat
                          /\ Brought(trip, i) \in Nat /\ UsedUp(batch, i) \in Nat
                          /\ counted[i] \in Int
  BY StockTypes DEF Explained
<1>3. IsFiniteSet(receipts')
  BY <1>1, <1>2, FS_AddElement
<1>4. LinesAreExplained'
  <2> SUFFICES ASSUME NEW x \in Purchases, NEW i \in Items
               PROVE  received'[x][i] = Accepted(Of(receipts', x), i)
    BY DEF LinesAreExplained
  <2>1. received[x][i] = Accepted(Of(receipts, x), i)
    BY DEF Explained, StockIsExplained, LinesAreExplained
  <2>2. CASE x = p
    <3>1. Of(receipts', p) = Of(receipts, p) \cup {new} /\ new \in Receipt \ Of(receipts, p)
      BY <1>1
    <3>2. IsFiniteSet(Of(receipts, p)) /\ Of(receipts, p) \subseteq Receipt
      BY <1>2, FS_Subset
    <3>3. Accepted(Of(receipts, p) \cup {new}, i) = Accepted(Of(receipts, p), i) + new.accepted[i]
      <4> HIDE DEF new, Of
      <4> QED
        BY <3>1, <3>2, AcceptedMore
    <3>4. received'[p][i] = received[p][i] + accepted[i] /\ new.accepted[i] = accepted[i]
      BY <1>1, <1>2
    <3> HIDE DEF new, Of
    <3> QED
      BY <2>1, <2>2, <3>1, <3>3, <3>4
  <2>3. CASE x # p
    <3>1. Of(receipts', x) = Of(receipts, x)
      BY <1>1, <2>3
    <3>2. received'[x][i] = received[x][i]
      BY <1>1, <1>2, <2>3
    <3> QED
      BY <2>1, <3>1, <3>2
  <2> QED
    BY <2>2, <2>3
<1>5. MaterialsAreExplained'
  <2> SUFFICES ASSUME NEW i \in Items \ torn
               PROVE  material'[i].qty = Accepted(receipts', i) + Brought(trip, i) - UsedUp(batch, i) + counted[i]
    BY <1>1 DEF MaterialsAreExplained
  <2>1. material[i].qty = Accepted(receipts, i) + Brought(trip, i) - UsedUp(batch, i) + counted[i]
    BY DEF Explained, StockIsExplained, MaterialsAreExplained
  <2>2. accepted[i] \in Nat /\ material'[i].qty = material[i].qty + accepted[i]
    BY <1>1, <1>2, Quantities
  <2>3. Accepted(receipts', i) = Accepted(receipts, i) + accepted[i]
    <3>1. Accepted(receipts \cup {new}, i) = Accepted(receipts, i) + new.accepted[i]
      <4> HIDE DEF new
      <4> QED
        BY <1>1, <1>2, AcceptedMore
    <3>2. new.accepted[i] = accepted[i]
      OBVIOUS
    <3> HIDE DEF new
    <3> QED
      BY <1>1, <3>1, <3>2
  <2> QED
    BY <1>2, <2>1, <2>2, <2>3
<1>6. DishIsExplained'
  BY <1>1 DEF Explained, StockIsExplained, DishIsExplained, Produced, SoldFromBalance
<1> QED
  BY <1>1, <1>3, <1>4, <1>5, <1>6 DEF Explained, StockIsExplained

(* A count writes the difference it finds; one that dies does not, and its     *)
(* material is torn from then on.                                              *)
LEMMA CountExplained ==
    ASSUME IInv, Explained, NEW i \in Items, NEW q \in Nat,
           CountMaterial(i, q) \/ CountMaterialCrash(i, q)
    PROVE  Explained'
<1>1. /\ UNCHANGED <<received, receipts, batch, trip, product, sale, correction>>
      /\ \A j \in Items \ {i} : material'[j] = material[j] /\ counted'[j] = counted[j]
      /\ torn \subseteq torn'
      /\ \/ torn' = torn /\ material'[i].qty = q /\ counted'[i] = counted[i] + q - material[i].qty
         \/ i \in torn'
  <2>1. i \in DOMAIN material /\ i \in DOMAIN counted
    BY StockTypes
  <2>2. CASE CountMaterial(i, q)
    <3>1. /\ material' = [material EXCEPT ![i] = Counted(material[i], q, TRUE)]
          /\ counted' = [counted EXCEPT ![i] = counted[i] + q - material[i].qty]
          /\ UNCHANGED <<received, receipts, batch, trip, product, sale, correction, torn>>
      BY <2>2 DEF CountMaterial, orders, dish
    <3>2. material'[i].qty = q
      BY <2>1, <3>1 DEF Counted
    <3>3. \A j \in Items \ {i} : material'[j] = material[j] /\ counted'[j] = counted[j]
      BY <3>1, StockTypes
    <3> QED
      BY <2>1, <3>1, <3>2, <3>3
  <2>3. CASE CountMaterialCrash(i, q)
    <3>1. /\ material' = [material EXCEPT ![i] = Counted(material[i], q, FALSE)]
          /\ torn' = torn \cup {i}
          /\ UNCHANGED <<received, receipts, batch, trip, product, sale, correction, counted>>
      BY <2>3 DEF CountMaterialCrash, orders, dish
    <3>2. \A j \in Items \ {i} : material'[j] = material[j] /\ counted'[j] = counted[j]
      BY <3>1, StockTypes
    <3> QED
      BY <3>1, <3>2
  <2> QED
    BY <2>2, <2>3
<1>2. \A j \in Items : /\ material[j].qty \in Nat /\ Accepted(receipts, j) \in Nat
                       /\ Brought(trip, j) \in Nat /\ UsedUp(batch, j) \in Nat
                       /\ counted[j] \in Int
  BY StockTypes
<1>3. MaterialsAreExplained'
  <2> SUFFICES ASSUME NEW j \in Items \ torn'
               PROVE  material'[j].qty = Accepted(receipts, j) + Brought(trip, j) - UsedUp(batch, j) + counted'[j]
    BY <1>1 DEF MaterialsAreExplained
  <2>1. material[j].qty = Accepted(receipts, j) + Brought(trip, j) - UsedUp(batch, j) + counted[j]
    BY <1>1 DEF Explained, StockIsExplained, MaterialsAreExplained
  <2>2. CASE j = i
    BY <1>1, <1>2, <2>1, <2>2
  <2>3. CASE j # i
    BY <1>1, <2>1, <2>3
  <2> QED
    BY <2>2, <2>3
<1>4. LinesAreExplained' /\ DishIsExplained'
  BY <1>1 DEF Explained, StockIsExplained, LinesAreExplained, DishIsExplained, Produced, SoldFromBalance
<1> QED
  BY <1>1, <1>3, <1>4 DEF Explained, StockIsExplained

(* A market purchase is settled once, and brings what it says.                 *)
LEMMA TripExplained ==
    ASSUME IInv, Explained, NEW t \in Trips, NEW brought \in [Items -> Nat], NEW n \in Nat,
           SettleTrip(t, brought, n)
    PROVE  Explained'
<1> DEFINE x == [settled |-> TRUE, brought |-> brought, portions |-> n]
<1>1. /\ trip[t] = NoTrip /\ trip' = [trip EXCEPT ![t] = x] /\ x \in TripRecord
      /\ material' = [i \in Items |-> Bought(material[i], brought[i])]
      /\ product' = Bought(product, n)
      /\ UNCHANGED <<received, receipts, counted, torn, batch, sale, correction>>
  BY DEF SettleTrip, Explained, TripRecord, orders
<1>2. /\ trip \in [Trips -> TripRecord] /\ product \in Row /\ material \in [Items -> Row]
      /\ \A i \in Items : /\ material[i].qty \in Nat /\ Accepted(receipts, i) \in Nat
                          /\ Brought(trip, i) \in Nat /\ UsedUp(batch, i) \in Nat
                          /\ counted[i] \in Int
      /\ product.qty \in Nat /\ Cardinality(Produced) \in Nat /\ Cardinality(SoldFromBalance) \in Nat
  BY StockTypes
<1>3. \A i \in Items : Brought(trip', i) = Brought(trip, i) + brought[i]
  <2> TAKE i \in Items
  <2>1. Brought([trip EXCEPT ![t] = x], i) = Brought(trip, i) + x.brought[i]
    <3> HIDE DEF x
    <3> QED
      BY <1>1, <1>2, TripsMore
  <2> QED
    BY <1>1, <2>1
<1>4. MaterialsAreExplained'
  <2> SUFFICES ASSUME NEW i \in Items \ torn
               PROVE  material'[i].qty = Accepted(receipts, i) + Brought(trip', i) - UsedUp(batch, i) + counted[i]
    BY <1>1 DEF MaterialsAreExplained
  <2>1. material[i].qty = Accepted(receipts, i) + Brought(trip, i) - UsedUp(batch, i) + counted[i]
    BY DEF Explained, StockIsExplained, MaterialsAreExplained
  <2>2. brought[i] \in Nat /\ material'[i].qty = material[i].qty + brought[i]
    BY <1>1, <1>2, Quantities
  <2> QED
    BY <1>2, <1>3, <2>1, <2>2
<1>5. DishIsExplained'
  <2> SUFFICES ASSUME \A c \in Counts : correction[c] = NoCorrection
               PROVE  product'.qty = Cardinality(Produced) + Portions(trip') - Cardinality(SoldFromBalance)
    BY <1>1 DEF DishIsExplained, Produced, SoldFromBalance
  <2>1. product.qty = Cardinality(Produced) + Portions(trip) - Cardinality(SoldFromBalance)
    BY DEF Explained, StockIsExplained, DishIsExplained
  <2>2. product'.qty = product.qty + n
    BY <1>1, <1>2, Quantities
  <2>3. Portions([trip EXCEPT ![t] = x]) = Portions(trip) + x.portions /\ Portions(trip) \in Nat
    <3> HIDE DEF x
    <3> QED
      BY <1>1, <1>2, PortionsMore
  <2>4. Portions(trip') = Portions(trip) + n
    BY <1>1, <2>3
  <2> QED
    BY <1>2, <2>1, <2>2, <2>3, <2>4
<1>6. LinesAreExplained'
  BY <1>1 DEF Explained, StockIsExplained, LinesAreExplained
<1>7. \A y \in Trips : ~trip'[y].settled => trip'[y] = NoTrip
  BY <1>1, <1>2 DEF Explained
<1> QED
  BY <1>1, <1>4, <1>5, <1>6, <1>7 DEF Explained, StockIsExplained

(* The steps before a batch is completed use nothing.                          *)
LEMMA StopExplained ==
    ASSUME IInv, Explained, NEW b \in Batches, NEW s \in {"draft", "planned", "in_progress"},
           ProductionStops(b, s)
    PROVE  Explained'
<1> DEFINE x == [batch[b] EXCEPT !.status = s]
<1>1. UNCHANGED <<received, receipts, material, counted, torn, trip, product, sale, correction>>
  BY DEF ProductionStops, orders, materials, dish
<1>2. batch[b].status # "completed"
  <2>1. DOMAIN Steps = 1..4
    BY DEF Steps
  <2>2. PICK m, n \in DOMAIN Steps : m < n /\ Steps[m] = batch[b].status /\ Steps[n] = s
    BY DEF ProductionStops, Reaches
  <2>3. m = 1 \/ m = 2 \/ m = 3 \/ m = 4
    BY <2>1
  <2>4. /\ Steps[1] # "completed" /\ Steps[2] # "completed"
        /\ Steps[3] # "completed" /\ Steps[4] # "completed"
    BY DEF Steps
  <2> QED
    BY <2>2, <2>3, <2>4
<1>3. batch \in [Batches -> BatchRecord] /\ \A i \in Items : UsedUp(batch, i) \in Nat
  BY StockTypes
<1>4. x \in BatchRecord /\ x.used = batch[b].used /\ x.status = s
  BY <1>3 DEF BatchRecord
<1>5. batch' = [batch EXCEPT ![b] = x]
  BY <1>3 DEF ProductionStops
<1>6. /\ batch'[b].used = batch[b].used /\ batch'[b].status # "completed"
      /\ \A c \in Batches \ {b} : batch'[c] = batch[c]
  <2> HIDE DEF x
  <2> QED
    BY <1>3, <1>4, <1>5
<1>7. \A i \in Items : UsedUp(batch', i) = UsedUp(batch, i)
  <2> TAKE i \in Items
  <2>1. batch[b].used[i] \in Nat
    BY <1>3 DEF BatchRecord
  <2> HIDE DEF x
  <2>2. UsedUp(batch', i) = (UsedUp(batch, i) - batch[b].used[i]) + x.used[i]
    BY <1>3, <1>4, <1>5, BatchesMore
  <2>3. x.used[i] = batch[b].used[i] /\ UsedUp(batch, i) \in Nat
    BY <1>3, <1>4
  <2> QED
    BY <2>1, <2>2, <2>3
<1>8. Produced' = Produced
  BY <1>2, <1>6 DEF Produced
<1>9. LinesAreExplained' /\ MaterialsAreExplained' /\ DishIsExplained'
  BY <1>1, <1>7, <1>8 DEF Explained, StockIsExplained, LinesAreExplained, MaterialsAreExplained,
     DishIsExplained, SoldFromBalance
<1>10. \A c \in Batches : batch'[c].status # "completed" => batch'[c].used = [i \in Items |-> 0]
  BY <1>2, <1>6 DEF Explained
<1> QED
  BY <1>1, <1>9, <1>10 DEF Explained, StockIsExplained

(* A batch that is completed uses what it says, once, and makes one portion.   *)
LEMMA BatchExplained ==
    ASSUME IInv, Explained, NEW b \in Batches, NEW k \in Keys, NEW used \in [Items -> Nat],
           CompleteBatch(b, k, used),
           UNCHANGED <<orders, counted, torn, trip, sale, taken, correction>>
    PROVE  Explained'
<1> DEFINE x == [status |-> "completed", key |-> k, used |-> used]
<1>1. /\ batch[b].status # "completed" /\ batch' = [batch EXCEPT ![b] = x] /\ x \in BatchRecord
      /\ product' = Inbound(product, 1)
      /\ material' = [i \in Items |-> Outbound(material[i], used[i])]
      /\ UNCHANGED <<received, receipts>>
  BY DEF CompleteBatch, Issue, BatchRecord, orders
<1>2. /\ batch \in [Batches -> BatchRecord] /\ product \in Row /\ material \in [Items -> Row]
      /\ \A i \in Items : /\ material[i].qty \in Nat /\ Accepted(receipts, i) \in Nat
                          /\ Brought(trip, i) \in Nat /\ UsedUp(batch, i) \in Nat
                          /\ counted[i] \in Int
      /\ product.qty \in Nat /\ IsFiniteSet(Produced)
      /\ Cardinality(Produced) \in Nat /\ Cardinality(SoldFromBalance) \in Nat
  BY StockTypes
<1>3. Portions(trip) \in Nat
  BY StockTypes, PortionsMore
<1>4. \A i \in Items : UsedUp(batch', i) = UsedUp(batch, i) + used[i]
  <2> TAKE i \in Items
  <2>1. batch[b].used[i] = 0 /\ x.used[i] = used[i] /\ used[i] \in Nat
    BY <1>1 DEF Explained
  <2> HIDE DEF x
  <2>2. UsedUp(batch', i) = (UsedUp(batch, i) - batch[b].used[i]) + x.used[i]
    BY <1>1, <1>2, BatchesMore
  <2> QED
    BY <1>2, <2>1, <2>2
<1>5. MaterialsAreExplained'
  <2> SUFFICES ASSUME NEW i \in Items \ torn
               PROVE  material'[i].qty = Accepted(receipts, i) + Brought(trip, i) - UsedUp(batch', i) + counted[i]
    BY <1>1 DEF MaterialsAreExplained
  <2>1. material[i].qty = Accepted(receipts, i) + Brought(trip, i) - UsedUp(batch, i) + counted[i]
    BY DEF Explained, StockIsExplained, MaterialsAreExplained
  <2>2. used[i] \in Nat /\ material'[i].qty = material[i].qty - used[i]
    BY <1>1, <1>2, Quantities
  <2> QED
    BY <1>2, <1>4, <2>1, <2>2
<1>6. Produced' = Produced \cup {b} /\ b \notin Produced
  <2>1. \A c \in Batches : batch'[c].status = "completed" <=> (batch[c].status = "completed" \/ c = b)
    BY <1>1, <1>2
  <2> QED
    BY <1>1, <2>1 DEF Produced
<1>7. DishIsExplained'
  <2> SUFFICES ASSUME \A c \in Counts : correction[c] = NoCorrection
               PROVE  product'.qty = Cardinality(Produced') + Portions(trip) - Cardinality(SoldFromBalance)
    BY DEF DishIsExplained, SoldFromBalance
  <2>1. product.qty = Cardinality(Produced) + Portions(trip) - Cardinality(SoldFromBalance)
    BY DEF Explained, StockIsExplained, DishIsExplained
  <2>2. product'.qty = product.qty + 1
    BY <1>1, <1>2, Quantities
  <2>3. Cardinality(Produced') = Cardinality(Produced) + 1
    BY <1>2, <1>6, FS_AddElement
  <2> QED
    BY <1>2, <1>3, <2>1, <2>2, <2>3
<1>8. LinesAreExplained'
  BY <1>1 DEF Explained, StockIsExplained, LinesAreExplained
<1>9. \A c \in Batches : batch'[c].status # "completed" => batch'[c].used = [i \in Items |-> 0]
  BY <1>1, <1>2 DEF Explained
<1> QED
  BY <1>1, <1>5, <1>7, <1>8, <1>9 DEF Explained, StockIsExplained

(* A sale takes its portion off the balance once, or off the shelf.            *)
LEMMA SaleExplained ==
    ASSUME IInv, Explained, NEW s \in Sales, Sell(s)
    PROVE  Explained'
<1>1. UNCHANGED <<received, receipts, material, counted, torn, batch, trip, correction>>
  BY DEF Sell, SellFromShelf, SellFromBalance, orders, materials
<1>2. sale \in [Sales -> {"none", "shelf", "balance"}]
  BY DEF IInv, TypeOK
<1>3. LinesAreExplained' /\ MaterialsAreExplained'
  BY <1>1 DEF Explained, StockIsExplained, LinesAreExplained, MaterialsAreExplained
<1>4. /\ product \in Row /\ product.qty \in Nat /\ IsFiniteSet(SoldFromBalance)
      /\ Cardinality(Produced) \in Nat /\ Cardinality(SoldFromBalance) \in Nat /\ Portions(trip) \in Nat
  BY StockTypes, PortionsMore
<1>5. CASE SellFromShelf(s)
  <2>1. sale[s] = "none" /\ product' = product /\ sale' = [sale EXCEPT ![s] = "shelf"]
    BY <1>2, <1>5 DEF Sell, SellFromShelf, IInv, SalesHaveABalance
  <2>2. SoldFromBalance' = SoldFromBalance
    BY <1>2, <2>1 DEF SoldFromBalance
  <2>3. DishIsExplained'
    BY <1>1, <2>1, <2>2 DEF Explained, StockIsExplained, DishIsExplained, Produced
  <2> QED
    BY <1>1, <1>3, <2>3 DEF Explained, StockIsExplained
<1>6. CASE SellFromBalance(s)
  <2>1. sale[s] # "balance" /\ product' = Outbound(product, 1) /\ sale' = [sale EXCEPT ![s] = "balance"]
    BY <1>6 DEF SellFromBalance
  <2>2. SoldFromBalance' = SoldFromBalance \cup {s} /\ s \notin SoldFromBalance
    BY <1>2, <2>1 DEF SoldFromBalance
  <2>3. Cardinality(SoldFromBalance') = Cardinality(SoldFromBalance) + 1
    BY <1>4, <2>2, FS_AddElement
  <2>4. product'.qty = product.qty - 1
    BY <1>4, <2>1, Quantities
  <2>5. DishIsExplained'
    <3> SUFFICES ASSUME \A c \in Counts : correction[c] = NoCorrection
                 PROVE  product'.qty = Cardinality(Produced) + Portions(trip) - Cardinality(SoldFromBalance')
      BY <1>1 DEF DishIsExplained, Produced
    <3>1. product.qty = Cardinality(Produced) + Portions(trip) - Cardinality(SoldFromBalance)
      BY DEF Explained, StockIsExplained, DishIsExplained
    <3> QED
      BY <1>4, <2>3, <2>4, <3>1
  <2> QED
    BY <1>1, <1>3, <2>5 DEF Explained, StockIsExplained
<1> QED
  BY <1>5, <1>6 DEF Sell

(* After a manual correction the dish need not be explained any more.          *)
LEMMA CorrectionExplained ==
    ASSUME IInv, Explained, NEW c \in Counts, NEW d \in Int,
           CorrectShelfOnly(c, d) \/ CorrectBalanceOnly(c, d) \/ Correct(c, d)
    PROVE  Explained'
<1>1. UNCHANGED <<received, receipts, material, counted, torn, batch, trip>>
  BY DEF CorrectShelfOnly, CorrectBalanceOnly, Correct, orders, materials
<1>2. PICK x \in {"shelf", "posted"} : RecordMovement(c, d, x)
  BY DEF CorrectShelfOnly, CorrectBalanceOnly, Correct
<1>3. c \in DOMAIN correction
  BY DEF IInv, TypeOK
<1>4. correction'[c].step = x
  BY <1>2, <1>3 DEF RecordMovement
<1>5. correction'[c] # NoCorrection
  BY <1>2, <1>4 DEF NoCorrection
<1> QED
  BY <1>1, <1>5, NothingMoves

(* At first there is nothing to explain.                                       *)
LEMMA NothingYet == Init => Explained
<1> SUFFICES ASSUME Init PROVE Explained
  OBVIOUS
<1>1. /\ receipts = {} /\ product.qty = 0
      /\ \A p \in Purchases, i \in Items : received[p][i] = 0
      /\ \A i \in Items : material[i].qty = 0 /\ counted[i] = 0
      /\ trip \in [Trips -> TripRecord] /\ \A t \in Trips : trip[t] = NoTrip
      /\ batch \in [Batches -> BatchRecord]
      /\ \A b \in Batches : batch[b].status = "none" /\ batch[b].used = [i \in Items |-> 0]
  BY DEF Init, NoRow, NoTrip, NoBatch, TripRecord, BatchRecord
<1>2. IsFiniteSet(receipts) /\ \A p \in Purchases : {r \in receipts : r.purchase = p} = {}
  BY <1>1, FS_EmptySet
<1>3. \A i \in Items : Accepted({}, i) = 0
  BY FS_EmptySet, AcceptedMore
<1>4. \A i \in Items : Brought(trip, i) = 0 /\ UsedUp(batch, i) = 0
  BY <1>1, TripsMore, BatchesMore
<1>5. Portions(trip) = 0
  BY <1>1, PortionsMore
<1>6. Produced = {} /\ SoldFromBalance = {}
  BY <1>1 DEF Produced, SoldFromBalance, Init
<1>7. Cardinality(Produced) = 0 /\ Cardinality(SoldFromBalance) = 0
  BY <1>6, FS_EmptySet
<1>8. LinesAreExplained
  BY <1>1, <1>2, <1>3 DEF LinesAreExplained
<1>9. MaterialsAreExplained
  BY <1>1, <1>3, <1>4 DEF MaterialsAreExplained
<1>10. DishIsExplained
  BY <1>1, <1>5, <1>7 DEF DishIsExplained
<1> QED
  BY <1>1, <1>2, <1>8, <1>9, <1>10 DEF Explained, StockIsExplained

(* No step leaves stock unexplained.                                           *)
LEMMA NextExplains == IInv /\ Explained /\ [Next]_vars => Explained'
<1> SUFFICES ASSUME IInv, Explained, [Next]_vars PROVE Explained'
  OBVIOUS
<1>1. CASE PurchaseStep
  <2>1. PICK p \in Purchases :
           \/ ApprovePurchaseOrder(p)
           \/ OrderPurchaseOrder(p)
           \/ \E k \in Postings, L \in SUBSET Items, accepted \in Deliveries :
                 /\ \A i \in Items : accepted[i] \in Parcels[i] \cup {0}
                 /\ PostGoodsReceipt(p, k, L, accepted)
    BY <1>1 DEF PurchaseStep
  <2>2. CASE ApprovePurchaseOrder(p) \/ OrderPurchaseOrder(p)
    BY <2>2, NothingMoves DEF ApprovePurchaseOrder, OrderPurchaseOrder, materials, dish
  <2>3. ASSUME NEW k \in Postings, NEW L \in SUBSET Items, NEW accepted \in Deliveries,
               \A i \in Items : accepted[i] \in Parcels[i] \cup {0},
               PostGoodsReceipt(p, k, L, accepted)
        PROVE  Explained'
    <3>1. \A i \in Items : Parcels[i] \subseteq Nat
      BY StockAssumption
    <3>2. accepted \in [Items -> Nat]
      BY <2>3, <3>1 DEF Deliveries
    <3> QED
      BY <2>3, <3>2, ReceiptExplained
  <2> QED
    BY <2>1, <2>2, <2>3
<1>2. CASE CountStep
  BY <1>2, CountExplained, StockAssumption DEF CountStep
<1>3. CASE TripStep
  <2>1. \A S \in SUBSET Items : [i \in Items |-> IF i \in S THEN Needs[i] ELSE 0] \in [Items -> Nat]
    BY StockAssumption
  <2> QED
    BY <1>3, <2>1, TripExplained DEF TripStep
<1>4. CASE ProductionStep
  <2>1. PICK b \in Batches :
           \/ \E s \in {"draft", "planned", "in_progress"} : ProductionStops(b, s)
           \/ \E k \in Keys, S \in SUBSET Items : Produce(b, k, S)
           \/ \E k \in Keys, shelved \in BOOLEAN : Prepare(b, k, shelved)
    BY <1>4 DEF ProductionStep
  <2>2. ASSUME NEW k \in Keys, NEW S \in SUBSET Items, Produce(b, k, S) PROVE Explained'
    <3>1. [i \in Items |-> IF i \in S THEN Needs[i] ELSE 0] \in [Items -> Nat]
      BY StockAssumption
    <3> QED
      BY <2>2, <3>1, BatchExplained DEF Produce
  <2>3. ASSUME NEW k \in Keys, NEW shelved \in BOOLEAN, Prepare(b, k, shelved) PROVE Explained'
    <3>1. Needs \in [Items -> Nat]
      BY StockAssumption
    <3> QED
      BY <2>3, <3>1, BatchExplained DEF Prepare
  <2> QED
    BY <2>1, <2>2, <2>3, StopExplained
<1>5. CASE \E s \in Sales : Sell(s)
  BY <1>5, SaleExplained
<1>6. CASE CorrectionStep
  BY <1>6, CorrectionExplained DEF CorrectionStep
<1>7. CASE UNCHANGED vars
  BY <1>7, NothingMoves DEF vars, orders, materials, dish
<1> QED
  BY <1>1, <1>2, <1>3, <1>4, <1>5, <1>6, <1>7 DEF Next

(* However stock is received in parts, counted, bought, produced, sold and     *)
(* corrected: every line has received what its receipts accepted, and every     *)
(* quantity is what the ledgers of what moved it add up to.                    *)
THEOREM LedgersExplainStock == Spec => []StockIsExplained
<1>1. Explained => StockIsExplained
  BY DEF Explained
<1> QED
  BY <1>1, NothingYet, NextExplains, Inductive, PTL DEF Spec
=============================================================================
