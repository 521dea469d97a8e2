----------------------------- MODULE KitchenStock -----------------------------
(***************************************************************************)
(* The valued stock of one branch: materials come in with the receipts of  *)
(* purchase orders and from the market, are counted, and are used up by     *)
(* production batches; the dish that is produced is sold.                   *)
(*                                                                         *)
(* The dish is counted twice: on the shelf (branch_product_inventory) and   *)
(* as a valued balance (product_stock_balances), which comes into being     *)
(* with the first batch, purchase or count.  Production alone raises the    *)
(* balance, the branch's "prepare" raises both, a sale lowers the balance   *)
(* and sets the shelf to it, or lowers the shelf while there is no balance. *)
(*                                                                         *)
(* Every balance carries the version of its last movement; the triggers of  *)
(* CostBearingInventorySchema refuse a movement that does not continue it.  *)
(* Receipts, batches, sales and purchases write balance and movement in one *)
(* transaction; the two manual corrections write them one after the other.  *)
(* Costs are left to what the code tells apart: known, estimated, or none.  *)
(***************************************************************************)
EXTENDS Integers, FiniteSets, FiniteSetsExt

CONSTANTS Items,      \* materials, all of them components of the dish's recipe
          Needs,      \* what a batch of one portion takes of each
          Weighable,  \* materials a supplier may deliver 10% too much of
          Purchases,  \* purchase orders
          Ordered,    \* base quantity ordered on each line
          Parcels,    \* quantities of each material that are delivered
          Found,      \* what counts find of each material
          Postings,   \* goods_receipt_posting_id
          Batches,    \* production batches
          Keys,       \* production_posting_id
          Trips,      \* idempotency keys of market purchases
          Sales,      \* references of sales, one portion each
          Counts,     \* mutation ids of manual corrections of the dish
          Opening     \* portions on the shelf before there was a balance

ASSUME StockAssumption ==
    /\ Needs \in [Items -> Nat \ {0}]
    /\ Weighable \subseteq Items
    /\ Ordered \in [Purchases -> [Items -> Nat \ {0}]]
    /\ Parcels \in [Items -> SUBSET Nat]
    /\ Found \in [Items -> SUBSET Nat]
    /\ Opening \in Nat

\* Stock is summed up over what the tables hold.
ASSUME FiniteAssumption == IsFiniteSet(Batches) /\ IsFiniteSet(Trips) /\ IsFiniteSet(Sales)

VARIABLES
    purchase,   \* purchase_orders.status
    received,   \* received_base_quantity of each line
    receipts,   \* goods_receipts, with the lines accepted
    material,   \* material_stock_balances
    counted,    \* sum of the movements written by counts of each material
    torn,       \* materials of which a count died between balance and movement
    batch,      \* production_batches
    trip,       \* what each market purchase brought; "no" before it is settled
    product,    \* the product_stock_balances row of the dish
    shelf,      \* branch_product_inventory.stock_qty of the dish
    sale,       \* which ledger holds the movement of each sale
    taken,      \* portions taken off either ledger for each sale
    correction  \* inventory_movements row of each manual correction

orders == <<purchase, received, receipts>>
materials == <<material, counted, torn>>
dish == <<product, shelf, sale, taken, correction>>
vars == <<orders, materials, batch, trip, dish>>

NoRow == [qty |-> 0, cost |-> "none", inStep |-> TRUE]
NoBatch == [status |-> "none", key |-> "none", used |-> [i \in Items |-> 0]]
NoTrip == [settled |-> FALSE, brought |-> [i \in Items |-> 0], portions |-> 0]
NoCorrection == [step |-> "none", by |-> 0, current |-> 0]

Row == [qty : Nat, cost : {"none", "unavailable", "estimated", "available"}, inStep : BOOLEAN]
Receipt == [posting : Postings, purchase : Purchases, accepted : [Items -> Nat]]

\* The CHECK of both balance tables.
Shaped(r) == (r.qty > 0) <=> (r.cost \in {"estimated", "available"})

TypeOK ==
    /\ purchase \in [Purchases -> {"draft", "approved", "ordered", "partial", "received", "cancelled"}]
    /\ received \in [Purchases -> [Items -> Nat]]
    /\ receipts \subseteq Receipt
    /\ material \in [Items -> Row]
    /\ counted \in [Items -> Int]
    /\ torn \subseteq Items
    /\ batch \in [Batches -> [status : {"none", "draft", "planned", "in_progress", "completed"},
                              key : Keys \cup {"none"}, used : [Items -> Nat]]]
    /\ trip \in [Trips -> [settled : BOOLEAN, brought : [Items -> Nat], portions : Nat]]
    /\ product \in Row
    /\ shelf \in Nat
    /\ sale \in [Sales -> {"none", "shelf", "balance"}]
    /\ taken \in [Sales -> Nat]
    /\ correction \in [Counts -> [step : {"none", "shelf", "posted"}, by : Int, current : Nat]]
    /\ Shaped(product) /\ \A i \in Items : Shaped(material[i])

Init ==
    /\ purchase = [p \in Purchases |-> "draft"]
    /\ received = [p \in Purchases |-> [i \in Items |-> 0]]
    /\ receipts = {}
    /\ material = [i \in Items |-> NoRow]
    /\ counted = [i \in Items |-> 0]
    /\ torn = {}
    /\ batch = [b \in Batches |-> NoBatch]
    /\ trip = [t \in Trips |-> NoTrip]
    /\ product = NoRow
    /\ shelf = Opening
    /\ sale = [s \in Sales |-> "none"]
    /\ taken = [s \in Sales |-> 0]
    /\ correction = [c \in Counts |-> NoCorrection]

-----------------------------------------------------------------------------
(* Moving averages: CostResolutionService and the posting services. *)

MayReceive(r, q) == q = 0 \/ r.inStep

Inbound(r, q) ==
    IF q = 0 THEN r
    ELSE [qty |-> r.qty + q, inStep |-> r.inStep,
          cost |-> IF r.cost = "estimated" THEN "estimated" ELSE "available"]

MayIssue(r, q) == q = 0 \/ (r.inStep /\ r.cost = "available" /\ q <= r.qty)

\* A slip of the next definition: a row that is used up keeps its cost.
OutboundKeepsCost(r, q) ==
    IF q = 0 THEN r ELSE [qty |-> r.qty - q, inStep |-> r.inStep, cost |-> r.cost]

Outbound(r, q) ==
    IF q = 0 THEN r
    ELSE [qty |-> r.qty - q, inStep |-> r.inStep,
          cost |-> IF r.qty = q THEN "unavailable" ELSE r.cost]

-----------------------------------------------------------------------------
(* Purchase orders: ProcurementService. *)

ApprovePurchaseOrder(p) ==
    /\ purchase[p] = "draft"
    /\ purchase' = [purchase EXCEPT ![p] = "approved"]
    /\ UNCHANGED <<received, receipts, materials, batch, trip, dish>>

OrderPurchaseOrder(p) ==
    /\ purchase[p] \in {"draft", "approved"}
    /\ purchase' = [purchase EXCEPT ![p] = "ordered"]
    /\ UNCHANGED <<received, receipts, materials, batch, trip, dish>>

\* A slip of the next definition: the tolerance is taken of all that was ordered.
FitsOrdered(p, i, q) ==
    q * 10 <= Ordered[p][i] * (IF i \in Weighable THEN 11 ELSE 10)

\* Is a delivery of q, accepted or rejected, within what is open on the line?
Fits(p, i, q) ==
    q * 10 <= (Ordered[p][i] - received[p][i]) * (IF i \in Weighable THEN 11 ELSE 10)

StatusOf(p, got) ==
    CASE \A i \in Items : got[i] >= Ordered[p][i] -> "received"
      [] \A i \in Items : got[i] = 0 -> "cancelled"
      [] OTHER -> "partial"

\* A receipt is one transaction.  L are its lines; of those with nothing accepted
\* something is rejected, which must fit as well.  The workflow's route refuses
\* such a line, the branch's own route takes it.  A posting that is known answers
\* with its receipt, or an error, and does nothing; the branch's route makes up a
\* new one for every request.
PostGoodsReceipt(p, k, L, accepted) ==
    /\ \A r \in receipts : r.posting # k
    /\ purchase[p] \in {"ordered", "partial"}
    /\ L # {}
    /\ \A i \in L : Fits(p, i, IF accepted[i] = 0 THEN 1 ELSE accepted[i])
    /\ \A i \in Items \ L : accepted[i] = 0
    /\ \A i \in Items : MayReceive(material[i], accepted[i])
    /\ receipts' = receipts \cup {[posting |-> k, purchase |-> p, accepted |-> accepted]}
    /\ received' = [received EXCEPT ![p] = [i \in Items |-> @[i] + accepted[i]]]
    /\ purchase' = [purchase EXCEPT ![p] = StatusOf(p, received'[p])]
    /\ material' = [i \in Items |-> Inbound(material[i], accepted[i])]
    /\ UNCHANGED <<counted, torn, batch, trip, dish>>

-----------------------------------------------------------------------------
(* Counting a material: the balance is set to the count, then the movement   *)
(* is written.  A new row is estimated; the row of an existing balance keeps *)
(* its cost, so a count to zero, or up from zero, is refused by the CHECK.   *)

Counted(r, q, moved) ==
    [qty |-> q, cost |-> IF r.cost = "none" THEN "estimated" ELSE r.cost, inStep |-> moved]

\* The movement takes the next version after the last one, so that a torn
\* balance is in step again.
CountMaterial(i, q) ==
    /\ q # material[i].qty
    /\ Shaped(Counted(material[i], q, TRUE))
    /\ material' = [material EXCEPT ![i] = Counted(@, q, TRUE)]
    /\ counted' = [counted EXCEPT ![i] = @ + q - material[i].qty]
    /\ UNCHANGED <<orders, torn, batch, trip, dish>>

\* The process dies in between (once here).
CountMaterialCrash(i, q) ==
    /\ torn = {}
    /\ q # material[i].qty
    /\ Shaped(Counted(material[i], q, FALSE))
    /\ material' = [material EXCEPT ![i] = Counted(@, q, FALSE)]
    /\ torn' = torn \cup {i}
    /\ UNCHANGED <<orders, counted, batch, trip, dish>>

-----------------------------------------------------------------------------
(* Shopping at the market: POST .../purchasing/settle, one transaction that   *)
(* sets versions as a count does and makes every cost known.                 *)

Bought(r, q) == IF q = 0 THEN r ELSE [qty |-> r.qty + q, cost |-> "available", inStep |-> TRUE]

SettleTrip(t, brought, n) ==
    /\ ~trip[t].settled
    /\ n > 0 \/ \E i \in Items : brought[i] > 0
    /\ trip' = [trip EXCEPT ![t] = [settled |-> TRUE, brought |-> brought, portions |-> n]]
    /\ material' = [i \in Items |-> Bought(material[i], brought[i])]
    /\ product' = Bought(product, n)
    /\ shelf' = shelf + n
    /\ UNCHANGED <<orders, counted, torn, batch, sale, taken, correction>>

-----------------------------------------------------------------------------
(* Production: a batch is created, planned and started by one request, each   *)
(* step committed on its own, and completed in one transaction.              *)

Steps == <<"none", "draft", "planned", "in_progress">>
Reaches(from, to) ==
    \E m, n \in DOMAIN Steps : m < n /\ Steps[m] = from /\ Steps[n] = to

\* The request ends early: the completion is refused, or the process dies.
ProductionStops(b, s) ==
    /\ Reaches(batch[b].status, s)
    /\ batch' = [batch EXCEPT ![b].status = s]
    /\ UNCHANGED <<orders, materials, trip, dish>>

Issue(used) ==
    /\ \A i \in Items : MayIssue(material[i], used[i])
    /\ material' = [i \in Items |-> Outbound(material[i], used[i])]

\* A slip of the next action: a completed batch is completed again.
CompleteBatchAgain(b, k, used) ==
    /\ \A c \in Batches : batch[c].key = k => c = b
    /\ MayReceive(product, 1)
    /\ Issue(used)
    /\ product' = Inbound(product, 1)
    /\ batch' = [batch EXCEPT ![b] = [status |-> "completed", key |-> k, used |-> used]]

\* completeProductionBatch, with the steps before it that are still to be taken.
\* A posting that is known answers with its batch, or an error.
CompleteBatch(b, k, used) ==
    /\ batch[b].status # "completed"
    /\ \A c \in Batches : batch[c].key # k
    /\ MayReceive(product, 1)
    /\ Issue(used)
    /\ product' = Inbound(product, 1)
    /\ batch' = [batch EXCEPT ![b] = [status |-> "completed", key |-> k, used |-> used]]

\* POST /production-batches: what was used is said by the caller.
Produce(b, k, S) ==
    /\ S # {}
    /\ CompleteBatch(b, k, [i \in Items |-> IF i \in S THEN Needs[i] ELSE 0])
    /\ UNCHANGED <<orders, counted, torn, trip, shelf, sale, taken, correction>>

\* POST .../inventory/prepare: a new batch, all of the recipe, and afterwards the
\* shelf, in a transaction of its own, which the process may not live to see.
Prepare(b, k, shelved) ==
    /\ batch[b].status = "none"
    /\ CompleteBatch(b, k, Needs)
    /\ shelf' = IF shelved THEN shelf + 1 ELSE shelf
    /\ UNCHANGED <<orders, counted, torn, trip, sale, taken, correction>>

-----------------------------------------------------------------------------
(* Sales: deductStockForSettledOrder, asked by the acceptance and again by    *)
(* the settlement of an order.                                               *)

\* While there is no balance the shelf is the stock.
SellFromShelf(s) ==
    /\ product.cost = "none"
    /\ shelf >= 1
    /\ shelf' = shelf - 1
    /\ sale' = [sale EXCEPT ![s] = "shelf"]
    /\ taken' = [taken EXCEPT ![s] = @ + 1]
    /\ UNCHANGED <<orders, materials, batch, trip, product, correction>>

\* Else the balance is; the shelf is set to what is left of it.
SellFromBalance(s) ==
    /\ sale[s] # "balance"
    /\ MayIssue(product, 1)
    /\ product' = Outbound(product, 1)
    /\ shelf' = product'.qty
    /\ sale' = [sale EXCEPT ![s] = "balance"]
    /\ taken' = [taken EXCEPT ![s] = @ + 1]
    /\ UNCHANGED <<orders, materials, batch, trip, correction>>

\* A slip of the next action: each ledger knows only its own movements.
SellUnlessPosted(s) ==
    \/ sale[s] = "none" /\ SellFromShelf(s)
    \/ SellFromBalance(s)

Sell(s) ==
    /\ sale[s] # "shelf"
    /\ \/ SellFromShelf(s)
       \/ SellFromBalance(s)

-----------------------------------------------------------------------------
(* A manual correction of the dish by d portions, with a mutation id the      *)
(* client may repeat: the shelf and its movement are one transaction, then    *)
(* the balance is set to the shelf's stock, then its movement is written.     *)

\* recordMovement answers a known mutation with the stock of that time.
RecordMovement(c, d, s) ==
    LET known == correction[c].step # "none" IN
    /\ IF known THEN d = correction[c].by /\ shelf' = shelf
                ELSE shelf + d >= 0 /\ shelf' = shelf + d
    /\ correction' = [correction EXCEPT ![c] =
                        [step |-> s, by |-> d, current |-> IF known THEN @.current ELSE shelf + d]]

\* The balance is set to the stock on the shelf; the cost of a row is kept.
Matched(r, q, moved) ==
    [qty |-> q, cost |-> IF r.cost = "none" THEN "available" ELSE r.cost, inStep |-> moved]

\* The CHECK refuses the balance, or the process dies: the shelf stays corrected.
CorrectShelfOnly(c, d) ==
    /\ correction[c].step = "none"
    /\ RecordMovement(c, d, "shelf")
    /\ UNCHANGED <<orders, materials, batch, trip, product, sale, taken>>

\* The movement is refused, as its mutation id is taken, or the process dies.
CorrectBalanceOnly(c, d) ==
    /\ RecordMovement(c, d, IF correction[c].step = "posted" THEN "posted" ELSE "shelf")
    /\ Shaped(Matched(product, correction'[c].current, FALSE))
    /\ product' = Matched(product, correction'[c].current, FALSE)
    /\ UNCHANGED <<orders, materials, batch, trip, sale, taken>>

Correct(c, d) ==
    /\ correction[c].step # "posted"
    /\ RecordMovement(c, d, "posted")
    /\ Shaped(Matched(product, correction'[c].current, TRUE))
    /\ product' = Matched(product, correction'[c].current, TRUE)
    /\ UNCHANGED <<orders, materials, batch, trip, sale, taken>>

-----------------------------------------------------------------------------
Deliveries == [Items -> UNION {Parcels[i] \cup {0} : i \in Items}]

PurchaseStep ==
    \E p \in Purchases :
        \/ ApprovePurchaseOrder(p)
        \/ OrderPurchaseOrder(p)
        \/ \E k \in Postings, L \in SUBSET Items, accepted \in Deliveries :
              /\ \A i \in Items : accepted[i] \in Parcels[i] \cup {0}
              /\ PostGoodsReceipt(p, k, L, accepted)

CountStep ==
    \E i \in Items : \E q \in Found[i] :
        \/ CountMaterial(i, q)
        \/ CountMaterialCrash(i, q)

TripStep ==
    \E t \in Trips :
        \/ SettleTrip(t, [i \in Items |-> 0], 1)
        \/ \E S \in SUBSET Items : SettleTrip(t, [i \in Items |-> IF i \in S THEN Needs[i] ELSE 0], 0)

ProductionStep ==
    \E b \in Batches :
        \/ \E s \in {"draft", "planned", "in_progress"} : ProductionStops(b, s)
        \/ \E k \in Keys, S \in SUBSET Items : Produce(b, k, S)
        \/ \E k \in Keys, shelved \in BOOLEAN : Prepare(b, k, shelved)

CorrectionStep ==
    \E c \in Counts, d \in {-1, 1} :
        \/ CorrectShelfOnly(c, d)
        \/ CorrectBalanceOnly(c, d)
        \/ Correct(c, d)

Next ==
    \/ PurchaseStep
    \/ CountStep
    \/ TripStep
    \/ ProductionStep
    \/ \E s \in Sales : Sell(s)
    \/ CorrectionStep

Spec == Init /\ [][Next]_vars

-----------------------------------------------------------------------------
WithinTolerance ==
    \A p \in Purchases, i \in Items :
        received[p][i] * 10 <= Ordered[p][i] * (IF i \in Weighable THEN 11 ELSE 10)

StatusFitsReceipts ==
    \A p \in Purchases :
        LET full == \A i \in Items : received[p][i] >= Ordered[p][i]
            none == \A i \in Items : received[p][i] = 0
        IN  CASE purchase[p] = "received" -> full
              [] purchase[p] = "partial" -> ~full /\ ~none
              [] OTHER -> none

(* A posting is received once, however often it is sent; no line has received  *)
(* more than the tolerance on what was ordered allows, over any number of       *)
(* receipts; and the status of an order says what its lines have received.      *)
ReceiptsFitTheOrder ==
    /\ \A r, q \in receipts : r.posting = q.posting => r = q
    /\ WithinTolerance
    /\ StatusFitsReceipts

(* Sums over receipts, market purchases and batches. *)
Accepted(rs, i) == MapThenSumSet(LAMBDA r : r.accepted[i], rs)
Brought(trips, i) == MapThenSumSet(LAMBDA t : trips[t].brought[i], DOMAIN trips)
Portions(trips) == MapThenSumSet(LAMBDA t : trips[t].portions, DOMAIN trips)
UsedUp(batches, i) == MapThenSumSet(LAMBDA b : batches[b].used[i], DOMAIN batches)

LinesAreExplained ==
    \A p \in Purchases, i \in Items :
        received[p][i] = Accepted({r \in receipts : r.purchase = p}, i)

MaterialsAreExplained ==
    \A i \in Items \ torn :
        material[i].qty = Accepted(receipts, i) + Brought(trip, i) - UsedUp(batch, i) + counted[i]

Produced == {b \in Batches : batch[b].status = "completed"}
SoldFromBalance == {s \in Sales : sale[s] = "balance"}

DishIsExplained ==
    (\A c \in Counts : correction[c] = NoCorrection) =>
        product.qty = Cardinality(Produced) + Portions(trip) - Cardinality(SoldFromBalance)

(* Stock comes from somewhere: a line has received what receipts accepted, and *)
(* of a material there is what was accepted, bought and counted, less what      *)
(* completed batches used, unless a count of it was torn; of the dish, as long  *)
(* as nobody corrected it by hand, the balance has what was produced and        *)
(* bought, less what was sold from it.                                          *)
StockIsExplained == LinesAreExplained /\ MaterialsAreExplained /\ DishIsExplained

(* Acceptance and settlement both ask for the stock of one sale: it is taken   *)
(* once, from one ledger, though the balance may come into being in between.   *)
SoldOnce ==
    \A s \in Sales : taken[s] = IF sale[s] = "none" THEN 0 ELSE 1
=============================================================================
