------------------------- MODULE CashDelivery_proofs -------------------------
(***************************************************************************)
(* What CashDelivery promises for any orders, drivers, cashiers and shifts:  *)
(* a job is under way only with a driver who accepted it and reported the    *)
(* pickup, it goes with its order unless a manager waves that past it, cash  *)
(* is with someone and in one shift, and a closed shift stays as it was      *)
(* counted.  Road, custody and books are invariants of their own: they meet  *)
(* where a delivery or a settlement records who has the cash.                *)
(***************************************************************************)
EXTENDS CashDelivery, FiniteSetTheorems, TLAPS

\* Orders and their jobs.
road == <<status, job, carrier, waved>>

RoadInv ==
    /\ status \in [Orders -> {"pending"} \cup ConsumingStatuses]
    /\ job \in [Orders -> Job]
    /\ carrier \in [Orders -> Drivers \cup {NoAccount}]
    /\ OnTheRoadIsAccepted
    /\ JobFollowsOrder

\* Who has the cash of a delivery.  That a delivered job is never moved again, which
\* RoadInv knows, is what keeps a settled one with the cashier.
custody == <<job, cod, payment, early>>

DeliveredIsHeld ==
    \A o \in Orders : job[o].state = "delivered" => cod[o].custody # "nobody"

SettledIsHandedOver ==
    \A o \in Orders : payment[o] = "settlement" /\ o \notin early =>
                         job[o].state = "delivered" /\ cod[o].custody = "cashier"

CustodyInv ==
    /\ cod \in [Orders -> Cod]
    /\ DeliveredIsHeld
    /\ SettledIsHandedOver

\* Payments and shifts.  That a shift's expected cash is kept at its sales is
\* what makes the closed ones stay as they are counted.
books == <<payment, paidInto, shifts>>

SalesAreCounted ==
    \A i \in DOMAIN shifts : shifts[i].sales = Cardinality({o \in Orders : paidInto[o] = i})

ExpectedIsSales == \A i \in DOMAIN shifts : shifts[i].expected = shifts[i].sales

\* An order is settled into a shift once, with its payment.
PaidIsSettled == \A o \in Orders : paidInto[o] # 0 => payment[o] = "settlement"

BookInv ==
    /\ payment \in [Orders -> {"pending", "settlement"}]
    /\ paidInto \in [Orders -> 0..Len(shifts)]
    /\ shifts \in Seq(Shift)
    /\ SalesAreCounted
    /\ ExpectedIsSales
    /\ PaidIsSettled

IInv == RoadInv /\ CustodyInv /\ BookInv

-----------------------------------------------------------------------------
(* The road.                                                                 *)

(* An order that is out can only be completed, a completed one stays.        *)
LEMMA Moves ==
  ASSUME NEW from, NEW to \in ConsumingStatuses, CanMove("delivery", from, to)
  PROVE  /\ from # "completed"
         /\ from = "out_for_delivery" => to = "completed"
  BY DEF CanMove, OrderTransitions, EnvironmentTransitions, ConsumingStatuses

(* What leaves orders and jobs alone keeps what relates them.                *)
LEMMA RoadIsKept == RoadInv /\ UNCHANGED road => RoadInv'
  BY DEF RoadInv, road, OnTheRoadIsAccepted, JobFollowsOrder

(* An order that is ready has a job that has not left, and nobody waved it.  *)
LEMMA ReadyIsHere ==
  ASSUME RoadInv, NEW o \in Orders, status[o] = "ready"
  PROVE  o \notin waved /\ job[o].state \notin {"on_delivery", "delivered"}
  BY DEF RoadInv, JobFollowsOrder

(* The status moves, the job stays; a manager who moves it out waves it.     *)
LEMMA MoveKeepsRoad ==
  ASSUME RoadInv, NEW o \in Orders, NEW to \in ConsumingStatuses, MoveOrder(o, to)
  PROVE  RoadInv'
<1>1. status[o] # "completed" /\ (status[o] = "out_for_delivery" => to = "completed")
  BY Moves DEF MoveOrder
<1>2. \A p \in Orders : status'[p] = IF p = o THEN to ELSE status[p]
  BY DEF MoveOrder, RoadInv
<1>3. UNCHANGED <<job, carrier>>
  BY DEF MoveOrder
<1>4. CASE to \in {"out_for_delivery", "completed"}
  <2>1. waved' = waved \cup {o}
    BY <1>4 DEF MoveOrder
  <2>2. job[o].state # "delivered" /\ (job[o].state = "on_delivery" => to = "completed")
    BY <1>1, <1>4 DEF RoadInv, JobFollowsOrder
  <2>3. JobFollowsOrder'
    BY <1>2, <1>3, <1>4, <2>1, <2>2 DEF RoadInv, JobFollowsOrder
  <2> QED
    BY <1>3, <2>3 DEF RoadInv, MoveOrder, OnTheRoadIsAccepted
<1>5. CASE to \notin {"out_for_delivery", "completed"}
  <2>1. waved' = waved
    BY <1>5 DEF MoveOrder
  <2>2. status[o] \notin {"out_for_delivery", "completed"}
    BY <1>1, <1>5
  <2>3. JobFollowsOrder'
    BY <1>2, <1>3, <1>5, <2>1, <2>2 DEF RoadInv, JobFollowsOrder
  <2> QED
    BY <1>3, <2>3 DEF RoadInv, MoveOrder, OnTheRoadIsAccepted
<1> QED
  BY <1>4, <1>5

(* The job moves, and no manager: what the invariant asks of the new row.    *)
LEMMA JobKeepsRoad ==
  ASSUME RoadInv, NEW o \in Orders, NEW row \in Job, NEW c \in Drivers \cup {NoAccount},
         NEW st \in {"pending"} \cup ConsumingStatuses,
         job' = [job EXCEPT ![o] = row],
         status' = [status EXCEPT ![o] = st],
         carrier' = [carrier EXCEPT ![o] = c],
         waved' = waved, o \notin waved,
         row.state \in {"picked_up", "on_delivery", "delivered"} =>
            row.driver \in Drivers /\ row.response = "accepted" /\ c = row.driver,
         row.state = "on_delivery" <=> st = "out_for_delivery",
         row.state = "delivered" <=> st = "completed"
  PROVE  RoadInv'
<1>1. /\ status' \in [Orders -> {"pending"} \cup ConsumingStatuses]
      /\ job' \in [Orders -> Job]
      /\ carrier' \in [Orders -> Drivers \cup {NoAccount}]
  BY DEF RoadInv
<1>2. /\ job'[o] = row /\ status'[o] = st /\ carrier'[o] = c
      /\ \A p \in Orders \ {o} :
            job'[p] = job[p] /\ status'[p] = status[p] /\ carrier'[p] = carrier[p]
  BY DEF RoadInv
<1>3. OnTheRoadIsAccepted'
  BY <1>2 DEF RoadInv, OnTheRoadIsAccepted
<1>4. JobFollowsOrder'
  BY <1>2 DEF RoadInv, JobFollowsOrder
<1> QED
  BY <1>1, <1>3, <1>4 DEF RoadInv

(* At the branch: the order is ready and stays so, and so does the carrier.  *)
LEMMA JobAtTheBranch ==
  ASSUME RoadInv, NEW o \in Orders, NEW row \in Job, status[o] = "ready",
         row.state \in {"unassigned", "assigned"},
         job' = [job EXCEPT ![o] = row], UNCHANGED <<status, carrier, waved>>
  PROVE  RoadInv'
<1>1. o \notin waved
  BY ReadyIsHere
<1>2. /\ status' = [status EXCEPT ![o] = "ready"]
      /\ carrier' = [carrier EXCEPT ![o] = carrier[o]]
      /\ carrier[o] \in Drivers \cup {NoAccount}
  BY DEF RoadInv
<1> QED
  BY <1>1, <1>2, JobKeepsRoad DEF ConsumingStatuses

(* A new assignment asks the driver again; the food is where it was.         *)
LEMMA AssignKeepsRoad ==
  ASSUME RoadInv, NEW o \in Orders, NEW d \in Drivers \cup {NoAccount}, Assign(o, d)
  PROVE  RoadInv'
<1> DEFINE row == [state |-> "assigned", driver |-> d, response |-> "pending"]
<1>1. row \in Job /\ row.state = "assigned"
  BY DEF Job, JobStates
<1>2. job' = [job EXCEPT ![o] = row] /\ UNCHANGED <<status, carrier, waved>> /\ status[o] = "ready"
  BY DEF Assign
<1> HIDE DEF row
<1> QED
  BY <1>1, <1>2, JobAtTheBranch

(* Every answer and every step of a driver.                                  *)
LEMMA DriverKeepsRoad ==
  ASSUME RoadInv, NEW o \in Orders, NEW d \in Drivers, DriverStep(o, d)
  PROVE  RoadInv'
<1>1. job[o] \in Job /\ job[o].driver \in Drivers \cup {NoAccount}
  BY DEF RoadInv, Job
<1>2. CASE AcceptJob(o, d)
  <2> DEFINE row == [job[o] EXCEPT !.response = "accepted"]
  <2>1. row \in Job /\ row.state = "assigned"
    BY <1>1, <1>2 DEF Job, AcceptJob, MayRespond
  <2>2. job' = [job EXCEPT ![o] = row] /\ UNCHANGED <<status, carrier, waved>> /\ status[o] = "ready"
    BY <1>2 DEF AcceptJob, MayRespond, RoadInv
  <2> HIDE DEF row
  <2> QED
    BY <2>1, <2>2, JobAtTheBranch
<1>3. CASE RejectJob(o, d)
  <2> DEFINE row == [state |-> "unassigned", driver |-> NoAccount, response |-> "rejected"]
  <2>1. row \in Job /\ row.state = "unassigned"
    BY DEF Job, JobStates
  <2>2. job' = [job EXCEPT ![o] = row] /\ UNCHANGED <<status, carrier, waved>> /\ status[o] = "ready"
    BY <1>3 DEF RejectJob, MayRespond
  <2> HIDE DEF row
  <2> QED
    BY <2>1, <2>2, JobAtTheBranch
<1>4. CASE PickUp(o, d)
  <2> DEFINE row == [job[o] EXCEPT !.state = "picked_up"]
  <2>1. row \in Job /\ row.state = "picked_up" /\ row.driver = d /\ row.response = "accepted"
    BY <1>1, <1>4 DEF Job, JobStates, PickUp, MayDrive
  <2>2. job' = [job EXCEPT ![o] = row]
    BY <1>4 DEF PickUp, RoadInv
  <2>3. /\ status' = [status EXCEPT ![o] = "ready"]
        /\ carrier' = [carrier EXCEPT ![o] = d]
        /\ waved' = waved /\ o \notin waved
    BY <1>4, ReadyIsHere DEF PickUp, RoadInv
  <2> HIDE DEF row
  <2> QED
    BY <2>1, <2>2, <2>3, JobKeepsRoad DEF ConsumingStatuses
<1>5. CASE Start(o, d)
  <2> DEFINE row == [job[o] EXCEPT !.state = "on_delivery"]
  <2>1. row \in Job /\ row.state = "on_delivery" /\ row.driver = d /\ row.response = "accepted"
    BY <1>1, <1>5 DEF Job, JobStates, Start, MayDrive
  <2>2. job' = [job EXCEPT ![o] = row]
    BY <1>5 DEF Start, RoadInv
  <2>3. carrier[o] = d
    BY <1>5 DEF Start, MayDrive, RoadInv, OnTheRoadIsAccepted
  <2>4. /\ status' = [status EXCEPT ![o] = "out_for_delivery"]
        /\ carrier' = [carrier EXCEPT ![o] = d]
        /\ waved' = waved /\ o \notin waved
    BY <1>5, <2>3, ReadyIsHere DEF Start, RoadInv
  <2> HIDE DEF row
  <2> QED
    BY <2>1, <2>2, <2>4, JobKeepsRoad DEF ConsumingStatuses
<1>6. CASE Complete(o, d)
  <2> DEFINE row == [job[o] EXCEPT !.state = "delivered"]
  <2>1. row \in Job /\ row.state = "delivered" /\ row.driver = d /\ row.response = "accepted"
    BY <1>1, <1>6 DEF Job, JobStates, Complete, MayDrive
  <2>2. job' = [job EXCEPT ![o] = row]
    BY <1>6 DEF Complete, RoadInv
  <2>3. carrier[o] = d /\ o \notin waved
    BY <1>6 DEF Complete, MayDrive, RoadInv, OnTheRoadIsAccepted, JobFollowsOrder
  <2>4. /\ status' = [status EXCEPT ![o] = "completed"]
        /\ carrier' = [carrier EXCEPT ![o] = d]
        /\ waved' = waved
    BY <1>6, <2>3 DEF Complete, RoadInv
  <2> HIDE DEF row
  <2> QED
    BY <2>1, <2>2, <2>3, <2>4, JobKeepsRoad DEF ConsumingStatuses
<1> QED
  BY <1>2, <1>3, <1>4, <1>5, <1>6 DEF DriverStep

-----------------------------------------------------------------------------
(* The cash of a delivery.                                                   *)

(* What leaves job, cash and payment alone keeps what relates them.          *)
LEMMA CustodyIsKept == CustodyInv /\ UNCHANGED custody => CustodyInv'
  BY DEF CustodyInv, custody, DeliveredIsHeld, SettledIsHandedOver

(* A job that is not delivered, before the step or after it, owes no cash.   *)
LEMMA JobKeepsCustody ==
  ASSUME CustodyInv, RoadInv, NEW o \in Orders, NEW row,
         job' = [job EXCEPT ![o] = row], row.state # "delivered", job[o].state # "delivered",
         UNCHANGED <<cod, payment, early>>
  PROVE  CustodyInv'
<1>1. job'[o] = row /\ \A p \in Orders \ {o} : job'[p] = job[p]
  BY DEF RoadInv
<1>2. DeliveredIsHeld' /\ SettledIsHandedOver'
  BY <1>1 DEF CustodyInv, DeliveredIsHeld, SettledIsHandedOver
<1> QED
  BY <1>2 DEF CustodyInv

(* A new assignment, and the answers and steps of a driver.                  *)
LEMMA AssignKeepsCustody ==
  ASSUME CustodyInv, RoadInv, NEW o \in Orders, NEW d \in Drivers \cup {NoAccount}, Assign(o, d)
  PROVE  CustodyInv'
<1> DEFINE row == [state |-> "assigned", driver |-> d, response |-> "pending"]
<1>1. job' = [job EXCEPT ![o] = row] /\ UNCHANGED <<cod, payment, early>>
  BY DEF Assign
<1>2. job[o].state # "delivered"
  BY ReadyIsHere DEF Assign
<1>3. row.state = "assigned"
  OBVIOUS
<1> HIDE DEF row
<1> QED
  BY <1>1, <1>2, <1>3, JobKeepsCustody

LEMMA DriverKeepsCustody ==
  ASSUME CustodyInv, RoadInv, NEW o \in Orders, NEW d \in Drivers, DriverStep(o, d)
  PROVE  CustodyInv'
<1>1. job[o] \in Job /\ job \in [Orders -> Job]
  BY DEF RoadInv
<1>2. CASE AcceptJob(o, d) \/ RejectJob(o, d) \/ PickUp(o, d) \/ Start(o, d)
  <2>1. status[o] = "ready" /\ UNCHANGED <<cod, payment, early>>
    BY <1>2 DEF AcceptJob, RejectJob, MayRespond, PickUp, Start
  <2>2. /\ job' = [job EXCEPT ![o] = job'[o]]
        /\ job'[o].state \in {"unassigned", "assigned", "picked_up", "on_delivery"}
    BY <1>1, <1>2 DEF AcceptJob, RejectJob, MayRespond, PickUp, Start, Job
  <2>3. job[o].state # "delivered"
    BY <2>1, ReadyIsHere
  <2> QED
    BY <2>1, <2>2, <2>3, JobKeepsCustody
<1>3. CASE Complete(o, d)
  <2>1. /\ \A p \in Orders \ {o} : job'[p] = job[p] /\ cod'[p] = cod[p]
        /\ job[o].state = "on_delivery"
        /\ UNCHANGED <<payment, early>>
    BY <1>1, <1>3 DEF Complete, CustodyInv
  <2>2. cod' \in [Orders -> Cod] /\ cod'[o].custody = "driver"
    BY <1>3 DEF Complete, CustodyInv, Cod
  <2>3. payment[o] = "settlement" => o \in early
    BY <2>1 DEF CustodyInv, SettledIsHandedOver
  <2>4. DeliveredIsHeld'
    BY <2>1, <2>2 DEF CustodyInv, DeliveredIsHeld
  <2>5. SettledIsHandedOver'
    BY <2>1, <2>3 DEF CustodyInv, SettledIsHandedOver
  <2> QED
    BY <2>2, <2>4, <2>5 DEF CustodyInv
<1> QED
  BY <1>2, <1>3 DEF DriverStep

(* Handover and settlement write the cash to the cashier: never to nobody.   *)
LEMMA HandoverKeepsCustody ==
  ASSUME CustodyInv, payment \in [Orders -> {"pending", "settlement"}],
         NEW o \in Orders, NEW p \in Receivers, RecordHandover(o, p), UNCHANGED job,
         \/ UNCHANGED <<payment, early>>
         \/ payment' = [payment EXCEPT ![o] = "settlement"] /\ NoteEarly(o)
  PROVE  CustodyInv'
<1>1. cod' \in [Orders -> Cod]
  BY DEF CustodyInv, RecordHandover, Cod
<1>2. cod'[o].custody = "cashier" /\ \A q \in Orders \ {o} : cod'[q] = cod[q]
  BY DEF CustodyInv, RecordHandover
<1>3. DeliveredIsHeld'
  BY <1>2 DEF CustodyInv, DeliveredIsHeld
<1>4. \A q \in Orders \ {o} : payment'[q] = payment[q] /\ (q \in early' <=> q \in early)
  BY DEF NoteEarly
<1>5. o \in early' \/ (payment'[o] = "settlement" => job[o].state = "delivered")
  BY DEF CustodyInv, SettledIsHandedOver, NoteEarly
<1>6. SettledIsHandedOver'
  BY <1>2, <1>4, <1>5 DEF CustodyInv, SettledIsHandedOver
<1> QED
  BY <1>1, <1>3, <1>6 DEF CustodyInv

-----------------------------------------------------------------------------
(* The books.                                                                *)

(* What leaves payment and shifts alone keeps the books.                     *)
LEMMA BooksAreKept == BookInv /\ UNCHANGED books => BookInv'
  BY DEF BookInv, books, SalesAreCounted, ExpectedIsSales, PaidIsSettled

(* One shift's row is replaced.                                              *)
LEMMA ReplacedShift ==
  ASSUME shifts \in Seq(Shift), NEW i \in DOMAIN shifts, NEW row \in Shift,
         shifts' = [shifts EXCEPT ![i] = row]
  PROVE  shifts' \in Seq(Shift) /\ Len(shifts') = Len(shifts) /\ DOMAIN shifts' = DOMAIN shifts
  OBVIOUS

(* A sale is added to a shift's row.                                         *)
LEMMA OneMoreSale ==
  ASSUME NEW row \in Shift
  PROVE  LET more == [row EXCEPT !.sales = @ + 1, !.expected = @ + 1] IN
         more \in Shift /\ more.sales = row.sales + 1 /\ more.expected = row.expected + 1
<1>1. row = [cashier |-> row.cashier, open |-> row.open, sales |-> row.sales, expected |-> row.expected]
  BY DEF Shift
<1>2. row.sales + 1 \in Nat /\ row.expected + 1 \in Nat
  BY DEF Shift
<1> QED
  BY <1>1, <1>2 DEF Shift

(* A new shift has sold nothing, and nothing is settled into it yet.         *)
LEMMA OpenShiftKeepsBooks ==
  ASSUME BookInv, NEW c \in Cashiers, OpenShift(c)
  PROVE  BookInv'
<1> DEFINE new == [cashier |-> c, open |-> TRUE, sales |-> 0, expected |-> 0]
<1>1. new \in Shift /\ shifts' = Append(shifts, new) /\ UNCHANGED <<payment, paidInto>>
  BY DEF OpenShift, Shift
<1>2. /\ shifts' \in Seq(Shift) /\ Len(shifts') = Len(shifts) + 1 /\ Len(shifts) \in Nat
      /\ \A i \in DOMAIN shifts : shifts'[i] = shifts[i]
      /\ shifts'[Len(shifts) + 1] = new
      /\ DOMAIN shifts' = DOMAIN shifts \cup {Len(shifts) + 1}
  BY <1>1 DEF BookInv
<1>3. {o \in Orders : paidInto'[o] = Len(shifts) + 1} = {}
  BY <1>1, <1>2 DEF BookInv
<1>4. SalesAreCounted'
  <2> SUFFICES ASSUME NEW i \in DOMAIN shifts'
               PROVE  shifts'[i].sales = Cardinality({o \in Orders : paidInto'[o] = i})
    BY DEF SalesAreCounted
  <2>1. CASE i \in DOMAIN shifts
    BY <1>1, <1>2, <2>1 DEF BookInv, SalesAreCounted
  <2>2. CASE i = Len(shifts) + 1
    <3>1. shifts'[i].sales = 0
      BY <1>2, <2>2
    <3>2. Cardinality({o \in Orders : paidInto'[o] = i}) = 0
      BY <1>3, <2>2, FS_EmptySet
    <3> QED
      BY <3>1, <3>2
  <2> QED
    BY <1>2, <2>1, <2>2
<1>5. ExpectedIsSales'
  BY <1>1, <1>2 DEF BookInv, ExpectedIsSales
<1>6. paidInto' \in [Orders -> 0..Len(shifts')]
  BY <1>1, <1>2 DEF BookInv
<1> QED
  BY <1>1, <1>2, <1>4, <1>5, <1>6 DEF BookInv, PaidIsSettled

(* A shift closes with its sales as what it expects.                         *)
LEMMA CloseShiftKeepsBooks ==
  ASSUME BookInv, NEW i \in DOMAIN shifts, CloseShift(i)
  PROVE  BookInv'
<1>1. shifts[i] \in Shift
  BY DEF BookInv
<1>2. /\ shifts' = [shifts EXCEPT ![i].open = FALSE, ![i].expected = shifts[i].sales]
      /\ UNCHANGED <<payment, paidInto>>
  BY DEF CloseShift
<1> DEFINE closed == [shifts[i] EXCEPT !.open = FALSE, !.expected = shifts[i].sales]
<1>3. closed \in Shift /\ closed.sales = shifts[i].sales /\ closed.expected = shifts[i].sales
  BY <1>1 DEF Shift
<1>4. shifts' = [shifts EXCEPT ![i] = closed]
  BY <1>2 DEF BookInv
<1> HIDE DEF closed
<1>5. shifts' \in Seq(Shift) /\ Len(shifts') = Len(shifts) /\ DOMAIN shifts' = DOMAIN shifts
  BY <1>3, <1>4, ReplacedShift DEF BookInv
<1>6. \A j \in DOMAIN shifts : shifts'[j] = IF j = i THEN closed ELSE shifts[j]
  BY <1>4
<1>7. \A j \in DOMAIN shifts : shifts'[j].sales = shifts[j].sales
  BY <1>3, <1>6
<1>8. SalesAreCounted'
  <2>1. paidInto' = paidInto
    BY <1>2
  <2> SUFFICES \A j \in DOMAIN shifts : shifts'[j].sales = Cardinality({o \in Orders : paidInto[o] = j})
    BY <1>5, <2>1 DEF SalesAreCounted
  <2> QED
    BY <1>7 DEF BookInv, SalesAreCounted
<1>9. ExpectedIsSales'
  BY <1>3, <1>5, <1>6 DEF BookInv, ExpectedIsSales
<1> QED
  BY <1>2, <1>5, <1>8, <1>9 DEF BookInv, PaidIsSettled

(* A settlement into shift i: the order was in none before.                  *)
LEMMA SettleCashKeepsBooks ==
  ASSUME BookInv, NEW o \in Orders, NEW c \in Cashiers, SettleCash(o, c)
  PROVE  BookInv'
<1>1. PICK i \in OpenShifts(c) :
        /\ shifts' = [shifts EXCEPT ![i].sales = @ + 1, ![i].expected = @ + 1]
        /\ paidInto' = [paidInto EXCEPT ![o] = i]
  BY DEF SettleCash
<1>2. i \in DOMAIN shifts /\ i \in 1..Len(shifts) /\ shifts[i] \in Shift
  BY <1>1 DEF OpenShifts, BookInv
<1>3. payment[o] = "pending" /\ payment' = [payment EXCEPT ![o] = "settlement"]
  BY DEF SettleCash, SettlePayment
<1>4. paidInto[o] = 0
  BY <1>3 DEF BookInv, PaidIsSettled
<1>5. /\ shifts' \in Seq(Shift) /\ Len(shifts') = Len(shifts) /\ DOMAIN shifts' = DOMAIN shifts
      /\ \A j \in DOMAIN shifts : shifts'[j].sales = IF j = i THEN shifts[j].sales + 1 ELSE shifts[j].sales
      /\ \A j \in DOMAIN shifts : shifts'[j].expected = IF j = i THEN shifts[j].expected + 1 ELSE shifts[j].expected
  <2> DEFINE more == [shifts[i] EXCEPT !.sales = @ + 1, !.expected = @ + 1]
  <2>1. more \in Shift /\ more.sales = shifts[i].sales + 1 /\ more.expected = shifts[i].expected + 1
    BY <1>2, OneMoreSale
  <2>2. shifts' = [shifts EXCEPT ![i] = more]
    BY <1>1 DEF BookInv
  <2> HIDE DEF more
  <2>3. shifts' \in Seq(Shift) /\ Len(shifts') = Len(shifts) /\ DOMAIN shifts' = DOMAIN shifts
    BY <1>2, <2>1, <2>2, ReplacedShift DEF BookInv
  <2>4. \A j \in DOMAIN shifts : shifts'[j] = IF j = i THEN more ELSE shifts[j]
    BY <2>2
  <2> QED
    BY <2>1, <2>3, <2>4
<1>6. /\ payment' \in [Orders -> {"pending", "settlement"}]
      /\ paidInto' \in [Orders -> 0..Len(shifts')]
  BY <1>1, <1>2, <1>3, <1>5 DEF BookInv
<1>7. ASSUME NEW j \in DOMAIN shifts
      PROVE  shifts'[j].sales = Cardinality({p \in Orders : paidInto'[p] = j})
  <2> DEFINE into == {p \in Orders : paidInto[p] = j}
  <2>1. shifts[j].sales = Cardinality(into) /\ j # 0
    BY <1>7 DEF BookInv, SalesAreCounted
  <2>2. CASE j = i
    <3>1. {p \in Orders : paidInto'[p] = j} = into \cup {o} /\ o \notin into
      BY <1>1, <1>4, <2>1, <2>2 DEF BookInv
    <3>2. IsFiniteSet(into)
      BY FiniteOrders, FS_Subset
    <3>3. Cardinality(into \cup {o}) = Cardinality(into) + 1
      BY <3>1, <3>2, FS_AddElement
    <3> QED
      BY <1>5, <1>7, <2>1, <2>2, <3>1, <3>3
  <2>3. CASE j # i
    <3>1. {p \in Orders : paidInto'[p] = j} = into
      BY <1>1, <1>4, <2>1, <2>3 DEF BookInv
    <3> QED
      BY <1>5, <1>7, <2>1, <2>3, <3>1
  <2> QED
    BY <2>2, <2>3
<1>8. SalesAreCounted' /\ ExpectedIsSales'
  BY <1>5, <1>7 DEF BookInv, SalesAreCounted, ExpectedIsSales
<1>9. PaidIsSettled'
  BY <1>1, <1>3 DEF BookInv, PaidIsSettled
<1> QED
  BY <1>5, <1>6, <1>8, <1>9 DEF BookInv

(* A manager settles into no shift.                                          *)
LEMMA SettleByManagerKeepsBooks ==
  ASSUME BookInv, NEW o \in Orders, SettleByManager(o)
  PROVE  BookInv'
  BY DEF SettleByManager, SettlePayment, BookInv, SalesAreCounted, ExpectedIsSales, PaidIsSettled

-----------------------------------------------------------------------------
(* Every step keeps the invariant, part by part.                             *)
LEMMA NextKeepsIInv == IInv /\ [Next]_vars => IInv'
<1> SUFFICES ASSUME IInv, [Next]_vars PROVE IInv'
  OBVIOUS
<1> USE DEF IInv
<1>1. ASSUME NEW o \in Orders, NEW to \in ConsumingStatuses, MoveOrder(o, to) PROVE IInv'
  BY <1>1, MoveKeepsRoad, CustodyIsKept, BooksAreKept DEF MoveOrder, custody, books
<1>2. ASSUME NEW o \in Orders, NEW d \in Drivers \cup {NoAccount}, Assign(o, d) PROVE IInv'
  BY <1>2, AssignKeepsRoad, AssignKeepsCustody, BooksAreKept DEF Assign, books
<1>3. ASSUME NEW o \in Orders, NEW d \in Drivers, DriverStep(o, d) PROVE IInv'
  BY <1>3, DriverKeepsRoad, DriverKeepsCustody, BooksAreKept
  DEF DriverStep, AcceptJob, RejectJob, PickUp, Start, Complete, books
<1>4. ASSUME NEW o \in Orders, NEW c \in Cashiers, Handover(o, c) PROVE IInv'
  BY <1>4, RoadIsKept, HandoverKeepsCustody, BooksAreKept DEF BookInv, Handover, Receivers, road, books
<1>5. ASSUME NEW o \in Orders, NEW c \in Cashiers, SettleCash(o, c) PROVE IInv'
  BY <1>5, RoadIsKept, HandoverKeepsCustody, SettleCashKeepsBooks
  DEF BookInv, SettleCash, SettlePayment, Receivers, road
<1>6. ASSUME NEW o \in Orders, SettleByManager(o) PROVE IInv'
  BY <1>6, RoadIsKept, HandoverKeepsCustody, SettleByManagerKeepsBooks
  DEF BookInv, SettleByManager, SettlePayment, Receivers, road
<1>7. ASSUME NEW c \in Cashiers, OpenShift(c) PROVE IInv'
  BY <1>7, OpenShiftKeepsBooks, RoadIsKept, CustodyIsKept DEF OpenShift, road, custody
<1>8. ASSUME NEW i \in DOMAIN shifts, CloseShift(i) PROVE IInv'
  BY <1>8, CloseShiftKeepsBooks, RoadIsKept, CustodyIsKept DEF CloseShift, road, custody
<1>9. CASE UNCHANGED vars
  BY <1>9, BooksAreKept, RoadIsKept, CustodyIsKept DEF vars, books, road, custody
<1> QED
  BY <1>1, <1>2, <1>3, <1>4, <1>5, <1>6, <1>7, <1>8, <1>9 DEF Next

(* No orders on the road, no shifts.                                         *)
LEMMA InitIsFine == Init => IInv
<1> SUFFICES ASSUME Init PROVE IInv
  OBVIOUS
<1>1. RoadInv /\ CustodyInv
  BY DEF Init, RoadInv, CustodyInv, Job, JobStates, Cod, OnTheRoadIsAccepted, JobFollowsOrder,
         DeliveredIsHeld, SettledIsHandedOver
<1>2. shifts = <<>> /\ DOMAIN shifts = {} /\ Len(shifts) = 0
  BY DEF Init
<1>3. BookInv
  BY <1>2 DEF Init, BookInv, SalesAreCounted, ExpectedIsSales, PaidIsSettled
<1> QED
  BY <1>1, <1>3 DEF IInv

(* Every state of the specification satisfies the invariant.                 *)
LEMMA Invariance == Spec => []IInv
  BY InitIsFine, NextKeepsIInv, PTL DEF Spec

-----------------------------------------------------------------------------
(* A job is under way, or done, only in the name of a driver account that    *)
(* accepted it after it was last assigned and reported the pickup itself.    *)
THEOREM JobsOnTheRoadAreAccepted == Spec => []OnTheRoadIsAccepted
<1>1. IInv => OnTheRoadIsAccepted
  BY DEF IInv, RoadInv
<1> QED
  BY <1>1, Invariance, PTL

(* Order and job go out and arrive together, unless a manager waved the      *)
(* order past its job, which is then never reported delivered.               *)
THEOREM JobsFollowOrders == Spec => []JobFollowsOrder
<1>1. IInv => JobFollowsOrder
  BY DEF IInv, RoadInv
<1> QED
  BY <1>1, Invariance, PTL

(* The customer's cash is with someone once the job is delivered, with the   *)
(* cashier once it is settled unless that came before the delivery, and the  *)
(* sales of every shift are the orders settled into it.                      *)
THEOREM CashIsWithSomeone == Spec => []CashIsAccounted
<1>1. IInv => CashIsAccounted
  BY DEF IInv, CustodyInv, BookInv, CashIsAccounted, DeliveredIsHeld, SettledIsHandedOver, SalesAreCounted
<1> QED
  BY <1>1, Invariance, PTL

(* What a step may do to the shifts that exist.                              *)
LEMMA StepFreezes ==
  ASSUME IInv, [Next]_vars, NEW i \in DOMAIN shifts
  PROVE  /\ i \in DOMAIN shifts'
         /\ ~shifts[i].open => shifts'[i] = shifts[i]
<1>0. shifts \in Seq(Shift)
  BY DEF IInv, BookInv
<1>1. CASE UNCHANGED shifts
  BY <1>1
<1>2. ASSUME NEW c \in Cashiers, OpenShift(c) PROVE i \in DOMAIN shifts' /\ shifts'[i] = shifts[i]
  <2>1. shifts' = Append(shifts, [cashier |-> c, open |-> TRUE, sales |-> 0, expected |-> 0])
    BY <1>2 DEF OpenShift
  <2> QED
    BY <1>0, <2>1
<1>3. ASSUME NEW j \in DOMAIN shifts, shifts[j].open,
             NEW new, shifts' = [shifts EXCEPT ![j] = new]
      PROVE  i \in DOMAIN shifts' /\ (~shifts[i].open => shifts'[i] = shifts[i])
  BY <1>3
<1>4. ASSUME NEW j \in DOMAIN shifts, CloseShift(j)
      PROVE  i \in DOMAIN shifts' /\ (~shifts[i].open => shifts'[i] = shifts[i])
  BY <1>4 DEF CloseShift
<1>5. ASSUME NEW o \in Orders, NEW c \in Cashiers, SettleCash(o, c)
      PROVE  i \in DOMAIN shifts' /\ (~shifts[i].open => shifts'[i] = shifts[i])
  BY <1>5 DEF SettleCash, OpenShifts
<1> QED
  BY <1>1, <1>2, <1>4, <1>5
  DEF Next, vars, MoveOrder, Assign, DriverStep, AcceptJob, RejectJob, PickUp, Start, Complete,
      Handover, SettleByManager

(* A closed shift stays as it was counted, and the expected cash of an open  *)
(* one is kept at its sales.                                                 *)
THEOREM ClosedShiftsAreFrozen == Spec => ClosedShiftIsFrozen
<1>1. IInv /\ IInv' /\ [Next]_vars =>
        [\A i \in DOMAIN shifts :
            /\ ~shifts[i].open => shifts'[i] = shifts[i]
            /\ shifts'[i].expected = shifts'[i].sales]_vars
  <2> SUFFICES ASSUME IInv, IInv', [Next]_vars, NEW i \in DOMAIN shifts
               PROVE  /\ ~shifts[i].open => shifts'[i] = shifts[i]
                      /\ shifts'[i].expected = shifts'[i].sales
    OBVIOUS
  <2>1. i \in DOMAIN shifts' /\ (~shifts[i].open => shifts'[i] = shifts[i])
    BY StepFreezes
  <2>2. shifts'[i].expected = shifts'[i].sales
    BY <2>1 DEF IInv, BookInv, ExpectedIsSales
  <2> QED
    BY <2>1, <2>2
<1> QED
  BY <1>1, Invariance, PTL DEF Spec, ClosedShiftIsFrozen
=============================================================================
