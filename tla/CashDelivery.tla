---------------------------- MODULE CashDelivery ----------------------------
(***************************************************************************)
(* Delivery orders paid in cash at the door: the order, its delivery job,    *)
(* the cash the driver collects, the cashier's shift and the payment are     *)
(* five separate records, moved by the kitchen, the branch manager, the      *)
(* drivers and the cashiers, each through an endpoint of its own.            *)
(*                                                                         *)
(* Every order is worth one unit of cash.  Acceptance and stock are the      *)
(* matter of OrderPayment.                                                   *)
(***************************************************************************)
EXTENDS Naturals, Sequences, FiniteSets, OrderContract

CONSTANTS
    Orders,
    Drivers,      \* driver accounts of the branch
    NoAccount,    \* no driver account: none, or a driver known by phone only
    Cashiers,
    Manager,      \* branch manager, brand manager or owner
    MaxShifts     \* bound on the shifts opened

ASSUME DistinctPeople == NoAccount \notin Drivers /\ Manager \notin Cashiers
ASSUME FiniteOrders == IsFiniteSet(Orders) /\ MaxShifts \in Nat

VARIABLES
    status,    \* orders.status
    job,       \* order_deliveries: status, driver_id, driver_assignment_status
    cod,       \* order_deliveries: cod_collection_status, cod_cash_custody,
               \*   cod_handed_over_to
    payment,   \* order_payments.payment_status
    paidInto,  \* pos_shifts.id in the payment's raw record, 0 for no shift
    shifts,    \* pos_shifts, in the order of opening
    carrier,   \* history: the driver who last reported picking the order up
    waved,     \* history: orders a manager moved out or to completed
    early      \* history: orders settled before their delivery was reported

vars == <<status, job, cod, payment, paidInto, shifts, carrier, waved, early>>

JobStates == {"unassigned", "assigned", "picked_up", "on_delivery", "delivered"}

Receivers == Cashiers \cup {Manager}

Job == [state : JobStates, driver : Drivers \cup {NoAccount},
        response : {"pending", "accepted", "rejected"}]

Cod == [collection : {"pending", "collected", "handed_over"},
        custody : {"nobody", "driver", "cashier"},
        receiver : Receivers \cup {"nobody"}]

Shift == [cashier : Cashiers, open : BOOLEAN, sales : Nat, expected : Nat]

TypeOK ==
    /\ status \in [Orders -> {"pending"} \cup ConsumingStatuses]
    /\ job \in [Orders -> Job]
    /\ cod \in [Orders -> Cod]
    /\ payment \in [Orders -> {"pending", "settlement"}]
    /\ paidInto \in [Orders -> 0..Len(shifts)]
    /\ shifts \in Seq(Shift)
    /\ carrier \in [Orders -> Drivers \cup {NoAccount}]
    /\ waved \subseteq Orders
    /\ early \subseteq Orders

Init ==
    /\ status = [o \in Orders |-> "pending"]
    /\ job = [o \in Orders |-> [state |-> "unassigned", driver |-> NoAccount,
                                response |-> "pending"]]
    /\ cod = [o \in Orders |-> [collection |-> "pending", custody |-> "nobody",
                                receiver |-> "nobody"]]
    /\ payment = [o \in Orders |-> "pending"]
    /\ paidInto = [o \in Orders |-> 0]
    /\ shifts = <<>>
    /\ carrier = [o \in Orders |-> NoAccount]
    /\ waved = {}
    /\ early = {}

-----------------------------------------------------------------------------
(* The branch. *)

\* Branch acceptance, and PATCH /kitchen/orders/:id/status, where a manager may
\* also ask for out_for_delivery and completed: the job is neither asked nor moved.
MoveOrder(o, to) ==
    /\ to \in ConsumingStatuses
    /\ CanMove("delivery", status[o], to)
    /\ status' = [status EXCEPT ![o] = to]
    /\ waved' = IF to \in {"out_for_delivery", "completed"} THEN waved \cup {o} ELSE waved
    /\ UNCHANGED <<job, cod, payment, paidInto, shifts, carrier, early>>

\* A slip of its: another driver, the same progress.
AssignKeepsState(o, d) ==
    /\ status[o] = "ready"
    /\ job' = [job EXCEPT ![o] =
                 [state |-> IF @.state = "unassigned" THEN "assigned" ELSE @.state,
                  driver |-> d, response |-> "pending"]]
    /\ UNCHANGED <<status, cod, payment, paidInto, shifts, carrier, waved, early>>

\* POST /admin/orders/:id/assign-driver: whatever the job's state was.
Assign(o, d) ==
    /\ status[o] = "ready"
    /\ job' = [job EXCEPT ![o] = [state |-> "assigned", driver |-> d,
                                  response |-> "pending"]]
    /\ UNCHANGED <<status, cod, payment, paidInto, shifts, carrier, waved, early>>

-----------------------------------------------------------------------------
(* The driver. *)

\* A job without a driver account answers to any driver.
MayRespond(o, d) ==
    /\ status[o] = "ready"
    /\ job[o].state = "assigned"
    /\ job[o].driver \in {NoAccount, d}

AcceptJob(o, d) ==
    /\ MayRespond(o, d)
    /\ job[o].response = "pending"
    /\ job' = [job EXCEPT ![o].response = "accepted"]
    /\ UNCHANGED <<status, cod, payment, paidInto, shifts, carrier, waved, early>>

RejectJob(o, d) ==
    /\ MayRespond(o, d)
    /\ job' = [job EXCEPT ![o] = [state |-> "unassigned", driver |-> NoAccount,
                                  response |-> "rejected"]]
    /\ UNCHANGED <<status, cod, payment, paidInto, shifts, carrier, waved, early>>

\* getTask finds the job for its own driver only, and _assertDriverActor wants
\* it accepted.
MayDrive(o, d) ==
    /\ job[o].driver = d
    /\ job[o].response = "accepted"

PickUp(o, d) ==
    /\ MayDrive(o, d)
    /\ job[o].state = "assigned"
    /\ status[o] = "ready"
    /\ job' = [job EXCEPT ![o].state = "picked_up"]
    /\ carrier' = [carrier EXCEPT ![o] = d]
    /\ UNCHANGED <<status, cod, payment, paidInto, shifts, waved, early>>

\* A slip of its: the order is not moved with the job.
StartJobOnly(o, d) ==
    /\ MayDrive(o, d)
    /\ job[o].state = "picked_up"
    /\ status[o] = "ready"
    /\ job' = [job EXCEPT ![o].state = "on_delivery"]
    /\ UNCHANGED <<status, cod, payment, paidInto, shifts, carrier, waved, early>>

Start(o, d) ==
    /\ MayDrive(o, d)
    /\ job[o].state = "picked_up"
    /\ status[o] = "ready"
    /\ job' = [job EXCEPT ![o].state = "on_delivery"]
    /\ status' = [status EXCEPT ![o] = "out_for_delivery"]
    /\ UNCHANGED <<cod, payment, paidInto, shifts, carrier, waved, early>>

\* The customer pays the driver, who reports it with the delivery.
Complete(o, d) ==
    /\ MayDrive(o, d)
    /\ job[o].state = "on_delivery"
    /\ status[o] = "out_for_delivery"
    /\ job' = [job EXCEPT ![o].state = "delivered"]
    /\ cod' = [cod EXCEPT ![o].collection = "collected", ![o].custody = "driver"]
    /\ status' = [status EXCEPT ![o] = "completed"]
    /\ UNCHANGED <<payment, paidInto, shifts, carrier, waved, early>>

-----------------------------------------------------------------------------
(* The cashier. *)

\* A slip of its: closed shifts are found too.
AllShifts(c) == {i \in DOMAIN shifts : shifts[i].cashier = c}

OpenShifts(c) == {i \in DOMAIN shifts : shifts[i].cashier = c /\ shifts[i].open}

OpenShift(c) ==
    /\ Len(shifts) < MaxShifts
    /\ OpenShifts(c) = {}
    /\ shifts' = Append(shifts, [cashier |-> c, open |-> TRUE,
                                 sales |-> 0, expected |-> 0])
    /\ UNCHANGED <<status, job, cod, payment, paidInto, carrier, waved, early>>

\* The expected cash is recalculated from the sales.
CloseShift(i) ==
    /\ shifts[i].open
    /\ shifts' = [shifts EXCEPT ![i].open = FALSE, ![i].expected = shifts[i].sales]
    /\ UNCHANGED <<status, job, cod, payment, paidInto, carrier, waved, early>>

\* recordDeliveryCodHandover: unconditional.
RecordHandover(o, p) ==
    cod' = [cod EXCEPT ![o] = [collection |-> "handed_over", custody |-> "cashier",
                               receiver |-> p]]

\* POST /pos/orders/:id/cod-handover.
Handover(o, c) ==
    /\ OpenShifts(c) # {}
    /\ job[o].state = "delivered"
    /\ cod[o].collection = "collected"
    /\ cod[o].custody = "driver"
    /\ RecordHandover(o, c)
    /\ UNCHANGED <<status, job, payment, paidInto, shifts, carrier, waved, early>>

NoteEarly(o) ==
    early' = IF job[o].state = "delivered" THEN early ELSE early \cup {o}

\* A slip of its: a settled payment is settled again.
SettleAgain(o, p) ==
    /\ status[o] # "pending"
    /\ payment' = [payment EXCEPT ![o] = "settlement"]
    /\ RecordHandover(o, p)
    /\ NoteEarly(o)
    /\ UNCHANGED <<status, job, carrier, waved>>

\* CashSettlementService.settleCashPayment; a settled payment is left alone.
SettlePayment(o, p) ==
    /\ status[o] # "pending"
    /\ payment[o] = "pending"
    /\ payment' = [payment EXCEPT ![o] = "settlement"]
    /\ RecordHandover(o, p)
    /\ NoteEarly(o)
    /\ UNCHANGED <<status, job, carrier, waved>>

\* POST /pos/orders/:id/settle-cash by a cashier, into the shift that is open.
SettleCash(o, c) ==
    /\ SettlePayment(o, c)
    /\ \E i \in OpenShifts(c) :
          /\ shifts' = [shifts EXCEPT ![i].sales = @ + 1, ![i].expected = @ + 1]
          /\ paidInto' = [paidInto EXCEPT ![o] = i]

\* The same by a manager, who has no shift.
SettleByManager(o) ==
    /\ SettlePayment(o, Manager)
    /\ UNCHANGED <<paidInto, shifts>>

-----------------------------------------------------------------------------
DriverStep(o, d) ==
    \/ AcceptJob(o, d)
    \/ RejectJob(o, d)
    \/ PickUp(o, d)
    \/ Start(o, d)
    \/ Complete(o, d)

Next ==
    \/ \E o \in Orders :
          \/ \E to \in ConsumingStatuses : MoveOrder(o, to)
          \/ \E d \in Drivers \cup {NoAccount} : Assign(o, d)
          \/ \E d \in Drivers : DriverStep(o, d)
          \/ \E c \in Cashiers : Handover(o, c) \/ SettleCash(o, c)
          \/ SettleByManager(o)
    \/ \E c \in Cashiers : OpenShift(c)
    \/ \E i \in DOMAIN shifts : CloseShift(i)

Spec == Init /\ [][Next]_vars

-----------------------------------------------------------------------------
(* A job is under way, or done, only in the name of a driver account that accepted *)
(* it after it was last assigned and then reported the pickup itself, however often *)
(* it was assigned, refused and assigned again.  (An order that a manager waves out *)
(* may have a job that nobody took: that is the matter of JobFollowsOrder.)         *)
OnTheRoadIsAccepted ==
    \A o \in Orders :
        job[o].state \in {"picked_up", "on_delivery", "delivered"} =>
            /\ job[o].driver \in Drivers
            /\ job[o].response = "accepted"
            /\ carrier[o] = job[o].driver

(* Order and job go out and arrive together, unless a manager waved the order past  *)
(* its job; then the job is never reported delivered: one that was not on the road  *)
(* cannot start any more, and one that was cannot end.                              *)
JobFollowsOrder ==
    \A o \in Orders :
        IF o \notin waved
        THEN /\ job[o].state = "on_delivery" <=> status[o] = "out_for_delivery"
             /\ job[o].state = "delivered" <=> status[o] = "completed"
        ELSE /\ status[o] \in {"out_for_delivery", "completed"}
             /\ job[o].state # "delivered"
             /\ job[o].state = "on_delivery" => status[o] = "completed"

(* Cash is always with someone and counted once: when the job is delivered the   *)
(* books say who has the customer's cash; once it is settled that is the cashier, *)
(* unless it was settled before the driver reported the delivery; and a shift's   *)
(* sales are the orders settled into it, each into one shift at most.             *)
CashIsAccounted ==
    /\ \A o \in Orders :
          /\ job[o].state = "delivered" => cod[o].custody # "nobody"
          /\ payment[o] = "settlement" /\ o \notin early =>
                job[o].state = "delivered" /\ cod[o].custody = "cashier"
    /\ \A i \in DOMAIN shifts :
          shifts[i].sales = Cardinality({o \in Orders : paidInto[o] = i})

(* A closed shift stays as it was counted, whoever settles after it, and a     *)
(* change of an open one keeps the expected cash at its sales.                *)
ClosedShiftIsFrozen ==
    [][\A i \in DOMAIN shifts :
          /\ ~shifts[i].open => shifts'[i] = shifts[i]
          /\ shifts'[i].expected = shifts'[i].sales]_vars

=============================================================================
