---------------------------- MODULE DiningTables ----------------------------
(***************************************************************************)
(* Tables of one branch: holds for orders that wait for the branch, dining   *)
(* sessions, and the state shown on the floor plan.  These are three sets of *)
(* rows that the customers, the branch, the cashier and the floor staff move  *)
(* through a dozen endpoints; none of them is derived from another.          *)
(***************************************************************************)
EXTENDS Naturals, Sequences, FiniteSets

CONSTANTS
    Tables,
    NoTable,        \* of an order not placed yet
    Customers,      \* phone numbers
    NoPhone,        \* a guest without one
    AppOrders,      \* orders a customer may place from the app or a table's QR
    CashierOrders,  \* orders a cashier may open as a held bill or sell at once
    MaxSessions,    \* bound on the sessions opened
    MaxOverrides    \* bound on the tables overridden before the next override

ASSUME DistinctOrders == AppOrders \cap CashierOrders = {}
ASSUME NobodyNowhere == NoPhone \notin Customers /\ NoTable \notin Tables
ASSUME FiniteFloor ==
    IsFiniteSet(Tables) /\ MaxSessions \in Nat /\ MaxOverrides \in Nat

Orders == AppOrders \cup CashierOrders

Phones == Customers \cup {NoPhone}

VARIABLES
    table,      \* branch_table_states: operational_state, current_session_id
    sessions,   \* dining_sessions with their dining_session_tables, oldest first
    order,      \* orders: status, phone, table_number, dining_session_id, paid;
                \*   bill for a held bill, which is paid in cash
    hold,       \* branch_table_holds of an order, on the order's table
    overridden  \* history: tables staff changed against their hold or session

vars == <<table, sessions, order, hold, overridden>>

Table == [state : {"available", "held", "occupied", "blocked"},
          session : 0..MaxSessions]

\* forced is history: closed by releasing a table, with orders still to be paid.
Session == [phone : Phones, active : BOOLEAN, forced : BOOLEAN,
            tables : SUBSET Tables]

\* A dropped order was cancelled, rejected or timed out; "confirmed" stands for
\* every status of an accepted one.
Order == [status : {"new", "pending", "confirmed", "dropped"}, phone : Phones,
          table : Tables \cup {NoTable}, session : 0..MaxSessions, paid : BOOLEAN,
          bill : BOOLEAN]

TypeOK ==
    /\ table \in [Tables -> Table]
    /\ sessions \in Seq(Session) /\ Len(sessions) <= MaxSessions
    /\ order \in [Orders -> Order]
    /\ hold \in [Orders -> {"none", "active", "lapsed"}]
    /\ overridden \subseteq Tables

Init ==
    /\ table = [t \in Tables |-> [state |-> "available", session |-> 0]]
    /\ sessions = <<>>
    /\ order = [o \in Orders |->
                  [status |-> "new", phone |-> NoPhone, session |-> 0,
                   table |-> NoTable, paid |-> FALSE, bill |-> FALSE]]
    /\ hold = [o \in Orders |-> "none"]
    /\ overridden = {}

-----------------------------------------------------------------------------
(* What the rows say. *)

Active == {s \in DOMAIN sessions : sessions[s].active}

ActiveOf(p) == {s \in Active : p # NoPhone /\ sessions[s].phone = p}

\* findActiveSessionByCustomer: the one opened last.
LatestOf(p) == CHOOSE s \in ActiveOf(p) : \A r \in ActiveOf(p) : r <= s

\* A lapsed hold counts until it is swept.
HoldsOn(t) == {o \in Orders : hold[o] # "none" /\ order[o].table = t}

HoldsElsewhere(p, t) ==
    \E o \in Orders : /\ hold[o] # "none" /\ order[o].table # t
                      /\ p # NoPhone /\ order[o].phone = p

SessionAt(t) == {s \in Active : table[t].state = "occupied" /\ table[t].session = s}

SeatedElsewhere(p, t) ==
    ActiveOf(p) # {} /\ t \notin sessions[LatestOf(p)].tables

\* The guest of the session is p, or not known.
OpenTo(s, p) == sessions[s].phone \in {NoPhone, p}

\* validateTablesAvailable, and the same check when the hold is written.
Available(t, p) ==
    \/ table[t].state = "available"
    \/ \E s \in SessionAt(t) : OpenTo(s, p)

Free == [state |-> "available", session |-> 0]

Freed(ts) == [t \in Tables |-> IF t \in ts THEN Free ELSE table[t]]

-----------------------------------------------------------------------------
(* createOrAttachDiningSession for a guest p at table t.                      *)

\* A slip of its: a hold of another order is overlooked.
NewSessionAnyHold(t, ref) == {x \in {0} : table[t].state # "blocked"}

\* A slip of its: a held table is refused to its own order too.
NewSessionNoHold(t, ref) == {x \in {0} : table[t].state \notin {"blocked", "held"}}

\* What opening a session at t gives: 0, the session to be made, or nothing.
NewSession(t, ref) ==
    {x \in {0} : /\ table[t].state # "blocked"
                 /\ table[t].state = "held" => ref \cap HoldsOn(t) # {}}

\* A slip of its: any session at the table is joined.
JoinAny(s, p, fromApp) == TRUE

MayJoin(s, p, fromApp) ==
    fromApp => sessions[s].phone = NoPhone \/ p = NoPhone \/ sessions[s].phone = p

\* The session to attach to, 0 for a new one; none when it refuses.  sid is the
\* session the caller names, ref the orders whose holds it may use.
SessionFor(p, t, sid, fromApp, ref) ==
    IF sid # 0
    THEN {s \in Active \cap {sid} : MayJoin(s, p, fromApp) /\ t \in sessions[s].tables}
    ELSE IF ActiveOf(p) # {}
    THEN {s \in {LatestOf(p)} : ~SeatedElsewhere(p, t)}
    ELSE IF SessionAt(t) # {}
    THEN {s \in SessionAt(t) : MayJoin(s, p, fromApp)}
    ELSE NewSession(t, ref)

SeatOf(s) == IF s = 0 THEN Len(sessions) + 1 ELSE s

\* A guest not known before is now.
Bound(s, p) == [sessions EXCEPT ![s].phone = IF @ = NoPhone THEN p ELSE @]

\* The session is opened or joined, and the table is its.
Seat(p, t, s) ==
    LET joined == IF s = 0
                  THEN Append(sessions, [phone |-> p, active |-> TRUE,
                                         forced |-> FALSE, tables |-> {}])
                  ELSE Bound(s, p)
    IN /\ SeatOf(s) <= MaxSessions
       /\ sessions' = [joined EXCEPT ![SeatOf(s)].tables = @ \cup {t}]
       /\ table' = [table EXCEPT ![t] = [state |-> "occupied", session |-> SeatOf(s)]]

\* An order takes its table: its hold is converted and it joins the session.
SeatOrder(o, p, sid, fromApp, change) ==
    \E s \in SessionFor(p, order[o].table, sid, fromApp, {o}) :
       /\ Seat(p, order[o].table, s)
       /\ order' = [order EXCEPT ![o] = [change EXCEPT !.session = SeatOf(s)]]
       /\ hold' = [hold EXCEPT ![o] = "none"]
       /\ UNCHANGED overridden

-----------------------------------------------------------------------------
(* Orders and their holds. *)

\* Fifteen minutes have passed.
HoldLapses(o) ==
    /\ hold[o] = "active"
    /\ hold' = [hold EXCEPT ![o] = "lapsed"]
    /\ UNCHANGED <<table, sessions, order, overridden>>

Lapsed == {o \in Orders : hold[o] = "lapsed"}

\* sweepExpiredHolds, a transaction of its own, which whoever opens the floor
\* plan starts, and every handler that writes a hold.
Sweep ==
    /\ Lapsed # {}
    /\ hold' = [o \in Orders |-> IF o \in Lapsed THEN "none" ELSE hold[o]]
    /\ table' = Freed({order[o].table : o \in Lapsed})
    /\ UNCHANGED <<sessions, order, overridden>>

NewOrder(p, t, s) == [status |-> "pending", phone |-> p, table |-> t,
                      session |-> s, paid |-> FALSE, bill |-> FALSE]

\* holdTablesForPayment: nothing is held at a table already occupied.
WriteHold(o, t) ==
    IF table[t].state = "occupied" THEN UNCHANGED <<hold, table>>
    ELSE /\ hold' = [hold EXCEPT ![o] = "active"]
         /\ table' = [table EXCEPT ![t].state = "held"]

\* prepareDineInOrderContext: the session an order from the app belongs to.  The
\* app may name one.
Context(p, t) ==
    {s \in Active : OpenTo(s, p) /\ t \in sessions[s].tables}
    \cup (IF ActiveOf(p) # {}
          THEN {s \in {LatestOf(p)} : ~SeatedElsewhere(p, t)}
          ELSE IF SessionAt(t) # {} THEN {s \in SessionAt(t) : OpenTo(s, p)} ELSE {0})

\* POST /checkout for a dine-in order.
PlaceOrder(o, p, t) ==
    /\ order[o].status = "new"
    /\ Lapsed = {}              \* swept first
    /\ Available(t, p)
    /\ ~HoldsElsewhere(p, t)
    /\ \E s \in Context(p, t) :
          /\ order' = [order EXCEPT ![o] = NewOrder(p, t, s)]
          /\ IF s = 0 THEN WriteHold(o, t) /\ UNCHANGED sessions
             ELSE sessions' = Bound(s, p) /\ UNCHANGED <<hold, table>>
    /\ UNCHANGED overridden

\* The checkout is sent again for the same table: the app keeps the order's key until
\* it is answered.  The order is found, whatever became of it, and held afresh.
RetryCheckout(o) ==
    /\ order[o].status # "new" /\ order[o].session = 0
    /\ Lapsed = {}
    /\ Available(order[o].table, order[o].phone)
    /\ ~SeatedElsewhere(order[o].phone, order[o].table)
    /\ ~HoldsElsewhere(order[o].phone, order[o].table)
    /\ WriteHold(o, order[o].table)
    /\ UNCHANGED <<sessions, order, overridden>>

\* POST /pos/held-orders: the hold is bound to the order made for the bill.
HoldBill(o, p, t) ==
    /\ order[o].status = "new"
    /\ Lapsed = {}
    /\ Available(t, p)
    /\ ~SeatedElsewhere(p, t) /\ ~HoldsElsewhere(p, t)
    /\ order' = [order EXCEPT ![o] = [NewOrder(p, t, 0) EXCEPT !.bill = TRUE]]
    /\ WriteHold(o, t)
    /\ UNCHANGED <<sessions, overridden>>

\* POST /pos/sales for a guest at a table: nobody asks whether the table is free,
\* and nothing is held.  A sale in cash is confirmed and settled next, in a
\* transaction of its own (SettleAndSeat); any other waits for the branch.
SellAtTable(o, p, t) ==
    /\ order[o].status = "new"
    /\ \E status \in {"pending", "confirmed"} :
          order' = [order EXCEPT ![o] = [NewOrder(p, t, 0) EXCEPT !.status = status]]
    /\ UNCHANGED <<table, sessions, hold, overridden>>

\* Branch acceptance.
Accept(o) ==
    /\ order[o].status = "pending"
    /\ SeatOrder(o, order[o].phone, order[o].session, o \in AppOrders,
                 [order[o] EXCEPT !.status = "confirmed"])

Dropped(o) == [order EXCEPT ![o].status = "dropped"]

\* Rejection by the branch, cancellation by the customer or by the gateway: the
\* hold is released with the order.
Drop(o) ==
    /\ order[o].status = "pending"
    /\ order' = Dropped(o)
    /\ hold' = [hold EXCEPT ![o] = "none"]
    /\ table' = Freed({t \in {order[o].table} : hold[o] # "none"})
    /\ UNCHANGED <<sessions, overridden>>

\* The acceptance timeout, which never sees the order's type; the deletion of a
\* held bill, which asks for the hold by the bill it is no longer bound to; and
\* the cancellation of a sale in static QRIS, which has none.
DropWithoutHold(o) ==
    /\ order[o].status = "pending"
    /\ order' = Dropped(o)
    /\ UNCHANGED <<table, sessions, hold, overridden>>

\* A gateway's settlement of an order that waits, or that the kitchen has moved
\* past "confirmed".
SettleOnly(o) ==
    /\ order[o].status \in {"pending", "confirmed"} /\ ~order[o].paid
    /\ ~order[o].bill
    /\ order' = [order EXCEPT ![o].paid = TRUE]
    /\ UNCHANGED <<table, sessions, hold, overridden>>

\* A payment seats its order again, in no particular session.  When that is
\* refused its rollback undoes the settlement as well (DbTransactions), and
\* nothing changes.
SeatPaid(o) ==
    /\ ~order[o].paid
    /\ SeatOrder(o, order[o].phone, 0, o \in AppOrders,
                 [order[o] EXCEPT !.paid = TRUE])

\* Settlement in cash, or by a gateway, of a confirmed order.
SettleAndSeat(o) ==
    /\ order[o].status = "confirmed"
    /\ SeatPaid(o)

\* A cashier's sale in static QRIS is settled when the transfer is seen, whether
\* or not the branch has accepted it; the status stays as it is.
SettleStaticQris(o) ==
    /\ o \in CashierOrders /\ ~order[o].bill
    /\ order[o].status \in {"pending", "confirmed"}
    /\ SeatPaid(o)

-----------------------------------------------------------------------------
(* The QR at the table, and the staff. *)

\* POST /customer/claim activates a cashier's hold, whatever became of its order,
\* and makes the session of an unknown guest the customer's.
ClaimHeld(p, t) ==
    \E o \in HoldsOn(t) \cap CashierOrders :
       SeatOrder(o, IF p = NoPhone THEN order[o].phone ELSE p, 0, FALSE, order[o])

ClaimSession(p, t) ==
    /\ p # NoPhone
    /\ \E s \in SessionAt(t) :
          /\ sessions[s].phone = NoPhone
          /\ sessions' = Bound(s, p)
          /\ order' = [o \in Orders |->
                         IF order[o].session = s /\ order[o].phone = NoPhone
                         THEN [order[o] EXCEPT !.phone = p] ELSE order[o]]
    /\ UNCHANGED <<table, hold, overridden>>

\* A reservation's guest arrives: no hold, nothing to pay.
CheckIn(p, t) ==
    /\ table[t].state = "available"
    /\ \E s \in SessionFor(p, t, 0, FALSE, {}) : Seat(p, t, s)
    /\ UNCHANGED <<order, hold, overridden>>

\* A slip of its: orders that still wait for the branch are overlooked.
UnpaidOrders(s) ==
    {o \in Orders : /\ order[o].session = s /\ ~order[o].paid
                    /\ order[o].status = "confirmed"}

\* What keeps a session from being closed: an order not accepted, or not paid.
Blockers(s) ==
    {o \in Orders : /\ order[o].session = s
                    /\ \/ order[o].status = "pending"
                       \/ order[o].status = "confirmed" /\ ~order[o].paid}

\* Nobody asks for the guest and the tables of a closed session.
Closed(force) == [phone |-> NoPhone, active |-> FALSE, forced |-> force, tables |-> {}]

\* POST /dine-in/sessions/:id/complete.
Complete(s) ==
    /\ Blockers(s) = {}
    /\ sessions' = [sessions EXCEPT ![s] = Closed(FALSE)]
    /\ table' = Freed(sessions[s].tables)
    /\ UNCHANGED <<order, hold, overridden>>

\* POST /dine-in/tables/:id/release closes the table's session, by force if it
\* must, in which case the session's other tables are left as they are.
Release(t) ==
    LET mine == Active \cap {table[t].session}
        forced == {s \in mine : Blockers(s) # {}}
        closed == mine \ forced
    IN /\ sessions' = [s \in DOMAIN sessions |->
                         IF s \in mine
                         THEN Closed(s \in forced)
                         ELSE sessions[s]]
       /\ table' = Freed({t} \cup UNION {sessions[s].tables : s \in closed})
       /\ hold' = [o \in Orders |-> IF o \in HoldsOn(t) THEN "none" ELSE hold[o]]
       /\ overridden' = overridden \cup ((UNION {sessions[s].tables : s \in forced}) \ {t})
       /\ UNCHANGED order

\* The change of t's state leaves its hold or its session behind.
Override(t, ts) ==
    IF table[t].state \in {"held", "occupied"}
    THEN /\ Cardinality(overridden) < MaxOverrides
         /\ overridden' = overridden \cup ts
    ELSE UNCHANGED overridden

\* setTableBlockedState: whatever the table's state, and the session stays in it.
Block(t, state) ==
    /\ state \in {"blocked", "available"}
    /\ table' = [table EXCEPT ![t].state = state]
    /\ Override(t, {t})
    /\ UNCHANGED <<sessions, order, hold>>

\* Blocked, held, or another session's: not a table to move to.
MayMoveTo(s, t) ==
    /\ table[t].state \notin {"blocked", "held"}
    /\ table[t].state = "occupied" => table[t].session \in {0, s}

\* POST /dine-in/sessions/:id/reassign-tables, and the transfer of a table that has
\* a session.
Reassign(s, ts) ==
    /\ ts # {}
    /\ \A t \in ts : MayMoveTo(s, t)
    /\ sessions' = [sessions EXCEPT ![s].tables = ts]
    /\ table' = [t \in Tables |->
                   IF t \in ts THEN [state |-> "occupied", session |-> s]
                   ELSE Freed(sessions[s].tables)[t]]
    /\ UNCHANGED <<order, hold, overridden>>

\* Transfer of a table without a session: its state moves, its holds do not.
TransferState(t, u) ==
    /\ t # u
    /\ table[t].session = 0 /\ table[u].state = "available"
    /\ table' = [table EXCEPT ![t] = Free, ![u].state = table[t].state]
    /\ Override(t, {t, u})
    /\ UNCHANGED <<sessions, order, hold>>

-----------------------------------------------------------------------------
OrderStep(o) ==
    \/ HoldLapses(o)
    \/ Accept(o)
    \/ Drop(o)
    \/ DropWithoutHold(o)
    \/ SettleOnly(o)
    \/ SettleAndSeat(o)
    \/ SettleStaticQris(o)

GuestStep(t) ==
    \/ \E o \in AppOrders, p \in Customers : PlaceOrder(o, p, t)
    \/ \E o \in CashierOrders, p \in Phones : HoldBill(o, p, t) \/ SellAtTable(o, p, t)
    \/ \E p \in Phones : ClaimHeld(p, t) \/ ClaimSession(p, t) \/ CheckIn(p, t)

StaffStep ==
    \/ \E s \in Active : Complete(s) \/ \E ts \in SUBSET Tables : Reassign(s, ts)
    \/ \E t \in Tables : Release(t) \/ \E state \in {"blocked", "available"} : Block(t, state)
    \/ \E t, u \in Tables : TransferState(t, u)

Next ==
    \/ Sweep
    \/ \E o \in Orders : OrderStep(o)
    \/ \E o \in AppOrders : RetryCheckout(o)
    \/ \E t \in Tables : GuestStep(t)
    \/ StaffStep

Spec == Init /\ [][Next]_vars

-----------------------------------------------------------------------------
(* A table has one owner at most: one active session, with which it is shown    *)
(* occupied, or one order's hold, with which it is shown held, unless staff     *)
(* overrode its state; whatever holds lapse, orders are accepted late, sessions *)
(* are moved and payments seat their orders again.                             *)
TableHasOneOwner ==
    \A t \in Tables \ overridden :
        /\ table[t].state = "occupied" => SessionAt(t) # {}
        /\ \A s \in Active : t \in sessions[s].tables => SessionAt(t) = {s}
        /\ Cardinality(HoldsOn(t)) = IF table[t].state = "held" THEN 1 ELSE 0

(* A hold is worth something: while it stands, the branch can accept the order  *)
(* at its table, unless the customer was meanwhile seated at another.          *)
HoldGuaranteesTable ==
    \A o \in Orders :
        /\ hold[o] # "none" /\ order[o].status = "pending"
        /\ order[o].table \notin overridden
        /\ ~SeatedElsewhere(order[o].phone, order[o].table)
        => SessionFor(order[o].phone, order[o].table, order[o].session,
                      o \in AppOrders, {o}) # {}

(* An order that still has to be paid keeps its session open, accepted or not;  *)
(* only the release of a table ends it.                                       *)
OwedSessionStaysOpen ==
    \A o \in Orders :
        /\ order[o].session # 0 /\ ~order[o].paid
        /\ order[o].status \in {"pending", "confirmed"}
        => \/ sessions[order[o].session].active
           \/ sessions[order[o].session].forced

(* A customer's orders from the app are in sessions of that customer, also when *)
(* a session was anonymous first, moved, or joined by a payment.               *)
SessionsAreTheGuests ==
    \A o \in AppOrders :
        order[o].session \in Active =>
            sessions[order[o].session].phone = order[o].phone
=============================================================================
