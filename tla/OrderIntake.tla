----------------------------- MODULE OrderIntake -----------------------------
(***************************************************************************)
(* Placing customer_app orders over days and branches, where three look-ups *)
(* decide what happens: the guard against duplicate checkouts, the sweep for *)
(* orders the branch left unanswered, and the sale-deduction ledger.         *)
(*                                                                         *)
(* The first two compare TEXT.  An order stores toISOString(),              *)
(* 'YYYY-MM-DDThh:mm:ss.mmmZ'; SQLite's datetime('now', ...) has a space     *)
(* where that has the T.  The third looks a ledger row up by the three-digit *)
(* order number alone.                                                       *)
(*                                                                         *)
(* A tick of the clock is one period of the sweep worker.                    *)
(***************************************************************************)
EXTENDS Naturals, Sequences, FiniteSets

CONSTANTS
    Branches,
    Customers,     \* a phone number each; a cart is the same for all
    Numbers,       \* order numbers of one type: 900 in the code
    DayLength,     \* ticks in a day
    Timeout,       \* ACCEPTANCE_TIMEOUT_SECONDS in ticks
    Window,        \* windowSeconds of the duplicate guard in ticks
    InitialStock,  \* of the one product, at every branch
    MaxOrders,     \* bound on the orders placed
    MaxNow         \* bound on the clock

ASSUME ClockAssumption == /\ {DayLength, Timeout, Window} \subseteq Nat \ {0}
                          /\ Timeout < DayLength
                          /\ Window < DayLength
ASSUME BoundsAssumption == {InitialStock, MaxOrders, MaxNow} \subseteq Nat

VARIABLES
    now,        \* the clock
    swept,      \* the worker has run at this tick
    orders,     \* the orders table, in the order of insertion
    movements,  \* sale_deduction rows of inventory_movements
    stock,      \* stock of the product at each branch
    answer      \* order the last checkout was answered with (0: none), and when

vars == <<now, swept, orders, movements, stock, answer>>

Order == [branch : Branches, customer : Customers, number : Numbers,
          created : Nat, status : {"pending", "confirmed", "preparing", "timeout"}]

TypeOK ==
    /\ now \in Nat
    /\ swept \in BOOLEAN
    /\ orders \in Seq(Order)
    /\ movements \in SUBSET [reference : Numbers, order : 1..Len(orders)]
    /\ stock \in [Branches -> Nat]
    /\ answer \in [order : 0..Len(orders), at : Nat]

Init ==
    /\ now = 0
    /\ swept = TRUE
    /\ orders = <<>>
    /\ movements = {}
    /\ stock = [b \in Branches |-> InitialStock]
    /\ answer = [order |-> 0, at |-> 0]

Placed == 1..Len(orders)

-----------------------------------------------------------------------------
(* The two spellings of an instant, and the order of their texts. *)

IsoText(t) == [day |-> t \div DayLength, mark |-> "T", time |-> t % DayLength]

SqlText(t) == [day |-> t \div DayLength, mark |-> " ", time |-> t % DayLength]

\* a <= b: the date decides, then the eleventh character (' ' before 'T'),
\* then the time of day.
TextLeq(a, b) ==
    \/ a.day < b.day
    \/ /\ a.day = b.day
       /\ \/ a.mark = " " /\ b.mark = "T"
          \/ a.mark = b.mark /\ a.time <= b.time

\* A slip of its: the modifier is left out.
Now(n) == SqlText(now + DayLength)

\* datetime('now', '-n seconds'); the clock starts a day late so that there is
\* a yesterday.
Ago(n) == SqlText(now + DayLength - n)

CreatedText(i) == IsoText(orders[i].created + DayLength)

\* findOverduePending: created_at <= datetime('now', ?)
Overdue == {i \in Placed : orders[i].status = "pending"
                           /\ TextLeq(CreatedText(i), Ago(Timeout))}

\* A slip of its: a confirmed order is not looked for.
PendingDuplicates(b, c) ==
    {i \in Placed : /\ orders[i].branch = b
                    /\ orders[i].customer = c
                    /\ orders[i].status = "pending"
                    /\ TextLeq(Ago(Window), CreatedText(i))}

\* findRecentDuplicateOrder: created_at >= datetime('now', ?), the last one.
Duplicates(b, c) ==
    {i \in Placed : /\ orders[i].branch = b
                    /\ orders[i].customer = c
                    /\ orders[i].status \in {"pending", "confirmed"}
                    /\ TextLeq(Ago(Window), CreatedText(i))}


\* Numbers of this branch's orders of today (findByOrderNumberBranchToday).
UsedToday(b) ==
    {orders[i].number : i \in {j \in Placed :
        orders[j].branch = b /\ CreatedText(j).day = (now + DayLength) \div DayLength}}

\* The draw is repeated while the number is used; the last draw stands.
Drawable(b) == IF UsedToday(b) = Numbers THEN Numbers ELSE Numbers \ UsedToday(b)

-----------------------------------------------------------------------------
\* submitOrder answers a duplicate with the order it duplicates.
AnswerDuplicate(b, c) ==
    /\ Duplicates(b, c) # {}
    /\ \E i \in Duplicates(b, c) :
          /\ \A j \in Duplicates(b, c) : j <= i
          /\ answer' = [order |-> i, at |-> now]
    /\ UNCHANGED <<now, swept, orders, movements, stock>>

\* submitOrder inserts a pending order; the gate saw stock.
SubmitOrder(b, c, n) ==
    /\ Len(orders) < MaxOrders
    /\ Duplicates(b, c) = {}
    /\ stock[b] > 0
    /\ n \in Drawable(b)
    /\ orders' = Append(orders, [branch |-> b, customer |-> c, number |-> n,
                                 created |-> now, status |-> "pending"])
    /\ answer' = [order |-> Len(orders'), at |-> now]
    /\ UNCHANGED <<now, swept, movements, stock>>

\* A slip of its: the ledger is not consulted.
DeductStockAlways(i) ==
    LET branch == orders[i].branch IN
    /\ stock[branch] > 0
    /\ stock' = [stock EXCEPT ![branch] = @ - 1]
    /\ movements' = movements \cup {[reference |-> orders[i].number, order |-> i]}

\* deductStockForSettledOrder: nothing if the ledger has the order's number.
DeductStock(i) ==
    LET number == orders[i].number
        branch == orders[i].branch IN
    IF \E m \in movements : m.reference = number
    THEN UNCHANGED <<movements, stock>>
    ELSE /\ stock[branch] > 0
         /\ stock' = [stock EXCEPT ![branch] = @ - 1]
         /\ movements' = movements \cup {[reference |-> number, order |-> i]}

\* The branch accepts.
Accept(i) ==
    /\ orders[i].status = "pending"
    /\ DeductStock(i)
    /\ orders' = [orders EXCEPT ![i].status = "confirmed"]
    /\ UNCHANGED <<now, swept, answer>>

\* A settlement for an accepted order makes sure of its stock.
Settle(i) ==
    /\ orders[i].status \in {"confirmed", "preparing"}
    /\ DeductStock(i)
    /\ UNCHANGED <<now, swept, orders, answer>>

\* The kitchen starts.
Prepare(i) ==
    /\ orders[i].status = "confirmed"
    /\ orders' = [orders EXCEPT ![i].status = "preparing"]
    /\ UNCHANGED <<now, swept, movements, stock, answer>>

\* checkAndApplyTimeouts.
Sweep ==
    /\ ~swept
    /\ swept' = TRUE
    /\ orders' = [i \in Placed |->
                    IF i \in Overdue THEN [orders[i] EXCEPT !.status = "timeout"]
                    ELSE orders[i]]
    /\ UNCHANGED <<now, movements, stock, answer>>

Tick ==
    /\ swept
    /\ now < MaxNow
    /\ now' = now + 1
    /\ swept' = FALSE
    /\ UNCHANGED <<orders, movements, stock, answer>>

Next ==
    \/ \E b \in Branches, c \in Customers :
          \/ AnswerDuplicate(b, c)
          \/ \E n \in Numbers : SubmitOrder(b, c, n)
    \/ \E i \in Placed : Accept(i) \/ Settle(i) \/ Prepare(i)
    \/ Sweep
    \/ Tick

Spec == Init /\ [][Next]_vars

-----------------------------------------------------------------------------
(* A branch is never robbed of the time it has: an order times out only once *)
(* the platform's deadline has passed, midnight or not.                      *)
NeverEarly ==
    [][\A i \in Placed :
          orders[i].status = "pending" /\ orders'[i].status = "timeout" =>
              now >= orders[i].created + Timeout]_vars

(* A double tap never makes two orders: while an order of the customer at the *)
(* branch is younger than the window, and not in the kitchen yet, no other is *)
(* inserted, midnight or not.                                                *)
NoDoubleOrder ==
    [][Len(orders') > Len(orders) =>
          LET new == orders'[Len(orders')] IN
          \A i \in Placed :
              /\ orders[i].branch = new.branch
              /\ orders[i].customer = new.customer
              /\ orders[i].status \in {"pending", "confirmed"}
              => now > orders[i].created + Window]_vars

(* The ledger explains the stock of every branch: what is gone is one unit    *)
(* for each of its own orders that has a row, however often acceptance and    *)
(* settlement asked for the deduction.                                        *)
LedgerMatchesStock ==
    \A b \in Branches :
        stock[b] + Cardinality({m \in movements : orders[m.order].branch = b})
            = InitialStock


-----------------------------------------------------------------------------
(* A statement of the repository that the code does not keep.                 *)

(* "Acceptance timeout is a platform-controlled 3-minute policy": once the    *)
(* worker has run, no order older than that still waits.                      *)
OverdueIsTimedOut ==
    swept => \A i \in Placed :
                orders[i].status = "pending" => now < orders[i].created + Timeout
=============================================================================
