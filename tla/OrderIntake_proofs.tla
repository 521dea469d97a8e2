-------------------------- MODULE OrderIntake_proofs --------------------------
(***************************************************************************)
(* Proofs about OrderIntake, for every number of branches, customers, order  *)
(* numbers and orders, and every length of the day, the deadline and the     *)
(* window.  The two statements about time rest on one fact: because ' ' sorts *)
(* before 'T', the comparison of the two spellings comes down to their days,  *)
(* and a later day is a later instant (Later).                               *)
(***************************************************************************)
EXTENDS OrderIntake, FiniteSetTheorems, TLAPS

-----------------------------------------------------------------------------
(* Arithmetic of days. *)

(* What division leaves. *)
LEMMA DivBound ==
  ASSUME NEW x \in Nat, NEW d \in Nat \ {0}
  PROVE  /\ x \div d \in Nat
         /\ d * (x \div d) <= x
         /\ x < d * (x \div d) + d
  BY Z3

(* A later day begins when the earlier one has ended. *)
LEMMA MulMono ==
  ASSUME NEW d \in Nat \ {0}, NEW p \in Nat, NEW q \in Nat, p < q
  PROVE  d * p + d <= d * q
  BY Z3

(* An instant of a later day is later. *)
LEMMA Later ==
  ASSUME NEW x \in Nat, NEW y \in Nat, NEW d \in Nat \ {0}, x \div d < y \div d
  PROVE  x < y
<1> DEFINE p == x \div d
           q == y \div d
<1>1. p \in Nat /\ q \in Nat /\ x < d * p + d /\ d * q <= y
  BY DivBound
<1>2. d * p + d <= d * q
  BY <1>1, MulMono
<1>3. d * p \in Nat /\ d * q \in Nat
  BY <1>1
<1> HIDE DEF p, q
<1> QED
  BY <1>1, <1>2, <1>3

-----------------------------------------------------------------------------
(* The inductive invariant. *)

SoldAt(b) == {m \in movements : orders[m.order].branch = b}

RowsInv ==
    /\ now \in Nat
    /\ orders \in Seq(Order)
    /\ movements \in SUBSET [reference : Numbers, order : 1..Len(orders)]
    /\ stock \in [Branches -> Nat]

LedgerInv ==
    /\ IsFiniteSet(movements)
    /\ \A b \in Branches : stock[b] + Cardinality(SoldAt(b)) = InitialStock

IInv == RowsInv /\ LedgerInv

\* What every step does to the orders that are there: none is taken away and
\* none changes its branch.
OrdersStay ==
    /\ orders' \in Seq(Order)
    /\ Len(orders') >= Len(orders)
    /\ \A i \in Placed : orders'[i].branch = orders[i].branch

(* A step that leaves the ledger and the stock alone. *)
LEMMA KeepsLedger ==
  ASSUME IInv, OrdersStay, now' \in Nat, movements' = movements, stock' = stock
  PROVE  IInv'
<1>1. Len(orders) \in Nat /\ Len(orders') \in Nat
  BY DEF IInv, RowsInv, OrdersStay
<1>2. RowsInv'
  BY <1>1 DEF IInv, RowsInv, OrdersStay
<1>3. ASSUME NEW b \in Branches PROVE SoldAt(b)' = SoldAt(b)
  BY <1>1 DEF IInv, RowsInv, OrdersStay, SoldAt, Placed
<1>4. LedgerInv'
  BY <1>3 DEF IInv, LedgerInv
<1> QED
  BY <1>2, <1>4 DEF IInv

(* A deduction writes one row for the unit it takes, or does nothing. *)
LEMMA Deducts ==
  ASSUME IInv, OrdersStay, now' \in Nat, NEW i \in Placed, DeductStock(i)
  PROVE  IInv'
<1> DEFINE row == [reference |-> orders[i].number, order |-> i]
           branch == orders[i].branch
<1>1. Len(orders) \in Nat /\ Len(orders') \in Nat /\ i \in 1..Len(orders)
  BY DEF IInv, RowsInv, OrdersStay, Placed
<1>2. orders[i] \in Order
  BY <1>1 DEF IInv, RowsInv
<1>3. CASE \E m \in movements : m.reference = orders[i].number
  BY <1>3, KeepsLedger DEF DeductStock
<1>4. CASE ~\E m \in movements : m.reference = orders[i].number
  <2>1. /\ stock[branch] > 0
        /\ stock' = [stock EXCEPT ![branch] = @ - 1]
        /\ movements' = movements \cup {row}
    BY <1>4 DEF DeductStock
  <2>2. branch \in Branches /\ row.reference \in Numbers
    BY <1>2 DEF Order
  <2>3. row \notin movements
    BY <1>4
  <2>4. row \in [reference : Numbers, order : 1..Len(orders')]
    BY <1>1, <2>2 DEF OrdersStay
  <2>5. movements \in SUBSET [reference : Numbers, order : 1..Len(orders')]
    BY <1>1 DEF IInv, RowsInv, OrdersStay
  <2>6. stock' \in [Branches -> Nat]
    BY <2>1, <2>2 DEF IInv, RowsInv
  <2>7. RowsInv'
    BY <2>1, <2>4, <2>5, <2>6 DEF RowsInv, OrdersStay
  <2>8. IsFiniteSet(movements')
    BY <2>1, FS_AddElement DEF IInv, LedgerInv
  <2>9. ASSUME NEW b \in Branches
        PROVE  (stock[b] + Cardinality(SoldAt(b)))' = InitialStock
    <3>1. IsFiniteSet(SoldAt(b)) /\ Cardinality(SoldAt(b)) \in Nat
      BY FS_Subset, FS_CardinalityType DEF IInv, LedgerInv, SoldAt
    <3>2. stock[b] + Cardinality(SoldAt(b)) = InitialStock /\ stock[b] \in Nat
      BY DEF IInv, LedgerInv, RowsInv
    <3>3. CASE b = branch
      <4>1. SoldAt(b)' = SoldAt(b) \cup {row} /\ row \notin SoldAt(b)
        BY <1>1, <2>1, <2>3, <3>3 DEF IInv, RowsInv, OrdersStay, SoldAt, Placed
      <4>2. Cardinality(SoldAt(b)') = Cardinality(SoldAt(b)) + 1
        BY <3>1, <4>1, FS_AddElement
      <4>3. stock'[b] = stock[b] - 1
        BY <2>1, <3>3 DEF IInv, RowsInv
      <4> QED
        BY <3>1, <3>2, <4>2, <4>3
    <3>4. CASE b # branch
      <4>1. SoldAt(b)' = SoldAt(b)
        BY <1>1, <2>1, <3>4 DEF IInv, RowsInv, OrdersStay, SoldAt, Placed
      <4>2. stock'[b] = stock[b]
        BY <2>1, <3>4 DEF IInv, RowsInv
      <4> QED
        BY <3>2, <4>1, <4>2
    <3> QED
      BY <3>3, <3>4
  <2> QED
    BY <2>7, <2>8, <2>9 DEF IInv, LedgerInv
<1> QED
  BY <1>3, <1>4

-----------------------------------------------------------------------------
(* Every action keeps it. *)

(* No orders and no movements at first.                                      *)
LEMMA InitIInv == Init => IInv
<1> SUFFICES ASSUME Init PROVE IInv
  OBVIOUS
<1>1. InitialStock \in Nat
  BY BoundsAssumption
<1>2. RowsInv
  BY <1>1 DEF Init, RowsInv
<1>3. ASSUME NEW b \in Branches PROVE SoldAt(b) = {} /\ stock[b] = InitialStock
  BY DEF Init, SoldAt
<1>4. IsFiniteSet(movements) /\ Cardinality({}) = 0
  BY FS_EmptySet DEF Init
<1> QED
  BY <1>1, <1>2, <1>3, <1>4 DEF IInv, LedgerInv

(* An order only changes its status, in the way of the action. *)
LEMMA StatusOnly ==
  ASSUME IInv, NEW i \in Placed, NEW s \in {"confirmed", "preparing"},
         orders' = [orders EXCEPT ![i].status = s]
  PROVE  OrdersStay
<1>1. orders \in Seq(Order) /\ i \in 1..Len(orders) /\ Len(orders) \in Nat
  BY DEF IInv, RowsInv, Placed
<1>2. orders[i] \in Order
  BY <1>1
<1>3. [orders[i] EXCEPT !.status = s] \in Order
  BY <1>2 DEF Order
<1>4. orders' = [orders EXCEPT ![i] = [orders[i] EXCEPT !.status = s]]
  OBVIOUS
<1>5. orders' \in Seq(Order) /\ Len(orders') = Len(orders)
  BY <1>1, <1>3, <1>4
<1>6. ASSUME NEW j \in Placed PROVE orders'[j].branch = orders[j].branch
  <2>1. CASE j = i
    <3>1. orders'[j] = [orders[i] EXCEPT !.status = s]
      BY <1>1, <1>4, <2>1
    <3> QED
      BY <1>2, <2>1, <3>1 DEF Order
  <2>2. CASE j # i
    BY <1>1, <1>4, <2>2 DEF Placed
  <2> QED
    BY <2>1, <2>2
<1> QED
  BY <1>1, <1>5, <1>6 DEF OrdersStay

(* Where the orders are as they were, they keep branch and time.             *)
LEMMA NothingMoves ==
  ASSUME IInv, orders' = orders
  PROVE  OrdersStay
  BY DEF IInv, RowsInv, OrdersStay

(* A new order is appended, and nothing is taken from stock yet.             *)
LEMMA SubmitKeeps ==
  ASSUME IInv, NEW b \in Branches, NEW c \in Customers, NEW n \in Numbers,
         SubmitOrder(b, c, n)
  PROVE  IInv'
<1>1. [branch |-> b, customer |-> c, number |-> n, created |-> now,
       status |-> "pending"] \in Order
  BY DEF IInv, RowsInv, Order
<1>2. OrdersStay
  BY <1>1 DEF IInv, RowsInv, OrdersStay, SubmitOrder, Placed
<1> QED
  BY <1>2, KeepsLedger DEF SubmitOrder, IInv, RowsInv

(* The sweep changes statuses only.                                          *)
LEMMA SweepKeeps ==
  ASSUME IInv, Sweep
  PROVE  IInv'
<1>1. orders \in Seq(Order) /\ Len(orders) \in Nat /\ Placed = 1..Len(orders)
  BY DEF IInv, RowsInv, Placed
<1>2. ASSUME NEW i \in Placed
      PROVE  orders'[i] \in Order /\ orders'[i].branch = orders[i].branch
  <2>1. orders[i] \in Order
    BY <1>1
  <2>2. orders'[i] = IF i \in Overdue THEN [orders[i] EXCEPT !.status = "timeout"]
                     ELSE orders[i]
    BY DEF Sweep
  <2> QED
    BY <2>1, <2>2 DEF Order
<1>3. orders' \in [1..Len(orders) -> Order]
  BY <1>1, <1>2 DEF Sweep
<1>4. orders' \in Seq(Order) /\ Len(orders') = Len(orders)
  BY <1>1, <1>3
<1>5. OrdersStay
  BY <1>1, <1>2, <1>4 DEF OrdersStay
<1> QED
  BY <1>5, KeepsLedger DEF Sweep, IInv, RowsInv

(* Every step keeps the invariant.                                           *)
LEMMA NextIInv == IInv /\ [Next]_vars => IInv'
<1> SUFFICES ASSUME IInv, [Next]_vars PROVE IInv'
  OBVIOUS
<1>1. ASSUME NEW b \in Branches, NEW c \in Customers, AnswerDuplicate(b, c)
      PROVE  IInv'
  BY <1>1, NothingMoves, KeepsLedger DEF AnswerDuplicate, IInv, RowsInv
<1>2. ASSUME NEW b \in Branches, NEW c \in Customers, NEW n \in Numbers,
             SubmitOrder(b, c, n)
      PROVE  IInv'
  BY <1>2, SubmitKeeps
<1>3. ASSUME NEW i \in Placed, Accept(i) PROVE IInv'
  BY <1>3, StatusOnly, Deducts DEF Accept, IInv, RowsInv
<1>4. ASSUME NEW i \in Placed, Settle(i) PROVE IInv'
  BY <1>4, NothingMoves, Deducts DEF Settle, IInv, RowsInv
<1>5. ASSUME NEW i \in Placed, Prepare(i) PROVE IInv'
  BY <1>5, StatusOnly, KeepsLedger DEF Prepare, IInv, RowsInv
<1>6. CASE Sweep
  BY <1>6, SweepKeeps
<1>7. CASE Tick
  BY <1>7, NothingMoves, KeepsLedger DEF Tick, IInv, RowsInv
<1>8. CASE UNCHANGED vars
  BY <1>8, NothingMoves, KeepsLedger DEF vars, IInv, RowsInv
<1> QED
  BY <1>1, <1>2, <1>3, <1>4, <1>5, <1>6, <1>7, <1>8 DEF Next

(* The invariant holds in every reachable state.                             *)
LEMMA Inductive == Spec => []IInv
  BY InitIInv, NextIInv, PTL DEF Spec

-----------------------------------------------------------------------------
(* The ledger of sale deductions explains what every branch's stock has lost, *)
(* whatever numbers the orders drew: a reused number may keep an order from   *)
(* being deducted, but never makes row and stock disagree                    *)
(* (deductStockForSettledOrder).                                             *)
THEOREM LedgerExplainsStock == Spec => []LedgerMatchesStock
<1>1. IInv => LedgerMatchesStock
  BY DEF IInv, LedgerInv, LedgerMatchesStock, SoldAt
<1> QED
  BY <1>1, Inductive, PTL

(* The sweep never closes an order before the platform's deadline has passed, *)
(* although it compares the texts of two different spellings.                *)
THEOREM TimeoutsAreNeverEarly == Spec => NeverEarly
<1> DEFINE A == \A i \in Placed :
                  orders[i].status = "pending" /\ orders'[i].status = "timeout" =>
                      now >= orders[i].created + Timeout
<1>1. ASSUME IInv, [Next]_vars PROVE [A]_vars
  <2> SUFFICES ASSUME NEW i \in Placed, orders[i].status = "pending",
                      orders'[i].status = "timeout"
               PROVE  now >= orders[i].created + Timeout
    OBVIOUS
  <2>1. /\ orders \in Seq(Order) /\ Len(orders) \in Nat /\ i \in 1..Len(orders)
        /\ now \in Nat /\ orders[i] \in Order
    BY <1>1 DEF IInv, RowsInv, Placed
  <2>2. orders'[i] # orders[i]
    OBVIOUS
  <2>3. ASSUME NEW b \in Branches, NEW c \in Customers, NEW n \in Numbers,
               SubmitOrder(b, c, n)
        PROVE  FALSE
    BY <2>1, <2>2, <2>3 DEF SubmitOrder
  <2>4. ASSUME NEW j \in Placed, Accept(j) \/ Prepare(j) PROVE FALSE
    <3>1. PICK s \in {"confirmed", "preparing"} :
                orders' = [orders EXCEPT ![j].status = s]
      BY <2>4 DEF Accept, Prepare
    <3>2. orders'[i] = orders[i] \/ orders'[i].status = s
      BY <2>1, <3>1
    <3> QED
      BY <2>2, <3>2
  <2>5. Sweep
    BY <1>1, <2>2, <2>3, <2>4 DEF Next, vars, AnswerDuplicate, Settle, Tick
  <2>6. i \in Overdue
    BY <2>2, <2>5 DEF Sweep
  <2>7. (orders[i].created + DayLength) \div DayLength
            < (now + DayLength - Timeout) \div DayLength
    BY <2>6 DEF Overdue, TextLeq, CreatedText, Ago, IsoText, SqlText
  <2>8. /\ orders[i].created \in Nat
        /\ DayLength \in Nat \ {0} /\ Timeout \in Nat /\ Timeout < DayLength
    BY <2>1, ClockAssumption DEF Order
  <2>9. /\ orders[i].created + DayLength \in Nat
        /\ now + DayLength - Timeout \in Nat
    BY <2>1, <2>8
  <2>10. orders[i].created + DayLength < now + DayLength - Timeout
    BY <2>7, <2>8, <2>9, Later
  <2> QED
    BY <2>1, <2>8, <2>10
<1> QED
  BY <1>1, Inductive, PTL DEF Spec, NeverEarly

(* A second order of the same customer at the same branch is inserted only    *)
(* when the window of the first is over (findRecentDuplicateOrder).          *)
THEOREM DoubleTapsMakeOneOrder == Spec => NoDoubleOrder
<1> DEFINE A == Len(orders') > Len(orders) =>
                  LET new == orders'[Len(orders')] IN
                  \A i \in Placed :
                      /\ orders[i].branch = new.branch
                      /\ orders[i].customer = new.customer
                      /\ orders[i].status \in {"pending", "confirmed"}
                      => now > orders[i].created + Window
<1>1. ASSUME IInv, [Next]_vars PROVE [A]_vars
  <2> SUFFICES ASSUME Len(orders') > Len(orders), NEW i \in Placed,
                      orders[i].branch = orders'[Len(orders')].branch,
                      orders[i].customer = orders'[Len(orders')].customer,
                      orders[i].status \in {"pending", "confirmed"}
               PROVE  now > orders[i].created + Window
    OBVIOUS
  <2>1. /\ orders \in Seq(Order) /\ Len(orders) \in Nat /\ i \in 1..Len(orders)
        /\ now \in Nat /\ orders[i] \in Order
    BY <1>1 DEF IInv, RowsInv, Placed
  <2>2. ASSUME NEW j \in Placed, Accept(j) \/ Prepare(j) PROVE FALSE
    BY <2>1, <2>2 DEF Accept, Prepare, Placed
  <2>3. ~Sweep
    <3> SUFFICES ASSUME Sweep PROVE FALSE
      OBVIOUS
    <3>1. DOMAIN orders' = 1..Len(orders)
      BY DEF Sweep, Placed
    <3>2. Len(orders') = Len(orders)
      BY <1>1, SweepKeeps, <2>1, <3>1 DEF IInv, RowsInv
    <3> QED
      BY <2>1, <3>2
  <2>4. PICK b \in Branches, c \in Customers, n \in Numbers : SubmitOrder(b, c, n)
    BY <1>1, <2>1, <2>2, <2>3 DEF Next, vars, AnswerDuplicate, Settle, Tick
  <2>5. orders[i].branch = b /\ orders[i].customer = c
    BY <2>1, <2>4 DEF SubmitOrder
  <2>6. ~TextLeq(Ago(Window), CreatedText(i))
    BY <2>4, <2>5 DEF SubmitOrder, Duplicates
  <2>7. /\ orders[i].created \in Nat
        /\ DayLength \in Nat \ {0} /\ Window \in Nat /\ Window < DayLength
    BY <2>1, ClockAssumption DEF Order
  <2>8. /\ now + DayLength - Window \in Nat
        /\ orders[i].created + DayLength \in Nat
    BY <2>1, <2>7
  <2>9. /\ (now + DayLength - Window) \div DayLength \in Nat
        /\ (orders[i].created + DayLength) \div DayLength \in Nat
    BY <2>7, <2>8, DivBound
  <2>10. (orders[i].created + DayLength) \div DayLength
             < (now + DayLength - Window) \div DayLength
    BY <2>6, <2>9 DEF TextLeq, CreatedText, Ago, IsoText, SqlText
  <2>11. orders[i].created + DayLength < now + DayLength - Window
    BY <2>7, <2>8, <2>10, Later
  <2> QED
    BY <2>1, <2>7, <2>11
<1> QED
  BY <1>1, Inductive, PTL DEF Spec, NoDoubleOrder
=============================================================================
