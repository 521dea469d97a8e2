------------------------------- MODULE PosBill -------------------------------
(***************************************************************************)
(* The bills of a branch's dine-in tables at the cashier's till: a held    *)
(* bill is placed as an order, edited until the branch accepts it, added   *)
(* to while it is open, divided into checks and paid in one of three ways:  *)
(* check by check (payCheck), as a whole (settle-cash) or together with     *)
(* the bills of other tables (payment group).                               *)
(*                                                                         *)
(* Money is recorded in three places that no single transaction writes:     *)
(* the cash of the cashier's shift, the payments of the checks, and the     *)
(* one row of order_payments, which the order is settled by.  That row is   *)
(* written pending, with the total of the day the bill was placed.          *)
(*                                                                         *)
(* Handlers do not await between reading and writing, so each is one step,  *)
(* except where it commits twice: the process may die in between.  Amounts  *)
(* are small units; items are left to the amount they are charged at.  The  *)
(* cashier has an open shift (CashDelivery has shifts that close).          *)
(*                                                                         *)
(* Settling an order seats its guests in a nested transaction, and a refusal *)
(* is swallowed after its ROLLBACK: the settlement of one bill is then gone   *)
(* though it answers success (a step that changes nothing here), the final   *)
(* settlement of payCheck is gone and the check's payment stays               *)
(* (PayCheckCrash), and a group is torn apart (SettleGroupUnseated).          *)
(***************************************************************************)
EXTENDS Integers, FiniteSets, FiniteSetsExt

CONSTANTS Bills,        \* dine-in bills of one branch and brand
          Largest,      \* bound on the total of each bill
          MaxNumber     \* bound on the numbers of a bill's checks

ASSUME BillsAssumption ==
    /\ Largest \in [Bills -> Nat \ {0}]
    /\ MaxNumber \in Nat \ {0}

VARIABLES
    order,      \* status of the order of each bill; "none" before it is held
    total,      \* orders.grand_total
    payment,    \* the row of order_payments
    checks,     \* pos_order_checks by check number, with what was paid on each
    card,       \* payments of the checks that were not cash
    drawer,     \* cash of the bill counted into a shift's cash sales
    addition,   \* amount of the addition that awaits the branch; 0: none
    group,      \* is the bill in a payment group, and was that settled?
    torn        \* history: bills of a group that a refused seating tore apart

vars == <<order, total, payment, checks, card, drawer, addition, group, torn>>

Numbers == 1..MaxNumber
Amounts(b) == 1..Largest[b]
Check == [alloc : Nat, paid : Nat, status : {"open", "paid"}]
NoChecks == [n \in {} |-> [alloc |-> 0, paid |-> 0, status |-> "open"]]

TypeOK ==
    /\ order \in [Bills -> {"none", "pending", "accepted", "completed", "dropped"}]
    /\ total \in [Bills -> Nat]
    /\ payment \in [Bills -> [status : {"pending", "settlement"}, amount : Nat]]
    /\ DOMAIN checks = Bills
    /\ \A b \in Bills : DOMAIN checks[b] \subseteq Numbers /\ checks[b] \in [DOMAIN checks[b] -> Check]
    /\ card \in [Bills -> Nat]
    /\ drawer \in [Bills -> Nat]
    /\ addition \in [Bills -> Nat]
    /\ group \in [Bills -> {"no", "open", "settled"}]
    /\ torn \subseteq Bills

Init ==
    /\ order = [b \in Bills |-> "none"]
    /\ total = [b \in Bills |-> 0]
    /\ payment = [b \in Bills |-> [status |-> "pending", amount |-> 0]]
    /\ checks = [b \in Bills |-> NoChecks]
    /\ card = [b \in Bills |-> 0]
    /\ drawer = [b \in Bills |-> 0]
    /\ addition = [b \in Bills |-> 0]
    /\ group = [b \in Bills |-> "no"]
    /\ torn = {}

-----------------------------------------------------------------------------
(* Checks: PosBillRepository and what the services compute from it. *)

Used(b) == DOMAIN checks[b]
NewCheck(v) == [alloc |-> v, paid |-> 0, status |-> "open"]
Untouched(c) == c.status = "open" /\ c.paid = 0

\* findOrderPaidAmount: the payments of all checks of an order.
PaidOf(cs) == MapThenSumSet(LAMBDA n : cs[n].paid, DOMAIN cs)
AllocatedOf(cs) == MapThenSumSet(LAMBDA n : cs[n].alloc, DOMAIN cs)

\* getOrderChecks: an order without checks gets check 1, for all of it.
WholeBill(b) == [n \in {1} |-> NewCheck(total[b])]
Opened(b) == IF checks[b] = NoChecks THEN WholeBill(b) ELSE checks[b]

NextNumber(cs) == Max(DOMAIN cs) + 1

\* Check n gives the amount v to a new check.
Divided(cs, n, v) ==
    [k \in DOMAIN cs \cup {NextNumber(cs)} |->
        IF k = NextNumber(cs) THEN NewCheck(v)
        ELSE IF k = n THEN [cs[n] EXCEPT !.alloc = @ - v]
        ELSE cs[k]]

Without(cs, S) == [k \in DOMAIN cs \ S |-> cs[k]]

-----------------------------------------------------------------------------
(* The life of the order, as far as its bill depends on it. *)

\* POST /pos/held-orders: the bill is held, and placed as a pending order with
\* a pending payment of its total.
Hold(b, v) ==
    /\ order[b] = "none"
    /\ order' = [order EXCEPT ![b] = "pending"]
    /\ total' = [total EXCEPT ![b] = v]
    /\ payment' = [payment EXCEPT ![b].amount = v]
    /\ UNCHANGED <<checks, card, drawer, addition, group, torn>>

\* A slip of the next action: the order may have been accepted meanwhile.
EditAccepted(b, v) ==
    /\ order[b] \in {"pending", "accepted"}
    /\ Cardinality(Used(b)) <= 1
    /\ \A n \in Used(b) : Untouched(checks[b][n])
    /\ total' = [total EXCEPT ![b] = v]
    /\ checks' = [checks EXCEPT ![b] = [n \in Used(b) |-> NewCheck(v)]]
    /\ UNCHANGED <<order, payment, card, drawer, addition, group, torn>>

\* PUT /pos/held-orders: the items are replaced, and the one check is made to
\* hold them; the pending payment keeps the amount it was placed with.
Edit(b, v) ==
    /\ order[b] = "pending"
    /\ Cardinality(Used(b)) <= 1
    /\ \A n \in Used(b) : Untouched(checks[b][n])
    /\ total' = [total EXCEPT ![b] = v]
    /\ checks' = [checks EXCEPT ![b] = [n \in Used(b) |-> NewCheck(v)]]
    /\ UNCHANGED <<order, payment, card, drawer, addition, group, torn>>

\* The branch accepts; the kitchen's progress up to ready changes nothing here.
Accept(b) ==
    /\ order[b] = "pending"
    /\ order' = [order EXCEPT ![b] = "accepted"]
    /\ UNCHANGED <<total, payment, checks, card, drawer, addition, group, torn>>

\* The cashier deletes the held bill, the branch rejects it, or nobody accepts
\* it in time: refused only for an order that is settled.
Drop(b) ==
    /\ order[b] = "pending"
    /\ payment[b].status # "settlement"
    /\ order' = [order EXCEPT ![b] = "dropped"]
    /\ UNCHANGED <<total, payment, checks, card, drawer, addition, group, torn>>

\* A manager completes the order, paid or not.
Complete(b) ==
    /\ order[b] = "accepted"
    /\ order' = [order EXCEPT ![b] = "completed"]
    /\ UNCHANGED <<total, payment, checks, card, drawer, addition, group, torn>>

-----------------------------------------------------------------------------
(* Additions to an open bill: OrderAdditionService. *)

TakesAdditions(b) == order[b] \in {"pending", "accepted"}

\* Cashier or guest asks for more (at most one request at a time waits here).
SubmitAddition(b, v) ==
    /\ TakesAdditions(b)
    /\ addition[b] = 0
    /\ total[b] + v <= Largest[b]
    /\ addition' = [addition EXCEPT ![b] = v]
    /\ UNCHANGED <<order, total, payment, checks, card, drawer, group, torn>>

\* The only check takes the addition if nothing was paid on it, else a new one.
WithAddition(cs, v) ==
    CASE cs = NoChecks -> cs
      [] \E n \in DOMAIN cs : DOMAIN cs = {n} /\ Untouched(cs[n]) ->
            [n \in DOMAIN cs |-> NewCheck(cs[n].alloc + v)]
      [] OTHER ->
            [k \in DOMAIN cs \cup {NextNumber(cs)} |->
                IF k = NextNumber(cs) THEN NewCheck(v) ELSE cs[k]]

AcceptAddition(b) ==
    /\ TakesAdditions(b)
    /\ addition[b] > 0
    /\ DOMAIN WithAddition(checks[b], addition[b]) \subseteq Numbers
    /\ total[b] + addition[b] <= Largest[b]
    /\ total' = [total EXCEPT ![b] = @ + addition[b]]
    /\ checks' = [checks EXCEPT ![b] = WithAddition(checks[b], addition[b])]
    /\ addition' = [addition EXCEPT ![b] = 0]
    /\ UNCHANGED <<order, payment, card, drawer, group, torn>>

RejectAddition(b) ==
    /\ TakesAdditions(b)
    /\ addition[b] > 0
    /\ addition' = [addition EXCEPT ![b] = 0]
    /\ UNCHANGED <<order, total, payment, checks, card, drawer, group, torn>>

-----------------------------------------------------------------------------
(* Dividing the bill.  Each handler reads the checks with getOrderChecks,   *)
(* which creates check 1 even if the handler then refuses; none of them      *)
(* looks at the order's status or at its payment.                            *)

OnlyChecks(b, cs) ==
    /\ order[b] # "none"
    /\ DOMAIN cs \subseteq Numbers
    /\ checks' = [checks EXCEPT ![b] = cs]
    /\ UNCHANGED <<order, total, payment, card, drawer, addition, group, torn>>

OpenChecks(b) == OnlyChecks(b, Opened(b))

\* A slip of the next action: the check may have less than v left.
SplitByAmountUnchecked(b, n, v) ==
    LET cs == Opened(b) IN
    /\ n \in DOMAIN cs
    /\ cs[n].status = "open"
    /\ OnlyChecks(b, Divided(cs, n, v))

SplitByAmount(b, n, v) ==
    LET cs == Opened(b) IN
    /\ n \in DOMAIN cs
    /\ cs[n].status = "open"
    /\ v < cs[n].alloc - cs[n].paid
    /\ OnlyChecks(b, Divided(cs, n, v))

\* The items worth v move: they are less than the check is for, and unpaid.
SplitItems(b, n, v) ==
    LET cs == Opened(b) IN
    /\ n \in DOMAIN cs
    /\ Untouched(cs[n])
    /\ v < cs[n].alloc
    /\ OnlyChecks(b, Divided(cs, n, v))

\* A slip of the next action: the remainder of the division is lost.
SplitEvenlyRounded(b, n, parts) ==
    LET cs == Opened(b)
        base == cs[n].alloc \div parts
        first == NextNumber(cs)
    IN  /\ n \in DOMAIN cs
        /\ Untouched(cs[n])
        /\ base > 0
        /\ OnlyChecks(b, [k \in DOMAIN cs \cup first..(first + parts - 2) |->
                             IF k \in DOMAIN cs \ {n} THEN cs[k] ELSE NewCheck(base)])

\* Equal parts; the source keeps the remainder.
SplitEvenly(b, n, parts) ==
    LET cs == Opened(b)
        base == cs[n].alloc \div parts
        first == NextNumber(cs)
    IN  /\ n \in DOMAIN cs
        /\ Untouched(cs[n])
        /\ base > 0
        /\ OnlyChecks(b, [k \in DOMAIN cs \cup first..(first + parts - 2) |->
                             CASE k = n -> NewCheck(base + (cs[n].alloc % parts))
                               [] k \in DOMAIN cs \ {n} -> cs[k]
                               [] OTHER -> NewCheck(base)])

\* A slip of the next action: the source may have been paid on.  Deleting a
\* check deletes its payments (ON DELETE CASCADE).
MergePaid(b, target, source) ==
    LET cs == Opened(b) IN
    /\ target # source
    /\ {target, source} \subseteq DOMAIN cs
    /\ Untouched(cs[target])
    /\ cs[source].status = "open"
    /\ OnlyChecks(b, Without([cs EXCEPT ![target].alloc = @ + cs[source].alloc], {source}))

Merge(b, target, source) ==
    LET cs == Opened(b) IN
    /\ target # source
    /\ {target, source} \subseteq DOMAIN cs
    /\ Untouched(cs[target])
    /\ Untouched(cs[source])
    /\ OnlyChecks(b, Without([cs EXCEPT ![target].alloc = @ + cs[source].alloc], {source}))

\* Everything goes back to check 1, which a merge may have deleted.
Reset(b) ==
    LET cs == Opened(b) IN
    /\ Cardinality(DOMAIN cs) > 1
    /\ 1 \in DOMAIN cs
    /\ \A n \in DOMAIN cs : Untouched(cs[n])
    /\ OnlyChecks(b, [n \in {1} |-> NewCheck(AllocatedOf(cs))])

-----------------------------------------------------------------------------
(* Settling the order: CashSettlementService.settleCashPayment. *)

AlreadySettled(b) == payment[b].status = "settlement" /\ payment[b].amount = total[b]

\* Not accepted (or completed, at a table), or SETTLEMENT_AMOUNT_MISMATCH: the
\* row of order_payments is for another amount, and is not an earlier part.
SettlementRefused(b) ==
    \/ order[b] # "accepted"
    \/ payment[b].status = "pending" /\ payment[b].amount # total[b]
    \/ payment[b].status = "settlement" /\ payment[b].amount > total[b]

Settled(b) == [status |-> "settlement", amount |-> total[b]]
Prior(b) == IF payment[b].status = "settlement" THEN payment[b].amount ELSE 0

\* POST /pos/orders/:id/settle-cash: what the order's payment does not cover
\* is counted into the shift; what was paid on its checks is not looked at.
SettleCash(b) ==
    /\ ~SettlementRefused(b)
    /\ ~AlreadySettled(b)
    /\ drawer' = [drawer EXCEPT ![b] = @ + (total[b] - Prior(b))]
    /\ payment' = [payment EXCEPT ![b] = Settled(b)]
    /\ UNCHANGED <<order, total, checks, card, addition, group, torn>>

-----------------------------------------------------------------------------
(* Paying a check: PosOrderService.payCheck. *)

Payable(b, n, v) ==
    /\ n \in Used(b)
    /\ checks[b][n].status = "open"
    /\ v <= checks[b][n].alloc - checks[b][n].paid
    /\ PaidOf(checks[b]) + v <= total[b]

PaidOn(c, v) ==
    [c EXCEPT !.paid = @ + v, !.status = IF c.paid + v >= c.alloc THEN "paid" ELSE @]

\* The first transaction: cash into the shift, the payment and its check.
Contribute(b, n, v, cash) ==
    /\ Payable(b, n, v)
    /\ checks' = [checks EXCEPT ![b][n] = PaidOn(@, v)]
    /\ drawer' = [drawer EXCEPT ![b] = IF cash THEN @ + v ELSE @]
    /\ card' = [card EXCEPT ![b] = IF cash THEN @ ELSE @ + v]

\* When the checks cover the order and all of it was cash, the order is settled
\* without counting the cash again.
FinalizesMixed(b) == PaidOf(checks'[b]) >= total[b] /\ ~SettlementRefused(b)
Finalizes(b) ==
    /\ PaidOf(checks'[b]) >= total[b]
    /\ card'[b] = 0
    /\ ~SettlementRefused(b)

PayCheck(b, n, v, cash) ==
    /\ Contribute(b, n, v, cash)
    /\ payment' = IF Finalizes(b) THEN [payment EXCEPT ![b] = Settled(b)] ELSE payment
    /\ UNCHANGED <<order, total, addition, group, torn>>

\* The process dies between the check's transaction and the settlement, or the
\* settlement is rolled back because the guests cannot be seated.
PayCheckCrash(b, n, v, cash) ==
    /\ Contribute(b, n, v, cash)
    /\ UNCHANGED <<order, total, payment, addition, group, torn>>

-----------------------------------------------------------------------------
(* Paying several bills at once: PosPaymentGroupService. *)

Groupable(b) ==
    /\ order[b] = "accepted"
    /\ payment[b].status # "settlement"
    /\ PaidOf(checks[b]) = 0
    /\ Cardinality(Used(b)) <= 1
    /\ group[b] # "open"

\* createGroup commits, and the second transaction is refused or never starts:
\* too little money, a member that cannot be settled, a crash.  No endpoint
\* settles or closes a group that exists.
GroupLeftOpen(S) ==
    /\ \A b \in S : Groupable(b)
    /\ checks' = [b \in Bills |-> IF b \in S THEN Opened(b) ELSE checks[b]]
    /\ group' = [b \in Bills |-> IF b \in S THEN "open" ELSE group[b]]
    /\ UNCHANGED <<order, total, payment, card, drawer, addition, torn>>

\* A slip of the next action: a member that cannot be settled is passed over.
SettleGroupPassing(S) ==
    /\ \A b \in S : Groupable(b)
    /\ checks' = [b \in Bills |-> IF b \in S
                    THEN [n \in DOMAIN Opened(b) |-> PaidOn(Opened(b)[n], total[b])]
                    ELSE checks[b]]
    /\ drawer' = [b \in Bills |-> IF b \in S THEN drawer[b] + total[b] ELSE drawer[b]]
    /\ payment' = [b \in Bills |-> IF b \in S /\ ~SettlementRefused(b) THEN Settled(b) ELSE payment[b]]
    /\ group' = [b \in Bills |-> IF b \in S THEN "settled" ELSE group[b]]
    /\ UNCHANGED <<order, total, card, addition, torn>>

\* The group's total is counted into the shift once; every member is settled
\* and its one check paid, in one transaction.
SettleGroup(S) ==
    /\ \A b \in S : Groupable(b) /\ ~SettlementRefused(b)
    /\ checks' = [b \in Bills |-> IF b \in S
                    THEN [n \in DOMAIN Opened(b) |-> PaidOn(Opened(b)[n], total[b])]
                    ELSE checks[b]]
    /\ drawer' = [b \in Bills |-> IF b \in S THEN drawer[b] + total[b] ELSE drawer[b]]
    /\ payment' = [b \in Bills |-> IF b \in S THEN Settled(b) ELSE payment[b]]
    /\ group' = [b \in Bills |-> IF b \in S THEN "settled" ELSE group[b]]
    /\ UNCHANGED <<order, total, card, addition, torn>>

\* The guests of one member cannot be seated: the seating's ROLLBACK undoes all
\* that the group's transaction has written, the increment of the shift too, and
\* the refusal is swallowed.  The members after it, T, are settled without a
\* transaction and without counting their cash; then the group is settled
\* (ends), or one of them is refused, or the process dies, and it stays open.
SettleGroupUnseated(S, T, ends) ==
    /\ \A b \in S : Groupable(b)
    /\ T \subseteq S
    /\ \A b \in T : ~SettlementRefused(b)
    /\ \E b \in S \ T : ~SettlementRefused(b)
    /\ ends => \A b \in S : ~SettlementRefused(b)
    /\ checks' = [b \in Bills |->
                    CASE b \in T -> [n \in DOMAIN Opened(b) |-> PaidOn(Opened(b)[n], total[b])]
                      [] b \in S \ T -> Opened(b)
                      [] OTHER -> checks[b]]
    /\ payment' = [b \in Bills |-> IF b \in T THEN Settled(b) ELSE payment[b]]
    /\ group' = [b \in Bills |-> IF b \notin S THEN group[b] ELSE IF ends THEN "settled" ELSE "open"]
    /\ torn' = torn \cup S
    /\ UNCHANGED <<order, total, card, drawer, addition>>

-----------------------------------------------------------------------------
Next ==
    \/ \E b \in Bills :
        \/ Accept(b) \/ Drop(b) \/ Complete(b)
        \/ AcceptAddition(b) \/ RejectAddition(b)
        \/ OpenChecks(b) \/ Reset(b) \/ SettleCash(b)
        \/ \E v \in Amounts(b) : Hold(b, v) \/ Edit(b, v) \/ SubmitAddition(b, v)
        \/ \E n \in Numbers, v \in Amounts(b) :
            \/ SplitByAmount(b, n, v) \/ SplitItems(b, n, v)
            \/ \E cash \in BOOLEAN :
                PayCheck(b, n, v, cash) \/ PayCheckCrash(b, n, v, cash)
        \/ \E n \in Numbers, parts \in 2..MaxNumber : SplitEvenly(b, n, parts)
        \/ \E target, source \in Numbers : Merge(b, target, source)
    \/ \E S \in SUBSET Bills :
        /\ Cardinality(S) >= 2
        /\ \/ GroupLeftOpen(S) \/ SettleGroup(S)
           \/ \E T \in SUBSET S, ends \in BOOLEAN : SettleGroupUnseated(S, T, ends)

Spec == Init /\ [][Next]_vars

-----------------------------------------------------------------------------
(* However the bill was edited, added to, divided, merged and paid, its      *)
(* checks share exactly its total, and none has received more than its share *)
(* or is closed before it has received all of it.                            *)
ChecksShareTheBill ==
    \A b \in Bills : checks[b] # NoChecks =>
        /\ AllocatedOf(checks[b]) = total[b]
        /\ \A n \in Used(b) :
            /\ checks[b][n].paid <= checks[b][n].alloc
            /\ checks[b][n].status = "paid" <=> checks[b][n].paid = checks[b][n].alloc

(* All money taken for a bill is on record, in the payments of its checks or *)
(* in the payment of the order: no merge or reset loses any of it.           *)
TakenIsRecorded ==
    \A b \in Bills : drawer[b] + card[b] <= PaidOf(checks[b]) + Prior(b)

(* An order is settled in cash only for cash that was counted into a shift,  *)
(* whichever of the three ways settled it and whatever was added since; but  *)
(* not in a group torn apart, whose members are settled with no cash counted. *)
CashCoversSettlement ==
    \A b \in Bills \ torn : Prior(b) <= drawer[b]

(* What was settled never exceeds the bill: a settled bill can be added to,  *)
(* but nothing that was paid for can be taken off it.                        *)
SettledWithinBill ==
    \A b \in Bills : Prior(b) <= total[b]

(* The bills of a payment group are settled together: no member of a settled *)
(* group is left unsettled, unless a refused seating tore the group apart.    *)
GroupedIsSettled ==
    \A b \in Bills \ torn : group[b] = "settled" => payment[b].status = "settlement"

=============================================================================
