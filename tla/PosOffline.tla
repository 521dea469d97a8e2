---- MODULE PosOffline ----
(* Cash sales of one cashier's browser, at a branch whose core cannot always  *)
(* be reached: the sale at the core, its fall back to the browser's store,    *)
(* the runs that send the store to the core, and the core's own queue.        *)
(* apps/pos-app: pos-app.js, PosOfflineStore.js;                              *)
(* domains/pos: PosLocalOperationService, OfflineReconciliationService.       *)
(* Every sale is of one unit at one price, under its own                      *)
(* client_transaction_id.                                                     *)
EXTENDS Naturals, Sequences, FiniteSets

CONSTANTS
    Sales,          \* client_transaction_ids
    Runs,           \* runs of syncBrowserOfflineOutbox that may overlap
    InitialStock,
    MaxTerminals,   \* bound: terminals registered for the branch, one after another
    MaxShifts,      \* bound: shifts opened
    MaxCrashes,     \* bound: restarts of the core or reloads of the page
    HandSettling    \* whether the cashier settles orders that are shown unpaid

ASSUME OfflineAssumption ==
    /\ InitialStock \in Nat
    /\ MaxTerminals \in Nat \ {0}
    /\ MaxShifts \in Nat \ {0}
    /\ MaxCrashes \in Nat
    /\ HandSettling \in BOOLEAN
    /\ Runs \cap {"page", "nobody"} = {}
    /\ "none" \notin Sales

VARIABLES
    \* the browser
    stage,      \* of a sale at the till: new, asked, yes, no, handed, dropped
    op,         \* the terminal and the shift in a sale's payload
    saved,      \* the operations of the IndexedDB store, in order of created_at
    sync,       \* their sync_state
    app,        \* state.terminalId, state.shift, state.offlineSyncInFlight
    run,        \* the runs of the outbox: where, what is left to send, what is sent, the answer
    \* in between
    wire,       \* requests sent and not processed, and from whom, if anyone still
                \* listens; one that is lost stays here
    \* the core
    terminal,   \* the active terminal of the branch
    shift,      \* the open shift, 0 when none is
    opened,     \* how many shifts were opened
    stock,
    elsewhere,  \* units sold by the orders of other channels
    order,      \* of a sale: none, unpaid (confirmed, payment pending), paid
    drawer,     \* how often a sale's cash was added to a shift
    queue,      \* pos_sync_queue: none, pending, syncing, synced, conflict
    crashes,
    unseated    \* history: sales answered as made whose settlement a refused
                \* seating of their guests had rolled back

browser == <<stage, op, saved, sync, app, run>>
core == <<terminal, shift, opened, stock, elsewhere, order, drawer, queue>>
vars == <<browser, wire, core, crashes, unseated>>

Stages == {"new", "asked", "yes", "no", "handed", "dropped"}
Payloads == [terminal : 0..MaxTerminals, shift : 0..MaxShifts]
RunStates ==
    [at : {"idle", "listing", "ready", "waiting"}, todo : SUBSET Sales,
     sale : Sales \cup {"none"}, got : {"", "yes", "no"}]
Requests ==
    [kind : {"sale"}, sale : Sales, from : {"page", "nobody"}]
        \cup [kind : {"local"}, sale : Sales, from : Runs \cup {"nobody"}]
        \cup [kind : {"outbox"}, terminal : 1..MaxTerminals]

Idle == [at |-> "idle", todo |-> {}, sale |-> "none", got |-> ""]

Stored == {saved[i] : i \in 1..Len(saved)}

Init ==
    /\ stage = [s \in Sales |-> "new"]
    /\ op = [s \in Sales |-> [terminal |-> 0, shift |-> 0]]
    /\ saved = <<>>
    /\ sync = [s \in Sales |-> "none"]
    /\ app = [terminal |-> 1, shift |-> 0, busy |-> FALSE]
    /\ run = [r \in Runs |-> Idle]
    /\ wire = {}
    /\ terminal = 1
    /\ shift = 0
    /\ opened = 0
    /\ stock = InitialStock
    /\ elsewhere = 0
    /\ order = [s \in Sales |-> "none"]
    /\ drawer = [h \in 1..MaxShifts |-> [s \in Sales |-> 0]]
    /\ queue = [s \in Sales |-> "none"]
    /\ crashes = 0
    /\ unseated = {}

-----------------------------------------------------------------------------
(* The till: pos-app.js, confirmation of a cash sale                          *)

\* persistOfflineSale / createOfflineSale: the operation is stored under the
\* sale's id, and the cashier is told that the sale is safe.
Store(s, shiftOfSale) ==
    /\ stage' = [stage EXCEPT ![s] = "handed"]
    /\ op' = [op EXCEPT ![s] = [terminal |-> app.terminal, shift |-> shiftOfSale]]
    /\ saved' = Append(saved, s)
    /\ sync' = [sync EXCEPT ![s] = "PENDING_SYNC"]

\* The page knows it is offline: the sale goes to the store at once.
SellOffline(s) ==
    /\ stage[s] = "new"
    /\ app.shift # 0
    /\ Store(s, app.shift)
    /\ UNCHANGED <<app, run, wire, core, crashes, unseated>>

\* The sale is sent to POST /pos/sales.
SellOnline(s) ==
    /\ stage[s] = "new"
    /\ app.shift # 0
    /\ stage' = [stage EXCEPT ![s] = "asked"]
    /\ op' = [op EXCEPT ![s].shift = app.shift]
    /\ wire' = wire \cup {[kind |-> "sale", sale |-> s, from |-> "page"]}
    /\ UNCHANGED <<saved, sync, app, run, core, crashes, unseated>>

\* The answer arrives: the sale is made, or refused and shown as an error.
SaleAnswered(s) ==
    /\ stage[s] \in {"yes", "no"}
    /\ stage' = [stage EXCEPT ![s] = IF @ = "yes" THEN "handed" ELSE "dropped"]
    /\ UNCHANGED <<op, saved, sync, app, run, wire, core, crashes, unseated>>

\* Nobody listens any longer to the requests in R.
Unheard(R) == (wire \ R) \cup {[m EXCEPT !.from = "nobody"] : m \in R}

\* A slip of its: the cashier is told that the sale is safe, nothing is stored.
SaleUnreachableUnstored(s) ==
    /\ stage[s] \in {"asked", "yes", "no"}
    /\ stage' = [stage EXCEPT ![s] = "handed"]
    /\ wire' = Unheard(wire \cap {[kind |-> "sale", sale |-> s, from |-> "page"]})
    /\ UNCHANGED <<op, saved, sync, app, run, core, crashes, unseated>>

\* fetch fails before the answer arrives (isCoreUnreachableError): the sale
\* falls back to the store, under the same id, whether the core has it or not.
SaleUnreachable(s) ==
    /\ stage[s] \in {"asked", "yes", "no"}
    /\ Store(s, op[s].shift)
    /\ wire' = Unheard(wire \cap {[kind |-> "sale", sale |-> s, from |-> "page"]})
    /\ UNCHANGED <<app, run, core, crashes, unseated>>

-----------------------------------------------------------------------------
(* The outbox of the browser: syncBrowserOfflineOutbox                        *)

\* At boot and on every 'online' event. offlineSyncInFlight is tested here but
\* set only after two awaits, so that runs may overlap.
StartRun(r) ==
    /\ run[r].at = "idle"
    /\ ~app.busy
    /\ run' = [run EXCEPT ![r].at = "listing"]
    /\ UNCHANGED <<stage, op, saved, sync, app, wire, core, crashes, unseated>>

\* listPending: the operations of this terminal that wait or are being sent.
Pending ==
    {s \in Stored : op[s].terminal = app.terminal /\ sync[s] \in {"PENDING_SYNC", "SYNCING"}}

ListPending(r) ==
    /\ run[r].at = "listing"
    /\ IF Pending = {}
       THEN run' = [run EXCEPT ![r] = Idle] /\ UNCHANGED app
       ELSE /\ run' = [run EXCEPT ![r].at = "ready", ![r].todo = Pending]
            /\ app' = [app EXCEPT !.busy = TRUE]
    /\ UNCHANGED <<stage, op, saved, sync, wire, core, crashes, unseated>>

\* The operations are sent in the order of their created_at.
Before(s, t) == \E i, j \in 1..Len(saved) : i < j /\ saved[i] = s /\ saved[j] = t

\* markSyncing, and POST /pos/local/sale.
SendNext(r, s) ==
    /\ run[r].at = "ready"
    /\ s \in run[r].todo
    /\ \A t \in run[r].todo \ {s} : Before(s, t)
    /\ sync' = [sync EXCEPT ![s] = IF @ = "SYNCED" THEN @ ELSE "SYNCING"]
    /\ wire' = wire \cup {[kind |-> "local", sale |-> s, from |-> r]}
    /\ run' = [run EXCEPT ![r].at = "waiting", ![r].sale = s]
    /\ UNCHANGED <<stage, op, saved, app, core, crashes, unseated>>

\* The end of a run: the flag falls, the core is asked to work off its queue.
EndRun(r, requests) ==
    /\ run' = [run EXCEPT ![r] = Idle]
    /\ app' = [app EXCEPT !.busy = FALSE]
    /\ wire' = requests \cup {[kind |-> "outbox", terminal |-> app.terminal]}

Progress(r, s) ==
    /\ sync' = [sync EXCEPT ![s] = "SYNCED"]
    /\ IF run[r].todo = {s}
       THEN EndRun(r, wire)
       ELSE /\ run' = [run EXCEPT ![r] = [at |-> "ready", todo |-> @.todo \ {s},
                                          sale |-> "none", got |-> ""]]
            /\ UNCHANGED <<app, wire>>
    /\ UNCHANGED <<stage, op, saved, core, crashes, unseated>>

\* A slip of its: any answer is taken for a confirmation.
AcknowledgedByAnyAnswer(r, s) ==
    /\ run[r].at = "waiting" /\ run[r].sale = s
    /\ run[r].got # ""
    /\ Progress(r, s)

\* The core has the sale: markSynced, and on to the next, if there is one.
Acknowledged(r, s) ==
    /\ run[r].at = "waiting" /\ run[r].sale = s
    /\ run[r].got = "yes"
    /\ Progress(r, s)

\* Refused, or no answer. request() throws errors without a status, so that
\* every failure takes the last branch: requeue, and stop the run.
RunBroken(r, s) ==
    /\ run[r].at = "waiting" /\ run[r].sale = s
    /\ run[r].got # "yes"
    /\ sync' = [sync EXCEPT ![s] = "PENDING_SYNC"]
    /\ EndRun(r, Unheard(wire \cap {[kind |-> "local", sale |-> s, from |-> r]}))
    /\ UNCHANGED <<stage, op, saved, core, crashes, unseated>>

-----------------------------------------------------------------------------
(* The page itself                                                            *)

\* loadTerminal and loadShift, when the core answers: the branch's terminal,
\* whatever terminal this page worked as.
LoadCore ==
    /\ app' = [app EXCEPT !.terminal = terminal, !.shift = shift]
    /\ app' # app
    /\ UNCHANGED <<stage, op, saved, sync, run, wire, core, crashes, unseated>>

\* Reload: what was asked is not known, and the store is recovered: an
\* operation that was being sent waits again.
Reload ==
    /\ crashes < MaxCrashes
    /\ crashes' = crashes + 1
    /\ stage' = [s \in Sales |-> IF stage[s] \in {"asked", "yes", "no"} THEN "dropped" ELSE stage[s]]
    /\ sync' = [s \in Sales |-> IF sync[s] = "SYNCING" /\ op[s].terminal = app.terminal
                                THEN "PENDING_SYNC" ELSE sync[s]]
    /\ app' = [app EXCEPT !.busy = FALSE]
    /\ run' = [r \in Runs |-> Idle]
    /\ wire' = Unheard({m \in wire : m.kind # "outbox"})
    /\ UNCHANGED <<op, saved, core, unseated>>

-----------------------------------------------------------------------------
(* The core                                                                   *)

Reply(m, yes) ==
    /\ stage' = IF m.kind = "sale" /\ m.from = "page"
                THEN [stage EXCEPT ![m.sale] = IF yes THEN "yes" ELSE "no"] ELSE stage
    /\ run' = IF m.from \in Runs
              THEN [run EXCEPT ![m.from].got = IF yes THEN "yes" ELSE "no"] ELSE run
    /\ wire' = wire \ {m}

\* Cash of a sale is added to the open shift h (incrementCashSales).
Collect(h, s) == drawer' = [drawer EXCEPT ![h][s] = @ + 1]

\* POST /pos/sales refuses: no such open shift, or the gate finds no stock.
RefuseSale(m) ==
    /\ m \in wire /\ m.kind = "sale"
    /\ op[m.sale].shift # shift \/ stock = 0
    /\ Reply(m, FALSE)
    /\ UNCHANGED <<op, saved, sync, app, core, crashes, unseated>>

\* submitOrder in one transaction, settleCashPayment in a second. An order that
\* has the id already is found by the unique index and settled if it is not.
MakeSale(m) ==
    /\ m \in wire /\ m.kind = "sale"
    /\ op[m.sale].shift = shift /\ stock > 0
    /\ stock' = IF order[m.sale] = "none" THEN stock - 1 ELSE stock
    /\ order' = [order EXCEPT ![m.sale] = "paid"]
    /\ IF order[m.sale] = "paid" THEN UNCHANGED drawer ELSE Collect(shift, m.sale)
    /\ Reply(m, TRUE)
    /\ UNCHANGED <<op, saved, sync, app, terminal, shift, opened, elsewhere, queue, crashes, unseated>>

\* The guests cannot be seated: the nested ROLLBACK undoes the settlement, the
\* refusal is swallowed, and the sale is answered as made all the same.
MakeSaleUnseated(m) ==
    /\ m \in wire /\ m.kind = "sale"
    /\ op[m.sale].shift = shift /\ stock > 0 /\ order[m.sale] # "paid"
    /\ stock' = IF order[m.sale] = "none" THEN stock - 1 ELSE stock
    /\ order' = [order EXCEPT ![m.sale] = "unpaid"]
    /\ unseated' = IF m.from = "page" THEN unseated \cup {m.sale} ELSE unseated
    /\ Reply(m, TRUE)
    /\ UNCHANGED <<op, saved, sync, app, terminal, shift, opened, elsewhere, drawer, queue, crashes>>

\* A slip of its: the order is durable before its stock is taken.
MakeSaleCrashUntaken(m) ==
    /\ m \in wire /\ m.kind = "sale"
    /\ op[m.sale].shift = shift /\ stock > 0 /\ order[m.sale] = "none"
    /\ crashes < MaxCrashes
    /\ crashes' = crashes + 1
    /\ order' = [order EXCEPT ![m.sale] = "unpaid"]
    /\ wire' = wire \ {m}
    /\ UNCHANGED <<browser, terminal, shift, opened, stock, elsewhere, drawer, queue, unseated>>

\* The core stops between the two; its connections break.
MakeSaleCrash(m) ==
    /\ m \in wire /\ m.kind = "sale"
    /\ op[m.sale].shift = shift /\ stock > 0 /\ order[m.sale] = "none"
    /\ crashes < MaxCrashes
    /\ crashes' = crashes + 1
    /\ stock' = stock - 1
    /\ order' = [order EXCEPT ![m.sale] = "unpaid"]
    /\ wire' = wire \ {m}
    /\ UNCHANGED <<browser, terminal, shift, opened, elsewhere, drawer, queue, unseated>>

Authorized(m) == op[m.sale].terminal = terminal

\* recordOfflineSale finds the id in the queue and answers as before.
RepeatLocalSale(m) ==
    /\ m \in wire /\ m.kind = "local"
    /\ Authorized(m) /\ queue[m.sale] # "none"
    /\ Reply(m, TRUE)
    /\ UNCHANGED <<op, saved, sync, app, core, crashes, unseated>>

\* It refuses: the terminal was replaced, or, inside the transaction, the
\* order has the id already (unique index), no stock is left, the shift is closed.
RefuseLocalSale(m) ==
    /\ m \in wire /\ m.kind = "local"
    /\ \/ ~Authorized(m)
       \/ /\ queue[m.sale] = "none"
          /\ order[m.sale] # "none" \/ stock = 0 \/ op[m.sale].shift # shift
    /\ Reply(m, FALSE)
    /\ UNCHANGED <<op, saved, sync, app, core, crashes, unseated>>

\* The order, its unit of stock, its cash, a payment left pending, and an entry
\* of the queue, in one transaction.
RecordLocalSale(m) ==
    /\ m \in wire /\ m.kind = "local"
    /\ Authorized(m) /\ queue[m.sale] = "none"
    /\ order[m.sale] = "none" /\ stock > 0 /\ op[m.sale].shift = shift
    /\ order' = [order EXCEPT ![m.sale] = "unpaid"]
    /\ stock' = stock - 1
    /\ Collect(shift, m.sale)
    /\ queue' = [queue EXCEPT ![m.sale] = "pending"]
    /\ Reply(m, TRUE)
    /\ UNCHANGED <<op, saved, sync, app, terminal, shift, opened, elsewhere, crashes, unseated>>

\* syncOutboxQueue: an entry whose quantity is no longer in stock is a conflict;
\* the order of any other is found by its id, and the entry is synced.
Reconciled == IF stock = 0 THEN "conflict" ELSE "synced"

SyncOutbox(m) ==
    /\ m \in wire /\ m.kind = "outbox"
    /\ wire' = wire \ {m}
    /\ queue' = IF m.terminal = terminal
                THEN [s \in Sales |-> IF queue[s] = "pending" /\ op[s].terminal = terminal
                                      THEN Reconciled ELSE queue[s]]
                ELSE queue
    /\ UNCHANGED <<browser, terminal, shift, opened, stock, elsewhere, order, drawer, crashes, unseated>>

\* The core stops after it worked off the entries in done and marked s 'syncing'.
SyncOutboxCrash(m, s, done) ==
    /\ m \in wire /\ m.kind = "outbox"
    /\ crashes < MaxCrashes
    /\ crashes' = crashes + 1
    /\ m.terminal = terminal
    /\ \A t \in done \cup {s} : queue[t] = "pending" /\ op[t].terminal = terminal
    /\ queue' = [t \in Sales |-> IF t = s THEN "syncing"
                                ELSE IF t \in done THEN Reconciled ELSE queue[t]]
    /\ wire' = wire \ {m}
    /\ UNCHANGED <<browser, terminal, shift, opened, stock, elsewhere, order, drawer, unseated>>

-----------------------------------------------------------------------------
(* Everybody else                                                             *)

\* settle-cash on an order shown as unpaid, in the cashier's open shift. (If its
\* guests cannot be seated, this answers success and changes nothing.)
SettleByHand(s) ==
    /\ HandSettling
    /\ order[s] = "unpaid"
    /\ shift # 0
    /\ order' = [order EXCEPT ![s] = "paid"]
    /\ Collect(shift, s)
    /\ UNCHANGED <<browser, wire, terminal, shift, opened, stock, elsewhere, queue, crashes, unseated>>

\* An order of another channel takes a unit.
SellElsewhere ==
    /\ stock > 0
    /\ stock' = stock - 1
    /\ elsewhere' = elsewhere + 1
    /\ UNCHANGED <<browser, wire, terminal, shift, opened, order, drawer, queue, crashes, unseated>>

\* replaceTerminal: another device becomes the branch's only terminal.
ReplaceTerminal ==
    /\ terminal < MaxTerminals
    /\ terminal' = terminal + 1
    /\ UNCHANGED <<browser, wire, shift, opened, stock, elsewhere, order, drawer, queue, crashes, unseated>>

\* The shift is closed, by its cashier or a manager, on any device.
CloseShift ==
    /\ shift # 0
    /\ shift' = 0
    /\ UNCHANGED <<browser, wire, terminal, opened, stock, elsewhere, order, drawer, queue, crashes, unseated>>

OpenShift ==
    /\ shift = 0
    /\ opened < MaxShifts
    /\ opened' = opened + 1
    /\ shift' = opened + 1
    /\ UNCHANGED <<browser, wire, terminal, stock, elsewhere, order, drawer, queue, crashes, unseated>>

-----------------------------------------------------------------------------

Till(s) == SellOffline(s) \/ SellOnline(s) \/ SaleAnswered(s) \/ SaleUnreachable(s) \/ SettleByHand(s)

Outbox(r) ==
    \/ StartRun(r) \/ ListPending(r)
    \/ \E s \in Sales : SendNext(r, s) \/ Acknowledged(r, s) \/ RunBroken(r, s)

Core(m) ==
    \/ RefuseSale(m) \/ MakeSale(m) \/ MakeSaleUnseated(m) \/ MakeSaleCrash(m)
    \/ RepeatLocalSale(m) \/ RefuseLocalSale(m) \/ RecordLocalSale(m)
    \/ SyncOutbox(m) \/ (\E s \in Sales, done \in SUBSET Sales : SyncOutboxCrash(m, s, done))

Next ==
    \/ \E s \in Sales : Till(s)
    \/ \E r \in Runs : Outbox(r)
    \/ \E m \in wire : Core(m)
    \/ LoadCore \/ Reload
    \/ SellElsewhere \/ ReplaceTerminal \/ CloseShift \/ OpenShift

Spec == Init /\ [][Next]_vars

-----------------------------------------------------------------------------
(* Properties                                                                 *)

\* Every variable stays within its type.
TypeOK ==
    /\ stage \in [Sales -> Stages]
    /\ op \in [Sales -> Payloads]
    /\ saved \in Seq(Sales)
    /\ sync \in [Sales -> {"none", "PENDING_SYNC", "SYNCING", "SYNCED"}]
    /\ app \in [terminal : 1..MaxTerminals, shift : 0..MaxShifts, busy : BOOLEAN]
    /\ run \in [Runs -> RunStates]
    /\ wire \subseteq Requests
    /\ terminal \in 1..MaxTerminals
    /\ shift \in 0..MaxShifts /\ opened \in 0..MaxShifts
    /\ stock \in Nat /\ elsewhere \in Nat
    /\ order \in [Sales -> {"none", "unpaid", "paid"}]
    /\ drawer \in [1..MaxShifts -> [Sales -> Nat]]
    /\ queue \in [Sales -> {"none", "pending", "syncing", "synced", "conflict"}]
    /\ crashes \in 0..MaxCrashes
    /\ unseated \subseteq Sales

Counted(s) == \E h \in 1..MaxShifts : drawer[h][s] > 0

Waiting(s) == s \in Stored /\ sync[s] \in {"PENDING_SYNC", "SYNCING"}

\* Whatever is repeated, lost, late or interrupted on its two ways to the core,
\* a sale makes one order there and takes one unit of stock: the unique
\* client_transaction_id and the queue see to it (POS_OFFLINE_INVENTORY_CONFLICT_CONTRACT 12).
SO == INSTANCE SoldOnce WITH sold <- {s \in Sales : order[s] # "none"}, left <- stock

SalesTakeEffectOnce == SO!Spec

\* What the browser shows as SYNCED is at the core for good: ordered, queued,
\* and its cash counted in the shift it was sold in.
SyncedIsCounted ==
    \A s \in Sales : sync[s] = "SYNCED" =>
        order[s] # "none" /\ queue[s] # "none" /\ drawer[op[s].shift][s] > 0

\* Cash the cashier has taken is in a shift's drawer at the core, or its sale
\* still waits in the browser's store, through crashes of either side, replaced
\* terminals and closed shifts; the sales that get lost between the two are
\* those the core answered as made when it could not seat their guests.
MoneyIsCountedOrWaiting ==
    \A s \in Sales \ unseated : stage[s] = "handed" => Counted(s) \/ Waiting(s)

\* The cash of a sale is counted once ("must never create a duplicate Sale or
\* duplicate business mutation", the contract's section 12).
CashCountedOncePerSale ==
    \A s \in Sales :
        /\ \A h \in 1..MaxShifts : drawer[h][s] <= 1
        /\ Cardinality({h \in 1..MaxShifts : drawer[h][s] > 0}) <= 1
====
