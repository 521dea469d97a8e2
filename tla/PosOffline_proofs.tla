-------------------------- MODULE PosOffline_proofs --------------------------
(***************************************************************************)
(* Theorems about PosOffline for any sales, any overlapping runs of the    *)
(* outbox and any number of terminals, shifts and crashes.                 *)
(*                                                                         *)
(* That a synced sale is counted is not inductive: it rests on what the    *)
(* core knows of a sale it has queued, on a run's answer being about the   *)
(* sale the run sent, and on no request being older than its sale.  IInv   *)
(* says these things.                                                      *)
(***************************************************************************)
EXTENDS PosOffline, TLAPS

\* A sale that is under way has a shift, and only such a sale is stored, listed
\* by a run, or asked for.
Asked ==
    /\ \A s \in Sales : stage[s] # "new" => op[s].shift # 0
    /\ \A s \in Stored : stage[s] # "new"
    /\ \A r \in Runs : \A s \in run[r].todo : stage[s] # "new"
    /\ \A m \in wire : m.kind # "outbox" => stage[m.sale] # "new"

\* What the core has queued it has ordered, and counted in the sale's shift.
QueuedIsCounted ==
    \A s \in Sales : queue[s] # "none" =>
        stage[s] # "new" /\ order[s] # "none" /\ drawer[op[s].shift][s] > 0

\* Cash of an order that is paid, or that the till has word of, is counted,
\* unless that word was given although the settlement was rolled back.
PaidIsCounted ==
    \A s \in Sales : order[s] = "paid" \/ (stage[s] = "yes" /\ s \notin unseated) => Counted(s)

\* A request a run listens to is about the sale the run waits for, and so is
\* its answer.
RunsListen ==
    /\ \A m \in wire : m.kind = "local" /\ m.from \in Runs =>
            run[m.from].at = "waiting" /\ run[m.from].got = "" /\ run[m.from].sale = m.sale
    /\ \A r \in Runs : run[r].at # "waiting" => run[r].got = ""
    /\ \A r \in Runs : run[r].got = "yes" =>
            run[r].sale \in Sales /\ queue[run[r].sale] # "none"

SyncedIsQueued == \A s \in Sales : sync[s] = "SYNCED" => queue[s] # "none"

IInv ==
    /\ TypeOK
    /\ Asked
    /\ QueuedIsCounted
    /\ PaidIsCounted
    /\ RunsListen
    /\ SyncedIsQueued
    /\ MoneyIsCountedOrWaiting

-----------------------------------------------------------------------------
(* Types                                                                      *)

(* Writing a field of a record in a table keeps the table's type.             *)
LEMMA OpUpdate ==
    ASSUME NEW f \in [Sales -> Payloads], NEW s \in Sales, NEW h \in 0..MaxShifts
    PROVE  [f EXCEPT ![s].shift = h] \in [Sales -> Payloads]
<1>1. [f[s] EXCEPT !.shift = h] \in Payloads
  BY DEF Payloads
<1> QED
  BY <1>1

(* Each way a run goes on leaves it in one of its states.                    *)
LEMMA RunUpdate ==
    ASSUME NEW f \in [Runs -> RunStates], NEW r \in Runs
    PROVE  /\ \A v \in {"", "yes", "no"} : [f EXCEPT ![r].got = v] \in [Runs -> RunStates]
           /\ [f EXCEPT ![r].at = "listing"] \in [Runs -> RunStates]
           /\ \A todo \in SUBSET Sales :
                 [f EXCEPT ![r].at = "ready", ![r].todo = todo] \in [Runs -> RunStates]
           /\ \A s \in Sales :
                 [f EXCEPT ![r].at = "waiting", ![r].sale = s] \in [Runs -> RunStates]
           /\ \A s \in Sales :
                 [f EXCEPT ![r] = [at |-> "ready", todo |-> @.todo \ {s}, sale |-> "none", got |-> ""]]
                    \in [Runs -> RunStates]
<1> DEFINE New(x) == [f EXCEPT ![r] = x]
<1>1. \A x \in RunStates : New(x) \in [Runs -> RunStates]
  OBVIOUS
<1>2. \A v \in {"", "yes", "no"} : [f[r] EXCEPT !.got = v] \in RunStates
  BY DEF RunStates
<1>3. [f[r] EXCEPT !.at = "listing"] \in RunStates
  BY DEF RunStates
<1>4. \A todo \in SUBSET Sales : [f[r] EXCEPT !.at = "ready", !.todo = todo] \in RunStates
  BY DEF RunStates
<1>5. \A s \in Sales : [f[r] EXCEPT !.at = "waiting", !.sale = s] \in RunStates
  BY DEF RunStates
<1>6. \A s \in Sales :
        [at |-> "ready", todo |-> f[r].todo \ {s}, sale |-> "none", got |-> ""] \in RunStates
  BY DEF RunStates
<1> QED
  BY <1>1, <1>2, <1>3, <1>4, <1>5, <1>6

(* A sale's cash is counted in one shift, if there is that shift.             *)
LEMMA CollectTypes ==
    ASSUME TypeOK, NEW s \in Sales, NEW h \in 0..MaxShifts, Collect(h, s)
    PROVE  drawer' \in [1..MaxShifts -> [Sales -> Nat]]
<1>0. drawer \in [1..MaxShifts -> [Sales -> Nat]]
  BY DEF TypeOK
<1>1. CASE h \in 1..MaxShifts
  <2>1. [drawer[h] EXCEPT ![s] = @ + 1] \in [Sales -> Nat]
    BY <1>0, <1>1
  <2> QED
    BY <1>0, <1>1, <2>1 DEF Collect
<1>2. CASE h \notin 1..MaxShifts
  BY <1>0, <1>2 DEF Collect
<1> QED
  BY <1>1, <1>2

(* Requests stay requests when nobody listens to some of them any longer.     *)
LEMMA UnheardTypes ==
    ASSUME wire \subseteq Requests, NEW R \in SUBSET wire,
           \A m \in R : m.kind # "outbox"
    PROVE  Unheard(R) \subseteq Requests
BY DEF Unheard, Requests

(* An answer keeps the types of what it writes.                               *)
LEMMA ReplyTypes ==
    ASSUME TypeOK, NEW m \in wire, m.kind # "outbox", NEW yes \in BOOLEAN, Reply(m, yes)
    PROVE  /\ stage' \in [Sales -> Stages]
           /\ run' \in [Runs -> RunStates]
           /\ wire' \subseteq Requests
<1>1. m.sale \in Sales /\ wire' \subseteq Requests
  BY DEF TypeOK, Requests, Reply
<1>2. stage' \in [Sales -> Stages]
  BY <1>1 DEF TypeOK, Reply, Stages
<1>3. run' \in [Runs -> RunStates]
  BY RunUpdate DEF TypeOK, Reply
<1> QED
  BY <1>1, <1>2, <1>3

(* A run that ends leaves run, page and wire well-typed.                     *)
LEMMA EndRunTypes ==
    ASSUME TypeOK, NEW r \in Runs, NEW requests \in SUBSET Requests, EndRun(r, requests)
    PROVE  /\ run' \in [Runs -> RunStates]
           /\ app' \in [terminal : 1..MaxTerminals, shift : 0..MaxShifts, busy : BOOLEAN]
           /\ wire' \subseteq Requests
<1>1. run' \in [Runs -> RunStates]
  BY DEF TypeOK, EndRun, Idle, RunStates
<1>2. app' \in [terminal : 1..MaxTerminals, shift : 0..MaxShifts, busy : BOOLEAN]
  BY DEF TypeOK, EndRun
<1>3. wire' \subseteq Requests
  BY DEF TypeOK, EndRun, Requests
<1> QED
  BY <1>1, <1>2, <1>3

(* Every action of the till and of the page keeps the types.                  *)
LEMMA PageTypes ==
    ASSUME TypeOK, \/ \E s \in Sales : Till(s)
                   \/ LoadCore \/ Reload
    PROVE  TypeOK'
<1> USE OfflineAssumption
<1>1. ASSUME NEW s \in Sales, SellOffline(s)
      PROVE  TypeOK'
  <2>1. [terminal |-> app.terminal, shift |-> app.shift] \in Payloads
    BY DEF TypeOK, Payloads
  <2>2. op' \in [Sales -> Payloads]
    BY <1>1, <2>1 DEF TypeOK, SellOffline, Store
  <2>3. saved' \in Seq(Sales)
    BY <1>1 DEF TypeOK, SellOffline, Store
  <2>4. /\ stage' \in [Sales -> Stages]
        /\ sync' \in [Sales -> {"none", "PENDING_SYNC", "SYNCING", "SYNCED"}]
    BY <1>1 DEF TypeOK, SellOffline, Store, Stages
  <2> QED
    BY <1>1, <2>2, <2>3, <2>4 DEF TypeOK, SellOffline, core
<1>2. ASSUME NEW s \in Sales, SellOnline(s)
      PROVE  TypeOK'
  <2>1. wire' \subseteq Requests
    BY <1>2 DEF TypeOK, SellOnline, Requests
  <2>2. op' \in [Sales -> Payloads]
    BY <1>2, OpUpdate DEF TypeOK, SellOnline
  <2> QED
    BY <1>2, <2>1, <2>2 DEF TypeOK, SellOnline, Stages, core
<1>3. ASSUME NEW s \in Sales, SaleAnswered(s)
      PROVE  TypeOK'
  BY <1>3 DEF TypeOK, SaleAnswered, Stages, core
<1>4. ASSUME NEW s \in Sales, SaleUnreachable(s)
      PROVE  TypeOK'
  <2> DEFINE R == wire \cap {[kind |-> "sale", sale |-> s, from |-> "page"]}
  <2>0. R \in SUBSET wire /\ \A m \in R : m.kind # "outbox"
    OBVIOUS
  <2>1. Unheard(R) \subseteq Requests
    BY <2>0, UnheardTypes DEF TypeOK
  <2>2. [terminal |-> app.terminal, shift |-> op[s].shift] \in Payloads
    BY DEF TypeOK, Payloads
  <2>3. /\ wire' = Unheard(R)
        /\ stage' = [stage EXCEPT ![s] = "handed"]
        /\ op' = [op EXCEPT ![s] = [terminal |-> app.terminal, shift |-> op[s].shift]]
        /\ saved' = Append(saved, s)
        /\ sync' = [sync EXCEPT ![s] = "PENDING_SYNC"]
        /\ UNCHANGED <<app, run, core, crashes, unseated>>
    BY <1>4 DEF SaleUnreachable, Store
  <2> HIDE DEF R
  <2> QED
    BY <2>1, <2>2, <2>3 DEF TypeOK, Stages, core
<1>5. ASSUME NEW s \in Sales, SettleByHand(s)
      PROVE  TypeOK'
  BY <1>5, CollectTypes DEF TypeOK, SettleByHand, browser
<1>6. ASSUME LoadCore
      PROVE  TypeOK'
  BY <1>6 DEF TypeOK, LoadCore, core
<1>7. ASSUME Reload
      PROVE  TypeOK'
  <2>1. wire' \subseteq Requests
    BY <1>7, UnheardTypes DEF TypeOK, Reload
  <2>2. run' \in [Runs -> RunStates]
    BY <1>7 DEF TypeOK, Reload, Idle, RunStates
  <2>3. app' \in [terminal : 1..MaxTerminals, shift : 0..MaxShifts, busy : BOOLEAN]
    BY <1>7 DEF TypeOK, Reload
  <2>4. /\ stage' \in [Sales -> Stages]
        /\ sync' \in [Sales -> {"none", "PENDING_SYNC", "SYNCING", "SYNCED"}]
        /\ crashes' \in 0..MaxCrashes
    BY <1>7 DEF TypeOK, Reload, Stages
  <2> QED
    BY <1>7, <2>1, <2>2, <2>3, <2>4 DEF TypeOK, Reload, core
<1> QED
  BY <1>1, <1>2, <1>3, <1>4, <1>5, <1>6, <1>7 DEF Till

(* Every step of a run of the outbox keeps the types.                         *)
LEMMA OutboxTypes ==
    ASSUME TypeOK, NEW r \in Runs, Outbox(r)
    PROVE  TypeOK'
<1> USE OfflineAssumption
<1>1. ASSUME StartRun(r)
      PROVE  TypeOK'
  BY <1>1, RunUpdate DEF TypeOK, StartRun, core
<1>2. ASSUME ListPending(r)
      PROVE  TypeOK'
  <2>1. Pending \subseteq Sales
    BY DEF Pending, Stored, TypeOK
  <2>4. [run EXCEPT ![r].at = "ready", ![r].todo = Pending] \in [Runs -> RunStates]
    BY <2>1, RunUpdate DEF TypeOK
  <2>2. Idle \in RunStates
    BY DEF Idle, RunStates
  <2>3. [app EXCEPT !.busy = TRUE] \in [terminal : 1..MaxTerminals, shift : 0..MaxShifts, busy : BOOLEAN]
    BY DEF TypeOK
  <2>5. run' \in [Runs -> RunStates]
    BY <1>2, <2>2, <2>4 DEF TypeOK, ListPending
  <2>6. app' \in [terminal : 1..MaxTerminals, shift : 0..MaxShifts, busy : BOOLEAN]
    BY <1>2, <2>3 DEF TypeOK, ListPending
  <2> QED
    BY <1>2, <2>5, <2>6 DEF TypeOK, ListPending, core
<1>3. ASSUME NEW s \in Sales, SendNext(r, s)
      PROVE  TypeOK'
  <2>1. run' \in [Runs -> RunStates]
    BY <1>3, RunUpdate DEF TypeOK, SendNext
  <2>2. wire' \subseteq Requests
    BY <1>3 DEF TypeOK, SendNext, Requests
  <2> QED
    BY <1>3, <2>1, <2>2 DEF TypeOK, SendNext, core
<1>4. ASSUME NEW s \in Sales, Acknowledged(r, s)
      PROVE  TypeOK'
  <2>1. CASE run[r].todo = {s}
    <3>1. EndRun(r, wire)
      BY <1>4, <2>1 DEF Acknowledged, Progress
    <3> QED
      BY <1>4, <3>1, EndRunTypes DEF TypeOK, Acknowledged, Progress, core
  <2>2. CASE run[r].todo # {s}
    <3>0. run' = [run EXCEPT ![r] = [at |-> "ready", todo |-> @.todo \ {s},
                                     sale |-> "none", got |-> ""]]
      BY <1>4, <2>2 DEF Acknowledged, Progress
    <3>1. run' \in [Runs -> RunStates]
      BY <3>0 DEF TypeOK, RunStates
    <3> QED
      BY <1>4, <2>2, <3>1 DEF TypeOK, Acknowledged, Progress, core
  <2> QED
    BY <2>1, <2>2
<1>5. ASSUME NEW s \in Sales, RunBroken(r, s)
      PROVE  TypeOK'
  <2> DEFINE R == wire \cap {[kind |-> "local", sale |-> s, from |-> r]}
  <2>0. R \in SUBSET wire /\ \A m \in R : m.kind # "outbox"
    OBVIOUS
  <2>1. Unheard(R) \subseteq Requests
    BY <2>0, UnheardTypes DEF TypeOK
  <2> QED
    BY <1>5, <2>1, EndRunTypes DEF TypeOK, RunBroken, core
<1> QED
  BY <1>1, <1>2, <1>3, <1>4, <1>5 DEF Outbox

(* Every action of the core keeps the types.                                  *)
LEMMA CoreTypes ==
    ASSUME TypeOK, \/ \E m \in wire : Core(m)
                   \/ SellElsewhere \/ ReplaceTerminal \/ CloseShift \/ OpenShift
    PROVE  TypeOK'
<1> USE OfflineAssumption
<1>1. ASSUME NEW m \in wire, RefuseSale(m)
      PROVE  TypeOK'
  BY <1>1, ReplyTypes DEF TypeOK, RefuseSale, core
<1>2. ASSUME NEW m \in wire, MakeSale(m)
      PROVE  TypeOK'
  <2>1. m.sale \in Sales
    BY <1>2 DEF TypeOK, Requests, MakeSale
  <2>2. drawer' \in [1..MaxShifts -> [Sales -> Nat]]
    BY <1>2, <2>1, CollectTypes DEF TypeOK, MakeSale
  <2>3. stage' \in [Sales -> Stages] /\ run' \in [Runs -> RunStates] /\ wire' \subseteq Requests
    BY <1>2, ReplyTypes DEF MakeSale
  <2>4. stock' \in Nat
    BY <1>2 DEF TypeOK, MakeSale
  <2>5. order' \in [Sales -> {"none", "unpaid", "paid"}]
    BY <1>2, <2>1 DEF TypeOK, MakeSale
  <2>6. queue' \in [Sales -> {"none", "pending", "syncing", "synced", "conflict"}]
    BY <1>2, <2>1 DEF TypeOK, MakeSale
  <2> QED
    BY <1>2, <2>2, <2>3, <2>4, <2>5, <2>6 DEF TypeOK, MakeSale
<1>10. ASSUME NEW m \in wire, MakeSaleUnseated(m)
       PROVE  TypeOK'
  <2>1. m.sale \in Sales
    BY <1>10 DEF TypeOK, Requests, MakeSaleUnseated
  <2>2. stage' \in [Sales -> Stages] /\ run' \in [Runs -> RunStates] /\ wire' \subseteq Requests
    BY <1>10, ReplyTypes DEF MakeSaleUnseated
  <2>3. stock' \in Nat /\ unseated' \subseteq Sales
    BY <1>10, <2>1 DEF TypeOK, MakeSaleUnseated
  <2>4. order' \in [Sales -> {"none", "unpaid", "paid"}]
    BY <1>10, <2>1 DEF TypeOK, MakeSaleUnseated
  <2> QED
    BY <1>10, <2>2, <2>3, <2>4 DEF TypeOK, MakeSaleUnseated
<1>3. ASSUME NEW m \in wire, MakeSaleCrash(m)
      PROVE  TypeOK'
  <2>1. m.sale \in Sales
    BY <1>3 DEF TypeOK, Requests, MakeSaleCrash
  <2>2. order' \in [Sales -> {"none", "unpaid", "paid"}]
    BY <1>3, <2>1 DEF TypeOK, MakeSaleCrash
  <2>3. wire' \subseteq Requests /\ stock' \in Nat /\ crashes' \in 0..MaxCrashes
    BY <1>3 DEF TypeOK, MakeSaleCrash
  <2> QED
    BY <1>3, <2>2, <2>3 DEF TypeOK, MakeSaleCrash, browser
<1>4. ASSUME NEW m \in wire, RepeatLocalSale(m)
      PROVE  TypeOK'
  BY <1>4, ReplyTypes DEF TypeOK, RepeatLocalSale, core
<1>5. ASSUME NEW m \in wire, RefuseLocalSale(m)
      PROVE  TypeOK'
  BY <1>5, ReplyTypes DEF TypeOK, RefuseLocalSale, core
<1>6. ASSUME NEW m \in wire, RecordLocalSale(m)
      PROVE  TypeOK'
  <2>1. m.sale \in Sales
    BY <1>6 DEF TypeOK, Requests, RecordLocalSale
  <2>2. drawer' \in [1..MaxShifts -> [Sales -> Nat]]
    BY <1>6, <2>1, CollectTypes DEF TypeOK, RecordLocalSale
  <2>3. stage' \in [Sales -> Stages] /\ run' \in [Runs -> RunStates] /\ wire' \subseteq Requests
    BY <1>6, ReplyTypes DEF RecordLocalSale
  <2>4. stock' \in Nat
    BY <1>6 DEF TypeOK, RecordLocalSale
  <2>5. order' \in [Sales -> {"none", "unpaid", "paid"}]
    BY <1>6, <2>1 DEF TypeOK, RecordLocalSale
  <2>6. queue' \in [Sales -> {"none", "pending", "syncing", "synced", "conflict"}]
    BY <1>6, <2>1 DEF TypeOK, RecordLocalSale
  <2> QED
    BY <1>6, <2>2, <2>3, <2>4, <2>5, <2>6 DEF TypeOK, RecordLocalSale
<1>7. ASSUME NEW m \in wire, SyncOutbox(m)
      PROVE  TypeOK'
  BY <1>7 DEF TypeOK, SyncOutbox, Reconciled, browser
<1>8. ASSUME NEW m \in wire, NEW s \in Sales, NEW done \in SUBSET Sales, SyncOutboxCrash(m, s, done)
      PROVE  TypeOK'
  BY <1>8 DEF TypeOK, SyncOutboxCrash, Reconciled, browser
<1>9. ASSUME SellElsewhere \/ ReplaceTerminal \/ CloseShift \/ OpenShift
      PROVE  TypeOK'
  <2>1. CASE SellElsewhere
    BY <2>1 DEF TypeOK, SellElsewhere, browser
  <2>2. CASE ReplaceTerminal
    BY <2>2 DEF TypeOK, ReplaceTerminal, browser
  <2>3. CASE CloseShift
    BY <2>3 DEF TypeOK, CloseShift, browser
  <2>4. CASE OpenShift
    BY <2>4 DEF TypeOK, OpenShift, browser
  <2> QED
    BY <1>9, <2>1, <2>2, <2>3, <2>4
<1> QED
  BY <1>1, <1>2, <1>3, <1>4, <1>5, <1>6, <1>7, <1>8, <1>9, <1>10 DEF Core

(* Every step keeps the types.                                                *)
LEMMA StepTypes ==
    ASSUME TypeOK, [Next]_vars
    PROVE  TypeOK'
<1>1. CASE Next
  BY <1>1, PageTypes, OutboxTypes, CoreTypes DEF Next
<1>2. CASE UNCHANGED vars
  BY <1>2 DEF TypeOK, vars, browser, core
<1> QED
  BY <1>1, <1>2
-----------------------------------------------------------------------------
(* Sales under way                                                            *)

(* Appending an operation to the store adds its sale to the stored ones.      *)
LEMMA StoredGrows ==
    ASSUME TypeOK, NEW s \in Sales, saved' = Append(saved, s)
    PROVE  Stored' = Stored \cup {s}
<1>1. /\ saved \in Seq(Sales)
      /\ Len(saved') = Len(saved) + 1
      /\ \A i \in 1..Len(saved') : saved'[i] = IF i <= Len(saved) THEN saved[i] ELSE s
  <2>1. saved \in Seq(Sales)
    BY DEF TypeOK
  <2> QED
    BY <2>1
<1>2. Len(saved) \in Nat
  BY <1>1
<1>3. ASSUME NEW t \in Stored'
      PROVE  t \in Stored \cup {s}
  <2>1. PICK i \in 1..Len(saved') : t = saved'[i]
    BY <1>3 DEF Stored
  <2> QED
    BY <1>1, <1>2, <2>1 DEF Stored
<1>4. ASSUME NEW t \in Stored \cup {s}
      PROVE  t \in Stored'
  <2>1. CASE t \in Stored
    <3>1. PICK i \in 1..Len(saved) : t = saved[i]
      BY <2>1 DEF Stored
    <3>2. i \in 1..Len(saved') /\ t = saved'[i]
      BY <1>1, <1>2, <3>1
    <3> QED
      BY <3>2 DEF Stored
  <2>2. CASE t = s
    <3>1. Len(saved') \in 1..Len(saved') /\ saved'[Len(saved')] = t
      BY <1>1, <1>2, <2>2
    <3> QED
      BY <3>1 DEF Stored
  <2> QED
    BY <1>4, <2>1, <2>2
<1> QED
  BY <1>3, <1>4

(* Only the till stores an operation.                                         *)
LEMMA OnlyTheTillStores ==
    ASSUME [Next]_vars
    PROVE  (\E t \in Sales : \E h \in {app.shift, op[t].shift} : Store(t, h)) \/ saved' = saved
<1>1. ASSUME NEW t \in Sales, Till(t)
      PROVE  (\E h \in {app.shift, op[t].shift} : Store(t, h)) \/ saved' = saved
  BY <1>1 DEF Till, SellOffline, SellOnline, SaleAnswered, SaleUnreachable, SettleByHand, browser
<1>2. ASSUME \/ \E r \in Runs : Outbox(r)
             \/ \E m \in wire : Core(m)
             \/ LoadCore \/ Reload \/ SellElsewhere \/ ReplaceTerminal \/ CloseShift \/ OpenShift
             \/ UNCHANGED vars
      PROVE  saved' = saved
  BY <1>2 DEF Outbox, StartRun, ListPending, SendNext, Acknowledged, Progress, RunBroken, LoadCore,
              Reload, Core, RefuseSale, MakeSale, MakeSaleUnseated, MakeSaleCrash, RepeatLocalSale, RefuseLocalSale,
              RecordLocalSale, SyncOutbox, SyncOutboxCrash, SellElsewhere, ReplaceTerminal,
              CloseShift, OpenShift, vars, browser
<1> QED
  BY <1>1, <1>2 DEF Next

(* A step of one run of the outbox is no step of another.                     *)
LEMMA OtherRuns ==
    ASSUME TypeOK, NEW q \in Runs, NEW r \in Runs, q # r, Outbox(q)
    PROVE  run'[r] = run[r]
<1>0. run \in [Runs -> RunStates]
  BY DEF TypeOK
<1>1. CASE StartRun(q) \/ ListPending(q)
  BY <1>0, <1>1 DEF StartRun, ListPending
<1>2. ASSUME NEW t \in Sales, SendNext(q, t) \/ Acknowledged(q, t)
      PROVE  run'[r] = run[r]
  BY <1>0, <1>2 DEF SendNext, Acknowledged, Progress, EndRun
<1>3. ASSUME NEW t \in Sales, RunBroken(q, t)
      PROVE  run'[r] = run[r]
  BY <1>0, <1>3 DEF RunBroken, EndRun
<1> QED
  BY <1>1, <1>2, <1>3 DEF Outbox

(* Nobody listening to a request does not change what it asks for.            *)
LEMMA UnheardAsks ==
    ASSUME wire \subseteq Requests, NEW R \in SUBSET wire, \A m \in R : m.kind # "outbox",
           NEW n \in Unheard(R)
    PROVE  \E m \in wire : /\ n.kind = m.kind
                           /\ m.kind # "outbox" => n.sale = m.sale
                           /\ n = m \/ (m \in R /\ n.from = "nobody")
BY DEF Unheard, Requests

(* An answer changes nothing of a run but the answer it has got.              *)
LEMMA ReplyKeepsRuns ==
    ASSUME TypeOK, NEW m, NEW yes \in BOOLEAN, Reply(m, yes), NEW r \in Runs
    PROVE  /\ run'[r].at = run[r].at
           /\ run'[r].todo = run[r].todo
           /\ run'[r].sale = run[r].sale
           /\ run'[r].got = IF m.from = r THEN (IF yes THEN "yes" ELSE "no") ELSE run[r].got
<1>1. run[r] \in RunStates
  BY DEF TypeOK
<1>2. CASE m.from = r
  <2>1. run' = [run EXCEPT ![r].got = IF yes THEN "yes" ELSE "no"]
    BY <1>2 DEF Reply
  <2>2. run'[r] = [run[r] EXCEPT !.got = IF yes THEN "yes" ELSE "no"]
    BY <2>1 DEF TypeOK
  <2> QED
    BY <1>1, <1>2, <2>2 DEF RunStates
<1>3. CASE m.from # r
  <2>1. run'[r] = run[r]
    BY <1>3 DEF Reply, TypeOK
  <2> QED
    BY <1>3, <2>1
<1> QED
  BY <1>2, <1>3

(* No step brings a sale back to the start.                                   *)
LEMMA UnderWay ==
    ASSUME TypeOK, [Next]_vars, NEW s \in Sales, stage[s] # "new"
    PROVE  stage'[s] # "new" /\ op'[s].shift = op[s].shift
<1>1. ASSUME NEW t \in Sales, Till(t)
      PROVE  stage'[s] # "new" /\ op'[s].shift = op[s].shift
  <2>1. CASE SellOffline(t)
    BY <2>1 DEF TypeOK, SellOffline, Store
  <2>2. CASE SellOnline(t)
    <3>1. t # s
      BY <2>2 DEF SellOnline
    <3>2. stage'[s] = stage[s] /\ op'[s] = op[s]
      BY <2>2, <3>1 DEF TypeOK, SellOnline
    <3> QED
      BY <3>2
  <2>3. CASE SaleAnswered(t)
    BY <2>3 DEF TypeOK, SaleAnswered
  <2>4. CASE SaleUnreachable(t)
    BY <2>4 DEF TypeOK, SaleUnreachable, Store
  <2>5. CASE SettleByHand(t)
    BY <2>5 DEF SettleByHand, browser
  <2> QED
    BY <1>1, <2>1, <2>2, <2>3, <2>4, <2>5 DEF Till
<1>2. ASSUME NEW r \in Runs, Outbox(r)
      PROVE  UNCHANGED <<stage, op>>
  BY <1>2 DEF Outbox, StartRun, ListPending, SendNext, Acknowledged, Progress, RunBroken
<1>3. ASSUME NEW m \in wire, Core(m)
      PROVE  stage'[s] # "new" /\ op' = op
  <2>1. ASSUME NEW yes \in BOOLEAN, Reply(m, yes)
        PROVE  stage'[s] # "new"
    BY <2>1 DEF Reply, TypeOK
  <2> QED
    BY <1>3, <2>1 DEF Core, RefuseSale, MakeSale, MakeSaleUnseated, MakeSaleCrash, RepeatLocalSale, RefuseLocalSale,
                      RecordLocalSale, SyncOutbox, SyncOutboxCrash, browser
<1>4. ASSUME LoadCore \/ SellElsewhere \/ ReplaceTerminal \/ CloseShift \/ OpenShift \/ UNCHANGED vars
      PROVE  UNCHANGED <<stage, op>>
  BY <1>4 DEF LoadCore, SellElsewhere, ReplaceTerminal, CloseShift, OpenShift, vars, browser
<1>5. ASSUME Reload
      PROVE  stage'[s] # "new" /\ op' = op
  BY <1>5 DEF Reload
<1> QED
  BY <1>1, <1>2, <1>3, <1>4, <1>5 DEF Next, Till

(* What is stored, listed or asked for is a sale under way.                   *)
LEMMA StepAsked ==
    ASSUME TypeOK, Asked, [Next]_vars
    PROVE  Asked'
<1>t. TypeOK'
  BY StepTypes
<1>1. ASSUME NEW s \in Sales, stage'[s] # "new"
      PROVE  op'[s].shift # 0
  <2>1. CASE stage[s] # "new"
    BY <2>1, UnderWay DEF Asked
  <2>2. CASE stage[s] = "new"
    <3>1. ASSUME NEW t \in Sales, SellOffline(t) \/ SellOnline(t)
          PROVE  op'[s].shift # 0
      BY <1>1, <2>2, <3>1 DEF TypeOK, SellOffline, SellOnline, Store, Payloads
    <3>2. ASSUME NEW t \in Sales, SaleAnswered(t) \/ SaleUnreachable(t) \/ SettleByHand(t)
          PROVE  FALSE
      BY <1>1, <2>2, <3>2 DEF TypeOK, SaleAnswered, SaleUnreachable, SettleByHand, Store, browser
    <3>3. ASSUME NEW r \in Runs, Outbox(r)
          PROVE  FALSE
      BY <1>1, <2>2, <3>3 DEF Outbox, StartRun, ListPending, SendNext, Acknowledged, Progress, RunBroken
    <3>4. ASSUME NEW m \in wire, Core(m)
          PROVE  FALSE
      <4>1. ASSUME NEW yes \in BOOLEAN, m.kind # "outbox", Reply(m, yes)
            PROVE  FALSE
        BY <1>1, <2>2, <4>1 DEF Reply, TypeOK, Asked
      <4> QED
        BY <1>1, <2>2, <3>4, <4>1
           DEF Core, RefuseSale, MakeSale, MakeSaleUnseated, MakeSaleCrash, RepeatLocalSale, RefuseLocalSale,
               RecordLocalSale, SyncOutbox, SyncOutboxCrash, browser
    <3>5. ASSUME LoadCore \/ SellElsewhere \/ ReplaceTerminal \/ CloseShift \/ OpenShift \/ UNCHANGED vars
          PROVE  FALSE
      BY <1>1, <2>2, <3>5 DEF LoadCore, SellElsewhere, ReplaceTerminal, CloseShift, OpenShift, vars, browser
    <3>6. ASSUME Reload
          PROVE  FALSE
      BY <1>1, <2>2, <3>6 DEF Reload
    <3> QED
      BY <3>1, <3>2, <3>3, <3>4, <3>5, <3>6 DEF Next, Till
  <2> QED
    BY <2>1, <2>2
<1>2. ASSUME NEW s \in Stored'
      PROVE  stage'[s] # "new"
  <2>0. s \in Sales /\ Stored \subseteq Sales
    <3>1. saved \in Seq(Sales) /\ saved' \in Seq(Sales)
      BY <1>t DEF TypeOK
    <3> QED
      BY <1>2, <3>1 DEF Stored
  <2>1. CASE s \in Stored
    BY <2>0, <2>1, UnderWay DEF Asked
  <2>2. ASSUME NEW t \in Sales, NEW h, Store(t, h)
        PROVE  stage'[s] # "new"
    <3>1. Stored' = Stored \cup {t}
      BY <2>2, StoredGrows DEF Store
    <3>2. CASE s = t
      BY <2>0, <2>2, <3>2 DEF Store, TypeOK
    <3> QED
      BY <2>1, <3>1, <3>2, <1>2
  <2>3. (\E t \in Sales : \E h \in {app.shift, op[t].shift} : Store(t, h)) \/ saved' = saved
    BY OnlyTheTillStores
  <2> QED
    BY <1>2, <2>1, <2>2, <2>3 DEF Stored
<1>3. ASSUME NEW r \in Runs, NEW s \in run'[r].todo
      PROVE  stage'[s] # "new"
  <2>0. s \in Sales
    BY <1>t, <1>3 DEF TypeOK, RunStates
  <2>1. CASE s \in run[r].todo
    BY <2>0, <2>1, UnderWay DEF Asked
  <2>2. CASE s \in Stored
    BY <2>0, <2>2, UnderWay DEF Asked
  <2>3. s \in run[r].todo \/ s \in Stored
    <3>1. ASSUME NEW q \in Runs, Outbox(q)
          PROVE  s \in run[r].todo \/ s \in Stored
      <4>1. CASE q # r
        <5>1. run'[r] = run[r]
          BY <3>1, <4>1, OtherRuns
        <5> QED
          BY <1>3, <5>1
      <4>2. CASE StartRun(r)
        BY <1>3, <4>2 DEF StartRun, TypeOK, RunStates
      <4>3. CASE ListPending(r)
        <5>1. run'[r] = Idle \/ run'[r] = [run[r] EXCEPT !.at = "ready", !.todo = Pending]
          BY <4>3 DEF ListPending, TypeOK
        <5>2. run'[r].todo = {} \/ run'[r].todo = Pending
          <6>1. Idle.todo = {} /\ run[r] \in RunStates
            BY DEF Idle, TypeOK
          <6>2. [run[r] EXCEPT !.at = "ready", !.todo = Pending].todo = Pending
            BY <6>1 DEF RunStates
          <6> QED
            BY <5>1, <6>1, <6>2
        <5> QED
          BY <1>3, <5>2 DEF Pending
      <4>4. ASSUME NEW t \in Sales, SendNext(r, t)
            PROVE  s \in run[r].todo
        BY <1>3, <4>4 DEF SendNext, TypeOK, RunStates
      <4>5. ASSUME NEW t \in Sales, Progress(r, t)
            PROVE  s \in run[r].todo
        <5> DEFINE Rest == [at |-> "ready", todo |-> run[r].todo \ {t},
                            sale |-> "none", got |-> ""]
        <5>1. run'[r] = Idle \/ run'[r] = Rest
          BY <4>5 DEF Progress, EndRun, TypeOK
        <5>2. Idle.todo = {} /\ Rest.todo \subseteq run[r].todo
          BY DEF Idle
        <5> HIDE DEF Rest
        <5> QED
          BY <1>3, <5>1, <5>2
      <4>6. ASSUME NEW t \in Sales, RunBroken(r, t)
            PROVE  FALSE
        BY <1>3, <4>6 DEF RunBroken, EndRun, Idle, TypeOK
      <4> QED
        BY <3>1, <4>1, <4>2, <4>3, <4>4, <4>5, <4>6 DEF Outbox, Acknowledged
    <3>2. ASSUME NEW m \in wire, Core(m)
          PROVE  s \in run[r].todo
      <4>1. ASSUME NEW yes \in BOOLEAN, Reply(m, yes)
            PROVE  s \in run[r].todo
        BY <1>3, <4>1, ReplyKeepsRuns
      <4> QED
        BY <1>3, <3>2, <4>1
           DEF Core, RefuseSale, MakeSale, MakeSaleUnseated, MakeSaleCrash, RepeatLocalSale, RefuseLocalSale,
               RecordLocalSale, SyncOutbox, SyncOutboxCrash, browser
    <3>3. ASSUME Reload
          PROVE  FALSE
      BY <1>3, <3>3 DEF Reload, Idle
    <3>4. ASSUME \/ \E t \in Sales : Till(t)
                 \/ LoadCore \/ SellElsewhere \/ ReplaceTerminal \/ CloseShift \/ OpenShift
                 \/ UNCHANGED vars
          PROVE  run' = run
      BY <3>4 DEF Till, SellOffline, SellOnline, SaleAnswered, SaleUnreachable, SettleByHand,
                  LoadCore, SellElsewhere, ReplaceTerminal, CloseShift, OpenShift, vars, browser
    <3> QED
      BY <1>3, <3>1, <3>2, <3>3, <3>4 DEF Next
  <2> QED
    BY <2>1, <2>2, <2>3
<1>4. ASSUME NEW n \in wire', n.kind # "outbox"
      PROVE  stage'[n.sale] # "new"
  <2>0. n.sale \in Sales
    BY <1>t, <1>4 DEF TypeOK, Requests
  <2>1. ASSUME NEW m \in wire, n.kind = m.kind, n.sale = m.sale
        PROVE  stage'[n.sale] # "new"
    BY <1>4, <2>0, <2>1, UnderWay DEF Asked
  <2>2. ASSUME NEW R \in SUBSET wire, \A m \in R : m.kind # "outbox", n \in Unheard(R)
        PROVE  stage'[n.sale] # "new"
    <3>1. wire \subseteq Requests
      BY DEF TypeOK
    <3>2. PICK m \in wire : n.kind = m.kind /\ (m.kind # "outbox" => n.sale = m.sale)
      BY <2>2, <3>1, UnheardAsks
    <3> QED
      BY <1>4, <2>1, <3>2
  <2>3. ASSUME NEW t \in Sales, SellOnline(t)
        PROVE  stage'[n.sale] # "new"
    <3>1. n \in wire \/ n.sale = t
      BY <2>3 DEF SellOnline
    <3>2. stage'[t] # "new"
      BY <2>3 DEF SellOnline, TypeOK
    <3> QED
      BY <2>1, <3>1, <3>2
  <2>4. ASSUME NEW t \in Sales, SaleUnreachable(t)
        PROVE  stage'[n.sale] # "new"
    BY <2>2, <2>4 DEF SaleUnreachable
  <2>5. ASSUME NEW r \in Runs, NEW t \in Sales, SendNext(r, t)
        PROVE  stage'[n.sale] # "new"
    <3>1. n \in wire \/ n.sale = t
      BY <2>5 DEF SendNext
    <3>2. stage'[t] # "new"
      BY <2>5 DEF SendNext, Asked
    <3> QED
      BY <2>1, <3>1, <3>2
  <2>6. ASSUME NEW r \in Runs, NEW t \in Sales, Acknowledged(r, t)
        PROVE  stage'[n.sale] # "new"
    <3>1. n \in wire
      <4>1. n \in wire \/ n = [kind |-> "outbox", terminal |-> app.terminal]
        BY <2>6 DEF Acknowledged, Progress, EndRun
      <4> QED
        BY <1>4, <4>1
    <3> QED
      BY <2>1, <3>1
  <2>7. ASSUME NEW r \in Runs, NEW t \in Sales, RunBroken(r, t)
        PROVE  stage'[n.sale] # "new"
    <3> DEFINE R == wire \cap {[kind |-> "local", sale |-> t, from |-> r]}
    <3>1. n \in Unheard(R)
      BY <1>4, <2>7 DEF RunBroken, EndRun
    <3>2. R \in SUBSET wire /\ \A m \in R : m.kind # "outbox"
      OBVIOUS
    <3> QED
      BY <2>2, <3>1, <3>2
  <2>8. ASSUME Reload
        PROVE  stage'[n.sale] # "new"
    BY <2>2, <2>8 DEF Reload
  <2>9. ASSUME NEW m \in wire, Core(m)
        PROVE  n \in wire
    BY <2>9 DEF Core, RefuseSale, MakeSale, MakeSaleUnseated, MakeSaleCrash, RepeatLocalSale, RefuseLocalSale,
                RecordLocalSale, SyncOutbox, SyncOutboxCrash, Reply
  <2>10. ASSUME \/ \E t \in Sales : SellOffline(t) \/ SaleAnswered(t) \/ SettleByHand(t)
                \/ \E r \in Runs : StartRun(r) \/ ListPending(r)
                \/ LoadCore \/ SellElsewhere \/ ReplaceTerminal \/ CloseShift \/ OpenShift
                \/ UNCHANGED vars
         PROVE  wire' = wire
    BY <2>10 DEF SellOffline, SaleAnswered, SettleByHand, StartRun, ListPending,
                 LoadCore, SellElsewhere, ReplaceTerminal, CloseShift, OpenShift, vars
  <2> QED
    BY <2>1, <2>3, <2>4, <2>5, <2>6, <2>7, <2>8, <2>9, <2>10 DEF Next, Till, Outbox
<1> QED
  BY <1>1, <1>2, <1>3, <1>4 DEF Asked
-----------------------------------------------------------------------------
(* What the core knows                                                        *)

(* Counting a sale's cash takes nothing out of any drawer.                    *)
LEMMA CollectAdds ==
    ASSUME TypeOK, NEW h \in 0..MaxShifts, NEW t \in Sales, Collect(h, t)
    PROVE  /\ \A g \in 1..MaxShifts, s \in Sales : drawer'[g][s] >= drawer[g][s]
           /\ h # 0 => drawer'[h][t] > 0
<1> USE OfflineAssumption
<1>1. \A g \in 1..MaxShifts : drawer'[g] = IF g = h THEN [drawer[h] EXCEPT ![t] = @ + 1] ELSE drawer[g]
  BY DEF TypeOK, Collect
<1>2. \A g \in 1..MaxShifts : drawer[g] \in [Sales -> Nat]
  BY DEF TypeOK
<1> QED
  BY <1>1, <1>2

(* The core forgets no order, no entry of its queue and no cash, and what it  *)
(* queues it orders and counts, once the sale is under way.                   *)
LEMMA CoreRemembers ==
    ASSUME TypeOK, Asked, [Next]_vars
    PROVE  /\ \A h \in 1..MaxShifts, s \in Sales : drawer'[h][s] >= drawer[h][s]
           /\ \A s \in Sales :
                 /\ order[s] # "none" => order'[s] # "none"
                 /\ queue[s] # "none" => queue'[s] # "none"
                 /\ queue'[s] # queue[s] /\ queue[s] = "none" =>
                        stage[s] # "new" /\ order'[s] # "none" /\ drawer'[op[s].shift][s] > 0
                 /\ order'[s] # order[s] /\ order'[s] = "paid" =>
                        \E h \in 1..MaxShifts : drawer'[h][s] > 0
<1> USE OfflineAssumption
<1> DEFINE Kept == /\ \A h \in 1..MaxShifts, s \in Sales : drawer'[h][s] >= drawer[h][s]
                   /\ \A s \in Sales :
                         /\ order[s] # "none" => order'[s] # "none"
                         /\ queue[s] # "none" => queue'[s] # "none"
                         /\ queue'[s] # queue[s] /\ queue[s] = "none" =>
                                stage[s] # "new" /\ order'[s] # "none" /\ drawer'[op[s].shift][s] > 0
                         /\ order'[s] # order[s] /\ order'[s] = "paid" =>
                                \E h \in 1..MaxShifts : drawer'[h][s] > 0
<1>a. \A h \in 1..MaxShifts, s \in Sales : drawer[h][s] \in Nat
  BY DEF TypeOK
<1>b. \A h \in 1..MaxShifts, s \in Sales : drawer' = drawer => drawer'[h][s] >= drawer[h][s]
  BY <1>a
<1>1. ASSUME NEW m \in wire, MakeSale(m)
      PROVE  Kept
  <2>1. m.sale \in Sales /\ shift \in 1..MaxShifts
    BY <1>1 DEF MakeSale, TypeOK, Requests, Payloads, Asked
  <2>2. CASE order[m.sale] = "paid"
    BY <1>1, <1>b, <2>1, <2>2 DEF MakeSale, TypeOK
  <2>3. CASE order[m.sale] # "paid"
    <3>1. Collect(shift, m.sale) /\ queue' = queue /\ order' = [order EXCEPT ![m.sale] = "paid"]
      BY <1>1, <2>3 DEF MakeSale
    <3>2. drawer'[shift][m.sale] > 0 /\ \A h \in 1..MaxShifts, s \in Sales : drawer'[h][s] >= drawer[h][s]
      BY <2>1, <3>1, CollectAdds
    <3> QED
      BY <2>1, <3>1, <3>2 DEF TypeOK
  <2> QED
    BY <2>2, <2>3
<1>2. ASSUME NEW m \in wire, RecordLocalSale(m)
      PROVE  Kept
  <2>1. m.sale \in Sales /\ shift \in 1..MaxShifts /\ stage[m.sale] # "new"
    BY <1>2 DEF RecordLocalSale, TypeOK, Requests, Payloads, Asked
  <2>2. /\ Collect(shift, m.sale) /\ shift = op[m.sale].shift
        /\ queue' = [queue EXCEPT ![m.sale] = "pending"]
        /\ order' = [order EXCEPT ![m.sale] = "unpaid"]
    BY <1>2 DEF RecordLocalSale
  <2>3. drawer'[shift][m.sale] > 0 /\ \A h \in 1..MaxShifts, s \in Sales : drawer'[h][s] >= drawer[h][s]
    BY <2>1, <2>2, CollectAdds
  <2> QED
    BY <2>1, <2>2, <2>3 DEF TypeOK
<1>3. ASSUME NEW t \in Sales, SettleByHand(t)
      PROVE  Kept
  <2>1. shift \in 1..MaxShifts
    BY <1>3 DEF SettleByHand, TypeOK
  <2>2. Collect(shift, t) /\ queue' = queue /\ order' = [order EXCEPT ![t] = "paid"]
    BY <1>3 DEF SettleByHand
  <2>3. drawer'[shift][t] > 0 /\ \A h \in 1..MaxShifts, s \in Sales : drawer'[h][s] >= drawer[h][s]
    BY <2>1, <2>2, CollectAdds
  <2> QED
    BY <2>1, <2>2, <2>3 DEF TypeOK
<1>4. ASSUME NEW m \in wire, MakeSaleCrash(m)
      PROVE  Kept
  <2>1. m.sale \in Sales
    BY <1>4 DEF MakeSaleCrash, TypeOK, Requests
  <2> QED
    BY <1>4, <1>b, <2>1 DEF MakeSaleCrash, TypeOK
<1>10. ASSUME NEW m \in wire, MakeSaleUnseated(m)
       PROVE  Kept
  <2>1. m.sale \in Sales
    BY <1>10 DEF MakeSaleUnseated, TypeOK, Requests
  <2> QED
    BY <1>10, <1>b, <2>1 DEF MakeSaleUnseated, TypeOK
<1>5. ASSUME NEW m \in wire, SyncOutbox(m)
      PROVE  Kept
  BY <1>5, <1>b DEF SyncOutbox, TypeOK, Reconciled
<1>6. ASSUME NEW m \in wire, NEW t \in Sales, NEW done \in SUBSET Sales, SyncOutboxCrash(m, t, done)
      PROVE  Kept
  BY <1>6, <1>b DEF SyncOutboxCrash, TypeOK, Reconciled
<1>7. ASSUME UNCHANGED <<order, drawer, queue>>
      PROVE  Kept
  BY <1>7, <1>b
<1>8. ASSUME \/ \E s \in Sales : SellOffline(s) \/ SellOnline(s) \/ SaleAnswered(s) \/ SaleUnreachable(s)
             \/ \E r \in Runs : Outbox(r)
             \/ \E m \in wire : RefuseSale(m) \/ RepeatLocalSale(m) \/ RefuseLocalSale(m)
             \/ LoadCore \/ Reload \/ SellElsewhere \/ ReplaceTerminal \/ CloseShift \/ OpenShift
             \/ UNCHANGED vars
      PROVE  UNCHANGED <<order, drawer, queue>>
  BY <1>8 DEF SellOffline, SellOnline, SaleAnswered, SaleUnreachable, Outbox, StartRun, ListPending,
              SendNext, Acknowledged, Progress, RunBroken, RefuseSale, RepeatLocalSale,
              RefuseLocalSale, LoadCore, Reload, SellElsewhere, ReplaceTerminal, CloseShift,
              OpenShift, vars, core
<1> HIDE DEF Kept
<1>9. Kept
  BY <1>1, <1>2, <1>3, <1>4, <1>5, <1>6, <1>7, <1>8, <1>10 DEF Next, Till, Core
<1> QED
  BY <1>9 DEF Kept

(* A seating that was refused stays on record.                                *)
LEMMA UnseatedGrows ==
    ASSUME [Next]_vars
    PROVE  unseated \subseteq unseated'
<1>1. ASSUME NEW s \in Sales, Till(s)
      PROVE  unseated' = unseated
  BY <1>1 DEF Till, SellOffline, SellOnline, SaleAnswered, SaleUnreachable, SettleByHand
<1>2. ASSUME NEW r \in Runs, Outbox(r)
      PROVE  unseated' = unseated
  BY <1>2 DEF Outbox, StartRun, ListPending, SendNext, Acknowledged, Progress, RunBroken
<1>3. ASSUME NEW m \in wire, Core(m)
      PROVE  unseated \subseteq unseated'
  BY <1>3 DEF Core, RefuseSale, MakeSale, MakeSaleUnseated, MakeSaleCrash, RepeatLocalSale,
              RefuseLocalSale, RecordLocalSale, SyncOutbox, SyncOutboxCrash
<1>4. ASSUME LoadCore \/ Reload \/ SellElsewhere \/ ReplaceTerminal \/ CloseShift \/ OpenShift
             \/ UNCHANGED vars
      PROVE  unseated' = unseated
  BY <1>4 DEF LoadCore, Reload, SellElsewhere, ReplaceTerminal, CloseShift, OpenShift, vars
<1> QED
  BY <1>1, <1>2, <1>3, <1>4 DEF Next

(* Cash that is counted stays counted.                                        *)
LEMMA CountedStays ==
    ASSUME TypeOK, Asked, [Next]_vars, NEW s \in Sales, Counted(s)
    PROVE  Counted(s)'
<1>1. PICK h \in 1..MaxShifts : drawer[h][s] > 0
  BY DEF Counted
<1>2. drawer'[h][s] >= drawer[h][s]
  BY CoreRemembers
<1>3. drawer[h][s] \in Nat /\ drawer'[h][s] \in Nat
  <2>1. TypeOK'
    BY StepTypes
  <2> QED
    <3>1. drawer \in [1..MaxShifts -> [Sales -> Nat]] /\ drawer' \in [1..MaxShifts -> [Sales -> Nat]]
      BY <2>1 DEF TypeOK
    <3>2. drawer[h] \in [Sales -> Nat] /\ drawer'[h] \in [Sales -> Nat]
      BY <1>1, <3>1
    <3> QED
      BY <3>2
<1> QED
  BY <1>1, <1>2, <1>3 DEF Counted

(* What the core has queued stays counted in the shift of its sale.          *)
LEMMA StepQueued ==
    ASSUME TypeOK, Asked, QueuedIsCounted, [Next]_vars
    PROVE  QueuedIsCounted'
<1> USE OfflineAssumption
<1> SUFFICES ASSUME NEW s \in Sales, queue'[s] # "none"
             PROVE  stage'[s] # "new" /\ order'[s] # "none" /\ drawer'[op'[s].shift][s] > 0
  BY DEF QueuedIsCounted
<1>1. CASE queue[s] = "none"
  BY <1>1, CoreRemembers, UnderWay
<1>2. CASE queue[s] # "none"
  <2>1. stage[s] # "new" /\ order[s] # "none" /\ drawer[op[s].shift][s] > 0
    BY <1>2 DEF QueuedIsCounted
  <2>2. op[s].shift \in 1..MaxShifts
    BY <2>1 DEF Asked, TypeOK, Payloads
  <2>3. drawer'[op[s].shift][s] >= drawer[op[s].shift][s] /\ order'[s] # "none"
    BY <2>1, <2>2, CoreRemembers
  <2>4. drawer[op[s].shift][s] \in Nat /\ drawer'[op[s].shift][s] \in Nat
    <3>1. TypeOK'
      BY StepTypes
    <3>2. drawer \in [1..MaxShifts -> [Sales -> Nat]] /\ drawer' \in [1..MaxShifts -> [Sales -> Nat]]
      BY <3>1 DEF TypeOK
    <3>3. drawer[op[s].shift] \in [Sales -> Nat] /\ drawer'[op[s].shift] \in [Sales -> Nat]
      BY <2>2, <3>2
    <3> QED
      BY <3>3
  <2> QED
    BY <2>1, <2>3, <2>4, UnderWay
<1> QED
  BY <1>1, <1>2

(* What the core has paid, or told the till it has, is counted.               *)
LEMMA StepPaid ==
    ASSUME TypeOK, Asked, PaidIsCounted, [Next]_vars
    PROVE  PaidIsCounted'
<1> SUFFICES ASSUME NEW s \in Sales, order'[s] = "paid" \/ (stage'[s] = "yes" /\ s \notin unseated')
             PROVE  Counted(s)'
  BY DEF PaidIsCounted
<1>1. ASSUME order'[s] = "paid"
      PROVE  Counted(s)'
  <2>1. CASE order[s] = "paid"
    BY <2>1, CountedStays DEF PaidIsCounted
  <2>2. CASE order[s] # "paid"
    BY <1>1, <2>2, CoreRemembers DEF Counted
  <2> QED
    BY <2>1, <2>2
<1>2. ASSUME stage'[s] = "yes", stage[s] # "yes", s \notin unseated'
      PROVE  order'[s] = "paid"
  <2>1. ASSUME NEW t \in Sales, Till(t)
        PROVE  FALSE
    BY <1>2, <2>1 DEF Till, SellOffline, SellOnline, SaleAnswered, SaleUnreachable, SettleByHand,
                      Store, TypeOK, browser
  <2>2. ASSUME NEW m \in wire, NEW yes \in BOOLEAN, Reply(m, yes)
        PROVE  m.kind = "sale" /\ m.sale = s /\ yes
    BY <1>2, <2>2 DEF Reply, TypeOK
  <2>3. ASSUME NEW m \in wire, Core(m)
        PROVE  order'[s] = "paid"
    <3>1. CASE MakeSale(m)
      BY <2>2, <3>1 DEF MakeSale, TypeOK
    <3>2. CASE RefuseSale(m) \/ RefuseLocalSale(m)
      BY <2>2, <3>2 DEF RefuseSale, RefuseLocalSale
    <3>3. CASE RepeatLocalSale(m) \/ RecordLocalSale(m)
      BY <2>2, <3>3 DEF RepeatLocalSale, RecordLocalSale
    <3>4. ASSUME MakeSaleCrash(m) \/ SyncOutbox(m) \/ \E t \in Sales, done \in SUBSET Sales : SyncOutboxCrash(m, t, done)
          PROVE  FALSE
      BY <1>2, <3>4 DEF MakeSaleCrash, SyncOutbox, SyncOutboxCrash, browser
    <3>5. ASSUME MakeSaleUnseated(m)
          PROVE  FALSE
      <4>1. m.kind = "sale" /\ m.sale = s /\ m.from # "page"
        BY <1>2, <2>2, <3>5 DEF MakeSaleUnseated
      <4> QED
        BY <1>2, <3>5, <4>1 DEF MakeSaleUnseated, Reply
    <3> QED
      BY <2>3, <3>1, <3>2, <3>3, <3>4, <3>5 DEF Core
  <2>4. ASSUME \/ \E r \in Runs : Outbox(r)
               \/ LoadCore \/ SellElsewhere \/ ReplaceTerminal \/ CloseShift \/ OpenShift
               \/ UNCHANGED vars
        PROVE  FALSE
    BY <1>2, <2>4 DEF Outbox, StartRun, ListPending, SendNext, Acknowledged, Progress, RunBroken,
                      LoadCore, SellElsewhere, ReplaceTerminal, CloseShift, OpenShift, vars, browser
  <2>5. ASSUME Reload
        PROVE  FALSE
    BY <1>2, <2>5 DEF Reload
  <2> QED
    BY <2>1, <2>3, <2>4, <2>5 DEF Next
<1>3. CASE stage[s] = "yes" /\ s \notin unseated'
  BY <1>3, CountedStays, UnseatedGrows DEF PaidIsCounted
<1> QED
  BY <1>1, <1>2, <1>3

(* Runs wait for an answer about the sale they sent.                          *)
LEMMA StepRuns ==
    ASSUME TypeOK, Asked, RunsListen, [Next]_vars
    PROVE  RunsListen'
<1> USE OfflineAssumption
<1>t. TypeOK'
  BY StepTypes
<1> DEFINE Hears(m) == m.kind = "local" /\ m.from \in Runs
           Waits(r, s) == run[r].at = "waiting" /\ run[r].got = "" /\ run[r].sale = s
<1>1. ASSUME NEW n \in wire', Hears(n)
      PROVE  Waits(n.from, n.sale)'
  <2>0. n.sale \in Sales /\ n \in Requests
    BY <1>t, <1>1 DEF TypeOK, Requests
  <2>1. ASSUME NEW R \in SUBSET wire, \A m \in R : m.kind # "outbox", n \in Unheard(R)
        PROVE  n \in wire /\ n \notin R
    <3>1. n.from # "nobody"
      BY <1>1, OfflineAssumption
    <3>2. n \in wire \ R \/ \E m \in R : n = [m EXCEPT !.from = "nobody"]
      BY <2>1 DEF Unheard
    <3>3. ASSUME NEW m \in R
          PROVE  [m EXCEPT !.from = "nobody"].from = "nobody"
      BY <2>1, <3>3 DEF TypeOK, Requests
    <3> QED
      BY <3>1, <3>2, <3>3
  <2>2. ASSUME n \in wire, run'[n.from] = run[n.from]
        PROVE  Waits(n.from, n.sale)'
    BY <1>1, <2>2 DEF RunsListen
  <2>3. ASSUME NEW t \in Sales, Till(t)
        PROVE  Waits(n.from, n.sale)'
    <3>1. run' = run
      BY <2>3 DEF Till, SellOffline, SellOnline, SaleAnswered, SaleUnreachable, SettleByHand, browser
    <3>2. n \in wire
      <4>1. CASE SaleUnreachable(t)
        BY <2>1, <4>1 DEF SaleUnreachable
      <4>2. CASE ~SaleUnreachable(t)
        BY <1>1, <2>3, <4>2 DEF Till, SellOffline, SellOnline, SaleAnswered, SettleByHand
      <4> QED
        BY <4>1, <4>2
    <3> QED
      BY <2>2, <3>1, <3>2
  <2>4. ASSUME NEW r \in Runs, NEW t \in Sales, SendNext(r, t)
        PROVE  Waits(n.from, n.sale)'
    <3>1. run'[r] = [run[r] EXCEPT !.at = "waiting", !.sale = t] /\ run[r] \in RunStates
      BY <2>4 DEF SendNext, TypeOK
    <3>2. run'[r].at = "waiting" /\ run'[r].sale = t /\ run'[r].got = run[r].got
      BY <3>1 DEF RunStates
    <3>3. run[r].got = "" /\ run[r].at = "ready"
      BY <2>4 DEF SendNext, RunsListen
    <3>4. CASE n = [kind |-> "local", sale |-> t, from |-> r]
      BY <3>2, <3>3, <3>4
    <3>5. CASE n # [kind |-> "local", sale |-> t, from |-> r]
      <4>1. n \in wire
        BY <2>4, <3>5 DEF SendNext
      <4>2. n.from # r
        BY <1>1, <3>3, <4>1 DEF RunsListen
      <4> QED
        BY <1>1, <2>2, <2>4, <4>1, <4>2 DEF SendNext, TypeOK
    <3> QED
      BY <3>4, <3>5
  <2>5. ASSUME NEW r \in Runs, NEW t \in Sales, Acknowledged(r, t)
        PROVE  Waits(n.from, n.sale)'
    <3>1. n \in wire
      <4>1. n \in wire \/ n = [kind |-> "outbox", terminal |-> app.terminal]
        BY <2>5 DEF Acknowledged, Progress, EndRun
      <4> QED
        BY <1>1, <4>1
    <3>2. n.from # r
      BY <1>1, <2>5, <3>1 DEF Acknowledged, RunsListen
    <3> QED
      BY <1>1, <2>2, <2>5, <3>1, <3>2 DEF Acknowledged, Progress, EndRun, TypeOK
  <2>6. ASSUME NEW r \in Runs, NEW t \in Sales, RunBroken(r, t)
        PROVE  Waits(n.from, n.sale)'
    <3> DEFINE R == wire \cap {[kind |-> "local", sale |-> t, from |-> r]}
    <3>1. n \in Unheard(R)
      BY <1>1, <2>6 DEF RunBroken, EndRun
    <3>2. n \in wire /\ n \notin R
      BY <2>1, <3>1
    <3>3. n.from # r
      <4>1. SUFFICES ASSUME n.from = r
                     PROVE  FALSE
        OBVIOUS
      <4>2. run[r].sale = n.sale /\ run[r].sale = t
        BY <1>1, <2>6, <3>2, <4>1 DEF RunsListen, RunBroken
      <4>3. n = [kind |-> "local", sale |-> t, from |-> r]
        BY <1>1, <2>0, <4>1, <4>2 DEF Requests
      <4> QED
        BY <3>2, <4>3
    <3> QED
      BY <1>1, <2>2, <2>6, <3>2, <3>3 DEF RunBroken, EndRun, TypeOK
  <2>7. ASSUME NEW r \in Runs, StartRun(r) \/ ListPending(r)
        PROVE  Waits(n.from, n.sale)'
    <3>1. n \in wire
      BY <2>7 DEF StartRun, ListPending
    <3>2. n.from # r
      BY <1>1, <2>7, <3>1 DEF StartRun, ListPending, RunsListen
    <3> QED
      BY <1>1, <2>2, <2>7, <3>1, <3>2 DEF StartRun, ListPending, TypeOK
  <2>8. ASSUME Reload
        PROVE  FALSE
    <3>1. n \in Unheard({m \in wire : m.kind # "outbox"})
      BY <2>8 DEF Reload
    <3> QED
      BY <1>1, <2>1, <3>1
  <2>9. ASSUME NEW m \in wire, NEW yes \in BOOLEAN, m.kind # "outbox", Reply(m, yes)
        PROVE  Waits(n.from, n.sale)'
    <3>1. n \in wire /\ n # m
      BY <2>9 DEF Reply
    <3>2. CASE m.from = n.from
      <4>1. CASE m.kind = "local"
        <5>1. m.sale = n.sale
          BY <1>1, <3>1, <3>2, <4>1 DEF RunsListen
        <5>2. m = n
          <6>1. m = [kind |-> "local", sale |-> m.sale, from |-> m.from]
            BY <4>1 DEF TypeOK, Requests
          <6>2. n = [kind |-> "local", sale |-> n.sale, from |-> n.from]
            BY <1>1, <2>0 DEF Requests
          <6> QED
            BY <3>2, <5>1, <6>1, <6>2
        <5> QED
          BY <3>1, <5>2
      <4>2. CASE m.kind = "sale"
        BY <1>1, <3>2, <4>2 DEF TypeOK, Requests
      <4> QED
        BY <2>9, <4>1, <4>2 DEF TypeOK, Requests
    <3>3. CASE m.from # n.from
      <4>1. run'[n.from] = run[n.from]
        BY <1>1, <2>9, <3>3 DEF Reply, TypeOK
      <4> QED
        BY <2>2, <3>1, <4>1
    <3> QED
      BY <3>2, <3>3
  <2>10. ASSUME NEW m \in wire, Core(m)
         PROVE  Waits(n.from, n.sale)'
    <3>1. CASE MakeSaleCrash(m) \/ SyncOutbox(m) \/ \E t \in Sales, done \in SUBSET Sales : SyncOutboxCrash(m, t, done)
      BY <2>2, <3>1 DEF MakeSaleCrash, SyncOutbox, SyncOutboxCrash, browser
    <3> QED
      BY <2>9, <2>10, <3>1 DEF Core, RefuseSale, MakeSale, MakeSaleUnseated, RepeatLocalSale, RefuseLocalSale,
                              RecordLocalSale
  <2>11. ASSUME LoadCore \/ SellElsewhere \/ ReplaceTerminal \/ CloseShift \/ OpenShift \/ UNCHANGED vars
         PROVE  Waits(n.from, n.sale)'
    BY <2>2, <2>11 DEF LoadCore, SellElsewhere, ReplaceTerminal, CloseShift, OpenShift, vars, browser
  <2> QED
    BY <2>3, <2>4, <2>5, <2>6, <2>7, <2>8, <2>10, <2>11 DEF Next, Outbox
<1>2. ASSUME NEW r \in Runs
      PROVE  /\ run'[r].at # "waiting" => run'[r].got = ""
             /\ run'[r].got = "yes" => run'[r].sale \in Sales /\ queue'[run'[r].sale] # "none"
  <2> DEFINE Good == /\ run'[r].at # "waiting" => run'[r].got = ""
                     /\ run'[r].got = "yes" => run'[r].sale \in Sales /\ queue'[run'[r].sale] # "none"
  <2>0. run[r] \in RunStates
    BY DEF TypeOK
  <2>1. ASSUME run'[r] = run[r]
        PROVE  Good
    BY <2>1, CoreRemembers DEF RunsListen
  <2>2. ASSUME NEW t \in Sales, SendNext(r, t)
        PROVE  Good
    <3>1. run'[r] = [run[r] EXCEPT !.at = "waiting", !.sale = t] /\ run[r].got = ""
      BY <2>2 DEF SendNext, TypeOK, RunsListen
    <3>2. run'[r].at = "waiting" /\ run'[r].got = ""
      BY <2>0, <3>1 DEF RunStates
    <3> QED
      BY <3>2
  <2>3. ASSUME run'[r].got = ""
        PROVE  Good
    BY <2>3
  <2>4. ASSUME NEW t \in Sales, Progress(r, t)
        PROVE  run'[r].got = ""
    <3> DEFINE Rest == [at |-> "ready", todo |-> run[r].todo \ {t}, sale |-> "none", got |-> ""]
    <3>1. run'[r] = Idle \/ run'[r] = Rest
      BY <2>4 DEF Progress, EndRun, TypeOK
    <3>2. Idle.got = "" /\ Rest.got = ""
      BY DEF Idle
    <3> HIDE DEF Rest
    <3> QED
      BY <3>1, <3>2
  <2>5. ASSUME NEW t \in Sales, RunBroken(r, t)
        PROVE  run'[r].got = ""
    BY <2>5 DEF RunBroken, EndRun, Idle, TypeOK
  <2>6. ASSUME StartRun(r) \/ ListPending(r)
        PROVE  run'[r].got = ""
    <3>1. \/ run'[r] = [run[r] EXCEPT !.at = "listing"]
          \/ run'[r] = Idle
          \/ run'[r] = [run[r] EXCEPT !.at = "ready", !.todo = Pending]
      BY <2>6 DEF StartRun, ListPending, TypeOK
    <3>2. run[r].got = "" /\ Idle.got = ""
      BY <2>6 DEF StartRun, ListPending, RunsListen, Idle
    <3> QED
      BY <2>0, <3>1, <3>2 DEF RunStates
  <2>7. ASSUME NEW q \in Runs \ {r}, Outbox(q)
        PROVE  run'[r] = run[r]
    BY <2>7, OtherRuns
  <2>8. ASSUME Reload
        PROVE  run'[r].got = ""
    BY <2>8 DEF Reload, Idle
  <2>9. ASSUME NEW m \in wire, NEW yes \in BOOLEAN, Reply(m, yes),
               m.kind # "outbox", m.kind = "local" /\ yes => queue'[m.sale] # "none"
        PROVE  Good
    <3>1. CASE m.from = r
      <4>1. m.kind = "local" /\ m.sale \in Sales
        BY <2>9, <3>1 DEF TypeOK, Requests
      <4>2. run[r].at = "waiting" /\ run[r].sale = m.sale
        BY <3>1, <4>1 DEF RunsListen
      <4> QED
        BY <2>9, <3>1, <4>1, <4>2, ReplyKeepsRuns
    <3>2. CASE m.from # r
      <4>1. run'[r] = run[r]
        BY <2>9, <3>2 DEF Reply, TypeOK
      <4> QED
        BY <2>1, <4>1
    <3> QED
      BY <3>1, <3>2
  <2>10. ASSUME NEW m \in wire, Core(m)
         PROVE  Good
    <3>0. m.kind # "outbox" => m.sale \in Sales
      BY DEF TypeOK, Requests
    <3>1. CASE MakeSaleCrash(m) \/ SyncOutbox(m) \/ \E t \in Sales, done \in SUBSET Sales : SyncOutboxCrash(m, t, done)
      BY <2>1, <3>1 DEF MakeSaleCrash, SyncOutbox, SyncOutboxCrash, browser
    <3>2. CASE RefuseSale(m) \/ RefuseLocalSale(m)
      BY <2>9, <3>2 DEF RefuseSale, RefuseLocalSale
    <3>3. CASE MakeSale(m)
      BY <2>9, <3>3 DEF MakeSale
    <3>6. CASE MakeSaleUnseated(m)
      BY <2>9, <3>6 DEF MakeSaleUnseated
    <3>4. CASE RepeatLocalSale(m)
      BY <2>9, <3>4 DEF RepeatLocalSale, core
    <3>5. CASE RecordLocalSale(m)
      BY <2>9, <3>0, <3>5 DEF RecordLocalSale, TypeOK
    <3> QED
      BY <2>10, <3>1, <3>2, <3>3, <3>4, <3>5, <3>6 DEF Core
  <2>11. ASSUME \/ \E s \in Sales : Till(s)
                \/ LoadCore \/ SellElsewhere \/ ReplaceTerminal \/ CloseShift \/ OpenShift
                \/ UNCHANGED vars
         PROVE  run' = run
    BY <2>11 DEF Till, SellOffline, SellOnline, SaleAnswered, SaleUnreachable, SettleByHand,
                 LoadCore, SellElsewhere, ReplaceTerminal, CloseShift, OpenShift, vars, browser
  <2> HIDE DEF Good
  <2>12. ASSUME NEW q \in Runs, Outbox(q)
         PROVE  Good
    <3>1. CASE q = r
      BY <2>2, <2>3, <2>4, <2>5, <2>6, <2>12, <3>1 DEF Outbox, Acknowledged
    <3>2. CASE q # r
      BY <2>1, <2>7, <2>12, <3>2
    <3> QED
      BY <3>1, <3>2
  <2>13. Good
    BY <2>1, <2>3, <2>8, <2>10, <2>11, <2>12 DEF Next
  <2> QED
    BY <2>13 DEF Good
<1> QED
  BY <1>1, <1>2 DEF RunsListen

-----------------------------------------------------------------------------
(* What the browser believes                                                  *)

(* Only an answer makes an operation SYNCED.                                  *)
LEMMA StepSynced ==
    ASSUME TypeOK, Asked, RunsListen, SyncedIsQueued, [Next]_vars
    PROVE  SyncedIsQueued'
<1> SUFFICES ASSUME NEW s \in Sales, sync'[s] = "SYNCED"
             PROVE  queue'[s] # "none"
  BY DEF SyncedIsQueued
<1>1. CASE sync[s] = "SYNCED"
  BY <1>1, CoreRemembers DEF SyncedIsQueued
<1>2. ASSUME sync[s] # "SYNCED", NEW r \in Runs, NEW t \in Sales, Acknowledged(r, t)
      PROVE  queue'[s] # "none"
  <2>1. s = t /\ run[r].got = "yes" /\ run[r].sale = s
    BY <1>2 DEF Acknowledged, Progress, TypeOK
  <2> QED
    BY <2>1, CoreRemembers DEF RunsListen
<1>3. ASSUME sync[s] # "SYNCED",
             ~ \E r \in Runs, t \in Sales : Acknowledged(r, t)
      PROVE  FALSE
  <2>1. ASSUME NEW t \in Sales, Till(t)
        PROVE  FALSE
    BY <1>3, <2>1 DEF Till, SellOffline, SellOnline, SaleAnswered, SaleUnreachable, SettleByHand,
                      Store, TypeOK, browser
  <2>2. ASSUME NEW r \in Runs, NEW t \in Sales, SendNext(r, t) \/ RunBroken(r, t)
        PROVE  FALSE
    BY <1>3, <2>2 DEF SendNext, RunBroken, TypeOK
  <2>3. ASSUME Reload
        PROVE  FALSE
    BY <1>3, <2>3 DEF Reload
  <2>4. ASSUME \/ \E r \in Runs : StartRun(r) \/ ListPending(r)
               \/ \E m \in wire : Core(m)
               \/ LoadCore \/ SellElsewhere \/ ReplaceTerminal \/ CloseShift \/ OpenShift
               \/ UNCHANGED vars
        PROVE  sync' = sync
    BY <2>4 DEF StartRun, ListPending, Core, RefuseSale, MakeSale, MakeSaleUnseated, MakeSaleCrash, RepeatLocalSale,
                RefuseLocalSale, RecordLocalSale, SyncOutbox, SyncOutboxCrash, LoadCore,
                SellElsewhere, ReplaceTerminal, CloseShift, OpenShift, vars, browser
  <2> QED
    BY <1>3, <2>1, <2>2, <2>3, <2>4 DEF Next, Outbox
<1> QED
  BY <1>1, <1>2, <1>3

(* Cash that was taken is counted, or its operation waits.                    *)
LEMMA StepMoney ==
    ASSUME IInv, [Next]_vars
    PROVE  MoneyIsCountedOrWaiting'
<1> USE DEF IInv
<1> SUFFICES ASSUME NEW s \in Sales \ unseated', stage'[s] = "handed"
             PROVE  Counted(s)' \/ Waiting(s)'
  BY DEF MoneyIsCountedOrWaiting
<1>0. s \notin unseated
  BY UnseatedGrows
<1>1. CASE Counted(s)
  BY <1>1, CountedStays
<1>2. ASSUME ~Counted(s), stage[s] # "handed"
      PROVE  Waiting(s)'
  <2>1. ASSUME NEW t \in Sales, NEW h, Store(t, h), s = t
        PROVE  Waiting(s)'
    BY <2>1, StoredGrows DEF Store, Waiting, TypeOK
  <2>2. ASSUME NEW t \in Sales, Till(t)
        PROVE  Waiting(s)'
    <3>1. CASE SellOffline(t) \/ SaleUnreachable(t)
      <4>1. s = t
        BY <1>2, <3>1 DEF SellOffline, SaleUnreachable, Store, TypeOK
      <4> QED
        BY <2>1, <3>1, <4>1 DEF SellOffline, SaleUnreachable
    <3>2. CASE SellOnline(t) \/ SettleByHand(t)
      BY <1>2, <3>2 DEF SellOnline, SettleByHand, TypeOK, browser
    <3>3. CASE SaleAnswered(t)
      BY <1>0, <1>2, <3>3 DEF SaleAnswered, TypeOK, PaidIsCounted
    <3> QED
      BY <2>2, <3>1, <3>2, <3>3 DEF Till
  <2>3. ASSUME NEW m \in wire, NEW yes \in BOOLEAN, Reply(m, yes)
        PROVE  FALSE
    BY <1>2, <2>3 DEF Reply, TypeOK
  <2>4. ASSUME \/ \E r \in Runs : Outbox(r)
               \/ \E m \in wire : Core(m)
               \/ LoadCore \/ SellElsewhere \/ ReplaceTerminal \/ CloseShift \/ OpenShift
               \/ UNCHANGED vars
        PROVE  stage' = stage \/ \E m \in wire, yes \in BOOLEAN : Reply(m, yes)
    BY <2>4 DEF Outbox, StartRun, ListPending, SendNext, Acknowledged, Progress, RunBroken, Core,
                RefuseSale, MakeSale, MakeSaleUnseated, MakeSaleCrash, RepeatLocalSale, RefuseLocalSale,
                RecordLocalSale, SyncOutbox, SyncOutboxCrash, LoadCore, SellElsewhere,
                ReplaceTerminal, CloseShift, OpenShift, vars, browser
  <2>5. ASSUME Reload
        PROVE  FALSE
    BY <1>2, <2>5 DEF Reload
  <2> QED
    BY <1>2, <2>2, <2>3, <2>4, <2>5 DEF Next
<1>3. ASSUME ~Counted(s), Waiting(s)
      PROVE  Counted(s)' \/ Waiting(s)'
  <2>1. s \in Stored'
    <3>1. Stored \subseteq Stored'
      BY OnlyTheTillStores, StoredGrows DEF IInv, Store, Stored
    <3> QED
      BY <1>3, <3>1 DEF Waiting
  <2>2. CASE sync'[s] = "SYNCED"
    <3>1. queue'[s] # "none"
      BY <2>2, StepSynced DEF SyncedIsQueued
    <3>2. drawer'[op'[s].shift][s] > 0 /\ stage'[s] # "new"
      BY <3>1, StepQueued DEF QueuedIsCounted
    <3>3. op'[s].shift \in 1..MaxShifts
      <4>1. TypeOK' /\ Asked'
        BY StepTypes, StepAsked
      <4> QED
        <5>1. op'[s] \in Payloads /\ op'[s].shift # 0
          BY <3>2, <4>1 DEF TypeOK, Asked
        <5> QED
          BY <5>1, OfflineAssumption DEF Payloads
    <3> QED
      BY <3>2, <3>3 DEF Counted
  <2>3. CASE sync'[s] # "SYNCED"
    <3>1. sync'[s] # "none"
      <4>1. ASSUME NEW t \in Sales, Till(t)
            PROVE  sync'[s] # "none"
        BY <1>3, <4>1 DEF Till, SellOffline, SellOnline, SaleAnswered, SaleUnreachable, SettleByHand,
                          Store, TypeOK, browser, Waiting
      <4>2. ASSUME NEW r \in Runs, NEW t \in Sales, SendNext(r, t) \/ RunBroken(r, t) \/ Acknowledged(r, t)
            PROVE  sync'[s] # "none"
        BY <1>3, <4>2 DEF SendNext, RunBroken, Acknowledged, Progress, TypeOK, Waiting
      <4>3. ASSUME Reload
            PROVE  sync'[s] # "none"
        BY <1>3, <4>3 DEF Reload, Waiting
      <4>4. ASSUME \/ \E r \in Runs : StartRun(r) \/ ListPending(r)
                   \/ \E m \in wire : Core(m)
                   \/ LoadCore \/ SellElsewhere \/ ReplaceTerminal \/ CloseShift \/ OpenShift
                   \/ UNCHANGED vars
            PROVE  sync' = sync
        BY <4>4 DEF StartRun, ListPending, Core, RefuseSale, MakeSale, MakeSaleUnseated, MakeSaleCrash, RepeatLocalSale,
                    RefuseLocalSale, RecordLocalSale, SyncOutbox, SyncOutboxCrash, LoadCore,
                    SellElsewhere, ReplaceTerminal, CloseShift, OpenShift, vars, browser
      <4> QED
        BY <1>3, <4>1, <4>2, <4>3, <4>4 DEF Next, Outbox, Waiting
    <3>2. TypeOK'
      BY StepTypes
    <3> QED
      BY <2>1, <2>3, <3>1, <3>2 DEF TypeOK, Waiting
  <2> QED
    BY <2>2, <2>3
<1> QED
  BY <1>0, <1>1, <1>2, <1>3 DEF MoneyIsCountedOrWaiting
-----------------------------------------------------------------------------
(* The inductive invariant and the theorems                                   *)

(* No sale has begun at first.                                               *)
LEMMA InitIInv ==
    ASSUME Init
    PROVE  IInv
<1> USE OfflineAssumption
<1>1. TypeOK
  <2>1. stage \in [Sales -> Stages] /\ op \in [Sales -> Payloads] /\ saved \in Seq(Sales)
    BY DEF Init, Stages, Payloads
  <2>2. run \in [Runs -> RunStates] /\ wire \subseteq Requests
    BY DEF Init, RunStates, Idle
  <2>3. app \in [terminal : 1..MaxTerminals, shift : 0..MaxShifts, busy : BOOLEAN]
    BY DEF Init
  <2>4. drawer \in [1..MaxShifts -> [Sales -> Nat]]
    BY DEF Init
  <2> QED
    BY <2>1, <2>2, <2>3, <2>4 DEF Init, TypeOK
<1>2. Stored = {}
  BY DEF Init, Stored
<1>3. Asked /\ RunsListen
  BY <1>2 DEF Init, Asked, RunsListen, Idle
<1>4. QueuedIsCounted /\ PaidIsCounted /\ SyncedIsQueued /\ MoneyIsCountedOrWaiting
  BY DEF Init, QueuedIsCounted, PaidIsCounted, SyncedIsQueued, MoneyIsCountedOrWaiting
<1> QED
  BY <1>1, <1>3, <1>4 DEF IInv

(* Every step keeps the invariant: one lemma per part.                       *)
LEMMA StepIInv ==
    ASSUME IInv, [Next]_vars
    PROVE  IInv'
BY StepTypes, StepAsked, StepQueued, StepPaid, StepRuns, StepSynced, StepMoney DEF IInv

(* The invariant holds in every reachable state.                             *)
LEMMA Inductive == Spec => []IInv
<1>1. Init => IInv
  BY InitIInv
<1>2. IInv /\ [Next]_vars => IInv'
  BY StepIInv
<1> QED
  BY <1>1, <1>2, PTL DEF Spec

(* Types, for any sales, runs, terminals, shifts and crashes.  With them no   *)
(* sale of the till, the outbox or another channel takes stock that is not    *)
(* there.                                                                     *)
THEOREM TypesAreCorrect == Spec => []TypeOK
<1>1. IInv => TypeOK
  BY DEF IInv
<1> QED
  BY <1>1, Inductive, PTL

(* What the browser shows as SYNCED the core has ordered, queued and counted  *)
(* in the shift of the sale, however runs overlap and either side restarts.   *)
THEOREM SyncedSalesAreCounted == Spec => []SyncedIsCounted
<1>1. IInv => SyncedIsCounted
  BY DEF IInv, SyncedIsCounted, SyncedIsQueued, QueuedIsCounted
<1> QED
  BY <1>1, Inductive, PTL

(* No cash the cashier has taken is forgotten between browser and core, unless *)
(* the core answered the sale as made though it could not seat its guests.     *)
THEOREM NoMoneyIsForgotten == Spec => []MoneyIsCountedOrWaiting
<1>1. IInv => MoneyIsCountedOrWaiting
  BY DEF IInv
<1> QED
  BY <1>1, Inductive, PTL
(* One step of the core is a sale, or a sale elsewhere, or nothing at all, of *)
(* SoldOnce.                                                                  *)
LEMMA StepRefines ==
    ASSUME TypeOK, [Next]_vars
    PROVE  [SO!Next]_(SO!vars)
<1> DEFINE Sold == {s \in Sales : order[s] # "none"}
<1>0. ASSUME UNCHANGED <<stock, elsewhere>>, \A s \in Sales : order'[s] # "none" <=> order[s] # "none"
      PROVE  UNCHANGED SO!vars
  BY <1>0 DEF SO!vars
<1>1. ASSUME NEW t \in Sales, order[t] = "none", stock > 0, stock' = stock - 1, elsewhere' = elsewhere,
             NEW v \in {"unpaid", "paid"}, order' = [order EXCEPT ![t] = v]
      PROVE  SO!Next
  <2>1. t \notin Sold /\ Sold' = Sold \cup {t}
    BY <1>1 DEF TypeOK
  <2> QED
    BY <1>1, <2>1 DEF SO!Next, SO!Sell
<1>2. ASSUME NEW m \in wire, MakeSale(m)
      PROVE  SO!Next \/ UNCHANGED SO!vars
  <2>1. m.sale \in Sales
    BY <1>2 DEF MakeSale, TypeOK, Requests
  <2>2. CASE order[m.sale] = "none"
    BY <1>1, <1>2, <2>1, <2>2 DEF MakeSale
  <2>3. CASE order[m.sale] # "none"
    BY <1>0, <1>2, <2>1, <2>3 DEF MakeSale, TypeOK
  <2> QED
    BY <2>2, <2>3
<1>8. ASSUME NEW m \in wire, MakeSaleUnseated(m)
      PROVE  SO!Next \/ UNCHANGED SO!vars
  <2>1. m.sale \in Sales
    BY <1>8 DEF MakeSaleUnseated, TypeOK, Requests
  <2>2. CASE order[m.sale] = "none"
    BY <1>1, <1>8, <2>1, <2>2 DEF MakeSaleUnseated
  <2>3. CASE order[m.sale] # "none"
    BY <1>0, <1>8, <2>1, <2>3 DEF MakeSaleUnseated, TypeOK
  <2> QED
    BY <2>2, <2>3
<1>3. ASSUME NEW m \in wire, MakeSaleCrash(m) \/ RecordLocalSale(m)
      PROVE  SO!Next
  <2>1. m.sale \in Sales
    BY <1>3 DEF MakeSaleCrash, RecordLocalSale, TypeOK, Requests
  <2> QED
    BY <1>1, <1>3, <2>1 DEF MakeSaleCrash, RecordLocalSale
<1>4. ASSUME NEW t \in Sales, SettleByHand(t)
      PROVE  UNCHANGED SO!vars
  BY <1>0, <1>4 DEF SettleByHand, TypeOK
<1>5. ASSUME SellElsewhere
      PROVE  SO!Next
  BY <1>5 DEF SellElsewhere, SO!Next, SO!SellElsewhere
<1>6. ASSUME UNCHANGED <<order, stock, elsewhere>>
      PROVE  UNCHANGED SO!vars
  BY <1>0, <1>6
<1>7. ASSUME \/ \E s \in Sales : SellOffline(s) \/ SellOnline(s) \/ SaleAnswered(s) \/ SaleUnreachable(s)
             \/ \E r \in Runs : Outbox(r)
             \/ \E m \in wire : RefuseSale(m) \/ RepeatLocalSale(m) \/ RefuseLocalSale(m) \/ SyncOutbox(m)
             \/ \E m \in wire, s \in Sales, done \in SUBSET Sales : SyncOutboxCrash(m, s, done)
             \/ LoadCore \/ Reload \/ ReplaceTerminal \/ CloseShift \/ OpenShift
             \/ UNCHANGED vars
      PROVE  UNCHANGED <<order, stock, elsewhere>>
  <2>1. CASE \E s \in Sales : SellOffline(s) \/ SellOnline(s) \/ SaleAnswered(s) \/ SaleUnreachable(s)
    BY <2>1 DEF SellOffline, SellOnline, SaleAnswered, SaleUnreachable, core
  <2>2. CASE \E r \in Runs : Outbox(r)
    BY <2>2 DEF Outbox, StartRun, ListPending, SendNext, Acknowledged, Progress, RunBroken, core
  <2>3. CASE \/ \E m \in wire : RefuseSale(m) \/ RepeatLocalSale(m) \/ RefuseLocalSale(m) \/ SyncOutbox(m)
             \/ \E m \in wire, s \in Sales, done \in SUBSET Sales : SyncOutboxCrash(m, s, done)
    BY <2>3 DEF RefuseSale, RepeatLocalSale, RefuseLocalSale, SyncOutbox, SyncOutboxCrash, core
  <2>4. CASE LoadCore \/ Reload \/ ReplaceTerminal \/ CloseShift \/ OpenShift \/ UNCHANGED vars
    BY <2>4 DEF LoadCore, Reload, ReplaceTerminal, CloseShift, OpenShift, vars, core
  <2> QED
    BY <1>7, <2>1, <2>2, <2>3, <2>4
<1> QED
  BY <1>2, <1>3, <1>4, <1>5, <1>6, <1>7, <1>8 DEF Next, Till, Core

(* The core implements SoldOnce: whatever is repeated, late, lost or          *)
(* interrupted on the two ways of a sale, it takes effect once, with one unit *)
(* of stock, or not at all.                                                   *)
THEOREM SalesAreMadeOnce == Spec => SalesTakeEffectOnce
<1>1. Init => SO!Init
  BY DEF Init, SO!Init
<1>2. IInv /\ [Next]_vars => [SO!Next]_(SO!vars)
  BY StepRefines DEF IInv
<1> QED
  BY <1>1, <1>2, Inductive, PTL DEF Spec, SalesTakeEffectOnce, SO!Spec
=============================================================================
