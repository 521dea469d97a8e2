--------------------------- MODULE DbTransactions ---------------------------
(***************************************************************************)
(* The transaction layer of server/database/db.js.  The process has one    *)
(* SQLite connection.  Services that call each other all say BEGIN /        *)
(* COMMIT / ROLLBACK on it, and exec() counts the nesting in txDepth:      *)
(* only the outermost BEGIN and COMMIT reach the engine, while ANY          *)
(* ROLLBACK does.  The count is changed before the engine is asked, and    *)
(* the engine may refuse: the count is then wrong until a ROLLBACK reaches *)
(* the engine or the process restarts.                                     *)
(*                                                                         *)
(* A request is a stack of service calls, or one statement.  Each call     *)
(* says BEGIN, then tries: it writes rows, may call another service, and   *)
(* ends with COMMIT, or throws: its catch block says ROLLBACK and rethrows *)
(* to the caller.  Some callers swallow what a call threw and go on, as    *)
(* the dining-table step of the webhook and of the cash settlement does.   *)
(***************************************************************************)
EXTENDS Naturals, Sequences, FiniteSets

CONSTANTS Rows,        \* what a request can write; a row is written or not
          MaxCalls     \* bound on nested service calls of one request

ASSUME MaxCallsAssumption == MaxCalls \in Nat \ {0}

VARIABLES
    rows,      \* contents of the database as statements of the process see it
    disk,      \* contents a crash would leave: what the engine has committed
    txDepth,   \* db.js:txDepth
    engineTx,  \* has the engine a transaction open?
    calls,     \* stack of open service calls, each the set of rows it wrote
    outcome,   \* how the last request ended, and what it claims to have written
    whole,     \* history: the last request began on a connection in order and
               \*   none of its callers swallowed a failure
    refused    \* history: the engine refused a BEGIN or a COMMIT, and neither a
               \*   ROLLBACK nor a restart has reached it since

db == <<rows, disk, txDepth, engineTx>>
vars == <<rows, disk, txDepth, engineTx, calls, outcome, whole, refused>>

Running == [ended |-> "no", wrote |-> {}]

Outcomes == [ended : {"no", "ok", "failed", "crashed"}, wrote : SUBSET Rows]

TypeOK ==
    /\ rows \in SUBSET Rows
    /\ disk \in SUBSET Rows
    /\ txDepth \in Nat
    /\ engineTx \in BOOLEAN
    /\ calls \in Seq(SUBSET Rows)
    /\ outcome \in Outcomes
    /\ whole \in BOOLEAN
    /\ refused \in BOOLEAN

Init ==
    /\ rows = {}
    /\ disk = {}
    /\ txDepth = 0
    /\ engineTx = FALSE
    /\ calls = <<>>
    /\ outcome = Running
    /\ whole = TRUE
    /\ refused = FALSE

-----------------------------------------------------------------------------
(* exec('BEGIN'), exec('COMMIT') and exec('ROLLBACK'), and the engine's refusal *)
(* of the first two.                                                            *)

DbBegin ==
    /\ txDepth = 0 => ~engineTx
    /\ txDepth' = txDepth + 1
    /\ engineTx' = (engineTx \/ txDepth = 0)
    /\ UNCHANGED <<rows, disk, refused>>

\* Another process holds the lock for longer than busy_timeout, or a transaction
\* is open already: counted all the same.
DbBeginRefused ==
    /\ txDepth = 0
    /\ txDepth' = 1
    /\ refused' = TRUE
    /\ UNCHANGED <<rows, disk, engineTx>>

\* Slips of COMMIT: the engine commits one too late, or at every one.
DbCommitLate ==
    /\ txDepth = 1 => engineTx
    /\ txDepth' = IF txDepth > 0 THEN txDepth - 1 ELSE 0
    /\ engineTx' = (engineTx /\ txDepth # 0)
    /\ disk' = IF txDepth = 0 THEN rows ELSE disk
    /\ UNCHANGED <<rows, refused>>

DbCommitEvery ==
    /\ txDepth = 1 => engineTx
    /\ txDepth' = IF txDepth > 0 THEN txDepth - 1 ELSE 0
    /\ engineTx' = (engineTx /\ txDepth # 1)
    /\ disk' = IF txDepth > 0 THEN rows ELSE disk
    /\ UNCHANGED <<rows, refused>>

DbCommit ==
    /\ txDepth = 1 => engineTx
    /\ txDepth' = IF txDepth > 0 THEN txDepth - 1 ELSE 0
    /\ engineTx' = (engineTx /\ txDepth # 1)
    /\ disk' = IF txDepth = 1 THEN rows ELSE disk
    /\ UNCHANGED <<rows, refused>>

\* The transaction stays open (busy, or nothing was open), or the engine has
\* undone it (disk full, I/O error).  The catch block's ROLLBACK, at a count of
\* zero, is not passed on.
DbCommitRefused ==
    /\ txDepth = 1
    /\ txDepth' = 0
    /\ \/ UNCHANGED <<rows, engineTx>>
       \/ rows' = disk /\ engineTx' = FALSE
    /\ refused' = TRUE
    /\ UNCHANGED disk

\* A slip of ROLLBACK: it closes one level only.
DbRollbackOneLevel ==
    /\ txDepth' = IF txDepth > 0 THEN txDepth - 1 ELSE 0
    /\ rows' = IF txDepth > 0 THEN disk ELSE rows
    /\ engineTx' = (engineTx /\ txDepth = 0)
    /\ refused' = (refused /\ txDepth = 0)
    /\ UNCHANGED disk

DbRollback ==
    /\ txDepth' = 0
    /\ rows' = IF txDepth > 0 THEN disk ELSE rows
    /\ engineTx' = (engineTx /\ txDepth = 0)
    /\ refused' = (refused /\ txDepth = 0)
    /\ UNCHANGED disk

-----------------------------------------------------------------------------
Depth == Len(calls)
Top == calls[Depth]
Callers == SubSeq(calls, 1, Depth - 1)

\* The caller's own writes and those of a call that returned normally.
Returned == [Callers EXCEPT ![Depth - 1] = @ \cup Top]

\* Everything the open calls wrote.
Written == UNION {calls[i] : i \in 1..Depth}

\* The request answers an error.
Fails ==
    /\ calls' = <<>>
    /\ outcome' = [ended |-> "failed", wrote |-> Written]

\* A service method is entered: by a route (an empty stack) or by a service.
CallService ==
    /\ Depth < MaxCalls
    /\ DbBegin
    /\ calls' = Append(calls, {})
    /\ outcome' = Running
    /\ whole' = IF Depth = 0 THEN txDepth = 0 ELSE whole

\* BEGIN stands before the try block: what it throws is not followed by a
\* ROLLBACK.  A route that could not begin answers an error.
RequestRefused ==
    /\ Depth = 0
    /\ DbBeginRefused
    /\ Fails
    /\ whole' = TRUE

\* Its caller has begun, and rolls back on its way out.
CallRefused ==
    /\ Depth \in 1..(MaxCalls - 1)
    /\ txDepth = 0
    /\ txDepth' = 0
    /\ rows' = disk
    /\ engineTx' = FALSE
    /\ refused' = FALSE
    /\ Fails
    /\ UNCHANGED <<disk, whole>>

CallRefusedSwallowed ==
    /\ Depth \in 1..(MaxCalls - 1)
    /\ DbBeginRefused
    /\ whole' = FALSE
    /\ UNCHANGED <<calls, outcome>>

\* A statement run by prepare(...).run: while the engine has no transaction open
\* it is durable at once (SQLite autocommit; sql.js saves the file).
Stored(r) ==
    /\ r \notin rows
    /\ rows' = rows \cup {r}
    /\ disk' = IF engineTx THEN disk ELSE disk \cup {r}
    /\ UNCHANGED <<txDepth, engineTx, refused>>

Write(r) ==
    /\ Depth > 0
    /\ Stored(r)
    /\ calls' = [calls EXCEPT ![Depth] = @ \cup {r}]
    /\ UNCHANGED <<outcome, whole>>

\* A request of one statement, in no transaction of its own.
WriteAlone(r) ==
    /\ Depth = 0
    /\ Stored(r)
    /\ outcome' = [ended |-> "ok", wrote |-> {r}]
    /\ whole' = ~engineTx
    /\ UNCHANGED calls

\* The innermost call commits and returns to its caller.
Return ==
    /\ Depth > 1
    /\ DbCommit
    /\ calls' = Returned
    /\ UNCHANGED <<outcome, whole>>

\* The outermost call commits: the request answers success.
Answer ==
    /\ Depth = 1
    /\ DbCommit
    /\ calls' = <<>>
    /\ outcome' = [ended |-> "ok", wrote |-> Top]
    /\ UNCHANGED whole

\* The innermost call's COMMIT throws, and so does every caller.
CommitRefused ==
    /\ Depth > 0
    /\ DbCommitRefused
    /\ Fails
    /\ UNCHANGED whole

CommitRefusedSwallowed ==
    /\ Depth > 1
    /\ DbCommitRefused
    /\ calls' = Callers
    /\ whole' = FALSE
    /\ UNCHANGED outcome

\* The innermost call throws; its catch block rolls back and rethrows, and so
\* does every caller's up to the route.
Throw ==
    /\ Depth > 0
    /\ DbRollback
    /\ Fails
    /\ UNCHANGED whole

\* The innermost call throws and rolls back, and its caller swallows the error.
ThrowSwallowed ==
    /\ Depth > 1
    /\ DbRollback
    /\ calls' = Callers
    /\ whole' = FALSE
    /\ UNCHANGED outcome

\* The process dies; it restarts from what is on disk, with txDepth = 0.
Crash ==
    /\ rows' = disk
    /\ txDepth' = 0
    /\ engineTx' = FALSE
    /\ calls' = <<>>
    /\ outcome' = IF Depth = 0 THEN outcome
                  ELSE [ended |-> "crashed", wrote |-> Written]
    /\ refused' = FALSE
    /\ UNCHANGED <<disk, whole>>

Next ==
    \/ CallService
    \/ RequestRefused \/ CallRefused \/ CallRefusedSwallowed
    \/ \E r \in Rows : Write(r) \/ WriteAlone(r)
    \/ Return
    \/ Answer
    \/ CommitRefused \/ CommitRefusedSwallowed
    \/ Throw
    \/ ThrowSwallowed
    \/ Crash

Spec == Init /\ [][Next]_vars

-----------------------------------------------------------------------------
(* A request that answered success left everything it wrote, and everything *)
(* the calls that returned to it wrote, durable, if it began on a connection *)
(* in order and swallowed nothing, whatever other requests did before it.    *)
AcknowledgedIsDurable ==
    outcome.ended = "ok" /\ whole => outcome.wrote \subseteq disk

(* Such a request that answered an error, its COMMIT refused or not, or under *)
(* which the process died, left nothing: not even what a nested call of it    *)
(* had already "committed".                                                   *)
RefusedLeavesNothing ==
    outcome.ended \in {"failed", "crashed"} /\ whole => outcome.wrote \cap disk = {}

(* Between requests no transaction is active and what statements see is what *)
(* is durable, whatever was swallowed, unless the engine refused a BEGIN or  *)
(* a COMMIT: until a request fails at a count above zero, and so rolls back, *)
(* or the process restarts, the connection is then in disorder.              *)
NothingLeftOpen ==
    calls = <<>> /\ ~refused => txDepth = 0 /\ ~engineTx /\ rows = disk

-----------------------------------------------------------------------------
(* The engine holds what is not durable in a transaction; while it has        *)
(* refused nothing, the count is above zero exactly while one is open, and     *)
(* never exceeds the open calls.                                              *)
ConnectionInv ==
    /\ disk \subseteq rows
    /\ ~engineTx => rows = disk
    /\ ~refused => (engineTx <=> txDepth > 0) /\ txDepth <= Depth

(* While a whole request runs, the count of nested BEGINs is the number of    *)
(* open calls, the rows seen are the durable ones and those of the open calls, *)
(* and none of the latter is durable, whatever nested calls have committed.    *)
NestingInv ==
    whole /\ Depth > 0 =>
        /\ txDepth = Depth
        /\ engineTx
        /\ rows = disk \cup Written
        /\ disk \cap Written = {}

(* Before the first request nothing has happened to the connection.          *)
FreshInv ==
    outcome = Running /\ Depth = 0 => whole /\ txDepth = 0 /\ ~engineTx

IInv ==
    /\ TypeOK
    /\ ConnectionInv
    /\ NestingInv
    /\ FreshInv
    /\ AcknowledgedIsDurable
    /\ RefusedLeavesNothing

(* The promise of AtomicRequests.                                            *)
Promise == INSTANCE AtomicRequests WITH durable <- disk

RequestsAreAtomic == Promise!Spec
=============================================================================
