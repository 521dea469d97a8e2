--------------------------- MODULE AtomicRequests ---------------------------
(***************************************************************************)
(* What the transaction layer of server/database/db.js promises to a        *)
(* request: its writes become durable together, at the moment it succeeds,  *)
(* or never.  A request is whole until a caller swallows the failure of a   *)
(* call, or if it begins on a connection that the engine's refusals have    *)
(* left in disorder; a request that is not whole is promised only that what *)
(* is durable stays so.                                                     *)
(***************************************************************************)
CONSTANT Rows

VARIABLES
    durable,   \* the rows a crash would leave
    outcome,   \* how the last request ended, and what it had written
    whole      \* is the promise good for the last request?

vars == <<durable, outcome, whole>>

Running == [ended |-> "no", wrote |-> {}]

Init ==
    /\ durable = {}
    /\ outcome = Running
    /\ whole = TRUE

Start ==
    /\ outcome # Running
    /\ outcome' = Running
    /\ whole' \in BOOLEAN
    /\ UNCHANGED durable

Succeed(W) ==
    /\ durable' = durable \cup W
    /\ outcome' = [ended |-> "ok", wrote |-> W]
    /\ whole'

\* An error was answered, or the process died: no write is kept.
Fail(W) ==
    /\ durable \cap W = {}
    /\ outcome' \in [ended : {"failed", "crashed"}, wrote : {W}]
    /\ whole'
    /\ UNCHANGED durable

Swallow ==
    /\ ~whole'
    /\ UNCHANGED <<durable, outcome>>

\* What a request does that is not whole, or does not begin so.
GoOn ==
    /\ ~whole'
    /\ durable \subseteq durable'
    /\ whole => outcome # Running /\ durable' = durable
    /\ outcome'.wrote \in SUBSET Rows

Next ==
    \/ Start \/ Swallow \/ GoOn
    \/ \E W \in SUBSET Rows : Succeed(W) \/ Fail(W)

Spec == Init /\ [][Next]_vars
=============================================================================
