------------------------ MODULE DbTransactions_proofs ------------------------
(***************************************************************************)
(* Theorems about DbTransactions for every set of rows and every bound on   *)
(* nested calls: callers may swallow failures, and the engine may refuse    *)
(* any BEGIN or COMMIT that reaches it.                                      *)
(***************************************************************************)
EXTENDS DbTransactions, TLAPS

-----------------------------------------------------------------------------
(* What the steps do to the stack of calls and to what is written in it. *)

(* With no call open nothing is written.                                      *)
LEMMA EmptyStack ==
    ASSUME calls' = <<>>
    PROVE  Depth' = 0 /\ Written' = {} /\ calls' \in Seq(SUBSET Rows)
<1>1. Depth' = 0
  BY DEF Depth
<1> QED
  BY <1>1 DEF Written

(* Entering a service pushes a call that wrote nothing.                       *)
LEMMA PushedCall ==
    ASSUME calls \in Seq(SUBSET Rows), calls' = Append(calls, {})
    PROVE  /\ calls' \in Seq(SUBSET Rows)
           /\ Depth' = Depth + 1
           /\ Written' = Written
<1>1. Depth \in Nat /\ Depth' = Depth + 1 /\ calls' \in Seq(SUBSET Rows)
  BY DEF Depth
<1>2. calls'[Depth + 1] = {} /\ \A i \in 1..Depth : calls'[i] = calls[i]
  BY DEF Depth
<1>3. 1..(Depth + 1) = (1..Depth) \cup {Depth + 1}
  BY <1>1
<1>4. {calls'[i] : i \in 1..(Depth + 1)} = {calls[i] : i \in 1..Depth} \cup {{}}
  BY <1>2, <1>3
<1> QED
  BY <1>1, <1>4 DEF Written

(* A write is charged to the innermost call.                                  *)
LEMMA ChargedCall ==
    ASSUME calls \in Seq(SUBSET Rows), Depth > 0, NEW r \in Rows,
           calls' = [calls EXCEPT ![Depth] = @ \cup {r}]
    PROVE  /\ calls' \in Seq(SUBSET Rows)
           /\ Depth' = Depth
           /\ Written' = Written \cup {r}
<1>1. /\ Depth \in Nat /\ Depth = Len(calls) /\ Depth \in 1..Depth
      /\ calls[Depth] \in SUBSET Rows
  BY DEF Depth
<1>2. calls' \in [1..Depth -> SUBSET Rows]
  BY <1>1
<1>3. calls' \in Seq(SUBSET Rows) /\ Depth' = Depth
  <2>1. calls' \in Seq(SUBSET Rows) /\ Len(calls') = Depth
    BY <1>1, <1>2
  <2> QED
    BY <2>1 DEF Depth
<1>4. /\ calls'[Depth] = calls[Depth] \cup {r}
      /\ \A i \in 1..Depth : i # Depth => calls'[i] = calls[i]
  BY <1>1
<1>5. ASSUME NEW x PROVE x \in Written' <=> x \in Written \cup {r}
  BY <1>1, <1>3, <1>4 DEF Written
<1> QED
  BY <1>3, <1>5

(* The callers of the innermost call are the stack without it.                *)
LEMMA CallersOfCall ==
    ASSUME calls \in Seq(SUBSET Rows), Depth > 1
    PROVE  /\ Callers \in Seq(SUBSET Rows)
           /\ Len(Callers) = Depth - 1
           /\ \A i \in 1..(Depth - 1) : Callers[i] = calls[i]
    BY DEF Depth, Callers

(* A call that returns hands what it wrote to its caller.                     *)
LEMMA ReturnedCall ==
    ASSUME calls \in Seq(SUBSET Rows), Depth > 1, calls' = Returned
    PROVE  /\ calls' \in Seq(SUBSET Rows)
           /\ Depth' = Depth - 1
           /\ Written' = Written
<1>1. /\ Depth \in Nat /\ Depth - 1 \in 1..(Depth - 1)
      /\ Top \in SUBSET Rows
  BY DEF Depth, Top
<1>2. Callers \in [1..(Depth - 1) -> SUBSET Rows]
  BY <1>1, CallersOfCall
<1>3. calls' \in [1..(Depth - 1) -> SUBSET Rows]
  BY <1>1, <1>2 DEF Returned
<1>4. calls' \in Seq(SUBSET Rows) /\ Depth' = Depth - 1
  BY <1>1, <1>3 DEF Depth
<1>5. /\ calls'[Depth - 1] = calls[Depth - 1] \cup calls[Depth]
      /\ \A i \in 1..(Depth - 1) : i # Depth - 1 => calls'[i] = calls[i]
  BY <1>1, <1>2, CallersOfCall DEF Returned, Top
<1>6. \A i : i \in 1..Depth <=> i \in 1..(Depth - 1) \/ i = Depth
  BY <1>1
<1>7. ASSUME NEW x PROVE x \in Written' <=> x \in Written
  BY <1>1, <1>4, <1>5, <1>6 DEF Written
<1> QED
  BY <1>4, <1>7

(* What the open calls wrote are rows.                                        *)
LEMMA WrittenAreRows ==
    ASSUME TypeOK
    PROVE  Depth \in Nat /\ Written \in SUBSET Rows
<1>1. Depth \in Nat /\ \A i \in 1..Depth : calls[i] \in SUBSET Rows
  BY DEF TypeOK, Depth
<1> QED
  BY <1>1 DEF Written

-----------------------------------------------------------------------------
(* A service that is entered finds a connection in order, or its request is    *)
(* not whole.                                                                   *)
LEMMA CallKeeps ==
    ASSUME IInv, CallService
    PROVE  IInv'
<1>1. /\ calls' \in Seq(SUBSET Rows) /\ Depth' = Depth + 1
      /\ Written' = Written
  BY PushedCall DEF CallService, IInv, TypeOK
<1>2. /\ txDepth' = txDepth + 1
      /\ UNCHANGED <<rows, disk, refused>>
      /\ outcome' = [ended |-> "no", wrote |-> {}]
  BY DEF CallService, DbBegin, Running
<1>3. /\ engineTx' \in BOOLEAN
      /\ engineTx' <=> engineTx \/ txDepth = 0
  BY DEF CallService, DbBegin
<1>4. /\ whole' \in BOOLEAN
      /\ Depth = 0 => (whole' <=> txDepth = 0)
      /\ Depth # 0 => (whole' <=> whole)
  BY DEF CallService, IInv, TypeOK
<1>5. Depth \in Nat /\ Written \in SUBSET Rows
  BY WrittenAreRows DEF IInv
<1>6. txDepth = 0 => ~engineTx
  BY DEF CallService, DbBegin
<1>7. Depth = 0 => Written = {}
  BY DEF Written
<1> USE DEF IInv
<1>8. TypeOK'
  BY <1>1, <1>2, <1>3, <1>4 DEF TypeOK, Outcomes
<1>9. ConnectionInv'
  BY <1>1, <1>2, <1>3, <1>5 DEF ConnectionInv, TypeOK
<1>10. NestingInv'
  <2>1. CASE Depth = 0
    BY <1>1, <1>2, <1>3, <1>4, <1>6, <1>7, <2>1 DEF NestingInv, ConnectionInv
  <2>2. CASE Depth # 0
    BY <1>1, <1>2, <1>3, <1>4, <1>5, <2>2 DEF NestingInv
  <2> QED
    BY <2>1, <2>2
<1>11. FreshInv' /\ AcknowledgedIsDurable' /\ RefusedLeavesNothing'
  BY <1>1, <1>2, <1>5 DEF FreshInv, AcknowledgedIsDurable, RefusedLeavesNothing
<1> QED
  BY <1>8, <1>9, <1>10, <1>11

(* A statement is durable at once exactly if the engine has nothing open.       *)
LEMMA StatementKeeps ==
    ASSUME IInv, NEW r \in Rows, Write(r) \/ WriteAlone(r)
    PROVE  IInv'
<1>1. /\ r \notin rows /\ rows' = rows \cup {r}
      /\ engineTx => disk' = disk
      /\ ~engineTx => disk' = disk \cup {r}
      /\ UNCHANGED <<txDepth, engineTx, refused>>
  BY DEF Write, WriteAlone, Stored
<1>2. Depth \in Nat /\ Written \in SUBSET Rows
  BY WrittenAreRows DEF IInv
<1> USE DEF IInv
<1>3. CASE Write(r)
  <2>1. /\ calls' \in Seq(SUBSET Rows) /\ Depth' = Depth /\ Depth > 0
        /\ Written' = Written \cup {r}
        /\ UNCHANGED <<outcome, whole>>
    BY <1>3, ChargedCall DEF Write, TypeOK
  <2>2. TypeOK'
    BY <1>1, <2>1 DEF TypeOK
  <2>3. ConnectionInv'
    BY <1>1, <2>1 DEF ConnectionInv, TypeOK
  <2>4. NestingInv'
    BY <1>1, <2>1 DEF NestingInv, ConnectionInv
  <2>5. FreshInv'
    BY <2>1 DEF FreshInv
  <2>6. AcknowledgedIsDurable' /\ RefusedLeavesNothing'
    BY <1>1, <2>1 DEF AcknowledgedIsDurable, RefusedLeavesNothing, NestingInv
  <2> QED
    BY <2>2, <2>3, <2>4, <2>5, <2>6
<1>4. CASE WriteAlone(r)
  <2>1. /\ calls' = calls /\ Depth = 0 /\ Depth' = 0
        /\ outcome' = [ended |-> "ok", wrote |-> {r}]
    BY <1>4 DEF WriteAlone, Depth
  <2>2. whole' \in BOOLEAN /\ (whole' <=> ~engineTx)
    BY <1>4 DEF WriteAlone
  <2>3. TypeOK'
    BY <1>1, <2>1, <2>2 DEF TypeOK, Outcomes
  <2>4. ConnectionInv'
    BY <1>1, <2>1 DEF ConnectionInv, TypeOK
  <2>5. NestingInv'
    BY <2>1 DEF NestingInv
  <2>6. FreshInv'
    BY <2>1 DEF FreshInv, Running
  <2>7. AcknowledgedIsDurable' /\ RefusedLeavesNothing'
    BY <1>1, <2>1, <2>2 DEF AcknowledgedIsDurable, RefusedLeavesNothing
  <2> QED
    BY <2>3, <2>4, <2>5, <2>6, <2>7
<1> QED
  BY <1>3, <1>4

(* A nested COMMIT keeps what was written with the caller.                      *)
LEMMA ReturnKeeps ==
    ASSUME IInv, Return
    PROVE  IInv'
<1>1. /\ calls' \in Seq(SUBSET Rows) /\ Depth' = Depth - 1 /\ Depth > 1
      /\ Written' = Written
  BY ReturnedCall DEF Return, IInv, TypeOK
<1>2. /\ txDepth' = IF txDepth > 0 THEN txDepth - 1 ELSE 0
      /\ disk' = IF txDepth = 1 THEN rows ELSE disk
      /\ UNCHANGED <<rows, refused, outcome, whole>>
  BY DEF Return, DbCommit
<1>3. engineTx' \in BOOLEAN /\ (engineTx' <=> engineTx /\ txDepth # 1)
  BY DEF Return, DbCommit
<1>4. Depth \in Nat
  BY WrittenAreRows DEF IInv
<1> USE DEF IInv
<1>5. TypeOK'
  BY <1>1, <1>2, <1>3 DEF TypeOK
<1>6. ConnectionInv'
  BY <1>1, <1>2, <1>3, <1>4 DEF ConnectionInv, TypeOK
<1>7. NestingInv'
  BY <1>1, <1>2, <1>3, <1>4 DEF NestingInv
<1>8. FreshInv'
  BY <1>1, <1>4 DEF FreshInv
<1>9. AcknowledgedIsDurable' /\ RefusedLeavesNothing'
  BY <1>1, <1>2, <1>4 DEF AcknowledgedIsDurable, RefusedLeavesNothing, NestingInv, ConnectionInv
<1> QED
  BY <1>5, <1>6, <1>7, <1>8, <1>9

(* The outermost COMMIT that is accepted makes durable what the request wrote.  *)
LEMMA AnswerKeeps ==
    ASSUME IInv, Answer
    PROVE  IInv'
<1>1. /\ Depth = 1 /\ calls' = <<>> /\ Top = Written
      /\ outcome' = [ended |-> "ok", wrote |-> Top] /\ whole' = whole
  BY DEF Answer, Written, Top
<1>2. /\ txDepth' = IF txDepth > 0 THEN txDepth - 1 ELSE 0
      /\ disk' = IF txDepth = 1 THEN rows ELSE disk
      /\ UNCHANGED <<rows, refused>>
  BY DEF Answer, DbCommit
<1>3. engineTx' \in BOOLEAN /\ (engineTx' <=> engineTx /\ txDepth # 1)
  BY DEF Answer, DbCommit
<1>4. Depth' = 0 /\ calls' \in Seq(SUBSET Rows) /\ Written \in SUBSET Rows
  BY <1>1, EmptyStack, WrittenAreRows DEF IInv
<1> USE DEF IInv
<1>5. TypeOK'
  BY <1>1, <1>2, <1>3, <1>4 DEF TypeOK, Outcomes
<1>6. ConnectionInv'
  BY <1>1, <1>2, <1>3, <1>4 DEF ConnectionInv, TypeOK
<1>7. NestingInv'
  BY <1>4 DEF NestingInv
<1>8. FreshInv'
  BY <1>1 DEF FreshInv, Running
<1>9. AcknowledgedIsDurable' /\ RefusedLeavesNothing'
  BY <1>1, <1>2 DEF AcknowledgedIsDurable, RefusedLeavesNothing, NestingInv
<1> QED
  BY <1>5, <1>6, <1>7, <1>8, <1>9

(* A failure that goes up to the route, by a throw, a refused BEGIN or a        *)
(* refused COMMIT, leaves nothing durable of a whole request.                   *)
LEMMA FailureKeeps ==
    ASSUME IInv, Throw \/ CallRefused \/ CommitRefused
    PROVE  IInv'
<1>1. /\ Depth > 0 /\ calls' = <<>>
      /\ outcome' = [ended |-> "failed", wrote |-> Written]
      /\ UNCHANGED <<disk, whole>>
  BY DEF Throw, CallRefused, CommitRefused, Fails, DbRollback, DbCommitRefused, IInv, TypeOK, Depth
<1>2. Depth' = 0 /\ calls' \in Seq(SUBSET Rows) /\ Written \in SUBSET Rows
  BY <1>1, EmptyStack, WrittenAreRows DEF IInv
<1> USE DEF IInv
<1>3. /\ rows' \in SUBSET Rows /\ txDepth' = 0
      /\ engineTx' \in BOOLEAN /\ refused' \in BOOLEAN
      /\ disk \subseteq rows'
      /\ ~engineTx' => rows' = disk
      /\ ~refused' => ~engineTx'
  <2>1. CASE Throw
    <3>1. /\ txDepth' = 0
          /\ rows' = IF txDepth > 0 THEN disk ELSE rows
      BY <2>1 DEF Throw, DbRollback
    <3>2. /\ engineTx' \in BOOLEAN /\ (engineTx' <=> engineTx /\ txDepth = 0)
          /\ refused' \in BOOLEAN /\ (refused' <=> refused /\ txDepth = 0)
      BY <2>1 DEF Throw, DbRollback
    <3> QED
      BY <3>1, <3>2 DEF ConnectionInv, TypeOK
  <2>2. CASE CallRefused
    BY <2>2 DEF CallRefused, TypeOK
  <2>3. CASE CommitRefused
    <3>1. /\ txDepth' = 0 /\ refused' = TRUE
          /\ \/ rows' = rows /\ engineTx' = engineTx
             \/ rows' = disk /\ engineTx' = FALSE
      BY <2>3 DEF CommitRefused, DbCommitRefused
    <3>2. /\ engineTx' \in BOOLEAN /\ refused' \in BOOLEAN /\ refused'
          /\ rows' \in SUBSET Rows
      BY <3>1 DEF TypeOK
    <3>3. CASE rows' = rows /\ engineTx' = engineTx
      BY <3>1, <3>2, <3>3 DEF ConnectionInv
    <3>4. CASE rows' = disk /\ engineTx' = FALSE
      BY <3>1, <3>2, <3>4
    <3> QED
      BY <3>1, <3>3, <3>4
  <2> QED
    BY <2>1, <2>2, <2>3
<1>4. TypeOK'
  BY <1>1, <1>2, <1>3 DEF TypeOK, Outcomes
<1>5. ConnectionInv'
  BY <1>1, <1>2, <1>3 DEF ConnectionInv
<1>6. NestingInv'
  BY <1>2 DEF NestingInv
<1>7. FreshInv'
  BY <1>1 DEF FreshInv, Running
<1>8. AcknowledgedIsDurable' /\ RefusedLeavesNothing'
  BY <1>1 DEF AcknowledgedIsDurable, RefusedLeavesNothing, NestingInv
<1> QED
  BY <1>4, <1>5, <1>6, <1>7, <1>8

(* A failure that a caller swallows ends what is promised to its request.       *)
LEMMA SwallowedKeeps ==
    ASSUME IInv, ThrowSwallowed \/ CallRefusedSwallowed \/ CommitRefusedSwallowed
    PROVE  IInv'
<1>1. Depth \in Nat
  BY WrittenAreRows DEF IInv
<1>2. whole' = FALSE /\ UNCHANGED <<outcome, disk>>
  BY DEF ThrowSwallowed, CallRefusedSwallowed, CommitRefusedSwallowed,
         DbRollback, DbBeginRefused, DbCommitRefused
<1> USE DEF IInv
<1>3. /\ calls' \in Seq(SUBSET Rows) /\ Depth' \in Nat /\ Depth' > 0
  <2>1. CASE CallRefusedSwallowed
    BY <1>1, <2>1 DEF CallRefusedSwallowed, Depth, TypeOK
  <2>2. CASE calls' = Callers /\ Depth > 1
    <3>1. calls' \in Seq(SUBSET Rows) /\ Len(calls') = Depth - 1
      BY <2>2, CallersOfCall DEF TypeOK
    <3> QED
      BY <1>1, <2>2, <3>1 DEF Depth
  <2> QED
    BY <2>1, <2>2 DEF ThrowSwallowed, CommitRefusedSwallowed
<1>4. /\ rows' \in SUBSET Rows /\ txDepth' \in Nat
      /\ engineTx' \in BOOLEAN /\ refused' \in BOOLEAN
      /\ disk \subseteq rows'
      /\ ~engineTx' => rows' = disk
      /\ ~refused' => ~engineTx' /\ txDepth' = 0
  <2>1. CASE ThrowSwallowed
    <3>1. /\ txDepth' = 0
          /\ rows' = IF txDepth > 0 THEN disk ELSE rows
      BY <2>1 DEF ThrowSwallowed, DbRollback
    <3>2. /\ engineTx' \in BOOLEAN /\ (engineTx' <=> engineTx /\ txDepth = 0)
          /\ refused' \in BOOLEAN /\ (refused' <=> refused /\ txDepth = 0)
      BY <2>1 DEF ThrowSwallowed, DbRollback
    <3> QED
      BY <3>1, <3>2 DEF ConnectionInv, TypeOK
  <2>2. CASE CallRefusedSwallowed
    BY <2>2 DEF CallRefusedSwallowed, DbBeginRefused, ConnectionInv, TypeOK
  <2>3. CASE CommitRefusedSwallowed
    <3>1. /\ txDepth' = 0 /\ refused' = TRUE
          /\ \/ rows' = rows /\ engineTx' = engineTx
             \/ rows' = disk /\ engineTx' = FALSE
      BY <2>3 DEF CommitRefusedSwallowed, DbCommitRefused
    <3>2. /\ engineTx' \in BOOLEAN /\ refused' \in BOOLEAN /\ refused'
          /\ rows' \in SUBSET Rows
      BY <3>1 DEF TypeOK
    <3>3. CASE rows' = rows /\ engineTx' = engineTx
      BY <3>1, <3>2, <3>3 DEF ConnectionInv
    <3>4. CASE rows' = disk /\ engineTx' = FALSE
      BY <3>1, <3>2, <3>4
    <3> QED
      BY <3>1, <3>3, <3>4
  <2> QED
    BY <2>1, <2>2, <2>3
<1>5. TypeOK'
  BY <1>2, <1>3, <1>4 DEF TypeOK
<1>6. ConnectionInv'
  BY <1>2, <1>3, <1>4 DEF ConnectionInv
<1>7. NestingInv' /\ FreshInv'
  BY <1>2, <1>3 DEF NestingInv, FreshInv
<1>8. AcknowledgedIsDurable' /\ RefusedLeavesNothing'
  BY <1>2 DEF AcknowledgedIsDurable, RefusedLeavesNothing
<1> QED
  BY <1>5, <1>6, <1>7, <1>8

(* A request whose BEGIN is refused has written nothing.                        *)
LEMMA RequestRefusedKeeps ==
    ASSUME IInv, RequestRefused
    PROVE  IInv'
<1>1. /\ calls' = <<>> /\ Written = {}
      /\ outcome' = [ended |-> "failed", wrote |-> Written]
      /\ whole' = TRUE /\ refused' = TRUE /\ txDepth' = 1
      /\ UNCHANGED <<rows, disk, engineTx>>
  BY DEF RequestRefused, Fails, DbBeginRefused, Written
<1>2. Depth' = 0 /\ calls' \in Seq(SUBSET Rows)
  BY <1>1, EmptyStack
<1> USE DEF IInv
<1>3. TypeOK' /\ ConnectionInv'
  BY <1>1, <1>2 DEF TypeOK, Outcomes, ConnectionInv
<1>4. NestingInv' /\ FreshInv'
  BY <1>1, <1>2 DEF NestingInv, FreshInv, Running
<1>5. AcknowledgedIsDurable' /\ RefusedLeavesNothing'
  BY <1>1 DEF AcknowledgedIsDurable, RefusedLeavesNothing
<1> QED
  BY <1>3, <1>4, <1>5

(* A restart finds what is on disk.                                             *)
LEMMA CrashKeeps ==
    ASSUME IInv, Crash
    PROVE  IInv'
<1>1. /\ rows' = disk /\ disk' = disk /\ txDepth' = 0 /\ engineTx' = FALSE
      /\ refused' = FALSE /\ calls' = <<>> /\ whole' = whole
      /\ outcome' = IF Depth = 0 THEN outcome
                    ELSE [ended |-> "crashed", wrote |-> Written]
  BY DEF Crash
<1>2. /\ Depth' = 0 /\ calls' \in Seq(SUBSET Rows)
      /\ Depth \in Nat /\ Written \in SUBSET Rows
  BY <1>1, EmptyStack, WrittenAreRows DEF IInv
<1> USE DEF IInv
<1>6. outcome' \in Outcomes
  BY <1>1, <1>2 DEF TypeOK, Outcomes
<1>7. ~engineTx' /\ engineTx' \in BOOLEAN /\ ~refused' /\ refused' \in BOOLEAN
  BY <1>1
<1>3. TypeOK' /\ ConnectionInv'
  BY <1>1, <1>2, <1>6, <1>7 DEF TypeOK, ConnectionInv
<1>4. NestingInv' /\ FreshInv'
  BY <1>1, <1>2 DEF NestingInv, FreshInv, Running
<1>5. AcknowledgedIsDurable' /\ RefusedLeavesNothing'
  BY <1>1, <1>2 DEF AcknowledgedIsDurable, RefusedLeavesNothing, NestingInv
<1> QED
  BY <1>3, <1>4, <1>5

(* Nested calls neither commit early nor lose what they wrote while their      *)
(* request is whole, and a count that the engine has not contradicted is right  *)
(* (exec and prepare().run in server/database/db.js).                           *)
THEOREM RequestsKeepTogether == Spec => []IInv
<1>1. Init => IInv
  <2> SUFFICES ASSUME Init PROVE IInv
    OBVIOUS
  <2>1. Depth = 0
    BY DEF Init, Depth
  <2>2. TypeOK
    <3>1. /\ engineTx \in BOOLEAN /\ whole \in BOOLEAN /\ refused \in BOOLEAN
      BY DEF Init
    <3>2. calls \in Seq(SUBSET Rows) /\ outcome \in Outcomes
      BY DEF Init, Outcomes, Running
    <3> QED
      BY <3>1, <3>2 DEF Init, TypeOK
  <2>3. ~engineTx /\ whole
    BY DEF Init
  <2> QED
    BY <2>1, <2>2, <2>3 DEF Init, IInv, Running, ConnectionInv, NestingInv,
                FreshInv, AcknowledgedIsDurable, RefusedLeavesNothing
<1>2. IInv /\ [Next]_vars => IInv'
  <2> SUFFICES ASSUME IInv, [Next]_vars PROVE IInv'
    OBVIOUS
  <2>1. CASE UNCHANGED vars
    <3>1. Depth' = Depth /\ Written' = Written
      BY <2>1 DEF vars, Depth, Written
    <3> QED
      BY <2>1, <3>1 DEF IInv, TypeOK, vars, ConnectionInv, NestingInv, FreshInv,
                        AcknowledgedIsDurable, RefusedLeavesNothing
  <2>2. CASE Next
    BY <2>2, CallKeeps, StatementKeeps, ReturnKeeps, AnswerKeeps, FailureKeeps,
       SwallowedKeeps, RequestRefusedKeeps, CrashKeeps DEF Next
  <2> QED
    BY <2>1, <2>2
<1> QED
  BY <1>1, <1>2, PTL DEF Spec

(* Whatever callers swallow, a request leaves no transaction open and no row    *)
(* that is not durable, unless the engine refused a BEGIN or a COMMIT and no    *)
(* ROLLBACK or restart has followed (exec in server/database/db.js).            *)
THEOREM NothingStaysOpen == Spec => []NothingLeftOpen
<1>1. IInv => NothingLeftOpen
  <2> SUFFICES ASSUME IInv, calls = <<>>, ~refused
               PROVE  txDepth = 0 /\ ~engineTx /\ rows = disk
    BY DEF NothingLeftOpen
  <2>1. Depth = 0 /\ txDepth \in Nat
    BY DEF Depth, IInv, TypeOK
  <2> QED
    BY <2>1 DEF IInv, ConnectionInv
<1> QED
  BY <1>1, RequestsKeepTogether, PTL

(* An acknowledged request is durable in full, what the calls nested in it      *)
(* wrote included, if it began on a connection in order and swallowed nothing   *)
(* (the outermost COMMIT of exec in server/database/db.js).                     *)
THEOREM AcknowledgedRequestsAreDurable == Spec => []AcknowledgedIsDurable
<1>1. IInv => AcknowledgedIsDurable
  BY DEF IInv
<1> QED
  BY <1>1, RequestsKeepTogether, PTL

(* The transaction layer implements AtomicRequests: its whole requests are      *)
(* atomic, among requests that are not and engines that refuse.                 *)
THEOREM DatabaseIsAtomic == Spec => RequestsAreAtomic
<1> USE DEF RequestsAreAtomic
<1>1. Init => Promise!Init
  BY DEF Init, Running, Promise!Init, Promise!Running
<1>2. IInv /\ IInv' /\ [Next]_vars => [Promise!Next]_(Promise!vars)
  <2> SUFFICES ASSUME IInv, IInv', [Next]_vars PROVE [Promise!Next]_(Promise!vars)
    OBVIOUS
  <2>0. /\ Depth \in Nat /\ Written \in SUBSET Rows
        /\ whole \in BOOLEAN /\ whole' \in BOOLEAN
        /\ outcome'.wrote \in SUBSET Rows
    BY WrittenAreRows DEF IInv, TypeOK, Outcomes
  <2> USE DEF Promise!Next, Promise!vars
  <2>1. CASE CallService
    <3>1. UNCHANGED disk /\ outcome' = Promise!Running
      BY <2>1 DEF CallService, DbBegin, Running, Promise!Running
    <3>2. CASE outcome # Running
      BY <2>0, <3>1, <3>2 DEF Promise!Start, Promise!Running, Running
    <3>3. CASE outcome = Running /\ ~whole'
      BY <3>1, <3>3 DEF Promise!Swallow, Promise!Running, Running
    <3>4. CASE outcome = Running /\ whole'
      <4>1. whole
        BY <2>1, <3>4 DEF CallService, IInv, FreshInv
      <4>2. whole' = whole
        BY <2>0, <3>4, <4>1
      <4> QED
        BY <3>1, <3>4, <4>2 DEF Promise!Running, Running
    <3> QED
      BY <3>2, <3>3, <3>4
  <2>2. CASE RequestRefused
    <3>1. Written = {}
      BY <2>2 DEF RequestRefused, Written
    <3>2. /\ UNCHANGED disk /\ outcome' = [ended |-> "failed", wrote |-> {}]
          /\ whole'
      BY <2>2, <3>1 DEF RequestRefused, DbBeginRefused, Fails
    <3>3. Promise!Fail({})
      BY <3>2 DEF Promise!Fail
    <3> QED
      BY <3>3
  <2>3. CASE Throw \/ CallRefused \/ CommitRefused
    <3>1. /\ UNCHANGED <<disk, whole>> /\ Depth > 0
          /\ outcome' = [ended |-> "failed", wrote |-> Written]
      BY <2>3 DEF Throw, CallRefused, CommitRefused, DbRollback, DbCommitRefused, Fails, IInv, TypeOK, Depth
    <3>2. CASE whole
      <4>1. disk \cap Written = {}
        BY <3>1, <3>2 DEF IInv, NestingInv
      <4>2. Promise!Fail(Written)
        BY <3>1, <3>2, <4>1 DEF Promise!Fail
      <4> QED
        BY <2>0, <4>2
    <3>3. CASE ~whole
      BY <2>0, <3>1, <3>3 DEF Promise!GoOn
    <3> QED
      BY <3>2, <3>3
  <2>4. CASE ThrowSwallowed \/ CallRefusedSwallowed \/ CommitRefusedSwallowed
    <3>1. UNCHANGED <<disk, outcome>> /\ ~whole'
      BY <2>4 DEF ThrowSwallowed, CallRefusedSwallowed, CommitRefusedSwallowed,
                  DbRollback, DbBeginRefused, DbCommitRefused
    <3>2. Promise!Swallow
      BY <3>1 DEF Promise!Swallow
    <3> QED
      BY <3>2
  <2>5. ASSUME NEW r \in Rows, Write(r)
        PROVE  [Promise!Next]_(Promise!vars)
    <3>1. /\ UNCHANGED <<outcome, whole>> /\ Depth > 0
          /\ disk \subseteq disk' /\ (engineTx => disk' = disk)
      BY <2>5 DEF Write, Stored
    <3>2. CASE whole
      <4>1. engineTx
        BY <3>1, <3>2 DEF IInv, NestingInv
      <4> QED
        BY <3>1, <4>1
    <3>3. CASE ~whole
      <4>1. Promise!GoOn
        BY <2>0, <3>1, <3>3 DEF Promise!GoOn
      <4> QED
        BY <4>1
    <3> QED
      BY <3>2, <3>3
  <2>6. ASSUME NEW r \in Rows, WriteAlone(r)
        PROVE  [Promise!Next]_(Promise!vars)
    <3>1. /\ outcome' = [ended |-> "ok", wrote |-> {r}] /\ Depth = 0
          /\ whole' <=> ~engineTx
          /\ engineTx => disk' = disk
          /\ ~engineTx => disk' = disk \cup {r}
      BY <2>6 DEF WriteAlone, Stored
    <3>2. CASE engineTx
      <4>1. outcome # Running
        BY <3>1, <3>2 DEF IInv, FreshInv
      <4>2. Promise!GoOn
        BY <2>0, <3>1, <3>2, <4>1 DEF Promise!GoOn, Promise!Running, Running
      <4> QED
        BY <4>2
    <3>3. CASE ~engineTx
      <4>1. Promise!Succeed({r})
        BY <3>1, <3>3 DEF Promise!Succeed
      <4> QED
        BY <4>1
    <3> QED
      BY <3>2, <3>3
  <2>7. CASE Return
    <3>1. /\ UNCHANGED <<outcome, whole, rows>> /\ Depth > 1
          /\ disk' = IF txDepth = 1 THEN rows ELSE disk
      BY <2>7 DEF Return, DbCommit
    <3>2. CASE whole
      <4>1. disk' = disk
        BY <2>0, <3>1, <3>2 DEF IInv, NestingInv
      <4> QED
        BY <3>1, <4>1
    <3>3. CASE ~whole
      <4>1. Promise!GoOn
        BY <2>0, <3>1, <3>3 DEF Promise!GoOn, IInv, ConnectionInv
      <4> QED
        BY <4>1
    <3> QED
      BY <3>2, <3>3
  <2>8. CASE Answer
    <3>1. /\ Depth = 1 /\ Top = Written /\ whole' = whole
          /\ outcome' = [ended |-> "ok", wrote |-> Top]
          /\ disk' = IF txDepth = 1 THEN rows ELSE disk
      BY <2>8 DEF Answer, DbCommit, Written, Top
    <3>2. CASE whole
      <4>1. disk' = disk \cup Written
        BY <3>1, <3>2 DEF IInv, NestingInv
      <4>2. Promise!Succeed(Written)
        BY <3>1, <3>2, <4>1 DEF Promise!Succeed
      <4> QED
        BY <2>0, <4>2
    <3>3. CASE ~whole
      <4>1. Promise!GoOn
        BY <2>0, <3>1, <3>3 DEF Promise!GoOn, IInv, ConnectionInv
      <4> QED
        BY <4>1
    <3> QED
      BY <3>2, <3>3
  <2>9. CASE Crash
    <3>1. /\ UNCHANGED <<disk, whole>>
          /\ outcome' = IF Depth = 0 THEN outcome
                        ELSE [ended |-> "crashed", wrote |-> Written]
      BY <2>9 DEF Crash
    <3>2. CASE Depth = 0
      BY <3>1, <3>2
    <3>3. CASE Depth # 0 /\ whole
      <4>1. disk \cap Written = {}
        BY <2>0, <3>3 DEF IInv, NestingInv
      <4>2. Promise!Fail(Written)
        BY <3>1, <3>3, <4>1 DEF Promise!Fail
      <4> QED
        BY <2>0, <4>2
    <3>4. CASE Depth # 0 /\ ~whole
      <4>1. Promise!GoOn
        BY <2>0, <3>1, <3>4 DEF Promise!GoOn
      <4> QED
        BY <4>1
    <3> QED
      BY <3>2, <3>3, <3>4
  <2>10. CASE UNCHANGED vars
    BY <2>10 DEF vars
  <2> QED
    BY <2>1, <2>2, <2>3, <2>4, <2>5, <2>6, <2>7, <2>8, <2>9, <2>10 DEF Next
<1> QED
  BY <1>1, <1>2, RequestsKeepTogether, PTL DEF Spec, Promise!Spec
=============================================================================
