--------------------------- MODULE JobQueueProofs ---------------------------
(***************************************************************************)
(* Theorems about the job queue, for any number of jobs and workers, any   *)
(* lease and heartbeat interval, any recovery limit and any bound on       *)
(* database errors.  The last part is for the environment of MCJobQueue,   *)
(* where threads run promptly: there the heartbeat keeps its promise, and  *)
(* a running handler never loses its lease.                                *)
(***************************************************************************)
EXTENDS MCJobQueue, JobQueueRefinement, FiniteSetTheorems, TLAPS

USE DEF Main, Heart, Expired, Transactions, LockedRows, locks, rows, process

\* The counter of inserts stays a natural number (created_at in enqueue_job).
LEMMA InsertCount ==
  ASSUME NEW S \in SUBSET Jobs
  PROVE  Cardinality(S) \in Nat
BY JobsAssumption, FS_Subset, FS_CardinalityType

\* A countdown stays in its range.
LEMMA TickDownRange ==
  ASSUME NEW floor \in Int, NEW top \in Int, floor <= top, NEW n \in floor .. top
  PROVE  TickDown(n, floor) \in floor .. top
BY DEF TickDown

\* The types of the row locks.
LocksTyped ==
  /\ lockedBy \in [Jobs -> Transactions \cup {NoTx}]
  /\ pendingLeft \in [Jobs -> Expired .. LeaseTicks]

\* Taking row locks (FOR UPDATE) keeps the lock table well typed.
LEMMA AcquireType ==
  ASSUME TypeOK, NEW tx \in Transactions, NEW S, NEW left \in Expired .. LeaseTicks,
         Acquire(tx, S, left)
  PROVE  LocksTyped'
BY LeaseAssumption DEF TypeOK, Acquire, LocksTyped

\* So does giving them back at the end of a transaction.
LEMMA ReleaseType ==
  ASSUME TypeOK, NEW txs, Release(txs)
  PROVE  LocksTyped'
BY LeaseAssumption DEF TypeOK, Release, LocksTyped

\* The types of the columns.
RowsTyped ==
  /\ status \in [Jobs -> Statuses]
  /\ attempts \in [Jobs -> Nat]
  /\ enqueued \in [Jobs -> Nat]
  /\ leaseOwner \in [Jobs -> Workers \cup {NoWorker}]
  /\ leaseLeft \in [Jobs -> Expired .. LeaseTicks]

\* A claim writes well-typed columns.
LEMMA ClaimType ==
  ASSUME TypeOK, NEW w \in Workers, NEW j \in Jobs, WriteClaim(w, j)
  PROVE  RowsTyped' /\ LocksTyped'
<1>1. RowsTyped'
  BY DEF TypeOK, WriteClaim, RowsTyped, Statuses
<1>2. LocksTyped'
  BY ReleaseType DEF WriteClaim
<1> QED BY <1>1, <1>2

\* Every step keeps every column and every local variable in its type
\* (db/models/job.py, WorkerRuntime).
LEMMA TypeStep == TypeOK /\ [Next]_vars => TypeOK'
<1> SUFFICES ASSUME TypeOK, [Next]_vars PROVE TypeOK'
  OBVIOUS
<1> USE LeaseAssumption, BoundsAssumption
<1>1. ASSUME NEW j \in Jobs, Enqueue(j) PROVE TypeOK'
  BY <1>1, InsertCount DEF TypeOK, Enqueue, Statuses
<1>2. ASSUME NEW w \in Workers, MainStep(w) PROVE TypeOK'
  <2>1. CASE Start(w)
    BY <2>1 DEF TypeOK, Start
  <2>2. CASE RecoverBegin(w)
    <3>1. LocksTyped'
      BY <2>2, AcquireType DEF RecoverBegin
    <3> QED BY <2>2, <3>1 DEF TypeOK, LocksTyped, RecoverBegin
  <2>3. CASE RecoverCommit(w)
    <3>1. LocksTyped'
      BY <2>3, ReleaseType DEF RecoverCommit
    <3> QED BY <2>3, <3>1 DEF TypeOK, LocksTyped, RecoverCommit, Settle, Statuses
  <2>4. CASE ClaimBegin(w)
    <3>1. LocksTyped'
      BY <2>4, AcquireType, JobsAssumption DEF ClaimBegin, Claimable
    <3> QED BY <2>4, <3>1 DEF TypeOK, LocksTyped, ClaimBegin
  <2>5. CASE ClaimNothing(w)
    BY <2>5 DEF TypeOK, ClaimNothing
  <2>6. CASE ClaimCommit(w)
    <3>1. PICK j \in Jobs : WriteClaim(w, j) /\ current' = [current EXCEPT ![w] = j]
      BY <2>6 DEF ClaimCommit
    <3>2. RowsTyped' /\ LocksTyped'
      BY <3>1, ClaimType
    <3> QED BY <2>6, <3>1, <3>2 DEF TypeOK, LocksTyped, RowsTyped, ClaimCommit
  <2>7. CASE HandlerReturn(w)
    BY <2>7 DEF TypeOK, HandlerReturn
  <2>8. CASE JoinHeartbeat(w)
    BY <2>8 DEF TypeOK, JoinHeartbeat
  <2>9. CASE FinishBegin(w)
    <3>1. LocksTyped'
      BY <2>9, AcquireType DEF FinishBegin
    <3> QED BY <2>9, <3>1 DEF TypeOK, LocksTyped, FinishBegin
  <2>10. CASE FinishRefused(w)
    BY <2>10 DEF TypeOK, FinishRefused
  <2>11. CASE FinishCommit(w)
    <3>1. LocksTyped'
      BY <2>11, ReleaseType DEF FinishCommit
    <3> QED BY <2>11, <3>1 DEF TypeOK, LocksTyped, FinishCommit, Settle, Statuses
  <2>12. CASE Stop(w)
    BY <2>12 DEF TypeOK, Stop
  <2> QED BY <1>2, <2>1, <2>2, <2>3, <2>4, <2>5, <2>6, <2>7, <2>8, <2>9, <2>10, <2>11, <2>12
             DEF MainStep
<1>3. ASSUME NEW w \in Workers, HeartbeatStep(w) PROVE TypeOK'
  <2>1. CASE HeartbeatWake(w)
    BY <2>1 DEF TypeOK, HeartbeatWake
  <2>2. CASE HeartbeatBegin(w)
    <3>1. LocksTyped'
      BY <2>2, AcquireType DEF HeartbeatBegin
    <3> QED BY <2>2, <3>1 DEF TypeOK, LocksTyped, HeartbeatBegin
  <2>3. CASE HeartbeatRefused(w)
    BY <2>3 DEF TypeOK, HeartbeatRefused
  <2>4. CASE HeartbeatCommit(w)
    <3>1. LocksTyped'
      BY <2>4, ReleaseType DEF HeartbeatCommit
    <3> QED BY <2>4, <3>1 DEF TypeOK, LocksTyped, HeartbeatCommit
  <2> QED BY <1>3, <2>1, <2>2, <2>3, <2>4 DEF HeartbeatStep
<1>4. ASSUME NEW w \in Workers, Fault(w) PROVE TypeOK'
  <2>1. CASE ClaimCommitUnacknowledged(w)
    <3>1. PICK j \in Jobs : WriteClaim(w, j)
      BY <2>1 DEF ClaimCommitUnacknowledged
    <3>2. RowsTyped' /\ LocksTyped'
      BY <3>1, ClaimType
    <3> QED BY <2>1, <3>2 DEF TypeOK, LocksTyped, RowsTyped, ClaimCommitUnacknowledged
  <2>2. CASE MainDbError(w)
    <3>1. LocksTyped'
      BY <2>2, ReleaseType DEF MainDbError
    <3> QED BY <2>2, <3>1 DEF TypeOK, LocksTyped, MainDbError
  <2>3. CASE HeartbeatDbError(w)
    <3>1. LocksTyped'
      BY <2>3, ReleaseType DEF HeartbeatDbError
    <3> QED BY <2>3, <3>1 DEF TypeOK, LocksTyped, HeartbeatDbError
  <2>4. CASE RequestShutdown(w)
    BY <2>4 DEF TypeOK, RequestShutdown
  <2>5. CASE Crash(w)
    <3>1. LocksTyped'
      BY <2>5, ReleaseType DEF Crash
    <3> QED BY <2>5, <3>1 DEF TypeOK, LocksTyped, Crash
  <2> QED BY <1>4, <2>1, <2>2, <2>3, <2>4, <2>5 DEF Fault
<1>5. CASE Tick
  <2>1. ASSUME NEW n \in Expired .. LeaseTicks PROVE TickDown(n, Expired) \in Expired .. LeaseTicks
    BY TickDownRange
  <2>2. ASSUME NEW n \in 0 .. HeartbeatTicks PROVE TickDown(n, 0) \in 0 .. HeartbeatTicks
    BY TickDownRange
  <2> QED BY <1>5, <2>1, <2>2 DEF TypeOK, Tick
<1>6. CASE UNCHANGED vars
  BY <1>6 DEF TypeOK, vars
<1> QED BY <1>1, <1>2, <1>3, <1>4, <1>5, <1>6 DEF Next, Operation

-----------------------------------------------------------------------------
(* The inductive invariant, one lemma per action.                          *)

HIDE DEF Main, Heart, Transactions

InvParts == ProcessInv /\ LockInv /\ AttemptInv /\ RunsOnce /\ LeaseMatchesRunner

\* The transactions of the threads are different, and none of them is NoTx.
LEMMA Threads ==
  /\ \A v, w \in Workers :
       /\ Main(v) = Main(w) <=> v = w
       /\ Heart(v) = Heart(w) <=> v = w
       /\ Main(v) # Heart(w)
  /\ \A v \in Workers : Main(v) # NoTx /\ Heart(v) # NoTx
BY WorkersAssumption DEF Main, Heart

\* A lock held after a release was held before, by a transaction that did not end
\* (commit and rollback of one transaction leave the others alone).
LEMMA ReleaseKeeps ==
  ASSUME NEW txs, Release(txs), NEW j \in Jobs, NEW v \in Workers
  PROVE  /\ lockedBy'[j] = Main(v) => lockedBy[j] = Main(v) /\ Main(v) \notin txs
         /\ lockedBy'[j] = Heart(v) => lockedBy[j] = Heart(v) /\ Heart(v) \notin txs
BY Threads DEF Release

\* A process starts with nothing claimed.
LEMMA StartInv ==
  ASSUME IInv, TypeOK', NEW w \in Workers, Start(w)
  PROVE  InvParts'
<1> USE JobsAssumption, WorkersAssumption
<1>0. TypeOK /\ ProcessInv /\ LockInv /\ AttemptInv /\ RunsOnce /\ LeaseMatchesRunner
  BY DEF IInv
<1>1. ProcessInv'
  BY <1>0 DEF TypeOK, Start, ProcessInv, Running
<1>2. LockInv'
  BY <1>0 DEF TypeOK, Start, ProcessInv, LockInv, LockKnows, Running, Stale
<1>3. AttemptInv'
  BY <1>0 DEF TypeOK, Start, LockInv, LockKnows, AttemptInv, Stale
<1>4. RunsOnce'
  BY <1>0, <1>3 DEF TypeOK, Start, RunsOnce, ProcessInv, Running
<1>5. LeaseMatchesRunner'
  BY <1>0 DEF TypeOK, Start, LeaseMatchesRunner, ProcessInv, LockInv, LockKnows
<1> QED BY <1>1, <1>2, <1>3, <1>4, <1>5 DEF InvParts

\* Recovery locks only stale rows.
LEMMA RecoverBeginInv ==
  ASSUME IInv, TypeOK', NEW w \in Workers, RecoverBegin(w)
  PROVE  InvParts'
<1> USE JobsAssumption, WorkersAssumption
<1>0. TypeOK /\ ProcessInv /\ LockInv /\ AttemptInv /\ RunsOnce /\ LeaseMatchesRunner
  BY DEF IInv
<1>1. ProcessInv'
  BY <1>0 DEF TypeOK, RecoverBegin, RecoveryBatch, ProcessInv, Running
<1>2. LockInv'
  BY <1>0, Threads
     DEF TypeOK, RecoverBegin, RecoveryBatch, Acquire, ProcessInv, LockInv, LockKnows, Running, Stale
<1>3. AttemptInv'
  BY <1>0 DEF TypeOK, RecoverBegin, RecoveryBatch, LockInv, LockKnows, AttemptInv, Stale
<1>4. RunsOnce'
  BY <1>0, <1>3 DEF TypeOK, RecoverBegin, RecoveryBatch, RunsOnce, ProcessInv, Running
<1>5. LeaseMatchesRunner'
  BY <1>0 DEF TypeOK, RecoverBegin, RecoveryBatch, LeaseMatchesRunner, ProcessInv, LockInv, LockKnows
<1> QED BY <1>1, <1>2, <1>3, <1>4, <1>5 DEF InvParts

\* Recovery fails the stale rows it locked.
LEMMA RecoverCommitInv ==
  ASSUME IInv, TypeOK', NEW w \in Workers, RecoverCommit(w)
  PROVE  InvParts'
<1> USE JobsAssumption, WorkersAssumption
<1>0. TypeOK /\ ProcessInv /\ LockInv /\ AttemptInv /\ RunsOnce /\ LeaseMatchesRunner
  BY DEF IInv
<1>1. ProcessInv'
  BY <1>0 DEF TypeOK, RecoverCommit, Settle, ProcessInv, Running
<1>2. LockInv'
  <2> SUFFICES ASSUME NEW k \in Jobs, NEW v \in Workers PROVE LockKnows(k, v)'
    BY DEF LockInv
  <2>1. /\ lockedBy'[k] = Main(v) => lockedBy[k] = Main(v) /\ Main(v) \notin {Main(w)}
        /\ lockedBy'[k] = Heart(v) => lockedBy[k] = Heart(v) /\ Heart(v) \notin {Main(w)}
    BY ReleaseKeeps DEF RecoverCommit
  <2>2. LockKnows(k, v)
    BY <1>0 DEF LockInv
  <2> QED BY <1>0, <2>1, <2>2, Threads
             DEF TypeOK, RecoverCommit, Settle, LockKnows, ProcessInv, Running, Stale
<1>3. AttemptInv'
  BY <1>0 DEF TypeOK, RecoverCommit, Settle, LockInv, LockKnows, AttemptInv, Stale
<1>4. RunsOnce'
  BY <1>0, <1>3 DEF TypeOK, RecoverCommit, Settle, RunsOnce, ProcessInv, Running
<1>5. LeaseMatchesRunner'
  BY <1>0 DEF TypeOK, RecoverCommit, Settle, LeaseMatchesRunner, ProcessInv, LockInv, LockKnows
<1> QED BY <1>1, <1>2, <1>3, <1>4, <1>5 DEF InvParts

\* A claim locks one queued row.
LEMMA ClaimBeginInv ==
  ASSUME IInv, TypeOK', NEW w \in Workers, ClaimBegin(w)
  PROVE  InvParts'
<1> USE JobsAssumption, WorkersAssumption
<1>0. TypeOK /\ ProcessInv /\ LockInv /\ AttemptInv /\ RunsOnce /\ LeaseMatchesRunner
  BY DEF IInv
<1>1. ProcessInv'
  BY <1>0 DEF TypeOK, ClaimBegin, Claimable, ProcessInv, Running
<1>2. LockInv'
  <2> PICK j \in Claimable : Acquire(Main(w), {j}, LeaseTicks)
    BY DEF ClaimBegin
  <2> SUFFICES ASSUME NEW k \in Jobs, NEW v \in Workers PROVE LockKnows(k, v)'
    BY DEF LockInv
  <2>1. LockKnows(k, v)
    BY <1>0 DEF LockInv
  <2>2. /\ k # j => lockedBy'[k] = lockedBy[k]
        /\ k = j => lockedBy'[k] = Main(w) /\ status[k] = "queued" /\ k \in HandledJobs
    BY DEF Acquire, Claimable
  <2> QED BY <1>0, <2>1, <2>2, Threads DEF TypeOK, ClaimBegin, LockKnows, ProcessInv, Running, Stale
<1>3. AttemptInv'
  BY <1>0 DEF TypeOK, ClaimBegin, Claimable, LockInv, LockKnows, AttemptInv, Stale
<1>4. RunsOnce'
  BY <1>0, <1>3 DEF TypeOK, ClaimBegin, Claimable, RunsOnce, ProcessInv, Running
<1>5. LeaseMatchesRunner'
  <2>1. UNCHANGED <<status, leaseOwner, leaseLeft, current>>
    BY DEF ClaimBegin
  <2> QED BY <1>0, <2>1 DEF LeaseMatchesRunner
<1> QED BY <1>1, <1>2, <1>3, <1>4, <1>5 DEF InvParts

\* An idle poll changes no row.
LEMMA ClaimNothingInv ==
  ASSUME IInv, TypeOK', NEW w \in Workers, ClaimNothing(w)
  PROVE  InvParts'
<1> USE JobsAssumption, WorkersAssumption
<1>0. TypeOK /\ ProcessInv /\ LockInv /\ AttemptInv /\ RunsOnce /\ LeaseMatchesRunner
  BY DEF IInv
<1>1. ProcessInv'
  BY <1>0 DEF TypeOK, ClaimNothing, ProcessInv, Running
<1>2. LockInv'
  BY <1>0 DEF TypeOK, ClaimNothing, ProcessInv, LockInv, LockKnows, Running, Stale
<1>3. AttemptInv'
  BY <1>0 DEF TypeOK, ClaimNothing, LockInv, LockKnows, AttemptInv, Stale
<1>4. RunsOnce'
  BY <1>0, <1>3 DEF TypeOK, ClaimNothing, RunsOnce, ProcessInv, Running
<1>5. LeaseMatchesRunner'
  BY <1>0 DEF TypeOK, ClaimNothing, LeaseMatchesRunner, ProcessInv, LockInv, LockKnows
<1> QED BY <1>1, <1>2, <1>3, <1>4, <1>5 DEF InvParts

\* The claimed row is still queued, unclaimed and unleased when the claim commits.
LEMMA ClaimCommitInv ==
  ASSUME IInv, TypeOK', NEW w \in Workers, ClaimCommit(w)
  PROVE  InvParts'
<1> USE JobsAssumption, WorkersAssumption
<1>0. TypeOK /\ ProcessInv /\ LockInv /\ AttemptInv /\ RunsOnce /\ LeaseMatchesRunner
  BY DEF IInv
<1>1. PICK j \in Jobs : WriteClaim(w, j) /\ lockedBy[j] = Main(w) /\ current' = [current EXCEPT ![w] = j]
  BY DEF ClaimCommit
<1>2. status[j] = "queued" /\ attempts[j] = 0
  BY <1>0, <1>1, LeaseAssumption DEF TypeOK, ClaimCommit, LockInv, LockKnows, AttemptInv
<1>3. current[w] = NoJob /\ (\A v \in Workers : current[v] # j)
  BY <1>0, <1>2 DEF ClaimCommit, RunsOnce, ProcessInv, Running
<1>4. ProcessInv'
  BY <1>0, <1>1, <1>3 DEF TypeOK, ClaimCommit, ProcessInv, Running
<1>5. LockInv'
  <2> SUFFICES ASSUME NEW k \in Jobs, NEW v \in Workers PROVE LockKnows(k, v)'
    BY DEF LockInv
  <2>1. /\ lockedBy'[k] = Main(v) => lockedBy[k] = Main(v) /\ Main(v) \notin {Main(w)}
        /\ lockedBy'[k] = Heart(v) => lockedBy[k] = Heart(v)
    BY <1>1, ReleaseKeeps DEF WriteClaim
  <2>2. LockKnows(k, v)
    BY <1>0 DEF LockInv
  <2> QED BY <1>0, <1>1, <1>3, <2>1, <2>2, Threads
          DEF TypeOK, ClaimCommit, WriteClaim, LockKnows, ProcessInv, Running, Stale
<1>6. AttemptInv'
  BY <1>0, <1>1, <1>2 DEF TypeOK, WriteClaim, AttemptInv
<1>7. RunsOnce'
  BY <1>0, <1>1, <1>2, <1>3, <1>6 DEF TypeOK, ClaimCommit, WriteClaim, RunsOnce
<1>8. LeaseMatchesRunner'
  BY <1>0, <1>1, <1>3 DEF TypeOK, ClaimCommit, WriteClaim, LeaseMatchesRunner
<1> QED BY <1>4, <1>5, <1>6, <1>7, <1>8 DEF InvParts

\* The return of a handler changes no row.
LEMMA HandlerReturnInv ==
  ASSUME IInv, TypeOK', NEW w \in Workers, HandlerReturn(w)
  PROVE  InvParts'
<1> USE JobsAssumption, WorkersAssumption
<1>0. TypeOK /\ ProcessInv /\ LockInv /\ AttemptInv /\ RunsOnce /\ LeaseMatchesRunner
  BY DEF IInv
<1>1. ProcessInv'
  BY <1>0 DEF TypeOK, HandlerReturn, ProcessInv, Running
<1>2. LockInv'
  BY <1>0 DEF TypeOK, HandlerReturn, ProcessInv, LockInv, LockKnows, Running, Stale
<1>3. AttemptInv'
  BY <1>0 DEF TypeOK, HandlerReturn, LockInv, LockKnows, AttemptInv, Stale
<1>4. RunsOnce'
  BY <1>0, <1>3 DEF TypeOK, HandlerReturn, RunsOnce, ProcessInv, Running
<1>5. LeaseMatchesRunner'
  BY <1>0 DEF TypeOK, HandlerReturn, LeaseMatchesRunner, ProcessInv, LockInv, LockKnows
<1> QED BY <1>1, <1>2, <1>3, <1>4, <1>5 DEF InvParts

\* The heartbeat thread has no open transaction when it is joined.
LEMMA JoinHeartbeatInv ==
  ASSUME IInv, TypeOK', NEW w \in Workers, JoinHeartbeat(w)
  PROVE  InvParts'
<1> USE JobsAssumption, WorkersAssumption
<1>0. TypeOK /\ ProcessInv /\ LockInv /\ AttemptInv /\ RunsOnce /\ LeaseMatchesRunner
  BY DEF IInv
<1>1. ProcessInv'
  BY <1>0 DEF TypeOK, JoinHeartbeat, ProcessInv, Running
<1>2. LockInv'
  BY <1>0 DEF TypeOK, JoinHeartbeat, ProcessInv, LockInv, LockKnows, Running, Stale
<1>3. AttemptInv'
  BY <1>0 DEF TypeOK, JoinHeartbeat, LockInv, LockKnows, AttemptInv, Stale
<1>4. RunsOnce'
  BY <1>0, <1>3 DEF TypeOK, JoinHeartbeat, RunsOnce, ProcessInv, Running
<1>5. LeaseMatchesRunner'
  BY <1>0 DEF TypeOK, JoinHeartbeat, LeaseMatchesRunner, ProcessInv, LockInv, LockKnows
<1> QED BY <1>1, <1>2, <1>3, <1>4, <1>5 DEF InvParts

\* The terminal update locks the row its process leases.
LEMMA FinishBeginInv ==
  ASSUME IInv, TypeOK', NEW w \in Workers, FinishBegin(w)
  PROVE  InvParts'
<1> USE JobsAssumption, WorkersAssumption
<1>0. TypeOK /\ ProcessInv /\ LockInv /\ AttemptInv /\ RunsOnce /\ LeaseMatchesRunner
  BY DEF IInv
<1>1. ProcessInv'
  BY <1>0 DEF TypeOK, FinishBegin, HoldsLease, ProcessInv, Running
<1>2. LockInv'
  BY <1>0, Threads
     DEF TypeOK, FinishBegin, HoldsLease, Acquire, ProcessInv, LockInv, LockKnows, Running, Stale
<1>3. AttemptInv'
  BY <1>0 DEF TypeOK, FinishBegin, HoldsLease, LockInv, LockKnows, AttemptInv, Stale
<1>4. RunsOnce'
  BY <1>0, <1>3 DEF TypeOK, FinishBegin, HoldsLease, RunsOnce, ProcessInv, Running
<1>5. LeaseMatchesRunner'
  BY <1>0 DEF TypeOK, FinishBegin, HoldsLease, LeaseMatchesRunner, ProcessInv, LockInv, LockKnows
<1> QED BY <1>1, <1>2, <1>3, <1>4, <1>5 DEF InvParts

\* A refused terminal update changes no row.
LEMMA FinishRefusedInv ==
  ASSUME IInv, TypeOK', NEW w \in Workers, FinishRefused(w)
  PROVE  InvParts'
<1> USE JobsAssumption, WorkersAssumption
<1>0. TypeOK /\ ProcessInv /\ LockInv /\ AttemptInv /\ RunsOnce /\ LeaseMatchesRunner
  BY DEF IInv
<1>1. ProcessInv'
  BY <1>0 DEF TypeOK, FinishRefused, ProcessInv, Running
<1>2. LockInv'
  BY <1>0 DEF TypeOK, FinishRefused, ProcessInv, LockInv, LockKnows, Running, Stale
<1>3. AttemptInv'
  BY <1>0 DEF TypeOK, FinishRefused, LockInv, LockKnows, AttemptInv, Stale
<1>4. RunsOnce'
  BY <1>0, <1>3 DEF TypeOK, FinishRefused, RunsOnce, ProcessInv, Running
<1>5. LeaseMatchesRunner'
  BY <1>0 DEF TypeOK, FinishRefused, LeaseMatchesRunner, ProcessInv, LockInv, LockKnows
<1> QED BY <1>1, <1>2, <1>3, <1>4, <1>5 DEF InvParts

\* The terminal update decides the row of its own process.
LEMMA FinishCommitInv ==
  ASSUME IInv, TypeOK', NEW w \in Workers, FinishCommit(w)
  PROVE  InvParts'
<1> USE JobsAssumption, WorkersAssumption
<1>0. TypeOK /\ ProcessInv /\ LockInv /\ AttemptInv /\ RunsOnce /\ LeaseMatchesRunner
  BY DEF IInv
<1>1. ProcessInv'
  BY <1>0 DEF TypeOK, FinishCommit, Settle, ProcessInv, Running
<1>2. LockInv'
  <2> SUFFICES ASSUME NEW k \in Jobs, NEW v \in Workers PROVE LockKnows(k, v)'
    BY DEF LockInv
  <2>1. /\ lockedBy'[k] = Main(v) => lockedBy[k] = Main(v) /\ Main(v) \notin {Main(w)}
        /\ lockedBy'[k] = Heart(v) => lockedBy[k] = Heart(v) /\ Heart(v) \notin {Main(w)}
    BY ReleaseKeeps DEF FinishCommit
  <2>2. LockKnows(k, v)
    BY <1>0 DEF LockInv
  <2> QED BY <1>0, <2>1, <2>2, Threads
             DEF TypeOK, FinishCommit, Settle, LockKnows, ProcessInv, Running, Stale
<1>3. AttemptInv'
  BY <1>0 DEF TypeOK, FinishCommit, Settle, LockInv, LockKnows, AttemptInv, Stale
<1>4. RunsOnce'
  BY <1>0, <1>3 DEF TypeOK, FinishCommit, Settle, RunsOnce, ProcessInv, Running
<1>5. LeaseMatchesRunner'
  BY <1>0 DEF TypeOK, FinishCommit, Settle, LeaseMatchesRunner, ProcessInv, LockInv, LockKnows
<1> QED BY <1>1, <1>2, <1>3, <1>4, <1>5 DEF InvParts

\* A graceful stop leaves nothing claimed.
LEMMA StopInv ==
  ASSUME IInv, TypeOK', NEW w \in Workers, Stop(w)
  PROVE  InvParts'
<1> USE JobsAssumption, WorkersAssumption
<1>0. TypeOK /\ ProcessInv /\ LockInv /\ AttemptInv /\ RunsOnce /\ LeaseMatchesRunner
  BY DEF IInv
<1>1. ProcessInv'
  BY <1>0 DEF TypeOK, Stop, ProcessInv, Running
<1>2. LockInv'
  BY <1>0 DEF TypeOK, Stop, ProcessInv, LockInv, LockKnows, Running, Stale
<1>3. AttemptInv'
  BY <1>0 DEF TypeOK, Stop, LockInv, LockKnows, AttemptInv, Stale
<1>4. RunsOnce'
  BY <1>0, <1>3 DEF TypeOK, Stop, RunsOnce, ProcessInv, Running
<1>5. LeaseMatchesRunner'
  BY <1>0 DEF TypeOK, Stop, LeaseMatchesRunner, ProcessInv, LockInv, LockKnows
<1> QED BY <1>1, <1>2, <1>3, <1>4, <1>5 DEF InvParts

\* A heartbeat that wakes up changes no row.
LEMMA HeartbeatWakeInv ==
  ASSUME IInv, TypeOK', NEW w \in Workers, HeartbeatWake(w)
  PROVE  InvParts'
<1> USE JobsAssumption, WorkersAssumption
<1>0. TypeOK /\ ProcessInv /\ LockInv /\ AttemptInv /\ RunsOnce /\ LeaseMatchesRunner
  BY DEF IInv
<1>1. ProcessInv'
  BY <1>0 DEF TypeOK, HeartbeatWake, ProcessInv, Running
<1>2. LockInv'
  BY <1>0 DEF TypeOK, HeartbeatWake, ProcessInv, LockInv, LockKnows, Running, Stale
<1>3. AttemptInv'
  BY <1>0 DEF TypeOK, HeartbeatWake, LockInv, LockKnows, AttemptInv, Stale
<1>4. RunsOnce'
  BY <1>0, <1>3 DEF TypeOK, HeartbeatWake, RunsOnce, ProcessInv, Running
<1>5. LeaseMatchesRunner'
  BY <1>0 DEF TypeOK, HeartbeatWake, LeaseMatchesRunner, ProcessInv, LockInv, LockKnows
<1> QED BY <1>1, <1>2, <1>3, <1>4, <1>5 DEF InvParts

\* A renewal locks the row its process leases.
LEMMA HeartbeatBeginInv ==
  ASSUME IInv, TypeOK', NEW w \in Workers, HeartbeatBegin(w)
  PROVE  InvParts'
<1> USE JobsAssumption, WorkersAssumption
<1>0. TypeOK /\ ProcessInv /\ LockInv /\ AttemptInv /\ RunsOnce /\ LeaseMatchesRunner
  BY DEF IInv
<1>1. ProcessInv'
  BY <1>0 DEF TypeOK, HeartbeatBegin, HoldsLease, ProcessInv, Running
<1>2. LockInv'
  BY <1>0, Threads
     DEF TypeOK, HeartbeatBegin, HoldsLease, Acquire, ProcessInv, LockInv, LockKnows, Running, Stale
<1>3. AttemptInv'
  BY <1>0 DEF TypeOK, HeartbeatBegin, HoldsLease, LockInv, LockKnows, AttemptInv, Stale
<1>4. RunsOnce'
  BY <1>0, <1>3 DEF TypeOK, HeartbeatBegin, HoldsLease, RunsOnce, ProcessInv, Running
<1>5. LeaseMatchesRunner'
  BY <1>0 DEF TypeOK, HeartbeatBegin, HoldsLease, LeaseMatchesRunner, ProcessInv, LockInv, LockKnows
<1> QED BY <1>1, <1>2, <1>3, <1>4, <1>5 DEF InvParts

\* A refused renewal changes no row.
LEMMA HeartbeatRefusedInv ==
  ASSUME IInv, TypeOK', NEW w \in Workers, HeartbeatRefused(w)
  PROVE  InvParts'
<1> USE JobsAssumption, WorkersAssumption
<1>0. TypeOK /\ ProcessInv /\ LockInv /\ AttemptInv /\ RunsOnce /\ LeaseMatchesRunner
  BY DEF IInv
<1>1. ProcessInv'
  BY <1>0 DEF TypeOK, HeartbeatRefused, ProcessInv, Running
<1>2. LockInv'
  BY <1>0 DEF TypeOK, HeartbeatRefused, ProcessInv, LockInv, LockKnows, Running, Stale
<1>3. AttemptInv'
  BY <1>0 DEF TypeOK, HeartbeatRefused, LockInv, LockKnows, AttemptInv, Stale
<1>4. RunsOnce'
  BY <1>0, <1>3 DEF TypeOK, HeartbeatRefused, RunsOnce, ProcessInv, Running
<1>5. LeaseMatchesRunner'
  BY <1>0 DEF TypeOK, HeartbeatRefused, LeaseMatchesRunner, ProcessInv, LockInv, LockKnows
<1> QED BY <1>1, <1>2, <1>3, <1>4, <1>5 DEF InvParts

\* A renewal extends the lease of a row that is still processing.
LEMMA HeartbeatCommitInv ==
  ASSUME IInv, TypeOK', NEW w \in Workers, HeartbeatCommit(w)
  PROVE  InvParts'
<1> USE JobsAssumption, WorkersAssumption
<1>0. TypeOK /\ ProcessInv /\ LockInv /\ AttemptInv /\ RunsOnce /\ LeaseMatchesRunner
  BY DEF IInv
<1>1. ProcessInv'
  BY <1>0 DEF TypeOK, HeartbeatCommit, ProcessInv, Running
<1>2. LockInv'
  <2> SUFFICES ASSUME NEW k \in Jobs, NEW v \in Workers PROVE LockKnows(k, v)'
    BY DEF LockInv
  <2>1. /\ lockedBy'[k] = Main(v) => lockedBy[k] = Main(v) /\ Main(v) \notin {Heart(w)}
        /\ lockedBy'[k] = Heart(v) => lockedBy[k] = Heart(v) /\ Heart(v) \notin {Heart(w)}
    BY ReleaseKeeps DEF HeartbeatCommit
  <2>2. LockKnows(k, v)
    BY <1>0 DEF LockInv
  <2> QED BY <1>0, <2>1, <2>2, Threads DEF TypeOK, HeartbeatCommit, LockKnows, ProcessInv, Running, Stale
<1>3. AttemptInv'
  BY <1>0 DEF TypeOK, HeartbeatCommit, LockInv, LockKnows, AttemptInv, Stale
<1>4. RunsOnce'
  BY <1>0, <1>3 DEF TypeOK, HeartbeatCommit, RunsOnce, ProcessInv, Running
<1>5. LeaseMatchesRunner'
  BY <1>0 DEF TypeOK, HeartbeatCommit, LeaseMatchesRunner, ProcessInv, LockInv, LockKnows
<1> QED BY <1>1, <1>2, <1>3, <1>4, <1>5 DEF InvParts

\* A claim whose acknowledgement is lost leaves a leased row without a runner.
LEMMA ClaimCommitUnacknowledgedInv ==
  ASSUME IInv, TypeOK', NEW w \in Workers, ClaimCommitUnacknowledged(w)
  PROVE  InvParts'
<1> USE JobsAssumption, WorkersAssumption
<1>0. TypeOK /\ ProcessInv /\ LockInv /\ AttemptInv /\ RunsOnce /\ LeaseMatchesRunner
  BY DEF IInv
<1>1. PICK j \in Jobs : WriteClaim(w, j) /\ lockedBy[j] = Main(w)
  BY DEF ClaimCommitUnacknowledged
<1>2. status[j] = "queued" /\ attempts[j] = 0
  BY <1>0, <1>1, LeaseAssumption DEF TypeOK, ClaimCommitUnacknowledged, LockInv, LockKnows, AttemptInv
<1>3. current[w] = NoJob /\ (\A v \in Workers : current[v] # j)
  BY <1>0, <1>2 DEF ClaimCommitUnacknowledged, RunsOnce, ProcessInv, Running
<1>4. ProcessInv'
  BY <1>0, <1>1, <1>3 DEF TypeOK, ClaimCommitUnacknowledged, ProcessInv, Running
<1>5. LockInv'
  <2> SUFFICES ASSUME NEW k \in Jobs, NEW v \in Workers PROVE LockKnows(k, v)'
    BY DEF LockInv
  <2>1. /\ lockedBy'[k] = Main(v) => lockedBy[k] = Main(v) /\ Main(v) \notin {Main(w)}
        /\ lockedBy'[k] = Heart(v) => lockedBy[k] = Heart(v)
    BY <1>1, ReleaseKeeps DEF WriteClaim
  <2>2. LockKnows(k, v)
    BY <1>0 DEF LockInv
  <2> QED BY <1>0, <1>1, <1>3, <2>1, <2>2, Threads
          DEF TypeOK, ClaimCommitUnacknowledged, WriteClaim, LockKnows, ProcessInv, Running, Stale
<1>6. AttemptInv'
  BY <1>0, <1>1, <1>2 DEF TypeOK, WriteClaim, AttemptInv
<1>7. RunsOnce'
  BY <1>0, <1>1, <1>2, <1>3, <1>6 DEF TypeOK, ClaimCommitUnacknowledged, WriteClaim, RunsOnce
<1>8. LeaseMatchesRunner'
  BY <1>0, <1>1, <1>3 DEF TypeOK, ClaimCommitUnacknowledged, WriteClaim, LeaseMatchesRunner
<1> QED BY <1>4, <1>5, <1>6, <1>7, <1>8 DEF InvParts

\* A rolled-back transaction of the main thread changes no row.
LEMMA MainDbErrorInv ==
  ASSUME IInv, TypeOK', NEW w \in Workers, MainDbError(w)
  PROVE  InvParts'
<1> USE JobsAssumption, WorkersAssumption
<1>0. TypeOK /\ ProcessInv /\ LockInv /\ AttemptInv /\ RunsOnce /\ LeaseMatchesRunner
  BY DEF IInv
<1>1. ProcessInv'
  BY <1>0 DEF TypeOK, MainDbError, ProcessInv, Running
<1>2. LockInv'
  <2> SUFFICES ASSUME NEW k \in Jobs, NEW v \in Workers PROVE LockKnows(k, v)'
    BY DEF LockInv
  <2>1. /\ lockedBy'[k] = Main(v) => lockedBy[k] = Main(v) /\ Main(v) \notin {Main(w)}
        /\ lockedBy'[k] = Heart(v) => lockedBy[k] = Heart(v) /\ Heart(v) \notin {Main(w)}
    BY ReleaseKeeps DEF MainDbError
  <2>2. LockKnows(k, v)
    BY <1>0 DEF LockInv
  <2> QED BY <1>0, <2>1, <2>2, Threads DEF TypeOK, MainDbError, LockKnows, ProcessInv, Running, Stale
<1>3. AttemptInv'
  BY <1>0 DEF TypeOK, MainDbError, LockInv, LockKnows, AttemptInv, Stale
<1>4. RunsOnce'
  BY <1>0, <1>3 DEF TypeOK, MainDbError, RunsOnce, ProcessInv, Running
<1>5. LeaseMatchesRunner'
  BY <1>0 DEF TypeOK, MainDbError, LeaseMatchesRunner, ProcessInv, LockInv, LockKnows
<1> QED BY <1>1, <1>2, <1>3, <1>4, <1>5 DEF InvParts

\* A rolled-back renewal changes no row.
LEMMA HeartbeatDbErrorInv ==
  ASSUME IInv, TypeOK', NEW w \in Workers, HeartbeatDbError(w)
  PROVE  InvParts'
<1> USE JobsAssumption, WorkersAssumption
<1>0. TypeOK /\ ProcessInv /\ LockInv /\ AttemptInv /\ RunsOnce /\ LeaseMatchesRunner
  BY DEF IInv
<1>1. ProcessInv'
  BY <1>0 DEF TypeOK, HeartbeatDbError, ProcessInv, Running
<1>2. LockInv'
  <2> SUFFICES ASSUME NEW k \in Jobs, NEW v \in Workers PROVE LockKnows(k, v)'
    BY DEF LockInv
  <2>1. /\ lockedBy'[k] = Main(v) => lockedBy[k] = Main(v) /\ Main(v) \notin {Heart(w)}
        /\ lockedBy'[k] = Heart(v) => lockedBy[k] = Heart(v) /\ Heart(v) \notin {Heart(w)}
    BY ReleaseKeeps DEF HeartbeatDbError
  <2>2. LockKnows(k, v)
    BY <1>0 DEF LockInv
  <2> QED BY <1>0, <2>1, <2>2, Threads DEF TypeOK, HeartbeatDbError, LockKnows, ProcessInv, Running, Stale
<1>3. AttemptInv'
  BY <1>0 DEF TypeOK, HeartbeatDbError, LockInv, LockKnows, AttemptInv, Stale
<1>4. RunsOnce'
  BY <1>0, <1>3 DEF TypeOK, HeartbeatDbError, RunsOnce, ProcessInv, Running
<1>5. LeaseMatchesRunner'
  BY <1>0 DEF TypeOK, HeartbeatDbError, LeaseMatchesRunner, ProcessInv, LockInv, LockKnows
<1> QED BY <1>1, <1>2, <1>3, <1>4, <1>5 DEF InvParts

\* A signal changes no row.
LEMMA RequestShutdownInv ==
  ASSUME IInv, TypeOK', NEW w \in Workers, RequestShutdown(w)
  PROVE  InvParts'
<1> USE JobsAssumption, WorkersAssumption
<1>0. TypeOK /\ ProcessInv /\ LockInv /\ AttemptInv /\ RunsOnce /\ LeaseMatchesRunner
  BY DEF IInv
<1>1. ProcessInv'
  BY <1>0 DEF TypeOK, RequestShutdown, ProcessInv, Running
<1>2. LockInv'
  BY <1>0 DEF TypeOK, RequestShutdown, ProcessInv, LockInv, LockKnows, Running, Stale
<1>3. AttemptInv'
  BY <1>0 DEF TypeOK, RequestShutdown, LockInv, LockKnows, AttemptInv, Stale
<1>4. RunsOnce'
  BY <1>0, <1>3 DEF TypeOK, RequestShutdown, RunsOnce, ProcessInv, Running
<1>5. LeaseMatchesRunner'
  BY <1>0 DEF TypeOK, RequestShutdown, LeaseMatchesRunner, ProcessInv, LockInv, LockKnows
<1> QED BY <1>1, <1>2, <1>3, <1>4, <1>5 DEF InvParts

\* A crash rolls back the open transactions of the process only.
LEMMA CrashInv ==
  ASSUME IInv, TypeOK', NEW w \in Workers, Crash(w)
  PROVE  InvParts'
<1> USE JobsAssumption, WorkersAssumption
<1>0. TypeOK /\ ProcessInv /\ LockInv /\ AttemptInv /\ RunsOnce /\ LeaseMatchesRunner
  BY DEF IInv
<1>1. ProcessInv'
  BY <1>0 DEF TypeOK, Crash, ProcessInv, Running
<1>2. LockInv'
  <2> SUFFICES ASSUME NEW k \in Jobs, NEW v \in Workers PROVE LockKnows(k, v)'
    BY DEF LockInv
  <2>1. /\ lockedBy'[k] = Main(v) => lockedBy[k] = Main(v) /\ Main(v) \notin {Main(w), Heart(w)}
        /\ lockedBy'[k] = Heart(v) => lockedBy[k] = Heart(v) /\ Heart(v) \notin {Main(w), Heart(w)}
    BY ReleaseKeeps DEF Crash
  <2>2. LockKnows(k, v)
    BY <1>0 DEF LockInv
  <2> QED BY <1>0, <2>1, <2>2, Threads DEF TypeOK, Crash, LockKnows, ProcessInv, Running, Stale
<1>3. AttemptInv'
  BY <1>0 DEF TypeOK, Crash, LockInv, LockKnows, AttemptInv, Stale
<1>4. RunsOnce'
  BY <1>0, <1>3 DEF TypeOK, Crash, RunsOnce, ProcessInv, Running
<1>5. LeaseMatchesRunner'
  BY <1>0 DEF TypeOK, Crash, LeaseMatchesRunner, ProcessInv, LockInv, LockKnows
<1> QED BY <1>1, <1>2, <1>3, <1>4, <1>5 DEF InvParts

\* Time passes: leases run out, nobody gains or loses a lock or a lease.
LEMMA TickInv ==
  ASSUME IInv, TypeOK', Tick
  PROVE  InvParts'
<1>0. TypeOK /\ ProcessInv /\ LockInv /\ AttemptInv /\ RunsOnce /\ LeaseMatchesRunner
  BY DEF IInv
<1>1. ProcessInv' /\ AttemptInv' /\ RunsOnce'
  BY <1>0 DEF Tick, ProcessInv, AttemptInv, RunsOnce, Running
<1>2. \A j \in Jobs : leaseLeft[j] < 0 => leaseLeft'[j] < 0
  BY <1>0, LeaseAssumption DEF Tick, TickDown, TypeOK
<1>3. LockInv'
  BY <1>0, <1>2 DEF Tick, LockInv, LockKnows, Stale
<1>4. LeaseMatchesRunner'
  BY <1>0 DEF Tick, TickDown, LeaseMatchesRunner, TypeOK
<1> QED BY <1>1, <1>3, <1>4 DEF InvParts

\* A new row is not locked, leased or run by anybody.
LEMMA EnqueueInv ==
  ASSUME IInv, TypeOK', NEW j \in Jobs, Enqueue(j)
  PROVE  InvParts'
<1> USE JobsAssumption, WorkersAssumption
<1>0. TypeOK /\ ProcessInv /\ LockInv /\ AttemptInv /\ RunsOnce /\ LeaseMatchesRunner
  BY DEF IInv
<1>1. ProcessInv' /\ AttemptInv' /\ RunsOnce'
  BY <1>0 DEF TypeOK, Enqueue, ProcessInv, AttemptInv, RunsOnce, Running
<1>2. LockInv'
  BY <1>0 DEF TypeOK, Enqueue, LockInv, LockKnows, Stale
<1>3. LeaseMatchesRunner'
  BY <1>0 DEF TypeOK, Enqueue, LeaseMatchesRunner
<1> QED BY <1>1, <1>2, <1>3 DEF InvParts

\* The inductive invariant is kept by every step.
LEMMA InvStep == IInv /\ [Next]_vars => IInv'
<1> SUFFICES ASSUME IInv, [Next]_vars PROVE IInv'
  OBVIOUS
<1>1. TypeOK'
  BY TypeStep DEF IInv
<1>2. InvParts'
  <2>1. ASSUME NEW j \in Jobs, Enqueue(j) PROVE InvParts'
    BY <1>1, <2>1, EnqueueInv
  <2>2. ASSUME NEW w \in Workers, MainStep(w) PROVE InvParts'
    BY <1>1, <2>2, StartInv, RecoverBeginInv, RecoverCommitInv, ClaimBeginInv, ClaimNothingInv,
       ClaimCommitInv, HandlerReturnInv, JoinHeartbeatInv, FinishBeginInv, FinishRefusedInv,
       FinishCommitInv, StopInv DEF MainStep
  <2>3. ASSUME NEW w \in Workers, HeartbeatStep(w) PROVE InvParts'
    BY <1>1, <2>3, HeartbeatWakeInv, HeartbeatBeginInv, HeartbeatRefusedInv,
       HeartbeatCommitInv DEF HeartbeatStep
  <2>4. ASSUME NEW w \in Workers, Fault(w) PROVE InvParts'
    BY <1>1, <2>4, ClaimCommitUnacknowledgedInv, MainDbErrorInv, HeartbeatDbErrorInv, RequestShutdownInv,
       CrashInv DEF Fault
  <2>5. CASE Tick
    BY <1>1, <2>5, TickInv
  <2>6. CASE UNCHANGED vars
    BY <2>6 DEF vars, InvParts, IInv, TypeOK, ProcessInv, LockInv, LockKnows, AttemptInv, RunsOnce,
                LeaseMatchesRunner, Running, Stale
  <2> QED BY <2>1, <2>2, <2>3, <2>4, <2>5, <2>6 DEF Next, Operation
<1> QED BY <1>1, <1>2 DEF IInv, InvParts

\* An empty queue with legacy rows satisfies it.
LEMMA InvInit == Init => IInv
<1> SUFFICES ASSUME Init PROVE IInv
  OBVIOUS
<1> USE JobsAssumption, WorkersAssumption, LeaseAssumption, BoundsAssumption
<1> PICK legacy \in SUBSET LegacyJobs :
       /\ status = [j \in Jobs |-> IF j \in legacy THEN "processing" ELSE "absent"]
       /\ attempts = [j \in Jobs |-> IF j \in legacy THEN 1 ELSE 0]
  BY DEF Init
<1>1. TypeOK
  BY DEF Init, TypeOK, Statuses
<1>2. ProcessInv /\ AttemptInv /\ RunsOnce /\ LeaseMatchesRunner
  BY DEF Init, ProcessInv, AttemptInv, RunsOnce, LeaseMatchesRunner, Running
<1>3. LockInv
  BY Threads DEF Init, LockInv, LockKnows
<1> QED BY <1>1, <1>2, <1>3 DEF IInv

-----------------------------------------------------------------------------
(* The theorems.                                                           *)

\* The inductive invariant holds in every reachable state (jobs/service.py and
\* jobs/runner.py as a whole).
THEOREM InvariantHolds == Spec => []IInv
BY InvInit, InvStep, PTL DEF Spec

\* Every column and every local of the worker loop keeps its type.
THEOREM TypeCorrect == Spec => []TypeOK
<1>1. IInv => TypeOK
  BY DEF IInv
<1> QED BY InvariantHolds, <1>1, PTL

\* No job is ever claimed twice or run by two processes, whatever leases expire,
\* processes crash or transactions fail (claim_next_job, recover_stale_jobs).
THEOREM JobsRunOnce == Spec => []RunsOnce
<1>1. IInv => RunsOnce
  BY DEF IInv
<1> QED BY InvariantHolds, <1>1, PTL

\* A PROCESSING row is leased to the process that runs it, and only such rows
\* have a lease (_clear_lease, claim_next_job, heartbeat_job).
THEOREM LeasesMatchRunners == Spec => []LeaseMatchesRunner
<1>1. IInv => LeaseMatchesRunner
  BY DEF IInv
<1> QED BY InvariantHolds, <1>1, PTL

\* What a transaction checked when it locked a row still holds when it commits
\* (the FOR UPDATE reads of jobs/repository.py).
THEOREM LocksProtectChecks == Spec => []LockInv
<1>1. IInv => LockInv
  BY DEF IInv
<1> QED BY InvariantHolds, <1>1, PTL

-----------------------------------------------------------------------------
(* What a step can do to the rows: the five ways in which the jobs table   *)
(* changes.  The action properties and the refinement follow from them.    *)

\* No status changes; at most leases run down or are renewed on PROCESSING rows.
KeepsStatus ==
  /\ UNCHANGED <<status, attempts, leaseOwner>>
  /\ \A j \in Jobs : status[j] # "processing" => leaseLeft'[j] = leaseLeft[j]

Inserts(j) ==
  /\ status[j] = "absent"
  /\ status' = [status EXCEPT ![j] = "queued"]
  /\ UNCHANGED <<attempts, leaseOwner, leaseLeft>>

Claims(j) ==
  /\ j \in HandledJobs
  /\ status[j] = "queued"
  /\ status' = [status EXCEPT ![j] = "processing"]
  /\ attempts' = [attempts EXCEPT ![j] = attempts[j] + 1]
  /\ \A k \in Jobs : k # j => leaseOwner'[k] = leaseOwner[k] /\ leaseLeft'[k] = leaseLeft[k]

Recovers(S) ==
  /\ S \subseteq Jobs
  /\ \A j \in S : status[j] = "processing" /\ leaseLeft[j] = Expired
  /\ Settle(S, "failed")
  /\ UNCHANGED attempts

\* S is empty or the row that w runs.
Finishes(w, S) ==
  /\ S \subseteq Jobs
  /\ pc[w] = "finishing"
  /\ \A j \in S : current[w] = j /\ status[j] = "processing" /\ leaseOwner[j] = w
  /\ Settle(S, IF handlerFailed[w] THEN "failed" ELSE "completed")
  /\ UNCHANGED attempts

RowStep ==
  \/ KeepsStatus
  \/ \E j \in Jobs : Inserts(j) \/ Claims(j)
  \/ \E S \in SUBSET Jobs : Recovers(S)
  \/ \E w \in Workers, S \in SUBSET Jobs : Finishes(w, S)

\* A claim that commits finds its row queued (claim_next_job).
LEMMA ClaimRowStep ==
  ASSUME IInv, NEW w \in Workers, NEW j \in LockedRows(Main(w)), pc[w] = "claiming", WriteClaim(w, j)
  PROVE  RowStep
<1>1. j \in Jobs /\ status[j] = "queued" /\ j \in HandledJobs
  BY JobsAssumption DEF IInv, LockInv, LockKnows
<1>2. Claims(j)
  BY <1>1 DEF WriteClaim, Claims, IInv, TypeOK
<1> QED BY <1>1, <1>2 DEF RowStep

\* Every step changes the rows in one of these ways.
LEMMA RowSteps == IInv /\ [Next]_vars => RowStep
<1> SUFFICES ASSUME IInv, [Next]_vars PROVE RowStep
  OBVIOUS
<1> USE JobsAssumption
<1>1. ASSUME NEW j \in Jobs, Enqueue(j) PROVE RowStep
  <2>1. Inserts(j)
    BY <1>1 DEF Enqueue, Inserts
  <2> QED BY <2>1 DEF RowStep
<1>2. ASSUME NEW w \in Workers, MainStep(w) PROVE RowStep
  <2>1. CASE RecoverCommit(w)
    <3> DEFINE S == LockedRows(Main(w))
    <3>1. \A j \in S : status[j] = "processing" /\ leaseLeft[j] = Expired
      BY <2>1, LeaseAssumption
         DEF RecoverCommit, IInv, TypeOK, LockInv, LockKnows, Stale, LeaseMatchesRunner
    <3>2. Recovers(S)
      BY <2>1, <3>1 DEF RecoverCommit, Recovers
    <3> QED BY <3>2 DEF RowStep
  <2>2. CASE ClaimCommit(w)
    BY <2>2, ClaimRowStep DEF ClaimCommit
  <2>3. CASE FinishCommit(w)
    <3> DEFINE S == LockedRows(Main(w))
    <3>1. \A j \in S : current[w] = j /\ status[j] = "processing" /\ leaseOwner[j] = w
      BY <2>3 DEF FinishCommit, IInv, LockInv, LockKnows, LeaseMatchesRunner
    <3>2. Finishes(w, S)
      BY <2>3, <3>1 DEF FinishCommit, Finishes
    <3> QED BY <3>2 DEF RowStep
  <2>4. CASE ~RecoverCommit(w) /\ ~ClaimCommit(w) /\ ~FinishCommit(w)
    <3>1. KeepsStatus
      BY <1>2, <2>4 DEF MainStep, Start, RecoverBegin, ClaimBegin, ClaimNothing, HandlerReturn,
            JoinHeartbeat, FinishBegin, FinishRefused, Stop, KeepsStatus
    <3> QED BY <3>1 DEF RowStep
  <2> QED BY <2>1, <2>2, <2>3, <2>4
<1>3. ASSUME NEW w \in Workers, HeartbeatStep(w) PROVE RowStep
  <2>1. CASE HeartbeatCommit(w)
    <3>1. \A j \in Jobs : lockedBy[j] = Heart(w) => status[j] = "processing"
      BY DEF IInv, LockInv, LockKnows
    <3>2. KeepsStatus
      BY <2>1, <3>1 DEF HeartbeatCommit, KeepsStatus, IInv, TypeOK
    <3> QED BY <3>2 DEF RowStep
  <2>2. CASE ~HeartbeatCommit(w)
    BY <1>3, <2>2 DEF HeartbeatStep, HeartbeatWake, HeartbeatBegin, HeartbeatRefused, KeepsStatus, RowStep
  <2> QED BY <2>1, <2>2
<1>4. ASSUME NEW w \in Workers, Fault(w) PROVE RowStep
  <2>1. CASE ClaimCommitUnacknowledged(w)
    BY <2>1, ClaimRowStep DEF ClaimCommitUnacknowledged
  <2>2. CASE ~ClaimCommitUnacknowledged(w)
    BY <1>4, <2>2 DEF Fault, MainDbError, HeartbeatDbError, RequestShutdown, Crash, KeepsStatus, RowStep
  <2> QED BY <2>1, <2>2
<1>5. CASE Tick
  <2>1. KeepsStatus
    BY <1>5 DEF Tick, TickDown, KeepsStatus, IInv, TypeOK, LeaseMatchesRunner
  <2> QED BY <2>1 DEF RowStep
<1>6. CASE UNCHANGED vars
  BY <1>6 DEF vars, KeepsStatus, RowStep
<1> QED BY <1>1, <1>2, <1>3, <1>4, <1>5, <1>6 DEF Next, Operation

\* A COMPLETED or FAILED row is never written again: no late renewal, completion,
\* recovery or claim reaches it (_owned_processing_job_for_update).
THEOREM TerminalRowsStayFrozen == Spec => TerminalRowsFrozen
<1>1. ASSUME IInv, RowStep, NEW j \in Jobs, status[j] \in Terminal
      PROVE  UNCHANGED <<status[j], attempts[j], leaseOwner[j], leaseLeft[j]>>
  BY <1>1 DEF RowStep, KeepsStatus, Inserts, Claims, Recovers, Finishes, Settle, Terminal, IInv, TypeOK
<1>2. IInv /\ [Next]_vars =>
        [\A j \in Jobs : status[j] \in Terminal =>
           UNCHANGED <<status[j], attempts[j], leaseOwner[j], leaseLeft[j]>>]_vars
  BY <1>1, RowSteps
<1> QED BY <1>2, InvariantHolds, PTL DEF Spec, TerminalRowsFrozen

\* Only the process that holds the lease, after its handler returned normally,
\* completes a job (complete_job).
THEOREM CompletionNeedsLease == Spec => CompletedByLeaseHolder
<1>1. ASSUME IInv, RowStep, NEW j \in Jobs, status[j] # "completed", status'[j] = "completed"
      PROVE  \E w \in Workers :
               current[w] = j /\ ~handlerFailed[w] /\ leaseOwner[j] = w /\ status[j] = "processing"
  BY <1>1 DEF RowStep, KeepsStatus, Inserts, Claims, Recovers, Finishes, Settle, IInv, TypeOK
<1>2. IInv /\ [Next]_vars =>
        [\A j \in Jobs : status[j] # "completed" /\ status'[j] = "completed" =>
           \E w \in Workers :
             current[w] = j /\ ~handlerFailed[w] /\ leaseOwner[j] = w /\ status[j] = "processing"]_vars
  BY <1>1, RowSteps
<1> QED BY <1>2, InvariantHolds, PTL DEF Spec, CompletedByLeaseHolder

\* Recovery fails a job only when its lease is over (recover_stale_jobs).
THEOREM RecoveryNeedsExpiry == Spec => RecoversOnlyExpired
<1>1. ASSUME IInv, RowStep, NEW j \in Jobs, status[j] = "processing", status'[j] = "failed"
      PROVE  \/ leaseLeft[j] = Expired
             \/ \E w \in Workers : current[w] = j /\ pc[w] = "finishing" /\ handlerFailed[w]
  BY <1>1 DEF RowStep, KeepsStatus, Inserts, Claims, Recovers, Finishes, Settle, IInv, TypeOK
<1>2. IInv /\ [Next]_vars =>
        [\A j \in Jobs : status[j] = "processing" /\ status'[j] = "failed" =>
           \/ leaseLeft[j] = Expired
           \/ \E w \in Workers : current[w] = j /\ pc[w] = "finishing" /\ handlerFailed[w]]_vars
  BY <1>1, RowSteps
<1> QED BY <1>2, InvariantHolds, PTL DEF Spec, RecoversOnlyExpired

\* Every step of the queue is a step of the abstract life cycle or changes
\* neither status nor attempt_count (the safety part of ImplementsLifecycle).
THEOREM QueueRefinesLifecycle == Spec => Lifecycle!Init /\ [][Lifecycle!Next]_(Lifecycle!vars)
<1>1. Init => Lifecycle!Init
  BY DEF Init, Lifecycle!Init
<1>2. ASSUME IInv, RowStep PROVE [Lifecycle!Next]_(Lifecycle!vars)
  <2>1. CASE KeepsStatus
    BY <2>1 DEF KeepsStatus, Lifecycle!vars
  <2>2. ASSUME NEW j \in Jobs, Inserts(j) PROVE Lifecycle!Next
    BY <2>2 DEF Inserts, Lifecycle!Next, Lifecycle!Submit
  <2>3. ASSUME NEW j \in Jobs, Claims(j) PROVE Lifecycle!Next
    BY <2>3 DEF Claims, Lifecycle!Next, Lifecycle!Claim
  <2>4. ASSUME NEW S \in SUBSET Jobs, Recovers(S) PROVE [Lifecycle!Next]_(Lifecycle!vars)
    <3>1. CASE S = {}
      <4>1. status \in [Jobs -> Statuses]
        BY <1>2 DEF IInv, TypeOK
      <4>2. status' = status
        BY <2>4, <3>1, <4>1 DEF Recovers, Settle
      <4> QED BY <2>4, <4>2 DEF Recovers, Lifecycle!vars
    <3>2. CASE S # {}
      BY <2>4, <3>2 DEF Recovers, Settle, Lifecycle!Next, Lifecycle!Fail
    <3> QED BY <3>1, <3>2
  <2>5. ASSUME NEW w \in Workers, NEW S \in SUBSET Jobs, Finishes(w, S)
        PROVE  [Lifecycle!Next]_(Lifecycle!vars)
    <3>1. CASE S = {}
      <4>1. status \in [Jobs -> Statuses]
        BY <1>2 DEF IInv, TypeOK
      <4>2. status' = status
        BY <2>5, <3>1, <4>1 DEF Finishes, Settle
      <4> QED BY <2>5, <4>2 DEF Finishes, Lifecycle!vars
    <3>2. CASE S # {} /\ handlerFailed[w]
      BY <2>5, <3>2 DEF Finishes, Settle, Lifecycle!Next, Lifecycle!Fail
    <3>3. CASE S # {} /\ ~handlerFailed[w]
      <4>1. PICK j \in Jobs : S = {j}
        BY <2>5, <3>3 DEF Finishes
      <4>2. status' = [status EXCEPT ![j] = "completed"]
        <5>1. status \in [Jobs -> Statuses]
          BY <1>2 DEF IInv, TypeOK
        <5> QED BY <2>5, <3>3, <4>1, <5>1 DEF Finishes, Settle
      <4>3. status[j] = "processing" /\ UNCHANGED attempts
        BY <2>5, <4>1 DEF Finishes
      <4>4. Lifecycle!Complete(j)
        BY <4>2, <4>3 DEF Lifecycle!Complete
      <4> QED BY <4>4 DEF Lifecycle!Next
    <3> QED BY <3>1, <3>2, <3>3
  <2> QED BY <1>2, <2>1, <2>2, <2>3, <2>4, <2>5 DEF RowStep
<1>3. IInv /\ [Next]_vars => [Lifecycle!Next]_(Lifecycle!vars)
  BY <1>2, RowSteps
<1> QED BY <1>1, <1>3, InvariantHolds, PTL DEF Spec

-----------------------------------------------------------------------------
(* The lease of a running handler.  The argument is a budget: each renewal *)
(* that the database refuses costs one heartbeat interval of what is left  *)
(* of the lease when the wait of the heartbeat thread ends.                *)

\* What is at least left of a lease when the wait of the heartbeat ends, after
\* this many database errors.
Slack(errors) == LeaseTicks - (errors + 1) * HeartbeatTicks

\* While a handler runs, its heartbeat thread is alive, and the lease outlasts
\* the wait for the next renewal.
LeaseOutlastsWait ==
  \A w \in Workers : pc[w] \in {"handler", "join"} =>
    /\ heartbeat[w] \in {"waiting", "awake", "renewing"}
    /\ heartbeat[w] = "renewing" => lockedBy[current[w]] = Heart(w)
    /\ leaseLeft[current[w]] >= heartbeatDue[w] + Slack(dbErrors)

\* No time passes while a transaction is open: it writes a whole lease.
WritesWholeLease ==
  \A j \in Jobs, w \in Workers :
    (lockedBy[j] = Heart(w) \/ (lockedBy[j] = Main(w) /\ pc[w] = "claiming")) =>
      pendingLeft[j] = LeaseTicks

PInv == LiveRunnerKeepsLease /\ LeaseOutlastsWait /\ WritesWholeLease

-----------------------------------------------------------------------------
(* The budget.                                                             *)

\* There is something left while the errors stay within the bound, and each
\* error costs one heartbeat interval.
LEMMA Budget ==
  /\ \A e \in 0 .. MaxDbErrors : Slack(e) \in Int /\ Slack(e) > 0 /\ HeartbeatTicks + Slack(e) <= LeaseTicks
  /\ \A e \in Nat : Slack(e + 1) = Slack(e) - HeartbeatTicks
<1> USE LeaseAssumption, BoundsAssumption, ToleranceAssumption
<1>1. ASSUME NEW e \in Nat PROVE Slack(e + 1) = Slack(e) - HeartbeatTicks /\ Slack(e) \in Int
  BY DEF Slack
<1>2. ASSUME NEW e \in 0 .. MaxDbErrors PROVE Slack(e) > 0
  <2>1. (e + 1) * HeartbeatTicks <= (MaxDbErrors + 1) * HeartbeatTicks
    OBVIOUS
  <2> QED BY <2>1 DEF Slack
<1>3. ASSUME NEW e \in 0 .. MaxDbErrors PROVE HeartbeatTicks + Slack(e) <= LeaseTicks
  <2>1. e * HeartbeatTicks >= 0
    OBVIOUS
  <2>2. (e + 1) * HeartbeatTicks = e * HeartbeatTicks + HeartbeatTicks
    OBVIOUS
  <2> QED BY <2>1, <2>2 DEF Slack
<1> QED BY <1>1, <1>2, <1>3

\* Lease and wait are numbers of ticks.
LEMMA TicksAreNumbers ==
  ASSUME TypeOK
  PROVE  (\A j \in Jobs : leaseLeft[j] \in Int) /\ (\A w \in Workers : heartbeatDue[w] \in Nat)
<1>1. /\ leaseLeft \in [Jobs -> Expired .. LeaseTicks] /\ heartbeatDue \in [Workers -> 0 .. HeartbeatTicks]
      /\ Expired .. LeaseTicks \subseteq Int /\ 0 .. HeartbeatTicks \subseteq Nat
  BY LeaseAssumption DEF TypeOK, Expired
<1> HIDE DEF Expired
<1> QED BY <1>1

-----------------------------------------------------------------------------
(* The steps.                                                              *)

USE DEF Expired, LockedRows, locks, rows, process

\* A process starts without a job.
LEMMA StartKeeps ==
  ASSUME IInv, IInv', PInv, NEW w \in Workers, Start(w)
  PROVE  PInv'
<1> USE WorkersAssumption, JobsAssumption
<1>0. TypeOK /\ TypeOK' /\ ProcessInv /\ ProcessInv' /\ LockInv /\ RunsOnce /\ LeaseMatchesRunner
  BY DEF IInv
<1>1. LiveRunnerKeepsLease'
  BY DEF Start, PInv, LiveRunnerKeepsLease, HoldsLease
<1>2. LeaseOutlastsWait'
  BY DEF Start, PInv, LeaseOutlastsWait
<1>3. WritesWholeLease'
  BY DEF Start, PInv, WritesWholeLease
<1> QED BY <1>1, <1>2, <1>3 DEF PInv

\* Recovery locks no row whose lease is live.
LEMMA RecoverBeginKeeps ==
  ASSUME IInv, IInv', PInv, NEW w \in Workers, RecoverBegin(w)
  PROVE  PInv'
<1> USE WorkersAssumption, JobsAssumption
<1>0. TypeOK /\ TypeOK' /\ ProcessInv /\ ProcessInv' /\ LockInv /\ RunsOnce /\ LeaseMatchesRunner
  BY DEF IInv
<1>1. LiveRunnerKeepsLease'
  BY DEF RecoverBegin, PInv, LiveRunnerKeepsLease, HoldsLease
<1>2. LeaseOutlastsWait'
  <2> SUFFICES ASSUME NEW v \in Workers, pc'[v] \in {"handler", "join"}
               PROVE  /\ heartbeat'[v] \in {"waiting", "awake", "renewing"}
                      /\ heartbeat'[v] = "renewing" => lockedBy'[current'[v]] = Heart(v)
                      /\ leaseLeft'[current'[v]] >= heartbeatDue'[v] + Slack(dbErrors')
    BY DEF LeaseOutlastsWait
  <2>1. pc[v] = pc'[v] /\ UNCHANGED <<current, heartbeat, leaseLeft, heartbeatDue, dbErrors>>
    BY DEF RecoverBegin
  <2>2. /\ heartbeat[v] \in {"waiting", "awake", "renewing"}
        /\ heartbeat[v] = "renewing" => lockedBy[current[v]] = Heart(v)
        /\ leaseLeft[current[v]] >= heartbeatDue[v] + Slack(dbErrors)
        /\ current[v] \in Jobs
    BY <1>0, <2>1 DEF PInv, LeaseOutlastsWait, ProcessInv, Running, TypeOK
  <2>3. lockedBy[current[v]] = Heart(v) => lockedBy'[current[v]] = Heart(v)
    BY <2>2, Threads DEF RecoverBegin, RecoveryBatch, Acquire
  <2> QED BY <2>1, <2>2, <2>3
<1>3. WritesWholeLease'
  <2> SUFFICES ASSUME NEW k \in Jobs, NEW v \in Workers,
                      lockedBy'[k] = Heart(v) \/ (lockedBy'[k] = Main(v) /\ pc'[v] = "claiming")
               PROVE  pendingLeft'[k] = LeaseTicks
    BY DEF WritesWholeLease
  <2>1. (lockedBy[k] = Heart(v) \/ (lockedBy[k] = Main(v) /\ pc[v] = "claiming")) => pendingLeft[k] = LeaseTicks
    BY DEF PInv, WritesWholeLease
  <2>2. PICK S \in SUBSET Jobs : Acquire(Main(w), S, Expired)
    BY DEF RecoverBegin
  <2>3. k \notin S
    BY <2>2, Threads DEF RecoverBegin, Acquire
  <2> QED BY <2>1, <2>2, <2>3 DEF RecoverBegin, Acquire
<1> QED BY <1>1, <1>2, <1>3 DEF PInv

\* Recovery fails only rows that no lease protects.
LEMMA RecoverCommitKeeps ==
  ASSUME IInv, IInv', PInv, NEW w \in Workers, RecoverCommit(w)
  PROVE  PInv'
<1> USE WorkersAssumption, JobsAssumption
<1>0. TypeOK /\ TypeOK' /\ ProcessInv /\ ProcessInv' /\ LockInv /\ RunsOnce /\ LeaseMatchesRunner
  BY DEF IInv
<1>1. ASSUME NEW v \in Workers, pc'[v] \in {"handler", "join", "finish"}
      PROVE  /\ pc[v] = pc'[v] /\ current'[v] = current[v]
             /\ current[v] \in Jobs /\ current[v] \notin LockedRows(Main(w))
             /\ HoldsLease(v, current[v])
  <2>1. v # w /\ pc[v] = pc'[v] /\ current'[v] = current[v]
    BY <1>1 DEF RecoverCommit
  <2>2. HoldsLease(v, current[v]) /\ current[v] \in Jobs /\ current[v] # NoJob
    BY <1>0, <1>1, <2>1 DEF PInv, LiveRunnerKeepsLease, TypeOK, ProcessInv, Running
  <2>3. LockKnows(current[v], w)
    BY <1>0, <2>2 DEF LockInv
  <2>4. current[v] # current[w]
    BY <1>0, <2>1, <2>2 DEF RunsOnce
  <2>5. leaseLeft[current[v]] > 0 /\ leaseLeft[current[v]] \in Int /\ leaseOwner[current[v]] = v
    BY <1>0, <2>2, TicksAreNumbers DEF HoldsLease
  <2>6. lockedBy[current[v]] # Main(w)
    BY <2>3, <2>4, <2>5 DEF LockKnows, RecoverCommit, Stale
  <2> QED BY <2>1, <2>2, <2>6
<1>2. LiveRunnerKeepsLease'
  BY <1>1 DEF RecoverCommit, Settle, LiveRunnerKeepsLease, HoldsLease
<1>3. LeaseOutlastsWait'
  <2> SUFFICES ASSUME NEW v \in Workers, pc'[v] \in {"handler", "join"}
               PROVE  /\ heartbeat'[v] \in {"waiting", "awake", "renewing"}
                      /\ heartbeat'[v] = "renewing" => lockedBy'[current'[v]] = Heart(v)
                      /\ leaseLeft'[current'[v]] >= heartbeatDue'[v] + Slack(dbErrors')
    BY DEF LeaseOutlastsWait
  <2>1. /\ heartbeat[v] \in {"waiting", "awake", "renewing"}
        /\ heartbeat[v] = "renewing" => lockedBy[current[v]] = Heart(v)
        /\ leaseLeft[current[v]] >= heartbeatDue[v] + Slack(dbErrors)
    BY <1>1 DEF PInv, LeaseOutlastsWait
  <2>2. leaseLeft'[current[v]] = leaseLeft[current[v]]
    BY <1>1 DEF RecoverCommit, Settle
  <2>3. lockedBy[current[v]] = Heart(v) => lockedBy'[current[v]] = Heart(v)
    BY <1>1, Threads DEF RecoverCommit, Release
  <2> QED BY <1>1, <2>1, <2>2, <2>3 DEF RecoverCommit
<1>4. WritesWholeLease'
  <2> SUFFICES ASSUME NEW k \in Jobs, NEW v \in Workers,
                      lockedBy'[k] = Heart(v) \/ (lockedBy'[k] = Main(v) /\ pc'[v] = "claiming")
               PROVE  pendingLeft'[k] = LeaseTicks
    BY DEF WritesWholeLease
  <2>1. (lockedBy[k] = Heart(v) \/ (lockedBy[k] = Main(v) /\ pc[v] = "claiming")) => pendingLeft[k] = LeaseTicks
    BY DEF PInv, WritesWholeLease
  <2>2. /\ lockedBy'[k] = Main(v) => lockedBy[k] = Main(v) /\ Main(v) \notin {Main(w)}
        /\ lockedBy'[k] = Heart(v) => lockedBy[k] = Heart(v) /\ Heart(v) \notin {Main(w)}
    BY ReleaseKeeps DEF RecoverCommit
  <2> QED BY <2>1, <2>2 DEF RecoverCommit, Release
<1> QED BY <1>2, <1>3, <1>4 DEF PInv

\* A claim will write a whole lease.
LEMMA ClaimBeginKeeps ==
  ASSUME IInv, IInv', PInv, NEW w \in Workers, ClaimBegin(w)
  PROVE  PInv'
<1> USE WorkersAssumption, JobsAssumption
<1>0. TypeOK /\ TypeOK' /\ ProcessInv /\ ProcessInv' /\ LockInv /\ RunsOnce /\ LeaseMatchesRunner
  BY DEF IInv
<1>1. LiveRunnerKeepsLease'
  BY DEF ClaimBegin, PInv, LiveRunnerKeepsLease, HoldsLease
<1>2. LeaseOutlastsWait'
  BY <1>0, Threads DEF TypeOK, ClaimBegin, Acquire, Claimable, PInv, LeaseOutlastsWait, ProcessInv, Running
<1>3. WritesWholeLease'
  <2> SUFFICES ASSUME NEW k \in Jobs, NEW v \in Workers,
                      lockedBy'[k] = Heart(v) \/ (lockedBy'[k] = Main(v) /\ pc'[v] = "claiming")
               PROVE  pendingLeft'[k] = LeaseTicks
    BY DEF WritesWholeLease
  <2>1. (lockedBy[k] = Heart(v) \/ (lockedBy[k] = Main(v) /\ pc[v] = "claiming")) => pendingLeft[k] = LeaseTicks
    BY DEF PInv, WritesWholeLease
  <2>2. PICK j \in Claimable : Acquire(Main(w), {j}, LeaseTicks)
    BY DEF ClaimBegin
  <2>3. CASE k = j
    BY <2>2, <2>3 DEF Acquire
  <2>4. CASE k # j
    <3>1. lockedBy'[k] = lockedBy[k] /\ pendingLeft'[k] = pendingLeft[k]
      BY <2>2, <2>4 DEF Acquire
    <3>2. lockedBy[k] = Main(w) => pc[w] # "recovered"
      BY <1>0 DEF LockInv, LockKnows
    <3> QED BY <2>1, <3>1, <3>2, Threads DEF TypeOK, ClaimBegin
  <2> QED BY <2>3, <2>4
<1> QED BY <1>1, <1>2, <1>3 DEF PInv

\* An idle poll changes no row.
LEMMA ClaimNothingKeeps ==
  ASSUME IInv, IInv', PInv, NEW w \in Workers, ClaimNothing(w)
  PROVE  PInv'
<1> USE WorkersAssumption, JobsAssumption
<1>0. TypeOK /\ TypeOK' /\ ProcessInv /\ ProcessInv' /\ LockInv /\ RunsOnce /\ LeaseMatchesRunner
  BY DEF IInv
<1>1. LiveRunnerKeepsLease'
  BY DEF ClaimNothing, PInv, LiveRunnerKeepsLease, HoldsLease
<1>2. LeaseOutlastsWait'
  BY DEF ClaimNothing, PInv, LeaseOutlastsWait
<1>3. WritesWholeLease'
  BY DEF ClaimNothing, PInv, WritesWholeLease
<1> QED BY <1>1, <1>2, <1>3 DEF PInv

\* A job starts with a whole lease and a whole interval to wait.
LEMMA ClaimCommitKeeps ==
  ASSUME IInv, IInv', PInv, NEW w \in Workers, ClaimCommit(w)
  PROVE  PInv'
<1> USE WorkersAssumption, JobsAssumption
<1>0. TypeOK /\ TypeOK' /\ ProcessInv /\ ProcessInv' /\ LockInv /\ RunsOnce /\ LeaseMatchesRunner
  BY DEF IInv
<1>1. PICK j \in Jobs : WriteClaim(w, j) /\ lockedBy[j] = Main(w) /\ current' = [current EXCEPT ![w] = j]
  BY DEF ClaimCommit
<1>2. status[j] = "queued" /\ pendingLeft[j] = LeaseTicks
  BY <1>0, <1>1 DEF PInv, WritesWholeLease, LockInv, LockKnows, ClaimCommit
<1>3. /\ status'[j] = "processing" /\ leaseOwner'[j] = w /\ leaseLeft'[j] = LeaseTicks
      /\ \A k \in Jobs \ {j} :
           status'[k] = status[k] /\ leaseOwner'[k] = leaseOwner[k] /\ leaseLeft'[k] = leaseLeft[k]
  BY <1>0, <1>1, <1>2 DEF WriteClaim, TypeOK
<1>4. ASSUME NEW v \in Workers \ {w}, pc'[v] \in {"handler", "join", "finish"}
      PROVE  /\ pc[v] = pc'[v] /\ current'[v] = current[v]
             /\ current[v] \in Jobs \ {j} /\ HoldsLease(v, current[v])
             /\ status'[current[v]] = status[current[v]]
             /\ leaseOwner'[current[v]] = leaseOwner[current[v]]
             /\ leaseLeft'[current[v]] = leaseLeft[current[v]]
  <2>1. pc[v] = pc'[v] /\ current'[v] = current[v]
    BY DEF ClaimCommit
  <2>2. HoldsLease(v, current[v]) /\ current[v] \in Jobs
    BY <1>0, <1>4, <2>1 DEF PInv, LiveRunnerKeepsLease, TypeOK, ProcessInv, Running
  <2>3. current[v] # j
    BY <1>2, <2>2 DEF HoldsLease
  <2> QED BY <1>3, <2>1, <2>2, <2>3
<1>5. pc'[w] = "handler" /\ current'[w] = j
  BY <1>0, <1>1 DEF ClaimCommit, TypeOK
<1>6. LiveRunnerKeepsLease'
  <2>1. HoldsLease(w, current[w])'
    BY <1>3, <1>5, LeaseAssumption DEF HoldsLease
  <2>2. ASSUME NEW v \in Workers \ {w}, pc'[v] \in {"handler", "join", "finish"}
        PROVE  HoldsLease(v, current[v])'
    BY <1>4, <2>2 DEF HoldsLease
  <2> QED BY <2>1, <2>2 DEF LiveRunnerKeepsLease
<1>7. LeaseOutlastsWait'
  <2> SUFFICES ASSUME NEW v \in Workers, pc'[v] \in {"handler", "join"}
               PROVE  /\ heartbeat'[v] \in {"waiting", "awake", "renewing"}
                      /\ heartbeat'[v] = "renewing" => lockedBy'[current'[v]] = Heart(v)
                      /\ leaseLeft'[current'[v]] >= heartbeatDue'[v] + Slack(dbErrors')
    BY DEF LeaseOutlastsWait
  <2>1. CASE v = w
    <3>1. heartbeat'[w] = "waiting" /\ heartbeatDue'[w] = HeartbeatTicks /\ dbErrors' \in 0 .. MaxDbErrors
      BY <1>0 DEF ClaimCommit, TypeOK
    <3> QED BY <1>3, <1>5, <2>1, <3>1, Budget
  <2>2. CASE v # w
    <3>1. /\ heartbeat[v] \in {"waiting", "awake", "renewing"}
          /\ heartbeat[v] = "renewing" => lockedBy[current[v]] = Heart(v)
          /\ leaseLeft[current[v]] >= heartbeatDue[v] + Slack(dbErrors)
      BY <1>4, <2>2 DEF PInv, LeaseOutlastsWait
    <3>2. heartbeat'[v] = heartbeat[v] /\ heartbeatDue'[v] = heartbeatDue[v] /\ dbErrors' = dbErrors
      BY <2>2 DEF ClaimCommit
    <3>3. lockedBy[current[v]] = Heart(v) => lockedBy'[current[v]] = Heart(v)
      BY <1>1, <1>4, <2>2, Threads DEF WriteClaim, Release
    <3> QED BY <1>4, <2>2, <3>1, <3>2, <3>3
  <2> QED BY <2>1, <2>2
<1>8. WritesWholeLease'
  <2> SUFFICES ASSUME NEW k \in Jobs, NEW v \in Workers,
                      lockedBy'[k] = Heart(v) \/ (lockedBy'[k] = Main(v) /\ pc'[v] = "claiming")
               PROVE  pendingLeft'[k] = LeaseTicks
    BY DEF WritesWholeLease
  <2>1. (lockedBy[k] = Heart(v) \/ (lockedBy[k] = Main(v) /\ pc[v] = "claiming")) => pendingLeft[k] = LeaseTicks
    BY DEF PInv, WritesWholeLease
  <2>2. /\ lockedBy'[k] = Main(v) => lockedBy[k] = Main(v) /\ Main(v) \notin {Main(w)}
        /\ lockedBy'[k] = Heart(v) => lockedBy[k] = Heart(v) /\ Heart(v) \notin {Main(w)}
    BY <1>1, ReleaseKeeps DEF WriteClaim
  <2> QED BY <2>1, <2>2 DEF ClaimCommit, WriteClaim, Release
<1> QED BY <1>6, <1>7, <1>8 DEF PInv

\* The return of a handler changes no lease.
LEMMA HandlerReturnKeeps ==
  ASSUME IInv, IInv', PInv, NEW w \in Workers, HandlerReturn(w)
  PROVE  PInv'
<1> USE WorkersAssumption, JobsAssumption
<1>0. TypeOK /\ TypeOK' /\ ProcessInv /\ ProcessInv' /\ LockInv /\ RunsOnce /\ LeaseMatchesRunner
  BY DEF IInv
<1>1. LiveRunnerKeepsLease'
  BY DEF HandlerReturn, PInv, LiveRunnerKeepsLease, HoldsLease
<1>2. LeaseOutlastsWait'
  BY DEF HandlerReturn, PInv, LeaseOutlastsWait
<1>3. WritesWholeLease'
  BY DEF HandlerReturn, PInv, WritesWholeLease
<1> QED BY <1>1, <1>2, <1>3 DEF PInv

\* The lease is live when the thread is joined.
LEMMA JoinHeartbeatKeeps ==
  ASSUME IInv, IInv', PInv, NEW w \in Workers, JoinHeartbeat(w)
  PROVE  PInv'
<1> USE WorkersAssumption, JobsAssumption
<1>0. TypeOK /\ TypeOK' /\ ProcessInv /\ ProcessInv' /\ LockInv /\ RunsOnce /\ LeaseMatchesRunner
  BY DEF IInv
<1>1. LiveRunnerKeepsLease'
  BY DEF JoinHeartbeat, PInv, LiveRunnerKeepsLease, HoldsLease
<1>2. LeaseOutlastsWait'
  BY <1>0 DEF TypeOK, JoinHeartbeat, PInv, LeaseOutlastsWait
<1>3. WritesWholeLease'
  BY DEF JoinHeartbeat, PInv, WritesWholeLease
<1> QED BY <1>1, <1>2, <1>3 DEF PInv

\* The terminal update keeps the lease it checked.
LEMMA FinishBeginKeeps ==
  ASSUME IInv, IInv', PInv, NEW w \in Workers, FinishBegin(w)
  PROVE  PInv'
<1> USE WorkersAssumption, JobsAssumption
<1>0. TypeOK /\ TypeOK' /\ ProcessInv /\ ProcessInv' /\ LockInv /\ RunsOnce /\ LeaseMatchesRunner
  BY DEF IInv
<1>1. LiveRunnerKeepsLease'
  BY DEF FinishBegin, PInv, LiveRunnerKeepsLease, HoldsLease
<1>2. LeaseOutlastsWait'
  BY <1>0, Threads DEF TypeOK, FinishBegin, Acquire, PInv, LeaseOutlastsWait, ProcessInv, Running
<1>3. WritesWholeLease'
  BY <1>0, Threads DEF FinishBegin, Acquire, PInv, WritesWholeLease
<1> QED BY <1>1, <1>2, <1>3 DEF PInv

\* A live lease is not refused.
LEMMA FinishRefusedKeeps ==
  ASSUME IInv, IInv', PInv, NEW w \in Workers, FinishRefused(w)
  PROVE  PInv'
<1> USE WorkersAssumption, JobsAssumption
<1>0. TypeOK /\ TypeOK' /\ ProcessInv /\ ProcessInv' /\ LockInv /\ RunsOnce /\ LeaseMatchesRunner
  BY DEF IInv
<1>1. LiveRunnerKeepsLease'
  BY DEF FinishRefused, PInv, LiveRunnerKeepsLease
<1>2. LeaseOutlastsWait'
  BY DEF FinishRefused, PInv, LiveRunnerKeepsLease
<1>3. WritesWholeLease'
  BY DEF FinishRefused, PInv, WritesWholeLease
<1> QED BY <1>1, <1>2, <1>3 DEF PInv

\* The terminal update ends the lease of its own job.
LEMMA FinishCommitKeeps ==
  ASSUME IInv, IInv', PInv, NEW w \in Workers, FinishCommit(w)
  PROVE  PInv'
<1> USE WorkersAssumption, JobsAssumption
<1>0. TypeOK /\ TypeOK' /\ ProcessInv /\ ProcessInv' /\ LockInv /\ RunsOnce /\ LeaseMatchesRunner
  BY DEF IInv
<1>1. ASSUME NEW v \in Workers, pc'[v] \in {"handler", "join", "finish"}
      PROVE  /\ pc[v] = pc'[v] /\ current'[v] = current[v]
             /\ current[v] \in Jobs /\ current[v] \notin LockedRows(Main(w))
             /\ HoldsLease(v, current[v])
  <2>1. v # w /\ pc[v] = pc'[v] /\ current'[v] = current[v]
    BY <1>1 DEF FinishCommit
  <2>2. HoldsLease(v, current[v]) /\ current[v] \in Jobs /\ current[v] # NoJob
    BY <1>0, <1>1, <2>1 DEF PInv, LiveRunnerKeepsLease, TypeOK, ProcessInv, Running
  <2>3. LockKnows(current[v], w)
    BY <1>0, <2>2 DEF LockInv
  <2>4. current[v] # current[w]
    BY <1>0, <2>1, <2>2 DEF RunsOnce
  <2>5. leaseLeft[current[v]] > 0 /\ leaseLeft[current[v]] \in Int /\ leaseOwner[current[v]] = v
    BY <1>0, <2>2, TicksAreNumbers DEF HoldsLease
  <2>6. lockedBy[current[v]] # Main(w)
    BY <2>3, <2>4, <2>5 DEF LockKnows, FinishCommit, Stale
  <2> QED BY <2>1, <2>2, <2>6
<1>2. LiveRunnerKeepsLease'
  BY <1>1 DEF FinishCommit, Settle, LiveRunnerKeepsLease, HoldsLease
<1>3. LeaseOutlastsWait'
  <2> SUFFICES ASSUME NEW v \in Workers, pc'[v] \in {"handler", "join"}
               PROVE  /\ heartbeat'[v] \in {"waiting", "awake", "renewing"}
                      /\ heartbeat'[v] = "renewing" => lockedBy'[current'[v]] = Heart(v)
                      /\ leaseLeft'[current'[v]] >= heartbeatDue'[v] + Slack(dbErrors')
    BY DEF LeaseOutlastsWait
  <2>1. /\ heartbeat[v] \in {"waiting", "awake", "renewing"}
        /\ heartbeat[v] = "renewing" => lockedBy[current[v]] = Heart(v)
        /\ leaseLeft[current[v]] >= heartbeatDue[v] + Slack(dbErrors)
    BY <1>1 DEF PInv, LeaseOutlastsWait
  <2>2. leaseLeft'[current[v]] = leaseLeft[current[v]]
    BY <1>1 DEF FinishCommit, Settle
  <2>3. lockedBy[current[v]] = Heart(v) => lockedBy'[current[v]] = Heart(v)
    BY <1>1, Threads DEF FinishCommit, Release
  <2> QED BY <1>1, <2>1, <2>2, <2>3 DEF FinishCommit
<1>4. WritesWholeLease'
  <2> SUFFICES ASSUME NEW k \in Jobs, NEW v \in Workers,
                      lockedBy'[k] = Heart(v) \/ (lockedBy'[k] = Main(v) /\ pc'[v] = "claiming")
               PROVE  pendingLeft'[k] = LeaseTicks
    BY DEF WritesWholeLease
  <2>1. (lockedBy[k] = Heart(v) \/ (lockedBy[k] = Main(v) /\ pc[v] = "claiming")) => pendingLeft[k] = LeaseTicks
    BY DEF PInv, WritesWholeLease
  <2>2. /\ lockedBy'[k] = Main(v) => lockedBy[k] = Main(v) /\ Main(v) \notin {Main(w)}
        /\ lockedBy'[k] = Heart(v) => lockedBy[k] = Heart(v) /\ Heart(v) \notin {Main(w)}
    BY ReleaseKeeps DEF FinishCommit
  <2> QED BY <2>1, <2>2 DEF FinishCommit, Release
<1> QED BY <1>2, <1>3, <1>4 DEF PInv

\* A process stops without a job.
LEMMA StopKeeps ==
  ASSUME IInv, IInv', PInv, NEW w \in Workers, Stop(w)
  PROVE  PInv'
<1> USE WorkersAssumption, JobsAssumption
<1>0. TypeOK /\ TypeOK' /\ ProcessInv /\ ProcessInv' /\ LockInv /\ RunsOnce /\ LeaseMatchesRunner
  BY DEF IInv
<1>1. LiveRunnerKeepsLease'
  BY DEF Stop, PInv, LiveRunnerKeepsLease, HoldsLease
<1>2. LeaseOutlastsWait'
  BY DEF Stop, PInv, LeaseOutlastsWait
<1>3. WritesWholeLease'
  BY DEF Stop, PInv, WritesWholeLease
<1> QED BY <1>1, <1>2, <1>3 DEF PInv

\* The wait is over with the budget left.
LEMMA HeartbeatWakeKeeps ==
  ASSUME IInv, IInv', PInv, NEW w \in Workers, HeartbeatWake(w)
  PROVE  PInv'
<1> USE WorkersAssumption, JobsAssumption
<1>0. TypeOK /\ TypeOK' /\ ProcessInv /\ ProcessInv' /\ LockInv /\ RunsOnce /\ LeaseMatchesRunner
  BY DEF IInv
<1>1. LiveRunnerKeepsLease'
  BY DEF HeartbeatWake, PInv, LiveRunnerKeepsLease, HoldsLease
<1>2. LeaseOutlastsWait'
  BY DEF HeartbeatWake, PInv, LeaseOutlastsWait
<1>3. WritesWholeLease'
  BY DEF HeartbeatWake, PInv, WritesWholeLease
<1> QED BY <1>1, <1>2, <1>3 DEF PInv

\* A renewal will write a whole lease.
LEMMA HeartbeatBeginKeeps ==
  ASSUME IInv, IInv', PInv, NEW w \in Workers, HeartbeatBegin(w)
  PROVE  PInv'
<1> USE WorkersAssumption, JobsAssumption
<1>0. TypeOK /\ TypeOK' /\ ProcessInv /\ ProcessInv' /\ LockInv /\ RunsOnce /\ LeaseMatchesRunner
  BY DEF IInv
<1>1. LiveRunnerKeepsLease'
  BY DEF HeartbeatBegin, PInv, LiveRunnerKeepsLease, HoldsLease
<1>2. LeaseOutlastsWait'
  BY <1>0, Threads DEF TypeOK, HeartbeatBegin, Acquire, PInv, LeaseOutlastsWait, ProcessInv, Running
<1>3. WritesWholeLease'
  BY DEF HeartbeatBegin, Acquire, PInv, WritesWholeLease, LockKnows
<1> QED BY <1>1, <1>2, <1>3 DEF PInv

\* A renewal of a live lease is not refused.
LEMMA HeartbeatRefusedKeeps ==
  ASSUME IInv, IInv', PInv, NEW w \in Workers, HeartbeatRefused(w)
  PROVE  PInv'
<1> USE WorkersAssumption, JobsAssumption
<1>0. TypeOK /\ TypeOK' /\ ProcessInv /\ ProcessInv' /\ LockInv /\ RunsOnce /\ LeaseMatchesRunner
  BY DEF IInv
<1>1. LiveRunnerKeepsLease'
  BY DEF HeartbeatRefused, PInv, LiveRunnerKeepsLease, HoldsLease
<1>2. LeaseOutlastsWait'
  BY DEF HeartbeatRefused, PInv, LiveRunnerKeepsLease, LeaseOutlastsWait
<1>3. WritesWholeLease'
  BY DEF HeartbeatRefused, PInv, WritesWholeLease
<1> QED BY <1>1, <1>2, <1>3 DEF PInv

\* A renewal restores the budget.
LEMMA HeartbeatCommitKeeps ==
  ASSUME IInv, IInv', PInv, NEW w \in Workers, HeartbeatCommit(w)
  PROVE  PInv'
<1> USE WorkersAssumption, JobsAssumption
<1>0. TypeOK /\ TypeOK' /\ ProcessInv /\ ProcessInv' /\ LockInv /\ RunsOnce /\ LeaseMatchesRunner
  BY DEF IInv
<1>1. ASSUME NEW v \in Workers, pc'[v] \in {"handler", "join", "finish"}
      PROVE  /\ pc[v] = pc'[v] /\ current'[v] = current[v]
             /\ current[v] \in Jobs /\ HoldsLease(v, current[v])
             /\ lockedBy[current[v]] = Heart(w) => v = w /\ pendingLeft[current[v]] = LeaseTicks
  <2>1. pc[v] = pc'[v] /\ current'[v] = current[v]
    BY DEF HeartbeatCommit
  <2>2. HoldsLease(v, current[v]) /\ current[v] \in Jobs /\ current[v] # NoJob
    BY <1>0, <1>1, <2>1 DEF PInv, LiveRunnerKeepsLease, TypeOK, ProcessInv, Running
  <2>3. lockedBy[current[v]] = Heart(w) => current[w] = current[v]
    BY <1>0, <2>2 DEF LockInv, LockKnows
  <2>4. lockedBy[current[v]] = Heart(w) => pendingLeft[current[v]] = LeaseTicks
    BY <2>2 DEF PInv, WritesWholeLease
  <2> QED BY <1>0, <2>1, <2>2, <2>3, <2>4 DEF RunsOnce
<1>2. LiveRunnerKeepsLease'
  <2> SUFFICES ASSUME NEW v \in Workers, pc'[v] \in {"handler", "join", "finish"}
               PROVE  HoldsLease(v, current[v])'
    BY DEF LiveRunnerKeepsLease
  <2>1. leaseLeft'[current[v]] > 0
    BY <1>1, LeaseAssumption DEF HeartbeatCommit, HoldsLease
  <2> QED BY <1>1, <2>1 DEF HeartbeatCommit, HoldsLease
<1>3. LeaseOutlastsWait'
  <2> SUFFICES ASSUME NEW v \in Workers, pc'[v] \in {"handler", "join"}
               PROVE  /\ heartbeat'[v] \in {"waiting", "awake", "renewing"}
                      /\ heartbeat'[v] = "renewing" => lockedBy'[current'[v]] = Heart(v)
                      /\ leaseLeft'[current'[v]] >= heartbeatDue'[v] + Slack(dbErrors')
    BY DEF LeaseOutlastsWait
  <2>1. /\ heartbeat[v] \in {"waiting", "awake", "renewing"}
        /\ heartbeat[v] = "renewing" => lockedBy[current[v]] = Heart(v)
        /\ leaseLeft[current[v]] >= heartbeatDue[v] + Slack(dbErrors)
    BY <1>1 DEF PInv, LeaseOutlastsWait
  <2>2. dbErrors' = dbErrors /\ dbErrors \in 0 .. MaxDbErrors
    BY <1>0 DEF HeartbeatCommit, TypeOK
  <2>3. CASE v = w
    <3>1. heartbeat[w] = "renewing" /\ heartbeat'[w] = "waiting" /\ heartbeatDue'[w] = HeartbeatTicks
      BY <1>0 DEF HeartbeatCommit, TypeOK
    <3>2. lockedBy[current[w]] = Heart(w) /\ pendingLeft[current[w]] = LeaseTicks
      BY <1>1, <2>1, <2>3, <3>1
    <3>3. leaseLeft'[current[w]] = LeaseTicks
      BY <1>1, <2>3, <3>2 DEF HeartbeatCommit
    <3> QED BY <1>1, <2>2, <2>3, <3>1, <3>3, Budget
  <2>4. CASE v # w
    <3>1. heartbeat'[v] = heartbeat[v] /\ heartbeatDue'[v] = heartbeatDue[v]
      BY <2>4 DEF HeartbeatCommit
    <3>2. leaseLeft'[current[v]] = leaseLeft[current[v]]
      BY <1>1, <2>4 DEF HeartbeatCommit
    <3>3. lockedBy[current[v]] = Heart(v) => lockedBy'[current[v]] = Heart(v)
      BY <1>1, <2>4, Threads DEF HeartbeatCommit, Release
    <3> QED BY <1>1, <2>1, <2>2, <3>1, <3>2, <3>3
  <2> QED BY <2>3, <2>4
<1>4. WritesWholeLease'
  <2> SUFFICES ASSUME NEW k \in Jobs, NEW v \in Workers,
                      lockedBy'[k] = Heart(v) \/ (lockedBy'[k] = Main(v) /\ pc'[v] = "claiming")
               PROVE  pendingLeft'[k] = LeaseTicks
    BY DEF WritesWholeLease
  <2>1. (lockedBy[k] = Heart(v) \/ (lockedBy[k] = Main(v) /\ pc[v] = "claiming")) => pendingLeft[k] = LeaseTicks
    BY DEF PInv, WritesWholeLease
  <2>2. /\ lockedBy'[k] = Main(v) => lockedBy[k] = Main(v) /\ Main(v) \notin {Heart(w)}
        /\ lockedBy'[k] = Heart(v) => lockedBy[k] = Heart(v) /\ Heart(v) \notin {Heart(w)}
    BY ReleaseKeeps DEF HeartbeatCommit
  <2> QED BY <2>1, <2>2 DEF HeartbeatCommit, Release
<1> QED BY <1>2, <1>3, <1>4 DEF PInv

\* A claim whose acknowledgement is lost starts no handler.
LEMMA ClaimCommitUnacknowledgedKeeps ==
  ASSUME IInv, IInv', PInv, NEW w \in Workers, ClaimCommitUnacknowledged(w)
  PROVE  PInv'
<1> USE WorkersAssumption, JobsAssumption
<1>0. TypeOK /\ TypeOK' /\ ProcessInv /\ ProcessInv' /\ LockInv /\ RunsOnce /\ LeaseMatchesRunner
  BY DEF IInv
<1>1. PICK j \in Jobs : WriteClaim(w, j) /\ lockedBy[j] = Main(w)
  BY DEF ClaimCommitUnacknowledged
<1>2. status[j] = "queued"
  BY <1>0, <1>1 DEF LockInv, LockKnows, ClaimCommitUnacknowledged
<1>3. ASSUME NEW v \in Workers, pc'[v] \in {"handler", "join", "finish"}
      PROVE  /\ pc[v] = pc'[v] /\ current'[v] = current[v]
             /\ current[v] \in Jobs \ {j} /\ HoldsLease(v, current[v])
             /\ status'[current[v]] = status[current[v]]
             /\ leaseOwner'[current[v]] = leaseOwner[current[v]]
             /\ leaseLeft'[current[v]] = leaseLeft[current[v]]
  <2>1. pc[v] = pc'[v] /\ current'[v] = current[v]
    BY <1>3 DEF ClaimCommitUnacknowledged
  <2>2. HoldsLease(v, current[v]) /\ current[v] \in Jobs
    BY <1>0, <1>3, <2>1 DEF PInv, LiveRunnerKeepsLease, TypeOK, ProcessInv, Running
  <2>3. current[v] # j
    BY <1>2, <2>2 DEF HoldsLease
  <2> QED BY <1>1, <2>1, <2>2, <2>3 DEF WriteClaim
<1>4. LiveRunnerKeepsLease'
  BY <1>3 DEF LiveRunnerKeepsLease, HoldsLease
<1>5. LeaseOutlastsWait'
  <2> SUFFICES ASSUME NEW v \in Workers, pc'[v] \in {"handler", "join"}
               PROVE  /\ heartbeat'[v] \in {"waiting", "awake", "renewing"}
                      /\ heartbeat'[v] = "renewing" => lockedBy'[current'[v]] = Heart(v)
                      /\ leaseLeft'[current'[v]] >= heartbeatDue'[v] + Slack(dbErrors')
    BY DEF LeaseOutlastsWait
  <2>1. /\ heartbeat[v] \in {"waiting", "awake", "renewing"}
        /\ heartbeat[v] = "renewing" => lockedBy[current[v]] = Heart(v)
        /\ leaseLeft[current[v]] >= heartbeatDue[v] + Slack(dbErrors)
    BY <1>3 DEF PInv, LeaseOutlastsWait
  <2>2. heartbeat' = heartbeat /\ heartbeatDue' = heartbeatDue
    BY DEF ClaimCommitUnacknowledged
  <2>3. Slack(dbErrors') <= Slack(dbErrors) /\ Slack(dbErrors) \in Int /\ Slack(dbErrors') \in Int
    BY <1>0, Budget, LeaseAssumption DEF ClaimCommitUnacknowledged, TypeOK
  <2>4. lockedBy[current[v]] = Heart(v) => lockedBy'[current[v]] = Heart(v)
    BY <1>1, <1>3, Threads DEF WriteClaim, Release
  <2>5. leaseLeft[current[v]] \in Int /\ heartbeatDue[v] \in Int
    <3>1. current[v] \in Jobs
      BY <1>3
    <3>2. \A k \in Jobs : leaseLeft[k] \in Int
      BY <1>0, TicksAreNumbers
    <3>3. heartbeatDue[v] \in Nat
      BY <1>0, TicksAreNumbers
    <3>4. leaseLeft[current[v]] \in Int
      BY <3>1, <3>2
    <3> QED BY <3>3, <3>4
  <2> QED BY <1>3, <2>1, <2>2, <2>3, <2>4, <2>5
<1>6. WritesWholeLease'
  <2> SUFFICES ASSUME NEW k \in Jobs, NEW v \in Workers,
                      lockedBy'[k] = Heart(v) \/ (lockedBy'[k] = Main(v) /\ pc'[v] = "claiming")
               PROVE  pendingLeft'[k] = LeaseTicks
    BY DEF WritesWholeLease
  <2>1. (lockedBy[k] = Heart(v) \/ (lockedBy[k] = Main(v) /\ pc[v] = "claiming")) => pendingLeft[k] = LeaseTicks
    BY DEF PInv, WritesWholeLease
  <2>2. /\ lockedBy'[k] = Main(v) => lockedBy[k] = Main(v) /\ Main(v) \notin {Main(w)}
        /\ lockedBy'[k] = Heart(v) => lockedBy[k] = Heart(v) /\ Heart(v) \notin {Main(w)}
    BY <1>1, ReleaseKeeps DEF WriteClaim
  <2> QED BY <2>1, <2>2 DEF ClaimCommitUnacknowledged, WriteClaim, Release
<1> QED BY <1>4, <1>5, <1>6 DEF PInv

\* An error of the main thread comes after the handler.
LEMMA MainDbErrorKeeps ==
  ASSUME IInv, IInv', PInv, NEW w \in Workers, MainDbError(w)
  PROVE  PInv'
<1> USE WorkersAssumption, JobsAssumption
<1>0. TypeOK /\ TypeOK' /\ ProcessInv /\ ProcessInv' /\ LockInv /\ RunsOnce /\ LeaseMatchesRunner
  BY DEF IInv
<1>1. LiveRunnerKeepsLease'
  BY <1>0 DEF TypeOK, MainDbError, PInv, LiveRunnerKeepsLease, HoldsLease
<1>2. LeaseOutlastsWait'
  <2> SUFFICES ASSUME NEW v \in Workers, pc'[v] \in {"handler", "join"}
               PROVE  /\ heartbeat'[v] \in {"waiting", "awake", "renewing"}
                      /\ heartbeat'[v] = "renewing" => lockedBy'[current'[v]] = Heart(v)
                      /\ leaseLeft'[current'[v]] >= heartbeatDue'[v] + Slack(dbErrors')
    BY DEF LeaseOutlastsWait
  <2>1. /\ pc[v] = pc'[v] /\ current'[v] = current[v] /\ current[v] \in Jobs
        /\ heartbeat[v] \in {"waiting", "awake", "renewing"}
        /\ heartbeat[v] = "renewing" => lockedBy[current[v]] = Heart(v)
        /\ leaseLeft[current[v]] >= heartbeatDue[v] + Slack(dbErrors)
    BY <1>0 DEF MainDbError, PInv, LeaseOutlastsWait, TypeOK, ProcessInv, Running
  <2>2. Slack(dbErrors') = Slack(dbErrors) - HeartbeatTicks /\ Slack(dbErrors) \in Int
    BY <1>0, Budget DEF MainDbError, TypeOK
  <2>3. leaseLeft[current[v]] \in Int /\ heartbeatDue[v] \in Nat /\ leaseLeft' = leaseLeft
    BY <1>0, <2>1, TicksAreNumbers DEF MainDbError
  <2>4. heartbeat' = heartbeat /\ heartbeatDue' = heartbeatDue
    BY DEF MainDbError
  <2>5. lockedBy[current[v]] = Heart(v) => lockedBy'[current[v]] = Heart(v)
    BY <2>1, Threads DEF MainDbError, Release
  <2> QED BY <2>1, <2>2, <2>3, <2>4, <2>5, LeaseAssumption
<1>3. WritesWholeLease'
  BY Threads DEF MainDbError, Release, PInv, WritesWholeLease
<1> QED BY <1>1, <1>2, <1>3 DEF PInv

\* A lost renewal costs one interval of the budget.
LEMMA HeartbeatDbErrorKeeps ==
  ASSUME IInv, IInv', PInv, NEW w \in Workers, HeartbeatDbError(w)
  PROVE  PInv'
<1> USE WorkersAssumption, JobsAssumption
<1>0. TypeOK /\ TypeOK' /\ ProcessInv /\ ProcessInv' /\ LockInv /\ RunsOnce /\ LeaseMatchesRunner
  BY DEF IInv
<1>1. LiveRunnerKeepsLease'
  BY DEF HeartbeatDbError, PInv, LiveRunnerKeepsLease, HoldsLease
<1>2. LeaseOutlastsWait'
  <2> SUFFICES ASSUME NEW v \in Workers, pc'[v] \in {"handler", "join"}
               PROVE  /\ heartbeat'[v] \in {"waiting", "awake", "renewing"}
                      /\ heartbeat'[v] = "renewing" => lockedBy'[current'[v]] = Heart(v)
                      /\ leaseLeft'[current'[v]] >= heartbeatDue'[v] + Slack(dbErrors')
    BY DEF LeaseOutlastsWait
  <2>1. /\ pc[v] = pc'[v] /\ current'[v] = current[v] /\ current[v] \in Jobs
        /\ heartbeat[v] \in {"waiting", "awake", "renewing"}
        /\ heartbeat[v] = "renewing" => lockedBy[current[v]] = Heart(v)
        /\ leaseLeft[current[v]] >= heartbeatDue[v] + Slack(dbErrors)
    BY <1>0 DEF HeartbeatDbError, PInv, LeaseOutlastsWait, TypeOK, ProcessInv, Running
  <2>2. Slack(dbErrors') = Slack(dbErrors) - HeartbeatTicks /\ Slack(dbErrors) \in Int
    BY <1>0, Budget DEF HeartbeatDbError, TypeOK
  <2>3. leaseLeft[current[v]] \in Int /\ heartbeatDue[v] \in Nat /\ leaseLeft' = leaseLeft
    BY <1>0, <2>1, TicksAreNumbers DEF HeartbeatDbError
  <2>4. CASE v = w
    <3>1. heartbeat'[w] = "waiting" /\ heartbeatDue'[w] = HeartbeatTicks
      BY <1>0 DEF HeartbeatDbError, TypeOK
    <3> QED BY <2>1, <2>2, <2>3, <2>4, <3>1, LeaseAssumption
  <2>5. CASE v # w
    <3>1. heartbeat'[v] = heartbeat[v] /\ heartbeatDue'[v] = heartbeatDue[v]
      BY <2>5 DEF HeartbeatDbError
    <3>2. lockedBy[current[v]] = Heart(v) => lockedBy'[current[v]] = Heart(v)
      BY <2>1, <2>5, Threads DEF HeartbeatDbError, Release
    <3> QED BY <2>1, <2>2, <2>3, <3>1, <3>2, LeaseAssumption
  <2> QED BY <2>4, <2>5
<1>3. WritesWholeLease'
  BY Threads DEF HeartbeatDbError, Release, PInv, WritesWholeLease
<1> QED BY <1>1, <1>2, <1>3 DEF PInv

\* A signal changes no lease.
LEMMA RequestShutdownKeeps ==
  ASSUME IInv, IInv', PInv, NEW w \in Workers, RequestShutdown(w)
  PROVE  PInv'
<1> USE WorkersAssumption, JobsAssumption
<1>0. TypeOK /\ TypeOK' /\ ProcessInv /\ ProcessInv' /\ LockInv /\ RunsOnce /\ LeaseMatchesRunner
  BY DEF IInv
<1>1. LiveRunnerKeepsLease'
  BY DEF RequestShutdown, PInv, LiveRunnerKeepsLease, HoldsLease
<1>2. LeaseOutlastsWait'
  BY DEF RequestShutdown, PInv, LeaseOutlastsWait
<1>3. WritesWholeLease'
  BY DEF RequestShutdown, PInv, WritesWholeLease
<1> QED BY <1>1, <1>2, <1>3 DEF PInv

\* A process that dies runs nothing.
LEMMA CrashKeeps ==
  ASSUME IInv, IInv', PInv, NEW w \in Workers, Crash(w)
  PROVE  PInv'
<1> USE WorkersAssumption, JobsAssumption
<1>0. TypeOK /\ TypeOK' /\ ProcessInv /\ ProcessInv' /\ LockInv /\ RunsOnce /\ LeaseMatchesRunner
  BY DEF IInv
<1>1. LiveRunnerKeepsLease'
  BY <1>0 DEF TypeOK, Crash, PInv, LiveRunnerKeepsLease, HoldsLease
<1>2. LeaseOutlastsWait'
  BY <1>0, Threads DEF TypeOK, Crash, Release, PInv, LeaseOutlastsWait, ProcessInv, Running
<1>3. WritesWholeLease'
  BY Threads DEF Crash, Release, PInv, WritesWholeLease, LockKnows
<1> QED BY <1>1, <1>2, <1>3 DEF PInv

\* A row that is inserted is nobody's job yet.
LEMMA EnqueueKeeps ==
  ASSUME IInv, IInv', PInv, NEW j \in Jobs, Enqueue(j)
  PROVE  PInv'
<1> USE WorkersAssumption, JobsAssumption
<1>0. TypeOK /\ ProcessInv
  BY DEF IInv
<1>1. LiveRunnerKeepsLease'
  BY DEF Enqueue, PInv, LiveRunnerKeepsLease, HoldsLease
<1>2. LeaseOutlastsWait'
  BY DEF Enqueue, PInv, LeaseOutlastsWait
<1>3. WritesWholeLease'
  BY DEF Enqueue, PInv, WritesWholeLease
<1> QED BY <1>1, <1>2, <1>3 DEF PInv

\* Time passes only while every heartbeat thread waits, and then takes as much
\* from the lease as from the wait.
LEMMA TickKeeps ==
  ASSUME IInv, IInv', PInv, Prompt, Tick
  PROVE  PInv'
<1>0. TypeOK /\ TypeOK' /\ ProcessInv
  BY DEF IInv
<1>1. UNCHANGED <<status, leaseOwner, lockedBy, pc, current, heartbeat, dbErrors>>
  BY DEF Tick
<1>2. ASSUME NEW v \in Workers, pc[v] \in {"handler", "join", "finish"}
      PROVE  /\ pc[v] = "handler" /\ heartbeat[v] = "waiting"
             /\ HoldsLease(v, current[v]) /\ leaseLeft'[current[v]] > 0
             /\ leaseLeft'[current[v]] >= heartbeatDue'[v] + Slack(dbErrors)
  <2>1. pc[v] = "handler" /\ HoldsLease(v, current[v]) /\ current[v] \in Jobs
    BY <1>0, <1>2 DEF Prompt, PInv, LiveRunnerKeepsLease, TypeOK, ProcessInv, Running
  <2>2. /\ heartbeat[v] \in {"waiting", "awake", "renewing"}
        /\ heartbeat[v] = "renewing" => lockedBy[current[v]] = Heart(v)
        /\ leaseLeft[current[v]] >= heartbeatDue[v] + Slack(dbErrors)
    BY <2>1 DEF PInv, LeaseOutlastsWait
  <2>3. heartbeat[v] = "waiting" /\ heartbeatDue[v] > 0
    BY <2>1, <2>2, Threads DEF Prompt
  <2>4. leaseLeft[current[v]] \in Int /\ heartbeatDue[v] \in Nat
    BY <1>0, <2>1, TicksAreNumbers
  <2>5. Slack(dbErrors) \in Int /\ Slack(dbErrors) > 0
    BY <1>0, Budget DEF TypeOK
  <2>6. leaseLeft[current[v]] > 0
    BY <2>1 DEF HoldsLease
  <2>7. /\ leaseLeft'[current[v]] = leaseLeft[current[v]] - 1
        /\ heartbeatDue'[v] = heartbeatDue[v] - 1
    BY <2>1, <2>3, <2>4, <2>6 DEF Tick, TickDown
  <2> QED BY <2>1, <2>2, <2>3, <2>4, <2>5, <2>7
<1>3. LiveRunnerKeepsLease'
  BY <1>1, <1>2 DEF LiveRunnerKeepsLease, HoldsLease
<1>4. LeaseOutlastsWait'
  BY <1>1, <1>2 DEF LeaseOutlastsWait
<1>5. WritesWholeLease'
  BY <1>1, Threads DEF WritesWholeLease, Prompt
<1> QED BY <1>3, <1>4, <1>5 DEF PInv

\* Every step of the prompt environment keeps the budget.
LEMMA PInvStep == IInv /\ IInv' /\ PInv /\ [PromptNext]_vars => PInv'
<1> SUFFICES ASSUME IInv, IInv', PInv, [PromptNext]_vars PROVE PInv'
  OBVIOUS
<1>1. ASSUME NEW j \in Jobs, Enqueue(j) PROVE PInv'
  BY <1>1, EnqueueKeeps
<1>2. ASSUME NEW w \in Workers, MainStep(w) PROVE PInv'
  BY <1>2, StartKeeps, RecoverBeginKeeps, RecoverCommitKeeps, ClaimBeginKeeps, ClaimNothingKeeps,
     ClaimCommitKeeps, HandlerReturnKeeps, JoinHeartbeatKeeps, FinishBeginKeeps, FinishRefusedKeeps,
     FinishCommitKeeps, StopKeeps DEF MainStep
<1>3. ASSUME NEW w \in Workers, HeartbeatStep(w) PROVE PInv'
  BY <1>3, HeartbeatWakeKeeps, HeartbeatBeginKeeps, HeartbeatRefusedKeeps, HeartbeatCommitKeeps
     DEF HeartbeatStep
<1>4. ASSUME NEW w \in Workers, Fault(w) PROVE PInv'
  BY <1>4, ClaimCommitUnacknowledgedKeeps, MainDbErrorKeeps, HeartbeatDbErrorKeeps,
     RequestShutdownKeeps, CrashKeeps DEF Fault
<1>5. CASE Prompt /\ Tick
  BY <1>5, TickKeeps
<1>6. CASE UNCHANGED vars
  BY <1>6 DEF vars, PInv, LiveRunnerKeepsLease, HoldsLease, LeaseOutlastsWait, WritesWholeLease
<1> QED BY <1>1, <1>2, <1>3, <1>4, <1>5, <1>6 DEF PromptNext, Operation

\* The prompt environment is one of those of JobQueue, so its invariant holds too.
LEMMA PromptInvariant == PromptSpec => [](IInv /\ PInv)
<1>1. Init => IInv /\ PInv
  <2>1. Init => PInv
    BY Threads DEF Init, PInv, LiveRunnerKeepsLease, LeaseOutlastsWait, WritesWholeLease
  <2> QED BY <2>1, InvInit
<1>2. [PromptNext]_vars => [Next]_vars
  BY DEF PromptNext, Next
<1>3. IInv /\ PInv /\ [PromptNext]_vars => (IInv /\ PInv)'
  BY <1>2, InvStep, PInvStep
<1> QED BY <1>1, <1>3, PTL DEF PromptSpec

\* A handler whose process runs promptly keeps its lease until its terminal
\* update, however long it runs, while the database refuses fewer transactions
\* than the lease has heartbeat intervals (_heartbeat_loop, heartbeat_job).
THEOREM LiveRunnersKeepLeases == PromptSpec => []LiveRunnerKeepsLease
<1>1. PInv => LiveRunnerKeepsLease
  BY DEF PInv
<1> QED BY PromptInvariant, <1>1, PTL
=============================================================================
