------------------------------ MODULE JobQueue ------------------------------
(***************************************************************************)
(* The durable job queue: the "jobs" table (backend/app/db/models/job.py), *)
(* the owner-bound transitions of backend/app/jobs/service.py and the      *)
(* worker loop of backend/app/jobs/runner.py.                              *)
(*                                                                         *)
(* Every database transaction is two steps: one that takes the row locks   *)
(* (SELECT ... FOR UPDATE [SKIP LOCKED]), reads the clock and makes the     *)
(* checks, and one that commits.  Between them other transactions run, the *)
(* clock moves, the process may crash and the database may fail.           *)
(*                                                                         *)
(* Timestamps are kept as what the code compares: the ticks that are left  *)
(* until they are reached.  lease_expires_at = now is 0, and Expired       *)
(* stands for every moment after it.                                       *)
(***************************************************************************)
EXTENDS Integers, FiniteSets

CONSTANTS
  Jobs,            \* rows that may ever be inserted, numbered by job_id
  HandledJobs,     \* those whose job_type has a registered handler
  LegacyJobs,      \* those that may be PROCESSING rows older than the lease columns
  Workers,         \* worker processes; a restarted process is another element
  NoWorker,        \* lease_owner IS NULL
  NoJob,           \* no job claimed by the process
  NoTx,            \* the row is not locked
  LeaseTicks,      \* worker_job_lease_seconds
  HeartbeatTicks,  \* worker_heartbeat_interval_seconds
  RecoveryLimit,   \* recover_stale_jobs(limit=100)
  Transient,       \* workers that may crash or be told to shut down
  MaxDbErrors      \* bound: database errors in a behaviour

ASSUME JobsAssumption ==
  /\ Jobs \subseteq Nat
  /\ IsFiniteSet(Jobs)
  /\ HandledJobs \subseteq Jobs
  /\ LegacyJobs \subseteq Jobs
  /\ NoJob \notin Jobs
ASSUME WorkersAssumption ==
  /\ NoWorker \notin Workers
  /\ Transient \subseteq Workers
  /\ NoTx \notin Workers \X {"main", "heartbeat"}
\* WorkerRuntime.__init__ refuses any other pair of intervals.
ASSUME LeaseAssumption ==
  /\ LeaseTicks \in Nat
  /\ HeartbeatTicks \in Nat
  /\ 0 < HeartbeatTicks
  /\ HeartbeatTicks < LeaseTicks
ASSUME BoundsAssumption == RecoveryLimit \in Nat \ {0} /\ MaxDbErrors \in Nat

VARIABLES
  \* the jobs table
  status,        \* "absent" before the insert, then JobStatus
  attempts,      \* attempt_count
  enqueued,      \* created_at, as the position of the insert
  leaseOwner,    \* lease_owner
  leaseLeft,     \* lease_expires_at, in ticks from now
  lockedBy,      \* transaction that holds the row lock
  pendingLeft,   \* lease_expires_at that the locking transaction will write
  \* the worker processes
  pc,            \* where the process is in run_forever / run_iteration
  current,       \* job_id of the claimed job
  handlerFailed, \* local of run_iteration
  heartbeat,     \* the heartbeat thread
  heartbeatDue,  \* ticks until stop_event.wait(interval) times out
  shutdown,      \* shutdown_event is set
  dbErrors       \* database errors so far

rows == <<status, attempts, enqueued, leaseOwner, leaseLeft>>
locks == <<lockedBy, pendingLeft>>
process == <<pc, current, handlerFailed, heartbeat, heartbeatDue, shutdown>>
vars == <<status, attempts, enqueued, leaseOwner, leaseLeft, lockedBy, pendingLeft,
          pc, current, handlerFailed, heartbeat, heartbeatDue, shutdown, dbErrors>>

Statuses == {"absent", "queued", "processing", "completed", "failed"}
Terminal == {"completed", "failed"}
Transactions == Workers \X {"main", "heartbeat"}
Expired == -1

Main(w) == <<w, "main">>
Heart(w) == <<w, "heartbeat">>
LockedRows(tx) == {j \in Jobs : lockedBy[j] = tx}

TypeOK ==
  /\ status \in [Jobs -> Statuses]
  /\ attempts \in [Jobs -> Nat]
  /\ enqueued \in [Jobs -> Nat]
  /\ leaseOwner \in [Jobs -> Workers \cup {NoWorker}]
  /\ leaseLeft \in [Jobs -> Expired .. LeaseTicks]
  /\ lockedBy \in [Jobs -> Transactions \cup {NoTx}]
  /\ pendingLeft \in [Jobs -> Expired .. LeaseTicks]
  /\ pc \in [Workers -> {"off", "idle", "recovering", "recovered", "claiming",
                         "handler", "join", "finish", "finishing", "stopped"}]
  /\ current \in [Workers -> Jobs \cup {NoJob}]
  /\ handlerFailed \in [Workers -> BOOLEAN]
  /\ heartbeat \in [Workers -> {"none", "waiting", "awake", "renewing", "ended"}]
  /\ heartbeatDue \in [Workers -> 0 .. HeartbeatTicks]
  /\ shutdown \in SUBSET Workers
  /\ dbErrors \in 0 .. MaxDbErrors

\* An empty queue, except for PROCESSING rows written before the lease columns
\* existed: their lease columns are NULL and no process runs them.
Init ==
  /\ \E legacy \in SUBSET LegacyJobs :
       /\ status = [j \in Jobs |-> IF j \in legacy THEN "processing" ELSE "absent"]
       /\ attempts = [j \in Jobs |-> IF j \in legacy THEN 1 ELSE 0]
  /\ enqueued = [j \in Jobs |-> 0]
  /\ leaseOwner = [j \in Jobs |-> NoWorker]
  /\ leaseLeft = [j \in Jobs |-> Expired]
  /\ lockedBy = [j \in Jobs |-> NoTx]
  /\ pendingLeft = [j \in Jobs |-> Expired]
  /\ pc = [w \in Workers |-> "off"]
  /\ current = [w \in Workers |-> NoJob]
  /\ handlerFailed = [w \in Workers |-> FALSE]
  /\ heartbeat = [w \in Workers |-> "none"]
  /\ heartbeatDue = [w \in Workers |-> 0]
  /\ shutdown = {}
  /\ dbErrors = 0

-----------------------------------------------------------------------------
(* Row locks.                                                              *)

\* tx takes the locks of the rows S and will write the expiry "left".
Acquire(tx, S, left) ==
  /\ lockedBy' = [j \in Jobs |-> IF j \in S THEN tx ELSE lockedBy[j]]
  /\ pendingLeft' = [j \in Jobs |-> IF j \in S THEN left ELSE pendingLeft[j]]

\* Commit or rollback: tx gives its locks back.
Release(txs) ==
  /\ lockedBy' = [j \in Jobs |-> IF lockedBy[j] \in txs THEN NoTx ELSE lockedBy[j]]
  /\ pendingLeft' = [j \in Jobs |-> IF lockedBy[j] \in txs THEN Expired ELSE pendingLeft[j]]

\* Plausible bug (see below): the lease columns are not cleared.
SettleKeepsLease(S, outcome) ==
  /\ status' = [j \in Jobs |-> IF j \in S THEN outcome ELSE status[j]]
  /\ UNCHANGED <<leaseOwner, leaseLeft>>

\* The rows S get this status and lose their lease.
Settle(S, outcome) ==
  /\ status' = [j \in Jobs |-> IF j \in S THEN outcome ELSE status[j]]
  /\ leaseOwner' = [j \in Jobs |-> IF j \in S THEN NoWorker ELSE leaseOwner[j]]
  /\ leaseLeft' = [j \in Jobs |-> IF j \in S THEN Expired ELSE leaseLeft[j]]

-----------------------------------------------------------------------------
(* What the locking reads check.                                           *)

\* Plausible bugs, put in place of the definitions they resemble to show that the
\* properties below notice them; nothing in the model uses them.

\* Recovery takes a lease that has only missed a heartbeat.
StaleAfterMissedHeartbeat(j) ==
  status[j] = "processing" /\ (leaseOwner[j] = NoWorker \/ leaseLeft[j] <= LeaseTicks - HeartbeatTicks)

\* Recovery finds legacy rows only.
StaleLegacyOnly(j) == status[j] = "processing" /\ leaseOwner[j] = NoWorker

\* The terminal update trusts the claim and does not read the row again.
HoldsLeaseOnceClaimed(w, j) == current[w] = j

\* repository.stale_processing_for_update: a NULL lease, or one that expired
\* strictly before now.
Stale(j) == status[j] = "processing" /\ (leaseOwner[j] = NoWorker \/ leaseLeft[j] < 0)

\* _owned_processing_job_for_update and _require_active_lease.
HoldsLease(w, j) == status[j] = "processing" /\ leaseOwner[j] = w /\ leaseLeft[j] > 0

-----------------------------------------------------------------------------
(* More plausible bugs, of whole actions.                                  *)

\* Recovery puts the job back into the queue.
RecoverCommitRequeues(w) ==
  /\ pc[w] = "recovering"
  /\ Settle(LockedRows(Main(w)), "queued")
  /\ Release({Main(w)})
  /\ pc' = [pc EXCEPT ![w] = "recovered"]
  /\ UNCHANGED <<attempts, enqueued, current, handlerFailed, heartbeat, heartbeatDue,
                 shutdown, dbErrors>>

\* A handler that raised completes its job.
FinishCommitIgnoresFailure(w) ==
  /\ pc[w] = "finishing"
  /\ Settle(LockedRows(Main(w)), "completed")
  /\ Release({Main(w)})
  /\ pc' = [pc EXCEPT ![w] = "idle"]
  /\ current' = [current EXCEPT ![w] = NoJob]
  /\ UNCHANGED <<attempts, enqueued, handlerFailed, heartbeat, heartbeatDue, shutdown, dbErrors>>

\* run_forever does not catch SQLAlchemyError: the loop ends.
MainDbErrorEndsLoop(w) ==
  /\ pc[w] \in {"recovering", "recovered", "claiming", "finish", "finishing"}
  /\ dbErrors < MaxDbErrors
  /\ dbErrors' = dbErrors + 1
  /\ Release({Main(w)})
  /\ pc' = [pc EXCEPT ![w] = "stopped"]
  /\ current' = [current EXCEPT ![w] = NoJob]
  /\ UNCHANGED <<rows, handlerFailed, heartbeat, heartbeatDue, shutdown>>

\* A renewal writes heartbeat_at but leaves lease_expires_at.
HeartbeatBeginWithoutExtension(w) ==
  LET j == current[w]
  IN /\ heartbeat[w] = "awake"
     /\ lockedBy[j] = NoTx
     /\ HoldsLease(w, j)
     /\ Acquire(Heart(w), {j}, leaseLeft[j])
     /\ heartbeat' = [heartbeat EXCEPT ![w] = "renewing"]
     /\ UNCHANGED <<rows, pc, current, handlerFailed, heartbeatDue, shutdown, dbErrors>>

\* A renewal adds the lease to what is left of it.
HeartbeatBeginAddsUp(w) ==
  LET j == current[w]
  IN /\ heartbeat[w] = "awake"
     /\ lockedBy[j] = NoTx
     /\ HoldsLease(w, j)
     /\ Acquire(Heart(w), {j}, leaseLeft[j] + LeaseTicks)
     /\ heartbeat' = [heartbeat EXCEPT ![w] = "renewing"]
     /\ UNCHANGED <<rows, pc, current, handlerFailed, heartbeatDue, shutdown, dbErrors>>

-----------------------------------------------------------------------------
(* The API side.                                                           *)

\* enqueue_job in the caller's transaction.
Enqueue(j) ==
  /\ status[j] = "absent"
  /\ status' = [status EXCEPT ![j] = "queued"]
  /\ enqueued' = [enqueued EXCEPT ![j] = 1 + Cardinality({k \in Jobs : enqueued[k] # 0})]
  /\ UNCHANGED <<attempts, leaseOwner, leaseLeft, locks, process, dbErrors>>

-----------------------------------------------------------------------------
(* The main thread of a worker.                                            *)

Start(w) ==
  /\ pc[w] = "off"
  /\ pc' = [pc EXCEPT ![w] = "idle"]
  /\ UNCHANGED <<rows, locks, current, handlerFailed, heartbeat, heartbeatDue, shutdown, dbErrors>>

\* A batch of recover_stale_jobs: unlocked stale rows up to the limit, the
\* longest expired first; which come first among equals is left open.
RecoveryBatch(S) ==
  LET free == {j \in Jobs : Stale(j) /\ lockedBy[j] = NoTx}
  IN /\ S \subseteq free
     /\ \/ S = free
        \/ Cardinality(S) = RecoveryLimit /\ RecoveryLimit < Cardinality(free)

\* The loop head, the shutdown check and the locking read of recover_stale_jobs.
RecoverBegin(w) ==
  /\ pc[w] = "idle"
  /\ w \notin shutdown
  /\ \E S \in SUBSET Jobs : RecoveryBatch(S) /\ Acquire(Main(w), S, Expired)
  /\ pc' = [pc EXCEPT ![w] = "recovering"]
  /\ UNCHANGED <<rows, current, handlerFailed, heartbeat, heartbeatDue, shutdown, dbErrors>>

RecoverCommit(w) ==
  /\ pc[w] = "recovering"
  /\ Settle(LockedRows(Main(w)), "failed")
  /\ Release({Main(w)})
  /\ pc' = [pc EXCEPT ![w] = "recovered"]
  /\ UNCHANGED <<attempts, enqueued, current, handlerFailed, heartbeat, heartbeatDue,
                 shutdown, dbErrors>>

Claimable == {j \in HandledJobs : status[j] = "queued" /\ lockedBy[j] = NoTx}

\* claim_next_job: lock the oldest queued row nobody has locked.
ClaimBegin(w) ==
  /\ pc[w] = "recovered"
  /\ \E j \in Claimable :
       /\ \A k \in Claimable : enqueued[j] <= enqueued[k]
       /\ Acquire(Main(w), {j}, LeaseTicks)
  /\ pc' = [pc EXCEPT ![w] = "claiming"]
  /\ UNCHANGED <<rows, current, handlerFailed, heartbeat, heartbeatDue, shutdown, dbErrors>>

\* Nothing to claim: the iteration returns False and the loop waits and polls again.
ClaimNothing(w) ==
  /\ pc[w] = "recovered"
  /\ Claimable = {}
  /\ pc' = [pc EXCEPT ![w] = "idle"]
  /\ UNCHANGED <<rows, locks, current, handlerFailed, heartbeat, heartbeatDue, shutdown, dbErrors>>

\* What the claim writes to row j.
WriteClaim(w, j) ==
  /\ status' = [status EXCEPT ![j] = "processing"]
  /\ attempts' = [attempts EXCEPT ![j] = @ + 1]
  /\ leaseOwner' = [leaseOwner EXCEPT ![j] = w]
  /\ leaseLeft' = [leaseLeft EXCEPT ![j] = pendingLeft[j]]
  /\ Release({Main(w)})
  /\ UNCHANGED enqueued

\* The claim commits; the heartbeat thread starts and the handler is called.
ClaimCommit(w) ==
  /\ pc[w] = "claiming"
  /\ \E j \in LockedRows(Main(w)) :
       WriteClaim(w, j) /\ current' = [current EXCEPT ![w] = j]
  /\ pc' = [pc EXCEPT ![w] = "handler"]
  /\ handlerFailed' = [handlerFailed EXCEPT ![w] = FALSE]
  /\ heartbeat' = [heartbeat EXCEPT ![w] = "waiting"]
  /\ heartbeatDue' = [heartbeatDue EXCEPT ![w] = HeartbeatTicks]
  /\ UNCHANGED <<shutdown, dbErrors>>

\* The claim commits but the acknowledgement is lost: run_forever sees a
\* database error, and the row is PROCESSING under an owner that runs nothing.
ClaimCommitUnacknowledged(w) ==
  /\ pc[w] = "claiming"
  /\ dbErrors < MaxDbErrors
  /\ dbErrors' = dbErrors + 1
  /\ \E j \in LockedRows(Main(w)) : WriteClaim(w, j)
  /\ pc' = [pc EXCEPT ![w] = "idle"]
  /\ UNCHANGED <<current, handlerFailed, heartbeat, heartbeatDue, shutdown>>

\* The handler returns or raises, and heartbeat_stop is set.
HandlerReturn(w) ==
  /\ pc[w] = "handler"
  /\ \E failed \in BOOLEAN : handlerFailed' = [handlerFailed EXCEPT ![w] = failed]
  /\ pc' = [pc EXCEPT ![w] = "join"]
  /\ UNCHANGED <<rows, locks, current, heartbeat, heartbeatDue, shutdown, dbErrors>>

\* heartbeat_thread.join(): a renewal in progress ends first.
JoinHeartbeat(w) ==
  /\ pc[w] = "join"
  /\ heartbeat[w] \in {"waiting", "ended"}
  /\ heartbeat' = [heartbeat EXCEPT ![w] = "none"]
  /\ heartbeatDue' = [heartbeatDue EXCEPT ![w] = 0]
  /\ pc' = [pc EXCEPT ![w] = "finish"]
  /\ UNCHANGED <<rows, locks, current, handlerFailed, shutdown, dbErrors>>

\* complete_job or fail_job takes the row lock (it waits for it) and checks.
FinishBegin(w) ==
  LET j == current[w]
  IN /\ pc[w] = "finish"
     /\ lockedBy[j] = NoTx
     /\ HoldsLease(w, j)
     /\ Acquire(Main(w), {j}, Expired)
     /\ pc' = [pc EXCEPT ![w] = "finishing"]
     /\ UNCHANGED <<rows, current, handlerFailed, heartbeat, heartbeatDue, shutdown, dbErrors>>

\* InvalidJobTransitionError or JobLeaseLostError: only logged.
FinishRefused(w) ==
  /\ pc[w] = "finish"
  /\ lockedBy[current[w]] = NoTx
  /\ ~HoldsLease(w, current[w])
  /\ pc' = [pc EXCEPT ![w] = "idle"]
  /\ current' = [current EXCEPT ![w] = NoJob]
  /\ UNCHANGED <<rows, locks, handlerFailed, heartbeat, heartbeatDue, shutdown, dbErrors>>

FinishCommit(w) ==
  /\ pc[w] = "finishing"
  /\ Settle(LockedRows(Main(w)), IF handlerFailed[w] THEN "failed" ELSE "completed")
  /\ Release({Main(w)})
  /\ pc' = [pc EXCEPT ![w] = "idle"]
  /\ current' = [current EXCEPT ![w] = NoJob]
  /\ UNCHANGED <<attempts, enqueued, handlerFailed, heartbeat, heartbeatDue, shutdown, dbErrors>>

\* SQLAlchemyError in a transaction of the main thread: rolled back, and
\* run_forever starts the next iteration.
MainDbError(w) ==
  /\ pc[w] \in {"recovering", "recovered", "claiming", "finish", "finishing"}
  /\ dbErrors < MaxDbErrors
  /\ dbErrors' = dbErrors + 1
  /\ Release({Main(w)})
  /\ pc' = [pc EXCEPT ![w] = "idle"]
  /\ current' = [current EXCEPT ![w] = NoJob]
  /\ UNCHANGED <<rows, handlerFailed, heartbeat, heartbeatDue, shutdown>>

-----------------------------------------------------------------------------
(* The heartbeat thread of _heartbeat_loop.                                *)

\* The wait times out.  heartbeat_stop may be set right after: one more renewal
\* can then begin while the main thread is already in join().
HeartbeatWake(w) ==
  /\ pc[w] = "handler"
  /\ heartbeat[w] = "waiting"
  /\ heartbeatDue[w] = 0
  /\ heartbeat' = [heartbeat EXCEPT ![w] = "awake"]
  /\ UNCHANGED <<rows, locks, pc, current, handlerFailed, heartbeatDue, shutdown, dbErrors>>

HeartbeatBegin(w) ==
  LET j == current[w]
  IN /\ heartbeat[w] = "awake"
     /\ lockedBy[j] = NoTx
     /\ HoldsLease(w, j)
     /\ Acquire(Heart(w), {j}, LeaseTicks)
     /\ heartbeat' = [heartbeat EXCEPT ![w] = "renewing"]
     /\ UNCHANGED <<rows, pc, current, handlerFailed, heartbeatDue, shutdown, dbErrors>>

\* Ownership is lost: the thread returns, the handler is not told.
HeartbeatRefused(w) ==
  /\ heartbeat[w] = "awake"
  /\ lockedBy[current[w]] = NoTx
  /\ ~HoldsLease(w, current[w])
  /\ heartbeat' = [heartbeat EXCEPT ![w] = "ended"]
  /\ UNCHANGED <<rows, locks, pc, current, handlerFailed, heartbeatDue, shutdown, dbErrors>>

HeartbeatCommit(w) ==
  /\ heartbeat[w] = "renewing"
  /\ leaseLeft' = [j \in Jobs |-> IF lockedBy[j] = Heart(w) THEN pendingLeft[j] ELSE leaseLeft[j]]
  /\ Release({Heart(w)})
  /\ heartbeat' = [heartbeat EXCEPT ![w] = "waiting"]
  /\ heartbeatDue' = [heartbeatDue EXCEPT ![w] = HeartbeatTicks]
  /\ UNCHANGED <<status, attempts, enqueued, leaseOwner, pc, current, handlerFailed,
                 shutdown, dbErrors>>

\* SQLAlchemyError in the renewal: rolled back and retried after the interval.
HeartbeatDbError(w) ==
  /\ heartbeat[w] \in {"awake", "renewing"}
  /\ dbErrors < MaxDbErrors
  /\ dbErrors' = dbErrors + 1
  /\ Release({Heart(w)})
  /\ heartbeat' = [heartbeat EXCEPT ![w] = "waiting"]
  /\ heartbeatDue' = [heartbeatDue EXCEPT ![w] = HeartbeatTicks]
  /\ UNCHANGED <<rows, pc, current, handlerFailed, shutdown>>

-----------------------------------------------------------------------------
(* The environment: time, signals, crashes.                                *)

TickDown(n, floor) == IF n > floor THEN n - 1 ELSE floor

Tick ==
  /\ leaseLeft' = [j \in Jobs |-> TickDown(leaseLeft[j], Expired)]
  /\ pendingLeft' = [j \in Jobs |-> TickDown(pendingLeft[j], Expired)]
  /\ heartbeatDue' = [w \in Workers |-> TickDown(heartbeatDue[w], 0)]
  /\ UNCHANGED <<status, attempts, enqueued, leaseOwner, lockedBy, pc, current,
                 handlerFailed, heartbeat, shutdown, dbErrors>>

\* SIGTERM: request_shutdown.
RequestShutdown(w) ==
  /\ w \in Transient \ shutdown
  /\ pc[w] \notin {"off", "stopped"}
  /\ shutdown' = shutdown \cup {w}
  /\ UNCHANGED <<rows, locks, pc, current, handlerFailed, heartbeat, heartbeatDue, dbErrors>>

\* run_forever sees the event at its loop head.
Stop(w) ==
  /\ pc[w] = "idle"
  /\ w \in shutdown
  /\ pc' = [pc EXCEPT ![w] = "stopped"]
  /\ UNCHANGED <<rows, locks, current, handlerFailed, heartbeat, heartbeatDue, shutdown, dbErrors>>

\* The process dies; PostgreSQL rolls back its open transactions.
Crash(w) ==
  /\ w \in Transient
  /\ pc[w] \notin {"off", "stopped"}
  /\ Release({Main(w), Heart(w)})
  /\ pc' = [pc EXCEPT ![w] = "stopped"]
  /\ current' = [current EXCEPT ![w] = NoJob]
  /\ heartbeat' = [heartbeat EXCEPT ![w] = "none"]
  /\ heartbeatDue' = [heartbeatDue EXCEPT ![w] = 0]
  /\ UNCHANGED <<rows, handlerFailed, shutdown, dbErrors>>

-----------------------------------------------------------------------------
MainStep(w) ==
  \/ Start(w)
  \/ RecoverBegin(w)
  \/ RecoverCommit(w)
  \/ ClaimBegin(w)
  \/ ClaimNothing(w)
  \/ ClaimCommit(w)
  \/ HandlerReturn(w)
  \/ JoinHeartbeat(w)
  \/ FinishBegin(w)
  \/ FinishRefused(w)
  \/ FinishCommit(w)
  \/ Stop(w)

HeartbeatStep(w) ==
  \/ HeartbeatWake(w)
  \/ HeartbeatBegin(w)
  \/ HeartbeatRefused(w)
  \/ HeartbeatCommit(w)

Fault(w) ==
  \/ ClaimCommitUnacknowledged(w)
  \/ MainDbError(w)
  \/ HeartbeatDbError(w)
  \/ RequestShutdown(w)
  \/ Crash(w)

Operation ==
  \/ \E j \in Jobs : Enqueue(j)
  \/ \E w \in Workers : MainStep(w) \/ HeartbeatStep(w) \/ Fault(w)

Next == Operation \/ Tick

\* Threads of a running process are scheduled, handlers return, time passes.
\* Nothing makes a job arrive, a fault happen or a signal be sent.
Fairness ==
  /\ \A w \in Workers : WF_vars(MainStep(w)) /\ WF_vars(HeartbeatStep(w))
  /\ WF_vars(Tick)

Spec == Init /\ [][Next]_vars /\ Fairness

-----------------------------------------------------------------------------
(* Properties.                                                             *)

\* One handler per job, ever: no two processes run the same job, and no row is
\* claimed twice, whatever leases expire and whatever recovery does
\* (recover_stale_jobs: "never requeue or replay them").
RunsOnce ==
  /\ \A v, w \in Workers : v # w /\ current[v] # NoJob => current[v] # current[w]
  /\ \A j \in Jobs : attempts[j] <= 1
  /\ \A w \in Workers : current[w] # NoJob => status[current[w]] \notin {"absent", "queued"}

\* Lease columns are NULL except on PROCESSING rows, and an owner that runs a
\* job runs the one it leases: while the row says PROCESSING under a lease, no
\* other process can be running its handler (_clear_lease, claim_next_job).
LeaseMatchesRunner ==
  \A j \in Jobs :
    /\ leaseOwner[j] # NoWorker => status[j] = "processing"
    /\ leaseOwner[j] = NoWorker => leaseLeft[j] = Expired
    /\ \A w \in Workers :
         current[w] = j /\ status[j] = "processing" => leaseOwner[j] = w

\* A decided row is never decided again nor changed: no late renewal, late
\* completion, recovery or claim writes a COMPLETED or FAILED row.
TerminalRowsFrozen ==
  [][\A j \in Jobs :
       status[j] \in Terminal =>
         UNCHANGED <<status[j], attempts[j], leaseOwner[j], leaseLeft[j]>>]_vars

\* COMPLETED means that the handler of this job returned normally in the process
\* that owned the lease and that nobody had declared the job failed before
\* (complete_job): a worker that lost its lease cannot complete the job.
CompletedByLeaseHolder ==
  [][\A j \in Jobs :
       status[j] # "completed" /\ status'[j] = "completed" =>
         \E w \in Workers :
           current[w] = j /\ ~handlerFailed[w] /\ leaseOwner[j] = w /\ status[j] = "processing"]_vars

\* Recovery takes a job away only from a lease that is over when the recovery
\* commits: the renewal that races it is kept out by the row lock
\* (stale_processing_for_update).
RecoversOnlyExpired ==
  [][\A j \in Jobs :
       status[j] = "processing" /\ status'[j] = "failed" =>
         \/ leaseLeft[j] = Expired
         \/ \E w \in Workers : current[w] = j /\ pc[w] = "finishing" /\ handlerFailed[w]]_vars

\* Every claimed job is decided, even when its worker dies, loses its lease or
\* cannot reach the database for the terminal update (run_iteration, recovery).
ProcessingEnds == \A j \in Jobs : status[j] = "processing" ~> status[j] \in Terminal

\* Every queued job with a registered handler is eventually claimed, skipped
\* locks and restarts notwithstanding.
QueuedIsClaimed == \A j \in HandledJobs : status[j] = "queued" ~> status[j] # "queued"
-----------------------------------------------------------------------------
(* The inductive invariant: what the row locks and the program counters say *)
(* about the rows while transactions are open.                             *)

Running == {"handler", "join", "finish", "finishing"}

\* Where the program counter of a process and its heartbeat thread can be together.
ProcessInv ==
  \A w \in Workers :
    /\ current[w] # NoJob <=> pc[w] \in Running
    /\ heartbeat[w] # "none" <=> pc[w] \in {"handler", "join"}

\* What a transaction of w that holds the lock of row j knows of it.
LockKnows(j, w) ==
  /\ lockedBy[j] = Main(w) =>
       \/ pc[w] = "recovering" /\ Stale(j)
       \/ pc[w] = "claiming" /\ status[j] = "queued" /\ j \in HandledJobs
       \/ pc[w] = "finishing" /\ current[w] = j /\ status[j] = "processing"
  /\ lockedBy[j] = Heart(w) =>
       heartbeat[w] = "renewing" /\ current[w] = j /\ status[j] = "processing"

\* As long as a row is locked, nothing changes what was checked when it was locked.
LockInv == \A j \in Jobs, w \in Workers : LockKnows(j, w)

\* attempt_count is 1 from the claim on.
AttemptInv == \A j \in Jobs : attempts[j] = IF status[j] \in {"absent", "queued"} THEN 0 ELSE 1

IInv == TypeOK /\ ProcessInv /\ LockInv /\ AttemptInv /\ RunsOnce /\ LeaseMatchesRunner
=============================================================================
