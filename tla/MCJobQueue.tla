----------------------------- MODULE MCJobQueue -----------------------------
(***************************************************************************)
(* Small instances of JobQueue for TLC, and the environment in which the   *)
(* heartbeat keeps its promise.                                            *)
(***************************************************************************)
EXTENDS JobQueue

\* The database refuses so few transactions that a lease outlasts the renewals
\* lost to them: each is retried one interval later (_heartbeat_loop).
ASSUME ToleranceAssumption == (MaxDbErrors + 1) * HeartbeatTicks < LeaseTicks

\* Threads run promptly: time does not pass while a transaction is open, while
\* a renewal is due, or between the return of a handler and its terminal update.
Prompt ==
  /\ \A j \in Jobs : lockedBy[j] = NoTx
  /\ \A w \in Workers :
       /\ heartbeat[w] = "waiting" => heartbeatDue[w] > 0
       /\ heartbeat[w] # "awake"
       /\ pc[w] \notin {"join", "finish"}

PromptNext == Operation \/ (Prompt /\ Tick)
PromptSpec == Init /\ [][PromptNext]_vars

\* A running handler never loses its lease while its process lives and runs
\* promptly (_heartbeat_loop, and the interval check in WorkerRuntime.__init__):
\* its terminal update is then never refused.
LiveRunnerKeepsLease ==
  \A w \in Workers : pc[w] \in {"handler", "join", "finish"} => HoldsLease(w, current[w])
=============================================================================
