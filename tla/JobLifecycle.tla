---------------------------- MODULE JobLifecycle ----------------------------
(***************************************************************************)
(* What the queue promises to the code that enqueues a job: it is claimed  *)
(* at most once, decided at most once, and, if a handler is registered for *)
(* it, both really happen.  Locks, leases, heartbeats and processes do not *)
(* appear here; JobQueue implements this module.                           *)
(***************************************************************************)
EXTENDS Naturals

CONSTANTS Jobs, HandledJobs, LegacyJobs

VARIABLES
  phase,   \* status of each job
  claims   \* how often it was handed to a worker

vars == <<phase, claims>>

Init ==
  \E legacy \in SUBSET LegacyJobs :
    /\ phase = [j \in Jobs |-> IF j \in legacy THEN "processing" ELSE "absent"]
    /\ claims = [j \in Jobs |-> IF j \in legacy THEN 1 ELSE 0]

Submit(j) ==
  /\ phase[j] = "absent"
  /\ phase' = [phase EXCEPT ![j] = "queued"]
  /\ UNCHANGED claims

Claim(j) ==
  /\ j \in HandledJobs
  /\ phase[j] = "queued"
  /\ phase' = [phase EXCEPT ![j] = "processing"]
  /\ claims' = [claims EXCEPT ![j] = @ + 1]

Complete(j) ==
  /\ phase[j] = "processing"
  /\ phase' = [phase EXCEPT ![j] = "completed"]
  /\ UNCHANGED claims

\* Recovery may fail several jobs in one transaction.
Fail(S) ==
  /\ S # {} /\ \A j \in S : phase[j] = "processing"
  /\ phase' = [j \in Jobs |-> IF j \in S THEN "failed" ELSE phase[j]]
  /\ UNCHANGED claims

Decide(j) == Complete(j) \/ \E S \in SUBSET Jobs : j \in S /\ Fail(S)

Next ==
  \/ \E j \in Jobs : Submit(j) \/ Claim(j) \/ Complete(j)
  \/ \E S \in SUBSET Jobs : Fail(S)

Spec ==
  /\ Init /\ [][Next]_vars
  /\ \A j \in Jobs : WF_vars(Claim(j)) /\ WF_vars(Decide(j))
=============================================================================
