------------------------- MODULE JobQueueRefinement -------------------------
(***************************************************************************)
(* The queue of JobQueue implements the promise of JobLifecycle.           *)
(***************************************************************************)
EXTENDS JobQueue

\* The phase of a job is its status column, the claims are attempt_count.
Lifecycle == INSTANCE JobLifecycle WITH phase <- status, claims <- attempts

\* The whole queue, with its locks, leases, crashes and database errors, behaves
\* as the abstract life cycle: claimed at most once, decided exactly once,
\* and both eventually (jobs/service.py, jobs/runner.py).
ImplementsLifecycle == Lifecycle!Spec
=============================================================================
