---------------------------- MODULE AuditPipeline ----------------------------
(***************************************************************************)
(* From the submission of an audit to its terminal status: the API         *)
(* (backend/app/audit/service.py, backend/app/reevaluation/service.py),    *)
(* the job handler (backend/app/jobs/handlers/audit.py) and the stages of  *)
(* backend/app/audit/pipeline.py.                                          *)
(*                                                                         *)
(* The queue appears as JobLifecycle, which JobQueue implements: a worker   *)
(* that dies, or that only lost its lease, has its job failed by recovery  *)
(* at any moment, and in the second case its handler runs on.              *)
(*                                                                         *)
(* A step of a handler is one database transaction, with the audit row     *)
(* locked, or a read and the computation that follows it.  API calls are   *)
(* single transactions under the locks of the audit and its snapshot.      *)
(***************************************************************************)
EXTENDS Integers, FiniteSets

CONSTANTS
  Audits,      \* audit rows that may be created, numbered
  Jobs,        \* job rows that may be enqueued, numbered
  Snapshots,   \* finalized snapshots
  Profiles,    \* device profile versions
  Unresolved,  \* the outcome of an identification that selects no profile
  Packs,       \* Knowledge Pack versions that may be published
  Baseline,    \* the sealed pack of a profile, used when none is published
  None         \* SQL NULL, or a key that is not in version_refs

ASSUME RowsAssumption ==
  /\ Audits \subseteq Nat \ {0} /\ IsFiniteSet(Audits)
  /\ Jobs \subseteq Nat \ {0} /\ IsFiniteSet(Jobs)
  /\ None \notin Audits \cup Jobs \cup Snapshots \cup Profiles \cup Packs
ASSUME VersionsAssumption ==
  /\ Unresolved \notin Profiles
  /\ Baseline \notin Packs
  /\ None # Unresolved /\ None # Baseline
  /\ None \notin {"clean", "unknowns", "errors"}

VARIABLES
  \* the audits table
  status, stage,
  snapshotOf, revision, previous,   \* set by the insert
  resolution,                       \* profile_resolution
  pinProfile, pinPack, pinRules,    \* version_refs
  \* the rows computed for an audit: the pack they were computed with, or None
  facts, states,
  findings,                         \* worst verdict class of the findings
  \* other tables
  snapshotStatus,
  published,                        \* KnowledgePackVersionRecord
  phase, claims,                    \* the jobs table, as JobLifecycle
  jobAudit,                         \* jobs.audit_id
  \* the handler that runs job j
  at,                               \* where it is
  profile, pack, outcome            \* its locals

identity == <<snapshotOf, revision, previous>>
pins == <<pinProfile, pinPack, pinRules>>
outputs == <<facts, states, findings>>
row == <<status, stage, identity, resolution, pins, outputs>>
queue == <<phase, claims, jobAudit>>
locals == <<profile, pack, outcome>>
vars == <<status, stage, snapshotOf, revision, previous, resolution, pinProfile, pinPack, pinRules,
          facts, states, findings, snapshotStatus, published, phase, claims, jobAudit,
          at, profile, pack, outcome>>

Queue == INSTANCE JobLifecycle WITH HandledJobs <- Jobs, LegacyJobs <- {}

Completed == {"completed", "completed_with_unknowns", "completed_with_errors"}
Terminal == Completed \cup {"failed"}
Open == {"draft", "queued", "processing"}
Statuses == {"absent"} \cup Open \cup Terminal
Stages == {"identifying", "parsing", "interpreting", "resolving_state", "evaluating", "finalizing"}
VerdictClasses == {"clean", "unknowns", "errors"}
Working == {"start", "begin", "identify", "identified", "reject", "assess", "load", "pin_parsing", "parse",
            "facts", "pin_resolving", "states", "pin_rules", "findings", "finalize"}
Places == {"idle", "error", "return", "raised", "gone", "ended"} \cup Working

Existing == {a \in Audits : status[a] # "absent"}
OfSnapshot(s) == {a \in Existing : snapshotOf[a] = s}
FreshAudit(a) == a \notin Existing /\ \A b \in Audits : b < a => b \in Existing
FreshJob(j) == phase[j] = "absent" /\ \A k \in Jobs : k < j => phase[k] # "absent"

TypeOK ==
  /\ status \in [Audits -> Statuses]
  /\ stage \in [Audits -> Stages \cup {None}]
  /\ snapshotOf \in [Audits -> Snapshots \cup {None}]
  /\ revision \in [Audits -> Nat]
  /\ \A a \in Existing : revision[a] >= 1
  /\ previous \in [Audits -> Audits \cup {None}]
  /\ resolution \in [Audits -> Profiles \cup {Unresolved, None}]
  /\ pinProfile \in [Audits -> Profiles \cup {None}]
  /\ pinPack \in [Audits -> Packs \cup {Baseline, None}]
  /\ pinRules \in [Audits -> BOOLEAN]
  /\ facts \in [Audits -> Packs \cup {Baseline, None}]
  /\ states \in [Audits -> Packs \cup {Baseline, None}]
  /\ findings \in [Audits -> VerdictClasses \cup {None}]
  /\ snapshotStatus \in [Snapshots -> {"ready", "locked"}]
  /\ published \in SUBSET Packs
  /\ phase \in [Jobs -> {"absent", "queued", "processing", "completed", "failed"}]
  /\ claims \in [Jobs -> Nat]
  /\ jobAudit \in [Jobs -> Audits \cup {None}]
  /\ at \in [Jobs -> Places]
  /\ profile \in [Jobs -> Profiles \cup {Unresolved, None}]
  /\ pack \in [Jobs -> Packs \cup {Baseline, None}]
  /\ outcome \in [Jobs -> VerdictClasses \cup {None}]

\* Finalized snapshots, and no audit yet.
Init ==
  /\ status = [a \in Audits |-> "absent"]
  /\ stage = [a \in Audits |-> None]
  /\ snapshotOf = [a \in Audits |-> None]
  /\ revision = [a \in Audits |-> 0]
  /\ previous = [a \in Audits |-> None]
  /\ resolution = [a \in Audits |-> None]
  /\ pinProfile = [a \in Audits |-> None]
  /\ pinPack = [a \in Audits |-> None]
  /\ pinRules = [a \in Audits |-> FALSE]
  /\ facts = [a \in Audits |-> None]
  /\ states = [a \in Audits |-> None]
  /\ findings = [a \in Audits |-> None]
  /\ snapshotStatus = [s \in Snapshots |-> "ready"]
  /\ published = {}
  /\ Queue!Init
  /\ jobAudit = [j \in Jobs |-> None]
  /\ at = [j \in Jobs |-> "idle"]
  /\ profile = [j \in Jobs |-> None]
  /\ pack = [j \in Jobs |-> None]
  /\ outcome = [j \in Jobs |-> None]

-----------------------------------------------------------------------------
(* The API.                                                                *)

\* create_audit: revision 1 of a READY snapshot; the unique constraint on
\* (snapshot_id, revision_number) refuses a second one.
CreateAudit(a, s) ==
  /\ FreshAudit(a)
  /\ snapshotStatus[s] = "ready"
  /\ ~\E b \in OfSnapshot(s) : revision[b] = 1
  /\ status' = [status EXCEPT ![a] = "draft"]
  /\ snapshotOf' = [snapshotOf EXCEPT ![a] = s]
  /\ revision' = [revision EXCEPT ![a] = 1]
  /\ UNCHANGED <<stage, previous, resolution, pins, outputs, snapshotStatus, published, queue,
                 at, locals>>

\* enqueue_job in the caller's transaction.
Enqueue(j, a) ==
  /\ FreshJob(j)
  /\ Queue!Submit(j)
  /\ jobAudit' = [jobAudit EXCEPT ![j] = a]

\* The status of the audit is not checked again under its lock.
StartAuditResubmits(a, j) ==
  /\ a \in Existing
  /\ status' = [status EXCEPT ![a] = "queued"]
  /\ stage' = [stage EXCEPT ![a] = None]
  /\ snapshotStatus' = [snapshotStatus EXCEPT ![snapshotOf[a]] = "locked"]
  /\ Enqueue(j, a)
  /\ UNCHANGED <<identity, resolution, pins, outputs, published, at, locals>>

\* start_audit: a DRAFT audit of a READY snapshot is queued, and the snapshot
\* locked, together with the job.
StartAudit(a, j) ==
  /\ status[a] = "draft"
  /\ snapshotStatus[snapshotOf[a]] = "ready"
  /\ status' = [status EXCEPT ![a] = "queued"]
  /\ stage' = [stage EXCEPT ![a] = None]
  /\ snapshotStatus' = [snapshotStatus EXCEPT ![snapshotOf[a]] = "locked"]
  /\ Enqueue(j, a)
  /\ UNCHANGED <<identity, resolution, pins, outputs, published, at, locals>>

\* Open re-evaluations of a source with a target pack.
OpenReevaluations(source, target) ==
  {a \in Existing : previous[a] = source /\ pinPack[a] = target /\ status[a] \in Open}

\* The insert of a re-evaluation: the source's pins and resolution, the new pack.
InsertRevision(a, source, target, number) ==
  /\ FreshAudit(a)
  /\ status' = [status EXCEPT ![a] = "queued"]
  /\ snapshotOf' = [snapshotOf EXCEPT ![a] = snapshotOf[source]]
  /\ revision' = [revision EXCEPT ![a] = number]
  /\ previous' = [previous EXCEPT ![a] = source]
  /\ resolution' = [resolution EXCEPT ![a] = resolution[source]]
  /\ pinProfile' = [pinProfile EXCEPT ![a] = pinProfile[source]]
  /\ pinRules' = [pinRules EXCEPT ![a] = pinRules[source]]
  /\ pinPack' = [pinPack EXCEPT ![a] = target]
  /\ UNCHANGED <<stage, outputs, snapshotStatus, published, at, locals>>

LatestRevision(s) == CHOOSE n \in {revision[a] : a \in OfSnapshot(s)} :
                       \A a \in OfSnapshot(s) : revision[a] <= n

\* The next number is taken from the source, not from the snapshot.
StartReevaluationAfterSource(a, source, target, j) ==
  /\ status[source] \in Completed
  /\ target \in published \ {pinPack[source]}
  /\ OpenReevaluations(source, target) = {}
  /\ InsertRevision(a, source, target, revision[source] + 1)
  /\ Enqueue(j, a)

\* A request is not matched with one that is still open.
StartReevaluationTwice(a, source, target, j) ==
  /\ status[source] \in Completed
  /\ target \in published \ {pinPack[source]}
  /\ InsertRevision(a, source, target, LatestRevision(snapshotOf[source]) + 1)
  /\ Enqueue(j, a)

\* reevaluation.start: another pack for a completed audit.  The snapshot's lock
\* serializes revision numbers; an open request for the same pack is returned
\* and changes nothing.
StartReevaluation(a, source, target, j) ==
  /\ status[source] \in Completed
  /\ target \in published \ {pinPack[source]}
  /\ OpenReevaluations(source, target) = {}
  /\ InsertRevision(a, source, target, LatestRevision(snapshotOf[source]) + 1)
  /\ Enqueue(j, a)

\* publish_mapping, as far as audits see it: one more pack version.
PublishPack(p) ==
  /\ p \notin published
  /\ published' = published \cup {p}
  /\ UNCHANGED <<row, snapshotStatus, queue, at, locals>>

-----------------------------------------------------------------------------
(* The handler of job j, for the audit its row names.                      *)

AuditOf(j) == jobAudit[j]
IsReevaluation(a) == previous[a] # None
Goto(j, from, to) == at[j] = from /\ at' = [at EXCEPT ![j] = to]
Set(f, x, v) == [f EXCEPT ![x] = v]

\* The queue hands the job to a worker.
Claim(j) ==
  /\ Queue!Claim(j)
  /\ Goto(j, "idle", "start")
  /\ UNCHANGED <<row, snapshotStatus, published, jobAudit, locals>>

\* AuditJobHandler: nothing to do for an audit that is decided already.
HandlerStart(j) ==
  /\ at[j] = "start"
  /\ Goto(j, "start", IF status[AuditOf(j)] \in Terminal THEN "return" ELSE "begin")
  /\ UNCHANGED <<row, snapshotStatus, published, queue, locals>>

\* The pins of an earlier run are dropped.
BeginProcessingAfresh(j) ==
  LET a == AuditOf(j)
  IN /\ Goto(j, "begin", "identify")
     /\ status[a] \in {"queued", "processing"}
     /\ status' = Set(status, a, "processing")
     /\ stage' = Set(stage, a, "identifying")
     /\ pinPack' = Set(pinPack, a, None)
     /\ UNCHANGED <<identity, resolution, pinProfile, pinRules, outputs, snapshotStatus, published,
                    queue, locals>>

\* _begin_processing.
BeginProcessing(j) ==
  LET a == AuditOf(j)
  IN /\ Goto(j, "begin", "identify")
     /\ status[a] \in {"queued", "processing"}
     /\ status' = Set(status, a, "processing")
     /\ stage' = Set(stage, a, "identifying")
     /\ UNCHANGED <<identity, resolution, pins, outputs, snapshotStatus, published, queue, locals>>

\* resolve_audit_profile for an initial audit: what identifies the device is read
\* and let go again, and without a lock the files select a profile, or none.
IdentifyProfile(j) ==
  /\ Goto(j, "identify", "identified")
  /\ ~IsReevaluation(AuditOf(j))
  /\ \E p \in Profiles \cup {Unresolved} : profile' = Set(profile, j, p)
  /\ UNCHANGED <<row, snapshotStatus, published, queue, pack, outcome>>

\* The rows are locked again, and the audit keeps what was identified, if it does
\* not pin another profile.  The evidence of a locked snapshot is as it was.
PersistResolution(j) ==
  LET a == AuditOf(j)
  IN /\ Goto(j, "identified", IF profile[j] = Unresolved THEN "reject" ELSE "assess")
     /\ pinProfile[a] \in {None, profile[j]}
     /\ resolution' = Set(resolution, a, profile[j])
     /\ UNCHANGED <<status, stage, identity, pins, outputs, snapshotStatus, published, queue, locals>>

\* _pinned_resolution: a re-evaluation never identifies again.
ReuseProfile(j) ==
  /\ Goto(j, "identify", "assess")
  /\ IsReevaluation(AuditOf(j))
  /\ resolution[AuditOf(j)] \in Profiles
  /\ profile' = Set(profile, j, resolution[AuditOf(j)])
  /\ UNCHANGED <<row, snapshotStatus, published, queue, pack, outcome>>

\* The handler returns without deciding the audit.
RejectSilently(j) ==
  /\ Goto(j, "reject", "return")
  /\ UNCHANGED <<row, snapshotStatus, published, queue, locals>>

\* _finalize_failure for a device without a profile: the audit fails, and the
\* handler returns normally, or raises if the commit's answer is lost.
Reject(j) ==
  LET a == AuditOf(j)
  IN /\ \E to \in {"return", "error"} : Goto(j, "reject", to)
     /\ status[a] = "processing"
     /\ status' = Set(status, a, "failed")
     /\ stage' = Set(stage, a, "identifying")
     /\ UNCHANGED <<identity, resolution, pins, outputs, snapshotStatus, published, queue, locals>>

\* pin_assessment.  Which catalogs are pinned is not modelled; that it may raise is.
PinAssessment(j) ==
  /\ Goto(j, "assess", "load")
  /\ UNCHANGED <<row, snapshotStatus, published, queue, locals>>

\* _load_audit_pack: the pinned pack, or the one that is active now: a published
\* one if a single pack qualifies, the sealed baseline otherwise.
LoadPack(j) ==
  LET pinned == pinPack[AuditOf(j)]
  IN /\ Goto(j, "load", "pin_parsing")
     /\ \E p \in IF pinned = None THEN published \cup {Baseline} ELSE {pinned} :
          pack' = Set(pack, j, p)
     /\ UNCHANGED <<row, snapshotStatus, published, queue, profile, outcome>>

\* _pin_versions_and_set_stage: the versions in use are pinned, or are the pinned ones.
PinVersions(j, newStage) ==
  LET a == AuditOf(j)
  IN /\ status[a] = "processing"
     /\ resolution[a] = profile[j]
     /\ pinProfile[a] \in {None, profile[j]}
     /\ pinPack[a] \in {None, pack[j]}
     /\ pinProfile' = Set(pinProfile, a, profile[j])
     /\ pinPack' = Set(pinPack, a, pack[j])
     /\ stage' = Set(stage, a, newStage)
     /\ UNCHANGED <<status, identity, resolution, pinRules, outputs, snapshotStatus, published,
                    queue, locals>>

PinParsing(j) == Goto(j, "pin_parsing", "parse") /\ PinVersions(j, "parsing")

\* interpret_audit up to before_interpret: the evidence is read and parsed, then
\* the stage is set in a transaction of its own.
PinInterpreting(j) == Goto(j, "parse", "facts") /\ PinVersions(j, "interpreting")

\* A failed commit of the facts is taken for an audit without facts.
PersistFactsOrNothing(j) ==
  LET a == AuditOf(j)
  IN /\ Goto(j, "facts", "pin_resolving")
     /\ facts' \in {facts, Set(facts, a, pack[j])}
     /\ UNCHANGED <<status, stage, identity, resolution, pins, states, findings, snapshotStatus,
                    published, queue, locals>>

\* interpret_audit's last transaction: under the audit's lock, resolution and
\* pins must be what the interpretation used.
PersistFacts(j) ==
  LET a == AuditOf(j)
  IN /\ Goto(j, "facts", "pin_resolving")
     /\ resolution[a] = profile[j]
     /\ pinProfile[a] \in {None, profile[j]}
     /\ pinPack[a] \in {None, pack[j]}
     /\ facts' = Set(facts, a, pack[j])
     /\ UNCHANGED <<status, stage, identity, resolution, pins, states, findings, snapshotStatus,
                    published, queue, locals>>

PinResolving(j) == Goto(j, "pin_resolving", "states") /\ PinVersions(j, "resolving_state")

\* resolve_audit_effective_states: facts of the pinned pack only.
ResolveStates(j) ==
  LET a == AuditOf(j)
  IN /\ Goto(j, "states", "pin_rules")
     /\ resolution[a] \in Profiles /\ pinProfile[a] = resolution[a] /\ pinPack[a] # None
     /\ facts[a] \in {None, pinPack[a]}
     /\ states' = Set(states, a, facts[a])
     /\ UNCHANGED <<status, stage, identity, resolution, pins, facts, findings, snapshotStatus,
                    published, queue, locals>>

\* _pin_compliance_versions_and_set_stage.
PinRules(j) ==
  LET a == AuditOf(j)
  IN /\ Goto(j, "pin_rules", "findings")
     /\ status[a] = "processing"
     /\ pinRules' = Set(pinRules, a, TRUE)
     /\ stage' = Set(stage, a, "evaluating")
     /\ UNCHANGED <<status, identity, resolution, pinProfile, pinPack, outputs, snapshotStatus,
                    published, queue, locals>>

\* persist_audit_findings and persist_assessment_results in one transaction; the
\* findings stay in memory for the finalization.
PersistFindings(j) ==
  LET a == AuditOf(j)
  IN /\ Goto(j, "findings", "finalize")
     /\ status[a] = "processing"
     /\ pinRules[a]
     /\ \E verdicts \in VerdictClasses :
          /\ findings' = Set(findings, a, verdicts)
          /\ outcome' = Set(outcome, j, verdicts)
     /\ UNCHANGED <<status, stage, identity, resolution, pins, facts, states, snapshotStatus,
                    published, queue, profile, pack>>

\* _finalize's choice: PROCESS_ERROR before UNKNOWN and MANUAL_REVIEW.
TerminalStatus(verdicts) ==
  CASE verdicts = "errors"   -> "completed_with_errors"
    [] verdicts = "unknowns" -> "completed_with_unknowns"
    [] verdicts = "clean"    -> "completed"

\* _finalize.  An audit whose commit is not acknowledged is decided, and the
\* handler goes on as if it were not.
Finalize(j) ==
  LET a == AuditOf(j)
  IN /\ \E to \in {"return", "error"} : Goto(j, "finalize", to)
     /\ status[a] = "processing"
     /\ status' = Set(status, a, TerminalStatus(outcome[j]))
     /\ stage' = Set(stage, a, "finalizing")
     /\ UNCHANGED <<identity, resolution, pins, outputs, snapshotStatus, published, queue, locals>>

\* Any step may raise: a refused guard, the database, the evidence.  Workflow
\* errors are caught; others leave the handler at once.  At the next place this is
\* also a commit that was done and not acknowledged.
Raise(j) ==
  /\ at[j] \in Working
  /\ \E where \in {"error", "raised"} : at' = Set(at, j, where)
  /\ UNCHANGED <<row, snapshotStatus, published, queue, locals>>

\* The failure is recorded, and the handler returns.
MarkFailedQuietly(j) ==
  LET a == AuditOf(j)
  IN /\ Goto(j, "error", "return")
     /\ status' \in {status} \cup {Set(status, x, "failed") : x \in {y \in {a} : status[y] = "processing"}}
     /\ UNCHANGED <<stage, identity, resolution, pins, outputs, snapshotStatus, published, queue, locals>>

\* The failure is written whatever the audit has become.
MarkFailedAnyStatus(j) ==
  LET a == AuditOf(j)
  IN /\ Goto(j, "error", "raised")
     /\ status' \in {status, Set(status, a, "failed")}
     /\ UNCHANGED <<stage, identity, resolution, pins, outputs, snapshotStatus, published, queue, locals>>

\* mark_failed, then JobError.  An audit that is not PROCESSING keeps its status,
\* and so does one whose update fails: both errors are swallowed.
MarkFailed(j) ==
  LET a == AuditOf(j)
  IN /\ Goto(j, "error", "raised")
     /\ \/ UNCHANGED status
        \/ status[a] = "processing" /\ status' = Set(status, a, "failed")
     /\ UNCHANGED <<stage, identity, resolution, pins, outputs, snapshotStatus, published, queue, locals>>

-----------------------------------------------------------------------------
(* The worker around the handler.                                          *)

\* The terminal update of the job, refused if recovery was faster.
Finish(j) ==
  /\ at[j] \in {"return", "raised"}
  /\ at' = Set(at, j, "ended")
  /\ \/ phase[j] = "processing" /\ at[j] = "return" /\ Queue!Complete(j)
     \/ phase[j] = "processing" /\ at[j] = "raised" /\ Queue!Fail({j})
     \/ phase[j] # "processing" /\ UNCHANGED <<phase, claims>>
  /\ UNCHANGED <<row, snapshotStatus, published, jobAudit, locals>>

\* The worker dies, or cannot write the terminal update.
Crash(j) ==
  /\ at[j] \in Places \ {"idle", "gone", "ended"}
  /\ at' = Set(at, j, "gone")
  /\ UNCHANGED <<row, snapshotStatus, published, queue, locals>>

\* recover_stale_jobs: the lease is over, whether the handler still runs or not.
Recover(j) ==
  /\ Queue!Fail({j})
  /\ UNCHANGED <<row, snapshotStatus, published, jobAudit, at, locals>>

-----------------------------------------------------------------------------
Request ==
  \/ \E a \in Audits, s \in Snapshots : CreateAudit(a, s)
  \/ \E a \in Audits, j \in Jobs : StartAudit(a, j)
  \/ \E a, source \in Audits, target \in Packs, j \in Jobs : StartReevaluation(a, source, target, j)
  \/ \E p \in Packs : PublishPack(p)

HandlerStep(j) ==
  \/ HandlerStart(j)
  \/ BeginProcessing(j)
  \/ IdentifyProfile(j)
  \/ PersistResolution(j)
  \/ ReuseProfile(j)
  \/ Reject(j)
  \/ PinAssessment(j)
  \/ LoadPack(j)
  \/ PinParsing(j)
  \/ PinInterpreting(j)
  \/ PersistFacts(j)
  \/ PinResolving(j)
  \/ ResolveStates(j)
  \/ PinRules(j)
  \/ PersistFindings(j)
  \/ Finalize(j)
  \/ Raise(j)
  \/ MarkFailed(j)
  \/ Finish(j)

Next == Request \/ \E j \in Jobs : Claim(j) \/ HandlerStep(j) \/ Crash(j) \/ Recover(j)

\* What the queue promises (JobLifecycle!Spec: claims happen, jobs are decided)
\* and a handler thread that is scheduled.  A live handler need not be recovered.
Fairness ==
  \A j \in Jobs :
    /\ WF_vars(Claim(j))
    /\ WF_vars(HandlerStep(j))
    /\ WF_vars(at[j] = "gone" /\ Recover(j))

Spec == Init /\ [][Next]_vars /\ Fairness

-----------------------------------------------------------------------------
(* Properties.                                                             *)

\* A completed audit has everything its stages compute, all of it computed with
\* the versions it pins, whatever steps failed, crashed or were published meanwhile;
\* and it is plainly COMPLETED only if no verdict is UNKNOWN or an error
\* (AuditPipelineCoordinator.run).
CompletedIsWhole ==
  \A a \in Audits : status[a] \in Completed =>
    /\ resolution[a] \in Profiles /\ pinProfile[a] = resolution[a]
    /\ pinPack[a] # None /\ facts[a] = pinPack[a] /\ states[a] = pinPack[a]
    /\ pinRules[a] /\ findings[a] # None
    /\ status[a] = "completed" <=> findings[a] = "clean"

\* Revisions of a snapshot are numbered without gaps or repetitions, only the first
\* is not a re-evaluation, and a re-evaluation repeats a completed one of the
\* same snapshot with the same profile (reevaluation.start).
RevisionChain ==
  \A s \in Snapshots :
    /\ {revision[a] : a \in OfSnapshot(s)} = 1 .. Cardinality(OfSnapshot(s))
    /\ \A a \in OfSnapshot(s) :
         /\ revision[a] = 1 <=> previous[a] = None
         /\ previous[a] # None =>
              LET source == previous[a]
              IN /\ source \in OfSnapshot(s) /\ status[source] \in Completed
                 /\ revision[source] < revision[a]
                 /\ pinProfile[a] = pinProfile[source] /\ pinPack[a] # pinPack[source]

\* The same re-evaluation is never open twice, however often it is requested.
OneOpenReevaluation ==
  \A source \in Audits, target \in Packs : Cardinality(OpenReevaluations(source, target)) <= 1

\* A job that says COMPLETED leaves a decided audit: nothing waits for a worker
\* that believes it has finished (AuditJobHandler).
CompletedJobDecidesAudit ==
  \A j \in Jobs : phase[j] = "completed" => status[jobAudit[j]] \in Terminal

\* Historical audits are never rewritten: no handler that outlives its lease or does
\* not learn that its last commit was done (mark_failed), no second submission and no
\* re-evaluation touches a decided audit or its results.
DecidedAuditsFrozen ==
  [][\A a \in Audits : status[a] \in Terminal =>
       UNCHANGED <<status[a], stage[a], snapshotOf[a], revision[a], previous[a], resolution[a],
                   pinProfile[a], pinPack[a], pinRules[a], facts[a], states[a], findings[a]>>]_vars

\* A version that is pinned is never replaced by another
\* (_pin_versions_and_set_stage, _pin_compliance_versions_and_set_stage).
PinsNeverChange ==
  [][\A a \in Existing :
       /\ pinProfile[a] # None => pinProfile'[a] = pinProfile[a]
       /\ pinPack[a] # None => pinPack'[a] = pinPack[a]
       /\ pinRules[a] => pinRules'[a]]_vars

\* A submitted audit is decided, or its job says FAILED: an audit that is stuck is
\* always visible in the jobs table.  Both outcomes are final, so that a moment at
\* which all submitted audits have one, again and again, is one for each of them.
SubmittedAuditEnds ==
  []<>(\A a \in Audits : status[a] \in {"queued", "processing"} =>
         \E j \in Jobs : jobAudit[j] = a /\ phase[j] = "failed")
=============================================================================
