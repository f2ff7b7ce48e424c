# A specification of the security configuration auditor

The auditor takes configuration files of network devices, identifies the device
profile, reads the configuration into facts, resolves the facts into effective
states, evaluates rules, and reports findings. An API process writes to PostgreSQL
and to a file store; worker processes run queued jobs. This directory
specifies the backend (`src/backend/app`): how work and evidence survive concurrency
and failure, and how the text of a configuration becomes a verdict.

The reference is the code. Documents and comments are cited where a run shows that
the code does something else.

## 1. Inventory

| Component | State it keeps | Operations | What makes it correct |
|---|---|---|---|
| Job queue, worker (`jobs/`, `worker/main.py`) | `jobs` rows: status, attempts, lease owner and expiry | enqueue, claim, heartbeat, complete, fail, recover; worker loop and heartbeat thread | a job runs once; a decided row stays; recovery takes only what has expired; every job ends |
| Audit workflow (`audit/`, `reevaluation/`, `jobs/handlers/audit.py`) | `audits` rows: status, stage, pins, profile resolution, revision chain | create, start, re-evaluate; about a dozen transactions of the pipeline; mark failed | completed audits are whole, computed with what they pin, and never change again |
| Ingestion (`ingestion/`) | file store, `artifacts` rows | write, link, commit, refresh, compensate | no partial file is published; an answered upload is kept |
| Snapshots (`snapshots/`) | `snapshots` rows: status, count, hash; membership | create, add, remove, finalize, lock on submission | count and hash describe the members; finalized evidence is frozen |
| Training (`training/`) | mapping versions, validation runs, pack versions, review blocks | create, update, validate, approve, reject, publish | what is published was validated as it is; packs are consistent and immutable |
| Parsing (`parsing/`) | none: text to a tree of lines | readers for indentation, FortiOS, XML, JSON | a statement has the context that the device gives it |
| Interpretation (`interpretation/`, `training/dsl.py`) | `security_facts`, `unresolved_blocks` | match statements with mappings, extract a value and a scope, report what nothing understands | a fact says what its lines say; nothing is dropped in silence |
| Effective state (`effective_state/`) | `effective_states` | classify, partition, order, resolve | a value is reported only if nothing opposes it |
| Profile resolution (`profile_resolution/`) | `profile_resolution` of an audit, published manifests | collect signals, score, decide | one profile, or a conflict that is reported |
| Compliance, assessment (`compliance/`, `assessment_packs/`) | findings, assessment pins and results | evaluate rules and obligations | UNKNOWN never becomes PASS |
| Reporting (`reporting/`, `jobs/handlers/pdf_generation.py`) | `reports` rows, PDF files | create, generate, fail, download | a READY report can be downloaded and stays; every report is decided |
| Remediation, findings, dashboard, devices | device rows | read and preview; create and update devices | |
| Authentication, command line, API, frontend | users | request checks, administrative transactions | |

How they interact. API requests and workers share only the database and the file
store. A request that starts work inserts a job in its own transaction; the worker
claims it and calls the handler, which opens sessions of its own. The queue tells
the handler nothing: if recovery has failed the job, the handler goes on. Audits
read artifacts through snapshots and lock the snapshot when they are submitted.
Publication by the training service changes which Knowledge Pack the next audit
uses, and what a re-evaluation can be asked for. The pipeline calls profile
resolution, interpretation, effective states, compliance and assessment in this
order and keeps their versions in the audit's `version_refs`.

What is hard to test here:

- two workers, or a worker and its own heartbeat thread, in any order over one row;
- a lease that expires while its handler runs, and the handler's later steps;
- transactions that commit without an acknowledgement, and steps that fail after
  earlier ones were committed;
- evidence split between a file system and a table;
- a definition that changes between its validation, its approval and its publication;
- configuration statements that overlap, repeat, reset or contradict each other,
  within a file and between files;
- a document of which each stage understands a part: lines without their block,
  statements that two mappings read differently, identity in places where text may
  say anything; and what an organization publishes between two stages.

`PROJECT.json` lists the places (`hazards`), the properties that cover each of them,
and those that no property covers yet.

## 2. Modules

| Module | Models | Lines of it |
|---|---|---|
| `JobQueue` | queue, worker loop, heartbeat thread, time, faults | `jobs/service.py`, `jobs/repository.py`, `jobs/runner.py` |
| `JobLifecycle` | what the queue promises to those who enqueue | (abstract) |
| `JobQueueRefinement` | `JobQueue` implements `JobLifecycle` | |
| `AuditPipeline` | audit API, handler, pipeline stages; uses `JobLifecycle` as its queue | `audit/`, `reevaluation/service.py`, `jobs/handlers/audit.py` |
| `EvidenceStore` | uploads and snapshots | `ingestion/`, `snapshots/service.py` |
| `MappingTraining` | mapping versions, validation runs, packs | `training/service.py` |
| `ReportGeneration` | reports and their files; uses `JobLifecycle` as its queue | `reporting/`, `jobs/handlers/pdf_generation.py`, `api/v1/reports.py` |
| `ConfigurationReader` | lines and trees to nodes | `parsing/` |
| `ProfileResolution` | evidence to a device profile | `profile_resolution/` |
| `KnowledgePacks` | fields, sealed mappings of four vendors | `security_model/fields.py`, `knowledge_packs/` |
| `Interpretation` | nodes to facts, doubts and unresolved blocks | `interpretation/`, `training/dsl.py` |
| `EffectiveStates` | the facts of one field to its states | `effective_state/resolver.py` |
| `EffectiveStateResolver` | two fields in every arrangement of statements | as above, and `interpretation/service.py` |
| `ComplianceVerdicts` | states and blocks to findings; runtime rules | `compliance/` |
| `AssessmentPacks` | catalogs, pins, answers to obligations | `assessment_packs/` |
| `ConfigurationAudit` | the stages of an audit with their content, and publications between them | `audit/pipeline.py` and all of the above |
| `MC...` | model values, documents, one restricted environment | |
| `...Proofs` | theorems about the module of that name (section 5) | |

How they fit together: `JobQueue` implements `JobLifecycle`; `AuditPipeline`
INSTANTIATEs `JobLifecycle` and uses its actions `Submit`, `Claim`, `Complete` and
`Fail`, so an audit sees every behaviour of the queue, including a job that
is failed while its handler runs, without the locks and clocks below it.
`ReportGeneration` does the same for the other kind of job.
`EvidenceStore` ends where `AuditPipeline` begins, with a snapshot that `start_audit`
locks; `MappingTraining` ends with a published pack, the action `PublishPack` there.
`ConfigurationAudit` and `AuditPipeline` are two views of one pipeline: the second has
transactions, retries and crashes and leaves every decision open, the first makes the
decisions and lets each stage happen once. The modules below `ConfigurationAudit` are
operators only and extend each other in the order of the stages.

Definitions named as plausible bugs or mutants stand before the definition they
resemble. No action uses them. Each property of a passing run is violated when one
of them takes the place of its original.

### JobQueue

`status`, `attempts`, `leaseOwner`, `leaseLeft` are columns of `jobs`. A transaction
is two actions, named `...Begin` and `...Commit`: the first takes the row locks and
makes the checks, the second writes. `lockedBy` holds PostgreSQL's row locks; a
claim and recovery skip locked rows, a renewal and a terminal update wait for them.
`leaseLeft` is `lease_expires_at` in ticks from now, `pendingLeft` the expiry that an
open transaction has computed and not yet committed, which ages too. At 0 the lease
expires exactly now: the owner may no longer act (`<=`), recovery may not yet (`<`).

`pc` follows `run_forever` and `run_iteration`; `heartbeat` the thread of
`_heartbeat_loop`, which may begin one more renewal after the handler has returned
and is joined before the terminal update. Faults: a process dies and its
transactions roll back; the database refuses a call; a claim is committed but not
acknowledged; SIGTERM. A restarted process has a new lease owner and is therefore
another element of `Workers`. Initially there may be PROCESSING rows without lease,
which older versions wrote.

### AuditPipeline

Each action of a handler is one transaction of `AuditPipelineCoordinator`, `at[j]` is
its place in `run`. Profile resolution is two actions, because it lets its locks go while it
reads files (`IdentifyProfile`) and then looks at the pin again (`PersistResolution`). Any
step may raise (`Raise`): errors of the four listed families
go through `MarkFailed`, whose own failure is swallowed, others leave at once. Raising at the
place behind a transaction is also the loss of the acknowledgement of its commit; `Finalize`
and `Reject` may lose theirs, and `MarkFailed` then meets a decided audit. `Crash`
removes the handler, `Recover` fails the job at any moment while it is PROCESSING:
when it comes before the end of a living handler, the lease was lost, and the handler
takes all its remaining steps. `pinProfile`, `pinPack` and `pinRules` are the
`version_refs`; facts and states carry the pack they were computed with; of the
findings the worst verdict class is kept. The choice of a profile, of an active pack
and of verdicts is open, because other components make it.

### EvidenceStore

`temporary` and `target` are the two names in the file system, each absent, partial
or whole; they are written, synced, linked and unlinked by separate actions, and a
crash (`Abort`) leaves them as they are. Requests on snapshots lock the snapshot,
then artifacts, and commit, in the order of the code. The hash of a snapshot is the
bag of content hashes of its members, which is what sorting and digesting them
keeps.

### MappingTraining

A definition is what two definitions are compared by (`match`, for collisions) and
the set of profiles that determines the pack. `publish_mapping` is three steps, since
the pack's row may be absent, locked or being inserted; `execute_validation` is two,
since it reads published mappings that it does not lock, and its job may run late. Its commit
writes the record of the validation into the mapping's row, which a trigger of the database
refuses for published and superseded rows (`RecordAccepted`); the validation is then rolled
back and its run stays PENDING (`ExecuteAbort`).

### EffectiveStateResolver

Statements arrive line by line in the files of a snapshot: in VTY blocks with any
range, or outside. A fact keeps the line of its statement and the line that opens
its block, because the interpreter records both as evidence. Facts that the resolver
gets are therefore facts that a file can produce. The idle timeout stands for scalar
fields with VTY scopes, logging hosts for collections. `Resolve` is
`resolve_audit_effective_states` in one step.

### ReportGeneration

`status` and `recorded` are the row, `temporary` and `published` the two names of the
PDF in the file system. `at` follows `handle_pdf_generation`: the payload is read
outside its `try`, two transactions follow, and `fail_report` has a third. Each
may raise, the second also after the file was linked; a commit may be done without
its acknowledgement (`AcknowledgementLost`); the lease may expire at any moment
(`LeaseExpires`) and the process die (`Crash`).

### ConfigurationAudit and the modules below it

A document is a sequence of lines, each with its indentation, a flaw, its words and
what the patterns of profile resolution would find in it. Words are opaque, except for
a few that the code takes apart (`Pieces`); numbers, endpoints and networks have their
meaning from functions given by the `MC` module. For XML and JSON a line is a node
of the tree.

- `ConfigurationReader` reads lines one by one (recursive functions over line numbers), with
  a builder that holds the stack of nodes that may still be parents, or with the section
  FortiOS is in. A node is its number in document order, the stack and the context of a
  node are sets of numbers, whose top or parent is the largest.
- `ProfileResolution` puts documents in order, cuts them at the budget, collects the
  identities each of them claims and decides: conflict, unsupported, one built-in
  profile, a runtime profile, or a generic one if nothing identifies the device.
- `Interpretation` gives, per document, facts, *doubts* (diagnostics about the field of a
  mapping that is about a node and does not understand it) and blocks for nodes
  without a fact, with the fields and rules they may affect.
- `EffectiveStates`, `ComplianceVerdicts` and `AssessmentPacks` give states, findings and
  answers. A finding is UNKNOWN if a block may affect its rule.
- `ConfigurationAudit` has an action per stage and one per publication (profile, mapping,
  rule, catalog, imported catalog). Each stage uses what is published when it starts.

## 3. Runs

| Run | Question | Instance | Why it is enough |
|---|---|---|---|
| `queue` | Do two workers ever run one job, or change a decided row; is each job claimed and decided; does the queue implement `JobLifecycle`? | 2 jobs (one may be a legacy row), one worker that stays and one that may die or stop, lease 2 ticks, heartbeat 1, 1 database error, recovery of 1 row at a time | two processes are needed for each race, a third would repeat them; the survivor must clean up after the other; two ticks separate a fresh, an expiring and an expired lease; the second job shows that a worker goes on, and that a full recovery batch leaves a row. The theorems cover the rest |
| `queue_prompt` | Does a living handler keep its lease? | 3 jobs, the oldest without handler; lease 5, heartbeat 2, 1 database error, time passes only when threads are not late | one renewal may fail and the next one is just in time: with a lease of 4 it would be lost. The theorem covers the rest |
| `audit` | Are decided audits whole and frozen, pins fixed, revisions a chain? | 3 audits, 3 jobs, 1 snapshot, 1 profile or none, 1 pack and the baseline | a source, its re-evaluation, and a further request that races or fails; with one pack each pin has two possible values |
| `report` | Are READY reports whole and final, and all reports decided? | 2 reports, 2 workers | a report has one handler, so that the second report only shows that workers go on |
| `evidence` | Are uploads all or nothing, snapshots coherent, requests answered? | 2 requests, 2 artifacts of which one exists, 2 contents, 2 snapshots | two requests are needed for each race; artifacts of equal content distinguish a bag from a set; two snapshots may want one artifact |
| `evidence_compensation` | Are the bytes of a persisted artifact kept? (no) | 1 artifact | |
| `training` | Is what is published what was validated; are packs consistent; do publications end? | 2 versions, 2 mappings, 3 runs, 2 packs | two versions meet in one pack or go to different ones, as one mapping or as two; three runs overlap in every order |
| `effective_state` | Do states mean what the statements say? | 2 files, VTY lines 0 to 3, 2 timeouts, 2 hosts, 3 statements | three ranges overlap in every way, adjacent ones included; three statements give agreement, conflict and reset in one file and across two |
| `effective_state_order` | Does the last statement about a scope decide? (no) | 1 file, 2 statements | |
| `configuration` | Does anything pass that was not read, in its block, under an identity that nothing opposes? | every text of 3 lines (FortiOS, Junos 4) over a vocabulary of 8 to 13 lines per vendor, 2 files of identity evidence, a customer's profile with 2 mappings, 2 rules and 3 catalogs, its token in a banner once; 6 nodes, depth 2, blocks of 3 lines | one line opens a block, one is in it and one disturbs it (comment, dedent, removal, second block); 6 nodes and the lower limits are reached; two publications of each kind race the stages |
| `configuration_unknown` | Does a doubt about a field last until the verdict, when the doubted statement removed the last server? (no) | 2 lines about one server, in every order | |
| `configuration_banner` | Does an audit resolve to what it would if its banners were empty? (no) | 1 banner with the token and version of a customer's profile | |

Bounds are constants (`MaxDbErrors`, `RecoveryLimit`, `MaxStatements`) or the size of a
set of rows. The limits of the readers (`MaxNodes`, `MaxDepth`, `MaxBlockLines`,
`MaxTreeDepth`, `MaxArtifacts`, `MaxArtifactLines`, `MaxSnapshotLines`,
`MaxInspectedLines`, `HeadLines`, `MaxControls`) are limits of the code, made small;
one bound is written in an action, that a catalog is imported twice at most
(`ImportCatalog`). `CHECK_DEADLOCK FALSE` is given where the system may come to rest: all
rows decided, all requests answered, all statements resolved, an audit finished. The queue never rests,
because its clock goes on, and deadlock is checked there.

### What the runs show

Queue. `RunsOnce`: one handler per job, ever. `LeaseMatchesRunner`: lease columns name
the only process that can be running the job. `TerminalRowsFrozen`,
`CompletedByLeaseHolder`, `RecoversOnlyExpired`: no late renewal, completion or recovery
overtakes a decision. `LiveRunnerKeepsLease`: with prompt threads, and as long as the lease
outlasts the renewals that the database refuses (`ToleranceAssumption`; with the default
60 and 15 seconds, two of them), a handler never loses its lease; otherwise it may, and then
the other properties still hold. `ProcessingEnds`, `QueuedIsClaimed`, `ImplementsLifecycle`.

Audit. `CompletedIsWhole`, `RevisionChain`,
`OneOpenReevaluation`, `CompletedJobDecidesAudit`, `DecidedAuditsFrozen`,
`PinsNeverChange`. `DecidedAuditsFrozen` includes a handler that does not learn that its own
last commit was done. `SubmittedAuditEnds` says that a submitted audit is decided *or its
job is FAILED*. The second case is real: when a worker dies, recovery decides the job
and nobody decides the audit, which stays QUEUED or PROCESSING; `database/README.md`
names manual recovery for it. Both outcomes are final and audits are finitely many, so that
it is stated for all audits at once: again and again all submitted audits have one of the two.

Evidence. `AnsweredUploadKept`, `SnapshotCoherent`, `FinalizedEvidenceFrozen`,
`RequestsEnd`.

Reports. `ReadyReportIsServed`: a READY report passes the checks of its download.
`DecidedReportFrozen`: not even its own handler, when it takes its success for a
failure, takes a report back. `CompletedJobMeansReady`. `ReportsAreDecided` has an
exception that is real: a report whose handler died, could not read its job, or could
not record its failure stays PENDING or GENERATING for ever, because recovery decides
the job only. What also may remain is a PDF that no row refers to.

Training. `PublishedIsValidated`, `PackHoldsOneVersion`, `OnePublishedVersion`,
`PublicationIsFinal`, `PublicationEnds`. `PublicationIsFinal` includes the record of the
validation that a publication rests on: `execute_validation` does not look at the mapping's
status, and it is the trigger that keeps a late one from writing it. `OnePublishedVersion` is stated for versions
whose profiles, and therefore packs, are the same; the pack's row is what serializes
them.

Effective states. `OneStatePerVtyLine`, `ResolvedMeansUnopposed`, `ConflictIsReal`,
`CollectionHoldsMembers`. `OneStatePerVtyLine` excepts fields with a device-wide
statement, for which the resolver does not partition ranges.

Configurations. `PassCoversEvidence`: if a rule passes, every line of every document
that was read is in a node, and every node was understood, states identity alone, or is
doubted about other fields only. `ScopeIsEnclosingBlock`: a fact about a block comes
from a line of that block, however the lines are indented and commented, and whatever
banners stand in it.
`ResolvedIdentityIsUnopposed`: whatever explicit evidence of identity there is, in whatever
order; models, syntax and the tokens of published profiles are not evidence in it.
`BannersClaimNothing`: no explicit identity, model or syntax category is read from
a line that the parser takes for the text of a banner, wherever a delimiter is
given and stands alone. It does not speak of the search for published profiles and for names of
platforms, which is a search in the whole text (`BannersInstructNothing`, below).
`ObligationPassStandsOnOneState`: a passing obligation has one resolved state, of which its
condition holds with its own values. `ObligationKeepsEvaluator`.

### What the configurations show besides

Writing these modules showed behaviours that no document denies and that a reader of
verdicts should know; the properties are stated so that they hold with them.

- A FortiOS configuration never passes a rule: its `config`, `next` and `end` lines match
  no mapping and stay unresolved. The same is true of a Junos document whose `version`
  element identifies the device, and one in an `rpc-reply` matches no sealed mapping.
- Only the JSON reader's `truncated` flag is looked at. What other documents have beyond
  their limits is not read and blocks nothing, which `PassCoversEvidence` excepts.
- An obligation whose rule has another id than any rule of the baseline has no finding to
  follow, and is evaluated without looking at unresolved blocks. One with an expected
  value of its own is evaluated again when the finding is FAIL.
- Automatic obligations use the newest version of a runtime rule when the audit evaluates
  them; which version it was is not pinned.
- Removal by a trained mapping (`remove_value`) becomes an assignment in
  `effective_state/service.py:199`. Facts are compared with their original spelling, so
  that `no logging host H1` does not remove `h1`.
- The sole word `no`, where a trained mapping exists, raises an error that nobody
  catches below the job handler.
- A runtime profile of the vendor and system of an explicit identity wins over the
  built-in one, with the first version that its patterns find.
- With two qualifying published packs none is used.
- The parser reports a dedent to a level that no open line has. A line at that level
  that follows is taken for a line of the block, and so is what a line without a parent
  of its level encloses, since the stack then holds the level: one warning is given, and the
  second statement becomes a fact. `ScopeIsEnclosingBlock` says which levels are trusted.
- Identification and parsing look for banners in their own ways (`_data_lines`,
  `_banner_delimiter`). `banner motd` without a delimiter is opaque to the parser, and
  its text is data for identification, which can take the device's identity from it;
  text glued to a delimiter (`^Chello`) makes the two lose step at the next banner.
  Tests cover delimiters that stand alone (`test_profile_resolution.py:393`), and for
  these `BannersClaimNothing` holds.

### Where code and documents differ

- `PersistedBytesKept`. `ingest_artifact` treats a failed `refresh` like a failed
  commit and deletes the bytes of a row that is persisted; `storage/README.md` says
  they are immutable. The upload was answered with an error, so `AnsweredUploadKept`
  holds all the same.
- `LastStatementDecides`. The resolver orders facts by the first line of their
  evidence, which within a block is the line that opens the block. Two statements of
  one block that disagree are reported as conflicting, although policy and comments
  say that the later source position decides.
- `DoubtedRemovalNeverPasses`. Of two mappings that are about `no ntp server h1` one makes a
  fact of it and the other only a diagnostic. The statement then counts as understood, and the
  diagnostic blocks nothing. After `ntp server h1` in the line before it the list of servers is
  empty, and the rule about time synchronisation passes on the strength of that line;
  `docs/development/CONVENTIONS.md` says that UNKNOWN must never silently become PASS. In the
  other order the device has a server and the pass is right, which the property allows.
- `BannersInstructNothing`. Published profiles are looked for in the text of a document, from
  which banners and comments were not taken out: `acme version 1.0` in a banner selects the
  profile of that token, for a device of which nothing else is known. The test
  `test_banner_comment_malformed_and_empty_content_do_not_crash_or_instruct_resolver` promises
  the contrary; it has no published profile.

## 4. Fairness

Only what the runtime schedules is fair; no run assumes that a request is made,
that a fault happens, or that it does not.

- `JobQueue`: weak fairness of each thread of a running process and of the clock, for
  handlers return. `Start` is among these steps: a worker that is down is started again
  (`restart: unless-stopped` in `docker-compose.yml`), as a fresh element. A liveness
  run has one worker outside `Transient`, which stands for "from some time on a worker
  stays up"; without it nothing can be promised.
- `AuditPipeline`: a claim is weakly fair because `QueuedIsClaimed` says so of the queue,
  and recovery of a dead handler's job because `ProcessingEnds` does. Recovery of a
  living handler's job is not fair.
- `ReportGeneration`: weak fairness of each running handler; strong fairness of the claim
  of each queued report, since a worker that is free for a moment may be taken by
  another one, and the queue is ordered by age (`QueuedIsClaimed`).
- `ConfigurationAudit`: none. Its properties are of states and single steps.
- `EvidenceStore`, `MappingTraining`: weak fairness of steps that need no lock, strong
  fairness of those that wait for a row lock, since PostgreSQL queues waiters
  and hands a released lock to the first of them.

## 5. Proofs

Each `...Proofs` module proves its theorems for every value of the constants: any number of
rows, workers, handlers, requests, files, lines and published versions, and every number of
faults. There is one pattern. A safety property is seldom inductive, because a step acts on
what an earlier step saw; the inductive invariant `IInv` of a module adds *what each place of
a process may rely on*, and why nobody else can make it false meanwhile: a row lock, a lease,
or that only one process can be there. A lemma per action shows that `IInv` is kept; the
action properties follow from `IInv` and one step. TLC checked each `IInv` on the instance of
the module's run before it was proved, except where it is said below.

| Theorem | Statement |
|---|---|
| **`JobQueueProofs`** | |
| `InvariantHolds`, `TypeCorrect` | `Spec => []IInv`, `Spec => []TypeOK` |
| `JobsRunOnce`, `LeasesMatchRunners`, `LocksProtectChecks` | `[]RunsOnce`, `[]LeaseMatchesRunner`, `[]LockInv` |
| `TerminalRowsStayFrozen`, `CompletionNeedsLease`, `RecoveryNeedsExpiry` | `TerminalRowsFrozen`, `CompletedByLeaseHolder`, `RecoversOnlyExpired` |
| `QueueRefinesLifecycle` | every step of the queue is a step of `JobLifecycle` or a stutter |
| `LiveRunnersKeepLeases` | `PromptSpec => []LiveRunnerKeepsLease` |
| **`AuditPipelineProofs`** | |
| `AuditInvariantHolds`, `AuditTypeCorrect` | `Spec => []IInv`, `Spec => []TypeOK` |
| `CompletedAuditsAreWhole`, `CompletedJobsDecideAudits` | `[]CompletedIsWhole`, `[]CompletedJobDecidesAudit` |
| `RevisionsFormChain`, `AtMostOneOpenReevaluation` | `[]RevisionChain`, `[]OneOpenReevaluation` |
| `DecidedAuditsStayFrozen`, `PinsStayFixed` | `DecidedAuditsFrozen`, `PinsNeverChange` |
| `AuditsFollowLifecycle` | every step is a step of `JobLifecycle` or leaves the queue alone |
| **`ReportGenerationProofs`** | |
| `ReportInvariantHolds`, `ReportTypeCorrect` | `Spec => []IInv`, `Spec => []TypeOK` |
| `ReadyReportsAreServed`, `CompletedJobsHaveReports` | `[]ReadyReportIsServed`, `[]CompletedJobMeansReady` |
| `DecidedReportsStayFrozen` | `DecidedReportFrozen` |
| `ReportsFollowLifecycle` | every step is a step of `JobLifecycle` or leaves the queue alone |
| **`EvidenceStoreProofs`** | |
| `EvidenceInvariantHolds`, `EvidenceTypeCorrect` | `Spec => []IInv`, `Spec => []TypeOK` |
| `AnsweredUploadsAreKept`, `SnapshotsAreCoherent` | `[]AnsweredUploadKept`, `[]SnapshotCoherent` |
| `FinalizedEvidenceStaysFrozen` | `FinalizedEvidenceFrozen` |
| **`MappingTrainingProofs`** | |
| `TrainingInvariantHolds`, `TrainingTypeCorrect` | `Spec => []IInv`, `Spec => []TypeOK` |
| `PublishedVersionsAreValidated`, `PacksHoldOneVersion`, `MappingsHaveOnePublished` | `[]PublishedIsValidated`, `[]PackHoldsOneVersion`, `[]OnePublishedVersion` |
| `PublicationsAreFinal` | `PublicationIsFinal` |
| **`EffectiveStateProofs`** | |
| `ResolverInvariantHolds`, `ResolverTypeCorrect` | `Spec => []IInv`, `Spec => []TypeOK` |
| `ResolvedStatesAreUnopposed`, `ReportedConflictsAreReal` | `[]ResolvedMeansUnopposed`, `[]ConflictIsReal` |
| `CollectionsHoldTheirMembers`, `VtyLinesHaveOneState` | `[]CollectionHoldsMembers`, `[]OneStatePerVtyLine` |
| **`ConfigurationAuditProofs`** | |
| `AuditContentInvariantHolds` | `Spec => []IInv` |
| `ObligationsKeepEvaluators`, `PassesStandOnOneState` | `[]ObligationKeepsEvaluator`, `[]ObligationPassStandsOnOneState` |
| `ResolvedEvidenceAgrees` | the platform and version parts of `ResolvedIdentityIsUnopposed` |
| `EvidenceIsCovered`, `ScopesAreEnclosingBlocks` | `[]PassCoversEvidence`, `[]ScopeIsEnclosingBlock` |
| `BannersMakeNoClaims` | `[]BannersClaimNothing` |
| **`ConfigurationReaderProofs`** (lemmas) | |
| `IndentedIsRead`, `FortiosIsRead`, `TreeIsRead` | every line of every text comes into a node, up to the limits, and nodes are ordered and nested |
| `StatementStandsInBlock` | a parsed statement of an indented text stands in the block of its parent |

### The arguments

`JobQueue`. `RunsOnce` is not inductive: a claim commits in another step than the one that saw
the row QUEUED, and nothing in `RunsOnce` says that it still is. The missing fact is what row
locks are for: *what a transaction checked stays true as long as it holds the lock*
(`LockInv`): a claiming thread's row is QUEUED, a recovering thread's rows are stale, a
finishing or renewing thread's row is the PROCESSING row of its own job. To keep it one needs
to know which thread can be in a transaction (`ProcessInv`: a heartbeat thread exists exactly
while its handler runs or is joined), that an attempt is counted exactly at the claim
(`AttemptInv`), and `LeaseMatchesRunner`, by which a process that passes the ownership check
is the one that runs the job. The refinement maps `status` to `phase` and `attempts` to
`claims`; each commit is a step of the abstract module, everything else a stutter.

`LiveRunnerKeepsLease` is a race of two clocks. `LeaseOutlastsWait` relates them: while a
handler runs, its lease has at least `Slack(dbErrors)` more left than the heartbeat waits, where
`Slack` is the lease less one interval for each renewal that was lost and one for the next. A
failed renewal costs one interval of slack, a successful one restores the lease
(`WritesWholeLease`, since no time passes while a transaction is open), and
`ToleranceAssumption` keeps the slack positive.

`AuditPipeline`. The handler holds no lock between its transactions. `PlaceInv` lists what it
knows about its audit at each place all the same: the status, the pins that it wrote, the results
of the stages behind it and the pack they were made with. It stays true because a job belongs to
one audit and is handed out once (`JobInv`, from the life cycle of the queue), also when
the lease has gone and recovery has failed the job. `RevisionChain` and
`OneOpenReevaluation` (without counting, `NoTwoOpen`) need in addition what the inserts
leave in columns that nothing updates (`InsertInv`).

`ReportGeneration`. The same, for rows and files: `HandlerInv` (one handler per report) and
`PlaceInv` (before the row says READY the published file is whole) carry
`ReadyReportIsServed` across each failure, the unacknowledged commit included.

`EvidenceStore`. Uploads are kept apart by their artifact ids (`RowInv`); a request on a
snapshot relies on the two row locks it took (`Knows`). `SnapshotCoherent` is the reason for
lemmas on members, their number and the bag of their hashes.

`MappingTraining`. A publication keeps its version APPROVED by the row lock, and at its end
holds the row of its pack (`LockInv`); the latest version of a pack is therefore the one that it
extends. An edit resets the validation, so that `PublishedIsValidated` is kept by every step; a
late validation changes no published record, because the trigger refuses it (`RecordKept`).

`EffectiveStateResolver`. Facts are in source order because blocks do not nest (`LinesInv`,
`OrderInv`, `BlockInv`): a statement further down was opened further down, although the resolver
compares the lines of the headers. `StandingDecides` then identifies the facts that decide with
the last statements of each artifact, for any set of facts of one scope. For VTY ranges,
`BoundaryAfter` and `OnePartition` show that the ranges between neighbouring boundaries are
disjoint, cover what the statements cover, and lie each in all ranges that apply to it.

`ConfigurationAudit`. `EvaluatorsStay`: a rule that is found stays found when rules are added,
also when the sealed rule gives way to a published one. `EvaluatorHasItsName` and
`PassNeedsOneState` (the one state satisfies the condition that the obligation was asked with)
give the obligations. `ResolvedIsKnown`, `ResolvedByIdentities` and
`ManifestOfName` follow the resolver through its decisions; that no published profile has the
name of a built-in one (`NamesInv`) is what makes the name stand for the manifest that was
accepted. TLC evaluates the parts of this invariant except `SnapshotInv`, which nothing changes.

`PassCoversEvidence` is one chain from a line of a text to a finding. *Reading*: a reader is a
recursive function over line numbers; a claim about what it has after `i` lines (`ReadSoFarHolds`,
`SectionsSoFarHolds`, `NodesCounted`) is proved for all `i` by taking the smallest number for
which it fails, since lemmas of the library on induction cannot be cited. It says that nodes stand
in the order of their lines, that the context of a node holds statements before it, and that each
line is in a node, unless there are as many nodes as are allowed or the text ended in a banner or
certificate. *Interpretation*: a statement that no fact is about and that nothing above it was
read with is unresolved (`StatementsAccounted`, `LeavesAccounted`). *Blocks*: an unresolved
node becomes a block about all rules that may depend on it (`BlockKeepsRules`), and `CoverInv`,
the invariant, keeps document and blocks together while profiles are published. *Verdicts*: no rule
passes against a block, and only the rules of a built-in profile are for the profile of the audit
(`PassIsUnblocked`, `PinnedRulesAreSealed`), so that blocks and findings are about the same rules.

`ScopeIsEnclosingBlock` adds to the first link which blocks are open at each line (`Nested`): the
stack of `AddNode` holds only statements whose block no later node has closed, for all of these
are indented more and none is a comment (`Encloses`). A parsed statement comes directly after its
parent or after a banner, or below a node of its own level in the same block (`Leveled`); of all
others `AddNode` says that they were read in part. Since every line before a node is empty or in a
node (`AllRead`), this speaks of lines and not only of nodes (`StatementStandsInBlock`), and
`FactOfTwoLines` carries it to facts. The property is kept by every step together with `IInv` and
`CoverInv`: nothing is published under the name of the audit's profile (`ProfileStays`), so that
it goes on to be that of the reader which has read the documents.

`BannersClaimNothing` follows two scanners through one text. The parser decides at the first line
of a banner where it ends (`ReadBlock`); identification goes on line by line (`Scan`), and stops
after `MaxInspectedLines`. `InStep` says how the two stand to each other after each line: when the
parser has a banner in hand, so has identification, with the same delimiter, which is in no line
before the one where the parser saw the end; otherwise identification is in no banner, unless the
parser has stopped, after which it builds no blocks. `AgreeStep` shows that one more line keeps
this. Where the texts differ is a matter of counting: the parser asks for the delimiter in the words
after it, identification for a second occurrence in the whole line, and `PlainBannerLine` shows
from `Flattened`, which says where a piece occurs in a text of several parts, that for a plain
banner these are the same question. What identification keeps is therefore outside of the blocks
(`KeptOutside`), and, since it only keeps more as it goes on (`KeptStays`), this is so for a prefix
that ends in the middle of a banner. The tokens and the version of a published profile are taken
from all lines, and the theorem says nothing of them.

### What they rest on

The named assumptions, which TLC evaluates in the runs: sets of rows are finite
(`JobsAssumption`, `RowsAssumption`, `ArtifactsAssumption`); the value for "absent" is none of
the values it is kept apart from (`NoneAssumption`, `WorkersAssumption`, `VersionsAssumption`,
`ResolverConstants`); `0 < HeartbeatTicks < LeaseTicks`, which the constructor of the runtime
requires (`LeaseAssumption`); a definition determines a pack (`DefinitionsAssumption`);
`ReaderLimits` and `InspectionLimit`, that the limits of the readers are numbers;
`PiecesAssumption`, that a word has at least one part and the word `banner` is its only one;
`SnapshotsAssumption`, that
artifacts are sequences of lines of words of which only structured exports are given as trees, that drafts
are rules and catalogs and that every automatic obligation of a pack from before the audit has a
sealed evaluator on its profiles. `ToleranceAssumption`
is one only of `queue_prompt` and its theorem: the code does not enforce it, its defaults
satisfy it for two failures in a row.

### What is only model-checked

- Liveness and fairness, the fairness part of `ImplementsLifecycle` included, and ENABLED: out
  of the prover's reach.
- The last part of `ResolvedIdentityIsUnopposed`, on generic profiles. An attempt shows why it is
  not a theorem: nothing in `parse_runtime_profile` keeps an organization from publishing a
  profile of the vendor `Generic` and a system of the generic manifests, with an XML selector;
  evidence that its selector identifies would then be resolved to the built-in generic profile.
  With the drafts of the run the part holds.

## 6. Not modelled

- The text of words: quoting, numbers, addresses and regular expressions are given with
  the lines by the `MC` module; so is what a pattern of profile resolution finds. XML and
  JSON syntax is replaced by trees.
- Wording, titles, references, severities, digests and fingerprints; the content and layout
  of the PDF; remediation previews, findings queries and the dashboard, which only read.
- Review blocks of the training service and adopted suggestions: bookkeeping that no other
  decision reads. Their status is written without a lock, so that a dismissal can overwrite
  MAPPED.
- Batch creation of audits (a loop over create and start, whose second half may be refused),
  provenance checks of stored facts, references between effective states (the
  interpreter never produces one).
- Devices, authentication and the command line are single transactions or stateless checks.
  Frontend and deployment have no behaviour that these properties speak of.
- Of the triggers that migrations install, the one on mapping versions is a guard of
  `ExecuteCommit`. Those on packs, obligations, profile manifests, rules and remediation
  procedures refuse updates and deletions that no action of a module makes.
- The database is PostgreSQL at READ COMMITTED with row locks and unique constraints;
  deadlock detection and serialization failures appear as database errors.

## 7. Plan

Modelling follows what a wrong answer costs: first that work is done once and results are
kept (queue, audits, evidence, training, reports), then that results mean what the
configuration says (reading, identity, interpretation, states, verdicts, obligations).
Both parts stand, and of the properties that the runs check everything is proved but liveness
and what generic profiles mean. What is left:

- Abstract specifications still worth stating: an evidence store whose uploads are atomic and
  whose snapshots are values, and an audit as one step from submitted to decided, which
  `AuditPipeline` should implement.
