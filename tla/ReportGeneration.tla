--------------------------- MODULE ReportGeneration ---------------------------
(***************************************************************************)
(* PDF reports (backend/app/reporting/service.py and storage.py): a        *)
(* request queues a report and its job, a worker runs                      *)
(* jobs/handlers/pdf_generation.py under the runner of jobs/runner.py, and *)
(* clients download what became ready.                                     *)
(*                                                                         *)
(* The queue is the abstract one of JobLifecycle.  A report has one job    *)
(* and is named like it; only that job's handler writes the report's row,  *)
(* so that the row locks of the code never have a second taker and are     *)
(* left out.  What cannot be taken back is the file: it is published       *)
(* before the transaction that says so commits.                            *)
(***************************************************************************)
EXTENDS FiniteSets, Naturals

CONSTANTS
  Reports,   \* report ids (uuid4)
  Workers,
  None       \* no job in hand, no value

ASSUME NoneAssumption == None \notin Reports

VARIABLES
  phase, claims,           \* the queue
  status,                  \* Report.status
  recorded,                \* what sha256, byte_size and storage_reference describe
  temporary, published,    \* the two names of the report in the file system
  at, report,              \* position of each worker, and the report of its job
  interrupted              \* reports whose handler died or recorded no failure

queue == <<phase, claims>>
row == <<status, recorded>>
files == <<temporary, published>>
vars == <<phase, claims, status, recorded, temporary, published, at, report, interrupted>>

Queue == INSTANCE JobLifecycle WITH Jobs <- Reports, HandledJobs <- Reports, LegacyJobs <- {}

Bytes == {"none", "partial", "whole"}
Handling == {"read", "mark", "render", "write", "sync", "link", "unlink", "commit", "except"}
Decided == {"ready", "failed"}

TypeOK ==
  /\ phase \in [Reports -> {"absent", "queued", "processing", "completed", "failed"}]
  /\ claims \in [Reports -> Nat]
  /\ status \in [Reports -> {"absent", "pending", "generating"} \cup Decided]
  /\ recorded \in [Reports -> Bytes]
  /\ temporary \in [Reports -> Bytes] /\ published \in [Reports -> Bytes]
  /\ at \in [Workers -> {"idle", "returned", "raised"} \cup Handling]
  /\ report \in [Workers -> Reports \cup {None}]
  /\ interrupted \in SUBSET Reports

Init ==
  /\ Queue!Init
  /\ status = [r \in Reports |-> "absent"] /\ recorded = [r \in Reports |-> "none"]
  /\ temporary = [r \in Reports |-> "none"] /\ published = [r \in Reports |-> "none"]
  /\ at = [w \in Workers |-> "idle"] /\ report = [w \in Workers |-> None]
  /\ interrupted = {}

Set(f, x, v) == [f EXCEPT ![x] = v]
Goto(w, from, to) == at[w] = from /\ at' = Set(at, w, to)

\* create_report: the report and its job in one commit.
Request(r) ==
  /\ status[r] = "absent"
  /\ status' = Set(status, r, "pending")
  /\ Queue!Submit(r)
  /\ UNCHANGED <<recorded, files, at, report, interrupted>>

Claim(w, r) ==
  /\ Goto(w, "idle", "read")
  /\ Queue!Claim(r)
  /\ report' = Set(report, w, r)
  /\ UNCHANGED <<row, files, interrupted>>

\* The report's id is read from the job's payload.
ReadPayload(w) ==
  /\ Goto(w, "read", "mark")
  /\ UNCHANGED <<queue, row, files, report, interrupted>>

\* That read is outside the handler's try: its failure is recorded nowhere.
ReadPayloadFails(w) ==
  /\ Goto(w, "read", "raised")
  /\ interrupted' = interrupted \cup {report[w]}
  /\ UNCHANGED <<queue, row, files, report>>

\* mark_generating, in a transaction of its own.
MarkGenerating(w) ==
  /\ Goto(w, "mark", "render")
  /\ status[report[w]] = "pending"
  /\ status' = Set(status, report[w], "generating")
  /\ UNCHANGED <<queue, recorded, files, report, interrupted>>

\* generate_report up to the bytes of the PDF.
Render(w) ==
  /\ Goto(w, "render", "write")
  /\ status[report[w]] = "generating"
  /\ UNCHANGED <<queue, row, files, report, interrupted>>

FileStep(w, from, to, newTemporary, newPublished) ==
  /\ Goto(w, from, to)
  /\ temporary' = Set(temporary, report[w], newTemporary)
  /\ published' = Set(published, report[w], newPublished)
  /\ UNCHANGED <<queue, row, report, interrupted>>

WriteTemporary(w) == FileStep(w, "write", "sync", "partial", published[report[w]])

\* flush and fsync.
SyncTemporary(w) == FileStep(w, "sync", "link", "whole", published[report[w]])

\* os.link never replaces a report.
Link(w) ==
  /\ at[w] = "link" /\ published[report[w]] = "none"
  /\ FileStep(w, "link", "unlink", temporary[report[w]], temporary[report[w]])

UnlinkTemporary(w) == FileStep(w, "unlink", "commit", "none", published[report[w]])

\* The row is set before the checks of the transaction; a reader sees it at once.
CommitReadyEarly(w) ==
  /\ at[w] \in {"render", "commit"}
  /\ at' = Set(at, w, IF at[w] = "render" THEN "write" ELSE "returned")
  /\ status' = Set(status, report[w], "ready")
  /\ recorded' = Set(recorded, report[w], "whole")
  /\ UNCHANGED <<queue, files, report, interrupted>>

\* Reference, digest, size and status, committed together.
CommitReady(w) ==
  /\ Goto(w, "commit", "returned")
  /\ status' = Set(status, report[w], "ready")
  /\ recorded' = Set(recorded, report[w], "whole")
  /\ UNCHANGED <<queue, files, report, interrupted>>

\* An exception in a transaction that leaves nothing in the database: a guard, the
\* findings that changed, the renderer, the file system (whose own clean-up may fail,
\* also after the link), the database.
HandlerRaises(w) ==
  /\ at[w] \in Handling \ {"read", "except"}
  /\ at' = Set(at, w, "except")
  /\ temporary' \in {temporary, Set(temporary, report[w], "none")}
  /\ UNCHANGED <<queue, row, published, report, interrupted>>

\* The commit is done but its acknowledgement is lost.
AcknowledgementLost(w) ==
  LET r == report[w]
  IN /\ at[w] \in {"mark", "commit"}
     /\ at[w] = "mark" => status[r] = "pending"
     /\ status' = Set(status, r, IF at[w] = "mark" THEN "generating" ELSE "ready")
     /\ recorded' = IF at[w] = "mark" THEN recorded ELSE Set(recorded, r, "whole")
     /\ at' = Set(at, w, "except")
     /\ UNCHANGED <<queue, files, report, interrupted>>

\* Whatever the report's status.
FailAnyReport(w) ==
  /\ Goto(w, "except", "raised")
  /\ status' = Set(status, report[w], "failed")
  /\ UNCHANGED <<queue, recorded, files, report, interrupted>>

\* The exception is handled, and ends there.
FailReportAndReturn(w) ==
  /\ Goto(w, "except", "returned")
  /\ status' = IF status[report[w]] \in Decided THEN status ELSE Set(status, report[w], "failed")
  /\ UNCHANGED <<queue, recorded, files, report, interrupted>>

\* Only a report that still waits to be generated is failed.
FailPendingReport(w) ==
  /\ Goto(w, "except", "raised")
  /\ status' = IF status[report[w]] = "pending" THEN Set(status, report[w], "failed") ELSE status
  /\ UNCHANGED <<queue, recorded, files, report, interrupted>>

\* fail_report leaves a decided report alone; the handler raises again.
FailReport(w) ==
  /\ Goto(w, "except", "raised")
  /\ status' = IF status[report[w]] \in Decided THEN status ELSE Set(status, report[w], "failed")
  /\ UNCHANGED <<queue, recorded, files, report, interrupted>>

\* The transaction of fail_report fails as well, and nobody tries again.
FailReportFails(w) ==
  /\ Goto(w, "except", "raised")
  /\ interrupted' = interrupted \cup {report[w]}
  /\ UNCHANGED <<queue, row, files, report>>

\* The runner's terminal update, refused when the lease is lost or the database is down.
Finish(w) ==
  /\ at[w] \in {"returned", "raised"}
  /\ \/ IF at[w] = "returned" THEN Queue!Complete(report[w]) ELSE Queue!Fail({report[w]})
     \/ UNCHANGED queue
  /\ at' = Set(at, w, "idle")
  /\ report' = Set(report, w, None)
  /\ UNCHANGED <<row, files, interrupted>>

\* recover_stale_jobs, also while the handler still runs.
LeaseExpires(r) ==
  /\ Queue!Fail({r})
  /\ UNCHANGED <<row, files, at, report, interrupted>>

\* The process dies: an open transaction is rolled back, files stay as they are.
Crash(w) ==
  /\ at[w] # "idle"
  /\ at' = Set(at, w, "idle")
  /\ report' = Set(report, w, None)
  /\ interrupted' = interrupted \cup {report[w]}
  /\ UNCHANGED <<queue, row, files>>

HandlerStep(w) ==
  \/ ReadPayload(w)
  \/ ReadPayloadFails(w)
  \/ MarkGenerating(w)
  \/ Render(w)
  \/ WriteTemporary(w)
  \/ SyncTemporary(w)
  \/ Link(w)
  \/ UnlinkTemporary(w)
  \/ CommitReady(w)
  \/ HandlerRaises(w)
  \/ AcknowledgementLost(w)
  \/ FailReport(w)
  \/ FailReportFails(w)
  \/ Finish(w)

Next ==
  \/ \E r \in Reports : Request(r) \/ LeaseExpires(r)
  \/ \E w \in Workers, r \in Reports : Claim(w, r)
  \/ \E w \in Workers : HandlerStep(w) \/ Crash(w)

\* A handler that runs goes on, and a queued report finds a worker in the end although
\* workers may always be busy with others.
Fairness ==
  /\ \A w \in Workers : WF_vars(HandlerStep(w))
  /\ \A r \in Reports : SF_vars(\E w \in Workers : Claim(w, r))

Spec == Init /\ [][Next]_vars /\ Fairness

\* GET /reports/{id}/download: the row, then the bytes, then the comparison of both.
Download(r) ==
  IF status[r] # "ready" THEN "not ready"
  ELSE IF published[r] = "none" THEN "not found"
  ELSE IF published[r] # recorded[r] THEN "integrity failure"
  ELSE "answered"

-----------------------------------------------------------------------------
(* Properties.                                                             *)

\* A report that calls itself ready can be downloaded, whatever crashed or failed while
\* it was written (generate_report: the file, then the commit; report_download).
ReadyReportIsServed == \A r \in Reports : status[r] = "ready" => Download(r) = "answered"

\* A decided report stays as it is, also when the handler takes its own success for a
\* failure (fail_report's guard after a lost acknowledgement) or has lost its lease.
DecidedReportFrozen ==
  [][\A r \in Reports : status[r] \in Decided =>
       UNCHANGED <<status[r], recorded[r], published[r]>>]_vars

\* A completed job has produced its report (handle_pdf_generation raises again after
\* fail_report, so that the runner fails the job).
CompletedJobMeansReady == \A r \in Reports : phase[r] = "completed" => status[r] = "ready"

\* Every requested report is decided, except where a process died in the handler, or the
\* failure itself could not be recorded: those stay pending or generating for ever.
ReportsAreDecided ==
  \A r \in Reports : status[r] = "pending" ~> status[r] \in Decided \/ r \in interrupted
=============================================================================
