------------------------ MODULE ReportGenerationProofs ------------------------
(***************************************************************************)
(* Theorems about reports, for any set of reports and any set of workers.  *)
(***************************************************************************)
EXTENDS ReportGeneration, TLAPS

USE DEF queue, row, files, Set, Goto, Decided

\* One handler at most has a report in hand, and its job was claimed: the queue
\* hands it out once (claim_next_job), and no other code writes reports.
HandlerInv ==
  /\ \A w \in Workers : at[w] = "idle" <=> report[w] = None
  /\ \A w \in Workers : report[w] # None => phase[report[w]] \notin {"absent", "queued"}
  /\ \A v, w \in Workers : report[v] # None /\ report[v] = report[w] => v = w

\* What a handler at some place may rely on (generate_report).
Knows(w) ==
  LET r == report[w] IN
  /\ at[w] \in {"render", "write", "sync", "link", "unlink", "commit"} => status[r] = "generating"
  /\ at[w] = "link" => temporary[r] = "whole"
  /\ at[w] \in {"unlink", "commit"} => published[r] = "whole"
  /\ at[w] = "returned" => status[r] = "ready"

PlaceInv == \A w \in Workers : report[w] # None => Knows(w)

\* The row and the file of a READY report agree.
ReadyInv == \A r \in Reports : status[r] = "ready" => recorded[r] = "whole" /\ published[r] = "whole"

InvParts == HandlerInv /\ PlaceInv /\ ReadyInv /\ CompletedJobMeansReady

IInv == TypeOK /\ InvParts

\* A handler that is somewhere has the report of a job in hand.
LEMMA HandlerHasReport ==
  ASSUME TypeOK, HandlerInv, NEW w \in Workers, at[w] # "idle"
  PROVE  report[w] \in Reports
BY DEF TypeOK, HandlerInv

\* Every step keeps every variable in its type (db/models/report.py).
LEMMA TypeStep == TypeOK /\ HandlerInv /\ [Next]_vars => TypeOK'
<1> SUFFICES ASSUME TypeOK, HandlerInv, [Next]_vars PROVE TypeOK'
  OBVIOUS
<1>1. ASSUME NEW r \in Reports, Request(r) \/ LeaseExpires(r) PROVE TypeOK'
  BY <1>1 DEF TypeOK, Request, LeaseExpires, Queue!Submit, Queue!Fail
<1>2. ASSUME NEW w \in Workers, at[w] # "idle" PROVE report[w] \in Reports
  BY <1>2, HandlerHasReport
<1>3. ASSUME NEW w \in Workers, HandlerStep(w) PROVE TypeOK'
  <2>1. CASE ReadPayload(w)
    BY <1>2, <2>1 DEF ReadPayload, TypeOK, Bytes, Handling
  <2>2. CASE ReadPayloadFails(w)
    BY <1>2, <2>2 DEF ReadPayloadFails, TypeOK, Bytes, Handling
  <2>3. CASE MarkGenerating(w)
    BY <1>2, <2>3 DEF MarkGenerating, TypeOK, Bytes, Handling
  <2>4. CASE Render(w)
    BY <1>2, <2>4 DEF Render, TypeOK, Bytes, Handling
  <2>5. CASE WriteTemporary(w)
    BY <1>2, <2>5 DEF WriteTemporary, FileStep, TypeOK, Bytes, Handling
  <2>6. CASE SyncTemporary(w)
    BY <1>2, <2>6 DEF SyncTemporary, FileStep, TypeOK, Bytes, Handling
  <2>7. CASE Link(w)
    BY <1>2, <2>7 DEF Link, FileStep, TypeOK, Bytes, Handling
  <2>8. CASE UnlinkTemporary(w)
    BY <1>2, <2>8 DEF UnlinkTemporary, FileStep, TypeOK, Bytes, Handling
  <2>9. CASE CommitReady(w)
    BY <1>2, <2>9 DEF CommitReady, TypeOK, Bytes, Handling
  <2>10. CASE HandlerRaises(w)
    BY <1>2, <2>10 DEF HandlerRaises, TypeOK, Bytes, Handling
  <2>11. CASE AcknowledgementLost(w)
    BY <1>2, <2>11 DEF AcknowledgementLost, TypeOK, Bytes, Handling
  <2>12. CASE FailReport(w)
    BY <1>2, <2>12 DEF FailReport, TypeOK, Bytes, Handling
  <2>13. CASE FailReportFails(w)
    BY <1>2, <2>13 DEF FailReportFails, TypeOK, Bytes, Handling
  <2>14. CASE Finish(w)
    BY <1>2, <2>14 DEF Finish, Queue!Complete, Queue!Fail, TypeOK, Bytes, Handling
  <2> QED BY <1>3, <2>1, <2>2, <2>3, <2>4, <2>5, <2>6, <2>7, <2>8, <2>9, <2>10, <2>11, <2>12, <2>13,
             <2>14 DEF HandlerStep
<1>4. ASSUME NEW w \in Workers, NEW r \in Reports, Claim(w, r) PROVE TypeOK'
  BY <1>4 DEF TypeOK, Claim, Queue!Claim, Handling
<1>5. ASSUME NEW w \in Workers, Crash(w) PROVE TypeOK'
  BY <1>2, <1>5 DEF TypeOK, Crash
<1>6. CASE UNCHANGED vars
  BY <1>6 DEF TypeOK, vars
<1> QED BY <1>1, <1>3, <1>4, <1>5, <1>6 DEF Next

\* What the steps of a handler leave true of every other handler: only its own
\* report's row, files and job change.
LEMMA HandlerStepInv ==
  ASSUME IInv, NEW w \in Workers, HandlerStep(w)
  PROVE  InvParts'
<1>0. TypeOK /\ InvParts
  BY DEF IInv
<1>1. at[w] # "idle" => report[w] \in Reports
  BY <1>0, HandlerHasReport DEF InvParts
<1> USE NoneAssumption
<1>2. CASE ReadPayload(w)
  <2>1. HandlerInv'
    BY <1>0, <1>1, <1>2 DEF TypeOK, InvParts, ReadPayload, HandlerInv
  <2>2. PlaceInv'
    BY <1>0, <1>1, <1>2 DEF TypeOK, InvParts, ReadPayload, PlaceInv, Knows, HandlerInv
  <2>3. ReadyInv'
    BY <1>0, <1>1, <1>2 DEF TypeOK, InvParts, ReadPayload, ReadyInv, PlaceInv, Knows, HandlerInv
  <2>4. CompletedJobMeansReady'
    BY <1>0, <1>1, <1>2
       DEF TypeOK, InvParts, ReadPayload, CompletedJobMeansReady, PlaceInv, Knows, HandlerInv
  <2> QED BY <2>1, <2>2, <2>3, <2>4 DEF InvParts
<1>3. CASE ReadPayloadFails(w)
  <2>1. HandlerInv'
    BY <1>0, <1>1, <1>3 DEF TypeOK, InvParts, ReadPayloadFails, HandlerInv
  <2>2. PlaceInv'
    BY <1>0, <1>1, <1>3 DEF TypeOK, InvParts, ReadPayloadFails, PlaceInv, Knows, HandlerInv
  <2>3. ReadyInv'
    BY <1>0, <1>1, <1>3 DEF TypeOK, InvParts, ReadPayloadFails, ReadyInv, PlaceInv, Knows, HandlerInv
  <2>4. CompletedJobMeansReady'
    BY <1>0, <1>1, <1>3
       DEF TypeOK, InvParts, ReadPayloadFails, CompletedJobMeansReady, PlaceInv, Knows, HandlerInv
  <2> QED BY <2>1, <2>2, <2>3, <2>4 DEF InvParts
<1>4. CASE MarkGenerating(w)
  <2>1. HandlerInv'
    BY <1>0, <1>1, <1>4 DEF TypeOK, InvParts, MarkGenerating, HandlerInv
  <2>2. PlaceInv'
    BY <1>0, <1>1, <1>4 DEF TypeOK, InvParts, MarkGenerating, PlaceInv, Knows, HandlerInv
  <2>3. ReadyInv'
    BY <1>0, <1>1, <1>4 DEF TypeOK, InvParts, MarkGenerating, ReadyInv, PlaceInv, Knows, HandlerInv
  <2>4. CompletedJobMeansReady'
    BY <1>0, <1>1, <1>4
       DEF TypeOK, InvParts, MarkGenerating, CompletedJobMeansReady, PlaceInv, Knows, HandlerInv
  <2> QED BY <2>1, <2>2, <2>3, <2>4 DEF InvParts
<1>5. CASE Render(w)
  <2>1. HandlerInv'
    BY <1>0, <1>1, <1>5 DEF TypeOK, InvParts, Render, HandlerInv
  <2>2. PlaceInv'
    BY <1>0, <1>1, <1>5 DEF TypeOK, InvParts, Render, PlaceInv, Knows, HandlerInv
  <2>3. ReadyInv'
    BY <1>0, <1>1, <1>5 DEF TypeOK, InvParts, Render, ReadyInv, PlaceInv, Knows, HandlerInv
  <2>4. CompletedJobMeansReady'
    BY <1>0, <1>1, <1>5 DEF TypeOK, InvParts, Render, CompletedJobMeansReady, PlaceInv, Knows, HandlerInv
  <2> QED BY <2>1, <2>2, <2>3, <2>4 DEF InvParts
<1>6. CASE WriteTemporary(w)
  <2>1. HandlerInv'
    BY <1>0, <1>1, <1>6 DEF TypeOK, InvParts, WriteTemporary, FileStep, HandlerInv
  <2>2. PlaceInv'
    BY <1>0, <1>1, <1>6 DEF TypeOK, InvParts, WriteTemporary, FileStep, PlaceInv, Knows, HandlerInv
  <2>3. ReadyInv'
    BY <1>0, <1>1, <1>6
       DEF TypeOK, InvParts, WriteTemporary, FileStep, ReadyInv, PlaceInv, Knows, HandlerInv
  <2>4. CompletedJobMeansReady'
    BY <1>0, <1>1, <1>6
       DEF TypeOK, InvParts, WriteTemporary, FileStep, CompletedJobMeansReady, PlaceInv, Knows, HandlerInv
  <2> QED BY <2>1, <2>2, <2>3, <2>4 DEF InvParts
<1>7. CASE SyncTemporary(w)
  <2>1. HandlerInv'
    BY <1>0, <1>1, <1>7 DEF TypeOK, InvParts, SyncTemporary, FileStep, HandlerInv
  <2>2. PlaceInv'
    BY <1>0, <1>1, <1>7 DEF TypeOK, InvParts, SyncTemporary, FileStep, PlaceInv, Knows, HandlerInv
  <2>3. ReadyInv'
    BY <1>0, <1>1, <1>7 DEF TypeOK, InvParts, SyncTemporary, FileStep, ReadyInv, PlaceInv, Knows, HandlerInv
  <2>4. CompletedJobMeansReady'
    BY <1>0, <1>1, <1>7
       DEF TypeOK, InvParts, SyncTemporary, FileStep, CompletedJobMeansReady, PlaceInv, Knows, HandlerInv
  <2> QED BY <2>1, <2>2, <2>3, <2>4 DEF InvParts
<1>8. CASE Link(w)
  <2>1. HandlerInv'
    BY <1>0, <1>1, <1>8 DEF TypeOK, InvParts, Link, FileStep, HandlerInv
  <2>2. PlaceInv'
    BY <1>0, <1>1, <1>8 DEF TypeOK, InvParts, Link, FileStep, PlaceInv, Knows, HandlerInv
  <2>3. ReadyInv'
    BY <1>0, <1>1, <1>8 DEF TypeOK, InvParts, Link, FileStep, ReadyInv, PlaceInv, Knows, HandlerInv
  <2>4. CompletedJobMeansReady'
    BY <1>0, <1>1, <1>8
       DEF TypeOK, InvParts, Link, FileStep, CompletedJobMeansReady, PlaceInv, Knows, HandlerInv
  <2> QED BY <2>1, <2>2, <2>3, <2>4 DEF InvParts
<1>9. CASE UnlinkTemporary(w)
  <2>1. HandlerInv'
    BY <1>0, <1>1, <1>9 DEF TypeOK, InvParts, UnlinkTemporary, FileStep, HandlerInv
  <2>2. PlaceInv'
    BY <1>0, <1>1, <1>9 DEF TypeOK, InvParts, UnlinkTemporary, FileStep, PlaceInv, Knows, HandlerInv
  <2>3. ReadyInv'
    BY <1>0, <1>1, <1>9
       DEF TypeOK, InvParts, UnlinkTemporary, FileStep, ReadyInv, PlaceInv, Knows, HandlerInv
  <2>4. CompletedJobMeansReady'
    BY <1>0, <1>1, <1>9
       DEF TypeOK, InvParts, UnlinkTemporary, FileStep, CompletedJobMeansReady, PlaceInv, Knows, HandlerInv
  <2> QED BY <2>1, <2>2, <2>3, <2>4 DEF InvParts
<1>10. CASE CommitReady(w)
  <2>1. HandlerInv'
    BY <1>0, <1>1, <1>10 DEF TypeOK, InvParts, CommitReady, HandlerInv
  <2>2. PlaceInv'
    BY <1>0, <1>1, <1>10 DEF TypeOK, InvParts, CommitReady, PlaceInv, Knows, HandlerInv
  <2>3. ReadyInv'
    BY <1>0, <1>1, <1>10 DEF TypeOK, InvParts, CommitReady, ReadyInv, PlaceInv, Knows, HandlerInv
  <2>4. CompletedJobMeansReady'
    BY <1>0, <1>1, <1>10
       DEF TypeOK, InvParts, CommitReady, CompletedJobMeansReady, PlaceInv, Knows, HandlerInv
  <2> QED BY <2>1, <2>2, <2>3, <2>4 DEF InvParts
<1>11. CASE HandlerRaises(w)
  <2>1. HandlerInv'
    BY <1>0, <1>1, <1>11 DEF TypeOK, InvParts, HandlerRaises, Handling, HandlerInv
  <2>2. PlaceInv'
    BY <1>0, <1>1, <1>11 DEF TypeOK, InvParts, HandlerRaises, Handling, PlaceInv, Knows, HandlerInv
  <2>3. ReadyInv'
    BY <1>0, <1>1, <1>11
       DEF TypeOK, InvParts, HandlerRaises, Handling, ReadyInv, PlaceInv, Knows, HandlerInv
  <2>4. CompletedJobMeansReady'
    BY <1>0, <1>1, <1>11
       DEF TypeOK, InvParts, HandlerRaises, Handling, CompletedJobMeansReady, PlaceInv, Knows, HandlerInv
  <2> QED BY <2>1, <2>2, <2>3, <2>4 DEF InvParts
<1>12. CASE AcknowledgementLost(w)
  <2>1. HandlerInv'
    BY <1>0, <1>1, <1>12 DEF TypeOK, InvParts, AcknowledgementLost, HandlerInv
  <2>2. PlaceInv'
    BY <1>0, <1>1, <1>12 DEF TypeOK, InvParts, AcknowledgementLost, PlaceInv, Knows, HandlerInv
  <2>3. ReadyInv'
    BY <1>0, <1>1, <1>12 DEF TypeOK, InvParts, AcknowledgementLost, ReadyInv, PlaceInv, Knows, HandlerInv
  <2>4. CompletedJobMeansReady'
    BY <1>0, <1>1, <1>12
       DEF TypeOK, InvParts, AcknowledgementLost, CompletedJobMeansReady, PlaceInv, Knows, HandlerInv
  <2> QED BY <2>1, <2>2, <2>3, <2>4 DEF InvParts
<1>13. CASE FailReport(w)
  <2>1. HandlerInv'
    BY <1>0, <1>1, <1>13 DEF TypeOK, InvParts, FailReport, HandlerInv
  <2>2. PlaceInv'
    BY <1>0, <1>1, <1>13 DEF TypeOK, InvParts, FailReport, PlaceInv, Knows, HandlerInv
  <2>3. ReadyInv'
    BY <1>0, <1>1, <1>13 DEF TypeOK, InvParts, FailReport, ReadyInv, PlaceInv, Knows, HandlerInv
  <2>4. CompletedJobMeansReady'
    BY <1>0, <1>1, <1>13
       DEF TypeOK, InvParts, FailReport, CompletedJobMeansReady, PlaceInv, Knows, HandlerInv
  <2> QED BY <2>1, <2>2, <2>3, <2>4 DEF InvParts
<1>14. CASE FailReportFails(w)
  <2>1. HandlerInv'
    BY <1>0, <1>1, <1>14 DEF TypeOK, InvParts, FailReportFails, HandlerInv
  <2>2. PlaceInv'
    BY <1>0, <1>1, <1>14 DEF TypeOK, InvParts, FailReportFails, PlaceInv, Knows, HandlerInv
  <2>3. ReadyInv'
    BY <1>0, <1>1, <1>14 DEF TypeOK, InvParts, FailReportFails, ReadyInv, PlaceInv, Knows, HandlerInv
  <2>4. CompletedJobMeansReady'
    BY <1>0, <1>1, <1>14
       DEF TypeOK, InvParts, FailReportFails, CompletedJobMeansReady, PlaceInv, Knows, HandlerInv
  <2> QED BY <2>1, <2>2, <2>3, <2>4 DEF InvParts
<1>15. CASE Finish(w)
  <2>1. HandlerInv'
    BY <1>0, <1>1, <1>15 DEF TypeOK, InvParts, Finish, Queue!Complete, Queue!Fail, HandlerInv
  <2>2. PlaceInv'
    BY <1>0, <1>1, <1>15
       DEF TypeOK, InvParts, Finish, Queue!Complete, Queue!Fail, PlaceInv, Knows, HandlerInv
  <2>3. ReadyInv'
    BY <1>0, <1>1, <1>15
       DEF TypeOK, InvParts, Finish, Queue!Complete, Queue!Fail, ReadyInv, PlaceInv, Knows, HandlerInv
  <2>4. CompletedJobMeansReady'
    BY <1>0, <1>1, <1>15
       DEF TypeOK, InvParts, Finish, Queue!Complete, Queue!Fail, CompletedJobMeansReady, PlaceInv, Knows,
           HandlerInv
  <2> QED BY <2>1, <2>2, <2>3, <2>4 DEF InvParts
<1> QED BY <1>2, <1>3, <1>4, <1>5, <1>6, <1>7, <1>8, <1>9, <1>10, <1>11, <1>12, <1>13, <1>14,
           <1>15 DEF HandlerStep

\* The inductive invariant is kept by every step.
LEMMA InvStep == IInv /\ [Next]_vars => IInv'
<1> SUFFICES ASSUME IInv, [Next]_vars PROVE IInv'
  OBVIOUS
<1>0. TypeOK /\ InvParts
  BY DEF IInv
<1>1. TypeOK'
  BY <1>0, TypeStep DEF InvParts
<1>2. InvParts'
  <2> USE NoneAssumption
  <2>1. ASSUME NEW r \in Reports, Request(r) PROVE InvParts'
    BY <1>0, <2>1 DEF TypeOK, InvParts, Request, Queue!Submit, HandlerInv, PlaceInv, Knows, ReadyInv,
                      CompletedJobMeansReady
  <2>2. ASSUME NEW r \in Reports, LeaseExpires(r) PROVE InvParts'
    BY <1>0, <2>2 DEF TypeOK, InvParts, LeaseExpires, Queue!Fail, HandlerInv, PlaceInv, Knows, ReadyInv,
                      CompletedJobMeansReady
  <2>3. ASSUME NEW w \in Workers, NEW r \in Reports, Claim(w, r) PROVE InvParts'
    <3>1. HandlerInv'
      BY <1>0, <2>3 DEF TypeOK, InvParts, Claim, Queue!Claim, HandlerInv
    <3>2. PlaceInv'
      BY <1>0, <2>3 DEF TypeOK, InvParts, Claim, Queue!Claim, PlaceInv, Knows
    <3>3. ReadyInv' /\ CompletedJobMeansReady'
      BY <1>0, <2>3 DEF TypeOK, InvParts, Claim, Queue!Claim, ReadyInv, CompletedJobMeansReady
    <3> QED BY <3>1, <3>2, <3>3 DEF InvParts
  <2>4. ASSUME NEW w \in Workers, HandlerStep(w) PROVE InvParts'
    BY <2>4, HandlerStepInv
  <2>5. ASSUME NEW w \in Workers, Crash(w) PROVE InvParts'
    BY <1>0, <2>5 DEF TypeOK, InvParts, Crash, HandlerInv, PlaceInv, Knows, ReadyInv, CompletedJobMeansReady
  <2>6. CASE UNCHANGED vars
    BY <1>0, <2>6 DEF vars, InvParts, HandlerInv, PlaceInv, Knows, ReadyInv, CompletedJobMeansReady
  <2> QED BY <2>1, <2>2, <2>3, <2>4, <2>5, <2>6 DEF Next
<1> QED BY <1>1, <1>2 DEF IInv

\* Before the first request it holds.
LEMMA InvInit == Init => IInv
BY NoneAssumption DEF Init, Queue!Init, IInv, InvParts, TypeOK, Bytes, HandlerInv, PlaceInv, ReadyInv,
   CompletedJobMeansReady

-----------------------------------------------------------------------------
(* The theorems.                                                           *)

\* What the places of the handlers say of rows, files and jobs holds in every
\* reachable state (reporting/service.py as a whole).
THEOREM ReportInvariantHolds == Spec => []IInv
BY InvInit, InvStep, PTL DEF Spec

\* Rows, files and locals of the handlers keep their types.
THEOREM ReportTypeCorrect == Spec => []TypeOK
<1>1. IInv => TypeOK
  BY DEF IInv
<1> QED BY ReportInvariantHolds, <1>1, PTL

\* Every READY report passes the checks of its download, whatever failed, crashed
\* or lost its lease while it was written (generate_report, report_download).
THEOREM ReadyReportsAreServed == Spec => []ReadyReportIsServed
<1>1. IInv => ReadyReportIsServed
  BY DEF IInv, InvParts, ReadyInv, ReadyReportIsServed, Download
<1> QED BY ReportInvariantHolds, <1>1, PTL

\* A completed job left a READY report (handle_pdf_generation).
THEOREM CompletedJobsHaveReports == Spec => []CompletedJobMeansReady
<1>1. IInv => CompletedJobMeansReady
  BY DEF IInv, InvParts
<1> QED BY ReportInvariantHolds, <1>1, PTL

\* Nobody writes a decided report's row or file again: its handler has either
\* ended or is past its own transactions (generate_report, fail_report).
THEOREM DecidedReportsStayFrozen == Spec => DecidedReportFrozen
<1> DEFINE Frozen(r) == UNCHANGED <<status[r], recorded[r], published[r]>>
<1>1. ASSUME IInv, NEW r \in Reports, status[r] \in Decided, Next PROVE Frozen(r)
  <2>0. TypeOK /\ HandlerInv /\ PlaceInv
    BY <1>1 DEF IInv, InvParts
  <2>1. ASSUME NEW q \in Reports, Request(q) \/ LeaseExpires(q) PROVE Frozen(r)
    BY <1>1, <2>0, <2>1 DEF TypeOK, Request, LeaseExpires
  <2>2. ASSUME NEW w \in Workers, NEW q \in Reports, Claim(w, q) \/ Crash(w) PROVE Frozen(r)
    BY <2>2 DEF Claim, Crash
  <2>3. ASSUME NEW w \in Workers, HandlerStep(w) PROVE Frozen(r)
    <3>1. at[w] # "idle" => report[w] \in Reports /\ Knows(w)
      BY <2>0, HandlerHasReport, NoneAssumption DEF PlaceInv
    <3>2. CASE MarkGenerating(w) \/ CommitReady(w) \/ AcknowledgementLost(w)
      BY <1>1, <2>0, <3>1, <3>2 DEF TypeOK, Knows, MarkGenerating, CommitReady, AcknowledgementLost
    <3>3. CASE WriteTemporary(w) \/ SyncTemporary(w) \/ Link(w) \/ UnlinkTemporary(w)
      BY <1>1, <2>0, <3>1, <3>3 DEF TypeOK, Knows, FileStep, WriteTemporary, SyncTemporary, Link,
                                    UnlinkTemporary
    <3>4. CASE FailReport(w)
      BY <1>1, <2>0, <3>1, <3>4 DEF TypeOK, FailReport
    <3>5. CASE \/ ReadPayload(w) \/ ReadPayloadFails(w) \/ Render(w) \/ HandlerRaises(w)
               \/ FailReportFails(w) \/ Finish(w)
      BY <3>5 DEF ReadPayload, ReadPayloadFails, Render, HandlerRaises, FailReportFails, Finish
    <3> QED BY <2>3, <3>2, <3>3, <3>4, <3>5 DEF HandlerStep
  <2> QED BY <1>1, <2>1, <2>2, <2>3 DEF Next
<1>2. IInv /\ [Next]_vars => [\A r \in Reports : status[r] \in Decided => Frozen(r)]_vars
  BY <1>1
<1> QED BY <1>2, ReportInvariantHolds, PTL DEF Spec, DecidedReportFrozen

\* The workflow uses the queue as its callers may: every step is a step of
\* JobLifecycle, or leaves the queue alone (create_report, WorkerRuntime).
THEOREM ReportsFollowLifecycle == Spec => Queue!Init /\ [][Queue!Next]_(Queue!vars)
<1>1. Init => Queue!Init
  BY DEF Init
<1>2. ASSUME IInv, Next PROVE [Queue!Next]_(Queue!vars)
  <2>1. ASSUME NEW r \in Reports, Request(r) \/ LeaseExpires(r) PROVE Queue!Next
    BY <2>1 DEF Request, LeaseExpires, Queue!Next
  <2>2. ASSUME NEW w \in Workers, NEW r \in Reports, Claim(w, r) PROVE Queue!Next
    BY <2>2 DEF Claim, Queue!Next
  <2>3. ASSUME NEW w \in Workers, Finish(w) PROVE [Queue!Next]_(Queue!vars)
    <3>1. report[w] \in Reports
      BY <1>2, <2>3, HandlerHasReport DEF IInv, InvParts, Finish
    <3> QED BY <2>3, <3>1 DEF Finish, Queue!Next, Queue!vars
  <2>4. ASSUME NEW w \in Workers, (HandlerStep(w) /\ ~Finish(w)) \/ Crash(w) PROVE UNCHANGED Queue!vars
    BY <2>4 DEF Queue!vars, HandlerStep, Crash, ReadPayload, ReadPayloadFails, MarkGenerating, Render,
                FileStep, WriteTemporary, SyncTemporary, Link, UnlinkTemporary, CommitReady,
                HandlerRaises, AcknowledgementLost, FailReport, FailReportFails
  <2> QED BY <1>2, <2>1, <2>2, <2>3, <2>4 DEF Next
<1>3. IInv /\ [Next]_vars => [Queue!Next]_(Queue!vars)
  BY <1>2 DEF vars, Queue!vars
<1> QED BY <1>1, <1>3, ReportInvariantHolds, PTL DEF Spec
=============================================================================
