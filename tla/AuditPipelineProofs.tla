------------------------- MODULE AuditPipelineProofs -------------------------
(***************************************************************************)
(* Theorems about audits, for any finite sets of audits and jobs, and any  *)
(* snapshots, profiles and Knowledge Packs.                                *)
(***************************************************************************)
EXTENDS AuditPipeline, FiniteSetTheorems, TLAPS

USE DEF identity, pins, outputs, row, queue, locals, AuditOf, Set, Goto

\* A job is enqueued in the transaction that queues its audit, which has no other
\* (start_audit, reevaluation.start); its handler begins with the claim.
JobInv ==
  /\ \A j \in Jobs : phase[j] = "absent" => jobAudit[j] = None
  /\ \A j \in Jobs : phase[j] # "absent" => jobAudit[j] \in Existing /\ status[jobAudit[j]] # "draft"
  /\ \A i, j \in Jobs : jobAudit[i] # None /\ jobAudit[i] = jobAudit[j] => i = j
  /\ \A j \in Jobs : phase[j] \in {"absent", "queued"} => at[j] = "idle"
  /\ \A j \in Jobs : phase[j] = "queued" => status[jobAudit[j]] = "queued"

\* The places from which on something has been done.
AfterRules == {"findings", "finalize"}
AfterStates == {"pin_rules"} \cup AfterRules
AfterFacts == {"pin_resolving", "states"} \cup AfterStates
AfterPin == {"parse", "facts"} \cup AfterFacts
AfterLoad == {"pin_parsing"} \cup AfterPin
AfterIdentify == {"assess", "load"} \cup AfterLoad
AfterBegin == {"identify", "identified", "reject"} \cup AfterIdentify

\* What a handler may rely on, although it holds no lock between its transactions:
\* nobody else writes the audit of its job (AuditPipelineCoordinator.run).
Knows(j) ==
  LET a == AuditOf(j) IN
  /\ at[j] \in {"start", "begin"} => status[a] = "queued"
  /\ at[j] \in AfterBegin => status[a] = "processing"
  /\ at[j] = "identified" => profile[j] \in Profiles \cup {Unresolved}
  /\ at[j] \in AfterIdentify => profile[j] \in Profiles /\ resolution[a] = profile[j]
  /\ at[j] \in AfterLoad => pack[j] \in Packs \cup {Baseline}
  /\ at[j] \in AfterPin => pinProfile[a] = profile[j] /\ pinPack[a] = pack[j]
  /\ at[j] \in AfterFacts => facts[a] = pack[j]
  /\ at[j] \in AfterStates => states[a] = pack[j]
  /\ at[j] \in AfterRules => pinRules[a]
  /\ at[j] = "finalize" => findings[a] = outcome[j] /\ outcome[j] \in VerdictClasses
  /\ at[j] = "return" => status[a] \in Terminal

PlaceInv == \A j \in Jobs : at[j] # "idle" => Knows(j)

\* What the inserts leave in the columns that nothing updates (create_audit,
\* reevaluation.start).
InsertInv ==
  /\ \A a \in Existing : snapshotOf[a] \in Snapshots
  /\ \A a \in Audits \ Existing : previous[a] = None
  /\ \A a \in Existing : previous[a] # None => pinPack[a] # None

\* OneOpenReevaluation without counting.
NoTwoOpen ==
  \A source \in Audits, target \in Packs :
    \A a, b \in OpenReevaluations(source, target) : a = b

IInv ==
  /\ TypeOK
  /\ JobInv
  /\ PlaceInv
  /\ InsertInv
  /\ CompletedIsWhole
  /\ CompletedJobDecidesAudit
  /\ RevisionChain
  /\ NoTwoOpen

-----------------------------------------------------------------------------
(* What a step leaves alone.                                               *)

\* A job that was claimed has an audit, which exists and was submitted.
LEMMA ClaimedHasAudit ==
  ASSUME TypeOK, JobInv, NEW j \in Jobs, at[j] # "idle"
  PROVE  jobAudit[j] \in Existing /\ status[jobAudit[j]] # "draft" /\ jobAudit[j] # None
BY RowsAssumption DEF TypeOK, JobInv, Existing

\* What belongs to the handlers of other jobs, and to nobody.
Owns(j) ==
  /\ \A k \in Jobs \ {j} :
       UNCHANGED <<at[k], profile[k], pack[k], outcome[k], phase[k], claims[k]>>
  /\ UNCHANGED <<jobAudit, snapshotOf, revision, previous, snapshotStatus, published>>
  /\ \A a \in Audits \ {jobAudit[j]} :
       UNCHANGED <<status[a], stage[a], resolution[a], pinProfile[a], pinPack[a], pinRules[a],
                   facts[a], states[a], findings[a]>>

\* A handler writes its own locals and the row of its job's audit
\* (AuditJobHandler, AuditPipelineCoordinator).
LEMMA HandlerOwns ==
  ASSUME TypeOK, NEW j \in Jobs, HandlerStep(j)
  PROVE  Owns(j)
<1>1. CASE HandlerStart(j)
  BY <1>1 DEF TypeOK, HandlerStart, Owns
<1>2. CASE BeginProcessing(j)
  BY <1>2 DEF TypeOK, BeginProcessing, Owns
<1>3. CASE IdentifyProfile(j)
  BY <1>3 DEF TypeOK, IdentifyProfile, Owns
<1>4. CASE ReuseProfile(j)
  BY <1>4 DEF TypeOK, ReuseProfile, Owns
<1>5. CASE Reject(j)
  BY <1>5 DEF TypeOK, Reject, Owns
<1>6. CASE PinAssessment(j)
  BY <1>6 DEF TypeOK, PinAssessment, Owns
<1>7. CASE LoadPack(j)
  BY <1>7 DEF TypeOK, LoadPack, Owns
<1>8. CASE PinParsing(j)
  BY <1>8 DEF TypeOK, PinParsing, PinVersions, Owns
<1>9. CASE PinInterpreting(j)
  BY <1>9 DEF TypeOK, PinInterpreting, PinVersions, Owns
<1>10. CASE PersistFacts(j)
  BY <1>10 DEF TypeOK, PersistFacts, Owns
<1>11. CASE PinResolving(j)
  BY <1>11 DEF TypeOK, PinResolving, PinVersions, Owns
<1>12. CASE ResolveStates(j)
  BY <1>12 DEF TypeOK, ResolveStates, Owns
<1>13. CASE PinRules(j)
  BY <1>13 DEF TypeOK, PinRules, Owns
<1>14. CASE PersistFindings(j)
  BY <1>14 DEF TypeOK, PersistFindings, Owns
<1>15. CASE Finalize(j)
  BY <1>15 DEF TypeOK, Finalize, TerminalStatus, VerdictClasses, Owns
<1>16. CASE Raise(j)
  BY <1>16 DEF TypeOK, Raise, Working, Owns
<1>17. CASE MarkFailed(j)
  BY <1>17 DEF TypeOK, MarkFailed, Owns
<1>18. CASE Finish(j)
  BY <1>18 DEF TypeOK, Finish, Queue!Complete, Queue!Fail, Owns
<1>19. CASE PersistResolution(j)
  BY <1>19 DEF TypeOK, PersistResolution, Owns
<1> QED BY <1>1, <1>2, <1>3, <1>4, <1>5, <1>6, <1>7, <1>8, <1>9, <1>10, <1>11, <1>12, <1>13, <1>14, <1>15,
           <1>16, <1>17, <1>18, <1>19 DEF HandlerStep

-----------------------------------------------------------------------------
(* Types.                                                                  *)

\* A handler writes only values of the columns' types (pipeline.py).
LEMMA HandlerType ==
  ASSUME TypeOK, JobInv, PlaceInv, NEW j \in Jobs, HandlerStep(j)
  PROVE  TypeOK'
<1>0. at[j] # "idle" => jobAudit[j] \in Existing /\ Knows(j)
  BY ClaimedHasAudit DEF PlaceInv
<1> USE DEF Existing, Places, Statuses, Terminal, Completed, Open, Stages
<1>1. CASE HandlerStart(j)
  BY <1>0, <1>1 DEF TypeOK, HandlerStart, Working
<1>2. CASE BeginProcessing(j)
  BY <1>0, <1>2 DEF TypeOK, BeginProcessing, Working
<1>3. CASE IdentifyProfile(j)
  BY <1>0, <1>3 DEF TypeOK, IdentifyProfile, Working
<1>4. CASE ReuseProfile(j)
  BY <1>0, <1>4 DEF TypeOK, ReuseProfile, Working
<1>5. CASE Reject(j)
  BY <1>0, <1>5 DEF TypeOK, Reject, Working
<1>6. CASE PinAssessment(j)
  BY <1>0, <1>6 DEF TypeOK, PinAssessment, Working
<1>7. CASE LoadPack(j)
  BY <1>0, <1>7 DEF TypeOK, LoadPack, Working
<1>8. CASE PinParsing(j)
  BY <1>0, <1>8
     DEF TypeOK, PinParsing, PinVersions, Working, Knows, AfterRules, AfterStates, AfterFacts, AfterPin,
         AfterLoad, AfterIdentify, AfterBegin
<1>9. CASE PinInterpreting(j)
  BY <1>0, <1>9
     DEF TypeOK, PinInterpreting, PinVersions, Working, Knows, AfterRules, AfterStates, AfterFacts,
         AfterPin, AfterLoad, AfterIdentify, AfterBegin
<1>10. CASE PersistFacts(j)
  BY <1>0, <1>10 DEF TypeOK, PersistFacts, Working
<1>11. CASE PinResolving(j)
  BY <1>0, <1>11
     DEF TypeOK, PinResolving, PinVersions, Working, Knows, AfterRules, AfterStates, AfterFacts, AfterPin,
         AfterLoad, AfterIdentify, AfterBegin
<1>12. CASE ResolveStates(j)
  BY <1>0, <1>12 DEF TypeOK, ResolveStates, Working
<1>13. CASE PinRules(j)
  BY <1>0, <1>13 DEF TypeOK, PinRules, Working
<1>14. CASE PersistFindings(j)
  BY <1>0, <1>14 DEF TypeOK, PersistFindings, Working
<1>15. CASE Finalize(j)
  BY <1>0, <1>15
     DEF TypeOK, Finalize, TerminalStatus, VerdictClasses, Working, Knows, AfterRules, AfterStates,
         AfterFacts, AfterPin, AfterLoad, AfterIdentify, AfterBegin
<1>16. CASE Raise(j)
  BY <1>0, <1>16 DEF TypeOK, Raise, Working
<1>17. CASE MarkFailed(j)
  BY <1>0, <1>17 DEF TypeOK, MarkFailed, Working
<1>18. CASE Finish(j)
  BY <1>0, <1>18 DEF TypeOK, Finish, Queue!Complete, Queue!Fail, Working
<1>19. CASE PersistResolution(j)
  BY <1>0, <1>19 DEF TypeOK, PersistResolution, Working
<1> QED BY <1>1, <1>2, <1>3, <1>4, <1>5, <1>6, <1>7, <1>8, <1>9, <1>10, <1>11, <1>12, <1>13, <1>14, <1>15,
           <1>16, <1>17, <1>18, <1>19 DEF HandlerStep

\* The revisions of a snapshot are numbered from 1, so that the latest number is
\* how many there are.
LEMMA LatestIsCount ==
  ASSUME TypeOK, InsertInv, RevisionChain, NEW source \in Existing
  PROVE  LET s == snapshotOf[source]
         IN /\ s \in Snapshots
            /\ IsFiniteSet(OfSnapshot(s)) /\ Cardinality(OfSnapshot(s)) \in Nat
            /\ LatestRevision(s) = Cardinality(OfSnapshot(s))
<1> DEFINE s == snapshotOf[source]
           n == Cardinality(OfSnapshot(s))
<1>1. s \in Snapshots /\ source \in OfSnapshot(s)
  BY DEF InsertInv, OfSnapshot
<1>2. IsFiniteSet(OfSnapshot(s)) /\ n \in Nat
  <2>1. OfSnapshot(s) \subseteq Audits
    BY DEF OfSnapshot, Existing
  <2> QED BY <2>1, RowsAssumption, FS_Subset, FS_CardinalityType
<1>3. {revision[a] : a \in OfSnapshot(s)} = 1 .. n
  BY <1>1 DEF RevisionChain
<1>4. n \in {revision[a] : a \in OfSnapshot(s)} /\ \A a \in OfSnapshot(s) : revision[a] <= n
  <2>1. revision[source] \in 1 .. n
    BY <1>1, <1>3
  <2> QED BY <1>2, <1>3, <2>1
<1>5. \A m \in {revision[a] : a \in OfSnapshot(s)} :
        (\A a \in OfSnapshot(s) : revision[a] <= m) => m = n
  <2> SUFFICES ASSUME NEW m \in 1 .. n, \A a \in OfSnapshot(s) : revision[a] <= m PROVE m = n
    BY <1>3
  <2>1. n <= m
    BY <1>4
  <2> QED BY <1>2, <2>1
<1>6. LatestRevision(s) = n
  BY <1>4, <1>5 DEF LatestRevision
<1> QED BY <1>1, <1>2, <1>6

\* Every step keeps every column and every local of a handler in its type
\* (db/models/audit.py, AuditPipelineCoordinator).
LEMMA TypeStep == IInv /\ [Next]_vars => TypeOK'
<1> SUFFICES ASSUME IInv, [Next]_vars PROVE TypeOK'
  OBVIOUS
<1>0. TypeOK /\ JobInv /\ PlaceInv /\ InsertInv /\ RevisionChain
  BY DEF IInv
<1> USE DEF Existing, Statuses, Terminal, Completed, Open
<1>1. ASSUME NEW a \in Audits, NEW s \in Snapshots, CreateAudit(a, s) PROVE TypeOK'
  BY <1>0, <1>1 DEF TypeOK, CreateAudit
<1>2. ASSUME NEW a \in Audits, NEW j \in Jobs, StartAudit(a, j) PROVE TypeOK'
  BY <1>0, <1>2 DEF TypeOK, StartAudit, Enqueue, Queue!Submit
<1>3. ASSUME NEW a \in Audits, NEW source \in Audits, NEW target \in Packs, NEW j \in Jobs,
             StartReevaluation(a, source, target, j)
      PROVE  TypeOK'
  <2>1. LatestRevision(snapshotOf[source]) + 1 \in Nat \ {0}
    <3>1. source \in Existing
      BY <1>3 DEF StartReevaluation
    <3> QED BY <1>0, <3>1, LatestIsCount
  <2> HIDE DEF Existing
  <2>2. \A b \in Existing' : b = a \/ b \in Existing
    BY <1>0, <1>3 DEF TypeOK, StartReevaluation, InsertRevision, Existing
  <2>3. revision' \in [Audits -> Nat] /\ \A b \in Existing' : revision'[b] >= 1
    BY <1>0, <1>3, <2>1, <2>2 DEF TypeOK, StartReevaluation, InsertRevision
  <2> QED BY <1>0, <1>3, <2>3 DEF TypeOK, StartReevaluation, InsertRevision, Enqueue, Queue!Submit
<1>4. ASSUME NEW p \in Packs, PublishPack(p) PROVE TypeOK'
  BY <1>0, <1>4 DEF TypeOK, PublishPack
<1>5. ASSUME NEW j \in Jobs, Claim(j) \/ Crash(j) \/ Recover(j) PROVE TypeOK'
  BY <1>0, <1>5 DEF TypeOK, Claim, Crash, Recover, Queue!Claim, Queue!Fail, Places, Working
<1>6. ASSUME NEW j \in Jobs, HandlerStep(j) PROVE TypeOK'
  BY <1>0, <1>6, HandlerType
<1>7. CASE UNCHANGED vars
  BY <1>0, <1>7 DEF TypeOK, vars
<1> QED BY <1>1, <1>2, <1>3, <1>4, <1>5, <1>6, <1>7 DEF Next, Request

-----------------------------------------------------------------------------
(* What happens to an audit that exists.                                   *)

\* Its identity stays, its pins stay once set, and a decided audit stays as it is.
Kept(a) ==
  /\ status'[a] # "absent" /\ (status'[a] = "draft" => status[a] = "draft")
  /\ UNCHANGED <<snapshotOf[a], revision[a], previous[a]>>
  /\ pinProfile[a] # None => UNCHANGED pinProfile[a]
  /\ pinPack[a] # None => UNCHANGED pinPack[a]
  /\ pinRules[a] => pinRules'[a]
  /\ status[a] \in Terminal =>
       UNCHANGED <<status[a], stage[a], resolution[a], pinProfile[a], pinPack[a], pinRules[a],
                   facts[a], states[a], findings[a]>>

\* A handler works on an audit that is not decided, until it returns or raises.
LEMMA HandlerKeeps ==
  ASSUME TypeOK, JobInv, PlaceInv, NEW j \in Jobs, HandlerStep(j), NEW a \in Existing
  PROVE  Kept(a)
<1>0. Owns(j)
  BY HandlerOwns
<1>a. CASE a # jobAudit[j]
  BY <1>0, <1>a DEF Owns, Kept, Existing
<1>b. CASE a = jobAudit[j]
  <2>0. at[j] # "idle" => Knows(j)
    BY DEF PlaceInv
  <2> USE
         DEF Existing, Terminal, Completed, TypeOK, Knows, AfterRules, AfterStates, AfterFacts, AfterPin,
             AfterLoad, AfterIdentify, AfterBegin
  <2>1. CASE HandlerStart(j)
    BY <1>b, <2>0, <2>1 DEF HandlerStart, Kept
  <2>2. CASE BeginProcessing(j)
    BY <1>b, <2>0, <2>2 DEF BeginProcessing, Kept
  <2>3. CASE IdentifyProfile(j)
    BY <1>b, <2>0, <2>3 DEF IdentifyProfile, Kept
  <2>4. CASE ReuseProfile(j)
    BY <1>b, <2>0, <2>4 DEF ReuseProfile, Kept
  <2>5. CASE Reject(j)
    BY <1>b, <2>0, <2>5 DEF Reject, Kept
  <2>6. CASE PinAssessment(j)
    BY <1>b, <2>0, <2>6 DEF PinAssessment, Kept
  <2>7. CASE LoadPack(j)
    BY <1>b, <2>0, <2>7 DEF LoadPack, Kept
  <2>8. CASE PinParsing(j)
    BY <1>b, <2>0, <2>8 DEF PinParsing, PinVersions, Kept
  <2>9. CASE PinInterpreting(j)
    BY <1>b, <2>0, <2>9 DEF PinInterpreting, PinVersions, Kept
  <2>10. CASE PersistFacts(j)
    BY <1>b, <2>0, <2>10 DEF PersistFacts, Kept
  <2>11. CASE PinResolving(j)
    BY <1>b, <2>0, <2>11 DEF PinResolving, PinVersions, Kept
  <2>12. CASE ResolveStates(j)
    BY <1>b, <2>0, <2>12 DEF ResolveStates, Kept
  <2>13. CASE PinRules(j)
    BY <1>b, <2>0, <2>13 DEF PinRules, Kept
  <2>14. CASE PersistFindings(j)
    BY <1>b, <2>0, <2>14 DEF PersistFindings, Kept
  <2>15. CASE Finalize(j)
    BY <1>b, <2>0, <2>15 DEF Finalize, TerminalStatus, VerdictClasses, Kept
  <2>16. CASE Raise(j)
    BY <1>b, <2>0, <2>16 DEF Raise, Working, Kept
  <2>17. CASE MarkFailed(j)
    BY <1>b, <2>0, <2>17 DEF MarkFailed, Kept
  <2>18. CASE Finish(j)
    BY <1>b, <2>0, <2>18 DEF Finish, Queue!Complete, Queue!Fail, Kept
  <2>19. CASE PersistResolution(j)
    BY <1>b, <2>0, <2>19 DEF PersistResolution, Kept
  <2> QED BY <2>1, <2>2, <2>3, <2>4, <2>5, <2>6, <2>7, <2>8, <2>9, <2>10, <2>11, <2>12, <2>13, <2>14,
             <2>15, <2>16, <2>17, <2>18, <2>19 DEF HandlerStep
<1> QED BY <1>a, <1>b

\* Nor does the API, the queue or recovery touch what an audit has settled.
LEMMA StepKeeps ==
  ASSUME TypeOK, JobInv, PlaceInv, Next, NEW a \in Existing
  PROVE  Kept(a)
<1> USE DEF Existing, Terminal, Completed
<1>1. ASSUME NEW b \in Audits, NEW s \in Snapshots, CreateAudit(b, s) PROVE Kept(a)
  BY <1>1 DEF TypeOK, CreateAudit, FreshAudit, Kept
<1>2. ASSUME NEW b \in Audits, NEW j \in Jobs, StartAudit(b, j) PROVE Kept(a)
  BY <1>2 DEF TypeOK, StartAudit, Kept
<1>3. ASSUME NEW b \in Audits, NEW source \in Audits, NEW target \in Packs, NEW j \in Jobs,
             StartReevaluation(b, source, target, j)
      PROVE  Kept(a)
  BY <1>3 DEF TypeOK, StartReevaluation, InsertRevision, FreshAudit, Kept
<1>4. ASSUME NEW p \in Packs, PublishPack(p) PROVE Kept(a)
  BY <1>4 DEF PublishPack, Kept
<1>5. ASSUME NEW j \in Jobs, Claim(j) \/ Crash(j) \/ Recover(j) PROVE Kept(a)
  BY <1>5 DEF Claim, Crash, Recover, Kept
<1>6. ASSUME NEW j \in Jobs, HandlerStep(j) PROVE Kept(a)
  BY <1>6, HandlerKeeps
<1> QED BY <1>1, <1>2, <1>3, <1>4, <1>5, <1>6 DEF Next, Request

-----------------------------------------------------------------------------
(* Jobs and their handlers.                                                *)

\* A handler never leaves its audit without status, nor takes it back.
LEMMA HandlerJob ==
  ASSUME TypeOK, JobInv, PlaceInv, NEW j \in Jobs, HandlerStep(j)
  PROVE  JobInv'
<1>0. Owns(j)
  BY HandlerOwns
<1>1. at[j] # "idle" /\ phase[j] \notin {"absent", "queued"}
  BY
     DEF JobInv, HandlerStep, Working, HandlerStart, BeginProcessing, IdentifyProfile, PersistResolution,
         ReuseProfile, Reject, PinAssessment, LoadPack, PinParsing, PinInterpreting, PersistFacts, PinResolving,
         ResolveStates, PinRules, PersistFindings, Finalize, Raise, MarkFailed, Finish
<1>2. jobAudit[j] \in Existing /\ jobAudit[j] # None
  BY <1>1, ClaimedHasAudit
<1>3. \A a \in Existing : Kept(a)
  BY HandlerKeeps
<1>4. at'[j] # "idle" /\ phase'[j] \notin {"absent", "queued"}
  BY <1>1
     DEF TypeOK, HandlerStep, HandlerStart, BeginProcessing, IdentifyProfile, PersistResolution,
         ReuseProfile, Reject, PinAssessment, LoadPack, PinParsing, PinInterpreting, PersistFacts,
         PinResolving, ResolveStates,
         PinRules, PersistFindings, Finalize, Raise, MarkFailed, Finish, PinVersions, Queue!Complete,
         Queue!Fail
<1>5. \A k \in Jobs : phase[k] # "absent" <=> phase'[k] # "absent"
  BY <1>0, <1>1, <1>4 DEF Owns
<1>6. \A k \in Jobs : phase[k] # "absent" => jobAudit'[k] \in Existing' /\ status'[jobAudit'[k]] # "draft"
  <2> SUFFICES ASSUME NEW k \in Jobs, phase[k] # "absent"
               PROVE  jobAudit'[k] \in Existing' /\ status'[jobAudit'[k]] # "draft"
    OBVIOUS
  <2>1. jobAudit[k] \in Existing /\ status[jobAudit[k]] # "draft"
    BY DEF JobInv
  <2> QED BY <1>0, <1>3, <2>1 DEF Owns, Kept, Existing
<1>7. \A k \in Jobs : phase'[k] = "queued" => status'[jobAudit'[k]] = "queued"
  <2> SUFFICES ASSUME NEW k \in Jobs, phase'[k] = "queued" PROVE status'[jobAudit'[k]] = "queued"
    OBVIOUS
  <2>1. k # j /\ phase[k] = "queued"
    BY <1>0, <1>4 DEF Owns
  <2>2. jobAudit[k] \in Audits \ {jobAudit[j]} /\ status[jobAudit[k]] = "queued"
    BY <2>1, <1>2 DEF JobInv, Existing
  <2> QED BY <1>0, <2>2 DEF Owns
<1> QED BY <1>0, <1>1, <1>4, <1>5, <1>6, <1>7 DEF JobInv, Owns

\* What a handler relies on for its next step is what its step left; what the others
\* rely on is not touched.
LEMMA HandlerPlace ==
  ASSUME TypeOK, JobInv, PlaceInv, NEW j \in Jobs, HandlerStep(j)
  PROVE  PlaceInv'
<1>0. Owns(j)
  BY HandlerOwns
<1>1. at[j] # "idle" => jobAudit[j] \in Existing /\ Knows(j)
  BY ClaimedHasAudit DEF PlaceInv
<1>2. ASSUME NEW k \in Jobs \ {j}, at'[k] # "idle" PROVE Knows(k)'
  <2>1. at[k] # "idle"
    BY <1>0, <1>2 DEF Owns
  <2>2. jobAudit[k] \in Audits \ {jobAudit[j]} /\ Knows(k)
    BY <2>1, ClaimedHasAudit DEF JobInv, PlaceInv, Existing
  <2> QED BY <1>0, <2>2 DEF Owns, Knows
<1>3. ASSUME at'[j] # "idle" PROVE Knows(j)'
  <2> USE RowsAssumption, VersionsAssumption
      DEF TypeOK, Existing, Knows, Terminal, Completed, AfterRules, AfterStates, AfterFacts, AfterPin,
          AfterLoad, AfterIdentify, AfterBegin
  <2>1. CASE HandlerStart(j)
    BY <1>1, <2>1 DEF HandlerStart
  <2>2. CASE BeginProcessing(j)
    BY <1>1, <2>2 DEF BeginProcessing
  <2>3. CASE IdentifyProfile(j)
    BY <1>1, <2>3 DEF IdentifyProfile
  <2>4. CASE ReuseProfile(j)
    BY <1>1, <2>4 DEF ReuseProfile
  <2>5. CASE Reject(j)
    BY <1>1, <2>5 DEF Reject
  <2>6. CASE PinAssessment(j)
    BY <1>1, <2>6 DEF PinAssessment
  <2>7. CASE LoadPack(j)
    <3> DEFINE a == jobAudit[j]
    <3>1. /\ at[j] = "load" /\ at'[j] = "pin_parsing"
          /\ status' = status /\ resolution' = resolution /\ profile' = profile /\ jobAudit' = jobAudit
          /\ a \in Audits
      BY <1>1, <2>7 DEF LoadPack
    <3>2. status[a] = "processing" /\ profile[j] \in Profiles /\ resolution[a] = profile[j]
      BY <1>1, <3>1
    <3>3. pack'[j] \in Packs \cup {Baseline}
      <4>1. pinPack[a] \in Packs \cup {Baseline, None} /\ published \subseteq Packs /\ j \in DOMAIN pack
        BY <3>1
      <4>2. PICK p \in IF pinPack[a] = None THEN published \cup {Baseline} ELSE {pinPack[a]} :
              pack' = [pack EXCEPT ![j] = p]
        BY <2>7 DEF LoadPack
      <4> QED BY <4>1, <4>2
    <3>4. AuditOf(j)' = a
      BY <3>1
    <3> HIDE DEF a
    <3> QED BY <3>1, <3>2, <3>3, <3>4
  <2>8. CASE PinParsing(j)
    BY <1>1, <2>8 DEF PinParsing, PinVersions
  <2>9. CASE PinInterpreting(j)
    BY <1>1, <2>9 DEF PinInterpreting, PinVersions
  <2>10. CASE PersistFacts(j)
    BY <1>1, <2>10 DEF PersistFacts
  <2>11. CASE PinResolving(j)
    BY <1>1, <2>11 DEF PinResolving, PinVersions
  <2>12. CASE ResolveStates(j)
    BY <1>1, <2>12 DEF ResolveStates
  <2>13. CASE PinRules(j)
    BY <1>1, <2>13 DEF PinRules
  <2>14. CASE PersistFindings(j)
    BY <1>1, <2>14 DEF PersistFindings
  <2>15. CASE Finalize(j)
    BY <1>1, <2>15 DEF Finalize, TerminalStatus, VerdictClasses
  <2>16. CASE Raise(j)
    BY <1>1, <2>16 DEF Raise, Working
  <2>17. CASE MarkFailed(j)
    BY <1>1, <2>17 DEF MarkFailed
  <2>18. CASE Finish(j)
    BY <1>1, <2>18 DEF Finish, Queue!Complete, Queue!Fail
  <2>19. CASE PersistResolution(j)
    BY <1>1, <2>19 DEF PersistResolution
  <2> QED BY <2>1, <2>2, <2>3, <2>4, <2>5, <2>6, <2>7, <2>8, <2>9, <2>10, <2>11, <2>12, <2>13, <2>14,
             <2>15, <2>16, <2>17, <2>18, <2>19 DEF HandlerStep
<1> QED BY <1>2, <1>3 DEF PlaceInv

\* Nor do submissions, claims, crashes and recovery: a job is enqueued with an audit
\* that no other job names (start_audit, reevaluation.start, enqueue_job).
LEMMA JobStep == IInv /\ Next => JobInv' /\ PlaceInv'
<1> SUFFICES ASSUME IInv, Next PROVE JobInv' /\ PlaceInv'
  OBVIOUS
<1>0. TypeOK /\ JobInv /\ PlaceInv
  BY DEF IInv
<1> USE RowsAssumption
<1>1. ASSUME NEW a \in Audits, NEW s \in Snapshots, CreateAudit(a, s) PROVE JobInv' /\ PlaceInv'
  <2>1. \A j \in Jobs : jobAudit[j] # None => jobAudit[j] \in Audits \ {a}
    BY <1>0, <1>1 DEF TypeOK, JobInv, CreateAudit, FreshAudit, Existing
  <2>2. JobInv'
    BY <1>0, <1>1, <2>1 DEF TypeOK, JobInv, CreateAudit, Existing
  <2>3. PlaceInv'
    <3> SUFFICES ASSUME NEW j \in Jobs, at[j] # "idle" PROVE Knows(j)'
      BY <1>1 DEF CreateAudit, PlaceInv
    <3>1. Knows(j) /\ jobAudit[j] \in Audits \ {a}
      BY <1>0, <2>1, ClaimedHasAudit DEF PlaceInv
    <3> QED BY <1>0, <1>1, <3>1 DEF TypeOK, CreateAudit, Knows
  <2> QED BY <2>2, <2>3
<1>2. ASSUME NEW a \in Audits, NEW j \in Jobs, StartAudit(a, j) PROVE JobInv' /\ PlaceInv'
  <2>1. \A k \in Jobs : jobAudit[k] # a
    BY <1>0, <1>2 DEF TypeOK, JobInv, StartAudit, Existing
  <2>2. JobInv'
    BY <1>0, <1>2, <2>1 DEF TypeOK, JobInv, StartAudit, Enqueue, Queue!Submit, FreshJob, Existing
  <2>3. PlaceInv'
    <3> SUFFICES ASSUME NEW k \in Jobs, at[k] # "idle" PROVE Knows(k)'
      BY <1>2 DEF StartAudit, PlaceInv
    <3>1. k # j /\ Knows(k) /\ jobAudit[k] \in Audits \ {a}
      BY <1>0, <1>2, <2>1, ClaimedHasAudit DEF PlaceInv, JobInv, StartAudit, Enqueue, FreshJob, Existing
    <3> QED BY <1>0, <1>2, <3>1 DEF TypeOK, StartAudit, Enqueue, Knows
  <2> QED BY <2>2, <2>3
<1>3. ASSUME NEW a \in Audits, NEW source \in Audits, NEW target \in Packs, NEW j \in Jobs,
             StartReevaluation(a, source, target, j)
      PROVE  JobInv' /\ PlaceInv'
  <2>1. \A k \in Jobs : jobAudit[k] # a
    BY <1>0, <1>3 DEF TypeOK, JobInv, StartReevaluation, InsertRevision, FreshAudit, Existing
  <2>2. JobInv'
    BY <1>0, <1>3, <2>1
       DEF TypeOK, JobInv, StartReevaluation, InsertRevision, Enqueue, Queue!Submit, FreshJob,
                            Existing
  <2>3. PlaceInv'
    <3> SUFFICES ASSUME NEW k \in Jobs, at[k] # "idle" PROVE Knows(k)'
      BY <1>3 DEF StartReevaluation, InsertRevision, PlaceInv
    <3>1. k # j /\ Knows(k) /\ jobAudit[k] \in Audits \ {a}
      BY <1>0, <1>3, <2>1, ClaimedHasAudit
         DEF PlaceInv, JobInv, StartReevaluation, Enqueue, FreshJob, Existing
    <3> QED BY <1>0, <1>3, <3>1 DEF TypeOK, StartReevaluation, InsertRevision, Enqueue, Knows
  <2> QED BY <2>2, <2>3
<1>4. ASSUME NEW p \in Packs, PublishPack(p) PROVE JobInv' /\ PlaceInv'
  BY <1>0, <1>4 DEF PublishPack, JobInv, PlaceInv, Knows, Existing
<1>5. ASSUME NEW j \in Jobs, Claim(j) PROVE JobInv' /\ PlaceInv'
  <2>1. JobInv'
    BY <1>0, <1>5 DEF TypeOK, Claim, Queue!Claim, JobInv, Existing
  <2>2. PlaceInv'
    BY <1>0, <1>5
       DEF TypeOK, Claim, Queue!Claim, JobInv, PlaceInv, Knows, AfterRules, AfterStates, AfterFacts,
           AfterPin, AfterLoad, AfterIdentify, AfterBegin
  <2> QED BY <2>1, <2>2
<1>6. ASSUME NEW j \in Jobs, Crash(j) PROVE JobInv' /\ PlaceInv'
  BY <1>0, <1>6
     DEF TypeOK, Crash, JobInv, PlaceInv, Knows, Existing, AfterRules, AfterStates, AfterFacts, AfterPin,
         AfterLoad, AfterIdentify, AfterBegin
<1>7. ASSUME NEW j \in Jobs, Recover(j) PROVE JobInv' /\ PlaceInv'
  BY <1>0, <1>7 DEF TypeOK, Recover, Queue!Fail, JobInv, PlaceInv, Knows, Existing
<1>8. ASSUME NEW j \in Jobs, HandlerStep(j) PROVE JobInv' /\ PlaceInv'
  BY <1>0, <1>8, HandlerJob, HandlerPlace
<1> QED BY <1>1, <1>2, <1>3, <1>4, <1>5, <1>6, <1>7, <1>8 DEF Next, Request

-----------------------------------------------------------------------------
(* Rows that are inserted, and audits that are completed.                  *)

\* Rows are inserted by create_audit and by reevaluation.start, one at a time.
LEMMA StepInserts ==
  ASSUME TypeOK, JobInv, PlaceInv, Next
  PROVE  \/ Existing' = Existing /\ UNCHANGED identity
         \/ \E a \in Audits, s \in Snapshots : CreateAudit(a, s)
         \/ \E a, source \in Audits, target \in Packs, j \in Jobs : StartReevaluation(a, source, target, j)
<1>1. ASSUME NEW a \in Audits, NEW j \in Jobs, StartAudit(a, j)
      PROVE  Existing' = Existing /\ UNCHANGED identity
  BY <1>1 DEF TypeOK, StartAudit, Existing
<1>2. ASSUME NEW p \in Packs, PublishPack(p) PROVE Existing' = Existing /\ UNCHANGED identity
  BY <1>2 DEF PublishPack, Existing
<1>3. ASSUME NEW j \in Jobs, Claim(j) \/ Crash(j) \/ Recover(j)
      PROVE  Existing' = Existing /\ UNCHANGED identity
  BY <1>3 DEF Claim, Crash, Recover, Existing
<1>4. ASSUME NEW j \in Jobs, HandlerStep(j) PROVE Existing' = Existing /\ UNCHANGED identity
  <2>1. Owns(j) /\ \A a \in Existing : Kept(a)
    BY <1>4, HandlerOwns, HandlerKeeps
  <2>2. \A a \in Audits : a \in Existing' <=> a \in Existing
    <3> SUFFICES ASSUME NEW a \in Audits, a \notin Existing PROVE a \notin Existing'
      BY <2>1 DEF Kept, Existing
    <3>1. at[j] # "idle"
      BY <1>4
         DEF HandlerStep, Working, HandlerStart, BeginProcessing, IdentifyProfile, PersistResolution,
             ReuseProfile, Reject, PinAssessment, LoadPack,
          PinParsing, PinInterpreting, PersistFacts, PinResolving, ResolveStates, PinRules, PersistFindings,
          Finalize, Raise, MarkFailed, Finish
    <3>2. a # jobAudit[j]
      BY <3>1, ClaimedHasAudit
    <3> QED BY <2>1, <3>2 DEF Owns, Existing
  <2> QED BY <2>1, <2>2 DEF Owns, Existing
<1> QED BY <1>1, <1>2, <1>3, <1>4 DEF Next, Request

\* An inserted row names its snapshot, and a re-evaluation its pack, from the start.
LEMMA InsertStep == IInv /\ Next => InsertInv'
<1> SUFFICES ASSUME IInv, Next PROVE InsertInv'
  OBVIOUS
<1>0. TypeOK /\ JobInv /\ PlaceInv /\ InsertInv
  BY DEF IInv
<1>1. \A a \in Existing : Kept(a)
  BY <1>0, StepKeeps
<1>2. CASE Existing' = Existing /\ UNCHANGED identity
  BY <1>0, <1>1, <1>2 DEF InsertInv, Kept
<1>3. ASSUME NEW a \in Audits, NEW s \in Snapshots, CreateAudit(a, s) PROVE InsertInv'
  BY <1>0, <1>3 DEF TypeOK, InsertInv, CreateAudit, FreshAudit, Existing
<1>4. ASSUME NEW a \in Audits, NEW source \in Audits, NEW target \in Packs, NEW j \in Jobs,
             StartReevaluation(a, source, target, j)
      PROVE  InsertInv'
  <2>1. source \in Existing /\ snapshotOf[source] \in Snapshots
    BY <1>0, <1>4 DEF InsertInv, StartReevaluation, Completed, Existing
  <2> QED BY <1>0, <1>4, <2>1, RowsAssumption
          DEF TypeOK, InsertInv, StartReevaluation, InsertRevision, FreshAudit, Existing
<1> QED BY <1>0, <1>2, <1>3, <1>4, StepInserts

\* Only _finalize completes an audit.
LEMMA OnlyFinalizeCompletes ==
  ASSUME TypeOK, JobInv, PlaceInv, Next,
         NEW a \in Audits, status[a] \notin Completed, status'[a] \in Completed
  PROVE  \E j \in Jobs : Finalize(j) /\ a = jobAudit[j]
<1> USE DEF Completed
<1>1. CASE Request
  BY <1>1 DEF Request, TypeOK, CreateAudit, StartAudit, StartReevaluation, InsertRevision, PublishPack
<1>2. ASSUME NEW j \in Jobs, Claim(j) \/ Crash(j) \/ Recover(j) PROVE FALSE
  BY <1>2 DEF Claim, Crash, Recover
<1>3. ASSUME NEW j \in Jobs, HandlerStep(j) PROVE Finalize(j) /\ a = jobAudit[j]
  <2>1. a = jobAudit[j]
    BY <1>3, HandlerOwns DEF Owns
  <2>2. CASE HandlerStep(j) /\ UNCHANGED status
    BY <2>2
  <2>3. CASE BeginProcessing(j) \/ Reject(j) \/ MarkFailed(j)
    BY <2>3 DEF TypeOK, BeginProcessing, Reject, MarkFailed
  <2>4. CASE Finalize(j)
    BY <2>1, <2>4
  <2> QED BY <1>3, <2>2, <2>3, <2>4
          DEF HandlerStep, HandlerStart, IdentifyProfile, PersistResolution, ReuseProfile, PinAssessment,
              LoadPack, PinParsing,
              PinInterpreting, PinVersions, PersistFacts, PinResolving, ResolveStates, PinRules,
              PersistFindings, Raise, Finish
<1> QED BY <1>1, <1>2, <1>3 DEF Next

\* What _finalize finds is what the stages left, and it stays.
LEMMA WholeStep == IInv /\ Next => CompletedIsWhole'
<1> SUFFICES ASSUME IInv, Next, NEW a \in Audits, status'[a] \in Completed
             PROVE  /\ resolution'[a] \in Profiles /\ pinProfile'[a] = resolution'[a]
                    /\ pinPack'[a] # None /\ facts'[a] = pinPack'[a] /\ states'[a] = pinPack'[a]
                    /\ pinRules'[a] /\ findings'[a] # None
                    /\ status'[a] = "completed" <=> findings'[a] = "clean"
  BY DEF CompletedIsWhole
<1>0. TypeOK /\ JobInv /\ PlaceInv /\ CompletedIsWhole
  BY DEF IInv
<1>1. CASE status[a] \in Completed
  <2>1. a \in Existing /\ status[a] \in Terminal
    BY <1>1 DEF Existing, Terminal, Completed
  <2>2. Kept(a)
    BY <1>0, <2>1, StepKeeps
  <2> QED BY <1>0, <1>1, <2>1, <2>2 DEF Kept, CompletedIsWhole
<1>2. CASE status[a] \notin Completed
  <2>1. PICK j \in Jobs : Finalize(j) /\ a = jobAudit[j]
    BY <1>0, <1>2, OnlyFinalizeCompletes
  <2>2. at[j] = "finalize" /\ Knows(j)
    BY <1>0, <2>1 DEF Finalize, PlaceInv
  <2>3. /\ resolution[a] \in Profiles /\ pinProfile[a] = resolution[a]
        /\ pinPack[a] # None /\ facts[a] = pinPack[a] /\ states[a] = pinPack[a]
        /\ pinRules[a] /\ findings[a] = outcome[j] /\ outcome[j] \in VerdictClasses
    BY <2>1, <2>2, RowsAssumption, VersionsAssumption
       DEF Knows, AfterRules, AfterStates, AfterFacts, AfterPin, AfterLoad,
          AfterIdentify, AfterBegin
  <2>4. status'[a] = TerminalStatus(outcome[j])
    BY <1>0, <2>1 DEF TypeOK, Finalize
  <2> QED BY <2>1, <2>3, <2>4, VersionsAssumption DEF Finalize, TerminalStatus, VerdictClasses
<1> QED BY <1>1, <1>2

\* A handler that returns leaves a decided audit; recovery fails its job, it does not
\* complete it.
LEMMA DecidedStep == IInv /\ Next => CompletedJobDecidesAudit'
<1> SUFFICES ASSUME IInv, Next, NEW j \in Jobs, phase'[j] = "completed"
             PROVE  status'[jobAudit'[j]] \in Terminal
  BY DEF CompletedJobDecidesAudit
<1>0. TypeOK /\ JobInv /\ PlaceInv /\ CompletedJobDecidesAudit
  BY DEF IInv
<1>1. jobAudit'[j] = jobAudit[j] /\ (phase[j] = "completed" \/ (at[j] = "return" /\ phase[j] # "absent"))
  <2>1. CASE Request
    BY <1>0, <2>1 DEF Request, TypeOK, CreateAudit, StartAudit, StartReevaluation, PublishPack, Enqueue,
                      Queue!Submit
  <2>2. ASSUME NEW k \in Jobs, Claim(k) \/ Crash(k) \/ Recover(k)
        PROVE  jobAudit'[j] = jobAudit[j] /\ phase[j] = "completed"
    BY <1>0, <2>2 DEF TypeOK, Claim, Crash, Recover, Queue!Claim, Queue!Fail
  <2>3. ASSUME NEW k \in Jobs, HandlerStep(k)
        PROVE  jobAudit'[j] = jobAudit[j] /\ (phase[j] = "completed" \/ (at[j] = "return" /\ phase[j] # "absent"))
    <3>1. Owns(k)
      BY <1>0, <2>3, HandlerOwns
    <3>2. UNCHANGED phase \/ Finish(k)
      BY <2>3
         DEF HandlerStep, HandlerStart, BeginProcessing, IdentifyProfile, PersistResolution,
             ReuseProfile, Reject, PinAssessment, LoadPack,
          PinParsing, PinInterpreting, PersistFacts, PinResolving, ResolveStates, PinRules, PersistFindings,
          Finalize, Raise, MarkFailed, Finish, PinVersions
    <3> QED BY <1>0, <3>1, <3>2 DEF TypeOK, Owns, Finish, Queue!Complete, Queue!Fail
  <2> QED BY <2>1, <2>2, <2>3 DEF Next
<1>2. jobAudit[j] \in Existing
  BY <1>0, <1>1 DEF JobInv
<1>3. status[jobAudit[j]] \in Terminal
  BY <1>0, <1>1 DEF CompletedJobDecidesAudit, PlaceInv, Knows
<1> QED BY <1>0, <1>1, <1>2, <1>3, StepKeeps DEF Kept

-----------------------------------------------------------------------------
(* The revisions of a snapshot.                                            *)

\* RevisionChain for one snapshot.
Chain(s) ==
  /\ {revision[a] : a \in OfSnapshot(s)} = 1 .. Cardinality(OfSnapshot(s))
  /\ \A a \in OfSnapshot(s) :
       /\ revision[a] = 1 <=> previous[a] = None
       /\ previous[a] # None =>
            LET source == previous[a]
            IN /\ source \in OfSnapshot(s) /\ status[source] \in Completed
               /\ revision[source] < revision[a]
               /\ pinProfile[a] = pinProfile[source] /\ pinPack[a] # pinPack[source]

\* What a re-evaluation repeats is completed and stays as it is, and its own pins are
\* set by the insert: an audit that exists keeps its place in the chain.
LEMMA PlaceInChainKept ==
  ASSUME IInv, Next, NEW s \in Snapshots, NEW a \in OfSnapshot(s)
  PROVE  /\ a \in OfSnapshot(s)' /\ revision'[a] = revision[a]
         /\ revision'[a] = 1 <=> previous'[a] = None
         /\ previous'[a] # None =>
              LET source == previous'[a]
              IN /\ source \in OfSnapshot(s)' /\ status'[source] \in Completed
                 /\ revision'[source] < revision'[a]
                 /\ pinProfile'[a] = pinProfile'[source] /\ pinPack'[a] # pinPack'[source]
<1>0. TypeOK /\ JobInv /\ PlaceInv /\ InsertInv /\ CompletedIsWhole /\ RevisionChain
  BY DEF IInv
<1>1. a \in Existing /\ a \in Audits
  BY DEF OfSnapshot, Existing
<1>2. Kept(a) /\ a \in OfSnapshot(s)' /\ revision'[a] = revision[a] /\ previous'[a] = previous[a]
  BY <1>0, <1>1, StepKeeps DEF Kept, OfSnapshot, Existing
<1>3. CASE previous[a] # None
  <2> DEFINE source == previous[a]
  <2>1. /\ source \in OfSnapshot(s) /\ status[source] \in Completed /\ revision[source] < revision[a]
        /\ pinProfile[a] = pinProfile[source] /\ pinPack[a] # pinPack[source]
    BY <1>0, <1>3 DEF RevisionChain
  <2>2. source \in Existing /\ source \in Audits
    BY <2>1 DEF OfSnapshot, Existing
  <2>3. Kept(source) /\ source \in OfSnapshot(s)'
    BY <1>0, <2>1, <2>2, StepKeeps DEF Kept, OfSnapshot, Existing
  <2>4. pinProfile[source] # None /\ pinPack[a] # None
    BY <1>0, <1>1, <1>3, <2>1, <2>2, RowsAssumption DEF CompletedIsWhole, InsertInv
  <2> QED BY <1>0, <1>2, <1>3, <2>1, <2>3, <2>4 DEF Kept, Terminal, RevisionChain
<1> QED BY <1>0, <1>2, <1>3 DEF RevisionChain

\* A snapshot that gets no row keeps its chain.
LEMMA ChainKept ==
  ASSUME IInv, Next, NEW s \in Snapshots, OfSnapshot(s)' = OfSnapshot(s)
  PROVE  Chain(s)'
<1>1. {revision'[a] : a \in OfSnapshot(s)} = {revision[a] : a \in OfSnapshot(s)}
  BY PlaceInChainKept
<1>2. {revision[a] : a \in OfSnapshot(s)} = 1 .. Cardinality(OfSnapshot(s))
  BY DEF IInv, RevisionChain
<1>3. \A a \in OfSnapshot(s) :
        /\ revision'[a] = 1 <=> previous'[a] = None
        /\ previous'[a] # None =>
             LET source == previous'[a]
             IN /\ source \in OfSnapshot(s)' /\ status'[source] \in Completed
                /\ revision'[source] < revision'[a]
                /\ pinProfile'[a] = pinProfile'[source] /\ pinPack'[a] # pinPack'[source]
  BY PlaceInChainKept
<1> QED BY <1>1, <1>2, <1>3 DEF Chain

\* A row with the next number lengthens the chain by one.
LEMMA ChainGrows ==
  ASSUME IInv, Next, NEW s \in Snapshots, NEW a \in Audits \ OfSnapshot(s),
         OfSnapshot(s)' = OfSnapshot(s) \cup {a},
         revision'[a] = Cardinality(OfSnapshot(s)) + 1
  PROVE  {revision'[b] : b \in OfSnapshot(s)'} = 1 .. Cardinality(OfSnapshot(s)')
<1> DEFINE n == Cardinality(OfSnapshot(s))
<1>1. IsFiniteSet(OfSnapshot(s)) /\ n \in Nat
  <2>1. OfSnapshot(s) \subseteq Audits
    BY DEF OfSnapshot, Existing
  <2> QED BY <2>1, RowsAssumption, FS_Subset, FS_CardinalityType
<1>2. Cardinality(OfSnapshot(s)') = n + 1
  BY <1>1, FS_AddElement
<1>3. {revision[b] : b \in OfSnapshot(s)} = 1 .. n
  BY DEF IInv, RevisionChain
<1>4. {revision'[b] : b \in OfSnapshot(s)} = 1 .. n
  BY <1>3, PlaceInChainKept
<1>5. {revision'[b] : b \in OfSnapshot(s)'} = {revision'[b] : b \in OfSnapshot(s)} \cup {n + 1}
  OBVIOUS
<1>6. 1 .. n + 1 = (1 .. n) \cup {n + 1}
  BY <1>1
<1> QED BY <1>2, <1>4, <1>5, <1>6

\* Revision 1 is inserted where there is none, and the others with the number after
\* the latest, under the lock of the snapshot (create_audit, reevaluation.start).
LEMMA ChainStep == IInv /\ Next => RevisionChain'
<1> SUFFICES ASSUME IInv, Next, NEW s \in Snapshots PROVE Chain(s)'
  BY DEF RevisionChain, Chain
<1>0. TypeOK /\ JobInv /\ PlaceInv /\ InsertInv /\ CompletedIsWhole /\ RevisionChain
  BY DEF IInv
<1>1. CASE Existing' = Existing /\ UNCHANGED identity
  <2>1. OfSnapshot(s)' = OfSnapshot(s)
    BY <1>1 DEF OfSnapshot
  <2> QED BY <2>1, ChainKept
<1>2. ASSUME NEW a \in Audits, NEW t \in Snapshots, CreateAudit(a, t) PROVE Chain(s)'
  <2>1. CASE s # t
    <3>1. OfSnapshot(s)' = OfSnapshot(s)
      BY <1>0, <1>2, <2>1 DEF TypeOK, CreateAudit, FreshAudit, OfSnapshot, Existing
    <3> QED BY <3>1, ChainKept
  <2>2. CASE s = t
    <3>1. /\ OfSnapshot(s)' = OfSnapshot(s) \cup {a} /\ a \notin OfSnapshot(s)
          /\ revision'[a] = 1 /\ previous'[a] = None
      BY <1>0, <1>2, <2>2 DEF TypeOK, InsertInv, CreateAudit, FreshAudit, OfSnapshot, Existing
    <3>2. OfSnapshot(s) = {}
      <4>1. 1 \notin 1 .. Cardinality(OfSnapshot(s))
        BY <1>0, <1>2, <2>2 DEF CreateAudit, RevisionChain
      <4>2. IsFiniteSet(OfSnapshot(s))
        <5>1. OfSnapshot(s) \subseteq Audits
          BY DEF OfSnapshot, Existing
        <5> QED BY <5>1, RowsAssumption, FS_Subset
      <4> QED BY <4>1, <4>2, FS_CardinalityType, FS_EmptySet
    <3>3. Cardinality(OfSnapshot(s)) = 0
      BY <3>2, FS_EmptySet
    <3>4. {revision'[b] : b \in OfSnapshot(s)'} = 1 .. Cardinality(OfSnapshot(s)')
      <4>1. revision'[a] = Cardinality(OfSnapshot(s)) + 1
        BY <3>1, <3>3
      <4> QED BY <3>1, <4>1, ChainGrows
    <3> QED BY <3>1, <3>2, <3>4 DEF Chain
  <2> QED BY <2>1, <2>2
<1>3. ASSUME NEW a \in Audits, NEW source \in Audits, NEW target \in Packs, NEW j \in Jobs,
             StartReevaluation(a, source, target, j)
      PROVE  Chain(s)'
  <2> DEFINE t == snapshotOf[source]
             n == Cardinality(OfSnapshot(t))
  <2>1. source \in Existing /\ status[source] \in Completed
    BY <1>3 DEF StartReevaluation, Completed, Existing
  <2>2. t \in Snapshots /\ IsFiniteSet(OfSnapshot(t)) /\ n \in Nat /\ LatestRevision(t) = n
    BY <1>0, <2>1, LatestIsCount
  <2>3. CASE s # t
    <3>1. OfSnapshot(s)' = OfSnapshot(s)
      BY <1>0, <1>3, <2>3 DEF TypeOK, StartReevaluation, InsertRevision, FreshAudit, OfSnapshot, Existing
    <3> QED BY <3>1, ChainKept
  <2>4. CASE s = t
    <3>1. /\ OfSnapshot(s)' = OfSnapshot(s) \cup {a} /\ a \notin OfSnapshot(s) /\ a # source
          /\ revision'[a] = n + 1 /\ previous'[a] = source
          /\ pinProfile'[a] = pinProfile[source] /\ pinPack'[a] # pinPack[source]
      BY <1>0, <1>3, <2>1, <2>2, <2>4
         DEF TypeOK, StartReevaluation, InsertRevision, FreshAudit, OfSnapshot, Existing
    <3>2. {revision'[b] : b \in OfSnapshot(s)'} = 1 .. Cardinality(OfSnapshot(s)')
      BY <2>2, <2>4, <3>1, ChainGrows
    <3>3. source \in OfSnapshot(s) /\ Kept(source)
      BY <1>0, <2>1, <2>4, StepKeeps DEF OfSnapshot
    <3>4. /\ source \in OfSnapshot(s)' /\ status'[source] \in Completed
          /\ pinProfile'[source] = pinProfile[source] /\ pinPack'[source] = pinPack[source]
      BY <2>1, <3>1, <3>3 DEF Kept, Terminal
    <3>5. revision[source] \in 1 .. n /\ revision'[source] = revision[source]
      BY <1>0, <2>4, <3>3 DEF RevisionChain, Kept
    <3>6. revision'[a] # 1 /\ revision'[source] < revision'[a] /\ previous'[a] # None
      BY <2>2, <3>1, <3>5, RowsAssumption
    <3>7. \A b \in OfSnapshot(s) :
            /\ revision'[b] = 1 <=> previous'[b] = None
            /\ previous'[b] # None =>
                 LET origin == previous'[b]
                 IN /\ origin \in OfSnapshot(s)' /\ status'[origin] \in Completed
                    /\ revision'[origin] < revision'[b]
                    /\ pinProfile'[b] = pinProfile'[origin] /\ pinPack'[b] # pinPack'[origin]
      BY PlaceInChainKept
    <3>8. /\ revision'[a] = 1 <=> previous'[a] = None
          /\ previous'[a] # None =>
               /\ previous'[a] \in OfSnapshot(s)' /\ status'[previous'[a]] \in Completed
               /\ revision'[previous'[a]] < revision'[a]
               /\ pinProfile'[a] = pinProfile'[previous'[a]] /\ pinPack'[a] # pinPack'[previous'[a]]
      BY <3>1, <3>4, <3>6
    <3> QED BY <3>1, <3>2, <3>7, <3>8 DEF Chain
  <2> QED BY <2>3, <2>4
<1> QED BY <1>0, <1>1, <1>2, <1>3, StepInserts

\* A request that finds an open re-evaluation inserts nothing, and an audit that is
\* decided is never opened again (reevaluation.start).
LEMMA OpenStep == IInv /\ Next => NoTwoOpen'
<1> SUFFICES ASSUME IInv, Next, NEW source \in Audits, NEW target \in Packs,
                    NEW a \in OpenReevaluations(source, target)', NEW b \in OpenReevaluations(source, target)'
             PROVE  a = b
  BY DEF NoTwoOpen
<1>0. TypeOK /\ JobInv /\ PlaceInv /\ InsertInv /\ NoTwoOpen
  BY DEF IInv
<1>1. \A c \in Existing : c \in OpenReevaluations(source, target)' => c \in OpenReevaluations(source, target)
  <2> SUFFICES ASSUME NEW c \in Existing, c \in OpenReevaluations(source, target)'
               PROVE  c \in OpenReevaluations(source, target)
    OBVIOUS
  <2>1. Kept(c) /\ c \in Audits
    BY <1>0, StepKeeps DEF Existing
  <2>2. previous[c] = source /\ pinPack[c] # None
    BY <1>0, <2>1, RowsAssumption DEF OpenReevaluations, Kept, InsertInv
  <2>3. status'[c] \in Open /\ pinPack'[c] = target
    BY DEF OpenReevaluations
  <2> QED BY <1>0, <2>1, <2>2, <2>3
          DEF OpenReevaluations, Kept, TypeOK, Statuses, Open, Terminal, Completed, Existing
<1>2. \A c, d \in Existing :
        c \in OpenReevaluations(source, target)' /\ d \in OpenReevaluations(source, target)' => c = d
  BY <1>0, <1>1 DEF NoTwoOpen
<1>3. CASE Existing' = Existing /\ UNCHANGED identity
  BY <1>2, <1>3 DEF OpenReevaluations
<1>4. ASSUME NEW c \in Audits, NEW s \in Snapshots, CreateAudit(c, s) PROVE a = b
  <2>1. Existing' = Existing \cup {c} /\ previous'[c] = None
    BY <1>0, <1>4 DEF TypeOK, InsertInv, CreateAudit, FreshAudit, Existing
  <2> QED BY <1>2, <2>1, RowsAssumption DEF OpenReevaluations
<1>5. ASSUME NEW c \in Audits, NEW s \in Audits, NEW t \in Packs, NEW j \in Jobs,
             StartReevaluation(c, s, t, j)
      PROVE  a = b
  <2>1. /\ Existing' = Existing \cup {c} /\ previous'[c] = s /\ pinPack'[c] = t
        /\ OpenReevaluations(s, t) = {}
    BY <1>0, <1>5 DEF TypeOK, StartReevaluation, InsertRevision, FreshAudit, Existing
  <2> QED BY <1>1, <1>2, <2>1 DEF OpenReevaluations
<1> QED BY <1>0, <1>3, <1>4, <1>5, StepInserts

-----------------------------------------------------------------------------
(* The inductive invariant and what follows from it.                       *)

\* No audit, no job and no published pack (the first start of the system).
LEMMA InvInit == Init => IInv
<1> SUFFICES ASSUME Init PROVE IInv
  OBVIOUS
<1>1. Existing = {}
  BY DEF Init, Existing
<1>2. \A s \in Snapshots : OfSnapshot(s) = {}
  BY <1>1 DEF OfSnapshot
<1>3. TypeOK
  <2>1. phase = [j \in Jobs |-> "absent"] /\ claims = [j \in Jobs |-> 0]
    BY DEF Init, Queue!Init
  <2> QED BY <1>1, <2>1 DEF Init, TypeOK, Statuses, Places
<1>4. JobInv /\ PlaceInv /\ InsertInv
  BY <1>1 DEF Init, Queue!Init, JobInv, PlaceInv, InsertInv
<1>5. CompletedIsWhole /\ CompletedJobDecidesAudit
  BY DEF Init, Queue!Init, CompletedIsWhole, CompletedJobDecidesAudit, Completed
<1>6. RevisionChain
  <2>1. Cardinality({}) = 0
    BY FS_EmptySet
  <2> QED BY <1>2, <2>1 DEF RevisionChain
<1>7. NoTwoOpen
  BY <1>1 DEF NoTwoOpen, OpenReevaluations
<1> QED BY <1>3, <1>4, <1>5, <1>6, <1>7 DEF IInv

\* Every request, every step of a handler, of the queue and of recovery preserves it.
LEMMA InvStep == IInv /\ [Next]_vars => IInv'
<1>1. IInv /\ Next => IInv'
  BY TypeStep, JobStep, InsertStep, WholeStep, DecidedStep, ChainStep, OpenStep DEF IInv
<1>2. ASSUME IInv, UNCHANGED vars PROVE IInv'
  <2> USE <1>2 DEF vars, Existing
  <2>1. TypeOK' /\ JobInv' /\ PlaceInv' /\ InsertInv'
    BY DEF IInv, TypeOK, JobInv, PlaceInv, Knows, InsertInv
  <2>2. CompletedIsWhole' /\ CompletedJobDecidesAudit'
    BY DEF IInv, CompletedIsWhole, CompletedJobDecidesAudit
  <2>3. RevisionChain'
    BY DEF IInv, RevisionChain, OfSnapshot
  <2>4. NoTwoOpen'
    BY DEF IInv, NoTwoOpen, OpenReevaluations
  <2> QED BY <2>1, <2>2, <2>3, <2>4 DEF IInv
<1> QED BY <1>1, <1>2

\* The invariant of audits, their jobs and their handlers, in every reachable state.
THEOREM AuditInvariantHolds == Spec => []IInv
BY InvInit, InvStep, PTL DEF Spec

\* Columns and locals of the handlers keep their types.
THEOREM AuditTypeCorrect == Spec => []TypeOK
<1>1. IInv => TypeOK
  BY DEF IInv
<1> QED BY AuditInvariantHolds, <1>1, PTL

\* A completed audit has all its stages' results, of the versions it pins, whatever
\* failed, crashed, lost its lease or was published (AuditPipelineCoordinator.run).
THEOREM CompletedAuditsAreWhole == Spec => []CompletedIsWhole
<1>1. IInv => CompletedIsWhole
  BY DEF IInv
<1> QED BY AuditInvariantHolds, <1>1, PTL

\* The revisions of a snapshot are 1, 2, ..., each but the first the re-evaluation of
\* a completed one (create_audit, reevaluation.start).
THEOREM RevisionsFormChain == Spec => []RevisionChain
<1>1. IInv => RevisionChain
  BY DEF IInv
<1> QED BY AuditInvariantHolds, <1>1, PTL

\* However often it is requested, a re-evaluation is open at most once
\* (reevaluation.start).
THEOREM AtMostOneOpenReevaluation == Spec => []OneOpenReevaluation
<1>1. NoTwoOpen => OneOpenReevaluation
  <2> SUFFICES ASSUME NoTwoOpen, NEW source \in Audits, NEW target \in Packs
               PROVE  Cardinality(OpenReevaluations(source, target)) <= 1
    BY DEF OneOpenReevaluation
  <2>1. CASE OpenReevaluations(source, target) = {}
    BY <2>1, FS_EmptySet
  <2>2. ASSUME NEW a, a \in OpenReevaluations(source, target)
        PROVE  Cardinality(OpenReevaluations(source, target)) <= 1
    <3>1. \A b \in OpenReevaluations(source, target) : b = a
      BY <2>2 DEF NoTwoOpen
    <3>2. OpenReevaluations(source, target) = {a}
      BY <2>2, <3>1
    <3>3. Cardinality({a}) = 1
      BY FS_Singleton
    <3> QED BY <3>2, <3>3
  <2> QED BY <2>1, <2>2
<1>2. IInv => NoTwoOpen
  BY DEF IInv
<1> QED BY AuditInvariantHolds, <1>1, <1>2, PTL

\* A job that says COMPLETED leaves a decided audit (AuditJobHandler, WorkerRuntime).
THEOREM CompletedJobsDecideAudits == Spec => []CompletedJobDecidesAudit
<1>1. IInv => CompletedJobDecidesAudit
  BY DEF IInv
<1> QED BY AuditInvariantHolds, <1>1, PTL

\* No handler that outlives its lease, no second job and no re-evaluation touches a
\* decided audit (AuditPipelineCoordinator, start_audit, reevaluation.start).
THEOREM DecidedAuditsStayFrozen == Spec => DecidedAuditsFrozen
<1> DEFINE Frozen(a) ==
      UNCHANGED <<status[a], stage[a], snapshotOf[a], revision[a], previous[a], resolution[a],
                  pinProfile[a], pinPack[a], pinRules[a], facts[a], states[a], findings[a]>>
<1>1. ASSUME IInv, Next, NEW a \in Audits, status[a] \in Terminal PROVE Frozen(a)
  <2>1. a \in Existing
    BY <1>1 DEF Existing, Terminal, Completed
  <2> QED BY <1>1, <2>1, StepKeeps DEF IInv, Kept
<1>2. IInv /\ [Next]_vars => [\A a \in Audits : status[a] \in Terminal => Frozen(a)]_vars
  BY <1>1
<1> QED BY <1>2, AuditInvariantHolds, PTL DEF Spec, DecidedAuditsFrozen

\* A pinned version stays pinned (_pin_versions_and_set_stage,
\* _pin_compliance_versions_and_set_stage, reevaluation.start).
THEOREM PinsStayFixed == Spec => PinsNeverChange
<1> DEFINE Fixed(a) == /\ pinProfile[a] # None => pinProfile'[a] = pinProfile[a]
                       /\ pinPack[a] # None => pinPack'[a] = pinPack[a]
                       /\ pinRules[a] => pinRules'[a]
<1>1. IInv /\ [Next]_vars => [\A a \in Existing : Fixed(a)]_vars
  BY StepKeeps DEF IInv, Kept
<1> QED BY <1>1, AuditInvariantHolds, PTL DEF Spec, PinsNeverChange

\* The workflow uses the queue as its callers may: every step is a step of
\* JobLifecycle, or leaves the queue alone (enqueue_job, WorkerRuntime).
THEOREM AuditsFollowLifecycle == Spec => Queue!Init /\ [][Queue!Next]_(Queue!vars)
<1>1. Init => Queue!Init
  BY DEF Init
<1>2. ASSUME Next PROVE [Queue!Next]_(Queue!vars)
  <2>1. CASE Request
    BY <2>1
       DEF Request, CreateAudit, StartAudit, StartReevaluation, Enqueue, PublishPack, Queue!Next, Queue!vars
  <2>2. ASSUME NEW j \in Jobs, Claim(j) \/ Recover(j) \/ Finish(j) PROVE [Queue!Next]_(Queue!vars)
    BY <2>2 DEF Claim, Recover, Finish, Queue!Next, Queue!vars
  <2>3. ASSUME NEW j \in Jobs, (HandlerStep(j) /\ ~Finish(j)) \/ Crash(j) PROVE UNCHANGED Queue!vars
    BY <2>3
       DEF Queue!vars, HandlerStep, Crash, HandlerStart, BeginProcessing, IdentifyProfile,
                PersistResolution, ReuseProfile, Reject, PinAssessment, LoadPack, PinParsing,
                PinInterpreting, PinVersions, PersistFacts,
                PinResolving, ResolveStates, PinRules, PersistFindings, Finalize, Raise, MarkFailed
  <2> QED BY <1>2, <2>1, <2>2, <2>3 DEF Next
<1>3. [Next]_vars => [Queue!Next]_(Queue!vars)
  BY <1>2 DEF vars, Queue!vars
<1> QED BY <1>1, <1>3, PTL DEF Spec
=============================================================================
