---------------------------- MODULE EvidenceStore ----------------------------
(***************************************************************************)
(* Evidence before an audit reads it: the upload of an artifact            *)
(* (backend/app/ingestion/service.py over ingestion/storage/local.py) and  *)
(* the assembly of artifacts into a snapshot that is finalized and then    *)
(* locked by the submission of an audit (backend/app/snapshots/service.py, *)
(* start_audit in backend/app/audit/service.py).                           *)
(*                                                                         *)
(* Bytes are on a file system and rows in a database, so an upload is a    *)
(* sequence of steps that a failure or a crash may cut anywhere.  The      *)
(* requests on snapshots are transactions that take row locks in the order *)
(* of the code and release them together.                                  *)
(***************************************************************************)
EXTENDS Integers, FiniteSets

CONSTANTS
  Artifacts,   \* artifact ids (uuid4, so an upload always has a new one)
  Existing,    \* those that were uploaded before
  Contents,    \* SHA-256 values: artifacts may have equal bytes
  Snapshots,
  Clients,     \* concurrent API requests
  None         \* SQL NULL

ASSUME NoneAssumption == None \notin Artifacts \cup Contents \cup Snapshots \cup Clients
ASSUME ArtifactsAssumption == Existing \subseteq Artifacts /\ IsFiniteSet(Artifacts)

VARIABLES
  \* the file system
  temporary, target,       \* the upload's temporary file, and its published name
  \* the artifacts table
  stored,                  \* the row is committed
  content, snapshotOf,
  \* the snapshots table
  status, count, hash,
  \* row locks
  snapshotLock, artifactLock,
  \* requests
  at, request, snapshot, artifact,
  answered                 \* artifacts whose upload was answered with success

files == <<temporary, target>>
locks == <<snapshotLock, artifactLock>>
snapshots == <<snapshotOf, status, count, hash>>
args == <<request, snapshot, artifact>>
vars == <<temporary, target, stored, content, snapshotOf, status, count, hash, snapshotLock,
          artifactLock, at, request, snapshot, artifact, answered>>

File == {"none", "partial", "whole"}
Uploading == {"write", "written", "synced", "linked", "insert", "refresh", "compensate"}
Requests == {"upload", "add", "remove", "finalize", "submit"}
Finalized == {"ready", "locked"}

Members(s) == {x \in Artifacts : stored[x] /\ snapshotOf[x] = s}

\* calculate_snapshot_hash: the sorted hashes, so that only their bag counts.
HashOf(members) == [h \in Contents |-> Cardinality({x \in members : content[x] = h})]

TypeOK ==
  /\ temporary \in [Artifacts -> File] /\ target \in [Artifacts -> File]
  /\ stored \in [Artifacts -> BOOLEAN]
  /\ content \in [Artifacts -> Contents \cup {None}]
  /\ snapshotOf \in [Artifacts -> Snapshots \cup {None}]
  /\ status \in [Snapshots -> {"absent", "draft", "ready", "locked"}]
  /\ count \in [Snapshots -> Nat] /\ hash \in [Snapshots -> [Contents -> Nat]]
  /\ snapshotLock \in [Snapshots -> Clients \cup {None}]
  /\ artifactLock \in [Artifacts -> Clients \cup {None}]
  /\ at \in [Clients -> {"idle", "begin", "checked", "commit"} \cup Uploading]
  /\ request \in [Clients -> Requests \cup {None}]
  /\ snapshot \in [Clients -> Snapshots \cup {None}]
  /\ artifact \in [Clients -> Artifacts \cup {None}]
  /\ answered \in SUBSET Artifacts

Init ==
  /\ temporary = [x \in Artifacts |-> "none"]
  /\ target = [x \in Artifacts |-> IF x \in Existing THEN "whole" ELSE "none"]
  /\ stored = [x \in Artifacts |-> x \in Existing]
  /\ \E h \in [Existing -> Contents] :
       content = [x \in Artifacts |-> IF x \in Existing THEN h[x] ELSE None]
  /\ snapshotOf = [x \in Artifacts |-> None]
  /\ status = [s \in Snapshots |-> "absent"]
  /\ count = [s \in Snapshots |-> 0] /\ hash = [s \in Snapshots |-> [h \in Contents |-> 0]]
  /\ snapshotLock = [s \in Snapshots |-> None] /\ artifactLock = [x \in Artifacts |-> None]
  /\ at = [c \in Clients |-> "idle"] /\ request = [c \in Clients |-> None]
  /\ snapshot = [c \in Clients |-> None] /\ artifact = [c \in Clients |-> None]
  /\ answered = Existing

Set(f, x, v) == [f EXCEPT ![x] = v]
Goto(c, from, to) == at[c] = from /\ at' = Set(at, c, to)

\* A request is answered: its session is closed, which ends its transaction.
Answer(c) ==
  /\ at' = Set(at, c, "idle")
  /\ request' = Set(request, c, None)
  /\ snapshot' = Set(snapshot, c, None)
  /\ artifact' = Set(artifact, c, None)
Unlock(c) ==
  /\ snapshotLock' = [s \in Snapshots |-> IF snapshotLock[s] = c THEN None ELSE snapshotLock[s]]
  /\ artifactLock' = [x \in Artifacts |-> IF artifactLock[x] = c THEN None ELSE artifactLock[x]]

-----------------------------------------------------------------------------
(* Upload: LocalFilesystemArtifactStorage.write, then the row.             *)

Upload(c, x, h) ==
  /\ Goto(c, "idle", "write")
  /\ content[x] = None
  /\ content' = Set(content, x, h)
  /\ request' = Set(request, c, "upload")
  /\ artifact' = Set(artifact, c, x)
  /\ UNCHANGED <<files, stored, snapshots, locks, snapshot, answered>>

FileStep(c, from, to, newTemporary, newTarget) ==
  /\ Goto(c, from, to)
  /\ temporary' = Set(temporary, artifact[c], newTemporary)
  /\ target' = Set(target, artifact[c], newTarget)
  /\ UNCHANGED <<stored, content, snapshots, locks, args, answered>>

WriteTemporary(c) == FileStep(c, "write", "written", "partial", target[artifact[c]])

\* flush and fsync.
SyncTemporary(c) == FileStep(c, "written", "synced", "whole", target[artifact[c]])

\* os.link: the published name refers to the same file, and never replaces one.
Link(c) ==
  /\ at[c] = "synced" /\ target[artifact[c]] = "none"
  /\ FileStep(c, "synced", "linked", temporary[artifact[c]], temporary[artifact[c]])

\* The finally block; an error there is swallowed.
RemoveTemporary(c) ==
  /\ at[c] = "linked"
  /\ \E left \in {"none", temporary[artifact[c]]} :
       FileStep(c, "linked", "insert", left, target[artifact[c]])

\* OSError before the link: the upload is refused.
WriteFails(c) ==
  /\ at[c] \in {"write", "written", "synced"}
  /\ \E left \in {"none", temporary[artifact[c]]} : temporary' = Set(temporary, artifact[c], left)
  /\ Answer(c)
  /\ UNCHANGED <<target, stored, content, snapshots, locks, answered>>

CommitRow(c) ==
  /\ Goto(c, "insert", "refresh")
  /\ stored' = Set(stored, artifact[c], TRUE)
  /\ UNCHANGED <<files, content, snapshots, locks, args, answered>>

\* db.refresh reads the committed row back; then the answer.
Refresh(c) ==
  /\ at[c] = "refresh"
  /\ answered' = answered \cup {artifact[c]}
  /\ Answer(c)
  /\ UNCHANGED <<files, stored, content, snapshots, locks>>

\* SQLAlchemyError from the commit, which the server may have done all the same,
\* or from the refresh.
PersistFails(c) ==
  /\ at[c] \in {"insert", "refresh"}
  /\ at' = Set(at, c, "compensate")
  /\ stored' \in {stored, IF at[c] = "insert" THEN Set(stored, artifact[c], TRUE) ELSE stored}
  /\ UNCHANGED <<files, content, snapshots, locks, args, answered>>

\* The failure is logged and the row reported as if it had been written.
CompensateAndAcknowledge(c) ==
  /\ at[c] = "compensate"
  /\ target' \in {target, Set(target, artifact[c], "none")}
  /\ answered' = answered \cup {artifact[c]}
  /\ Answer(c)
  /\ UNCHANGED <<temporary, stored, content, snapshots, locks>>

\* storage.delete, whose own failure is swallowed; the upload is refused.
Compensate(c) ==
  /\ at[c] = "compensate"
  /\ target' \in {target, Set(target, artifact[c], "none")}
  /\ Answer(c)
  /\ UNCHANGED <<temporary, stored, content, snapshots, locks, answered>>

-----------------------------------------------------------------------------
(* Snapshots.                                                              *)

CreateSnapshot(s) ==
  /\ status[s] = "absent"
  /\ status' = Set(status, s, "draft")
  /\ UNCHANGED <<files, stored, content, snapshotOf, count, hash, locks, at, args, answered>>

Begin(c, kind, s, x) ==
  /\ Goto(c, "idle", "begin")
  /\ status[s] # "absent"
  /\ request' = Set(request, c, kind)
  /\ snapshot' = Set(snapshot, c, s)
  /\ artifact' = Set(artifact, c, x)
  /\ UNCHANGED <<files, stored, content, snapshots, locks, answered>>

Expected(kind) == IF kind = "submit" THEN "ready" ELSE "draft"

\* The status is checked on a row that is read without FOR UPDATE.
LockSnapshotNot(c) ==
  /\ Goto(c, "begin", "checked")
  /\ status[snapshot[c]] = Expected(request[c])
  /\ UNCHANGED <<files, stored, content, snapshots, locks, args, answered>>

\* _lock_snapshot and _require_draft; start_audit wants a READY snapshot.
LockSnapshot(c) ==
  /\ Goto(c, "begin", "checked")
  /\ snapshotLock[snapshot[c]] = None
  /\ status[snapshot[c]] = Expected(request[c])
  /\ snapshotLock' = Set(snapshotLock, snapshot[c], c)
  /\ UNCHANGED <<files, stored, content, snapshots, artifactLock, args, answered>>

\* The artifacts a request locks: the one it names, or the members.
Wanted(c) ==
  IF request[c] \in {"add", "remove"} THEN {artifact[c]} ELSE Members(snapshot[c])

\* What a request requires of them.
Acceptable(c) ==
  LET s == snapshot[c]
      x == artifact[c]
  IN CASE request[c] = "add"      -> stored[x] /\ snapshotOf[x] \in {None, s}
       [] request[c] = "remove"   -> stored[x] /\ snapshotOf[x] = s
       [] request[c] = "finalize" -> Members(s) # {}
       [] request[c] = "submit"   -> /\ Members(s) # {}
                                     /\ count[s] = Cardinality(Members(s))
                                     /\ hash[s] = HashOf(Members(s))

LockArtifacts(c) ==
  /\ Goto(c, "checked", "commit")
  /\ \A x \in Wanted(c) : artifactLock[x] = None
  /\ Acceptable(c)
  /\ artifactLock' = [x \in Artifacts |-> IF x \in Wanted(c) THEN c ELSE artifactLock[x]]
  /\ UNCHANGED <<files, stored, content, snapshots, snapshotLock, args, answered>>

\* The request is refused, but its session stays open.
RefuseKeepsTransaction(c) ==
  /\ \/ at[c] = "begin" /\ snapshotLock[snapshot[c]] = None /\ status[snapshot[c]] # Expected(request[c])
     \/ at[c] = "checked" /\ (\A x \in Wanted(c) : artifactLock[x] = None) /\ ~Acceptable(c)
  /\ Answer(c)
  /\ UNCHANGED <<files, stored, content, snapshots, locks, answered>>

\* A check fails: the service raises, the session is closed.
Refuse(c) ==
  /\ \/ at[c] = "begin" /\ snapshotLock[snapshot[c]] = None /\ status[snapshot[c]] # Expected(request[c])
     \/ at[c] = "checked" /\ (\A x \in Wanted(c) : artifactLock[x] = None) /\ ~Acceptable(c)
  /\ Answer(c)
  /\ Unlock(c)
  /\ UNCHANGED <<files, stored, content, snapshots, answered>>

\* Count and hash are taken before the flush.
RefreshMembershipLate(s, members) ==
  /\ count' = Set(count, s, Cardinality(Members(s)))
  /\ hash' = Set(hash, s, HashOf(Members(s)))

\* _refresh_membership, after the flush: count and hash of the new members.
RefreshMembership(s, members) ==
  /\ count' = Set(count, s, Cardinality(members))
  /\ hash' = Set(hash, s, HashOf(members))

CommitAdd(c) ==
  LET s == snapshot[c]
      x == artifact[c]
  IN /\ at[c] = "commit" /\ request[c] = "add"
     /\ snapshotOf' = Set(snapshotOf, x, s)
     /\ RefreshMembership(s, Members(s) \cup {x})
     /\ Answer(c) /\ Unlock(c)
     /\ UNCHANGED <<files, stored, content, status, answered>>

CommitRemove(c) ==
  LET s == snapshot[c]
      x == artifact[c]
  IN /\ at[c] = "commit" /\ request[c] = "remove"
     /\ snapshotOf' = Set(snapshotOf, x, None)
     /\ RefreshMembership(s, Members(s) \ {x})
     /\ Answer(c) /\ Unlock(c)
     /\ UNCHANGED <<files, stored, content, status, answered>>

CommitFinalize(c) ==
  LET s == snapshot[c]
  IN /\ at[c] = "commit" /\ request[c] = "finalize"
     /\ status' = Set(status, s, "ready")
     /\ RefreshMembership(s, Members(s))
     /\ Answer(c) /\ Unlock(c)
     /\ UNCHANGED <<files, stored, content, snapshotOf, answered>>

\* start_audit: the snapshot is locked in the transaction that queues the audit.
CommitSubmit(c) ==
  /\ at[c] = "commit" /\ request[c] = "submit"
  /\ status' = Set(status, snapshot[c], "locked")
  /\ Answer(c) /\ Unlock(c)
  /\ UNCHANGED <<files, stored, content, snapshotOf, count, hash, answered>>

\* The process or its database connection dies: the transaction is rolled back,
\* files stay as they are.
Abort(c) ==
  /\ at[c] # "idle"
  /\ Answer(c) /\ Unlock(c)
  /\ UNCHANGED <<files, stored, content, snapshots, answered>>

-----------------------------------------------------------------------------
UploadStep(c) ==
  \/ WriteTemporary(c)
  \/ SyncTemporary(c)
  \/ Link(c)
  \/ RemoveTemporary(c)
  \/ WriteFails(c)
  \/ CommitRow(c)
  \/ Refresh(c)
  \/ PersistFails(c)
  \/ Compensate(c)

SnapshotStep(c) ==
  \/ LockSnapshot(c)
  \/ LockArtifacts(c)
  \/ Refuse(c)
  \/ CommitAdd(c)
  \/ CommitRemove(c)
  \/ CommitFinalize(c)
  \/ CommitSubmit(c)

Next ==
  \/ \E c \in Clients :
       \/ \E x \in Artifacts, h \in Contents : Upload(c, x, h)
       \/ \E s \in Snapshots, x \in Artifacts, kind \in {"add", "remove"} : Begin(c, kind, s, x)
       \/ \E s \in Snapshots, kind \in {"finalize", "submit"} : Begin(c, kind, s, None)
       \/ UploadStep(c)
       \/ SnapshotStep(c)
       \/ Abort(c)
  \/ \E s \in Snapshots : CreateSnapshot(s)

\* A request thread runs, and PostgreSQL hands a released lock to a waiter.
Fairness == \A c \in Clients : WF_vars(UploadStep(c)) /\ SF_vars(SnapshotStep(c))

Spec == Init /\ [][Next]_vars /\ Fairness

-----------------------------------------------------------------------------
(* Properties.                                                             *)

\* An upload that was answered with success has its row and all of its bytes,
\* whatever failed afterwards (ingest_artifact).
AnsweredUploadKept == \A x \in answered : stored[x] /\ target[x] = "whole"

\* Count and hash describe exactly the members, between any two transactions
\* (_refresh_membership; validate_snapshot_evidence relies on it).
SnapshotCoherent ==
  \A s \in Snapshots : count[s] = Cardinality(Members(s)) /\ hash[s] = HashOf(Members(s))

\* From finalization on, no request changes which artifacts are evidence or what
\* the snapshot says of them, a concurrent addition or removal that was checked
\* before included (_lock_snapshot, _require_draft).
FinalizedEvidenceFrozen ==
  [][\A s \in Snapshots : status[s] \in Finalized =>
       /\ status'[s] \in Finalized
       /\ Members(s)' = Members(s)
       /\ UNCHANGED <<count[s], hash[s]>>]_vars

\* Every request is answered: no request waits for a lock that nobody returns.
RequestsEnd == \A c \in Clients : at[c] # "idle" ~> at[c] = "idle"

\* "raw bytes belonging to a persisted Artifact remain immutable" (storage/README.md).
PersistedBytesKept ==
  [][\A x \in Artifacts : stored[x] /\ target[x] = "whole" => target'[x] = "whole"]_vars
=============================================================================
