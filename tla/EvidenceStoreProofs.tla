------------------------- MODULE EvidenceStoreProofs -------------------------
(***************************************************************************)
(* Theorems about uploads and snapshots, for any finite set of artifacts   *)
(* and any contents, snapshots and concurrent requests.                    *)
(***************************************************************************)
EXTENDS EvidenceStore, FiniteSetTheorems, TLAPS

USE DEF files, locks, snapshots, args, Set, Goto

\* What a request may rely on between its steps: an upload, that nobody else has its
\* artifact id; a request on a snapshot, the row locks that it took.
Knows(c) ==
  LET x == artifact[c]
      s == snapshot[c]
  IN /\ at[c] \in Uploading => x \in Artifacts /\ content[x] # None /\ x \notin answered
     /\ at[c] \in {"write", "written", "synced"} => target[x] = "none"
     /\ at[c] \in {"write", "written", "synced", "linked", "insert"} => ~stored[x]
     /\ at[c] = "synced" => temporary[x] = "whole"
     /\ at[c] \in {"linked", "insert", "refresh"} => target[x] = "whole"
     /\ at[c] = "refresh" => stored[x]
     /\ at[c] \in {"begin", "checked", "commit"} =>
          /\ request[c] \in Requests \ {"upload"} /\ s \in Snapshots
          /\ request[c] \in {"add", "remove"} => x \in Artifacts
     /\ at[c] \in {"checked", "commit"} => snapshotLock[s] = c /\ status[s] = Expected(request[c])
     /\ at[c] = "commit" /\ request[c] \in {"add", "remove"} => artifactLock[x] = c /\ stored[x]
     /\ at[c] = "commit" /\ request[c] = "add" => snapshotOf[x] \in {None, s}
     /\ at[c] = "commit" /\ request[c] = "remove" => snapshotOf[x] = s

PlaceInv == \A c \in Clients : Knows(c)

\* An id without content is unused, only stored artifacts are in snapshots, and an id
\* has one upload.
RowInv ==
  /\ \A x \in Artifacts : content[x] = None => target[x] = "none" /\ ~stored[x] /\ x \notin answered
  /\ \A x \in Artifacts : snapshotOf[x] # None => stored[x]
  /\ \A c, d \in Clients : at[c] \in Uploading /\ at[d] \in Uploading /\ artifact[c] = artifact[d] => c = d

IInv == TypeOK /\ PlaceInv /\ RowInv /\ AnsweredUploadKept /\ SnapshotCoherent

-----------------------------------------------------------------------------
(* Members of a snapshot and what is recorded of them.                     *)

\* Members and their hashes can be counted.
LEMMA HashType ==
  ASSUME NEW S \in SUBSET Artifacts
  PROVE  Cardinality(S) \in Nat /\ HashOf(S) \in [Contents -> Nat]
<1>1. \A T \in SUBSET Artifacts : Cardinality(T) \in Nat
  BY ArtifactsAssumption, FS_Subset, FS_CardinalityType
<1>2. \A h \in Contents : {x \in S : content[x] = h} \in SUBSET Artifacts
  OBVIOUS
<1> QED BY <1>1, <1>2 DEF HashOf

\* The hash depends on the bag of the members' contents only
\* (calculate_snapshot_hash).
LEMMA HashKept ==
  ASSUME NEW S, NEW s, Members(s)' = S, \A x \in S : content'[x] = content[x]
  PROVE  HashOf(Members(s))' = HashOf(S)
<1>1. \A h \in Contents : {x \in Members(s)' : content'[x] = h} = {x \in S : content[x] = h}
  OBVIOUS
<1> QED BY <1>1 DEF HashOf

-----------------------------------------------------------------------------
(* Types, and what each request relies on.                                 *)

\* Columns, files, locks and the state of requests keep their types.
LEMMA TypeStep == IInv /\ Next => TypeOK'
<1> SUFFICES ASSUME IInv, Next PROVE TypeOK'
  OBVIOUS
<1> USE DEF Uploading, Requests, File
<1>0. TypeOK /\ PlaceInv
  BY DEF IInv
<1>1. ASSUME NEW c \in Clients, NEW x \in Artifacts, NEW h \in Contents, Upload(c, x, h) PROVE TypeOK'
  BY <1>0, <1>1 DEF Upload, TypeOK, PlaceInv, Knows
<1>2. ASSUME NEW c \in Clients, NEW s \in Snapshots, NEW x \in Artifacts, NEW kind \in {"add", "remove"},
             Begin(c, kind, s, x)
      PROVE  TypeOK'
  BY <1>0, <1>2 DEF Begin, TypeOK, PlaceInv, Knows
<1>3. ASSUME NEW c \in Clients, NEW s \in Snapshots, NEW kind \in {"finalize", "submit"},
             Begin(c, kind, s, None)
      PROVE  TypeOK'
  BY <1>0, <1>3 DEF Begin, TypeOK, PlaceInv, Knows
<1>4. ASSUME NEW c \in Clients, WriteTemporary(c) PROVE TypeOK'
  BY <1>0, <1>4 DEF WriteTemporary, FileStep, TypeOK, PlaceInv, Knows
<1>5. ASSUME NEW c \in Clients, SyncTemporary(c) PROVE TypeOK'
  BY <1>0, <1>5 DEF SyncTemporary, FileStep, TypeOK, PlaceInv, Knows
<1>6. ASSUME NEW c \in Clients, Link(c) PROVE TypeOK'
  BY <1>0, <1>6 DEF Link, FileStep, TypeOK, PlaceInv, Knows
<1>7. ASSUME NEW c \in Clients, RemoveTemporary(c) PROVE TypeOK'
  BY <1>0, <1>7 DEF RemoveTemporary, FileStep, TypeOK, PlaceInv, Knows
<1>8. ASSUME NEW c \in Clients, WriteFails(c) PROVE TypeOK'
  BY <1>0, <1>8, SMTT(20) DEF WriteFails, Answer, TypeOK, PlaceInv, Knows
<1>9. ASSUME NEW c \in Clients, CommitRow(c) PROVE TypeOK'
  BY <1>0, <1>9 DEF CommitRow, TypeOK, PlaceInv, Knows
<1>10. ASSUME NEW c \in Clients, Refresh(c) PROVE TypeOK'
  BY <1>0, <1>10 DEF Refresh, Answer, TypeOK, PlaceInv, Knows
<1>11. ASSUME NEW c \in Clients, PersistFails(c) PROVE TypeOK'
  <2>1. /\ artifact[c] \in Artifacts /\ content[artifact[c]] # None
        /\ (stored' = stored \/ stored' = [stored EXCEPT ![artifact[c]] = TRUE])
    BY <1>0, <1>11 DEF PersistFails, PlaceInv, Knows
  <2>2. /\ at[c] \in {"insert", "refresh"} /\ at' = [at EXCEPT ![c] = "compensate"]
        /\ UNCHANGED <<temporary, target, content, snapshotOf, status, count, hash, snapshotLock, artifactLock,
                      request, snapshot, artifact, answered>>
    BY <1>11 DEF PersistFails
  <2>3. at'[c] = "compensate" /\ \A d \in Clients \ {c} : at'[d] = at[d]
    BY <1>0, <2>2 DEF TypeOK
  <2> QED BY <1>0, <2>1, <2>2, <2>3 DEF TypeOK
<1>12. ASSUME NEW c \in Clients, Compensate(c) PROVE TypeOK'
  BY <1>0, <1>12 DEF Compensate, Answer, TypeOK, PlaceInv, Knows
<1>13. ASSUME NEW c \in Clients, LockSnapshot(c) PROVE TypeOK'
  BY <1>0, <1>13 DEF LockSnapshot, TypeOK, PlaceInv, Knows
<1>14. ASSUME NEW c \in Clients, LockArtifacts(c) PROVE TypeOK'
  BY <1>0, <1>14 DEF LockArtifacts, Wanted, Acceptable, TypeOK, PlaceInv, Knows
<1>15. ASSUME NEW c \in Clients, Refuse(c) PROVE TypeOK'
  BY <1>0, <1>15 DEF Refuse, Answer, Unlock, TypeOK, PlaceInv, Knows
<1>16. ASSUME NEW c \in Clients, CommitAdd(c) PROVE TypeOK'
  <2> DEFINE members == Members(snapshot[c]) \cup {artifact[c]}
  <2>1. snapshot[c] \in Snapshots /\ (request[c] \in {"add", "remove"} => artifact[c] \in Artifacts)
    BY <1>0, <1>16 DEF CommitAdd, PlaceInv, Knows
  <2>2. members \in SUBSET Artifacts
    BY <2>1, <1>16 DEF CommitAdd, Members
  <2>3. Cardinality(members) \in Nat /\ HashOf(members) \in [Contents -> Nat]
    BY <2>2, HashType
  <2> QED BY <1>0, <1>16, <2>1, <2>3 DEF TypeOK, CommitAdd, Answer, Unlock, RefreshMembership
<1>17. ASSUME NEW c \in Clients, CommitRemove(c) PROVE TypeOK'
  <2> DEFINE members == Members(snapshot[c]) \ {artifact[c]}
  <2>1. snapshot[c] \in Snapshots /\ (request[c] \in {"add", "remove"} => artifact[c] \in Artifacts)
    BY <1>0, <1>17 DEF CommitRemove, PlaceInv, Knows
  <2>2. members \in SUBSET Artifacts
    BY <2>1, <1>17 DEF CommitRemove, Members
  <2>3. Cardinality(members) \in Nat /\ HashOf(members) \in [Contents -> Nat]
    BY <2>2, HashType
  <2> QED BY <1>0, <1>17, <2>1, <2>3 DEF TypeOK, CommitRemove, Answer, Unlock, RefreshMembership
<1>18. ASSUME NEW c \in Clients, CommitFinalize(c) PROVE TypeOK'
  <2> DEFINE members == Members(snapshot[c])
  <2>1. snapshot[c] \in Snapshots /\ (request[c] \in {"add", "remove"} => artifact[c] \in Artifacts)
    BY <1>0, <1>18 DEF CommitFinalize, PlaceInv, Knows
  <2>2. members \in SUBSET Artifacts
    BY <2>1, <1>18 DEF CommitFinalize, Members
  <2>3. Cardinality(members) \in Nat /\ HashOf(members) \in [Contents -> Nat]
    BY <2>2, HashType
  <2> QED BY <1>0, <1>18, <2>1, <2>3 DEF TypeOK, CommitFinalize, Answer, Unlock, RefreshMembership
<1>19. ASSUME NEW c \in Clients, CommitSubmit(c) PROVE TypeOK'
  BY <1>0, <1>19 DEF CommitSubmit, Answer, Unlock, TypeOK, PlaceInv, Knows
<1>20. ASSUME NEW c \in Clients, Abort(c) PROVE TypeOK'
  BY <1>0, <1>20 DEF Abort, Answer, Unlock, TypeOK, PlaceInv, Knows
<1>21. ASSUME NEW s \in Snapshots, CreateSnapshot(s) PROVE TypeOK'
  BY <1>0, <1>21 DEF CreateSnapshot, TypeOK, PlaceInv, Knows
<1> QED BY <1>1, <1>2, <1>3, <1>4, <1>5, <1>6, <1>7, <1>8, <1>9, <1>10, <1>11, <1>12, <1>13, <1>14, <1>15,
           <1>16, <1>17, <1>18, <1>19, <1>20, <1>21 DEF Next, UploadStep, SnapshotStep

\* An upload has an id of its own until it is answered, and a request on a snapshot
\* the locks it took: nobody else writes what they rely on (LocalFilesystemArtifactStorage.write,
\* _lock_snapshot, _lock_artifact).
LEMMA PlaceStep == IInv /\ Next => PlaceInv'
<1> SUFFICES ASSUME IInv, Next PROVE PlaceInv'
  OBVIOUS
<1> USE NoneAssumption DEF Uploading, Requests, Expected
<1>0. TypeOK /\ PlaceInv /\ RowInv
  BY DEF IInv
<1>1. ASSUME NEW c \in Clients, NEW x \in Artifacts, NEW h \in Contents, Upload(c, x, h) PROVE PlaceInv'
  BY <1>0, <1>1 DEF Upload, TypeOK, PlaceInv, Knows, RowInv
<1>2. ASSUME NEW c \in Clients, NEW s \in Snapshots, NEW x \in Artifacts, NEW kind \in {"add", "remove"},
             Begin(c, kind, s, x)
      PROVE  PlaceInv'
  BY <1>0, <1>2 DEF Begin, TypeOK, PlaceInv, Knows, RowInv
<1>3. ASSUME NEW c \in Clients, NEW s \in Snapshots, NEW kind \in {"finalize", "submit"},
             Begin(c, kind, s, None)
      PROVE  PlaceInv'
  BY <1>0, <1>3 DEF Begin, TypeOK, PlaceInv, Knows, RowInv
<1>4. ASSUME NEW c \in Clients, WriteTemporary(c) PROVE PlaceInv'
  BY <1>0, <1>4 DEF WriteTemporary, FileStep, TypeOK, PlaceInv, Knows, RowInv
<1>5. ASSUME NEW c \in Clients, SyncTemporary(c) PROVE PlaceInv'
  BY <1>0, <1>5 DEF SyncTemporary, FileStep, TypeOK, PlaceInv, Knows, RowInv
<1>6. ASSUME NEW c \in Clients, Link(c) PROVE PlaceInv'
  BY <1>0, <1>6 DEF Link, FileStep, TypeOK, PlaceInv, Knows, RowInv
<1>7. ASSUME NEW c \in Clients, RemoveTemporary(c) PROVE PlaceInv'
  BY <1>0, <1>7 DEF RemoveTemporary, FileStep, TypeOK, PlaceInv, Knows, RowInv
<1>8. ASSUME NEW c \in Clients, WriteFails(c) PROVE PlaceInv'
  BY <1>0, <1>8 DEF WriteFails, Answer, TypeOK, PlaceInv, Knows, RowInv
<1>9. ASSUME NEW c \in Clients, CommitRow(c) PROVE PlaceInv'
  BY <1>0, <1>9 DEF CommitRow, TypeOK, PlaceInv, Knows, RowInv
<1>10. ASSUME NEW c \in Clients, Refresh(c) PROVE PlaceInv'
  BY <1>0, <1>10 DEF Refresh, Answer, TypeOK, PlaceInv, Knows, RowInv
<1>11. ASSUME NEW c \in Clients, PersistFails(c) PROVE PlaceInv'
  BY <1>0, <1>11 DEF PersistFails, TypeOK, PlaceInv, Knows, RowInv
<1>12. ASSUME NEW c \in Clients, Compensate(c) PROVE PlaceInv'
  BY <1>0, <1>12 DEF Compensate, Answer, TypeOK, PlaceInv, Knows, RowInv
<1>13. ASSUME NEW c \in Clients, LockSnapshot(c) PROVE PlaceInv'
  BY <1>0, <1>13 DEF LockSnapshot, TypeOK, PlaceInv, Knows, RowInv
<1>14. ASSUME NEW c \in Clients, LockArtifacts(c) PROVE PlaceInv'
  <2>1. \A x \in Artifacts : artifactLock[x] # None => artifactLock'[x] = artifactLock[x]
    BY <1>0, <1>14 DEF LockArtifacts, TypeOK
  <2>2. ASSUME NEW d \in Clients \ {c} PROVE Knows(d)'
    <3>1. Knows(d)
      BY <1>0 DEF PlaceInv
    <3> QED BY <1>0, <1>14, <2>1, <3>1 DEF LockArtifacts, TypeOK, Knows
  <2>3. Knows(c)'
    <3>1. Knows(c) /\ at[c] = "checked" /\ at'[c] = "commit"
      BY <1>0, <1>14 DEF LockArtifacts, TypeOK, PlaceInv
    <3>2. request[c] \in {"add", "remove"} => artifactLock'[artifact[c]] = c
      BY <1>0, <1>14, <3>1 DEF LockArtifacts, Wanted, Knows
    <3>3. Acceptable(c)
      BY <1>14 DEF LockArtifacts
    <3> QED BY <1>14, <3>1, <3>2, <3>3 DEF LockArtifacts, Acceptable, Knows
  <2> QED BY <2>2, <2>3 DEF PlaceInv
<1>15. ASSUME NEW c \in Clients, Refuse(c) PROVE PlaceInv'
  BY <1>0, <1>15 DEF Refuse, Answer, Unlock, TypeOK, PlaceInv, Knows, RowInv
<1>16. ASSUME NEW c \in Clients, CommitAdd(c) PROVE PlaceInv'
  BY <1>0, <1>16 DEF CommitAdd, Answer, Unlock, RefreshMembership, TypeOK, PlaceInv, Knows, RowInv
<1>17. ASSUME NEW c \in Clients, CommitRemove(c) PROVE PlaceInv'
  BY <1>0, <1>17 DEF CommitRemove, Answer, Unlock, RefreshMembership, TypeOK, PlaceInv, Knows, RowInv
<1>18. ASSUME NEW c \in Clients, CommitFinalize(c) PROVE PlaceInv'
  BY <1>0, <1>18 DEF CommitFinalize, Answer, Unlock, RefreshMembership, TypeOK, PlaceInv, Knows, RowInv
<1>19. ASSUME NEW c \in Clients, CommitSubmit(c) PROVE PlaceInv'
  BY <1>0, <1>19 DEF CommitSubmit, Answer, Unlock, TypeOK, PlaceInv, Knows, RowInv
<1>20. ASSUME NEW c \in Clients, Abort(c) PROVE PlaceInv'
  BY <1>0, <1>20 DEF Abort, Answer, Unlock, TypeOK, PlaceInv, Knows, RowInv
<1>21. ASSUME NEW s \in Snapshots, CreateSnapshot(s) PROVE PlaceInv'
  BY <1>0, <1>21 DEF CreateSnapshot, TypeOK, PlaceInv, Knows, RowInv
<1> QED BY <1>1, <1>2, <1>3, <1>4, <1>5, <1>6, <1>7, <1>8, <1>9, <1>10, <1>11, <1>12, <1>13, <1>14, <1>15,
           <1>16, <1>17, <1>18, <1>19, <1>20, <1>21 DEF Next, UploadStep, SnapshotStep

\* An id is used up by the upload that drew it, and a row that is in a snapshot was
\* committed before (ingest_artifact, add_artifact).
LEMMA RowStep == IInv /\ Next => RowInv'
<1> SUFFICES ASSUME IInv, Next PROVE RowInv'
  OBVIOUS
<1> USE NoneAssumption DEF Uploading, Requests
<1>0. TypeOK /\ PlaceInv /\ RowInv
  BY DEF IInv
<1>1. ASSUME NEW c \in Clients, NEW x \in Artifacts, NEW h \in Contents, Upload(c, x, h) PROVE RowInv'
  BY <1>0, <1>1 DEF Upload, TypeOK, PlaceInv, Knows, RowInv
<1>2. ASSUME NEW c \in Clients, NEW s \in Snapshots, NEW x \in Artifacts, NEW kind \in {"add", "remove"},
             Begin(c, kind, s, x)
      PROVE  RowInv'
  BY <1>0, <1>2 DEF Begin, TypeOK, PlaceInv, Knows, RowInv
<1>3. ASSUME NEW c \in Clients, NEW s \in Snapshots, NEW kind \in {"finalize", "submit"},
             Begin(c, kind, s, None)
      PROVE  RowInv'
  BY <1>0, <1>3 DEF Begin, TypeOK, PlaceInv, Knows, RowInv
<1>4. ASSUME NEW c \in Clients, WriteTemporary(c) PROVE RowInv'
  BY <1>0, <1>4 DEF WriteTemporary, FileStep, TypeOK, PlaceInv, Knows, RowInv
<1>5. ASSUME NEW c \in Clients, SyncTemporary(c) PROVE RowInv'
  BY <1>0, <1>5 DEF SyncTemporary, FileStep, TypeOK, PlaceInv, Knows, RowInv
<1>6. ASSUME NEW c \in Clients, Link(c) PROVE RowInv'
  BY <1>0, <1>6 DEF Link, FileStep, TypeOK, PlaceInv, Knows, RowInv
<1>7. ASSUME NEW c \in Clients, RemoveTemporary(c) PROVE RowInv'
  BY <1>0, <1>7 DEF RemoveTemporary, FileStep, TypeOK, PlaceInv, Knows, RowInv
<1>8. ASSUME NEW c \in Clients, WriteFails(c) PROVE RowInv'
  BY <1>0, <1>8 DEF WriteFails, Answer, TypeOK, PlaceInv, Knows, RowInv
<1>9. ASSUME NEW c \in Clients, CommitRow(c) PROVE RowInv'
  BY <1>0, <1>9 DEF CommitRow, TypeOK, PlaceInv, Knows, RowInv
<1>10. ASSUME NEW c \in Clients, Refresh(c) PROVE RowInv'
  BY <1>0, <1>10 DEF Refresh, Answer, TypeOK, PlaceInv, Knows, RowInv
<1>11. ASSUME NEW c \in Clients, PersistFails(c) PROVE RowInv'
  <2>1. /\ artifact[c] \in Artifacts /\ content[artifact[c]] # None
        /\ (stored' = stored \/ stored' = [stored EXCEPT ![artifact[c]] = TRUE])
    BY <1>0, <1>11 DEF PersistFails, PlaceInv, Knows
  <2>2. /\ at[c] \in {"insert", "refresh"} /\ at' = [at EXCEPT ![c] = "compensate"]
        /\ UNCHANGED <<temporary, target, content, snapshotOf, status, count, hash, snapshotLock, artifactLock,
                      request, snapshot, artifact, answered>>
    BY <1>11 DEF PersistFails
  <2>3. at'[c] = "compensate" /\ \A d \in Clients \ {c} : at'[d] = at[d]
    BY <1>0, <2>2 DEF TypeOK
  <2>4. \A x \in Artifacts : content'[x] = None => target'[x] = "none" /\ ~stored'[x] /\ x \notin answered'
    BY <1>0, <2>1, <2>2 DEF TypeOK, RowInv
  <2>5. \A x \in Artifacts : snapshotOf'[x] # None => stored'[x]
    BY <1>0, <2>1, <2>2 DEF TypeOK, RowInv
  <2>6. \A d \in Clients : at'[d] \in Uploading => at[d] \in Uploading
    BY <2>2, <2>3
  <2> QED BY <1>0, <2>2, <2>4, <2>5, <2>6 DEF RowInv
<1>12. ASSUME NEW c \in Clients, Compensate(c) PROVE RowInv'
  BY <1>0, <1>12 DEF Compensate, Answer, TypeOK, PlaceInv, Knows, RowInv
<1>13. ASSUME NEW c \in Clients, LockSnapshot(c) PROVE RowInv'
  BY <1>0, <1>13 DEF LockSnapshot, TypeOK, PlaceInv, Knows, RowInv
<1>14. ASSUME NEW c \in Clients, LockArtifacts(c) PROVE RowInv'
  BY <1>0, <1>14 DEF LockArtifacts, Wanted, Acceptable, TypeOK, PlaceInv, Knows, RowInv
<1>15. ASSUME NEW c \in Clients, Refuse(c) PROVE RowInv'
  BY <1>0, <1>15 DEF Refuse, Answer, Unlock, TypeOK, PlaceInv, Knows, RowInv
<1>16. ASSUME NEW c \in Clients, CommitAdd(c) PROVE RowInv'
  BY <1>0, <1>16 DEF CommitAdd, Answer, Unlock, RefreshMembership, TypeOK, PlaceInv, Knows, RowInv
<1>17. ASSUME NEW c \in Clients, CommitRemove(c) PROVE RowInv'
  BY <1>0, <1>17 DEF CommitRemove, Answer, Unlock, RefreshMembership, TypeOK, PlaceInv, Knows, RowInv
<1>18. ASSUME NEW c \in Clients, CommitFinalize(c) PROVE RowInv'
  BY <1>0, <1>18 DEF CommitFinalize, Answer, Unlock, RefreshMembership, TypeOK, PlaceInv, Knows, RowInv
<1>19. ASSUME NEW c \in Clients, CommitSubmit(c) PROVE RowInv'
  BY <1>0, <1>19 DEF CommitSubmit, Answer, Unlock, TypeOK, PlaceInv, Knows, RowInv
<1>20. ASSUME NEW c \in Clients, Abort(c) PROVE RowInv'
  BY <1>0, <1>20 DEF Abort, Answer, Unlock, TypeOK, PlaceInv, Knows, RowInv
<1>21. ASSUME NEW s \in Snapshots, CreateSnapshot(s) PROVE RowInv'
  BY <1>0, <1>21 DEF CreateSnapshot, TypeOK, PlaceInv, Knows, RowInv
<1> QED BY <1>1, <1>2, <1>3, <1>4, <1>5, <1>6, <1>7, <1>8, <1>9, <1>10, <1>11, <1>12, <1>13, <1>14, <1>15,
           <1>16, <1>17, <1>18, <1>19, <1>20, <1>21 DEF Next, UploadStep, SnapshotStep

\* The row is committed before the answer, and compensation removes the file of an
\* upload that was not answered (ingest_artifact).
LEMMA AnsweredStep == IInv /\ Next => AnsweredUploadKept'
<1> SUFFICES ASSUME IInv, Next PROVE AnsweredUploadKept'
  OBVIOUS
<1> USE NoneAssumption DEF Uploading
<1>0. TypeOK /\ PlaceInv /\ AnsweredUploadKept
  BY DEF IInv
<1>1. ASSUME NEW c \in Clients, NEW x \in Artifacts, NEW h \in Contents, Upload(c, x, h) PROVE AnsweredUploadKept'
  BY <1>0, <1>1 DEF Upload, TypeOK, PlaceInv, Knows, AnsweredUploadKept
<1>2. ASSUME NEW c \in Clients, NEW s \in Snapshots, NEW x \in Artifacts, NEW kind \in {"add", "remove"},
             Begin(c, kind, s, x)
      PROVE  AnsweredUploadKept'
  BY <1>0, <1>2 DEF Begin, TypeOK, PlaceInv, Knows, AnsweredUploadKept
<1>3. ASSUME NEW c \in Clients, NEW s \in Snapshots, NEW kind \in {"finalize", "submit"},
             Begin(c, kind, s, None)
      PROVE  AnsweredUploadKept'
  BY <1>0, <1>3 DEF Begin, TypeOK, PlaceInv, Knows, AnsweredUploadKept
<1>4. ASSUME NEW c \in Clients, WriteTemporary(c) PROVE AnsweredUploadKept'
  BY <1>0, <1>4 DEF WriteTemporary, FileStep, TypeOK, PlaceInv, Knows, AnsweredUploadKept
<1>5. ASSUME NEW c \in Clients, SyncTemporary(c) PROVE AnsweredUploadKept'
  BY <1>0, <1>5 DEF SyncTemporary, FileStep, TypeOK, PlaceInv, Knows, AnsweredUploadKept
<1>6. ASSUME NEW c \in Clients, Link(c) PROVE AnsweredUploadKept'
  BY <1>0, <1>6 DEF Link, FileStep, TypeOK, PlaceInv, Knows, AnsweredUploadKept
<1>7. ASSUME NEW c \in Clients, RemoveTemporary(c) PROVE AnsweredUploadKept'
  BY <1>0, <1>7 DEF RemoveTemporary, FileStep, TypeOK, PlaceInv, Knows, AnsweredUploadKept
<1>8. ASSUME NEW c \in Clients, WriteFails(c) PROVE AnsweredUploadKept'
  BY <1>0, <1>8 DEF WriteFails, Answer, TypeOK, PlaceInv, Knows, AnsweredUploadKept
<1>9. ASSUME NEW c \in Clients, CommitRow(c) PROVE AnsweredUploadKept'
  BY <1>0, <1>9 DEF CommitRow, TypeOK, PlaceInv, Knows, AnsweredUploadKept
<1>10. ASSUME NEW c \in Clients, Refresh(c) PROVE AnsweredUploadKept'
  BY <1>0, <1>10 DEF Refresh, Answer, TypeOK, PlaceInv, Knows, AnsweredUploadKept
<1>11. ASSUME NEW c \in Clients, PersistFails(c) PROVE AnsweredUploadKept'
  BY <1>0, <1>11 DEF PersistFails, TypeOK, PlaceInv, Knows, AnsweredUploadKept
<1>12. ASSUME NEW c \in Clients, Compensate(c) PROVE AnsweredUploadKept'
  BY <1>0, <1>12 DEF Compensate, Answer, TypeOK, PlaceInv, Knows, AnsweredUploadKept
<1>13. ASSUME NEW c \in Clients, LockSnapshot(c) PROVE AnsweredUploadKept'
  BY <1>0, <1>13 DEF LockSnapshot, TypeOK, PlaceInv, Knows, AnsweredUploadKept
<1>14. ASSUME NEW c \in Clients, LockArtifacts(c) PROVE AnsweredUploadKept'
  BY <1>0, <1>14 DEF LockArtifacts, Wanted, Acceptable, TypeOK, PlaceInv, Knows, AnsweredUploadKept
<1>15. ASSUME NEW c \in Clients, Refuse(c) PROVE AnsweredUploadKept'
  BY <1>0, <1>15 DEF Refuse, Answer, Unlock, TypeOK, PlaceInv, Knows, AnsweredUploadKept
<1>16. ASSUME NEW c \in Clients, CommitAdd(c) PROVE AnsweredUploadKept'
  BY <1>0, <1>16
     DEF CommitAdd, Answer, Unlock, RefreshMembership, TypeOK, PlaceInv, Knows, AnsweredUploadKept
<1>17. ASSUME NEW c \in Clients, CommitRemove(c) PROVE AnsweredUploadKept'
  BY <1>0, <1>17
     DEF CommitRemove, Answer, Unlock, RefreshMembership, TypeOK, PlaceInv, Knows, AnsweredUploadKept
<1>18. ASSUME NEW c \in Clients, CommitFinalize(c) PROVE AnsweredUploadKept'
  BY <1>0, <1>18
     DEF CommitFinalize, Answer, Unlock, RefreshMembership, TypeOK, PlaceInv, Knows, AnsweredUploadKept
<1>19. ASSUME NEW c \in Clients, CommitSubmit(c) PROVE AnsweredUploadKept'
  BY <1>0, <1>19 DEF CommitSubmit, Answer, Unlock, TypeOK, PlaceInv, Knows, AnsweredUploadKept
<1>20. ASSUME NEW c \in Clients, Abort(c) PROVE AnsweredUploadKept'
  BY <1>0, <1>20 DEF Abort, Answer, Unlock, TypeOK, PlaceInv, Knows, AnsweredUploadKept
<1>21. ASSUME NEW s \in Snapshots, CreateSnapshot(s) PROVE AnsweredUploadKept'
  BY <1>0, <1>21 DEF CreateSnapshot, TypeOK, PlaceInv, Knows, AnsweredUploadKept
<1> QED BY <1>1, <1>2, <1>3, <1>4, <1>5, <1>6, <1>7, <1>8, <1>9, <1>10, <1>11, <1>12, <1>13, <1>14, <1>15,
           <1>16, <1>17, <1>18, <1>19, <1>20, <1>21 DEF Next, UploadStep, SnapshotStep

-----------------------------------------------------------------------------
(* Evidence.                                                               *)

\* Only requests that hold a snapshot's lock change its members, and each changes only
\* its own: the artifact that it adds is in no other, and what is being uploaded is in
\* none (add_artifact, remove_artifact, ingest_artifact).
LEMMA MembersStep ==
  ASSUME IInv, Next, NEW s \in Snapshots
  PROVE  \/ Members(s)' = Members(s)
         \/ \E c \in Clients : snapshot[c] = s /\ (CommitAdd(c) \/ CommitRemove(c))
<1>0. TypeOK /\ PlaceInv /\ RowInv
  BY DEF IInv
<1>1. CASE UNCHANGED <<stored, snapshotOf>>
  BY <1>1 DEF Members
<1>2. ASSUME NEW c \in Clients, CommitRow(c) \/ PersistFails(c) PROVE Members(s)' = Members(s)
  <2>1. /\ artifact[c] \in Artifacts /\ UNCHANGED snapshotOf
        /\ UNCHANGED stored \/ (~stored[artifact[c]] /\ stored' = [stored EXCEPT ![artifact[c]] = TRUE])
    BY <1>0, <1>2 DEF CommitRow, PersistFails, PlaceInv, Knows, Uploading
  <2>2. UNCHANGED stored => Members(s)' = Members(s)
    BY <2>1 DEF Members
  <2>3. snapshotOf[artifact[c]] # s \/ stored[artifact[c]]
    BY <1>0, <2>1, NoneAssumption DEF RowInv
  <2>4. ASSUME ~stored[artifact[c]], stored' = [stored EXCEPT ![artifact[c]] = TRUE]
        PROVE  Members(s)' = Members(s)
    <3>1. \A x \in Artifacts : snapshotOf'[x] = s => stored'[x] = stored[x]
      BY <1>0, <2>1, <2>3, <2>4 DEF TypeOK
    <3>2. snapshotOf' = snapshotOf
      BY <2>1
    <3> QED BY <3>1, <3>2 DEF Members
  <2> QED BY <2>1, <2>2, <2>4
<1>3. ASSUME NEW c \in Clients, CommitAdd(c) \/ CommitRemove(c), snapshot[c] # s
      PROVE  Members(s)' = Members(s)
  BY <1>0, <1>3, NoneAssumption DEF CommitAdd, CommitRemove, TypeOK, PlaceInv, Knows, Members
<1>4. ASSUME NEW c \in Clients,
             (UploadStep(c) /\ ~CommitRow(c) /\ ~PersistFails(c)) \/ Abort(c)
               \/ (SnapshotStep(c) /\ ~CommitAdd(c) /\ ~CommitRemove(c))
      PROVE  UNCHANGED <<stored, snapshotOf>>
  BY <1>4
     DEF UploadStep, SnapshotStep, Abort, WriteTemporary, SyncTemporary, Link, RemoveTemporary, FileStep,
              WriteFails, Refresh, Compensate, LockSnapshot, LockArtifacts, Refuse, CommitFinalize, CommitSubmit
<1>5. ASSUME NEW c \in Clients,
             \/ \E x \in Artifacts, h \in Contents : Upload(c, x, h)
             \/ \E t \in Snapshots, x \in Artifacts, kind \in {"add", "remove"} : Begin(c, kind, t, x)
             \/ \E t \in Snapshots, kind \in {"finalize", "submit"} : Begin(c, kind, t, None)
      PROVE  UNCHANGED <<stored, snapshotOf>>
  BY <1>5 DEF Upload, Begin
<1>6. ASSUME NEW t \in Snapshots, CreateSnapshot(t) PROVE UNCHANGED <<stored, snapshotOf>>
  BY <1>6 DEF CreateSnapshot
<1> QED BY <1>1, <1>2, <1>3, <1>4, <1>5, <1>6 DEF Next, UploadStep, SnapshotStep

\* Bytes that are stored keep their hash: an upload draws a new id (uuid4).
LEMMA ContentKept ==
  ASSUME IInv, Next, NEW x \in Artifacts, content[x] # None
  PROVE  content'[x] = content[x]
<1>1. UNCHANGED content \/ \E c \in Clients, y \in Artifacts, h \in Contents : Upload(c, y, h)
  <2>1. \A c \in Clients : UploadStep(c) => UNCHANGED content
    BY DEF UploadStep, WriteTemporary, SyncTemporary, Link, RemoveTemporary, FileStep, WriteFails, CommitRow,
           Refresh, PersistFails, Compensate
  <2>2. \A c \in Clients : SnapshotStep(c) => UNCHANGED content
    BY DEF SnapshotStep, LockSnapshot, LockArtifacts, Refuse, CommitAdd, CommitRemove, CommitFinalize, CommitSubmit
  <2>3. \A c \in Clients : Abort(c) => UNCHANGED content
    BY DEF Abort
  <2>4. \A c, kind, t, y : Begin(c, kind, t, y) => UNCHANGED content
    BY DEF Begin
  <2>5. \A t \in Snapshots : CreateSnapshot(t) => UNCHANGED content
    BY DEF CreateSnapshot
  <2> QED BY <2>1, <2>2, <2>3, <2>4, <2>5 DEF Next
<1> QED BY <1>1 DEF IInv, TypeOK, Upload

\* Count and hash are written by membership changes and finalization.
LEMMA RecordStep ==
  ASSUME IInv, Next, NEW s \in Snapshots
  PROVE  \/ UNCHANGED <<count[s], hash[s]>>
         \/ \E c \in Clients : snapshot[c] = s /\ (CommitAdd(c) \/ CommitRemove(c) \/ CommitFinalize(c))
<1>1. \/ UNCHANGED <<count, hash>>
      \/ \E c \in Clients : CommitAdd(c) \/ CommitRemove(c) \/ CommitFinalize(c)
  <2>1. \A c \in Clients : UploadStep(c) => UNCHANGED <<count, hash>>
    BY DEF UploadStep, WriteTemporary, SyncTemporary, Link, RemoveTemporary, FileStep, WriteFails, CommitRow,
           Refresh, PersistFails, Compensate
  <2>2. \A c \in Clients : SnapshotStep(c) =>
          UNCHANGED <<count, hash>> \/ CommitAdd(c) \/ CommitRemove(c) \/ CommitFinalize(c)
    BY DEF SnapshotStep, LockSnapshot, LockArtifacts, Refuse, CommitSubmit
  <2>3. \A c \in Clients : Abort(c) => UNCHANGED <<count, hash>>
    BY DEF Abort
  <2>4. \A c, kind, t, y : Begin(c, kind, t, y) \/ Upload(c, y, kind) => UNCHANGED <<count, hash>>
    BY DEF Begin, Upload
  <2>5. \A t \in Snapshots : CreateSnapshot(t) => UNCHANGED <<count, hash>>
    BY DEF CreateSnapshot
  <2> QED BY <2>1, <2>2, <2>3, <2>4, <2>5 DEF Next
<1>2. ASSUME NEW c \in Clients, CommitAdd(c) \/ CommitRemove(c) \/ CommitFinalize(c), snapshot[c] # s
      PROVE  UNCHANGED <<count[s], hash[s]>>
  BY <1>2 DEF IInv, TypeOK, CommitAdd, CommitRemove, CommitFinalize, RefreshMembership
<1> QED BY <1>1, <1>2

\* Count and hash follow the members, transaction by transaction
\* (_refresh_membership).
LEMMA CoherentStep == IInv /\ Next => SnapshotCoherent'
<1> SUFFICES ASSUME IInv, Next, NEW s \in Snapshots
             PROVE  count'[s] = Cardinality(Members(s)') /\ hash'[s] = HashOf(Members(s))'
  BY DEF SnapshotCoherent
<1>0. TypeOK /\ PlaceInv /\ RowInv /\ SnapshotCoherent
  BY DEF IInv
<1>1. \A x \in Artifacts : stored[x] => content'[x] = content[x]
  BY <1>0, ContentKept DEF RowInv
<1>2. CASE Members(s)' = Members(s) /\ UNCHANGED <<count[s], hash[s]>>
  <2>1. HashOf(Members(s))' = HashOf(Members(s))
    BY <1>1, <1>2, HashKept DEF Members
  <2> QED BY <1>0, <1>2, <2>1 DEF SnapshotCoherent
<1>3. ASSUME NEW c \in Clients, snapshot[c] = s, CommitAdd(c) PROVE
        count'[s] = Cardinality(Members(s)') /\ hash'[s] = HashOf(Members(s))'
  <2> DEFINE S == Members(s) \cup {artifact[c]}
  <2>1. Members(s)' = S /\ \A x \in S : content'[x] = content[x]
    BY <1>0, <1>1, <1>3 DEF CommitAdd, TypeOK, PlaceInv, Knows, Members
  <2>2. HashOf(Members(s))' = HashOf(S)
    BY <2>1, HashKept
  <2> QED BY <1>0, <1>3, <2>1, <2>2 DEF CommitAdd, RefreshMembership, TypeOK
<1>4. ASSUME NEW c \in Clients, snapshot[c] = s, CommitRemove(c) PROVE
        count'[s] = Cardinality(Members(s)') /\ hash'[s] = HashOf(Members(s))'
  <2> DEFINE S == Members(s) \ {artifact[c]}
  <2>1. Members(s)' = S /\ \A x \in S : content'[x] = content[x]
    BY <1>0, <1>1, <1>4, NoneAssumption DEF CommitRemove, TypeOK, PlaceInv, Knows, Members
  <2>2. HashOf(Members(s))' = HashOf(S)
    BY <2>1, HashKept
  <2> QED BY <1>0, <1>4, <2>1, <2>2 DEF CommitRemove, RefreshMembership, TypeOK
<1>5. ASSUME NEW c \in Clients, snapshot[c] = s, CommitFinalize(c) PROVE
        count'[s] = Cardinality(Members(s)') /\ hash'[s] = HashOf(Members(s))'
  <2>1. Members(s)' = Members(s) /\ \A x \in Members(s) : content'[x] = content[x]
    BY <1>1, <1>5 DEF CommitFinalize, Members
  <2>2. HashOf(Members(s))' = HashOf(Members(s))
    BY <2>1, HashKept
  <2> QED BY <1>0, <1>5, <2>1, <2>2 DEF CommitFinalize, RefreshMembership, TypeOK
<1> QED BY <1>2, <1>3, <1>4, <1>5, MembersStep, RecordStep

\* A request that was checked before the finalization holds the lock that the
\* finalization needs, so it came first (_lock_snapshot, _require_draft).
LEMMA FrozenStep ==
  ASSUME IInv, Next, NEW s \in Snapshots, status[s] \in Finalized
  PROVE  status'[s] \in Finalized /\ Members(s)' = Members(s) /\ UNCHANGED <<count[s], hash[s]>>
<1>0. TypeOK /\ PlaceInv
  BY DEF IInv
<1>1. ~\E c \in Clients : snapshot[c] = s /\ (CommitAdd(c) \/ CommitRemove(c) \/ CommitFinalize(c))
  BY <1>0 DEF CommitAdd, CommitRemove, CommitFinalize, PlaceInv, Knows, Expected, Finalized
<1>2. \/ UNCHANGED status
      \/ \E c \in Clients : CommitFinalize(c) \/ CommitSubmit(c)
      \/ \E t \in Snapshots : CreateSnapshot(t)
  <2>1. \A c \in Clients : UploadStep(c) => UNCHANGED status
    BY DEF UploadStep, WriteTemporary, SyncTemporary, Link, RemoveTemporary, FileStep, WriteFails, CommitRow,
           Refresh, PersistFails, Compensate
  <2>2. \A c \in Clients : SnapshotStep(c) => UNCHANGED status \/ CommitFinalize(c) \/ CommitSubmit(c)
    BY DEF SnapshotStep, LockSnapshot, LockArtifacts, Refuse, CommitAdd, CommitRemove
  <2>3. \A c \in Clients : Abort(c) => UNCHANGED status
    BY DEF Abort
  <2>4. \A c, kind, t, y : Begin(c, kind, t, y) \/ Upload(c, y, kind) => UNCHANGED status
    BY DEF Begin, Upload
  <2> QED BY <2>1, <2>2, <2>3, <2>4 DEF Next
<1>3. status'[s] \in Finalized
  BY <1>0, <1>1, <1>2 DEF TypeOK, CommitFinalize, CommitSubmit, CreateSnapshot, Finalized
<1> QED BY <1>1, <1>3, MembersStep, RecordStep

-----------------------------------------------------------------------------
(* The inductive invariant and what follows from it.                       *)

\* Artifacts uploaded earlier, and no snapshot yet.
LEMMA InvInit == Init => IInv
<1> SUFFICES ASSUME Init PROVE IInv
  OBVIOUS
<1>1. PICK h \in [Existing -> Contents] : content = [x \in Artifacts |-> IF x \in Existing THEN h[x] ELSE None]
  BY DEF Init
<1>2. TypeOK
  BY <1>1, ArtifactsAssumption DEF Init, TypeOK, File
<1>3. PlaceInv /\ RowInv /\ AnsweredUploadKept
  <2>1. \A x \in Artifacts : content[x] = None => x \notin Existing
    BY <1>1, NoneAssumption
  <2> QED BY <2>1, ArtifactsAssumption DEF Init, PlaceInv, Knows, RowInv, AnsweredUploadKept, Uploading
<1>4. \A s \in Snapshots : Members(s) = {}
  BY NoneAssumption DEF Init, Members
<1>5. SnapshotCoherent
  <2>1. Cardinality({}) = 0
    BY FS_EmptySet
  <2>2. HashOf({}) = [c \in Contents |-> 0]
    <3>1. \A c \in Contents : {x \in {} : content[x] = c} = {}
      OBVIOUS
    <3> QED BY <2>1, <3>1 DEF HashOf
  <2> QED BY <1>4, <2>1, <2>2 DEF Init, SnapshotCoherent
<1> QED BY <1>2, <1>3, <1>5 DEF IInv

\* Every step of a request, and every failure, preserves it.
LEMMA InvStep == IInv /\ [Next]_vars => IInv'
<1>1. IInv /\ Next => IInv'
  BY TypeStep, PlaceStep, RowStep, AnsweredStep, CoherentStep DEF IInv
<1>2. ASSUME IInv, UNCHANGED vars PROVE IInv'
  <2> USE <1>2 DEF vars
  <2>1. TypeOK' /\ PlaceInv' /\ RowInv' /\ AnsweredUploadKept'
    BY DEF IInv, TypeOK, PlaceInv, Knows, RowInv, AnsweredUploadKept
  <2>2. SnapshotCoherent'
    BY DEF IInv, SnapshotCoherent, Members, HashOf
  <2> QED BY <2>1, <2>2 DEF IInv
<1> QED BY <1>1, <1>2

\* The invariant of uploads, snapshots and row locks, in every reachable state.
THEOREM EvidenceInvariantHolds == Spec => []IInv
BY InvInit, InvStep, PTL DEF Spec

\* Files, rows, locks and requests keep their types.
THEOREM EvidenceTypeCorrect == Spec => []TypeOK
<1>1. IInv => TypeOK
  BY DEF IInv
<1> QED BY EvidenceInvariantHolds, <1>1, PTL

\* An upload that was answered with success has its row and all of its bytes, whatever
\* failed or crashed, then or in other uploads (ingest_artifact).
THEOREM AnsweredUploadsAreKept == Spec => []AnsweredUploadKept
<1>1. IInv => AnsweredUploadKept
  BY DEF IInv
<1> QED BY EvidenceInvariantHolds, <1>1, PTL

\* Count and hash of a snapshot describe its members (_refresh_membership).
THEOREM SnapshotsAreCoherent == Spec => []SnapshotCoherent
<1>1. IInv => SnapshotCoherent
  BY DEF IInv
<1> QED BY EvidenceInvariantHolds, <1>1, PTL

\* From finalization on, the evidence of a snapshot never changes, with any number of
\* concurrent requests on it (_lock_snapshot, _require_draft).
THEOREM FinalizedEvidenceStaysFrozen == Spec => FinalizedEvidenceFrozen
<1> DEFINE Frozen(s) == /\ status'[s] \in Finalized
                        /\ Members(s)' = Members(s)
                        /\ UNCHANGED <<count[s], hash[s]>>
<1>1. IInv /\ [Next]_vars => [\A s \in Snapshots : status[s] \in Finalized => Frozen(s)]_vars
  BY FrozenStep
<1> QED BY <1>1, EvidenceInvariantHolds, PTL DEF Spec, FinalizedEvidenceFrozen
=============================================================================
