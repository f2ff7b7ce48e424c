------------------------ MODULE MappingTrainingProofs ------------------------
(***************************************************************************)
(* Theorems about mapping versions, their validation and the packs they    *)
(* are published into, for any versions, mappings, runs and definitions.   *)
(***************************************************************************)
EXTENDS MappingTraining, SequenceTheorems, TLAPS

USE DEF rows, runs, transactions, Set

\* A version has a definition of a mapping, a run a version, and a validation is
\* executed while its run is PENDING.
RowInv ==
  /\ \A v \in Existing : mapping[v] \in Mappings /\ definition[v] \in Definitions
  /\ \A r \in Runs : runStatus[r] # "absent" => runMapping[r] \in Existing
  /\ \A r \in Runs : executing[r] # "no" => runStatus[r] = "pending"

\* A publication has locked its version, which stays APPROVED, and at its end the row
\* of its pack.
LockInv ==
  /\ \A v \in Versions : publishing[v] # "no" => status[v] = "approved"
  /\ \A v \in Versions : publishing[v] = "commit" => packLock[Key(v)] = v

IInv ==
  /\ TypeOK
  /\ RowInv
  /\ LockInv
  /\ PublishedIsValidated
  /\ PackHoldsOneVersion
  /\ OnePublishedVersion

-----------------------------------------------------------------------------
(* Types, rows and locks.                                                  *)

\* The latest version of a pack is a set of versions, one of its versions or none.
LEMMA LatestPackIsVersion ==
  ASSUME TypeOK, NEW k \in PackKeys
  PROVE  /\ LatestPack(k) \in SUBSET Versions
         /\ LatestPack(k) = {} \/ \E i \in 1 .. Len(packs[k]) : LatestPack(k) = packs[k][i]
<1>1. packs[k] \in Seq(SUBSET Versions)
  BY DEF TypeOK
<1>2. CASE packs[k] = <<>>
  BY <1>2 DEF LatestPack
<1>3. CASE packs[k] # <<>>
  <2>1. Len(packs[k]) \in 1 .. Len(packs[k])
    BY <1>1, <1>3
  <2> QED BY <1>1, <1>3, <2>1 DEF LatestPack
<1> QED BY <1>2, <1>3

\* A version that a publication locked belongs to a pack.
LEMMA KeyIsPackKey ==
  ASSUME RowInv, LockInv, NEW v \in Versions, publishing[v] # "no"
  PROVE  v \in Existing /\ status[v] = "approved" /\ Key(v) \in PackKeys
BY DefinitionsAssumption DEF RowInv, LockInv, Existing, Key

\* What a publication commits: the version is PUBLISHED, and one published version of
\* the mapping, if there is one, is superseded (publish_mapping).
LEMMA CommitEffect ==
  ASSUME TypeOK, RowInv, LockInv, NEW v \in Versions, PublishCommit(v)
  PROVE  /\ v \in Existing /\ status[v] = "approved" /\ status'[v] = "published"
         /\ Key(v) \in PackKeys
         /\ packs' = [packs EXCEPT ![Key(v)] = Append(packs[Key(v)], Retained(v) \cup {v})]
         /\ \A w \in Versions \ {v} : status'[w] = status[w]
                                      \/ (w \in Predecessors(v) /\ status'[w] = "superseded")
         /\ Predecessors(v) # {} => \E w \in Predecessors(v) : status'[w] = "superseded"
         /\ status' \in [Versions -> Statuses]
<1>1. v \in Existing /\ status[v] = "approved" /\ Key(v) \in PackKeys
  BY KeyIsPackKey DEF PublishCommit
<1>2. PICK newStatus \in Superseded(v) : status' = [newStatus EXCEPT ![v] = "published"]
  BY DEF PublishCommit
<1>3. packs' = [packs EXCEPT ![Key(v)] = Append(packs[Key(v)], Retained(v) \cup {v})]
  BY DEF PublishCommit
<1>4. v \notin Predecessors(v)
  BY <1>1 DEF Predecessors
<1>5. CASE Predecessors(v) = {}
  BY <1>1, <1>2, <1>3, <1>5 DEF TypeOK, Superseded, Statuses
<1>6. CASE Predecessors(v) # {}
  <2>1. PICK w \in Predecessors(v) : newStatus = [status EXCEPT ![w] = "superseded"]
    BY <1>2, <1>6 DEF Superseded
  <2>2. w \in Versions \ {v}
    BY <1>4, <2>1 DEF Predecessors, Existing
  <2> QED BY <1>1, <1>2, <1>3, <2>1, <2>2 DEF TypeOK, Statuses
<1> QED BY <1>5, <1>6

\* Columns, packs and the state of transactions keep their types.
LEMMA TypeStep == IInv /\ Next => TypeOK'
<1> SUFFICES ASSUME IInv, Next PROVE TypeOK'
  OBVIOUS
<1>0. TypeOK /\ RowInv /\ LockInv
  BY DEF IInv
<1> USE DEF Statuses, Mutable, Results
<1>1. ASSUME NEW v \in Versions, NEW m \in Mappings, NEW previous \in Versions \cup {None}, NEW d \in Definitions,
             CreateMapping(v, m, previous, d)
      PROVE  TypeOK'
  BY <1>0, <1>1 DEF CreateMapping, NextNumber, TypeOK, Existing
<1>2. ASSUME NEW v \in Versions, NEW d \in Definitions, UpdateMapping(v, d) PROVE TypeOK'
  BY <1>0, <1>2 DEF UpdateMapping, TypeOK, Existing
<1>3. ASSUME NEW v \in Versions, NEW r \in Runs, RequestValidation(v, r) PROVE TypeOK'
  BY <1>0, <1>3 DEF RequestValidation, TypeOK, Existing
<1>4. ASSUME NEW v \in Versions, RejectMapping(v) PROVE TypeOK'
  BY <1>0, <1>4 DEF RejectMapping, TypeOK, Existing
<1>5. ASSUME NEW v \in Versions, Approve(v) PROVE TypeOK'
  BY <1>0, <1>5 DEF Approve, TypeOK, Existing
<1>6. ASSUME NEW v \in Versions, PublishBegin(v) PROVE TypeOK'
  BY <1>0, <1>6 DEF PublishBegin, TypeOK, Existing
<1>7. ASSUME NEW v \in Versions, PublishAbort(v) PROVE TypeOK'
  BY <1>0, <1>7 DEF PublishAbort, TypeOK, Existing
<1>8. ASSUME NEW v \in Versions, PublishSelectPack(v) PROVE TypeOK'
  BY <1>0, <1>8 DEF PublishSelectPack, TypeOK, Existing
<1>9. ASSUME NEW v \in Versions, PublishCreatePack(v) PROVE TypeOK'
  BY <1>0, <1>9 DEF PublishCreatePack, TypeOK, Existing
<1>10. ASSUME NEW v \in Versions, PublishCommit(v) PROVE TypeOK'
  <2>1. Append(packs[Key(v)], Retained(v) \cup {v}) \in Seq(SUBSET Versions)
    <3>1. Key(v) \in PackKeys
      BY <1>0, <1>10, CommitEffect
    <3>2. Retained(v) \cup {v} \in SUBSET Versions
      BY <1>0, <3>1, LatestPackIsVersion DEF Retained
    <3> QED BY <1>0, <3>1, <3>2 DEF TypeOK
  <2>2. packs' \in [PackKeys -> Seq(SUBSET Versions)]
    <3>1. packs' = [packs EXCEPT ![Key(v)] = Append(packs[Key(v)], Retained(v) \cup {v})]
      BY <1>0, <1>10, CommitEffect
    <3> HIDE DEF Retained, Key
    <3> QED BY <1>0, <2>1, <3>1 DEF TypeOK
  <2>3. \A w \in Existing' : number'[w] > 0
    BY <1>0, <1>10, CommitEffect DEF TypeOK, PublishCommit, Predecessors, Existing
  <2>4. status' \in [Versions -> Statuses]
    BY <1>0, <1>10, CommitEffect
  <2>5. packLock' \in [PackKeys -> Versions \cup {None}] /\ publishing' \in [Versions -> {"no", "pack", "create", "commit"}]
    BY <1>0, <1>10 DEF TypeOK, PublishCommit
  <2> QED BY <1>0, <1>10, <2>2, <2>3, <2>4, <2>5 DEF TypeOK, PublishCommit
<1>11. ASSUME NEW r \in Runs, ExecuteBegin(r) PROVE TypeOK'
  BY <1>0, <1>11 DEF ExecuteBegin, TypeOK, Existing
<1>12. ASSUME NEW r \in Runs, ExecuteCommit(r) PROVE TypeOK'
  <2>1. runMapping[r] \in Existing
    BY <1>0, <1>12 DEF RowInv, ExecuteCommit
  <2>2. definition[runMapping[r]] \in Definitions
    BY <1>0, <2>1 DEF RowInv
  <2> QED BY <1>0, <1>12, <2>1, <2>2 DEF TypeOK, ExecuteCommit, Verdict, Existing
<1>13. ASSUME NEW r \in Runs, ExecuteAbort(r) PROVE TypeOK'
  BY <1>0, <1>13 DEF ExecuteAbort, TypeOK, Existing
<1> QED BY <1>1, <1>2, <1>3, <1>4, <1>5, <1>6, <1>7, <1>8, <1>9, <1>10, <1>11, <1>12, <1>13 DEF Next,
           VersionStep, PublishStep

\* Rows are never deleted, and a run is decided by the transaction that executes it.
LEMMA RowStep == IInv /\ Next => RowInv'
<1> SUFFICES ASSUME IInv, Next PROVE RowInv'
  OBVIOUS
<1>0. TypeOK /\ RowInv /\ LockInv
  BY DEF IInv
<1> USE DEF Mutable
<1>1. ASSUME NEW v \in Versions, NEW m \in Mappings, NEW previous \in Versions \cup {None}, NEW d \in Definitions,
             CreateMapping(v, m, previous, d)
      PROVE  RowInv'
  BY <1>0, <1>1 DEF CreateMapping, TypeOK, RowInv, Existing
<1>2. ASSUME NEW v \in Versions, NEW d \in Definitions, UpdateMapping(v, d) PROVE RowInv'
  BY <1>0, <1>2 DEF UpdateMapping, TypeOK, RowInv, Existing
<1>3. ASSUME NEW v \in Versions, NEW r \in Runs, RequestValidation(v, r) PROVE RowInv'
  BY <1>0, <1>3 DEF RequestValidation, TypeOK, RowInv, Existing
<1>4. ASSUME NEW v \in Versions, RejectMapping(v) PROVE RowInv'
  BY <1>0, <1>4 DEF RejectMapping, TypeOK, RowInv, Existing
<1>5. ASSUME NEW v \in Versions, Approve(v) PROVE RowInv'
  BY <1>0, <1>5 DEF Approve, TypeOK, RowInv, Existing
<1>6. ASSUME NEW v \in Versions, PublishBegin(v) PROVE RowInv'
  BY <1>0, <1>6 DEF PublishBegin, TypeOK, RowInv, Existing
<1>7. ASSUME NEW v \in Versions, PublishAbort(v) PROVE RowInv'
  BY <1>0, <1>7 DEF PublishAbort, TypeOK, RowInv, Existing
<1>8. ASSUME NEW v \in Versions, PublishSelectPack(v) PROVE RowInv'
  BY <1>0, <1>8 DEF PublishSelectPack, TypeOK, RowInv, Existing
<1>9. ASSUME NEW v \in Versions, PublishCreatePack(v) PROVE RowInv'
  BY <1>0, <1>9 DEF PublishCreatePack, TypeOK, RowInv, Existing
<1>10. ASSUME NEW v \in Versions, PublishCommit(v) PROVE RowInv'
  <2>1. Existing' = Existing
    BY <1>0, <1>10, CommitEffect DEF Predecessors, Existing
  <2> QED BY <1>0, <1>10, <2>1 DEF RowInv, PublishCommit
<1>11. ASSUME NEW r \in Runs, ExecuteBegin(r) PROVE RowInv'
  BY <1>0, <1>11 DEF ExecuteBegin, TypeOK, RowInv, Existing
<1>12. ASSUME NEW r \in Runs, ExecuteCommit(r) PROVE RowInv'
  BY <1>0, <1>12 DEF ExecuteCommit, TypeOK, RowInv, Existing
<1>13. ASSUME NEW r \in Runs, ExecuteAbort(r) PROVE RowInv'
  BY <1>0, <1>13 DEF ExecuteAbort, TypeOK, RowInv, Existing
<1> QED BY <1>1, <1>2, <1>3, <1>4, <1>5, <1>6, <1>7, <1>8, <1>9, <1>10, <1>11, <1>12, <1>13 DEF Next,
           VersionStep, PublishStep

\* What a publication has locked, no other transaction changes: editing wants a mutable
\* version, and the row of a pack has one lock (_lock_mapping, publish_mapping).
LEMMA LockStep == IInv /\ Next => LockInv'
<1> SUFFICES ASSUME IInv, Next PROVE LockInv'
  OBVIOUS
<1>0. TypeOK /\ RowInv /\ LockInv
  BY DEF IInv
<1> USE RowsAssumption, KeyIsPackKey DEF Mutable
<1>1. ASSUME NEW v \in Versions, NEW m \in Mappings, NEW previous \in Versions \cup {None}, NEW d \in Definitions,
             CreateMapping(v, m, previous, d)
      PROVE  LockInv'
  BY <1>0, <1>1 DEF CreateMapping, TypeOK, LockInv, Key, Unlocked
<1>2. ASSUME NEW v \in Versions, NEW d \in Definitions, UpdateMapping(v, d) PROVE LockInv'
  BY <1>0, <1>2 DEF UpdateMapping, TypeOK, LockInv, Key, Unlocked
<1>3. ASSUME NEW v \in Versions, NEW r \in Runs, RequestValidation(v, r) PROVE LockInv'
  BY <1>0, <1>3 DEF RequestValidation, TypeOK, LockInv, Key, Unlocked
<1>4. ASSUME NEW v \in Versions, RejectMapping(v) PROVE LockInv'
  BY <1>0, <1>4 DEF RejectMapping, TypeOK, LockInv, Key, Unlocked
<1>5. ASSUME NEW v \in Versions, Approve(v) PROVE LockInv'
  BY <1>0, <1>5 DEF Approve, TypeOK, LockInv, Key, Unlocked
<1>6. ASSUME NEW v \in Versions, PublishBegin(v) PROVE LockInv'
  BY <1>0, <1>6 DEF PublishBegin, TypeOK, LockInv, Key, Unlocked
<1>7. ASSUME NEW v \in Versions, PublishAbort(v) PROVE LockInv'
  BY <1>0, <1>7 DEF PublishAbort, TypeOK, LockInv, Key, Unlocked
<1>8. ASSUME NEW v \in Versions, PublishSelectPack(v) PROVE LockInv'
  BY <1>0, <1>8 DEF PublishSelectPack, TypeOK, LockInv, Key, Unlocked
<1>9. ASSUME NEW v \in Versions, PublishCreatePack(v) PROVE LockInv'
  BY <1>0, <1>9 DEF PublishCreatePack, TypeOK, LockInv, Key, Unlocked
<1>10. ASSUME NEW v \in Versions, PublishCommit(v) PROVE LockInv'
  <2>1. \A w \in Versions \ {v} : publishing[w] # "no" => status'[w] = "approved"
    BY <1>0, <1>10, CommitEffect DEF LockInv, Predecessors
  <2>2. publishing' = [publishing EXCEPT ![v] = "no"] /\ packLock' = [packLock EXCEPT ![Key(v)] = None]
        /\ UNCHANGED definition
    BY <1>10 DEF PublishCommit
  <2>3. \A w \in Versions \ {v} : publishing[w] = "commit" => packLock[Key(w)] = w /\ Key(w) # Key(v) /\ Key(w) \in PackKeys
    BY <1>0, <1>10, KeyIsPackKey DEF LockInv, PublishCommit
  <2>4. \A w \in Versions : Key(w)' = Key(w)
    BY <2>2 DEF Key
  <2> QED BY <1>0, <2>1, <2>2, <2>3, <2>4 DEF TypeOK, LockInv
<1>11. ASSUME NEW r \in Runs, ExecuteBegin(r) PROVE LockInv'
  BY <1>0, <1>11 DEF ExecuteBegin, TypeOK, LockInv, Key, Unlocked
<1>12. ASSUME NEW r \in Runs, ExecuteCommit(r) PROVE LockInv'
  BY <1>0, <1>12 DEF ExecuteCommit, TypeOK, LockInv, Key, Unlocked
<1>13. ASSUME NEW r \in Runs, ExecuteAbort(r) PROVE LockInv'
  BY <1>0, <1>13 DEF ExecuteAbort, TypeOK, LockInv, Key, Unlocked
<1> QED BY <1>1, <1>2, <1>3, <1>4, <1>5, <1>6, <1>7, <1>8, <1>9, <1>10, <1>11, <1>12, <1>13 DEF Next,
           VersionStep, PublishStep

-----------------------------------------------------------------------------
(* Validation.                                                             *)

Settled == {"approved", "published", "superseded"}

\* A version is settled by its approval only.
LEMMA OnlyApproveSettles ==
  ASSUME IInv, Next, NEW v \in Versions, status'[v] \in Settled
  PROVE  status[v] \in Settled \/ Approve(v)
<1> SUFFICES ASSUME ~Approve(v) PROVE status[v] \in Settled
  OBVIOUS
<1>0. TypeOK /\ RowInv /\ LockInv
  BY DEF IInv
<1>1. CASE UNCHANGED status
  BY <1>1
<1>2. ASSUME NEW w \in Versions,
             \/ \E m \in Mappings, previous \in Versions \cup {None}, d \in Definitions :
                  CreateMapping(w, m, previous, d)
             \/ \E d \in Definitions : UpdateMapping(w, d)
             \/ RejectMapping(w)
             \/ \E r \in Runs : RequestValidation(w, r)
             \/ Approve(w)
      PROVE  status[v] \in Settled
  BY <1>0, <1>2 DEF TypeOK, CreateMapping, UpdateMapping, RejectMapping, RequestValidation, Approve, Settled
<1>3. ASSUME NEW w \in Versions, PublishCommit(w) PROVE status[v] \in Settled
  BY <1>0, <1>3, CommitEffect DEF Predecessors, Settled
<1>4. ASSUME NEW w \in Versions,
             PublishBegin(w) \/ PublishAbort(w) \/ PublishSelectPack(w) \/ PublishCreatePack(w)
      PROVE  UNCHANGED status
  BY <1>4 DEF PublishBegin, PublishAbort, PublishSelectPack, PublishCreatePack
<1>5. ASSUME NEW r \in Runs, ExecuteBegin(r) \/ ExecuteCommit(r) \/ ExecuteAbort(r) PROVE UNCHANGED status
  BY <1>5 DEF ExecuteBegin, ExecuteCommit, ExecuteAbort
<1> QED BY <1>1, <1>2, <1>3, <1>4, <1>5 DEF Next, VersionStep, PublishStep

\* What a settled version says of itself and of its mapping is final
\* (_require_mutable in update_mapping, reject_mapping and request_validation).
LEMMA SettledKept ==
  ASSUME IInv, Next, NEW v \in Versions, status[v] \in Settled
  PROVE  /\ UNCHANGED <<definition[v], mapping[v], number[v]>>
         /\ status'[v] \in {status[v], "published", "superseded"}
         /\ status[v] \in {"published", "superseded"} => status'[v] \in {status[v], "superseded"}
<1>0. TypeOK /\ RowInv /\ LockInv
  BY DEF IInv
<1> USE DEF Settled, Mutable
<1>1. ASSUME NEW w \in Versions,
             \/ \E m \in Mappings, previous \in Versions \cup {None}, d \in Definitions :
                  CreateMapping(w, m, previous, d)
             \/ \E d \in Definitions : UpdateMapping(w, d)
             \/ RejectMapping(w)
             \/ \E r \in Runs : RequestValidation(w, r)
             \/ Approve(w)
      PROVE  UNCHANGED <<definition[v], mapping[v], number[v], status[v]>>
  BY <1>0, <1>1 DEF TypeOK, CreateMapping, UpdateMapping, RejectMapping, RequestValidation, Approve
<1>2. ASSUME NEW w \in Versions, PublishCommit(w)
      PROVE  /\ UNCHANGED <<definition[v], mapping[v], number[v]>>
             /\ status'[v] \in {status[v], "published", "superseded"}
             /\ status[v] \in {"published", "superseded"} => status'[v] \in {status[v], "superseded"}
  <2>1. UNCHANGED <<definition, mapping, number>>
    BY <1>2 DEF PublishCommit
  <2> QED BY <1>0, <1>2, <2>1, CommitEffect
<1>3. ASSUME NEW w \in Versions,
             PublishBegin(w) \/ PublishAbort(w) \/ PublishSelectPack(w) \/ PublishCreatePack(w)
      PROVE  UNCHANGED <<definition, mapping, number, status>>
  BY <1>3 DEF PublishBegin, PublishAbort, PublishSelectPack, PublishCreatePack
<1>4. ASSUME NEW r \in Runs, ExecuteBegin(r) \/ ExecuteCommit(r) \/ ExecuteAbort(r)
      PROVE  UNCHANGED <<definition, mapping, number, status>>
  BY <1>4 DEF ExecuteBegin, ExecuteCommit, ExecuteAbort
<1> QED BY <1>1, <1>2, <1>3, <1>4 DEF Next, VersionStep, PublishStep

\* The record of the validation that was published stays: nothing that writes it is
\* possible any more, but a late execution, and PostgreSQL refuses that one unless the
\* record is the same (trg_mapping_versions_immutable).
LEMMA RecordKept ==
  ASSUME IInv, Next, NEW v \in Versions, status[v] \in {"published", "superseded"}
  PROVE  validated'[v] = validated[v]
<1>0. TypeOK /\ RowInv
  BY DEF IInv
<1>1. CASE UNCHANGED validated
  BY <1>1
<1>2. ASSUME NEW w \in Versions, NEW d \in Definitions, UpdateMapping(w, d)
      PROVE  validated'[v] = validated[v]
  BY <1>0, <1>2 DEF TypeOK, UpdateMapping, Mutable
<1>3. ASSUME NEW r \in Runs, ExecuteCommit(r) PROVE validated'[v] = validated[v]
  <2>1. PICK passed \in BOOLEAN :
          /\ RecordAccepted(runMapping[r], Verdict(r, passed))
          /\ validated' = [validated EXCEPT ![runMapping[r]] = Verdict(r, passed)]
    BY <1>3 DEF ExecuteCommit
  <2>2. CASE runMapping[r] = v
    <3>1. Verdict(r, passed) = validated[v]
      BY <2>1, <2>2 DEF RecordAccepted
    <3> QED BY <1>0, <2>1, <2>2, <3>1 DEF TypeOK
  <2>3. CASE runMapping[r] # v
    BY <1>0, <2>1, <2>3 DEF TypeOK
  <2> QED BY <2>2, <2>3
<1>4. \/ UNCHANGED validated
      \/ \E w \in Versions, d \in Definitions : UpdateMapping(w, d)
      \/ \E r \in Runs : ExecuteCommit(r)
  BY DEF Next, VersionStep, PublishStep, CreateMapping, RequestValidation, RejectMapping, Approve, rows,
         PublishBegin, PublishAbort, PublishSelectPack, PublishCreatePack, PublishCommit, ExecuteBegin,
         ExecuteAbort
<1> QED BY <1>1, <1>2, <1>3, <1>4

\* A settled version keeps its latest run, and that run is decided already: a late
\* execution decides an earlier one (execute_validation, latest_validation).
LEMMA ValidationKept ==
  ASSUME IInv, Next, NEW v \in Versions, status[v] \in Settled, CurrentlyValidated(v)
  PROVE  CurrentlyValidated(v)'
<1>0. TypeOK /\ RowInv /\ LockInv
  BY DEF IInv
<1>1. definition'[v] = definition[v]
  BY SettledKept
<1>2. PICK latest \in RunsOf(v) :
        /\ \A q \in RunsOf(v) : q <= latest
        /\ runStatus[latest] = "passed"
        /\ result[latest].definition = definition[v]
  BY DEF CurrentlyValidated
<1>3. latest \in Runs
  BY DEF RunsOf
<1>4. RunsOf(v)' = RunsOf(v) /\ UNCHANGED <<runStatus[latest], result[latest]>>
  <2>1. CASE UNCHANGED runs
    BY <2>1 DEF RunsOf
  <2>2. ASSUME NEW w \in Versions, NEW r \in Runs, RequestValidation(w, r)
        PROVE  RunsOf(v)' = RunsOf(v) /\ UNCHANGED <<runStatus[latest], result[latest]>>
    <3>1. w # v /\ runStatus[r] = "absent" /\ UNCHANGED result
      BY <2>2 DEF RequestValidation, Settled, Mutable
    <3>2. runStatus' = [runStatus EXCEPT ![r] = "pending"] /\ runMapping' = [runMapping EXCEPT ![r] = w]
      BY <2>2 DEF RequestValidation
    <3> QED BY <1>0, <1>2, <1>3, <3>1, <3>2 DEF TypeOK, RunsOf
  <2>3. ASSUME NEW r \in Runs, ExecuteCommit(r)
        PROVE  RunsOf(v)' = RunsOf(v) /\ UNCHANGED <<runStatus[latest], result[latest]>>
    <3>1. r # latest /\ runStatus[r] = "pending"
      BY <1>0, <1>2, <2>3 DEF RowInv, ExecuteCommit
    <3>2. PICK passed \in BOOLEAN :
            /\ runStatus' = [runStatus EXCEPT ![r] = IF passed THEN "passed" ELSE "failed"]
            /\ result' = [result EXCEPT ![r] = Verdict(r, passed)]
      BY <2>3 DEF ExecuteCommit
    <3>3. UNCHANGED runMapping
      BY <2>3 DEF ExecuteCommit
    <3> QED BY <1>0, <1>3, <3>1, <3>2, <3>3 DEF TypeOK, RunsOf
  <2>4. \/ UNCHANGED runs
        \/ \E w \in Versions, r \in Runs : RequestValidation(w, r)
        \/ \E r \in Runs : ExecuteCommit(r)
    BY
       DEF Next, VersionStep, PublishStep, CreateMapping, UpdateMapping, RejectMapping, Approve,
           PublishBegin,
           PublishAbort, PublishSelectPack, PublishCreatePack, PublishCommit, ExecuteBegin, ExecuteAbort
  <2> QED BY <2>1, <2>2, <2>3, <2>4
<1> QED BY <1>1, <1>2, <1>4 DEF CurrentlyValidated

\* Approval wants a current validation, which is then kept (approve_mapping).
LEMMA ValidatedStep == IInv /\ Next => PublishedIsValidated'
<1> SUFFICES ASSUME IInv, Next, NEW v \in Versions, status'[v] \in Settled PROVE CurrentlyValidated(v)'
  BY DEF PublishedIsValidated, Settled
<1>1. CASE status[v] \in Settled
  BY <1>1, ValidationKept DEF IInv, PublishedIsValidated, Settled
<1>2. CASE Approve(v)
  BY <1>2 DEF Approve, CurrentlyValidated, RunsOf
<1> QED BY <1>1, <1>2, OnlyApproveSettles

-----------------------------------------------------------------------------
(* Packs.                                                                  *)

\* Only a commit of publish_mapping publishes, supersedes or adds a pack version.
LEMMA OnlyCommitPublishes ==
  ASSUME IInv, Next
  PROVE  \/ /\ UNCHANGED packs
            /\ \A v \in Versions : status'[v] \in {"published", "superseded"} => status'[v] = status[v]
            /\ \A v \in Versions : status[v] \in {"published", "superseded"} => status'[v] = status[v]
         \/ \E v \in Versions : PublishCommit(v)
<1>0. TypeOK
  BY DEF IInv
<1>1. ASSUME NEW w \in Versions,
             \/ \E m \in Mappings, previous \in Versions \cup {None}, d \in Definitions :
                  CreateMapping(w, m, previous, d)
             \/ \E d \in Definitions : UpdateMapping(w, d)
             \/ RejectMapping(w)
             \/ \E r \in Runs : RequestValidation(w, r)
             \/ Approve(w)
      PROVE  /\ UNCHANGED packs
             /\ \A v \in Versions : status'[v] \in {"published", "superseded"} => status'[v] = status[v]
             /\ \A v \in Versions : status[v] \in {"published", "superseded"} => status'[v] = status[v]
  BY <1>0, <1>1 DEF TypeOK, CreateMapping, UpdateMapping, RejectMapping, RequestValidation, Approve, Mutable
<1>2. ASSUME NEW w \in Versions,
             PublishBegin(w) \/ PublishAbort(w) \/ PublishSelectPack(w) \/ PublishCreatePack(w)
      PROVE  UNCHANGED <<packs, status>>
  BY <1>2 DEF PublishBegin, PublishAbort, PublishSelectPack, PublishCreatePack
<1>3. ASSUME NEW r \in Runs, ExecuteBegin(r) \/ ExecuteCommit(r) \/ ExecuteAbort(r)
      PROVE  UNCHANGED <<packs, status>>
  BY <1>3 DEF ExecuteBegin, ExecuteCommit, ExecuteAbort
<1> QED BY <1>1, <1>2, <1>3 DEF Next, VersionStep, PublishStep

\* A new pack version drops the version of the mapping that the previous one had
\* (publish_mapping's retained list).
LEMMA PackStep == IInv /\ Next => PackHoldsOneVersion'
<1> SUFFICES ASSUME IInv, Next PROVE PackHoldsOneVersion'
  OBVIOUS
<1>0. TypeOK /\ RowInv /\ LockInv /\ PackHoldsOneVersion
  BY DEF IInv
<1> DEFINE One(S) == \A v, w \in S : /\ status[v] \in {"published", "superseded"}
                                     /\ mapping[v] = mapping[w] => v = w
           OneNext(S) == \A v, w \in S : /\ status'[v] \in {"published", "superseded"}
                                         /\ mapping'[v] = mapping'[w] => v = w
<1>1. \A S \in SUBSET Versions : One(S) => OneNext(S)
  BY SettledKept DEF Settled
<1>2. \A k \in PackKeys : packs[k] \in Seq(SUBSET Versions) /\ \A i \in 1 .. Len(packs[k]) : One(packs[k][i])
  BY <1>0 DEF TypeOK, PackHoldsOneVersion
<1>3. \A k \in PackKeys : \A i \in 1 .. Len(packs[k]) : packs[k][i] \in SUBSET Versions /\ OneNext(packs[k][i])
  <2> SUFFICES ASSUME NEW k \in PackKeys, NEW i \in 1 .. Len(packs[k])
               PROVE  packs[k][i] \in SUBSET Versions /\ OneNext(packs[k][i])
    OBVIOUS
  <2> QED BY <1>1, <1>2
<1>4. CASE UNCHANGED packs
  BY <1>3, <1>4 DEF PackHoldsOneVersion
<1>5. ASSUME NEW v \in Versions, PublishCommit(v) PROVE PackHoldsOneVersion'
  <2> DEFINE k == Key(v)
             S == Retained(v) \cup {v}
  <2>1. /\ k \in PackKeys /\ packs' = [packs EXCEPT ![k] = Append(packs[k], S)]
        /\ status'[v] = "published" /\ UNCHANGED mapping
    BY <1>0, <1>5, CommitEffect DEF PublishCommit
  <2>2. \A w \in Retained(v) : w \in Versions /\ status'[w] \in {"published", "superseded"} /\ mapping[w] # mapping[v]
    <3>1. \A w \in LatestPack(k) : w \in Versions /\ status[w] \in {"published", "superseded"}
      BY <1>0, <1>2, <2>1, LatestPackIsVersion
    <3> QED BY <3>1, SettledKept DEF Retained, Settled
  <2>3. \A w, u \in Retained(v) : mapping[w] = mapping[u] => w = u
    BY <1>0, <1>2, <2>1, LatestPackIsVersion DEF Retained
  <2>4. OneNext(S)
    BY <2>1, <2>2, <2>3
  <2>5. ASSUME NEW key \in PackKeys, NEW i \in 1 .. Len(packs'[key]) PROVE OneNext(packs'[key][i])
    <3>1. CASE key # k
      <4>1. packs'[key] = packs[key]
        BY <1>0, <2>1, <3>1 DEF TypeOK
      <4> QED BY <1>3, <4>1
    <3>2. CASE key = k
      <4>1. packs'[key] = Append(packs[key], S) /\ packs[key] \in Seq(SUBSET Versions)
        BY <1>0, <2>1, <3>2 DEF TypeOK
      <4>2. S \in SUBSET Versions
        BY <2>2
      <4>3. (i \in 1 .. Len(packs[key]) /\ packs'[key][i] = packs[key][i]) \/ packs'[key][i] = S
        <5> HIDE DEF S, k
        <5> QED BY <4>1, <4>2
      <4> QED BY <1>3, <2>4, <4>3
    <3> QED BY <3>1, <3>2
  <2> QED BY <2>5 DEF PackHoldsOneVersion
<1> QED BY <1>4, <1>5, OnlyCommitPublishes

\* The versions of mapping a that were ever published.
Family(a) == {v \in Existing : mapping[v] = a /\ status[v] \in {"published", "superseded"}}

\* A published version is superseded by the commit that publishes the next one
\* (publish_mapping).
LEMMA OnePublishedStep == IInv /\ Next => OnePublishedVersion'
<1> SUFFICES ASSUME IInv, Next, NEW a \in Mappings, \A v, w \in Family(a)' : Key(v)' = Key(w)',
                    NEW v \in Family(a)', NEW w \in Family(a)', status'[v] = "published", status'[w] = "published"
             PROVE  v = w
  BY DEF OnePublishedVersion, Family
<1>0. TypeOK /\ RowInv /\ LockInv /\ OnePublishedVersion
  BY DEF IInv
<1>1. v \in Versions /\ w \in Versions /\ mapping'[v] = a /\ mapping'[w] = a
  BY DEF Family, Existing
<1>2. \A u \in Family(a) : u \in Family(a)' /\ Key(u)' = Key(u)
  BY SettledKept DEF Family, Existing, Settled, Key
<1>3. \A x, y \in Family(a) : Key(x) = Key(y)
  BY <1>2
<1>4. \A x, y \in Family(a) : status[x] = "published" /\ status[y] = "published" => x = y
  BY <1>0, <1>3 DEF OnePublishedVersion, Family
<1>5. CASE \A u \in Versions : status'[u] \in {"published", "superseded"} => status'[u] = status[u]
  <2>1. status[v] = "published" /\ status[w] = "published" /\ v \in Existing /\ w \in Existing
    BY <1>1, <1>5 DEF Existing
  <2>2. mapping[v] = a /\ mapping[w] = a
    BY <1>1, <2>1, SettledKept DEF Settled
  <2> QED BY <1>4, <2>1, <2>2 DEF Family
<1>6. ASSUME NEW u \in Versions, PublishCommit(u) PROVE v = w
  <2>1. /\ UNCHANGED mapping /\ status'[u] = "published"
        /\ \A x \in Versions \ {u} : status'[x] = "published" => status[x] = "published"
        /\ Predecessors(u) # {} => \E x \in Predecessors(u) : status'[x] = "superseded"
    BY <1>0, <1>6, CommitEffect DEF PublishCommit
  <2>2. \A x \in {v, w} : x # u => x \in Family(a) /\ status[x] = "published"
    BY <1>1, <2>1 DEF Family, Existing
  <2>3. CASE mapping[u] # a
    BY <1>1, <1>4, <2>1, <2>2, <2>3
  <2>4. CASE mapping[u] = a
    <3>1. \A x \in {v, w} : x # u => x \in Predecessors(u)
      BY <2>2, <2>4 DEF Predecessors, Family
    <3>2. \A x \in Predecessors(u) : x \in Family(a) /\ status[x] = "published"
      BY <2>4 DEF Predecessors, Family
    <3>3. \A x \in {v, w} : x = u
      BY <1>4, <2>1, <3>1, <3>2
    <3> QED BY <3>3
  <2> QED BY <2>3, <2>4
<1> QED BY <1>5, <1>6, OnlyCommitPublishes

-----------------------------------------------------------------------------
(* The inductive invariant and what follows from it.                       *)

\* No mappings, runs or packs.
LEMMA InvInit == Init => IInv
<1> SUFFICES ASSUME Init PROVE IInv
  OBVIOUS
<1>1. Existing = {} /\ \A k \in PackKeys : packs[k] = <<>>
  BY DEF Init, Existing
<1>2. TypeOK
  BY <1>1 DEF Init, TypeOK, Statuses
<1>3. RowInv /\ LockInv /\ PublishedIsValidated /\ OnePublishedVersion
  BY <1>1 DEF Init, RowInv, LockInv, PublishedIsValidated, OnePublishedVersion
<1>4. PackHoldsOneVersion
  BY <1>1 DEF PackHoldsOneVersion
<1> QED BY <1>2, <1>3, <1>4 DEF IInv

\* Every request, execution and publication, and every rollback, preserves it.
LEMMA InvStep == IInv /\ [Next]_vars => IInv'
<1>1. IInv /\ Next => IInv'
  BY TypeStep, RowStep, LockStep, ValidatedStep, PackStep, OnePublishedStep DEF IInv
<1>2. ASSUME IInv, UNCHANGED vars PROVE IInv'
  <2> USE <1>2 DEF vars, Existing
  <2>1. TypeOK' /\ RowInv' /\ LockInv'
    BY DEF IInv, TypeOK, RowInv, LockInv, Key
  <2>2. PublishedIsValidated' /\ PackHoldsOneVersion' /\ OnePublishedVersion'
    BY
       DEF IInv, PublishedIsValidated, CurrentlyValidated, RunsOf, PackHoldsOneVersion,
           OnePublishedVersion, Key
  <2> QED BY <2>1, <2>2 DEF IInv
<1> QED BY <1>1, <1>2

\* The invariant of mappings, runs and packs, in every reachable state.
THEOREM TrainingInvariantHolds == Spec => []IInv
BY InvInit, InvStep, PTL DEF Spec

\* Rows, packs and transactions keep their types.
THEOREM TrainingTypeCorrect == Spec => []TypeOK
<1>1. IInv => TypeOK
  BY DEF IInv
<1> QED BY TrainingInvariantHolds, <1>1, PTL

\* What is approved or published passed its latest validation with the definition it
\* has (approve_mapping, publish_mapping, execute_validation).
THEOREM PublishedVersionsAreValidated == Spec => []PublishedIsValidated
<1>1. IInv => PublishedIsValidated
  BY DEF IInv
<1> QED BY TrainingInvariantHolds, <1>1, PTL

\* A pack version has one version of a mapping at most, all of them published
\* (publish_mapping).
THEOREM PacksHoldOneVersion == Spec => []PackHoldsOneVersion
<1>1. IInv => PackHoldsOneVersion
  BY DEF IInv
<1> QED BY TrainingInvariantHolds, <1>1, PTL

\* A mapping that stays in one pack has one published version at most
\* (publish_mapping).
THEOREM MappingsHaveOnePublished == Spec => []OnePublishedVersion
<1>1. IInv => OnePublishedVersion
  BY DEF IInv
<1> QED BY TrainingInvariantHolds, <1>1, PTL

\* Published definitions are never edited and their validation never written again,
\* superseded versions never come back, and versions of a pack are only added
\* (update_mapping, execute_validation, publish_mapping).
THEOREM PublicationsAreFinal == Spec => PublicationIsFinal
<1> DEFINE Final == /\ \A v \in Versions : status[v] \in {"published", "superseded"} =>
                         /\ UNCHANGED <<definition[v], mapping[v], number[v], validated[v]>>
                         /\ status'[v] \in {status[v], "superseded"}
                    /\ \A k \in PackKeys : SubSeq(packs'[k], 1, Len(packs[k])) = packs[k]
<1>1. ASSUME IInv, Next PROVE Final
  <2>1. \A v \in Versions : status[v] \in {"published", "superseded"} =>
          /\ UNCHANGED <<definition[v], mapping[v], number[v], validated[v]>>
          /\ status'[v] \in {status[v], "superseded"}
    BY <1>1, SettledKept, RecordKept DEF Settled
  <2>2. ASSUME NEW k \in PackKeys PROVE SubSeq(packs'[k], 1, Len(packs[k])) = packs[k]
    <3>1. packs[k] \in Seq(SUBSET Versions)
      BY <1>1 DEF IInv, TypeOK
    <3>2. CASE packs'[k] = packs[k]
      BY <3>1, <3>2, SubSeqFull
    <3>3. ASSUME NEW S \in SUBSET Versions, packs'[k] = Append(packs[k], S)
          PROVE  SubSeq(packs'[k], 1, Len(packs[k])) = packs[k]
      BY <3>1, <3>3
    <3>4. packs'[k] = packs[k] \/ \E S \in SUBSET Versions : packs'[k] = Append(packs[k], S)
      <4>1. CASE UNCHANGED packs
        BY <4>1
      <4>2. ASSUME NEW v \in Versions, PublishCommit(v)
            PROVE  packs'[k] = packs[k] \/ \E S \in SUBSET Versions : packs'[k] = Append(packs[k], S)
        <5> DEFINE S == Retained(v) \cup {v}
        <5>1. Key(v) \in PackKeys /\ packs' = [packs EXCEPT ![Key(v)] = Append(packs[Key(v)], S)]
          BY <1>1, <4>2, CommitEffect DEF IInv
        <5>2. S \in SUBSET Versions
          BY <1>1, <5>1, LatestPackIsVersion DEF IInv, Retained
        <5> HIDE DEF S
        <5> QED BY <1>1, <5>1, <5>2 DEF IInv, TypeOK
      <4> QED BY <1>1, <4>1, <4>2, OnlyCommitPublishes
    <3> QED BY <3>2, <3>3, <3>4
  <2> QED BY <2>1, <2>2
<1>2. IInv /\ [Next]_vars => [Final]_vars
  BY <1>1
<1> QED BY <1>2, TrainingInvariantHolds, PTL DEF Spec, PublicationIsFinal
=============================================================================
