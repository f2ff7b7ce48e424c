--------------------------- MODULE MappingTraining ---------------------------
(***************************************************************************)
(* The learning loop of backend/app/training/service.py: versions of       *)
(* mappings are edited, validated by background jobs, approved, and        *)
(* published into immutable versions of a Knowledge Pack.                  *)
(*                                                                         *)
(* A request that only needs one mapping locked is one action.             *)
(* publish_mapping and execute_validation lock several rows, or read       *)
(* rows they do not lock, and take several steps.                          *)
(***************************************************************************)
EXTENDS Integers, FiniteSets, Sequences

CONSTANTS
  Versions,     \* mapping_versions rows that may be created
  Mappings,     \* mapping_ids: a mapping is a family of versions
  Runs,         \* mapping_validation_runs rows, numbered as they are created
  Definitions,  \* [match |-> ..., profiles |-> ...]: what a definition is compared by
  PackKeys,     \* pack_keys: the sets of profiles that definitions name
  None

ASSUME DefinitionsAssumption == \A d \in Definitions : d.profiles \in PackKeys
ASSUME RowsAssumption ==
  /\ Runs \subseteq Nat
  /\ None \notin Versions \cup Mappings

VARIABLES
  \* mapping_versions
  status, mapping, number, definition,
  validated,     \* validation_results: [definition, passed], or None for {}
  \* mapping_validation_runs
  runStatus, runMapping, result,
  packs,         \* knowledge_pack_versions of each pack: a sequence of sets of versions
  \* transactions
  publishing,    \* where the publication of a version is
  executing,     \* the verdict a validation is about to commit
  packLock       \* the version whose publication locks the pack row, or inserts it

rows == <<status, mapping, number, definition, validated>>
runs == <<runStatus, runMapping, result>>
transactions == <<publishing, executing, packLock>>
vars == <<status, mapping, number, definition, validated, runStatus, runMapping, result, packs,
          publishing, executing, packLock>>

\* SUGGESTED is declared in the code, but no row ever has it.
Mutable == {"draft", "testing"}
Statuses == {"absent", "approved", "published", "superseded", "rejected"} \cup Mutable
Results == [definition : Definitions, passed : BOOLEAN]

Existing == {v \in Versions : status[v] # "absent"}
Key(v) == definition[v].profiles
RunsOf(v) == {r \in Runs : runStatus[r] # "absent" /\ runMapping[r] = v}
LatestPack(k) == IF packs[k] = <<>> THEN {} ELSE packs[k][Len(packs[k])]

TypeOK ==
  /\ status \in [Versions -> Statuses]
  /\ mapping \in [Versions -> Mappings \cup {None}]
  /\ number \in [Versions -> Nat] /\ \A v \in Existing : number[v] > 0
  /\ definition \in [Versions -> Definitions \cup {None}]
  /\ validated \in [Versions -> Results \cup {None}]
  /\ runStatus \in [Runs -> {"absent", "pending", "passed", "failed"}]
  /\ runMapping \in [Runs -> Versions \cup {None}]
  /\ result \in [Runs -> Results \cup {None}]
  /\ packs \in [PackKeys -> Seq(SUBSET Versions)]
  /\ publishing \in [Versions -> {"no", "pack", "create", "commit"}]
  /\ executing \in [Runs -> {"no", "clear", "collision"}]
  /\ packLock \in [PackKeys -> Versions \cup {None}]

Init ==
  /\ status = [v \in Versions |-> "absent"]
  /\ mapping = [v \in Versions |-> None]
  /\ number = [v \in Versions |-> 0]
  /\ definition = [v \in Versions |-> None]
  /\ validated = [v \in Versions |-> None]
  /\ runStatus = [r \in Runs |-> "absent"]
  /\ runMapping = [r \in Runs |-> None]
  /\ result = [r \in Runs |-> None]
  /\ packs = [k \in PackKeys |-> <<>>]
  /\ publishing = [v \in Versions |-> "no"]
  /\ executing = [r \in Runs |-> "no"]
  /\ packLock = [k \in PackKeys |-> None]

Set(f, x, v) == [f EXCEPT ![x] = v]

\* The row lock of a version: its publication and the execution of one of its runs hold it.
Unlocked(v) == publishing[v] = "no" /\ \A r \in RunsOf(v) : executing[r] = "no"

-----------------------------------------------------------------------------
(* Editing.                                                                *)

NextNumber(previous) == IF previous = None THEN 1 ELSE number[previous] + 1

\* create_mapping: a new mapping, or the next version after a locked one; the
\* unique constraint on (mapping_id, version) refuses a second successor.
CreateMapping(v, m, previous, d) ==
  /\ status[v] = "absent"
  /\ IF previous = None THEN \A w \in Existing : mapping[w] # m
     ELSE previous \in Existing /\ Unlocked(previous) /\ mapping[previous] = m
  /\ \A w \in Existing : mapping[w] = m => number[w] # NextNumber(previous)
  /\ status' = Set(status, v, "draft")
  /\ mapping' = Set(mapping, v, m)
  /\ number' = Set(number, v, NextNumber(previous))
  /\ definition' = Set(definition, v, d)
  /\ UNCHANGED <<validated, runs, packs, transactions>>

\* update_mapping: a new definition is a draft without validation.
UpdateMapping(v, d) ==
  /\ status[v] \in Mutable /\ Unlocked(v)
  /\ definition' = Set(definition, v, d)
  /\ status' = Set(status, v, "draft")
  /\ validated' = Set(validated, v, None)
  /\ UNCHANGED <<mapping, number, runs, packs, transactions>>

\* reject_mapping.
RejectMapping(v) ==
  /\ status[v] \in Mutable /\ Unlocked(v)
  /\ status' = Set(status, v, "rejected")
  /\ UNCHANGED <<mapping, number, definition, validated, runs, packs, transactions>>

-----------------------------------------------------------------------------
(* Validation.                                                             *)

\* request_validation: a PENDING run, and a job for it.
RequestValidation(v, r) ==
  /\ status[v] \in Mutable /\ Unlocked(v)
  /\ runStatus[r] = "absent" /\ \A q \in Runs : q < r => runStatus[q] # "absent"
  /\ runStatus' = Set(runStatus, r, "pending")
  /\ runMapping' = Set(runMapping, r, v)
  /\ status' = Set(status, v, "testing")
  /\ UNCHANGED <<mapping, number, definition, validated, result, packs, transactions>>

\* validate_definition's published_mapping_collision, among the committed versions.
Collides(v) ==
  \E w \in Existing : status[w] = "published" /\ mapping[w] # mapping[v]
                      /\ definition[w].match = definition[v].match

\* execute_validation locks run and mapping, in any status of the mapping.
ExecuteBegin(r) ==
  LET v == runMapping[r]
  IN /\ runStatus[r] = "pending" /\ Unlocked(v)
     /\ executing' = Set(executing, r, IF Collides(v) THEN "collision" ELSE "clear")
     /\ UNCHANGED <<rows, runs, packs, publishing, packLock>>

Verdict(r, passed) == [definition |-> definition[runMapping[r]], passed |-> passed]

\* trg_mapping_versions_immutable: PostgreSQL refuses to change anything but the
\* status of a published or superseded row.
RecordAccepted(v, record) ==
  status[v] \in {"published", "superseded"} => record = validated[v]

\* The table has no trigger.
ExecuteCommitUnguarded(r) ==
  /\ executing[r] # "no"
  /\ \E passed \in BOOLEAN :
       /\ passed => executing[r] = "clear"
       /\ runStatus' = Set(runStatus, r, IF passed THEN "passed" ELSE "failed")
       /\ result' = Set(result, r, Verdict(r, passed))
       /\ validated' = Set(validated, runMapping[r], Verdict(r, passed))
  /\ executing' = Set(executing, r, "no")
  /\ UNCHANGED <<status, mapping, number, definition, runMapping, packs, publishing, packLock>>

\* The examples and the evidence decide, if there is no collision.
ExecuteCommit(r) ==
  /\ executing[r] # "no"
  /\ \E passed \in BOOLEAN :
       /\ passed => executing[r] = "clear"
       /\ RecordAccepted(runMapping[r], Verdict(r, passed))
       /\ runStatus' = Set(runStatus, r, IF passed THEN "passed" ELSE "failed")
       /\ result' = Set(result, r, Verdict(r, passed))
       /\ validated' = Set(validated, runMapping[r], Verdict(r, passed))
  /\ executing' = Set(executing, r, "no")
  /\ UNCHANGED <<status, mapping, number, definition, runMapping, packs, publishing, packLock>>

\* The evidence cannot be used, the trigger refuses the record, or the worker dies:
\* the transaction is rolled back and the run stays PENDING.
ExecuteAbort(r) ==
  /\ executing[r] # "no"
  /\ executing' = Set(executing, r, "no")
  /\ UNCHANGED <<rows, runs, packs, publishing, packLock>>

\* latest_validation is PASSED, and _validation_is_current.
CurrentlyValidated(v) ==
  \E r \in RunsOf(v) :
    /\ \A q \in RunsOf(v) : q <= r
    /\ runStatus[r] = "passed"
    /\ result[r].definition = definition[v]

\* Any run that passed will do.
ApproveAfterAnyPass(v) ==
  /\ status[v] = "testing" /\ Unlocked(v)
  /\ \E r \in RunsOf(v) : runStatus[r] = "passed"
  /\ status' = Set(status, v, "approved")
  /\ UNCHANGED <<mapping, number, definition, validated, runs, packs, transactions>>

\* approve_mapping.
Approve(v) ==
  /\ status[v] = "testing" /\ Unlocked(v)
  /\ CurrentlyValidated(v)
  /\ status' = Set(status, v, "approved")
  /\ UNCHANGED <<mapping, number, definition, validated, runs, packs, transactions>>

-----------------------------------------------------------------------------
(* Publication.                                                            *)

\* publish_mapping, under the version's lock.
PublishBegin(v) ==
  /\ status[v] = "approved" /\ Unlocked(v)
  /\ CurrentlyValidated(v)
  /\ publishing' = Set(publishing, v, "pack")
  /\ UNCHANGED <<rows, runs, packs, executing, packLock>>

\* The pack of the definition's profiles is locked, or found missing.
PublishSelectPack(v) ==
  /\ publishing[v] = "pack"
  /\ \/ packs[Key(v)] = <<>> /\ publishing' = Set(publishing, v, "create") /\ UNCHANGED packLock
     \/ /\ packs[Key(v)] # <<>> /\ packLock[Key(v)] = None
        /\ packLock' = Set(packLock, Key(v), v)
        /\ publishing' = Set(publishing, v, "commit")
  /\ UNCHANGED <<rows, runs, packs, executing>>

\* An insert of a key that another publication has inserted waits for ever.
PublishCreatePackWaits(v) ==
  /\ publishing[v] = "create" /\ packLock[Key(v)] = None
  /\ packs[Key(v)] = <<>>
  /\ packLock' = Set(packLock, Key(v), v)
  /\ publishing' = Set(publishing, v, "commit")
  /\ UNCHANGED <<rows, runs, packs, executing>>

\* The insert waits for another insert of the key, and fails if that was committed.
PublishCreatePack(v) ==
  /\ publishing[v] = "create" /\ packLock[Key(v)] = None
  /\ \/ /\ packs[Key(v)] = <<>>
        /\ packLock' = Set(packLock, Key(v), v)
        /\ publishing' = Set(publishing, v, "commit")
     \/ packs[Key(v)] # <<>> /\ publishing' = Set(publishing, v, "no") /\ UNCHANGED packLock
  /\ UNCHANGED <<rows, runs, packs, executing>>

\* All versions of the previous pack version stay.
RetainedAll(v) == LatestPack(Key(v))

\* What the new pack version keeps of the previous one.
Retained(v) == {w \in LatestPack(Key(v)) : mapping[w] # mapping[v]}

\* Published versions of the same mapping.
Predecessors(v) == {w \in Existing : status[w] = "published" /\ mapping[w] = mapping[v]}

\* Only the version it was derived from is looked for.
SupersededByNumber(v) ==
  {Set(status, w, "superseded") : w \in {x \in Predecessors(v) : number[x] = number[v] - 1}}
    \cup (IF \E x \in Predecessors(v) : number[x] = number[v] - 1 THEN {} ELSE {status})

\* The query returns one published version of the mapping, which is superseded.
Superseded(v) ==
  IF Predecessors(v) = {} THEN {status}
  ELSE {Set(status, w, "superseded") : w \in {x \in Predecessors(v) : Unlocked(x)}}

PublishCommit(v) ==
  /\ publishing[v] = "commit"
  /\ \E newStatus \in Superseded(v) : status' = Set(newStatus, v, "published")
  /\ packs' = Set(packs, Key(v), Append(packs[Key(v)], Retained(v) \cup {v}))
  /\ publishing' = Set(publishing, v, "no")
  /\ packLock' = Set(packLock, Key(v), None)
  /\ UNCHANGED <<mapping, number, definition, validated, runs, executing>>

\* An error or a crash rolls the publication back.
PublishAbort(v) ==
  /\ publishing[v] # "no"
  /\ publishing' = Set(publishing, v, "no")
  /\ packLock' = [k \in PackKeys |-> IF packLock[k] = v THEN None ELSE packLock[k]]
  /\ UNCHANGED <<rows, runs, packs, executing>>

-----------------------------------------------------------------------------
VersionStep(v) ==
  \/ \E m \in Mappings, previous \in Versions \cup {None}, d \in Definitions :
       CreateMapping(v, m, previous, d)
  \/ \E d \in Definitions : UpdateMapping(v, d)
  \/ RejectMapping(v)
  \/ \E r \in Runs : RequestValidation(v, r)
  \/ Approve(v)
  \/ PublishBegin(v)
  \/ PublishAbort(v)

\* What a publication does once it has begun.
PublishStep(v) == PublishSelectPack(v) \/ PublishCreatePack(v) \/ PublishCommit(v)

Next ==
  \/ \E v \in Versions : VersionStep(v) \/ PublishStep(v)
  \/ \E r \in Runs : ExecuteBegin(r) \/ ExecuteCommit(r) \/ ExecuteAbort(r)

\* Request threads and workers run, and PostgreSQL hands a released row lock to a waiter.
Fairness ==
  /\ \A v \in Versions : SF_vars(PublishStep(v))
  /\ \A r \in Runs : WF_vars(ExecuteCommit(r) \/ ExecuteAbort(r))

Spec == Init /\ [][Next]_vars /\ Fairness

-----------------------------------------------------------------------------
(* Properties.                                                             *)

\* What is approved or published passed its latest validation with exactly the
\* definition it has now, whatever was edited, validated again or executed late
\* (approve_mapping, publish_mapping).
PublishedIsValidated ==
  \A v \in Versions : status[v] \in {"approved", "published", "superseded"} => CurrentlyValidated(v)

\* A pack version never has two versions of a mapping, and all it has was published
\* (publish_mapping's retained list).
PackHoldsOneVersion ==
  \A k \in PackKeys : \A i \in 1 .. Len(packs[k]) : \A v, w \in packs[k][i] :
    /\ status[v] \in {"published", "superseded"}
    /\ mapping[v] = mapping[w] => v = w

\* As long as the versions of a mapping are published into one pack, at most one of
\* them is in use: the pack's row serializes them, its first insert included.
OnePublishedVersion ==
  \A a \in Mappings :
    LET family == {v \in Existing : mapping[v] = a /\ status[v] \in {"published", "superseded"}}
    IN (\A v, w \in family : Key(v) = Key(w))
         => \A v, w \in family : status[v] = "published" /\ status[w] = "published" => v = w

\* Published versions and pack versions are immutable, the record of the validation
\* included, although a validation may be executed after the publication, and a
\* superseded version never comes back (docs/architecture/README.md "Published
\* Knowledge Pack versions are immutable", training/service.py:146).
PublicationIsFinal ==
  [][/\ \A v \in Versions : status[v] \in {"published", "superseded"} =>
          /\ UNCHANGED <<definition[v], mapping[v], number[v], validated[v]>>
          /\ status'[v] \in {status[v], "superseded"}
     /\ \A k \in PackKeys : SubSeq(packs'[k], 1, Len(packs[k])) = packs[k]]_vars

\* A publication is never stuck behind another one.
PublicationEnds == \A v \in Versions : publishing[v] # "no" ~> publishing[v] = "no"
=============================================================================
