----------------------- MODULE EffectiveStateResolver -----------------------
(***************************************************************************)
(* What a configuration says, and what the audit takes it to mean.         *)
(*                                                                         *)
(* The interpreter turns the statements of each artifact into facts, each  *)
(* with its evidence lines, its scope and what it says: a value assigned,  *)
(* removed, or reset to a default.  The resolver                           *)
(* (effective_state/resolver.py) partitions overlapping VTY ranges,        *)
(* orders the facts of one artifact by source position, refuses to order   *)
(* facts of different artifacts, and stores one state per field and scope. *)
(*                                                                         *)
(* Two fields stand for the field registry: the idle timeout, a scalar     *)
(* stated in VTY blocks (or device-wide, by a mapping that an organization *)
(* trained), and the logging hosts, a collection stated device-wide.       *)
(***************************************************************************)
EXTENDS EffectiveStates

CONSTANTS
  Artifacts,       \* the configuration files of the snapshot
  LastVty,         \* VTY lines are 0 .. LastVty (999 in scopes.py)
  Timeouts,        \* values of the scalar field
  Hosts,           \* members of the collection
  MaxStatements    \* bound on the statements of all artifacts

ASSUME ResolverConstants ==
  /\ LastVty \in Nat
  /\ MaxStatements \in Nat
  /\ Null \notin Timeouts \cup Hosts
  /\ \A members \in SUBSET Hosts : Null # <<"list", members>>

VARIABLES
  read,      \* per artifact: how many of its lines have been read
  block,     \* per artifact: the open VTY block, its header line and range
  facts,     \* the SecurityFacts of the audit
  resolved,  \* whether the resolver has run
  states     \* the EffectiveState rows of the audit

vars == <<read, block, facts, resolved, states>>

Ranges == UNION {{<<"vty_range", a, b>> : b \in a .. LastVty} : a \in 0 .. LastVty}

\* What a fact of each field can say: its operation and its value.
Says == [timeout |-> ({"assign"} \X Timeouts) \cup {<<"reset", Null>>},
         hosts |-> ({"assign", "remove"} \X Hosts) \cup {<<"reset", Null>>}]

NoBlock == [header |-> 0, range |-> Null]

Init ==
  /\ read = [a \in Artifacts |-> 0]
  /\ block = [a \in Artifacts |-> NoBlock]
  /\ facts = {}
  /\ resolved = FALSE
  /\ states = {}

----------------------------------------------------------------------------
(* Interpretation: one fact per statement, whose evidence is the line of   *)
(* the statement and, inside a block, the line that opens the block.       *)

Fact(a, line, header, field, scope, says) ==
  [artifact |-> a, lines |-> {line, header}, field |-> field, scope |-> scope, says |-> says]

\* A statement on the last line read of artifact a becomes a fact.
Interpret(a, header, field, scope, says) ==
  /\ ~resolved
  /\ Cardinality(facts) < MaxStatements
  /\ facts' = facts \cup {Fact(a, read'[a], header, field, scope, says)}
  /\ UNCHANGED <<resolved, states>>

\* The first statement of a new block, two lines further down.
BlockOpened(a, range, says) ==
  LET header == read[a] + 1 IN
  /\ read' = [read EXCEPT ![a] = header + 1]
  /\ block' = [block EXCEPT ![a] = [header |-> header, range |-> range]]
  /\ Interpret(a, header, "timeout", range, says)

\* A further statement of the open block.
BlockContinued(a, says) ==
  /\ block[a] # NoBlock
  /\ read' = [read EXCEPT ![a] = @ + 1]
  /\ UNCHANGED block
  /\ Interpret(a, block[a].header, "timeout", block[a].range, says)

\* A statement outside every block has no context line.
DeviceStatement(a, field, says) ==
  /\ read' = [read EXCEPT ![a] = @ + 1]
  /\ block' = [block EXCEPT ![a] = NoBlock]
  /\ Interpret(a, read[a] + 1, field, Device, says)

----------------------------------------------------------------------------
(* Resolution.                                                             *)

FieldFacts(field) == {f \in facts : f.field = field}

\* resolve_audit_effective_states: every field that has facts, all at once.
Resolve ==
  /\ ~resolved
  /\ resolved' = TRUE
  /\ states' = (IF FieldFacts("timeout") = {} THEN {} ELSE ScalarStates("timeout", FieldFacts("timeout")))
               \cup (IF FieldFacts("hosts") = {} THEN {} ELSE CollectionStates("hosts", FieldFacts("hosts")))
  /\ UNCHANGED <<read, block, facts>>

Next ==
  \/ \E a \in Artifacts :
       \/ \E range \in Ranges, says \in Says.timeout : BlockOpened(a, range, says)
       \/ \E says \in Says.timeout : BlockContinued(a, says)
       \/ \E field \in {"timeout", "hosts"} :
            \E says \in Says[field] : DeviceStatement(a, field, says)
  \/ Resolve

Spec == Init /\ [][Next]_vars

----------------------------------------------------------------------------
(* Properties.                                                             *)

\* Facts and states are well formed, and no two statements of an artifact
\* stand on the same line (_classify rejects evidence without a position).
TypeOK ==
  /\ read \in [Artifacts -> Nat]
  /\ \A f \in facts :
       /\ f.artifact \in Artifacts
       /\ f.says \in Says[f.field]
       /\ f.scope \in Ranges \cup {Device}
       /\ f.lines \subseteq 1 .. read[f.artifact]
  /\ \A f, g \in facts : f.artifact = g.artifact /\ Max(f.lines) = Max(g.lines) => f = g
  /\ \A t \in states :
       /\ t.sources # {} /\ t.sources \subseteq facts
       /\ t.status \in {"resolved", "unknown", "conflicting"}
       /\ (t.value # Null) = (t.status = "resolved")

\* What speaks of VTY line n, among facts or among states.
Covering(S, n) ==
  {x \in S : x.field = "timeout" /\ IsRange(x.scope) /\ x.scope[2] <= n /\ n <= x.scope[3]}

\* However ranges overlap, a VTY line that some statement covers has exactly one
\* state, which rests on exactly the statements that cover it, and a line that
\* none covers has none (_vty_partitions); unless a device-wide statement of
\* the same field exists, which turns partitioning off.
OneStatePerVtyLine ==
  (resolved /\ \A f \in FieldFacts("timeout") : f.scope # Device) =>
    \A n \in 0 .. LastVty :
      /\ Covering(facts, n) = {} => Covering(states, n) = {}
      /\ Covering(facts, n) # {} =>
           \E t \in states : Covering(states, n) = {t} /\ t.sources = Covering(facts, n)

\* The last statement of each artifact in F, by the line it stands on.
Standing(F) ==
  {f \in F : \A g \in F : g.artifact = f.artifact => Max(g.lines) <= Max(f.lines)}

\* A value is reported only when the last word of every artifact on that scope
\* assigns it: no conflict, reset or override is ever resolved away
\* (_ordered_winner, _resolve_scalar_scope).
ResolvedMeansUnopposed ==
  \A t \in states : t.field = "timeout" /\ t.status = "resolved" =>
    \A f \in Standing(t.sources) : f.says = <<"assign", t.value>>

\* A conflict is reported only for statements that nothing orders: they disagree
\* and stand in different artifacts, or in one block of one artifact.
ConflictIsReal ==
  \A t \in states : t.field = "timeout" /\ t.status = "conflicting" =>
    \E f, g \in t.sources :
      /\ f.says # g.says
      /\ \/ f.artifact # g.artifact
         \/ Min(f.lines) = Min(g.lines) /\ f \in Standing(t.sources)

\* A resolved collection holds exactly the members whose last statement in every
\* artifact that names them adds them, and the resolver gives up only on a reset
\* or on artifacts that disagree about a member (_resolve_repeatable_field).
CollectionHoldsMembers ==
  \A t \in states : t.field = "hosts" =>
    LET About(v) == Standing(OfMember(t.sources, v)) IN
    /\ t.status = "resolved" =>
         \A v \in Hosts :
           IF v \in t.value[2] THEN About(v) # {} /\ \A f \in About(v) : f.says[1] = "assign"
           ELSE \A f \in About(v) : f.says[1] = "remove"
    /\ t.status = "conflicting" =>
         \E f, g \in t.sources : \/ f.says[1] = "reset"
                                 \/ /\ f.says[2] = g.says[2]
                                    /\ f.says # g.says
                                    /\ f.artifact # g.artifact

\* In one artifact the later source position decides: the last statement about a
\* scope is its effective state.
LastStatementDecides ==
  \A t \in states : t.field = "timeout" /\ (\A f, g \in t.sources : f.artifact = g.artifact) =>
    \A f \in Standing(t.sources) :
      IF f.says[1] = "assign" THEN t.status = "resolved" /\ t.value = f.says[2]
      ELSE t.status = "unknown"
=============================================================================
