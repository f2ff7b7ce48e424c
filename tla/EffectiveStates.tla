-------------------------- MODULE EffectiveStates --------------------------
(***************************************************************************)
(* What the facts of one field come to (effective_state/resolver.py): one  *)
(* state per scope, from facts with a source position in one artifact.     *)
(*                                                                         *)
(* A fact says <<"assign", v>>, <<"remove", v>> or <<"reset", Null>>.  A   *)
(* scope is <<"device">>, <<"vty_range", first, last>>, or another kind    *)
(* of place with its name, as <<"interface", n>>.                          *)
(***************************************************************************)
EXTENDS Naturals, FiniteSets, FiniteSetsExt

CONSTANT Null   \* no value: TypedValueType.NULL, or no effective_value

Device == <<"device">>

IsRange(scope) == scope[1] = "vty_range"

\* ClassifiedFact.source_line: the first line of the evidence.
SourceLine(f) == Min(f.lines)

\* Mutant: Line numbers of different artifacts are compared.
DecidingAcrossArtifacts(F) == {f \in F : \A g \in F : SourceLine(g) <= SourceLine(f)}

\* Mutant: Source order is forgotten.
DecidingUnordered(F) == F

\* The facts that decide for F: all of them when they come from several
\* artifacts, the last of them in the source when they come from one.
Deciding(F) ==
  IF Cardinality({f.artifact : f \in F}) > 1 THEN F
  ELSE {f \in F : \A g \in F : SourceLine(g) <= SourceLine(f)}

Verdicts(F) == {f.says : f \in Deciding(F)}

Conflict(F) == Cardinality(Verdicts(F)) > 1

State(field, scope, F, status, value) ==
  [field |-> field, scope |-> scope, sources |-> F, status |-> status, value |-> value]

\* A value only when the deciding facts agree on assigning it.
ScalarState(field, scope, F) ==
  IF Conflict(F) THEN State(field, scope, F, "conflicting", Null)
  ELSE LET winner == CHOOSE s \in Verdicts(F) : TRUE IN
       IF winner[1] = "assign" THEN State(field, scope, F, "resolved", winner[2])
       ELSE State(field, scope, F, "unknown", Null)

\* Mutant: Ranges end where their last line is, not after it.
BoundariesAtEnd(F) == UNION {{f.scope[2], f.scope[3]} : f \in F}

\* Where the ranges of F begin, and where they have just ended.
Boundaries(F) == UNION {{f.scope[2], f.scope[3] + 1} : f \in F}

Applicable(F, range) == {f \in F : f.scope[2] <= range[2] /\ range[3] <= f.scope[3]}

\* The ranges between neighbouring boundaries to which some fact applies.
Partitions(F) ==
  LET bounds == Boundaries(F)
      Upto(b) == Min({c \in bounds : c > b}) - 1
  IN {r \in {<<"vty_range", b, Upto(b)>> : b \in bounds \ {Max(bounds)}} : Applicable(F, r) # {}}

OfScope(F, scope) == {f \in F : f.scope = scope}

\* "vty_range" sorts after every other scope type: with a fact of any other
\* scope first, every scope stands for itself and ranges are not partitioned.
ScalarStates(field, F) ==
  IF \E f \in F : ~IsRange(f.scope)
  THEN {ScalarState(field, s, OfScope(F, s)) : s \in {f.scope : f \in F}}
  ELSE {ScalarState(field, r, Applicable(F, r)) : r \in Partitions(F)}

OfMember(F, v) == {f \in F : f.says[2] = v}

\* Mutant: A removal of a member is overruled by any assignment.
CollectionStateAddOnly(field, scope, F) ==
  LET members == {f.says[2] : f \in F}
      present == {v \in members : \E f \in F : f.says = <<"assign", v>>}
      unclear == \E v \in members : Conflict(OfMember(F, v)) \/ v = Null
  IN IF unclear THEN State(field, scope, F, "conflicting", Null)
     ELSE State(field, scope, F, "resolved", <<"list", present>>)

\* Each member is decided by the facts about it; a member in conflict, or a
\* reset, leaves the whole collection without a value.
CollectionState(field, scope, F) ==
  LET members == {f.says[2] : f \in F}
      present == {v \in members : Verdicts(OfMember(F, v)) = {<<"assign", v>>}}
      unclear == \E v \in members : Conflict(OfMember(F, v)) \/ v = Null
  IN IF unclear THEN State(field, scope, F, "conflicting", Null)
     ELSE State(field, scope, F, "resolved", <<"list", present>>)

CollectionStates(field, F) ==
  {CollectionState(field, s, OfScope(F, s)) : s \in {f.scope : f \in F}}
=============================================================================
