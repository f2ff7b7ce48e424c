----------------------- MODULE ConfigurationAuditProofs -----------------------
(***************************************************************************)
(* Theorems about ConfigurationAudit: whatever the snapshots hold and      *)
(* whatever is published while an audit runs, published obligations keep   *)
(* their evaluators, an obligation passes on one state alone, what was     *)
(* resolved is what the evidence says, a rule passes only when every line  *)
(* and statement that it may be about has been accounted for, a fact that  *)
(* names its block stands in it, and no claim of identity is in a banner.  *)
(***************************************************************************)
EXTENDS ConfigurationAudit, ConfigurationReaderProofs

----------------------------------------------------------------------------
(* The inductive invariant.                                                *)

\* The audit is of one of the snapshots.
SnapshotInv == \E family \in DOMAIN Snapshots : snapshot \in Snapshots[family]

\* An organization publishes nothing under the name of a built-in profile
\* (publish_runtime_profile), and rules have identifiers.
NamesInv ==
  /\ \A m \in profiles : \A q \in ProfileRegistry : m.profile # q.profile
  /\ \A r \in rules : r.id # None

\* Once it is resolved the profile stays known; answers are for audits that are
\* done; and no effective state is without the facts it comes from.
StagesInv ==
  /\ phase \notin {"identifying", "failed"} => KnownProfile(resolution.profile, profiles)
  /\ phase # "done" => findings = {} /\ answers = {}
  /\ \A s \in states : s.sources # {}

IInv ==
  /\ SnapshotInv /\ NamesInv /\ StagesInv
  /\ ObligationKeepsEvaluator /\ ObligationPassStandsOnOneState

----------------------------------------------------------------------------
(* Rules.                                                                  *)

\* The evaluator of an obligation that has one is not lost when rules are added.
LEMMA EvaluatorsStay ==
  ASSUME NEW old, NEW new, old \subseteq new, \A r \in new : r.id # None,
         NEW id, NEW profile, RuleFor(old, id, profile) # NoRule
  PROVE  RuleFor(new, id, profile) # NoRule
<1> DEFINE Own(rs) == {r \in rs : r.id = id /\ profile \in r.profiles}
<1>1. CASE Own(new) = {}
  <2>1. Own(old) = {}
    BY <1>1
  <2>2. RuleFor(new, id, profile) = RuleFor(old, id, profile)
    BY <1>1, <2>1 DEF RuleFor
  <2> QED BY <2>2
<1>2. CASE Own(new) # {}
  <2>1. id # None
    BY <1>2
  <2>2. RuleFor(new, id, profile).id = id
    BY <1>2 DEF RuleFor, Rule
  <2>3. NoRule.id = None
    BY DEF NoRule, Rule
  <2> QED BY <2>1, <2>2, <2>3
<1> QED BY <1>1, <1>2
\* A rule that is found under an identifier has it, published or sealed.
LEMMA EvaluatorHasItsName ==
  ASSUME NEW known, NEW id, NEW profile, RuleFor(known, id, profile) # NoRule
  PROVE  RuleFor(known, id, profile).id = id
<1> DEFINE own == {r \in known : r.id = id /\ profile \in r.profiles}
           found == {k \in 1 .. Len(RulesOf(profile)) : RulesOf(profile)[k].id = id}
<1>1. CASE own # {}
  BY <1>1 DEF RuleFor, Rule
<1>2. CASE own = {} /\ found # {}
  <2>1. Min(found) \in found
    <3>1. found \subseteq Nat
      OBVIOUS
    <3>2. \E k \in found : \A n \in found : k <= n
      <4> HIDE DEF found
      <4> QED BY <1>2, <3>1, SmallestExists
    <3> QED BY <3>2 DEF Min
  <2>2. Min(found) # 0
    BY <2>1
  <2>3. SelectInSeq(RulesOf(profile), LAMBDA r : r.id = id) = Min(found)
    BY <1>2 DEF SelectInSeq
  <2>4. RuleFor(known, id, profile) = RulesOf(profile)[Min(found)]
    BY <1>2, <2>2, <2>3 DEF RuleFor
  <2> QED BY <2>1, <2>4
<1>3. CASE own = {} /\ found = {}
  <2>1. SelectInSeq(RulesOf(profile), LAMBDA r : r.id = id) = 0
    BY <1>3 DEF SelectInSeq
  <2> QED BY <1>3, <2>1 DEF RuleFor
<1> QED BY <1>1, <1>2, <1>3

----------------------------------------------------------------------------
(* Profiles.                                                               *)

\* A profile that is known stays known when others are published.
LEMMA ProfilesStay ==
  ASSUME NEW old, NEW new, old \subseteq new, NEW profile, KnownProfile(profile, old)
  PROVE  KnownProfile(profile, new)
BY DEF KnownProfile

\* What runtime manifests resolve to is the profile of one of them
\* (resolver.py, runtime candidates).
LEMMA RuntimeResultIsPublished ==
  ASSUME NEW documents, NEW runtime, NEW identified,
         NEW r \in RuntimeResults(documents, runtime, identified), r.status = "resolved"
  PROVE  \E m \in runtime : r.profile = m.profile
<1> DEFINE matches == RuntimeMatches(documents, runtime)
           named == {<<c[1], c[2]>> : c \in matches}
           one == CHOOSE n \in named : TRUE
<1>1. named # {}
  BY DEF RuntimeResults
<1>2. \A c \in matches : c[1] \in runtime
  BY DEF RuntimeMatches
<1>3. one \in named
  BY <1>1
<1>4. one[1] \in runtime
  <2>1. \A n \in named : n[1] \in runtime
    BY <1>2
  <2> HIDE DEF one, named
  <2> QED BY <1>3, <2>1
<1>5. ~(Cardinality(named) > 1)
  BY <1>1 DEF RuntimeResults, Result
<1>6. r.profile = one[1].profile
  BY <1>1, <1>5 DEF RuntimeResults, Result
<1> QED BY <1>4, <1>6

\* Explicit evidence that resolves to a profile agrees about the platform, and the
\* profile is a published one or the built-in one for the version it states.
LEMMA ResolvedByIdentities ==
  ASSUME NEW documents, NEW runtime, NEW identified, NEW identities, identities # {},
         NEW result,
         result = FromIdentities(identities, RuntimeResults(documents, runtime, identified), identified),
         result.status = "resolved"
  PROVE  /\ \A i \in identities : i.vendor = result.vendor /\ i.os = result.os
         /\ \/ \E m \in runtime : result.profile = m.profile
            \/ \E m \in ProfileRegistry :
                 /\ result.profile = m.profile /\ Accepts(m.constraint, result.version)
                 /\ {i.version : i \in identities} \ {NoVersion} = {result.version}
<1> DEFINE results == RuntimeResults(documents, runtime, identified)
           first == CHOOSE j \in identities : TRUE
           platforms == {<<j.vendor, j.os>> : j \in identities}
           versions == {j.version : j \in identities} \ {NoVersion}
           version == IF versions = {} THEN NoVersion ELSE CHOOSE v \in versions : TRUE
           candidates == CompatibleManifests(first.vendor, first.os, version)
           own == {r \in results : r.vendor = first.vendor /\ r.os = first.os}
<1>1. ~Conflicting(platforms) /\ ~Conflicting(versions)
  BY DEF FromIdentities, Result
<1>2. first \in identities
  OBVIOUS
<1>3. \A i \in identities : i.vendor = first.vendor /\ i.os = first.os
  <2> TAKE i \in identities
  <2>1. <<i.vendor, i.os>> \in platforms /\ <<first.vendor, first.os>> \in platforms
    BY <1>2
  <2>2. <<i.vendor, i.os>> = <<first.vendor, first.os>>
    BY <1>1, <2>1 DEF Conflicting
  <2> QED BY <2>2
<1>4. CASE own # {}
  <2>1. result = CHOOSE r \in own : TRUE
    BY <1>1, <1>4 DEF FromIdentities
  <2>2. result \in own
    BY <1>4, <2>1
  <2>3. \E m \in runtime : result.profile = m.profile
    BY <2>2, RuntimeResultIsPublished
  <2> QED BY <1>3, <2>2, <2>3
<1>5. CASE own = {}
  <2> DEFINE m == CHOOSE c \in candidates : TRUE
  <2>1. version # NoVersion /\ candidates # {}
    BY <1>1, <1>5 DEF FromIdentities, Result
  <2>2. result.profile = m.profile /\ result.version = version
        /\ result.vendor = first.vendor /\ result.os = first.os
    BY <1>1, <1>5, <2>1 DEF FromIdentities, Result
  <2>3. m \in ProfileRegistry /\ Accepts(m.constraint, version)
    BY <2>1 DEF CompatibleManifests
  <2>4. version \in versions
    BY <2>1
  <2>5. versions = {version}
    BY <1>1, <2>4 DEF Conflicting
  <2> QED BY <1>3, <2>2, <2>3, <2>5
<1> QED BY <1>4, <1>5

\* Whatever an audit is resolved to is a profile that is known
\* (resolve_audit_profile).
LEMMA ResolvedIsKnown ==
  ASSUME NEW documents, NEW runtime, ResolveProfile(documents, runtime).status = "resolved"
  PROVE  KnownProfile(ResolveProfile(documents, runtime).profile, runtime)
<1> DEFINE docs == ToSet(documents)
           identities == UNION {DocumentIdentities(d, runtime) : d \in docs}
           modelled == {d \in docs : DocumentModels(d) # {}}
           ciscoLike == {d \in docs : LooksLikeCisco(d)}
           identified == {i.document : i \in identities} \cup {d.name : d \in modelled \cup ciscoLike}
           silent == identified = {} /\ \A d \in docs : ~d.ciscoFile
           results == RuntimeResults(documents, runtime, identified)
           generic == GenericProfile(documents, silent)
           result == ResolveProfile(documents, runtime)
<1>1. CASE identities # {}
  <2>1. result = FromIdentities(identities, results, identified)
    BY <1>1 DEF ResolveProfile
  <2>2. \E m \in runtime \cup ProfileRegistry : m.profile = result.profile
    <3> HIDE DEF identities, identified, result
    <3> QED BY <1>1, <2>1, ResolvedByIdentities DEF result
  <2> QED BY <2>2 DEF KnownProfile
<1>2. CASE identities = {} /\ results # {}
  <2>1. result = CHOOSE r \in results : TRUE
    BY <1>2 DEF ResolveProfile
  <2>2. result \in results
    BY <1>2, <2>1
  <2>3. \E m \in runtime : result.profile = m.profile
    <3> HIDE DEF identified, result
    <3> QED BY <2>2, RuntimeResultIsPublished DEF result
  <2> QED BY <2>3 DEF KnownProfile
<1>3. CASE identities = {} /\ results = {}
  <2>1. modelled = {} /\ ciscoLike = {} /\ generic # None /\ result.profile = generic
    BY <1>3 DEF ResolveProfile, Result
  <2>2. generic \in {GenericXml.profile, GenericJson.profile, GenericCli.profile}
    BY <2>1 DEF GenericProfile
  <2>3. {GenericXml, GenericJson, GenericCli} \subseteq ProfileRegistry
    BY DEF ProfileRegistry
  <2> QED BY <2>1, <2>2, <2>3 DEF KnownProfile
<1> QED BY <1>1, <1>2, <1>3

----------------------------------------------------------------------------
(* Effective states and answers.                                           *)

\* Every effective state has the facts it comes from (effective_state/resolver.py).
LEMMA StatesHaveSources ==
  ASSUME NEW field, NEW F
  PROVE  /\ \A s \in ScalarStates(field, F) : s.sources # {}
         /\ \A s \in CollectionStates(field, F) : s.sources # {}
<1>1. ASSUME NEW scope, NEW G, G # {}
      PROVE  ScalarState(field, scope, G).sources # {} /\ CollectionState(field, scope, G).sources # {}
  <2>1. ScalarState(field, scope, G).sources = G
    BY DEF ScalarState, State
  <2>2. CollectionState(field, scope, G).sources = G
    BY DEF CollectionState, State
  <2> QED BY <1>1, <2>1, <2>2
<1>2. \A s \in {f.scope : f \in F} : OfScope(F, s) # {}
  BY DEF OfScope
<1>3. \A r \in Partitions(F) : Applicable(F, r) # {}
  BY DEF Partitions
<1>4. \A s \in CollectionStates(field, F) : s.sources # {}
  BY <1>1, <1>2 DEF CollectionStates
<1>5. \A s \in ScalarStates(field, F) : s.sources # {}
  BY <1>1, <1>2, <1>3 DEF ScalarStates
<1> QED BY <1>4, <1>5

\* An obligation passes only on the one state there is, when its condition holds of the
\* value and with no unknown finding of its rule (assessment_packs/service.py).
LEMMA PassNeedsOneState ==
  ASSUME NEW o, NEW rule, NEW own, NEW verdicts, ObligationVerdict(o, rule, own, verdicts) = "pass"
  PROVE  /\ \E s \in own : own = {s} /\ s.status = "resolved" /\ Satisfied(o, rule, s.value)
         /\ "unknown" \notin verdicts
<1> DEFINE state == CHOOSE s \in own : TRUE
           condition == IF o.expected = Absent THEN rule.condition
                        ELSE [rule.condition EXCEPT !.expected = o.expected]
           verdict == EvaluateCondition(condition, state.value,
                                        ResolveParameter(o.parameters, condition.parameter))
<1>1. ObligationVerdict(o, rule, own, verdicts) =
        IF "unknown" \in verdicts \/ \A s \in own : own # {s} THEN "unknown"
        ELSE IF state.status # "resolved" \/ verdict = "error" THEN "unknown"
        ELSE verdict
  BY DEF ObligationVerdict
<1>2. Satisfied(o, rule, state.value) <=> verdict = "pass"
  BY DEF Satisfied
<1> HIDE DEF verdict
<1>3. /\ "unknown" \notin verdicts /\ ~\A s \in own : own # {s}
      /\ state.status = "resolved" /\ verdict = "pass"
  BY <1>1
<1>4. PICK s \in own : own = {s}
  BY <1>3
<1>5. state = s
  BY <1>4
<1> QED BY <1>2, <1>3, <1>4, <1>5

----------------------------------------------------------------------------
(* From nodes to facts and unresolved blocks.                              *)

\* The line of a statement is the last of its lines.
LEMMA LastLine ==
  ASSUME NEW S, NEW a \in S, S \subseteq Nat, \A x \in S : x <= a
  PROVE  Max(S) = a
<1>1. Max(S) \in S /\ \A x \in S : x <= Max(S)
  BY DEF Max
<1>2. Max(S) \in Nat /\ a \in Nat /\ Max(S) <= a /\ a <= Max(S)
  BY <1>1
<1> QED BY <1>2

\* A statement is read where it stands: with its parent, or without context
\* (interpretation/scopes.py).
LEMMA ReadWithItsParent ==
  ASSUME NEW m, NEW nodes, NEW node
  PROVE  Reading(m, nodes, node).context \in {0, ParentOf(node)}
<1>1. Nothing("doubt").context = 0 /\ Nothing("raised").context = 0 /\ Nothing("silent").context = 0
  BY DEF Nothing, Outcome, Scoped
<1>2. ScopeOf(m.scope, nodes, node).context \in {0, ParentOf(node)}
  BY DEF ScopeOf, Scoped
<1>3. \A verdict, op, value : Outcome(verdict, op, value, ScopeOf(m.scope, nodes, node)).context
                                = ScopeOf(m.scope, nodes, node).context
  BY DEF Outcome
<1>4. ReadNegated(m, nodes, node).context \in {0, ParentOf(node)}
  BY <1>1, <1>2, <1>3 DEF ReadNegated
<1>5. ReadPositive(m, nodes, node).context \in {0, ParentOf(node)}
  BY <1>1, <1>2, <1>3 DEF ReadPositive
<1> QED BY <1>4, <1>5 DEF Reading

\* The parent of a node that has one is a node before it, and a statement.
LEMMA ParentComesBefore ==
  ASSUME NEW nodes, NEW count \in Nat, WellFormed(nodes, count), NEW n \in DOMAIN nodes,
         ParentOf(nodes[n]) # 0
  PROVE  /\ ParentOf(nodes[n]) \in nodes[n].context
         /\ ParentOf(nodes[n]) \in DOMAIN nodes /\ nodes[ParentOf(nodes[n])].kind = "statement"
         /\ nodes[ParentOf(nodes[n])].first < nodes[n].first
<1> DEFINE C == nodes[n].context
<1>1. n \in Nat /\ DOMAIN nodes \subseteq Nat \ {0}
  BY DEF WellFormed
<1>2. C \subseteq {m \in DOMAIN nodes : m < n /\ nodes[m].kind = "statement"}
  BY DEF WellFormed
<1>3. C \subseteq 0 .. n
  BY <1>1, <1>2
<1>4. C # {} /\ ParentOf(nodes[n]) = Max(C)
  BY DEF ParentOf
<1>5. Max(C) \in C
  <2> HIDE DEF C
  <2> QED BY <1>1, <1>3, <1>4, MaxIsLargest
<1> DEFINE p == Max(C)
<1>6. p \in DOMAIN nodes /\ p < n /\ nodes[p].kind = "statement"
  BY <1>2, <1>5
<1>7. nodes[p].last < nodes[n].first
  <2> HIDE DEF p
  <2> QED BY <1>6 DEF WellFormed
<1>8. /\ nodes[p].first \in 1 .. count /\ nodes[p].last \in nodes[p].first .. count
      /\ nodes[n].first \in 1 .. count
  <2> HIDE DEF p
  <2> QED BY <1>6 DEF WellFormed
<1>9. nodes[p].first < nodes[n].first
  <2> HIDE DEF p
  <2> QED BY <1>7, <1>8
<1> QED BY <1>4, <1>5, <1>6, <1>9

\* What can be said of the node of a command document.
StatementAccounted(nodes, result, n) ==
  \/ n \in result.unresolved
  \/ nodes[n].kind = "comment"
  \/ \E f \in result.facts : nodes[n].first = Max(f.lines) \/ (~f.negated /\ nodes[n].first \in f.lines)

\* Every node is unresolved unless it is a comment or there is a fact about it, and a
\* banner or certificate chain always is (interpret_structural_ir).
LEMMA StatementsAccounted ==
  ASSUME NEW doc, NEW ir, NEW pack, NEW count \in Nat, WellFormed(ir.nodes, count)
  PROVE  LET result == InterpretStructural(doc, ir, pack) IN
         \A n \in DOMAIN ir.nodes :
           /\ StatementAccounted(ir.nodes, result, n)
           /\ ir.nodes[n].kind = "opaque" => n \in result.unresolved
<1> DEFINE nodes == ir.nodes
           considered == {c \in (DOMAIN nodes) \X (DOMAIN pack) :
                            nodes[c[1]].kind = "statement" /\ About(pack[c[2]], nodes, nodes[c[1]])}
           ReadingOf(c) == [node |-> c[1], field |-> pack[c[2]].field,
                        out |-> Reading(pack[c[2]], nodes, nodes[c[1]])]
           readings == {ReadingOf(c) : c \in considered}
           Lines(r) == {nodes[r.node].first} \cup (IF r.out.context = 0 THEN {} ELSE {nodes[r.out.context].first})
           Of(r) == Fact(doc.name, nodes[r.node], Lines(r), r.field, r.out.scope, r.out.says)
           result == InterpretStructural(doc, ir, pack)
<1>1. /\ result.facts = {Of(r) : r \in {q \in readings : q.out.verdict = "fact"}}
      /\ result.unresolved = UnresolvedNodes(nodes, readings)
  BY DEF InterpretStructural
<1>2. ASSUME NEW r \in readings
      PROVE  /\ r.node \in DOMAIN nodes /\ nodes[r.node].kind = "statement"
             /\ r.out.context \in {0, ParentOf(nodes[r.node])}
  <2>1. PICK c \in considered : r = ReadingOf(c)
    OBVIOUS
  <2>2. c[1] \in DOMAIN nodes /\ nodes[c[1]].kind = "statement" /\ r.node = c[1]
    BY <2>1
  <2>3. r.out = Reading(pack[c[2]], nodes, nodes[c[1]])
    BY <2>1
  <2> HIDE DEF readings, considered, nodes
  <2> QED BY <2>2, <2>3, ReadWithItsParent
<1> HIDE DEF result, readings
<1>3. ASSUME NEW r \in readings, r.out.context # 0
      PROVE  /\ r.out.context \in DOMAIN nodes /\ nodes[r.out.context].kind = "statement"
             /\ nodes[r.out.context].first < nodes[r.node].first
  <2>1. r.out.context = ParentOf(nodes[r.node]) /\ r.node \in DOMAIN nodes
    BY <1>2, <1>3
  <2> QED BY <1>3, <2>1, ParentComesBefore
<1>4. ASSUME NEW r \in readings, r.out.verdict = "fact"
      PROVE  /\ Of(r) \in result.facts /\ Of(r).negated = nodes[r.node].negated
             /\ Max(Of(r).lines) = nodes[r.node].first
             /\ r.out.context # 0 => nodes[r.out.context].first \in Of(r).lines
  <2>1. Of(r) \in result.facts
    BY <1>1, <1>4
  <2>2. Of(r).negated = nodes[r.node].negated /\ Of(r).lines = Lines(r)
    BY DEF Fact
  <2>3. nodes[r.node].first \in Lines(r) /\ (r.out.context # 0 => nodes[r.out.context].first \in Lines(r))
    OBVIOUS
  <2>4. nodes[r.node].first \in Nat
    BY <1>2 DEF WellFormed
  <2>5. ASSUME NEW x \in Lines(r) PROVE x \in Nat /\ x <= nodes[r.node].first
    <3>1. CASE x = nodes[r.node].first
      BY <2>4, <3>1
    <3>2. CASE r.out.context # 0 /\ x = nodes[r.out.context].first
      <4>1. x \in Nat /\ x < nodes[r.node].first
        BY <1>3, <3>2 DEF WellFormed
      <4> QED BY <2>4, <4>1
    <3> QED BY <2>5, <3>1, <3>2
  <2> HIDE DEF Lines, Of
  <2>6. Max(Lines(r)) = nodes[r.node].first
    BY <2>3, <2>5, LastLine
  <2> QED BY <2>1, <2>2, <2>3, <2>6
<1> SUFFICES ASSUME NEW n \in DOMAIN nodes
             PROVE  StatementAccounted(nodes, result, n) /\ (nodes[n].kind = "opaque" => n \in result.unresolved)
  BY DEF result
<1>5. StatementAccounted(nodes, result, n)
  <2>1. SUFFICES ASSUME n \notin result.unresolved, nodes[n].kind # "comment"
                 PROVE  \E f \in result.facts : \/ nodes[n].first = Max(f.lines)
                                                \/ ~f.negated /\ nodes[n].first \in f.lines
    BY DEF StatementAccounted
  <2>2. PICK r \in readings : r.out.verdict = "fact" /\ ~(r.node # n /\ (r.out.context = n => nodes[r.node].negated))
    BY <1>1, <2>1 DEF UnresolvedNodes
  <2>3. n # 0
    BY DEF WellFormed
  <2> HIDE DEF Of
  <2> QED BY <1>4, <2>2, <2>3
<1>6. nodes[n].kind = "opaque" => n \in result.unresolved
  <2>1. SUFFICES ASSUME nodes[n].kind = "opaque" PROVE n \in UnresolvedNodes(nodes, readings)
    BY <1>1
  <2>2. n # 0
    BY DEF WellFormed
  <2>3. \A r \in readings : r.node # n /\ r.out.context # n
    BY <1>2, <1>3, <2>1, <2>2
  <2> QED BY <2>1, <2>3 DEF UnresolvedNodes
<1> QED BY <1>5, <1>6

\* The same for trees: a leaf is unresolved unless there is a fact about it.
LEMMA LeavesAccounted ==
  ASSUME NEW doc, NEW ir, NEW pack, DOMAIN ir.nodes \subseteq Nat
  PROVE  LET result == InterpretTree(doc, ir, pack) IN
         \A n \in DOMAIN ir.nodes :
           \/ n \in result.unresolved \/ n \notin TreeLeaves(doc, ir.nodes)
           \/ \E f \in result.facts : n = Max(f.lines)
<1> DEFINE nodes == ir.nodes
           result == InterpretTree(doc, ir, pack)
           plain == [negated |-> FALSE]
<1>1. PICK facts \in SUBSET ((DOMAIN nodes) \X (DOMAIN pack)) :
        /\ result.facts = {Fact(doc.name, plain, {c[1]}, pack[c[2]].field, Device,
                                <<"assign", TreeOutcome(pack[c[2]], nodes, c[1])>>) : c \in facts}
        /\ result.unresolved = TreeLeaves(doc, nodes) \ {c[1] : c \in facts}
  <2> DEFINE cut == doc.shape = "json" /\ ir.truncated
             AboutNode(m, node) ==
               /\ m.kind = "tree"
               /\ m.operation = (IF doc.shape = "xml" THEN "xml_path" ELSE "json_path")
               /\ PathMatches(m, node.path)
               /\ TreeValue(m, node) # Silent
             considered == {c \in (DOMAIN nodes) \X (DOMAIN pack) : ~cut /\ AboutNode(pack[c[2]], nodes[c[1]])}
             taken == {c \in considered : TreeOutcome(pack[c[2]], nodes, c[1]) # NoValue}
  <2>1. taken \in SUBSET ((DOMAIN nodes) \X (DOMAIN pack))
    OBVIOUS
  <2>2. /\ result.facts = {Fact(doc.name, plain, {c[1]}, pack[c[2]].field, Device,
                                <<"assign", TreeOutcome(pack[c[2]], nodes, c[1])>>) : c \in taken}
        /\ result.unresolved = TreeLeaves(doc, nodes) \ {c[1] : c \in taken}
    BY DEF InterpretTree
  <2> HIDE DEF taken, result, plain, nodes
  <2> QED BY <2>1, <2>2
<1>3. ASSUME NEW n \in DOMAIN nodes, n \notin result.unresolved, n \in TreeLeaves(doc, nodes)
      PROVE  \E f \in result.facts : f.lines = {n}
  <2>1. PICK c \in facts : c[1] = n
    BY <1>1, <1>3
  <2> DEFINE f == Fact(doc.name, plain, {c[1]}, pack[c[2]].field, Device,
                       <<"assign", TreeOutcome(pack[c[2]], nodes, c[1])>>)
  <2>2. f.lines = {n}
    BY <2>1 DEF Fact
  <2>3. f \in result.facts
    <3> HIDE DEF result, plain, nodes
    <3> QED BY <1>1, <2>1
  <2> QED BY <2>2, <2>3
<1>2. \A n \in DOMAIN nodes : Max({n}) = n
  <2> SUFFICES ASSUME NEW n \in DOMAIN nodes PROVE Max({n}) = n
    OBVIOUS
  <2> QED BY LastLine
<1> QED BY <1>2, <1>3

----------------------------------------------------------------------------
(* The invariant holds.                                                    *)

\* The initial states: no answer yet, and the packs from before the audit.
LEMMA InitInvariant == Init => IInv
<1> SUFFICES ASSUME Init PROVE IInv
  OBVIOUS
<1>1. PICK family \in DOMAIN Snapshots : snapshot \in Snapshots[family]
  BY DEF Init
<1>2. SnapshotInv
  BY <1>1 DEF SnapshotInv
<1>3. NamesInv
  BY DEF Init, NamesInv
<1>4. StagesInv
  BY DEF Init, StagesInv
<1>5. ObligationKeepsEvaluator
  BY <1>1, SnapshotsAssumption DEF Init, ObligationKeepsEvaluator
<1>6. ObligationPassStandsOnOneState
  BY DEF Init, ObligationPassStandsOnOneState
<1> QED BY <1>2, <1>3, <1>4, <1>5, <1>6 DEF IInv

\* No stage touches what is published, and no publication touches the audit: what an
\* invariant says of the other half stays.
LEMMA PublishedStays ==
  SnapshotInv /\ NamesInv /\ ObligationKeepsEvaluator /\ UNCHANGED <<snapshot, published>>
    => SnapshotInv' /\ NamesInv' /\ ObligationKeepsEvaluator'
BY DEF SnapshotInv, NamesInv, ObligationKeepsEvaluator, published

\* The stages before the last one give no answers.
LEMMA StageStep ==
  IInv /\ (Identify \/ Pin \/ InterpretEvidence \/ ResolveStates) => IInv'
<1> SUFFICES ASSUME IInv, Identify \/ Pin \/ InterpretEvidence \/ ResolveStates PROVE IInv'
  OBVIOUS
<1> USE DEF IInv
<1>1. SnapshotInv' /\ NamesInv' /\ ObligationKeepsEvaluator'
  BY PublishedStays DEF Identify, Pin, InterpretEvidence, ResolveStates
<1>2. phase # "done" /\ phase' # "done" /\ UNCHANGED <<findings, answers>>
  BY DEF Identify, Pin, InterpretEvidence, ResolveStates
<1>3. findings' = {} /\ answers' = {}
  BY <1>2 DEF StagesInv
<1>4. ObligationPassStandsOnOneState'
  BY <1>3 DEF ObligationPassStandsOnOneState
<1>5. phase' \notin {"identifying", "failed"} => KnownProfile(resolution'.profile, profiles')
  <2>1. CASE Identify
    BY <2>1, ResolvedIsKnown DEF Identify, published
  <2>2. CASE Pin \/ InterpretEvidence \/ ResolveStates
    BY <2>2 DEF Pin, InterpretEvidence, ResolveStates, published, StagesInv, KnownProfile
  <2> QED BY <2>1, <2>2
<1>6. \A s \in states' : s.sources # {}
  <2>1. CASE ResolveStates
    <3> DEFINE Of(field) == {f \in Facts : f.field = field}
               StatesOf(field) == IF Repeatable(field) THEN CollectionStates(field, Of(field))
                                  ELSE ScalarStates(field, Of(field))
    <3>1. states' = UNION {StatesOf(field) : field \in {f.field : f \in Facts}}
      BY <2>1 DEF ResolveStates
    <3>2. ASSUME NEW field PROVE \A s \in StatesOf(field) : s.sources # {}
      BY StatesHaveSources
    <3> HIDE DEF StatesOf
    <3> QED BY <3>1, <3>2
  <2>2. CASE Identify \/ Pin \/ InterpretEvidence
    BY <2>2 DEF Identify, Pin, InterpretEvidence, StagesInv
  <2> QED BY <2>1, <2>2
<1>7. StagesInv'
  BY <1>3, <1>5, <1>6 DEF StagesInv
<1> QED BY <1>1, <1>4, <1>7

\* The last stage: an obligation is answered by the rule of its name, under the
\* profile that was resolved.
LEMMA EvaluateStep == IInv /\ Evaluate => IInv'
<1> SUFFICES ASSUME IInv, Evaluate PROVE IInv'
  OBVIOUS
<1> USE DEF IInv
<1>1. SnapshotInv' /\ NamesInv' /\ ObligationKeepsEvaluator'
  BY PublishedStays DEF Evaluate
<1>2. phase' \in {"done", "failed"} /\ (phase' = "failed" => findings' = {} /\ answers' = {})
  BY DEF Evaluate
<1>3. UNCHANGED <<resolution, profiles, rules, states>>
  BY DEF Evaluate, published
<1>4. KnownProfile(resolution.profile, profiles)
  BY DEF Evaluate, StagesInv
<1>5. StagesInv'
  BY <1>2, <1>3, <1>4 DEF StagesInv, KnownProfile
<1>6. Profile.profile = resolution.profile
  BY <1>4 DEF Profile, ProfileFor, KnownProfile
<1>7. ASSUME NEW a \in answers', a.verdict = "pass"
      PROVE  LET rule == RuleFor(rules', a.rule, resolution'.profile)
                 own == {s \in states' : s.field = rule.field}
             IN /\ \E s \in own :
                     /\ own = {s} /\ s.status = "resolved" /\ s.sources # {}
                     /\ \E p \in pins' : \E o \in Range(p.obligations) :
                          /\ a.pack = <<p.key, p.version>> /\ a.obligation = o.key /\ a.rule = o.rule
                          /\ Satisfied(o, rule, s.value)
                /\ \A f \in findings' : f.rule = a.rule => f.verdict # "unknown"
  <2>1. EvaluatorsPresent(pins, Profile, rules)
        /\ answers' = Assess(pins, Profile, rules, states, findings')
    BY <1>7 DEF Evaluate
  <2>2. PICK p \in pins : \E o \in Range(p.obligations) :
               a = AnswerTo(p, o, Profile, rules, states, findings')
    BY <1>7, <2>1 DEF Assess
  <2>3. PICK o \in Range(p.obligations) : a = AnswerTo(p, o, Profile, rules, states, findings')
    BY <2>2
  <2> DEFINE rule == RuleFor(rules, o.rule, Profile.profile)
             own == {s \in states : s.field = rule.field}
             verdicts == {f.verdict : f \in {g \in findings' : g.rule = rule.id}}
  <2>4. /\ Automatic(o) /\ Profile.profile \in o.profiles /\ EvidenceSupported(o, Profile)
        /\ a.verdict = ObligationVerdict(o, rule, own, verdicts)
    BY <1>7, <2>3 DEF AnswerTo, Answer, None
  <2>5. a.rule = o.rule /\ a.pack = <<p.key, p.version>> /\ a.obligation = o.key
    BY <2>3 DEF AnswerTo, Answer
  <2>6. rule # NoRule
    BY <2>1, <2>4 DEF EvaluatorsPresent
  <2>7. rule.id = o.rule
    BY <2>6, EvaluatorHasItsName
  <2>8. /\ \E s \in own : own = {s} /\ s.status = "resolved" /\ Satisfied(o, rule, s.value)
        /\ "unknown" \notin verdicts
    <3> HIDE DEF rule, own, verdicts
    <3> QED BY <1>7, <2>4, PassNeedsOneState
  <2>9. \A s \in own : s.sources # {}
    BY DEF StagesInv
  <2>10. \A f \in findings' : f.rule = a.rule => f.verdict # "unknown"
    BY <2>5, <2>7, <2>8
  <2>11. rule = RuleFor(rules', a.rule, resolution'.profile) /\ states' = states /\ pins' = pins
    BY <1>3, <1>6, <2>5 DEF Evaluate
  <2>12. own = {s \in states' : s.field = RuleFor(rules', a.rule, resolution'.profile).field}
    BY <2>11
  <2> HIDE DEF rule, own, verdicts
  <2> QED BY <2>5, <2>8, <2>9, <2>10, <2>11, <2>12
<1>8. ObligationPassStandsOnOneState'
  BY <1>7 DEF ObligationPassStandsOnOneState
<1> QED BY <1>1, <1>5, <1>8

\* Publications: none happens to an audit that has answers.
LEMMA PublishStep == IInv /\ Publish => IInv'
<1> SUFFICES ASSUME IInv, Publish PROVE IInv'
  OBVIOUS
<1> USE DEF IInv
<1>1. /\ phase # "done" /\ UNCHANGED audit
      /\ profiles \subseteq profiles' /\ rules \subseteq rules'
  BY DEF Publish, PublishProfile, PublishMapping, PublishRule, PublishCatalog, ImportCatalog, Running
<1>2. SnapshotInv'
  BY <1>1 DEF SnapshotInv, audit
<1>3. StagesInv'
  BY <1>1, ProfilesStay DEF StagesInv, audit
<1>4. ObligationPassStandsOnOneState'
  BY <1>1 DEF StagesInv, ObligationPassStandsOnOneState, audit
<1>5. PICK family \in DOMAIN Snapshots : snapshot \in Snapshots[family]
  BY DEF SnapshotInv
<1>6. NamesInv'
  <2>1. CASE \E m \in snapshot.drafts.profiles : PublishProfile(m)
    BY <2>1 DEF PublishProfile, Publishable, NamesInv
  <2>2. CASE \E r \in snapshot.drafts.rules : PublishRule(r)
    <3>1. PICK r \in snapshot.drafts.rules : PublishRule(r)
      BY <2>2
    <3>2. r.id # None /\ DOMAIN r = {"id", "field", "profiles", "version", "condition"}
      BY <1>5, SnapshotsAssumption
    <3>3. [r EXCEPT !.version = NextVersion(rules, r)].id # None
      BY <3>2
    <3> QED BY <3>1, <3>3 DEF PublishRule, NamesInv
  <2>3. CASE UNCHANGED <<profiles, rules>>
    BY <2>3 DEF NamesInv
  <2> QED BY <2>1, <2>2, <2>3 DEF Publish, PublishMapping, PublishCatalog, ImportCatalog
<1>7. ASSUME NEW p \in packs, NEW o \in Range(p.obligations), Automatic(o), NEW q \in o.profiles
      PROVE  RuleFor(rules', o.rule, q) # NoRule
  <2>1. RuleFor(rules, o.rule, q) # NoRule
    BY <1>7 DEF ObligationKeepsEvaluator
  <2>2. \A r \in rules' : r.id # None
    BY <1>6 DEF NamesInv
  <2> QED BY <1>1, <2>1, <2>2, EvaluatorsStay
<1>8. ASSUME NEW p \in packs' \ packs, NEW o \in Range(p.obligations), Automatic(o), NEW q \in o.profiles
      PROVE  RuleFor(rules', o.rule, q) # NoRule
  <2>1. CASE \E d \in snapshot.drafts.catalogs : PublishCatalog(d)
    <3>1. PublishCatalog(p)
      BY <1>8, <2>1 DEF PublishCatalog
    <3>2. EvaluatorAgreed(o, rules) /\ rules' = rules
      BY <1>8, <3>1 DEF PublishCatalog, CatalogPublishable
    <3> QED BY <1>8, <3>2 DEF EvaluatorAgreed, Evaluators
  <2>2. CASE \E d \in snapshot.drafts.imports : ImportCatalog(d, "cis")
    <3>1. PICK d \in snapshot.drafts.imports : ImportCatalog(d, "cis")
      BY <2>2
    <3>2. "obligations" \in DOMAIN d /\ \A e \in Range(d.obligations) : "implementation" \in DOMAIN e
      BY <1>5, SnapshotsAssumption
    <3>3. p.obligations = [k \in DOMAIN d.obligations |-> [d.obligations[k] EXCEPT !.profiles = d.profiles]]
      BY <1>8, <3>1, <3>2 DEF ImportCatalog, ImportExternal
    <3>4. PICK k \in DOMAIN d.obligations : o = [d.obligations[k] EXCEPT !.profiles = d.profiles]
      BY <1>8, <3>3 DEF Range
    <3>5. d.obligations[k] \in Range(d.obligations)
      BY DEF Range
    <3>6. o.implementation = d.obligations[k].implementation
      BY <3>2, <3>4, <3>5
    <3>7. d.obligations[k].implementation # "implemented"
      BY <3>1, <3>5 DEF ImportCatalog, ExternalAccepted
    <3> QED BY <1>8, <3>6, <3>7 DEF Automatic
  <2>3. CASE packs' = packs
    BY <1>8, <2>3
  <2> QED BY <2>1, <2>2, <2>3 DEF Publish, PublishProfile, PublishMapping, PublishRule
<1>9. ObligationKeepsEvaluator'
  BY <1>7, <1>8 DEF ObligationKeepsEvaluator
<1> QED BY <1>2, <1>3, <1>4, <1>6, <1>9

\* Every step keeps the invariant.
LEMMA NextInvariant == IInv /\ [Next]_vars => IInv'
<1> SUFFICES ASSUME IInv, [Next]_vars PROVE IInv'
  OBVIOUS
<1>1. CASE Identify \/ Pin \/ InterpretEvidence \/ ResolveStates
  BY <1>1, StageStep
<1>2. CASE Evaluate
  BY <1>2, EvaluateStep
<1>3. CASE Publish
  BY <1>3, PublishStep
<1>4. CASE UNCHANGED vars
  BY <1>4 DEF IInv, SnapshotInv, NamesInv, StagesInv, ObligationKeepsEvaluator,
              ObligationPassStandsOnOneState, vars, audit, published
<1> QED BY <1>1, <1>2, <1>3, <1>4 DEF Next

\* The inductive invariant holds of every audit.
THEOREM AuditContentInvariantHolds == Spec => []IInv
BY InitInvariant, NextInvariant, PTL DEF Spec

\* No audit fails for the lack of an evaluator: rules published while it runs leave
\* every published obligation one on each of its profiles.
THEOREM ObligationsKeepEvaluators == Spec => []ObligationKeepsEvaluator
<1>1. IInv => ObligationKeepsEvaluator
  BY DEF IInv
<1> QED BY <1>1, AuditContentInvariantHolds, PTL

\* An obligation passes only on the one effective state of its field, of which the
\* condition of its evaluator holds with the values of the pinned obligation.
THEOREM PassesStandOnOneState == Spec => []ObligationPassStandsOnOneState
<1>1. IInv => ObligationPassStandsOnOneState
  BY DEF IInv
<1> QED BY <1>1, AuditContentInvariantHolds, PTL

----------------------------------------------------------------------------
(* What was resolved is what the evidence says.                            *)

\* The profiles of the built-in manifests tell them apart, and three are generic.
LEMMA RegistryNames ==
  /\ \A m, q \in ProfileRegistry : m.profile = q.profile => m = q
  /\ GenericXml.generic /\ GenericJson.generic /\ GenericCli.generic
<1>1. /\ IosXe17.profile = "cisco.ios_xe.17" /\ Fortios7.profile = "fortinet.fortios.7"
      /\ Junos18.profile = "juniper.junos.18" /\ Eos4.profile = "arista.eos.4"
  BY DEF IosXe17, Fortios7, Junos18, Eos4, Manifest
<1>2. /\ GenericCli.profile = "generic.cli" /\ GenericXml.profile = "generic.xml"
      /\ GenericJson.profile = "generic.json"
      /\ GenericXml.generic /\ GenericJson.generic /\ GenericCli.generic
  BY DEF GenericCli, GenericXml, GenericJson, Generic, Manifest
<1> QED BY <1>1, <1>2 DEF ProfileRegistry

\* The manifest that a name stands for, when nothing is published under the name of a
\* built-in profile (profile_for).
LEMMA ManifestOfName ==
  ASSUME NEW runtime, \A m \in runtime : \A q \in ProfileRegistry : m.profile # q.profile,
         NEW profile, KnownProfile(profile, runtime)
  PROVE  /\ ProfileFor(profile, runtime).profile = profile
         /\ \A m \in ProfileRegistry : m.profile = profile => ProfileFor(profile, runtime) = m
         /\ \A m \in runtime : m.profile = profile => ProfileFor(profile, runtime) \notin ProfileRegistry
<1> DEFINE manifest == ProfileFor(profile, runtime)
<1>1. manifest \in runtime \cup ProfileRegistry /\ manifest.profile = profile
  BY DEF ProfileFor, KnownProfile
<1>2. ASSUME NEW m \in ProfileRegistry, m.profile = profile
      PROVE  manifest = m
  <2>1. manifest \in ProfileRegistry
    BY <1>1, <1>2
  <2> QED BY <1>1, <1>2, <2>1, RegistryNames
<1> QED BY <1>1, <1>2

\* An audit goes on only with a platform all explicit evidence speaks of, and with a
\* built-in profile only for the one version it states (resolver.py).
LEMMA IdentifyStep ==
  ASSUME NamesInv, Identify, phase' = "pinning"
  PROVE  PlatformUnopposed(resolution') /\ VersionUnopposed(resolution')
<1> DEFINE documents == AggregateSnapshotEvidence(snapshot.artifacts).documents
           docs == ToSet(documents)
           modelled == {d \in docs : DocumentModels(d) # {}}
           ciscoLike == {d \in docs : LooksLikeCisco(d)}
           identified == {i.document : i \in Identities} \cup {d.name : d \in modelled \cup ciscoLike}
           silent == identified = {} /\ \A d \in docs : ~d.ciscoFile
           results == RuntimeResults(documents, profiles, identified)
           generic == GenericProfile(documents, silent)
           result == ResolveProfile(documents, profiles)
           manifest == ProfileFor(result.profile, profiles)
<1>1. resolution' = result /\ result.status = "resolved"
  BY DEF Identify
<1>2. Identities = UNION {DocumentIdentities(d, profiles) : d \in docs}
  BY DEF Identities, Range, ToSet
<1>3. KnownProfile(result.profile, profiles)
  BY <1>1, ResolvedIsKnown
<1>4. /\ \A m \in ProfileRegistry : m.profile = result.profile => manifest = m
      /\ \A m \in profiles : m.profile = result.profile => manifest \notin ProfileRegistry
  BY <1>3, ManifestOfName DEF NamesInv
<1>5. CASE Identities # {}
  <2>1. result = FromIdentities(Identities, results, identified)
    BY <1>2, <1>5 DEF ResolveProfile
  <2>2. /\ \A i \in Identities : i.vendor = result.vendor /\ i.os = result.os
        /\ \/ \E m \in profiles : result.profile = m.profile
           \/ \E m \in ProfileRegistry :
                /\ result.profile = m.profile /\ Accepts(m.constraint, result.version)
                /\ {i.version : i \in Identities} \ {NoVersion} = {result.version}
    <3> HIDE DEF identified, result, documents
    <3> QED BY <1>1, <1>5, <2>1, ResolvedByIdentities DEF result
  <2>3. PlatformUnopposed(result)
    BY <2>2 DEF PlatformUnopposed
  <2>4. VersionUnopposed(result)
    <3> HIDE DEF result
    <3> QED BY <1>4, <2>2 DEF VersionUnopposed
  <2> QED BY <1>1, <2>3, <2>4
<1>6. CASE Identities = {}
  <2>1. PlatformUnopposed(result)
    BY <1>6 DEF PlatformUnopposed
  <2>2. CASE results # {}
    <3>1. result \in results
      BY <1>2, <1>6, <2>2 DEF ResolveProfile
    <3>2. \E m \in profiles : result.profile = m.profile
      <4> HIDE DEF identified, result, documents
      <4> QED BY <1>1, <3>1, RuntimeResultIsPublished
    <3>3. manifest \notin ProfileRegistry
      BY <1>4, <3>2
    <3> QED BY <1>1, <2>1, <3>3 DEF VersionUnopposed
  <2>3. CASE results = {}
    <3>1. generic # None /\ result.profile = generic
      BY <1>1, <1>2, <1>6, <2>3 DEF ResolveProfile, Result
    <3>2. generic \in {GenericXml.profile, GenericJson.profile, GenericCli.profile}
      BY <3>1 DEF GenericProfile
    <3>3. {GenericXml, GenericJson, GenericCli} \subseteq ProfileRegistry
      BY DEF ProfileRegistry
    <3>4. manifest \in {GenericXml, GenericJson, GenericCli}
      BY <1>4, <3>1, <3>2, <3>3
    <3>5. manifest.generic
      BY <3>4, RegistryNames
    <3> QED BY <1>1, <2>1, <3>5 DEF VersionUnopposed
  <2> QED BY <2>2, <2>3
<1> QED BY <1>5, <1>6

\* A profile is resolved only when all explicit evidence agrees with it on vendor and
\* system and, for a built-in profile, on the one version it accepts, whatever
\* profiles are published by then.
THEOREM ResolvedEvidenceAgrees ==
  Spec => [][phase = "identifying" /\ phase' = "pinning"
               => PlatformUnopposed(resolution') /\ VersionUnopposed(resolution')]_vars
<1>1. IInv /\ [Next]_vars
        => [phase = "identifying" /\ phase' = "pinning"
              => PlatformUnopposed(resolution') /\ VersionUnopposed(resolution')]_vars
  <2> SUFFICES ASSUME IInv, Next, phase = "identifying", phase' = "pinning"
               PROVE  PlatformUnopposed(resolution') /\ VersionUnopposed(resolution')
    OBVIOUS
  <2>1. Identify
    BY DEF Next, Pin, InterpretEvidence, ResolveStates, Evaluate, Publish, PublishProfile, PublishMapping,
           PublishRule, PublishCatalog, ImportCatalog, audit
  <2>2. NamesInv
    BY DEF IInv
  <2> QED BY <2>1, <2>2, IdentifyStep
<1> QED BY <1>1, AuditContentInvariantHolds, PTL DEF Spec

----------------------------------------------------------------------------
(* What passes has been read and understood.                               *)

\* Built-in profiles read commands as text, and only structured exports as trees.
LEMMA RegistryReaders ==
  \A q \in ProfileRegistry :
    \/ q.reader \in {"indentation_cli", "fortios_cli"} /\ "structured_export" \notin q.types
    \/ q.reader \in {"xml_tree", "json_tree"}
<1>1. /\ IosXe17.reader = "indentation_cli" /\ IosXe17.types = {"configuration"}
      /\ Fortios7.reader = "fortios_cli" /\ Fortios7.types = {"configuration"}
      /\ Eos4.reader = "indentation_cli" /\ Eos4.types = {"configuration"}
      /\ Junos18.reader = "xml_tree"
  BY DEF IosXe17, Fortios7, Junos18, Eos4, Manifest
<1>2. /\ GenericCli.reader = "indentation_cli" /\ GenericCli.types = {"configuration", "unknown_evidence"}
      /\ GenericXml.reader = "xml_tree" /\ GenericJson.reader = "json_tree"
  BY DEF GenericCli, GenericXml, GenericJson, Generic, Manifest
<1> QED BY <1>1, <1>2 DEF ProfileRegistry

\* A banner or certificate chain whose end was not found, as a block.
Unended(r) ==
  \E n \in DOMAIN r.ir.nodes :
    /\ r.doc.shape = "cli" /\ n \in r.result.unresolved
    /\ r.ir.nodes[n].kind = "opaque" /\ r.ir.nodes[n].status # "opaque"

\* Each line was read, and each node was understood, has become an unresolved block,
\* or can state nothing.
Accounted(r) ==
  /\ r.doc.shape \in {"cli", "xml", "json"}
  /\ \A i \in DOMAIN r.doc.lines : LineRead(r, i) \/ Unended(r)
  /\ \A n \in DOMAIN r.ir.nodes :
       \/ Understood(r, n) \/ n \in r.result.unresolved
       \/ IF r.doc.shape = "cli" THEN r.ir.nodes[n].kind = "comment" ELSE n \notin TreeLeaves(r.doc, r.ir.nodes)

\* So it is for every document that a built-in profile reads.
LEMMA DocumentsAccounted ==
  ASSUME NEW q \in ProfileRegistry, NEW doc, NEW pack, IsText(doc.lines),
         doc.shape = "cli" \/ doc.type = "structured_export", doc.type \in q.types,
         NEW r, r = [doc |-> doc, ir |-> Read(q.reader, doc), result |-> Interpret(doc, Read(q.reader, doc), pack)],
         ~r.ir.refused
  PROVE  Accounted(r)
<1> DEFINE nodes == r.ir.nodes
           count == Len(doc.lines)
<1>1. count \in Nat /\ DOMAIN doc.lines = 1 .. count
  BY TextLength
<1>2. r.doc = doc /\ r.ir = Read(q.reader, doc) /\ r.result = Interpret(doc, r.ir, pack)
  OBVIOUS
<1>3. CASE q.reader \in {"indentation_cli", "fortios_cli"}
  <2>1. doc.shape = "cli"
    BY <1>3, RegistryReaders
  <2>2. r.result = InterpretStructural(doc, r.ir, pack)
    BY <1>2, <2>1 DEF Interpret
  <2>3. /\ WellFormed(nodes, count)
        /\ \A i \in DOMAIN doc.lines :
             \/ doc.lines[i].words = <<>> \/ Head(PiecesOf(Head(doc.lines[i].words))) = "#"
             \/ InNode(nodes, i) \/ Cardinality(DOMAIN nodes) = MaxNodes
             \/ \E n \in DOMAIN nodes : nodes[n].kind = "opaque" /\ nodes[n].status # "opaque"
    <3>1. CASE q.reader = "indentation_cli"
      <4>1. r.ir = ReadIndented(doc)
        BY <1>2, <3>1 DEF Read
      <4> QED BY <4>1, IndentedIsRead
    <3>2. CASE q.reader = "fortios_cli"
      <4>1. r.ir = ReadFortios(doc)
        BY <1>2, <3>2 DEF Read
      <4> QED BY <4>1, FortiosIsRead
    <3> QED BY <1>3, <3>1, <3>2
  <2>4. \A n \in DOMAIN nodes : /\ StatementAccounted(nodes, r.result, n)
                                /\ nodes[n].kind = "opaque" => n \in r.result.unresolved
    <3> HIDE DEF count
    <3> QED BY <1>1, <2>2, <2>3, StatementsAccounted
  <2>5. \A i \in DOMAIN doc.lines : LineRead(r, i) \/ Unended(r)
    BY <1>2, <2>1, <2>3, <2>4 DEF LineRead, Unended, InNode
  <2>6. ASSUME NEW n \in DOMAIN nodes
        PROVE  Understood(r, n) \/ n \in r.result.unresolved \/ nodes[n].kind = "comment"
    BY <1>2, <2>1, <2>4 DEF StatementAccounted, Understood
  <2> QED BY <1>2, <2>1, <2>5, <2>6 DEF Accounted
<1>4. CASE q.reader \in {"xml_tree", "json_tree"}
  <2>1. r.ir = ReadTree(doc) /\ doc.shape \in {"xml", "json"}
    BY <1>2, <1>4 DEF Read, Refused
  <2>2. r.result = InterpretTree(doc, r.ir, pack)
    BY <1>2, <2>1 DEF Interpret
  <2>3. /\ DOMAIN nodes \subseteq DOMAIN doc.lines
        /\ \A i \in DOMAIN doc.lines : \/ InNode(nodes, i) \/ doc.lines[i].indent > MaxTreeDepth
                                       \/ Cardinality(DOMAIN nodes) = MaxNodes
    BY <2>1, TreeIsRead
  <2>4. \A n \in DOMAIN nodes : \/ n \in r.result.unresolved \/ n \notin TreeLeaves(doc, nodes)
                                \/ \E f \in r.result.facts : n = Max(f.lines)
    <3>1. DOMAIN nodes \subseteq Nat
      BY <1>1, <2>3
    <3> QED BY <2>2, <3>1, LeavesAccounted
  <2>5. \A i \in DOMAIN doc.lines : LineRead(r, i)
    BY <1>2, <2>1, <2>3 DEF LineRead, InNode
  <2>6. \A n \in DOMAIN nodes : Understood(r, n) \/ n \in r.result.unresolved \/ n \notin TreeLeaves(doc, nodes)
    BY <1>2, <2>1, <2>4 DEF Understood
  <2> QED BY <1>2, <2>1, <2>5, <2>6 DEF Accounted
<1> QED BY <1>3, <1>4, RegistryReaders

\* A rule that an unresolved block does not keep from passing is about a field that is
\* not among those the block is doubted about (_persist_unresolved_blocks).
LEMMA BlockKeepsRules ==
  ASSUME NEW doc, NEW ir, NEW result, NEW n, NEW profile, NEW pack, NEW k \in DOMAIN pack,
         pack[k].id \notin BlockOf(doc, ir, result, n, profile, pack).rules
  PROVE  LET doubted == {d[2] : d \in {e \in result.doubts : e[1] = n}} IN
         /\ doubted # {} /\ pack[k].field \notin doubted
         /\ ~(/\ doc.shape \notin {"xml", "json"}
              /\ ir.nodes[n].kind = "opaque" /\ ir.nodes[n].status # "opaque")
<1> DEFINE doubted == {d[2] : d \in {e \in result.doubts : e[1] = n}}
           incomplete == /\ doc.shape \notin {"xml", "json"}
                         /\ ir.nodes[n].kind = "opaque" /\ ir.nodes[n].status # "opaque"
           all == IF pack = <<>> THEN profile.fields ELSE RuleFields(pack)
<1>1. \A fields : pack[k].field \in fields => pack[k].id \in AffectedRules(pack, fields)
  BY DEF AffectedRules
<1>2. pack # <<>> /\ pack[k].field \in all
  BY DEF RuleFields
<1> HIDE DEF doubted, incomplete, all
<1>3. BlockOf(doc, ir, result, n, profile, pack).rules
        = IF doubted = {} \/ profile.generic \/ incomplete THEN AffectedRules(pack, all)
          ELSE AffectedRules(pack, doubted)
  BY DEF BlockOf, Block, doubted, incomplete, all
<1>4. doubted # {} /\ pack[k].field \notin doubted /\ ~incomplete
  BY <1>1, <1>2, <1>3
<1> QED BY <1>4 DEF doubted, incomplete

\* A finding passes for the profile of the rules, and no block is about its rule
\* (evaluate_audit_compliance).
LEMMA PassIsUnblocked ==
  ASSUME NEW result, NEW pack, NEW own, NEW unresolved, NEW policy,
         NEW f \in EvaluateCompliance(result, pack, own, unresolved, policy), f.verdict = "pass"
  PROVE  /\ result.profile = pack.profile
         /\ \E k \in DOMAIN pack.rules :
              f.field = pack.rules[k].field /\ BlockersOf(pack.rules[k], unresolved) = {}
<1>1. /\ Applicability(result, pack) = "applicable"
      /\ \E k \in DOMAIN pack.rules : f \in FindingsOfRule(pack.rules[k], own, unresolved, policy)
  BY DEF EvaluateCompliance, Applicability, Finding
<1>2. PICK k \in DOMAIN pack.rules : f \in FindingsOfRule(pack.rules[k], own, unresolved, policy)
  BY <1>1
<1>3. PICK s \in own : f = FindingOn(pack.rules[k], s, unresolved, policy)
  BY <1>2 DEF FindingsOfRule, Finding
<1>4. f.field = pack.rules[k].field
  BY <1>3 DEF FindingOn, Finding
<1>5. BlockersOf(pack.rules[k], unresolved) = {}
  BY <1>3 DEF FindingOn, Finding
<1>6. result.profile = pack.profile
  BY <1>1 DEF Applicability
<1> QED BY <1>4, <1>5, <1>6

\* The rules an audit is pinned to are for its profile only if that is built in.
LEMMA PinnedRulesAreSealed ==
  ASSUME NamesInv, KnownProfile(resolution.profile, profiles),
         resolution.profile = PinnedRules(Profile).profile
  PROVE  Profile \in ProfileRegistry /\ PinnedRules(Profile).rules = RulesOf(Profile.profile)
<1>1. Profile \in ProfileRegistry
  <2>1. SUFFICES ASSUME Profile \notin ProfileRegistry PROVE FALSE
    OBVIOUS
  <2>2. \E m \in ProfileRegistry : m.profile = resolution.profile
    BY <2>1 DEF PinnedRules, ProfileRegistry
  <2>3. \A m \in profiles : \A p \in ProfileRegistry : m.profile # p.profile
    BY DEF NamesInv
  <2>4. ProfileFor(resolution.profile, profiles) \in ProfileRegistry
    <3>1. PICK m \in ProfileRegistry : m.profile = resolution.profile
      BY <2>2
    <3>2. ProfileFor(resolution.profile, profiles) = m
      BY <2>3, <3>1, ManifestOfName
    <3> QED BY <3>2
  <2> QED BY <2>1, <2>4 DEF Profile
<1>2. \A m \in ProfileRegistry : PinnedRules(m).rules = RulesOf(m.profile)
  BY DEF PinnedRules
<1> HIDE DEF ProfileRegistry
<1> QED BY <1>1, <1>2

\* Nothing has been read yet.
Unread == phase \in {"identifying", "pinning", "interpreting"}

\* Under a built-in profile every document is accounted for, and what is unresolved in
\* it has become a block for the rules it may affect.
CoverInv ==
  /\ Unread => reading = {}
  /\ \A q \in ProfileRegistry : resolution.profile = q.profile =>
       \A r \in reading :
         Accounted(r) /\ DocumentBlocks(r.doc, r.ir, r.result, q, RulesOf(q.profile)) \subseteq blocks

\* Interpretation stores facts and blocks together.
LEMMA CoverStep == IInv /\ CoverInv /\ [Next]_vars => CoverInv'
<1> SUFFICES ASSUME IInv, CoverInv, [Next]_vars PROVE CoverInv'
  OBVIOUS
<1>1. CASE InterpretEvidence
  <2>1. ~Unread'
    BY <1>1 DEF InterpretEvidence, Unread
  <2> SUFFICES ASSUME NEW q \in ProfileRegistry, resolution.profile = q.profile, NEW r \in reading'
               PROVE  /\ Accounted(r)
                      /\ DocumentBlocks(r.doc, r.ir, r.result, q, RulesOf(q.profile)) \subseteq blocks'
    BY <1>1, <2>1 DEF CoverInv, InterpretEvidence, Accounted, Unended, LineRead, Understood
  <2>2. /\ KnownProfile(resolution.profile, profiles)
        /\ \A m \in profiles : \A p \in ProfileRegistry : m.profile # p.profile
    BY <1>1 DEF IInv, StagesInv, NamesInv, InterpretEvidence
  <2>3. Profile = q
    BY <2>2, ManifestOfName DEF Profile
  <2>4. PICK d \in Selected(q.types) : r = ReadDocument(d, q) /\ ~r.ir.refused
    BY <1>1, <2>3 DEF InterpretEvidence
  <2>5. d \in Range(snapshot.artifacts) /\ d.type \in q.types
    BY <2>4 DEF Selected
  <2>6. IsText(d.lines) /\ (d.shape = "cli" \/ d.type = "structured_export")
    BY <2>5, SnapshotsAssumption DEF IInv, SnapshotInv
  <2> DEFINE pack == ActiveMappings(q.profile)
  <2>7. r = [doc |-> d, ir |-> Read(q.reader, d), result |-> Interpret(d, Read(q.reader, d), pack)]
    BY <2>4 DEF ReadDocument
  <2>8. Accounted(r)
    <3> HIDE DEF pack
    <3> QED BY <2>4, <2>5, <2>6, <2>7, DocumentsAccounted
  <2>9. DocumentBlocks(r.doc, r.ir, r.result, q, RulesOf(q.profile)) \subseteq blocks'
    BY <1>1, <2>3 DEF InterpretEvidence
  <2> QED BY <2>8, <2>9
<1>2. CASE Identify
  <2>1. phase = "identifying" /\ reading' = reading
    BY <1>2 DEF Identify
  <2>2. reading' = {}
    BY <2>1 DEF CoverInv, Unread
  <2> QED BY <2>2 DEF CoverInv
<1>3. CASE /\ UNCHANGED <<resolution, reading, blocks>>
           /\ Unread' => Unread
  BY <1>3 DEF CoverInv, Accounted, Unended, LineRead, Understood
<1>4. Pin \/ ResolveStates \/ Evaluate \/ Publish \/ UNCHANGED vars
        => /\ UNCHANGED <<resolution, reading, blocks>>
           /\ Unread' => Unread
  BY DEF Pin, ResolveStates, Evaluate, Publish, PublishProfile, PublishMapping, PublishRule, PublishCatalog,
         ImportCatalog, vars, audit, Unread
<1> QED BY <1>1, <1>2, <1>3, <1>4 DEF Next

\* A rule that passes at the end of the audit passes under the sealed profile and rules.
LEMMA PassedRule ==
  ASSUME NamesInv, StagesInv, Evaluate, NEW f \in findings', f.verdict = "pass"
  PROVE  /\ Profile \in ProfileRegistry /\ resolution.profile = Profile.profile
         /\ \E k \in DOMAIN RulesOf(Profile.profile) :
              /\ f.field = RulesOf(Profile.profile)[k].field
              /\ BlockersOf(RulesOf(Profile.profile)[k], blocks) = {}
<1> DEFINE pack == PinnedRules(Profile)
<1>1. f \in EvaluateCompliance(resolution, pack, states, blocks, DefaultPolicy)
  BY DEF Evaluate
<1>2. /\ resolution.profile = pack.profile
      /\ \E k \in DOMAIN pack.rules : f.field = pack.rules[k].field /\ BlockersOf(pack.rules[k], blocks) = {}
  <2> HIDE DEF pack
  <2> QED BY <1>1, PassIsUnblocked
<1>3. KnownProfile(resolution.profile, profiles)
  BY DEF StagesInv, Evaluate
<1>4. Profile \in ProfileRegistry /\ pack.rules = RulesOf(Profile.profile)
  BY <1>2, <1>3, PinnedRulesAreSealed
<1>5. resolution.profile = Profile.profile
  BY <1>3, ManifestOfName DEF Profile, NamesInv
<1> QED BY <1>2, <1>4, <1>5

\* An unresolved node keeps every rule from passing that it may be about.
LEMMA UnresolvedBlocksRule ==
  ASSUME CoverInv, NEW q \in ProfileRegistry, resolution.profile = q.profile, NEW r \in reading,
         NEW k \in DOMAIN RulesOf(q.profile), BlockersOf(RulesOf(q.profile)[k], blocks) = {},
         NEW n \in r.result.unresolved, ~(r.doc.shape = "cli" /\ IdentityOnly(q, r.ir.nodes[n]))
  PROVE  LET doubted == {d[2] : d \in {e \in r.result.doubts : e[1] = n}} IN
         /\ doubted # {} /\ RulesOf(q.profile)[k].field \notin doubted
         /\ ~(/\ r.doc.shape \notin {"xml", "json"}
              /\ r.ir.nodes[n].kind = "opaque" /\ r.ir.nodes[n].status # "opaque")
<1> DEFINE pack == RulesOf(q.profile)
           block == BlockOf(r.doc, r.ir, r.result, n, q, pack)
<1>1. block \in DocumentBlocks(r.doc, r.ir, r.result, q, pack)
  <2>1. r.doc.shape \in {"cli", "xml", "json"}
    BY DEF CoverInv, Accounted
  <2> HIDE DEF pack
  <2> QED BY <2>1 DEF DocumentBlocks
<1>2. block \in blocks
  BY <1>1 DEF CoverInv
<1>3. pack[k].id \notin block.rules
  BY <1>2 DEF BlockersOf
<1> HIDE DEF pack
<1> QED BY <1>3, BlockKeepsRules DEF pack

\* What is unresolved by then is not about the rules that pass.
LEMMA PassCovers ==
  ASSUME NamesInv, StagesInv, CoverInv, Evaluate
  PROVE  PassCoversEvidence'
<1> SUFFICES ASSUME NEW f \in findings', f.verdict = "pass", NEW r \in reading
             PROVE  /\ \A i \in DOMAIN r.doc.lines : LineRead(r, i)
                    /\ \A n \in DOMAIN r.ir.nodes :
                         LET doubted == {d[2] : d \in {e \in r.result.doubts : e[1] = n}} IN
                         \/ Understood(r, n)
                         \/ doubted # {} /\ f.field \notin doubted
                         \/ IF r.doc.shape = "cli"
                            THEN r.ir.nodes[n].kind = "comment" \/ IdentityOnly(Profile, r.ir.nodes[n])
                            ELSE n \notin TreeLeaves(r.doc, r.ir.nodes)
  BY DEF PassCoversEvidence, Passing, Evaluate, Profile, LineRead, Understood, published
<1> DEFINE q == Profile
           own == RulesOf(q.profile)
<1>1. q \in ProfileRegistry /\ resolution.profile = q.profile
  BY PassedRule
<1>2. PICK k \in DOMAIN own : f.field = own[k].field /\ BlockersOf(own[k], blocks) = {}
  BY PassedRule
<1>3. Accounted(r)
  BY <1>1 DEF CoverInv
<1>4. ASSUME NEW n \in r.result.unresolved, ~(r.doc.shape = "cli" /\ IdentityOnly(q, r.ir.nodes[n]))
      PROVE  LET doubted == {d[2] : d \in {e \in r.result.doubts : e[1] = n}} IN
             /\ doubted # {} /\ f.field \notin doubted
             /\ ~(/\ r.doc.shape \notin {"xml", "json"}
                  /\ r.ir.nodes[n].kind = "opaque" /\ r.ir.nodes[n].status # "opaque")
  <2> HIDE DEF q
  <2> QED BY <1>1, <1>2, <1>4, UnresolvedBlocksRule
<1>5. ~Unended(r)
  <2>1. SUFFICES ASSUME NEW n \in DOMAIN r.ir.nodes, r.doc.shape = "cli", n \in r.result.unresolved,
                        r.ir.nodes[n].kind = "opaque", r.ir.nodes[n].status # "opaque"
                 PROVE  FALSE
    BY DEF Unended
  <2>2. ~IdentityOnly(q, r.ir.nodes[n])
    BY <2>1 DEF IdentityOnly
  <2> QED BY <1>4, <2>1, <2>2
<1>6. \A i \in DOMAIN r.doc.lines : LineRead(r, i)
  BY <1>3, <1>5 DEF Accounted
<1> HIDE DEF q
<1>7. ASSUME NEW n \in DOMAIN r.ir.nodes
      PROVE  LET doubted == {d[2] : d \in {e \in r.result.doubts : e[1] = n}} IN
             \/ Understood(r, n)
             \/ doubted # {} /\ f.field \notin doubted
             \/ IF r.doc.shape = "cli"
                THEN r.ir.nodes[n].kind = "comment" \/ IdentityOnly(q, r.ir.nodes[n])
                ELSE n \notin TreeLeaves(r.doc, r.ir.nodes)
  BY <1>3, <1>4 DEF Accounted
<1> QED BY <1>6, <1>7 DEF q

\* A rule passes only when every line of every document has been read and every node
\* that could state something was understood, states identity alone, or is doubted
\* about other fields (interpretation/service.py).
THEOREM EvidenceIsCovered == Spec => []PassCoversEvidence
<1>1. Init => CoverInv /\ PassCoversEvidence
  BY DEF Init, CoverInv, PassCoversEvidence, Passing
<1>2. IInv /\ CoverInv /\ PassCoversEvidence /\ [Next]_vars => PassCoversEvidence'
  <2> SUFFICES ASSUME IInv, CoverInv, PassCoversEvidence, [Next]_vars PROVE PassCoversEvidence'
    OBVIOUS
  <2>1. CASE Evaluate
    BY <2>1, PassCovers DEF IInv
  <2>2. CASE Identify \/ Pin \/ InterpretEvidence \/ ResolveStates \/ Publish
    <3>1. phase # "done" /\ findings' = findings
      BY <2>2 DEF Identify, Pin, InterpretEvidence, ResolveStates, Publish, PublishProfile, PublishMapping,
                  PublishRule, PublishCatalog, ImportCatalog, Running, audit
    <3>2. findings' = {}
      BY <3>1 DEF IInv, StagesInv
    <3> QED BY <3>2 DEF PassCoversEvidence, Passing
  <2>3. CASE UNCHANGED vars
    BY <2>3 DEF vars, audit, published, PassCoversEvidence, Passing, LineRead, Understood, Profile
  <2> QED BY <2>1, <2>2, <2>3 DEF Next
<1> QED BY <1>1, <1>2, CoverStep, AuditContentInvariantHolds, PTL DEF Spec

----------------------------------------------------------------------------
(* Facts stand in the blocks that they name.                               *)

\* Nothing but a statement whose form was understood gives a fact (interpret_structural_ir).
LEMMA FactsNeedParsing ==
  ASSUME NEW m, NEW nodes, NEW node, Reading(m, nodes, node).verdict = "fact"
  PROVE  node.status = "parsed"
<1>1. Nothing("doubt").verdict = "doubt" /\ Nothing("raised").verdict = "raised"
      /\ Nothing("silent").verdict = "silent"
  BY DEF Nothing, Outcome, Scoped
<1>2. ReadNegated(m, nodes, node).verdict = "fact" => node.status = "parsed"
  BY <1>1 DEF ReadNegated
<1>3. ReadPositive(m, nodes, node).verdict = "fact" => node.status = "parsed"
  BY <1>1 DEF ReadPositive
<1> QED BY <1>2, <1>3 DEF Reading

\* The first and the last of two lines.
LEMMA TwoLines ==
  ASSUME NEW a \in Nat, NEW b \in Nat, a < b
  PROVE  Min({a, b}) = a /\ Max({a, b}) = b
<1>1. Min({a, b}) \in {a, b} /\ \A x \in {a, b} : Min({a, b}) <= x
  BY DEF Min
<1>2. Max({a, b}) \in {a, b} /\ \A x \in {a, b} : x <= Max({a, b})
  BY DEF Max
<1> QED BY <1>1, <1>2

\* A fact of two lines is that of a parsed statement, with the line of its parent.
LEMMA FactOfTwoLines ==
  ASSUME NEW doc, NEW ir, NEW pack, NEW count \in Nat, WellFormed(ir.nodes, count),
         NEW f \in Interpret(doc, ir, pack).facts, Cardinality(f.lines) = 2
  PROVE  \E n \in DOMAIN ir.nodes :
           /\ ir.nodes[n].kind = "statement" /\ ir.nodes[n].status = "parsed" /\ ir.nodes[n].context # {}
           /\ Min(f.lines) = ir.nodes[Max(ir.nodes[n].context)].first
           /\ Max(f.lines) = ir.nodes[n].first
<1> DEFINE nodes == ir.nodes
<1>1. \A x : f.lines # {x}
  <2> SUFFICES ASSUME NEW x, f.lines = {x} PROVE FALSE
    OBVIOUS
  <2>1. Cardinality({x}) = 1
    BY FS_Singleton
  <2> QED BY <2>1
<1>2. f \in InterpretStructural(doc, ir, pack).facts
  <2>1. SUFFICES ASSUME f \in InterpretTree(doc, ir, pack).facts PROVE FALSE
    BY DEF Interpret
  <2> DEFINE plain == [negated |-> FALSE]
             FactOf(c) == Fact(doc.name, plain, {c[1]}, pack[c[2]].field, Device,
                               <<"assign", TreeOutcome(pack[c[2]], nodes, c[1])>>)
  <2>2. \E C : InterpretTree(doc, ir, pack).facts = {FactOf(c) : c \in C}
    BY DEF InterpretTree
  <2>3. \A c : FactOf(c).lines = {c[1]}
    BY DEF Fact
  <2> HIDE DEF FactOf, nodes
  <2>4. \E c : f = FactOf(c)
    BY <2>1, <2>2
  <2> QED BY <1>1, <2>3, <2>4
<1> DEFINE OutOf(c) == Reading(pack[c[2]], nodes, nodes[c[1]])
           LinesOf(c) == {nodes[c[1]].first} \cup (IF OutOf(c).context = 0 THEN {} ELSE {nodes[OutOf(c).context].first})
<1>3. PICK c \in (DOMAIN nodes) \X (DOMAIN pack) :
        nodes[c[1]].kind = "statement" /\ OutOf(c).verdict = "fact" /\ f.lines = LinesOf(c)
  <2> DEFINE considered == {c \in (DOMAIN nodes) \X (DOMAIN pack) :
                              nodes[c[1]].kind = "statement" /\ About(pack[c[2]], nodes, nodes[c[1]])}
             ReadingOf(c) == [node |-> c[1], field |-> pack[c[2]].field,
                              out |-> Reading(pack[c[2]], nodes, nodes[c[1]])]
             readings == {ReadingOf(c) : c \in considered}
             Lines(r) == {nodes[r.node].first} \cup (IF r.out.context = 0 THEN {} ELSE {nodes[r.out.context].first})
             Of(r) == Fact(doc.name, nodes[r.node], Lines(r), r.field, r.out.scope, r.out.says)
  <2>1. InterpretStructural(doc, ir, pack).facts = {Of(r) : r \in {q \in readings : q.out.verdict = "fact"}}
    BY DEF InterpretStructural
  <2> HIDE DEF Of
  <2>2. PICK r \in readings : r.out.verdict = "fact" /\ f = Of(r)
    BY <1>2, <2>1
  <2>3. PICK c \in considered : r = ReadingOf(c)
    OBVIOUS
  <2>4. r.node = c[1] /\ r.out = OutOf(c)
    BY <2>3
  <2>5. f.lines = LinesOf(c)
    <3>1. f.lines = Lines(r)
      BY <2>2 DEF Of, Fact
    <3> QED BY <2>4, <3>1
  <2>6. c \in (DOMAIN nodes) \X (DOMAIN pack) /\ nodes[c[1]].kind = "statement"
    OBVIOUS
  <2> HIDE DEF considered, LinesOf, OutOf
  <2> QED BY <2>2, <2>4, <2>5, <2>6
<1> DEFINE n == c[1]
           out == OutOf(c)
           p == ParentOf(nodes[n])
<1>4. n \in DOMAIN nodes /\ nodes[n].kind = "statement" /\ out.verdict = "fact"
  BY <1>3
<1>5. f.lines = {nodes[n].first} \cup (IF out.context = 0 THEN {} ELSE {nodes[out.context].first})
  BY <1>3
<1>6. nodes[n].status = "parsed" /\ out.context \in {0, p}
  BY <1>4, FactsNeedParsing, ReadWithItsParent
<1> HIDE DEF nodes, n, out
<1>7. out.context # 0 /\ out.context = p
  BY <1>1, <1>5, <1>6
<1>8. p \in DOMAIN nodes /\ nodes[p].first < nodes[n].first
  BY <1>4, <1>7, ParentComesBefore DEF nodes
<1>9. nodes[p].first \in Nat /\ nodes[n].first \in Nat
  BY <1>4, <1>8 DEF WellFormed, nodes
<1>10. Min(f.lines) = nodes[p].first /\ Max(f.lines) = nodes[n].first
  <2> DEFINE a == nodes[p].first
             b == nodes[n].first
  <2>1. f.lines = {b} \cup {a}
    BY <1>5, <1>7
  <2>2. a \in Nat /\ b \in Nat /\ a < b
    BY <1>8, <1>9
  <2> HIDE DEF a, b
  <2>3. f.lines = {a, b}
    BY <2>1
  <2>4. Min({a, b}) = a /\ Max({a, b}) = b
    BY <2>2, TwoLines
  <2> QED BY <2>3, <2>4 DEF a, b
<1>11. nodes[n].context # {} /\ p = Max(nodes[n].context)
  BY <1>7 DEF ParentOf
<1> QED BY <1>4, <1>6, <1>10, <1>11 DEF nodes

\* So a fact that names its block stands in it.
LEMMA FactStandsInBlock ==
  ASSUME NEW doc, IsText(doc.lines), NEW pack, NEW f \in Interpret(doc, ReadIndented(doc), pack).facts,
         Cardinality(f.lines) = 2
  PROVE  StandsIn(doc.lines, ReadIndented(doc).nodes, Min(f.lines), Max(f.lines))
<1> DEFINE ir == ReadIndented(doc)
           nodes == ir.nodes
           count == Len(doc.lines)
<1>1. count \in Nat
  BY TextLength
<1>2. WellFormed(ir.nodes, count)
  BY IndentedIsRead
<1>3. PICK n \in DOMAIN ir.nodes :
        /\ ir.nodes[n].kind = "statement" /\ ir.nodes[n].status = "parsed" /\ ir.nodes[n].context # {}
        /\ Min(f.lines) = ir.nodes[Max(ir.nodes[n].context)].first
        /\ Max(f.lines) = ir.nodes[n].first
  <2>1. f \in Interpret(doc, ir, pack).facts
    OBVIOUS
  <2> HIDE DEF ir, count
  <2> QED BY <1>1, <1>2, <2>1, FactOfTwoLines
<1>4. StandsIn(doc.lines, nodes, nodes[Max(nodes[n].context)].first, nodes[n].first)
  BY <1>3, StatementStandsInBlock
<1> QED BY <1>3, <1>4

\* Publications leave the profile of the audit what it is, for nothing is published
\* under its name (publish_runtime_profile).
LEMMA ProfileStays ==
  ASSUME KnownProfile(resolution.profile, profiles), Publish
  PROVE  Profile' = Profile
<1>1. resolution' = resolution
  BY DEF Publish, PublishProfile, PublishMapping, PublishRule, PublishCatalog, ImportCatalog, audit
<1>2. CASE profiles' = profiles
  BY <1>1, <1>2 DEF Profile
<1>3. CASE \E m \in snapshot.drafts.profiles : PublishProfile(m)
  <2>1. PICK m : PublishProfile(m)
    BY <1>3
  <2>2. profiles' = profiles \cup {m} /\ m.profile # resolution.profile
    BY <2>1 DEF PublishProfile, Publishable, KnownProfile
  <2>3. {x \in profiles' \cup ProfileRegistry : x.profile = resolution.profile}
          = {x \in profiles \cup ProfileRegistry : x.profile = resolution.profile}
    BY <2>2
  <2> QED BY <1>1, <2>3 DEF Profile, ProfileFor
<1> QED BY <1>2, <1>3 DEF Publish, PublishMapping, PublishRule, PublishCatalog, ImportCatalog

\* What is read under the profile of the audit stays read, and nothing else is.
LEMMA ScopeStep ==
  IInv /\ CoverInv /\ ScopeIsEnclosingBlock /\ [Next]_vars => ScopeIsEnclosingBlock'
<1> SUFFICES ASSUME IInv, CoverInv, ScopeIsEnclosingBlock, [Next]_vars PROVE ScopeIsEnclosingBlock'
  OBVIOUS
<1>1. CASE InterpretEvidence
  <2>1. Profile' = Profile
    BY <1>1 DEF InterpretEvidence, Profile, published
  <2> SUFFICES ASSUME NEW r \in reading', Profile.reader = "indentation_cli",
                      NEW f \in r.result.facts, Cardinality(f.lines) = 2
               PROVE  StandsIn(r.doc.lines, r.ir.nodes, Min(f.lines), Max(f.lines))
    BY <2>1 DEF ScopeIsEnclosingBlock, StandsIn
  <2>2. PICK d \in Selected(Profile.types) : r = ReadDocument(d, Profile)
    BY <1>1 DEF InterpretEvidence
  <2>3. d \in Range(snapshot.artifacts)
    BY <2>2 DEF Selected
  <2>4. IsText(d.lines)
    BY <2>3, SnapshotsAssumption DEF IInv, SnapshotInv
  <2> DEFINE pack == ActiveMappings(Profile.profile)
  <2>5. r = [doc |-> d, ir |-> ReadIndented(d), result |-> Interpret(d, ReadIndented(d), pack)]
    BY <2>2 DEF ReadDocument, Read
  <2>6. r.doc = d /\ r.ir = ReadIndented(d) /\ f \in Interpret(d, ReadIndented(d), pack).facts
    BY <2>5
  <2> HIDE DEF pack
  <2> QED BY <2>4, <2>6, FactStandsInBlock
<1>2. CASE Identify
  <2>1. reading' = {}
    BY <1>2 DEF CoverInv, Unread, Identify
  <2> QED BY <2>1 DEF ScopeIsEnclosingBlock
<1>3. CASE UNCHANGED reading /\ Profile' = Profile
  BY <1>3 DEF ScopeIsEnclosingBlock
<1>4. Pin \/ ResolveStates \/ Evaluate \/ UNCHANGED vars => UNCHANGED reading /\ Profile' = Profile
  BY DEF Pin, ResolveStates, Evaluate, vars, audit, published, Profile
<1>5. CASE Publish
  <2>1. UNCHANGED <<phase, reading>> /\ phase # "failed"
    BY <1>5
       DEF Publish, PublishProfile, PublishMapping, PublishRule, PublishCatalog, ImportCatalog, audit,
           Running
  <2>2. CASE phase = "identifying"
    <3>1. reading' = {}
      BY <2>1, <2>2 DEF CoverInv, Unread
    <3> QED BY <3>1 DEF ScopeIsEnclosingBlock
  <2>3. CASE phase # "identifying"
    <3>1. KnownProfile(resolution.profile, profiles)
      BY <2>1, <2>3 DEF IInv, StagesInv
    <3> QED BY <1>3, <1>5, <2>1, <3>1, ProfileStays
  <2> QED BY <2>2, <2>3
<1> QED BY <1>1, <1>2, <1>3, <1>4, <1>5 DEF Next

\* A fact of an indented configuration that names the block it is in stands in that
\* block, whatever the depths of the lines, the banners and the comments between them
\* (add_node, parsing/readers/indentation_cli.py).
THEOREM ScopesAreEnclosingBlocks == Spec => []ScopeIsEnclosingBlock
<1>1. Init => CoverInv /\ ScopeIsEnclosingBlock
  BY DEF Init, CoverInv, ScopeIsEnclosingBlock
<1> QED BY <1>1, ScopeStep, CoverStep, AuditContentInvariantHolds, PTL DEF Spec

----------------------------------------------------------------------------
(* Identification looks for the end of a banner in the text of the lines,  *)
(* the parser in their words.                                              *)

\* A text of several parts is put together part by part.
LEMMA FlattenSteps ==
  ASSUME NEW seqs, Len(seqs) \in Nat \ {0}
  PROVE  \E f : /\ FlattenSeq(seqs) = f[Len(seqs)] /\ f[1] = seqs[1]
                /\ \A i \in 2 .. Len(seqs) : f[i] = f[i - 1] \o seqs[i]
<1> DEFINE Joined(s, t) == s \o t
           Def(f, n) == f = [i \in 1 .. n |-> IF i = 1 THEN seqs[i] ELSE Joined(f[i - 1], seqs[i])]
           bad == {n \in Nat \ {0} : ~\E f : Def(f, n)}
           g == CHOOSE f : Def(f, Len(seqs))
<1>3. FlattenSeq(seqs) = g[Len(seqs)]
  BY DEF FlattenSeq
<1>5. SUFFICES /\ g[1] = seqs[1]
               /\ \A i \in 2 .. Len(seqs) : g[i] = Joined(g[i - 1], seqs[i])
  <2> HIDE DEF g
  <2> QED BY <1>3
<1> HIDE DEF Joined
<1>1. ASSUME bad # {} PROVE FALSE
  <2>1. PICK n \in bad : \A x \in bad : n <= x
    <3>1. bad \subseteq Nat
      OBVIOUS
    <3> HIDE DEF bad
    <3> QED BY <1>1, <3>1, SmallestExists
  <2>2. n # 1
    <3>1. Def([i \in 1 .. 1 |-> seqs[i]], 1)
      OBVIOUS
    <3> HIDE DEF Def
    <3> QED BY <2>1, <3>1
  <2>3. n - 1 \in Nat \ {0} /\ ~(n <= n - 1)
    BY <2>1, <2>2
  <2>4. PICK f : Def(f, n - 1)
    BY <2>1, <2>3
  <2> DEFINE h == [i \in 1 .. n |-> IF i = n THEN Joined(f[n - 1], seqs[n]) ELSE f[i]]
  <2>5. Def(h, n)
    <3>1. \A i \in 1 .. n : h[i] = IF i = 1 THEN seqs[i] ELSE Joined(h[i - 1], seqs[i])
      BY <2>2, <2>3, <2>4
    <3>2. h = [i \in 1 .. n |-> h[i]]
      OBVIOUS
    <3> HIDE DEF h
    <3> QED BY <3>1, <3>2
  <2> HIDE DEF Def, h
  <2> QED BY <2>1, <2>5
<1>2. \E f : Def(f, Len(seqs))
  BY <1>1
<1>4. Def(g, Len(seqs))
  <2> HIDE DEF Def
  <2> QED BY <1>2
<1> HIDE DEF g
<1> QED BY <1>4

\* The delimiter stands in the text: not at all, once, or more often.
Free(s, d) == d \notin ToSet(s)
Once(s, d) == \E a \in DOMAIN s : \A k \in DOMAIN s : s[k] = d <=> k = a
Twice(s, d) == \E a, b \in DOMAIN s : a # b /\ s[a] = d /\ s[b] = d

\* So it stands in two texts one after the other.
LEMMA Concatenated ==
  ASSUME NEW S, NEW s \in Seq(S), NEW t \in Seq(S), NEW d
  PROVE  /\ s \o t \in Seq(S)
         /\ s # <<>> => s \o t # <<>> /\ (s \o t)[1] = s[1]
         /\ Free(s, d) /\ Free(t, d) => Free(s \o t, d)
         /\ ~Free(s, d) \/ ~Free(t, d) => ~Free(s \o t, d)
         /\ Once(s, d) /\ Free(t, d) => Once(s \o t, d)
         /\ Free(s, d) /\ Once(t, d) => Once(s \o t, d)
         /\ Twice(s, d) => Twice(s \o t, d)
         /\ Once(s, d) /\ ~Free(t, d) => Twice(s \o t, d)
<1> DEFINE u == s \o t
<1>1. /\ Len(s) \in Nat /\ Len(t) \in Nat /\ DOMAIN s = 1 .. Len(s) /\ DOMAIN t = 1 .. Len(t)
      /\ u \in Seq(S) /\ DOMAIN u = 1 .. Len(s) + Len(t)
      /\ \A k \in DOMAIN s : k \in DOMAIN u /\ u[k] = s[k]
      /\ \A k \in DOMAIN t : Len(s) + k \in DOMAIN u /\ u[Len(s) + k] = t[k]
  OBVIOUS
<1> HIDE DEF u
<1>2. \A k \in DOMAIN u : \/ k \in DOMAIN s /\ u[k] = s[k]
                          \/ k - Len(s) \in DOMAIN t /\ u[k] = t[k - Len(s)] /\ k \notin DOMAIN s
  <2> SUFFICES ASSUME NEW k \in DOMAIN u, k \notin DOMAIN s
               PROVE  k - Len(s) \in DOMAIN t /\ u[k] = t[k - Len(s)]
    BY <1>1
  <2>1. k - Len(s) \in DOMAIN t /\ Len(s) + (k - Len(s)) = k
    BY <1>1
  <2> QED BY <1>1, <2>1
<1>3. s # <<>> => u # <<>> /\ u[1] = s[1]
  BY <1>1
<1>4. Free(s, d) /\ Free(t, d) => Free(u, d)
  BY <1>2 DEF Free, ToSet
<1>5. ~Free(s, d) \/ ~Free(t, d) => ~Free(u, d)
  BY <1>1 DEF Free, ToSet
<1>6. Once(s, d) /\ Free(t, d) => Once(u, d)
  <2> SUFFICES ASSUME Free(t, d), NEW a \in DOMAIN s, \A k \in DOMAIN s : s[k] = d <=> k = a
               PROVE  a \in DOMAIN u /\ \A k \in DOMAIN u : u[k] = d <=> k = a
    BY DEF Once
  <2>1. \A k \in DOMAIN t : t[k] # d
    BY DEF Free, ToSet
  <2> QED BY <1>1, <1>2, <2>1
<1>7. Free(s, d) /\ Once(t, d) => Once(u, d)
  <2> SUFFICES ASSUME Free(s, d), NEW a \in DOMAIN t, \A k \in DOMAIN t : t[k] = d <=> k = a
               PROVE  \A k \in DOMAIN u : u[k] = d <=> k = Len(s) + a
    BY <1>1 DEF Once
  <2> TAKE k \in DOMAIN u
  <2>1. CASE k \in DOMAIN s
    BY <1>1, <2>1 DEF Free, ToSet
  <2>2. CASE k \notin DOMAIN s
    <3>1. k - Len(s) \in DOMAIN t /\ u[k] = t[k - Len(s)]
      BY <1>2, <2>2
    <3>2. k - Len(s) = a <=> k = Len(s) + a
      BY <1>1, <2>2
    <3> QED BY <3>1, <3>2
  <2> QED BY <2>1, <2>2
<1>8. Twice(s, d) => Twice(u, d)
  BY <1>1 DEF Twice
<1>9. Once(s, d) /\ ~Free(t, d) => Twice(u, d)
  <2> SUFFICES ASSUME NEW a \in DOMAIN s, s[a] = d, NEW c \in DOMAIN t, t[c] = d PROVE Twice(u, d)
    BY DEF Once, Free, ToSet
  <2>1. a # Len(s) + c
    BY <1>1
  <2> QED BY <1>1, <2>1 DEF Twice
<1> QED BY <1>1, <1>3, <1>4, <1>5, <1>6, <1>7, <1>8, <1>9 DEF u

\* Where the delimiter stands in a text of several parts, of which it fills one.
LEMMA Flattened ==
  ASSUME NEW seqs, Len(seqs) \in Nat \ {0}, NEW S, \A k \in 1 .. Len(seqs) : seqs[k] \in Seq(S), NEW d,
         NEW a \in Nat
  PROVE  LET text == FlattenSeq(seqs)
             n == Len(seqs)
         IN /\ text \in Seq(S)
            /\ seqs[1] # <<>> => text # <<>> /\ text[1] = seqs[1][1]
            /\ Free(text, d) <=> \A k \in 1 .. n : Free(seqs[k], d)
            /\ a \in 1 .. n /\ Once(seqs[a], d) /\ (\A k \in 1 .. a - 1 : Free(seqs[k], d))
                 => IF \A k \in a + 1 .. n : Free(seqs[k], d) THEN Once(text, d) ELSE Twice(text, d)
<1> DEFINE alone == Once(seqs[a], d) /\ (\A k \in 1 .. a - 1 : Free(seqs[k], d))
           Holds(text, n) ==
             /\ text \in Seq(S)
             /\ seqs[1] # <<>> => text # <<>> /\ text[1] = seqs[1][1]
             /\ Free(text, d) <=> \A k \in 1 .. n : Free(seqs[k], d)
             /\ a \in 1 .. n /\ alone =>
                  IF \A k \in a + 1 .. n : Free(seqs[k], d) THEN Once(text, d) ELSE Twice(text, d)
<1>1. PICK f : /\ FlattenSeq(seqs) = f[Len(seqs)] /\ f[1] = seqs[1]
               /\ \A i \in 2 .. Len(seqs) : f[i] = f[i - 1] \o seqs[i]
  BY FlattenSteps
<1> DEFINE bad == {n \in 1 .. Len(seqs) : ~Holds(f[n], n)}
<1>2. Holds(f[1], 1)
  <2>1. a \in 1 .. 1 => a = 1 /\ a + 1 .. 1 = {}
    OBVIOUS
  <2>2. seqs[1] \in Seq(S)
    OBVIOUS
  <2> QED BY <1>1, <2>1, <2>2
<1>3. ASSUME NEW n \in 2 .. Len(seqs), Holds(f[n - 1], n - 1)
      PROVE  Holds(f[n], n)
  <2> DEFINE s == f[n - 1]
             t == seqs[n]
             u == s \o t
  <2>1. f[n] = u /\ s \in Seq(S) /\ t \in Seq(S)
    <3>1. f[n] = u
      BY <1>1
    <3>2. s \in Seq(S)
      BY <1>3
    <3>3. t \in Seq(S)
      OBVIOUS
    <3> QED BY <3>1, <3>2, <3>3
  <2>2. /\ u \in Seq(S)
        /\ s # <<>> => u # <<>> /\ u[1] = s[1]
        /\ Free(s, d) /\ Free(t, d) => Free(u, d)
        /\ ~Free(s, d) \/ ~Free(t, d) => ~Free(u, d)
        /\ Once(s, d) /\ Free(t, d) => Once(u, d)
        /\ Free(s, d) /\ Once(t, d) => Once(u, d)
        /\ Twice(s, d) => Twice(u, d)
        /\ Once(s, d) /\ ~Free(t, d) => Twice(u, d)
    <3> HIDE DEF s, t
    <3> QED BY <2>1, Concatenated
  <2>3. \A k \in 1 .. n : k \in 1 .. n - 1 \/ k = n
    OBVIOUS
  <2>4. \A k \in 1 .. n - 1 : k \in 1 .. n
    OBVIOUS
  <2> HIDE DEF u, t
  <2>5. Free(u, d) <=> \A k \in 1 .. n : Free(seqs[k], d)
    BY <1>3, <2>2, <2>3, <2>4 DEF t
  <2>6. ASSUME a \in 1 .. n, alone
        PROVE  IF \A k \in a + 1 .. n : Free(seqs[k], d) THEN Once(u, d) ELSE Twice(u, d)
    <3>1. CASE a = n
      <4>1. Once(t, d) /\ \A k \in 1 .. n - 1 : Free(seqs[k], d)
        BY <2>6, <3>1 DEF t
      <4>2. Once(u, d)
        BY <1>3, <2>2, <4>1
      <4>3. a + 1 .. n = {}
        BY <3>1
      <4> QED BY <4>2, <4>3
    <3>2. CASE a \in 1 .. n - 1
      <4>1. IF \A k \in a + 1 .. n - 1 : Free(seqs[k], d) THEN Once(s, d) ELSE Twice(s, d)
        BY <1>3, <2>6, <3>2
      <4>2. \A k \in a + 1 .. n : k \in a + 1 .. n - 1 \/ k = n
        BY <3>2
      <4>3. n \in a + 1 .. n /\ a + 1 .. n - 1 \subseteq a + 1 .. n
        BY <3>2
      <4> HIDE DEF s, alone
      <4>4. CASE \A k \in a + 1 .. n : Free(seqs[k], d)
        BY <2>2, <4>1, <4>3, <4>4 DEF t
      <4>5. CASE ~\A k \in a + 1 .. n : Free(seqs[k], d)
        BY <2>2, <4>1, <4>2, <4>5 DEF t
      <4> QED BY <4>4, <4>5
    <3> QED BY <2>3, <2>6, <3>1, <3>2
  <2> QED BY <1>3, <2>1, <2>2, <2>5, <2>6
<1> HIDE DEF Holds
<1>4. ASSUME bad # {} PROVE FALSE
  <2>1. PICK n \in bad : \A x \in bad : n <= x
    <3>1. bad \subseteq Nat
      OBVIOUS
    <3> HIDE DEF bad
    <3> QED BY <1>4, <3>1, SmallestExists
  <2>2. n # 1
    BY <1>2, <2>1
  <2>3. n \in 2 .. Len(seqs) /\ n - 1 \in 1 .. Len(seqs) /\ n - 1 \notin bad
    BY <2>1, <2>2
  <2>4. Holds(f[n], n)
    BY <1>3, <2>3
  <2> QED BY <2>1, <2>4
<1>5. Holds(FlattenSeq(seqs), Len(seqs))
  BY <1>1, <1>4
<1> QED BY <1>5 DEF Holds

\* How often a delimiter of one part occurs.
LEMMA Counted ==
  ASSUME NEW S, NEW text \in Seq(S), NEW d
  PROVE  /\ Free(text, d) => Occurrences(<<d>>, text) = 0
         /\ ~Free(text, d) => Occurrences(<<d>>, text) > 0
         /\ Once(text, d) => Occurrences(<<d>>, text) < 2
         /\ Twice(text, d) => ~(Occurrences(<<d>>, text) < 2)
<1> DEFINE places == {k \in DOMAIN text : text[k] = d}
<1>1. Len(text) \in Nat /\ DOMAIN text = 1 .. Len(text) /\ Len(<<d>>) = 1
  OBVIOUS
<1>2. \A k \in 1 .. Len(text) : SubSeq(text, k, k) = <<d>> <=> text[k] = d
  <2> SUFFICES ASSUME NEW k \in 1 .. Len(text) PROVE SubSeq(text, k, k) = <<d>> <=> text[k] = d
    OBVIOUS
  <2>1. SubSeq(text, k, k) = <<text[k]>>
    <3>1. k \in Nat /\ k - k + 1 = 1 /\ k <= Len(text) /\ 1 <= k
      BY <1>1
    <3>2. SubSeq(text, k, k) \in Seq(S) /\ Len(SubSeq(text, k, k)) = 1 /\ SubSeq(text, k, k)[1] = text[k]
      BY <1>1, <3>1
    <3> DEFINE part == SubSeq(text, k, k)
    <3> HIDE DEF part
    <3>3. part \in Seq(S) /\ Len(part) = 1 /\ part[1] = text[k] => part = <<text[k]>>
      OBVIOUS
    <3> QED BY <3>2, <3>3 DEF part
  <2> QED BY <2>1
<1>3. {k \in 1 .. Len(text) - Len(<<d>>) + 1 : SubSeq(text, k, k + Len(<<d>>) - 1) = <<d>>} = places
  <2>1. 1 .. Len(text) - Len(<<d>>) + 1 = DOMAIN text
    BY <1>1
  <2>2. \A k \in DOMAIN text : k + Len(<<d>>) - 1 = k
    BY <1>1
  <2> QED BY <1>1, <1>2, <2>1, <2>2
<1>4. Occurrences(<<d>>, text) = Cardinality(places)
  BY <1>3 DEF Occurrences
<1>5. IsFiniteSet(places) /\ Cardinality(places) \in Nat
  <2>1. IsFiniteSet(DOMAIN text)
    BY <1>1, FS_Interval
  <2>2. places \subseteq DOMAIN text
    OBVIOUS
  <2> HIDE DEF places
  <2> QED BY <2>1, <2>2, FS_Subset, FS_CardinalityType
<1>6. Free(text, d) => places = {}
  BY DEF Free, ToSet
<1>7. ~Free(text, d) => places # {}
  BY DEF Free, ToSet
<1>8. Once(text, d) => \E a : places = {a}
  <2> SUFFICES ASSUME NEW a \in DOMAIN text, \A k \in DOMAIN text : text[k] = d <=> k = a
               PROVE  places = {a}
    BY DEF Once
  <2> QED OBVIOUS
<1>9. Twice(text, d) => \E a, b : a # b /\ {a, b} \subseteq places
  BY DEF Twice
<1> HIDE DEF places
<1>10. \A a : Cardinality({a}) = 1
  BY FS_Singleton
<1>11. ASSUME NEW a, NEW b, a # b, {a, b} \subseteq places
       PROVE  ~(Cardinality(places) < 2)
  <2>1. IsFiniteSet({a}) /\ Cardinality({a}) = 1 /\ b \notin {a} /\ {a, b} = {a} \cup {b}
    BY <1>11, FS_Singleton
  <2>2. Cardinality({a, b}) = 2
    <3>1. Cardinality({a} \cup {b}) = Cardinality({a}) + 1
      BY <2>1, FS_AddElement
    <3> QED BY <2>1, <3>1
  <2>3. Cardinality({a, b}) <= Cardinality(places)
    <3>1. {a, b} \in SUBSET places
      BY <1>11
    <3> QED BY <1>5, <3>1, FS_Subset
  <2> QED BY <1>5, <2>2, <2>3
<1>12. Cardinality(places) = 0 <=> places = {}
  BY <1>5, FS_EmptySet
<1>13. Free(text, d) => Occurrences(<<d>>, text) = 0
  BY <1>4, <1>6, <1>12
<1>14. ~Free(text, d) => Occurrences(<<d>>, text) > 0
  <2>1. ~Free(text, d) => Cardinality(places) # 0
    BY <1>7, <1>12
  <2> QED BY <1>4, <1>5, <2>1
<1>15. Once(text, d) => Occurrences(<<d>>, text) < 2
  <2>1. Once(text, d) => Cardinality(places) = 1
    BY <1>8, <1>10
  <2> QED BY <1>4, <2>1
<1>16. Twice(text, d) => ~(Occurrences(<<d>>, text) < 2)
  BY <1>4, <1>9, <1>11
<1> QED BY <1>13, <1>14, <1>15, <1>16

\* A word is in the text of a line if it is part of one of its words.
LEMMA WordsInText ==
  ASSUME NEW words, words \in Seq(Range(words)), NEW d
  PROVE  /\ \E S : Text(words) \in Seq(S)
         /\ Free(Text(words), d) <=> \A k \in DOMAIN words : Free(PiecesOf(words[k]), d)
         /\ words = <<>> <=> Text(words) = <<>>
         /\ words # <<>> => Text(words)[1] = PiecesOf(words[1])[1]
<1> DEFINE seqs == [k \in DOMAIN words |-> PiecesOf(words[k])]
           S == UNION {Range(PiecesOf(words[k])) : k \in DOMAIN words}
           R == Range(words)
<1>1. Len(words) \in Nat /\ DOMAIN words = 1 .. Len(words)
  <2>1. words \in Seq(R)
    OBVIOUS
  <2> HIDE DEF R
  <2> QED BY <2>1, LenProperties
<1>2. Text(words) = FlattenSeq(seqs)
  BY DEF Text
<1>3. Len(seqs) = Len(words)
  <2>1. seqs \in [1 .. Len(words) -> Range(seqs)]
    BY <1>1 DEF Range
  <2> HIDE DEF seqs
  <2> QED BY <1>1, <2>1
<1>4. CASE words = <<>>
  <2>1. Len(seqs) = 0 /\ seqs = <<>> /\ DOMAIN words = {}
    BY <1>3, <1>4
  <2>2. Text(words) = <<>>
    BY <1>2, <2>1 DEF FlattenSeq
  <2>3. <<>> \in Seq({}) /\ Free(<<>>, d)
    BY DEF Free, ToSet
  <2> QED BY <1>4, <2>1, <2>2, <2>3
<1>5. CASE words # <<>>
  <2>1. Len(words) # 0 /\ 1 \in DOMAIN words
    <3>1. words \in Seq(R)
      OBVIOUS
    <3> HIDE DEF R
    <3> QED BY <1>1, <1>5, <3>1
  <2>2. \A k \in 1 .. Len(seqs) : seqs[k] \in Seq(S) /\ seqs[k] # <<>> /\ seqs[k] = PiecesOf(words[k])
    <3> SUFFICES ASSUME NEW k \in DOMAIN words
                 PROVE  PiecesOf(words[k]) \in Seq(S) /\ PiecesOf(words[k]) # <<>>
      BY <1>1, <1>3
    <3> DEFINE P == Range(PiecesOf(words[k]))
    <3>1. PiecesOf(words[k]) \in Seq(P) /\ PiecesOf(words[k]) # <<>>
      BY Parts
    <3>2. P \subseteq S
      OBVIOUS
    <3> HIDE DEF P, S
    <3> QED BY <3>1, <3>2, SeqMonotonic
  <2> HIDE DEF seqs, S
  <2>3. LET text == FlattenSeq(seqs) IN
        /\ text \in Seq(S)
        /\ seqs[1] # <<>> => text # <<>> /\ text[1] = seqs[1][1]
        /\ Free(text, d) <=> \A k \in 1 .. Len(seqs) : Free(seqs[k], d)
    <3>1. Len(seqs) \in Nat \ {0} /\ 0 \in Nat
      BY <1>1, <1>3, <2>1
    <3>2. \A k \in 1 .. Len(seqs) : seqs[k] \in Seq(S)
      BY <2>2
    <3> QED BY <3>1, <3>2, Flattened
  <2> QED BY <1>1, <1>2, <1>3, <1>5, <2>1, <2>2, <2>3
<1> QED BY <1>4, <1>5

\* On the line of a plain banner the delimiter occurs once, and again only if it is
\* closed there.
LEMMA PlainBannerLine ==
  ASSUME NEW words, words \in Seq(Range(words)), words # <<>>, IsBanner(words), PlainBanner(words)
  PROVE  LET d == BannerDelimiter(words) IN
         /\ PiecesOf(words[3]) = <<d>> /\ Len(words) >= 3
         /\ Text(words) # <<>> /\ Head(Text(words)) = "banner"
         /\ Occurrences(<<d>>, Text(words)) < 2 <=> d \notin ToSet(AfterDelimiter(words))
<1> DEFINE d == BannerDelimiter(words)
           seqs == [k \in DOMAIN words |-> PiecesOf(words[k])]
           rest == [k \in 1 .. Len(words) - 3 |-> PiecesOf(words[k + 3])]
           S == UNION {Range(PiecesOf(words[k])) : k \in DOMAIN words}
           R == Range(words)
           n == Len(words)
<1>1. n \in Nat /\ DOMAIN words = 1 .. n /\ n >= 3
  <2>1. words \in Seq(R)
    OBVIOUS
  <2>2. Len(words) >= 3
    BY DEF PlainBanner
  <2> HIDE DEF R
  <2> QED BY <2>1, <2>2, LenProperties
<1>2. words[1] = "banner"
  BY DEF IsBanner
<1>3. \A k \in 1 .. n : PiecesOf(words[k]) \in Seq(S) /\ PiecesOf(words[k]) # <<>>
  <2> SUFFICES ASSUME NEW k \in DOMAIN words PROVE PiecesOf(words[k]) \in Seq(S) /\ PiecesOf(words[k]) # <<>>
    BY <1>1
  <2> DEFINE P == Range(PiecesOf(words[k]))
  <2>1. PiecesOf(words[k]) \in Seq(P) /\ PiecesOf(words[k]) # <<>>
    BY Parts
  <2>2. P \subseteq S
    OBVIOUS
  <2> HIDE DEF P, S
  <2> QED BY <2>1, <2>2, SeqMonotonic
<1> HIDE DEF S
<1>4. PiecesOf(words[3]) = <<d>>
  <2>1. 3 \in 1 .. n /\ Len(PiecesOf(words[3])) = 1 /\ d = Head(PiecesOf(words[3]))
    BY <1>1 DEF PlainBanner, BannerDelimiter
  <2> DEFINE third == PiecesOf(words[3])
  <2>2. third \in Seq(S)
    BY <1>3, <2>1
  <2> HIDE DEF third, d
  <2>3. Len(third) = 1 /\ d = Head(third)
    BY <2>1 DEF third
  <2>4. third = <<d>>
    BY <2>2, <2>3
  <2> QED BY <2>4 DEF third
<1>5. Free(PiecesOf(words[1]), d) /\ Free(PiecesOf(words[2]), d)
  <2> DEFINE p == PiecesOf(words[1])
             q == PiecesOf(words[2])
  <2>1. p \in Seq(S) /\ q \in Seq(S)
    BY <1>1, <1>3
  <2>2. Free(p \o q, d)
    BY DEF PlainBanner, Free
  <2> HIDE DEF p, q, d
  <2>3. Free(p, d) /\ Free(q, d)
    BY <2>1, <2>2, Concatenated
  <2> QED BY <2>3 DEF p, q
<1>6. Once(PiecesOf(words[3]), d)
  <2> HIDE DEF d
  <2>1. DOMAIN <<d>> = {1} /\ <<d>>[1] = d
    OBVIOUS
  <2>2. Once(<<d>>, d)
    BY <2>1 DEF Once
  <2> QED BY <1>4, <2>2
<1>7. Len(seqs) = n /\ \A k \in 1 .. n : seqs[k] = PiecesOf(words[k])
  <2>1. seqs \in [1 .. n -> Range(seqs)] /\ \A k \in 1 .. n : seqs[k] = PiecesOf(words[k])
    BY <1>1 DEF Range
  <2> HIDE DEF seqs, n
  <2> QED BY <1>1, <2>1
<1>8. Len(rest) = n - 3 /\ \A k \in 1 .. n - 3 : rest[k] = PiecesOf(words[k + 3])
  <2>1. rest \in [1 .. n - 3 -> Range(rest)] /\ \A k \in 1 .. n - 3 : rest[k] = PiecesOf(words[k + 3])
    BY DEF Range
  <2> HIDE DEF rest, n
  <2> QED BY <1>1, <2>1
<1>9. d \notin ToSet(AfterDelimiter(words)) <=> \A k \in 4 .. n : Free(PiecesOf(words[k]), d)
  <2>1. AfterDelimiter(words) = Tail(PiecesOf(words[3])) \o FlattenSeq(rest)
    BY DEF AfterDelimiter
  <2>2. Tail(PiecesOf(words[3])) = <<>>
    <3> HIDE DEF d
    <3> QED BY <1>4
  <2> HIDE DEF d, rest
  <2>3. CASE n = 3
    <3>1. Len(rest) = 0 /\ DOMAIN rest = {}
      BY <1>1, <1>8, <2>3 DEF rest
    <3>2. FlattenSeq(rest) = rest /\ rest = <<>>
      BY <3>1 DEF FlattenSeq, rest
    <3>3. AfterDelimiter(words) = <<>>
      BY <2>1, <2>2, <3>2
    <3> QED BY <2>3, <3>3 DEF ToSet
  <2>4. CASE n # 3
    <3>1. Len(rest) \in Nat \ {0}
      BY <1>1, <1>8, <2>4
    <3>2. \A k \in 1 .. Len(rest) : rest[k] \in Seq(S)
      BY <1>1, <1>3, <1>8
    <3>3. FlattenSeq(rest) \in Seq(S) /\ (Free(FlattenSeq(rest), d) <=> \A k \in 1 .. Len(rest) : Free(rest[k], d))
      BY <3>1, <3>2, Flattened
    <3>4. AfterDelimiter(words) = FlattenSeq(rest)
      <4> DEFINE text == FlattenSeq(rest)
                 third == Tail(PiecesOf(words[3]))
      <4>1. AfterDelimiter(words) = third \o text /\ third = <<>> /\ text \in Seq(S)
        BY <2>1, <2>2, <3>3
      <4> HIDE DEF text, third
      <4>2. <<>> \o text = text
        BY <4>1
      <4>3. AfterDelimiter(words) = text
        BY <4>1, <4>2
      <4> QED BY <4>3 DEF text
    <3>5. (\A k \in 1 .. n - 3 : Free(PiecesOf(words[k + 3]), d)) <=> \A k \in 4 .. n : Free(PiecesOf(words[k]), d)
      <4>1. \A k \in 4 .. n : k - 3 \in 1 .. n - 3 /\ (k - 3) + 3 = k
        BY <1>1
      <4>2. \A k \in 1 .. n - 3 : k + 3 \in 4 .. n
        BY <1>1
      <4> QED BY <4>1, <4>2
    <3> QED BY <1>8, <3>3, <3>4, <3>5 DEF Free
  <2> QED BY <2>3, <2>4
<1>10. /\ Text(words) \in Seq(S) /\ Text(words) # <<>> /\ Text(words)[1] = PiecesOf(words[1])[1]
       /\ IF \A k \in 4 .. n : Free(PiecesOf(words[k]), d) THEN Once(Text(words), d) ELSE Twice(Text(words), d)
  <2>1. Text(words) = FlattenSeq(seqs)
    BY DEF Text
  <2> HIDE DEF d, seqs
  <2>2. Len(seqs) \in Nat \ {0} /\ \A k \in 1 .. Len(seqs) : seqs[k] \in Seq(S)
    BY <1>1, <1>3, <1>7
  <2>3. 3 \in 1 .. Len(seqs) /\ Once(seqs[3], d) /\ \A k \in 1 .. 3 - 1 : Free(seqs[k], d)
    <3>1. \A k \in 1 .. 3 - 1 : k = 1 \/ k = 2
      OBVIOUS
    <3> QED BY <1>1, <1>5, <1>6, <1>7, <3>1
  <2>4. LET text == FlattenSeq(seqs) IN
        /\ text \in Seq(S)
        /\ seqs[1] # <<>> => text # <<>> /\ text[1] = seqs[1][1]
        /\ 3 \in 1 .. Len(seqs) /\ Once(seqs[3], d) /\ (\A k \in 1 .. 3 - 1 : Free(seqs[k], d))
             => IF \A k \in 3 + 1 .. Len(seqs) : Free(seqs[k], d) THEN Once(text, d) ELSE Twice(text, d)
    BY <2>2, Flattened
  <2>5. seqs[1] = PiecesOf(words[1]) /\ seqs[1] # <<>>
    BY <1>1, <1>3, <1>7
  <2>6. (\A k \in 3 + 1 .. Len(seqs) : Free(seqs[k], d)) <=> \A k \in 4 .. n : Free(PiecesOf(words[k]), d)
    BY <1>1, <1>7
  <2> QED BY <2>1, <2>3, <2>4, <2>5, <2>6
<1>11. Head(Text(words)) = "banner"
  <2>1. PiecesOf(words[1]) = <<"banner">>
    BY <1>2, Parts
  <2> QED BY <1>10, <2>1
<1>12. Occurrences(<<d>>, Text(words)) < 2 <=> d \notin ToSet(AfterDelimiter(words))
  <2> HIDE DEF d
  <2> QED BY <1>9, <1>10, Counted
<1> QED BY <1>1, <1>4, <1>10, <1>11, <1>12

\* What a line does to the search for evidence: it is kept only outside of banners, which
\* it may begin and end.
AfterScan(e, acc, line) ==
  LET words == line.words
      starts == words # <<>> /\ IsBanner(words)
  IN /\ \/ e.kept = acc.kept
        \/ acc.delimiter = <<>> /\ ~starts /\ e.kept = Append(acc.kept, line)
     /\ \A d : acc.delimiter = <<d>> => e.delimiter = IF Free(Text(words), d) THEN <<d>> ELSE <<>>
     /\ acc.delimiter = <<>> =>
          e.delimiter = IF starts /\ BannerDelimiter(words) \notin ToSet(AfterDelimiter(words))
                        THEN <<BannerDelimiter(words)>> ELSE <<>>

IsScan(acc) == acc = [delimiter |-> acc.delimiter, kept |-> acc.kept]

\* So it is when banners are plain (_data_lines).
LEMMA ScanLine ==
  ASSUME NEW acc, IsScan(acc), NEW line, line.words \in Seq(Range(line.words)),
         line.words # <<>> /\ IsBanner(line.words) => PlainBanner(line.words)
  PROVE  IsScan(Scan(acc, line)) /\ AfterScan(Scan(acc, line), acc, line)
<1> DEFINE words == line.words
           e == Scan(acc, line)
           starts == words # <<>> /\ IsBanner(words)
           text == Text(words)
           banner == Len(words) >= 3 /\ Head(words) = "banner"
           delimiter == PiecesOf(words[3])
           closes == Occurrences(acc.delimiter, text) > 0
           skipped == text = <<>> \/ Head(text) \in {"!", "#", ";"}
           open == Occurrences(delimiter, text) < 2
<1>1. e = IF acc.delimiter # <<>> THEN IF closes THEN [acc EXCEPT !.delimiter = <<>>] ELSE acc
          ELSE IF skipped THEN acc
          ELSE IF banner THEN IF open THEN [acc EXCEPT !.delimiter = delimiter] ELSE acc
          ELSE [acc EXCEPT !.kept = Append(@, line)]
  BY DEF Scan
<1>2. text = <<>> <=> words = <<>>
  BY WordsInText
<1>3. starts => /\ banner /\ ~skipped /\ delimiter = <<BannerDelimiter(words)>>
                /\ open <=> BannerDelimiter(words) \notin ToSet(AfterDelimiter(words))
  <2> SUFFICES ASSUME starts
               PROVE  /\ banner /\ ~skipped /\ delimiter = <<BannerDelimiter(words)>>
                      /\ open <=> BannerDelimiter(words) \notin ToSet(AfterDelimiter(words))
    OBVIOUS
  <2>1. LET d == BannerDelimiter(words) IN
        /\ PiecesOf(words[3]) = <<d>> /\ Len(words) >= 3
        /\ Text(words) # <<>> /\ Head(Text(words)) = "banner"
        /\ Occurrences(<<d>>, Text(words)) < 2 <=> d \notin ToSet(AfterDelimiter(words))
    BY PlainBannerLine
  <2> QED BY <2>1 DEF IsBanner
<1>4. \A d : /\ Free(text, d) => ~(Occurrences(<<d>>, text) > 0)
             /\ ~Free(text, d) => Occurrences(<<d>>, text) > 0
  <2> SUFFICES ASSUME NEW d
               PROVE  /\ Free(text, d) => ~(Occurrences(<<d>>, text) > 0)
                      /\ ~Free(text, d) => Occurrences(<<d>>, text) > 0
    OBVIOUS
  <2>1. PICK S : text \in Seq(S)
    BY WordsInText
  <2> HIDE DEF text
  <2> QED BY <2>1, Counted
<1>5. words = <<>> => skipped
  BY <1>2
<1>6. banner => words = <<>> \/ starts
  BY DEF IsBanner
<1> HIDE DEF e, text, skipped, open, banner, delimiter, starts, words
<1>7. CASE acc.delimiter # <<>>
  <2>1. e = IF closes THEN [acc EXCEPT !.delimiter = <<>>] ELSE acc
    BY <1>1, <1>7
  <2>2. \A d : acc.delimiter = <<d>> => (closes <=> ~Free(text, d))
    BY <1>4
  <2> HIDE DEF closes
  <2>3. IsScan(e) /\ e.kept = acc.kept /\ e.delimiter = IF closes THEN <<>> ELSE acc.delimiter
    BY <2>1 DEF IsScan
  <2> QED BY <1>7, <2>2, <2>3 DEF AfterScan, e, text, words
<1>8. CASE acc.delimiter = <<>>
  <2>1. \A d : acc.delimiter # <<d>>
    BY <1>8
  <2>2. CASE skipped
    <3>1. e = acc /\ ~starts
      BY <1>1, <1>3, <1>8, <2>2
    <3> QED BY <1>8, <2>1, <3>1 DEF AfterScan, e, starts, words
  <2>3. CASE ~skipped /\ banner
    <3>1. starts
      BY <1>5, <1>6, <2>3
    <3>2. e = IF open THEN [acc EXCEPT !.delimiter = delimiter] ELSE acc
      BY <1>1, <1>8, <2>3
    <3>3. IsScan(e) /\ e.kept = acc.kept /\ e.delimiter = IF open THEN delimiter ELSE <<>>
      BY <1>8, <3>2 DEF IsScan
    <3>4. e.delimiter = IF BannerDelimiter(words) \notin ToSet(AfterDelimiter(words))
                        THEN <<BannerDelimiter(words)>> ELSE <<>>
      BY <1>3, <3>1, <3>3
    <3> QED BY <2>1, <3>1, <3>3, <3>4 DEF AfterScan, e, starts, words
  <2>4. CASE ~skipped /\ ~banner
    <3>1. e = [acc EXCEPT !.kept = Append(@, line)] /\ ~starts
      BY <1>1, <1>3, <1>8, <2>4
    <3>2. IsScan(e) /\ e.kept = Append(acc.kept, line) /\ e.delimiter = <<>>
      BY <1>8, <3>1 DEF IsScan
    <3> QED BY <1>8, <2>1, <3>1, <3>2 DEF AfterScan, e, starts, words
  <2> QED BY <2>2, <2>3, <2>4
<1> QED BY <1>7, <1>8 DEF e

\* A line after the first ends a banner if the delimiter is in its text.
LEMMA LaterLineCloses ==
  ASSUME NEW lines, NEW i, NEW k, k # i, lines[k].words \in Seq(Range(lines[k].words)), PlainBanner(lines[i].words)
  PROVE  ClosesBanner(lines, i, k) <=> ~Free(Text(lines[k].words), BannerDelimiter(lines[i].words))
<1> DEFINE d == BannerDelimiter(lines[i].words)
           words == lines[k].words
<1>1. ClosesBanner(lines, i, k) <=> \E w \in ToSet(words) : d \in ToSet(PiecesOf(w))
  BY DEF ClosesBanner, PlainBanner
<1> HIDE DEF d
<1>2. Free(Text(words), d) <=> \A n \in DOMAIN words : Free(PiecesOf(words[n]), d)
  BY WordsInText
<1>3. ToSet(words) = {words[n] : n \in DOMAIN words}
  BY DEF ToSet
<1> QED BY <1>1, <1>2, <1>3 DEF Free, d

\* The search for evidence goes line by line (the loop of _data_lines).
LEMMA ScannedFromSteps ==
  ASSUME NEW lines, Len(lines) \in Nat
  PROVE  /\ ScannedFrom(lines)[0] = NothingScanned
         /\ \A i \in 1 .. Len(lines) : ScannedFrom(lines)[i] = Scan(ScannedFrom(lines)[i - 1], lines[i])
<1> DEFINE Def(f, n) == f = [i \in 0 .. n |-> IF i = 0 THEN NothingScanned ELSE Scan(f[i - 1], lines[i])]
           bad == {n \in Nat : ~\E f : Def(f, n)}
<1>1. ASSUME bad # {} PROVE FALSE
  <2>1. PICK n \in bad : \A x \in bad : n <= x
    <3>1. bad \subseteq Nat
      OBVIOUS
    <3> HIDE DEF bad
    <3> QED BY <1>1, <3>1, SmallestExists
  <2>2. n # 0
    <3>1. Def([i \in 0 .. 0 |-> NothingScanned], 0)
      OBVIOUS
    <3> HIDE DEF Def
    <3> QED BY <2>1, <3>1
  <2>3. n - 1 \in Nat /\ ~(n <= n - 1)
    BY <2>1, <2>2
  <2>4. PICK f : Def(f, n - 1)
    BY <2>1, <2>3
  <2> DEFINE g == [i \in 0 .. n |-> IF i = n THEN Scan(f[n - 1], lines[n]) ELSE f[i]]
  <2>5. Def(g, n)
    <3>1. \A i \in 0 .. n : g[i] = IF i = 0 THEN NothingScanned ELSE Scan(g[i - 1], lines[i])
      BY <2>2, <2>3, <2>4
    <3>2. g = [i \in 0 .. n |-> g[i]]
      OBVIOUS
    <3> HIDE DEF g
    <3> QED BY <3>1, <3>2
  <2> HIDE DEF Def, g
  <2> QED BY <2>1, <2>5
<1>2. \E f : Def(f, Len(lines))
  BY <1>1
<1>3. ScannedFrom(lines) = CHOOSE f : Def(f, Len(lines))
  BY DEF ScannedFrom
<1>4. Def(ScannedFrom(lines), Len(lines))
  <2> HIDE DEF Def
  <2> QED BY <1>2, <1>3
<1> QED BY <1>4

\* A line outside of the blocks.
OutsideBlocks(nodes, j) == \A n \in DOMAIN nodes : nodes[n].kind = "opaque" => j \notin nodes[n].first .. nodes[n].last

\* After so many lines the reader is in a banner exactly if the search for evidence is,
\* unless it has stopped, and both look for the same end.
InStep(b, s, lines, i) ==
  /\ b.next <= i + 1 /\ ~b.halted => s.delimiter = <<>>
  /\ b.next > i + 1 => \E d : /\ s.delimiter = <<d>>
                              /\ \A k \in i + 1 .. b.next - 2 : Free(Text(lines[k].words), d)
                              /\ b.halted \/ ~Free(Text(lines[b.next - 1].words), d)

\* What was kept are lines outside of the blocks.
KeptOutside(b, s, lines, i) ==
  /\ s.kept \in Seq(Range(s.kept))
  /\ \A line \in Range(s.kept) : \E j \in 1 .. i : line = lines[j] /\ OutsideBlocks(b.nodes, j)

Agree(b, s, lines, i) == IsScan(s) /\ InStep(b, s, lines, i) /\ KeptOutside(b, s, lines, i)

\* The banners of the text are plain, and there is no certificate chain.
PlainText(lines) ==
  \A words \in {l.words : l \in Range(lines)} \ {<<>>} :
    IF IsBanner(words) THEN PlainBanner(words) ELSE ~IsCertificateChain(words)

\* What is kept, one line later.
LEMMA KeptStaysOutside ==
  ASSUME NEW lines, NEW i \in Nat \ {0}, NEW b, NEW e, NEW s, NEW t, KeptOutside(b, s, lines, i - 1),
         \A j \in 1 .. i - 1 : OutsideBlocks(b.nodes, j) => OutsideBlocks(e.nodes, j),
         \/ t.kept = s.kept
         \/ t.kept = Append(s.kept, lines[i]) /\ OutsideBlocks(e.nodes, i)
  PROVE  KeptOutside(e, t, lines, i)
<1>1. \A j \in 1 .. i - 1 : j \in 1 .. i
  OBVIOUS
<1>2. i \in 1 .. i
  OBVIOUS
<1>3. CASE t.kept = s.kept
  BY <1>1, <1>3 DEF KeptOutside
<1>4. CASE t.kept = Append(s.kept, lines[i]) /\ OutsideBlocks(e.nodes, i)
  <2>1. /\ Len(s.kept) \in Nat /\ DOMAIN s.kept = 1 .. Len(s.kept)
        /\ t.kept \in Seq(Range(t.kept)) /\ DOMAIN t.kept = 1 .. Len(s.kept) + 1
        /\ \A n \in DOMAIN s.kept : t.kept[n] = s.kept[n]
        /\ t.kept[Len(s.kept) + 1] = lines[i]
    BY <1>4, OneMore DEF KeptOutside
  <2>2. \A line \in Range(t.kept) : line \in Range(s.kept) \/ line = lines[i]
    <3>1. \A n \in 1 .. Len(s.kept) + 1 : n \in DOMAIN s.kept \/ n = Len(s.kept) + 1
      BY <2>1
    <3> QED BY <2>1, <3>1 DEF Range
  <2> QED BY <1>1, <1>2, <1>4, <2>1, <2>2 DEF KeptOutside
<1> QED BY <1>3, <1>4

\* Both look at the next line.
LEMMA AgreeStep ==
  ASSUME NEW lines, IsText(lines), PlainText(lines), NEW i \in 1 .. Len(lines), NEW b, NEW s,
         ReadSoFar(b, lines, i - 1), Agree(b, s, lines, i - 1)
  PROVE  Agree(ReadLine(b, lines, i), Scan(s, lines[i]), lines, i)
<1> DEFINE words == lines[i].words
           e == ReadLine(b, lines, i)
           t == Scan(s, lines[i])
           starts == words # <<>> /\ IsBanner(words)
<1> SUFFICES Agree(e, t, lines, i)
  OBVIOUS
<1>1. Len(lines) \in Nat /\ DOMAIN lines = 1 .. Len(lines) /\ i \in Nat \ {0} /\ i - 1 \in Nat /\ b.next \in Nat
  BY TextLength DEF ReadSoFar
<1>2. \A k \in 1 .. Len(lines) : lines[k].words \in Seq(Range(lines[k].words))
  BY <1>1 DEF IsText
<1>3. /\ starts => PlainBanner(words)
      /\ words = <<>> \/ IsBanner(words) \/ ~IsCertificateChain(words)
  <2>1. lines[i] \in Range(lines)
    BY <1>1 DEF Range
  <2> QED BY <2>1 DEF PlainText
<1>4. IsScan(t) /\ AfterScan(t, s, lines[i])
  <2>1. words \in Seq(Range(words))
    BY <1>2
  <2> QED BY <1>3, <2>1, ScanLine DEF Agree
<1>5. InStep(b, s, lines, i - 1) /\ KeptOutside(b, s, lines, i - 1)
  BY DEF Agree
<1>6. CASE i < b.next
  <2>1. e = b
    BY <1>6 DEF e, ReadLine
  <2> HIDE DEF e, t
  <2>2. PICK d : /\ s.delimiter = <<d>>
                 /\ \A k \in i .. b.next - 2 : Free(Text(lines[k].words), d)
                 /\ b.halted \/ ~Free(Text(lines[b.next - 1].words), d)
    <3>1. b.next > i - 1 + 1 /\ i - 1 + 1 = i
      BY <1>1, <1>6
    <3> QED BY <1>5, <3>1 DEF InStep
  <2>3. t.delimiter = IF Free(Text(words), d) THEN <<d>> ELSE <<>>
    BY <1>4, <2>2 DEF AfterScan
  <2>4. t.kept = s.kept
    BY <1>4, <2>2 DEF AfterScan
  <2>5. CASE b.next > i + 1
    <3>1. i \in i .. b.next - 2 /\ i + 1 .. b.next - 2 \subseteq i .. b.next - 2
      BY <1>1, <2>5
    <3>2. t.delimiter = <<d>>
      BY <2>2, <2>3, <3>1
    <3>3. ~(b.next <= i + 1)
      BY <1>1, <2>5
    <3>4. InStep(e, t, lines, i)
      BY <2>1, <2>2, <3>1, <3>2, <3>3 DEF InStep
    <3> QED BY <1>1, <1>4, <1>5, <2>1, <2>4, <3>4, KeptStaysOutside DEF Agree
  <2>6. CASE ~(b.next > i + 1)
    <3>1. b.next - 1 = i
      BY <1>1, <1>6, <2>6
    <3>2. b.halted \/ t.delimiter = <<>>
      BY <2>2, <2>3, <3>1
    <3>3. InStep(e, t, lines, i)
      BY <2>1, <2>6, <3>2 DEF InStep
    <3> QED BY <1>1, <1>4, <1>5, <2>1, <2>4, <3>3, KeptStaysOutside DEF Agree
  <2> QED BY <2>5, <2>6
<1>7. CASE ~(i < b.next)
  <2>1. AfterLine(e, b, lines, i)
    <3>1. b.next <= i
      BY <1>1, <1>7
    <3> QED BY <1>3, <3>1, LineStartsBanner
  <2> HIDE DEF e, t
  <2>2. Reach(b, i - 1) = i - 1 /\ Ordered(b, i - 1)
    <3>1. Reach(b, i - 1) = i - 1
      BY <1>1, <1>7 DEF Reach
    <3> QED BY <3>1 DEF ReadSoFar
  <2>3. \A n \in DOMAIN b.nodes : i \notin b.nodes[n].first .. b.nodes[n].last
    <3> SUFFICES ASSUME NEW n \in DOMAIN b.nodes PROVE i \notin b.nodes[n].first .. b.nodes[n].last
      OBVIOUS
    <3>1. b.nodes[n].first \in 1 .. i - 1 /\ b.nodes[n].last \in b.nodes[n].first .. i - 1
      BY <2>2 DEF Ordered
    <3> QED BY <1>1, <3>1
  <2>4. \A j \in 1 .. i - 1 : OutsideBlocks(b.nodes, j) => OutsideBlocks(e.nodes, j)
    <3> SUFFICES ASSUME NEW j \in 1 .. i - 1, OutsideBlocks(b.nodes, j),
                        NEW n \in DOMAIN e.nodes, e.nodes[n].kind = "opaque",
                        j \in e.nodes[n].first .. e.nodes[n].last
                 PROVE  FALSE
      BY DEF OutsideBlocks
    <3>1. CASE n \in DOMAIN b.nodes /\ e.nodes[n] = b.nodes[n]
      BY <3>1 DEF OutsideBlocks
    <3>2. CASE e.nodes[n].first = i
      BY <1>1, <3>2
    <3> QED BY <2>1, <3>1, <3>2 DEF AfterLine
  <2>5. ~starts => OutsideBlocks(e.nodes, i)
    BY <2>1, <2>3 DEF AfterLine, OutsideBlocks
  <2>6. KeptOutside(e, t, lines, i)
    <3>1. t.kept = s.kept \/ (~starts /\ t.kept = Append(s.kept, lines[i]))
      BY <1>4 DEF AfterScan
    <3> QED BY <1>1, <1>5, <2>4, <2>5, <3>1, KeptStaysOutside
  <2>7. InStep(e, t, lines, i)
    <3>1. ASSUME ~b.halted PROVE s.delimiter = <<>>
      <4>1. b.next <= i - 1 + 1
        BY <1>1, <1>7
      <4> QED BY <1>5, <3>1, <4>1 DEF InStep
    <3>2. CASE e.next = b.next /\ (e.halted \/ ~starts)
      <4>1. e.halted \/ t.delimiter = <<>>
        <5>1. CASE b.halted
          BY <2>1, <5>1 DEF AfterLine
        <5>2. CASE ~b.halted /\ ~starts
          BY <1>4, <3>1, <5>2 DEF AfterScan
        <5> QED BY <3>2, <5>1, <5>2
      <4>2. ~(e.next > i + 1)
        BY <1>1, <1>7, <3>2
      <4> QED BY <4>1, <4>2 DEF InStep
    <3>3. ASSUME starts, ~b.halted, NEW end \in i .. Len(lines), e.next = end + 1,
                 BannerRunsTo(lines, i, end, e.halted)
          PROVE  InStep(e, t, lines, i)
      <4> DEFINE d == BannerDelimiter(words)
      <4>1. /\ PlainBanner(words) /\ Len(words) >= 3
            /\ t.delimiter = IF d \notin ToSet(AfterDelimiter(words)) THEN <<d>> ELSE <<>>
        BY <1>3, <1>4, <3>1, <3>3 DEF AfterScan, PlainBanner
      <4>2. ClosesBanner(lines, i, i) <=> d \in ToSet(AfterDelimiter(words))
        BY <4>1 DEF ClosesBanner
      <4>3. \A k \in i + 1 .. end : ClosesBanner(lines, i, k) <=> ~Free(Text(lines[k].words), d)
        <5> SUFFICES ASSUME NEW k \in i + 1 .. end
                     PROVE  ClosesBanner(lines, i, k) <=> ~Free(Text(lines[k].words), d)
          OBVIOUS
        <5>1. k # i /\ k \in 1 .. Len(lines)
          BY <1>1
        <5> QED BY <1>2, <4>1, <5>1, LaterLineCloses
      <4> HIDE DEF d
      <4>4. /\ \A k \in i .. end - 1 : ~ClosesBanner(lines, i, k)
            /\ e.halted \/ ClosesBanner(lines, i, end)
        BY <3>3 DEF BannerRunsTo
      <4>5. CASE end = i
        <5>1. e.halted \/ t.delimiter = <<>>
          BY <4>1, <4>2, <4>4, <4>5
        <5>2. ~(e.next > i + 1)
          BY <1>1, <3>3, <4>5
        <5> QED BY <5>1, <5>2 DEF InStep
      <4>6. CASE end # i
        <5>1. i \in i .. end - 1 /\ end \in i + 1 .. end /\ end \in Nat
          BY <1>1, <4>6
        <5>2. t.delimiter = <<d>>
          BY <4>1, <4>2, <4>4, <5>1
        <5>3. e.next - 2 = end - 1 /\ e.next - 1 = end /\ ~(e.next <= i + 1)
          BY <1>1, <3>3, <5>1
        <5>4. \A k \in i + 1 .. end - 1 : Free(Text(lines[k].words), d)
          <6>1. \A k \in i + 1 .. end - 1 : k \in i .. end - 1 /\ k \in i + 1 .. end
            BY <1>1, <5>1
          <6> QED BY <4>3, <4>4, <6>1
        <5>5. e.halted \/ ~Free(Text(lines[end].words), d)
          BY <4>3, <4>4, <5>1
        <5> QED BY <5>2, <5>3, <5>4, <5>5 DEF InStep
      <4> QED BY <4>5, <4>6
    <3> QED BY <2>1, <3>2, <3>3 DEF AfterLine
  <2> QED BY <1>4, <2>6, <2>7 DEF Agree
<1> QED BY <1>6, <1>7

\* So they do after every line of a text.
LEMMA AgreeHolds ==
  ASSUME NEW lines, IsText(lines), PlainText(lines)
  PROVE  \A i \in 0 .. Len(lines) : Agree(BuiltFrom(lines)[i], ScannedFrom(lines)[i], lines, i)
<1> DEFINE bad == {i \in 0 .. Len(lines) : ~Agree(BuiltFrom(lines)[i], ScannedFrom(lines)[i], lines, i)}
<1>1. Len(lines) \in Nat
  BY TextLength
<1>2. Agree(EmptyBuilder, NothingScanned, lines, 0)
  <2>1. EmptyBuilder.next = 1
    BY DEF EmptyBuilder
  <2>2. NothingScanned.delimiter = <<>> /\ NothingScanned.kept = <<>> /\ IsScan(NothingScanned)
    BY DEF NothingScanned, IsScan
  <2>3. <<>> \in Seq(Range(<<>>)) /\ Range(<<>>) = {}
    <3>1. Range(<<>>) = {}
      BY DEF Range
    <3> QED BY <3>1
  <2> QED BY <2>1, <2>2, <2>3 DEF Agree, InStep, KeptOutside
<1>3. ASSUME bad # {} PROVE FALSE
  <2>1. PICK n \in bad : \A x \in bad : n <= x
    <3>1. bad \subseteq Nat
      BY <1>1
    <3> HIDE DEF bad
    <3> QED BY <1>3, <3>1, SmallestExists
  <2>2. n \in Nat /\ n # 0
    BY <1>1, <1>2, BuiltFromSteps, ScannedFromSteps
  <2>3. n \in 1 .. Len(lines) /\ n - 1 \in 0 .. Len(lines) /\ n - 1 \notin bad
    BY <1>1, <2>1, <2>2
  <2>4. /\ Agree(BuiltFrom(lines)[n - 1], ScannedFrom(lines)[n - 1], lines, n - 1)
        /\ ReadSoFar(BuiltFrom(lines)[n - 1], lines, n - 1)
    BY <2>3, ReadSoFarHolds
  <2>5. Agree(BuiltFrom(lines)[n], ScannedFrom(lines)[n], lines, n)
    <3>1. /\ BuiltFrom(lines)[n] = ReadLine(BuiltFrom(lines)[n - 1], lines, n)
          /\ ScannedFrom(lines)[n] = Scan(ScannedFrom(lines)[n - 1], lines[n])
      BY <1>1, <2>3, BuiltFromSteps, ScannedFromSteps
    <3> QED BY <2>3, <2>4, <3>1, AgreeStep
  <2> QED BY <2>1, <2>5
<1> QED BY <1>3

\* What has been kept stays kept.
LEMMA KeptStays ==
  ASSUME NEW lines, IsText(lines), PlainText(lines), NEW j \in 0 .. Len(lines)
  PROVE  \A i \in j .. Len(lines) : Range(ScannedFrom(lines)[j].kept) \subseteq Range(ScannedFrom(lines)[i].kept)
<1> DEFINE kept(i) == ScannedFrom(lines)[i].kept
           bad == {i \in j .. Len(lines) : ~(Range(kept(j)) \subseteq Range(kept(i)))}
<1>1. Len(lines) \in Nat /\ j \in Nat /\ DOMAIN lines = 1 .. Len(lines)
  BY TextLength
<1>2. ASSUME NEW n \in 1 .. Len(lines)
      PROVE  Range(kept(n - 1)) \subseteq Range(kept(n))
  <2> DEFINE s == ScannedFrom(lines)[n - 1]
             t == ScannedFrom(lines)[n]
  <2>1. t = Scan(s, lines[n])
    BY <1>1, <1>2, ScannedFromSteps
  <2>2. IsScan(s) /\ s.kept \in Seq(Range(s.kept))
    <3>1. n - 1 \in 0 .. Len(lines)
      BY <1>1
    <3> QED BY <3>1, AgreeHolds DEF Agree, KeptOutside
  <2>3. lines[n].words \in Seq(Range(lines[n].words)) /\ lines[n] \in Range(lines)
    BY <1>1, <1>2 DEF IsText, Range
  <2>4. lines[n].words # <<>> /\ IsBanner(lines[n].words) => PlainBanner(lines[n].words)
    BY <2>3 DEF PlainText
  <2> HIDE DEF s, t
  <2>5. t.kept = s.kept \/ t.kept = Append(s.kept, lines[n])
    BY <2>1, <2>2, <2>3, <2>4, ScanLine DEF AfterScan
  <2>6. CASE t.kept = Append(s.kept, lines[n])
    <3>1. /\ Len(s.kept) \in Nat /\ DOMAIN s.kept = 1 .. Len(s.kept)
          /\ DOMAIN t.kept = 1 .. Len(s.kept) + 1 /\ \A m \in DOMAIN s.kept : t.kept[m] = s.kept[m]
      BY <2>2, <2>6, OneMore
    <3>2. DOMAIN s.kept \subseteq DOMAIN t.kept
      BY <3>1
    <3>3. Range(s.kept) \subseteq Range(t.kept)
      BY <3>1, <3>2 DEF Range
    <3> QED BY <3>3 DEF s, t
  <2>7. CASE t.kept = s.kept
    BY <2>7 DEF s, t
  <2> QED BY <2>5, <2>6, <2>7
<1> HIDE DEF kept
<1>3. ASSUME bad # {} PROVE FALSE
  <2>1. PICK n \in bad : \A x \in bad : n <= x
    <3>1. bad \subseteq Nat
      BY <1>1
    <3> HIDE DEF bad
    <3> QED BY <1>3, <3>1, SmallestExists
  <2>2. n \in Nat /\ n # j /\ n \in 1 .. Len(lines) /\ n - 1 \in j .. Len(lines) /\ ~(n <= n - 1)
    BY <1>1, <2>1
  <2>3. n - 1 \notin bad
    BY <2>1, <2>2
  <2>4. Range(kept(j)) \subseteq Range(kept(n - 1)) /\ Range(kept(n - 1)) \subseteq Range(kept(n))
    BY <1>2, <2>2, <2>3
  <2> QED BY <2>1, <2>4
<1> QED BY <1>3 DEF kept

\* What is looked at in a plain configuration are lines outside of its blocks.
LEMMA EvidenceOutsideBlocks ==
  ASSUME NEW doc, IsText(doc.lines), PlainText(doc.lines), doc.type = "configuration"
  PROVE  \A line \in Range(DataLines(doc)) :
           \E j \in DOMAIN doc.lines : line = doc.lines[j] /\ OutsideBlocks(ReadIndented(doc).nodes, j)
<1> DEFINE lines == doc.lines
           count == Len(lines)
           inspected == Min({count, MaxInspectedLines})
<1>1. count \in Nat /\ DOMAIN lines = 1 .. count
  BY TextLength
<1>2. inspected \in 0 .. count
  <2>1. {count, MaxInspectedLines} \subseteq Nat /\ {count, MaxInspectedLines} # {}
    BY <1>1, InspectionLimit
  <2> DEFINE both == {count, MaxInspectedLines}
  <2>2. count \in both /\ both \subseteq Nat
    BY <2>1
  <2> HIDE DEF both
  <2>3. Min(both) \in both /\ \A x \in both : Min(both) <= x
    BY <2>2, MinIsSmallest
  <2> QED BY <1>1, <2>2, <2>3 DEF both
<1>3. DataLines(doc) = ScannedFrom(lines)[inspected].kept
  BY DEF DataLines
<1>4. ReadIndented(doc).nodes = BuiltFrom(lines)[count].nodes
  BY DEF ReadIndented
<1> HIDE DEF inspected
<1>5. count \in inspected .. count
  BY <1>1, <1>2
<1>6. Range(DataLines(doc)) \subseteq Range(ScannedFrom(lines)[count].kept)
  BY <1>2, <1>3, <1>5, KeptStays
<1>7. KeptOutside(BuiltFrom(lines)[count], ScannedFrom(lines)[count], lines, count)
  <2>1. count \in 0 .. count
    BY <1>1
  <2> QED BY <2>1, AgreeHolds DEF Agree
<1> QED BY <1>1, <1>4, <1>6, <1>7 DEF KeptOutside

\* Nothing that is read line by line to identify the device stands in what the parser
\* takes for the text of a banner, in configurations whose banners are plain
\* (resolver.py:767, indentation_cli.py): the reader and the search for evidence agree
\* line by line where a banner ends.
THEOREM BannersMakeNoClaims == Spec => []BannersClaimNothing
<1>1. IInv => BannersClaimNothing
  <2> SUFFICES ASSUME IInv,
                      NEW d \in {e \in Range(snapshot.artifacts) : e.type = "configuration"},
                      PlainText(d.lines)
               PROVE  LET outside == {d.lines[i] : i \in DOMAIN d.lines \ BannerText(d)} IN
                      /\ \A i \in DocumentIdentities(d, profiles) :
                           \E l \in outside : i \in CiscoIdentities(d, l) \cup OtherIdentities(d, l)
                      /\ \A m \in DocumentModels(d) : \E l \in outside : m \in Claims(l, "fortios_status")
                      /\ LooksLikeCisco(d)
                           => Cardinality({SyntaxCategory(l.words) : l \in outside} \ {None}) >= 3
    BY DEF BannersClaimNothing, PlainText
  <2> DEFINE outside == {d.lines[i] : i \in DOMAIN d.lines \ BannerText(d)}
             kept == DataLines(d)
             seen == {SyntaxCategory(kept[k].words) : k \in DOMAIN kept} \ {None}
             there == {SyntaxCategory(l.words) : l \in outside} \ {None}
  <2>1. IsText(d.lines) /\ d.shape = "cli" /\ d.type = "configuration"
    BY SnapshotsAssumption DEF IInv, SnapshotInv
  <2>2. \A k \in DOMAIN kept : kept[k] \in outside
    <3>1. \A line \in Range(kept) :
            \E j \in DOMAIN d.lines : line = d.lines[j] /\ OutsideBlocks(ReadIndented(d).nodes, j)
      BY <2>1, EvidenceOutsideBlocks
    <3>2. \A j : OutsideBlocks(ReadIndented(d).nodes, j) => j \notin BannerText(d)
      BY DEF OutsideBlocks, BannerText, Range
    <3>3. \A k \in DOMAIN kept : kept[k] \in Range(kept)
      BY DEF Range
    <3> HIDE DEF kept
    <3> QED BY <3>1, <3>2, <3>3
  <2> HIDE DEF kept, outside
  <2>3. \A i \in DocumentIdentities(d, profiles) :
          \E l \in outside : i \in CiscoIdentities(d, l) \cup OtherIdentities(d, l)
    <3>1. AristaIdentities(d, kept) = {} /\ XmlIdentities(d, profiles) = {}
      BY <2>1 DEF AristaIdentities, XmlIdentities
    <3>2. DocumentIdentities(d, profiles) =
            UNION {CiscoIdentities(d, kept[k]) \cup OtherIdentities(d, kept[k]) : k \in DOMAIN kept}
      BY <3>1 DEF DocumentIdentities, kept
    <3> QED BY <2>2, <3>2
  <2>4. \A m \in DocumentModels(d) : \E l \in outside : m \in Claims(l, "fortios_status")
    <3>1. CiscoModels(d, kept) = {}
      BY <2>1 DEF CiscoModels
    <3>2. DocumentModels(d) = UNION {Claims(kept[k], "fortios_status") : k \in DOMAIN kept}
      BY <2>1, <3>1 DEF DocumentModels, kept
    <3> QED BY <2>2, <3>2
  <2>5. Cardinality(seen) <= Cardinality(there) /\ Cardinality(there) \in Nat /\ Cardinality(seen) \in Nat
    <3>1. IsFiniteSet(DOMAIN d.lines)
      <4>1. DOMAIN d.lines = 1 .. Len(d.lines) /\ Len(d.lines) \in Nat
        BY <2>1, TextLength
      <4> QED BY <4>1, FS_Interval
    <3>2. IsFiniteSet(DOMAIN d.lines \ BannerText(d))
      BY <3>1, FS_Subset
    <3> DEFINE lines == DOMAIN d.lines \ BannerText(d)
               category == [i \in lines |-> SyntaxCategory(d.lines[i].words)]
               categories == {SyntaxCategory(l.words) : l \in outside}
    <3>3. category \in Surjection(lines, categories)
      <4>1. category \in [lines -> categories]
        BY DEF outside
      <4>2. \A c \in categories : \E i \in lines : category[i] = c
        BY DEF outside
      <4> HIDE DEF category, categories, lines
      <4> QED BY <4>1, <4>2 DEF Surjection
    <3>4. IsFiniteSet(categories)
      <4> HIDE DEF category, categories
      <4> QED BY <3>2, <3>3, FS_Surjection
    <3>5. IsFiniteSet(there)
      BY <3>4, FS_Subset
    <3>6. seen \subseteq there
      BY <2>2
    <3> HIDE DEF seen, there
    <3> QED BY <3>5, <3>6, FS_Subset, FS_CardinalityType
  <2>6. LooksLikeCisco(d) => Cardinality(there) >= 3
    <3>1. LooksLikeCisco(d) <=> Cardinality(seen) >= 3
      BY DEF LooksLikeCisco, kept
    <3> HIDE DEF seen, there
    <3> QED BY <2>5, <3>1
  <2> QED BY <2>3, <2>4, <2>6 DEF outside
<1> QED BY <1>1, AuditContentInvariantHolds, PTL
=============================================================================
