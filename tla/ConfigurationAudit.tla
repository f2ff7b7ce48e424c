------------------------- MODULE ConfigurationAudit -------------------------
(***************************************************************************)
(* What an audit says about the configuration it is given: the stages of   *)
(* audit/pipeline.py with everything they decide.  AuditPipeline has the   *)
(* same stages with their transactions, retries and crashes and none of    *)
(* the content.                                                            *)
(*                                                                         *)
(* While the audit runs, its organization may publish profiles, mappings,  *)
(* rules and catalogs; each stage uses what is published when it starts.   *)
(*                                                                         *)
(* A snapshot is its artifacts, the assessment that was asked for, and the *)
(* drafts that the organization may publish.                               *)
(***************************************************************************)
EXTENDS AssessmentPacks

CONSTANT Snapshots   \* families of snapshots that may be audited

\* Artifacts are texts, of which only structured exports are given as trees.  Drafts are
\* rules and catalogs as an organization writes them, and every automatic obligation
\* of a pack from before the audit has a sealed evaluator on its profiles.
ASSUME SnapshotsAssumption ==
  \A family \in DOMAIN Snapshots : \A s \in Snapshots[family] :
    /\ \A d \in Range(s.artifacts) :
         IsText(d.lines) /\ (d.shape = "cli" \/ d.type = "structured_export")
    /\ \A r \in s.drafts.rules :
         r.id # None /\ DOMAIN r = {"id", "field", "profiles", "version", "condition"}
    /\ \A p \in s.drafts.imports :
         /\ "obligations" \in DOMAIN p
         /\ \A o \in Range(p.obligations) : "implementation" \in DOMAIN o
    /\ \A p \in s.packs : \A o \in Range(p.obligations) :
         Automatic(o) => \A q \in o.profiles : RuleFor({}, o.rule, q) # NoRule

VARIABLES
  snapshot,
  phase,       \* the stage the audit is to take next, "done" or "failed"
  resolution,  \* Audit.profile_resolution
  pins,        \* AuditAssessment, AuditFrameworkAssessment: the packs to answer for
  reading,     \* the documents read, with their nodes and what they came to
  blocks,      \* UnresolvedBlock
  states,      \* EffectiveState
  findings,    \* Finding
  answers,     \* AssessmentResult
  coverage,    \* Audit.coverage: how many answers there are of each kind
  profiles,    \* runtime profiles, published
  trained,     \* knowledge packs of the organization, with their mappings
  rules,       \* runtime rules, published
  packs        \* AssessmentPackVersion

audit == <<snapshot, phase, resolution, pins, reading, blocks, states, findings, answers, coverage>>
published == <<profiles, trained, rules, packs>>
vars == <<audit, published>>

KnowledgePackIds == {"kp1", "kp2"}

Unresolved == Result("unresolved", "unresolved", None, None, NoVersion, None, {})

Init ==
  /\ \E family \in DOMAIN Snapshots : snapshot \in Snapshots[family]
  /\ phase = "identifying"
  /\ resolution = Unresolved
  /\ pins = {} /\ reading = {} /\ blocks = {} /\ states = {} /\ findings = {} /\ answers = {}
  /\ coverage = Coverage({})
  /\ profiles = {} /\ rules = {} /\ packs = snapshot.packs
  /\ trained = [k \in KnowledgePackIds |-> <<>>]

Running == phase \notin {"done", "failed"}

----------------------------------------------------------------------------
(* The stages.                                                             *)

Profile == ProfileFor(resolution.profile, profiles)

\* resolve_audit_profile; anything but a resolved profile ends the audit.
Identify ==
  /\ phase = "identifying"
  /\ resolution' = ResolveProfile(AggregateSnapshotEvidence(snapshot.artifacts).documents, profiles)
  /\ phase' = IF resolution'.status = "resolved" THEN "pinning" ELSE "failed"
  /\ UNCHANGED <<snapshot, pins, reading, blocks, states, findings, answers, coverage, published>>

Pin ==
  /\ phase = "pinning"
  /\ LET p == Pins(packs, snapshot.requested, snapshot.frameworks, resolution.profile) IN
     /\ phase' = IF p.ok THEN "interpreting" ELSE "failed"
     /\ pins' = IF p.ok THEN p.packs ELSE {}
  /\ UNCHANGED <<snapshot, resolution, reading, blocks, states, findings, answers, coverage, published>>

\* load_active_published_knowledge_pack: the one pack whose mappings are all for
\* the profile, on top of the sealed one; with several such packs none is used.
ActiveMappings(profile) ==
  LET Qualifies(k) == trained[k] # <<>> /\ \A m \in Range(trained[k]) : profile \in m.profiles
      own == {k \in KnowledgePackIds : Qualifies(k)}
  IN SealedMappings(profile) \o (IF Cardinality(own) = 1 THEN trained[CHOOSE k \in own : TRUE] ELSE <<>>)

Selected(types) == {d \in Range(snapshot.artifacts) : d.type \in types}

ReadDocument(doc, manifest) ==
  LET ir == Read(manifest.reader, doc)
  IN [doc |-> doc, ir |-> ir, result |-> Interpret(doc, ir, ActiveMappings(manifest.profile))]

\* interpret_audit: facts and blocks are stored together, or nothing is.
InterpretEvidence ==
  LET manifest == Profile
      selected == Selected(manifest.types)
      own == RulesOf(manifest.profile)
      unread == {d \in Range(snapshot.artifacts) \ selected : ConfigurationLike(d, resolution.identified)}
  IN /\ phase = "interpreting"
     /\ \E read \in {{ReadDocument(d, manifest) : d \in selected}} :
          LET failed == \/ selected = {}
                        \/ \E r \in read : ~r.doc.readable \/ r.ir.refused \/ r.result.raised
          IN /\ phase' = IF failed THEN "failed" ELSE "resolving_state"
             /\ reading' = IF failed THEN {} ELSE read
             /\ blocks' = IF failed THEN {}
                          ELSE UNION {DocumentBlocks(r.doc, r.ir, r.result, manifest, own) : r \in read}
                               \cup {UnreadBlock(d, manifest, own) : d \in unread}
     /\ UNCHANGED <<snapshot, resolution, pins, states, findings, answers, coverage, published>>

Facts == UNION {r.result.facts : r \in reading}

\* resolve_audit_effective_states.
ResolveStates ==
  LET Of(field) == {f \in Facts : f.field = field} IN
  /\ phase = "resolving_state"
  /\ states' = UNION {IF Repeatable(field) THEN CollectionStates(field, Of(field))
                      ELSE ScalarStates(field, Of(field)) : field \in {f.field : f \in Facts}}
  /\ phase' = "evaluating"
  /\ UNCHANGED <<snapshot, resolution, pins, reading, blocks, findings, answers, coverage, published>>

\* Findings and answers are committed together.
Evaluate ==
  LET found == EvaluateCompliance(resolution, PinnedRules(Profile), states, blocks, DefaultPolicy)
      ok == EvaluatorsPresent(pins, Profile, rules)
  IN /\ phase = "evaluating"
     /\ phase' = IF ok THEN "done" ELSE "failed"
     /\ findings' = IF ok THEN found ELSE {}
     /\ answers' = IF ok THEN Assess(pins, Profile, rules, states, found) ELSE {}
     /\ coverage' = Coverage(answers')
     /\ UNCHANGED <<snapshot, resolution, pins, reading, blocks, states, published>>

----------------------------------------------------------------------------
(* What the organization publishes meanwhile.                              *)

PublishProfile(m) ==
  /\ Running /\ Publishable(m, profiles)
  /\ profiles' = profiles \cup {m}
  /\ UNCHANGED <<audit, trained, rules, packs>>

\* publish_mapping: the pack gets a mapping, for profiles that are known; what comes
\* before the publication is in MappingTraining.
PublishMapping(k, m) ==
  /\ Running /\ m \notin Range(trained[k])
  /\ \A p \in m.profiles : KnownProfile(p, profiles)
  /\ trained' = [trained EXCEPT ![k] = Append(@, m)]
  /\ UNCHANGED <<audit, profiles, rules, packs>>

\* The fields that published mappings fill, by profile.
Mapped == UNION {{<<p, m.field>> : p \in m.profiles} : m \in UNION {Range(trained[k]) : k \in KnowledgePackIds}}

PublishRule(r) ==
  /\ Running /\ RuleAccepted(r, profiles, Mapped)
  /\ \A q \in rules : [q EXCEPT !.version = r.version] # r
  /\ rules' = rules \cup {[r EXCEPT !.version = NextVersion(rules, r)]}
  /\ UNCHANGED <<audit, profiles, trained, packs>>

PublishCatalog(p) ==
  /\ Running
  /\ CatalogAccepted(p, profiles, rules) /\ CatalogPublishable(p, packs, profiles, rules)
  /\ packs' = packs \cup {p}
  /\ UNCHANGED <<audit, profiles, trained, rules>>

\* Bound: a catalog is imported twice at most.
ImportCatalog(p, framework) ==
  /\ Running /\ ExternalAccepted(p, framework)
  /\ Cardinality({q \in packs : q.key = p.key}) < 2
  /\ packs' = ImportExternal(packs, p, framework)
  /\ UNCHANGED <<audit, profiles, trained, rules>>

Publish ==
  \/ \E m \in snapshot.drafts.profiles : PublishProfile(m)
  \/ \E k \in KnowledgePackIds, m \in snapshot.drafts.mappings : PublishMapping(k, m)
  \/ \E r \in snapshot.drafts.rules : PublishRule(r)
  \/ \E p \in snapshot.drafts.catalogs : PublishCatalog(p)
  \/ \E p \in snapshot.drafts.imports : ImportCatalog(p, "cis")

Next == Identify \/ Pin \/ InterpretEvidence \/ ResolveStates \/ Evaluate \/ Publish

Spec == Init /\ [][Next]_vars

----------------------------------------------------------------------------
(* Properties.                                                             *)

Passing == {f \in findings : f.verdict = "pass"}

\* A statement that a fact is read from, or a block that a positive fact is in.
Understood(r, n) ==
  LET At(k) == IF r.doc.shape = "cli" THEN r.ir.nodes[k].first ELSE k IN
  \E f \in r.result.facts : At(n) = Max(f.lines) \/ (~f.negated /\ At(n) \in f.lines)

\* Lines that were read: those of a node, and comments.  Lines beyond a limit on
\* sizes are not, and nothing is said of them.
LineRead(r, i) ==
  \/ r.doc.lines[i].words = <<>>
  \/ Head(PiecesOf(Head(r.doc.lines[i].words))) \in {"!", "#"}
  \/ \E n \in DOMAIN r.ir.nodes : i \in r.ir.nodes[n].first .. r.ir.nodes[n].last
  \/ Cardinality(DOMAIN r.ir.nodes) = MaxNodes
  \/ r.doc.shape # "cli" /\ r.doc.lines[i].indent > MaxTreeDepth

\* A rule passes only when every line of every document read has been accounted
\* for: it is in a node of the structure, and every node that could state
\* something was understood, states identity alone, or is doubted about other
\* fields only (interpretation/service.py:432-436, 1076-1250).
PassCoversEvidence ==
  \A f \in Passing : \A r \in reading :
    /\ \A i \in DOMAIN r.doc.lines : LineRead(r, i)
    /\ \A n \in DOMAIN r.ir.nodes :
         LET doubted == {d[2] : d \in {e \in r.result.doubts : e[1] = n}} IN
         \/ Understood(r, n)
         \/ doubted # {} /\ f.field \notin doubted
         \/ IF r.doc.shape = "cli" THEN r.ir.nodes[n].kind = "comment" \/ IdentityOnly(Profile, r.ir.nodes[n])
            ELSE n \notin TreeLeaves(r.doc, r.ir.nodes)

\* The fact of an indented configuration that names the block it is in stands in
\* that block: its block is the closest line above that is indented less, and no
\* comment separates them.  It is the first line of the block or at the level of
\* another one, unless there is a banner in the block; the text of a banner counts
\* for nothing (parsing/ir_builder.py, parsing/readers/indentation_cli.py).
ScopeIsEnclosingBlock ==
  \A r \in {q \in reading : Profile.reader = "indentation_cli"} :
    \A f \in {g \in r.result.facts : Cardinality(g.lines) = 2} :
      LET lines == r.doc.lines
          Level(i) == lines[i].indent
          opener == Min(f.lines)
          own == Max(f.lines)
          banners == {n \in Range(r.ir.nodes) : n.kind = "opaque"}
          text == UNION {n.first + 1 .. n.last : n \in banners}
          between == {i \in (opener + 1 .. own - 1) \ text : lines[i].words # <<>>}
      IN /\ Level(opener) < Level(own)
         /\ \A i \in between : Level(i) > Level(opener) /\ ~IsComment(lines[i].words)
         /\ between # {} => \E i \in between : Level(i) = Level(own) \/ i \in {n.first : n \in banners}

\* What the evidence says about the platform, explicitly.
Identities ==
  UNION {DocumentIdentities(d, profiles) : d \in Range(AggregateSnapshotEvidence(snapshot.artifacts).documents)}

\* All of it speaks of the platform that was resolved.
PlatformUnopposed(result) ==
  \A i \in Identities : i.vendor = result.vendor /\ i.os = result.os

\* A built-in profile is taken for the one version the evidence states.
VersionUnopposed(result) ==
  LET manifest == ProfileFor(result.profile, profiles) IN
  manifest \in ProfileRegistry /\ ~manifest.generic =>
    /\ {i.version : i \in Identities} \ {NoVersion} = {result.version}
    /\ Accepts(manifest.constraint, result.version)

\* A generic profile is taken when nothing identifies the device.
GenericUnopposed(result) ==
  LET manifest == ProfileFor(result.profile, profiles)
      NamesPlatform(d) == \E i \in DOMAIN d.lines : i <= HeadLines /\ Claims(d.lines[i], "platform") # {}
  IN manifest.generic =>
       /\ Identities = {}
       /\ \A d \in Range(AggregateSnapshotEvidence(snapshot.artifacts).documents) :
            d.type \in manifest.types /\ d.shape = "cli" => ~NamesPlatform(d)

\* No evidence speaks against what was resolved.
Unopposed(result) == PlatformUnopposed(result) /\ VersionUnopposed(result) /\ GenericUnopposed(result)

\* A profile is resolved only when all the explicit evidence that was inspected agrees
\* with it: on vendor, system and, for a built-in profile, on the one version it
\* accepts; and a generic profile is taken only when nothing identifies the
\* device.  The evidence is what states an identity explicitly: models, syntax and the
\* tokens of published profiles count for less in the code and not here
\* (profile_resolution/resolver.py:413-562).
ResolvedIdentityIsUnopposed ==
  [][phase = "identifying" /\ phase' = "pinning" => Unopposed(resolution')]_vars

\* Identification and parsing agree on the delimiter of such a banner: it is given,
\* has no text glued to it and does not occur before its place.
PlainBanner(words) ==
  /\ Len(words) >= 3 /\ Len(PiecesOf(words[3])) = 1
  /\ BannerDelimiter(words) \notin ToSet(PiecesOf(words[1]) \o PiecesOf(words[2]))

\* What the parser takes for the text of banners (and other opaque blocks).
BannerText(d) ==
  UNION {n.first .. n.last : n \in {m \in Range(ReadIndented(d).nodes) : m.kind = "opaque"}}

\* Nothing that is read from a configuration line by line to identify the device,
\* explicit identity, models or the look of the syntax, stands in what the parser
\* takes for the text of a banner, although identification looks for the end of a
\* banner in its own way: in configurations whose banners are plain and that hold no
\* certificate chain, in which it sees banners the parser does not (resolver.py:767,
\* indentation_cli.py).  The tokens and the version of published profiles, and the
\* names of known platforms, are searched in the whole text (resolver.py:656, 694-696)
\* and are no part of this.
BannersClaimNothing ==
  phase \in {"pinning", "failed"} =>
    \A d \in {e \in Range(snapshot.artifacts) : e.type = "configuration"} :
      LET outside == {d.lines[i] : i \in DOMAIN d.lines \ BannerText(d)}
          plain == \A words \in {l.words : l \in Range(d.lines)} \ {<<>>} :
                     IF IsBanner(words) THEN PlainBanner(words) ELSE ~IsCertificateChain(words)
      IN plain =>
           /\ \A i \in DocumentIdentities(d, profiles) :
                \E l \in outside : i \in CiscoIdentities(d, l) \cup OtherIdentities(d, l)
           /\ \A m \in DocumentModels(d) : \E l \in outside : m \in Claims(l, "fortios_status")
           /\ LooksLikeCisco(d) => Cardinality({SyntaxCategory(l.words) : l \in outside} \ {None}) >= 3

\* The same artifact with nothing in its banners.
BannersBlanked(d) ==
  LET emptied == [d EXCEPT !.lines = [i \in DOMAIN @ |->
                    IF i \in BannerText(d) THEN [@[i] EXCEPT !.words = <<>>, !.says = {}] ELSE @[i]]]
  IN IF d.type = "configuration" THEN emptied ELSE d

\* Banners do not instruct the resolver: what an audit resolves to is what it would
\* resolve to if nothing stood in them (backend/tests/unit/test_profile_resolution.py:393).
\* Published profiles are looked for in the whole text, banners included.
BannersInstructNothing ==
  [][phase = "identifying" /\ phase' # phase =>
       LET blanked == [k \in DOMAIN snapshot.artifacts |-> BannersBlanked(snapshot.artifacts[k])]
       IN resolution' = ResolveProfile(AggregateSnapshotEvidence(blanked).documents, profiles)]_vars

\* The condition of a rule, with the expected value and the parameters of an obligation
\* in place of its own, holds of a value.
Satisfied(o, rule, value) ==
  LET condition == IF o.expected = Absent THEN rule.condition
                   ELSE [rule.condition EXCEPT !.expected = o.expected]
  IN EvaluateCondition(condition, value, ResolveParameter(o.parameters, condition.parameter)) = "pass"

\* An obligation passes only on the one state of its field, when the condition of its
\* evaluator with the values of the pinned obligation holds of that state, and when
\* the finding of that evaluator under the profile is not UNKNOWN
\* (assessment_packs/service.py:313-360).
ObligationPassStandsOnOneState ==
  \A a \in {b \in answers : b.verdict = "pass"} :
    LET rule == RuleFor(rules, a.rule, resolution.profile)
        own == {s \in states : s.field = rule.field}
    IN /\ \E s \in own :
            /\ own = {s} /\ s.status = "resolved" /\ s.sources # {}
            /\ \E p \in pins : \E o \in Range(p.obligations) :
                 /\ a.pack = <<p.key, p.version>> /\ a.obligation = o.key /\ a.rule = o.rule
                 /\ Satisfied(o, rule, s.value)
       /\ \A f \in findings : f.rule = a.rule => f.verdict # "unknown"

\* Rules published later leave every published obligation an evaluator on each
\* of its profiles, so that no audit fails for the lack of one
\* (assessment_packs/catalog.py:385-387, compliance/runtime_rules.py).
ObligationKeepsEvaluator ==
  \A p \in packs : \A o \in Range(p.obligations) :
    Automatic(o) => \A q \in o.profiles : RuleFor(rules, o.rule, q) # NoRule

\* A statement that took the last member out of a collection, and that is doubted about
\* another field, keeps that field from passing: the doubt is not lost because the same
\* statement was understood about the collection (interpretation/service.py:353-435).
DoubtedRemovalNeverPasses ==
  LET Empties(r, n) ==
        \E g \in r.result.facts :
          /\ g.says[1] = "remove" /\ Max(g.lines) = r.ir.nodes[n].first
          /\ \E s \in states : s.field = g.field /\ s.value = <<"list", {}>>
      Doubted(field) ==
        \E r \in reading : \E d \in r.result.doubts : d[2] = field /\ Empties(r, d[1])
  IN /\ \A f \in Passing : ~Doubted(f.field)
     /\ \A a \in answers : a.verdict = "pass" => ~Doubted(RuleFor(rules, a.rule, resolution.profile).field)
=============================================================================
