--------------------------- MODULE AssessmentPacks ---------------------------
(***************************************************************************)
(* Framework catalogs and what an audit says about their obligations       *)
(* (assessment_packs/catalog.py, service.py, contracts.py).                *)
(*                                                                         *)
(* A pack is a version of a catalog.  An obligation of it is "manual",     *)
(* "unimplemented" or "implemented"; an implemented one is automatic and   *)
(* names a rule, the field it needs, and what it asks of its value in      *)
(* place of what the rule asks: an expected value or a parameter.          *)
(***************************************************************************)
EXTENDS ComplianceVerdicts

CONSTANT MaxControls   \* MAX_EXTERNAL_CONTROLS (20,000)

Pack(key, family, version, profiles, obligations) ==
  [key |-> key, family |-> family, version |-> version, profiles |-> profiles,
   obligations |-> obligations]

Obligation(key, profiles, implementation, rule, field, expected, parameters) ==
  [key |-> key, profiles |-> profiles, implementation |-> implementation, rule |-> rule,
   field |-> field, expected |-> expected, parameters |-> parameters]

Automatic(o) == o.implementation = "implemented"

\* Bounds on the obligations of any catalog: some, not too many, no key twice.
Bounded(pack) ==
  /\ pack.profiles # {}
  /\ Len(pack.obligations) \in 1 .. MaxControls
  /\ IsInjective([k \in DOMAIN pack.obligations |-> pack.obligations[k].key])

----------------------------------------------------------------------------
(* Catalogs a customer brings.  CIS and ISO catalogs are lists of manual   *)
(* controls, numbered by the order of their import; their profiles are not *)
(* looked up.                                                              *)

ExternalFamily(framework) == IF framework = "cis" THEN "CIS Benchmark" ELSE "ISO/IEC 27001 Alignment"

ExternalAccepted(pack, framework) ==
  /\ framework \in {"cis", "iso"}
  /\ Bounded(pack)
  /\ \A o \in Range(pack.obligations) :
       o.implementation \in {"manual", "unimplemented"} /\ o.rule = None

ImportExternal(packs, pack, framework) ==
  LET earlier == {p.version : p \in {q \in packs : q.key = pack.key}} IN
  packs \cup {[pack EXCEPT !.family = ExternalFamily(framework), !.version = Max(earlier \cup {0}) + 1,
                           !.obligations = [k \in DOMAIN @ |-> [@[k] EXCEPT !.profiles = pack.profiles]]]}

----------------------------------------------------------------------------
(* Catalogs with evaluators.                                               *)

KnownProfile(profile, runtime) == \E m \in runtime \cup ProfileRegistry : m.profile = profile

\* _runtime_rule: the evaluators of an obligation on its profiles.
Evaluators(o, rules) == {RuleFor(rules, o.rule, p) : p \in o.profiles}

\* There is one on every profile, and it is the same everywhere.
EvaluatorAgreed(o, rules) == NoRule \notin Evaluators(o, rules) /\ Cardinality(Evaluators(o, rules)) = 1

\* _runtime_policy.
PolicyAccepted(o, rule) ==
  LET needed == IF NeedsParameter(rule) THEN {rule.condition.parameter} ELSE {} IN
  /\ DOMAIN o.parameters = needed
  /\ "maximum_admin_idle_timeout_seconds" \in needed =>
       LET limit == o.parameters["maximum_admin_idle_timeout_seconds"] IN
       limit[1] = "number" /\ limit[2] > 0
  /\ o.expected # Absent =>
       rule.condition.expected # Absent /\ o.expected[1] = rule.condition.expected[1]

ObligationAccepted(o, pack, rules) ==
  /\ o.profiles # {} /\ o.profiles \subseteq pack.profiles
  /\ IF Automatic(o)
     THEN /\ EvaluatorAgreed(o, rules)
          /\ \A r \in Evaluators(o, rules) : o.field = r.field /\ PolicyAccepted(o, r)
     ELSE o.rule = None /\ o.parameters = <<>> /\ o.expected = Absent

\* parse_runtime_catalog.
CatalogAccepted(pack, runtime, rules) ==
  /\ pack.version >= 1
  /\ Bounded(pack)
  /\ \A p \in pack.profiles : KnownProfile(p, runtime)
  /\ \A o \in Range(pack.obligations) : ObligationAccepted(o, pack, rules)

\* publish_runtime_catalog: what was accepted is looked at again, and the version
\* is new.
CatalogPublishable(pack, packs, runtime, rules) ==
  /\ \A p \in pack.profiles : KnownProfile(p, runtime)
  /\ \A o \in Range(pack.obligations) : Automatic(o) => EvaluatorAgreed(o, rules)
  /\ \A p \in packs : <<p.key, p.version>> # <<pack.key, pack.version>>

----------------------------------------------------------------------------
(* pin_assessment: the packs an audit answers for.                         *)

Families == {"CIS Benchmark", "NIST SP 800-53", "DISA SRG", "ISO/IEC 27001 Alignment"}

Compatible(packs, profile) == {p \in packs : profile \in p.profiles}

\* One pack that was asked for, or of each framework the newest; nothing when
\* the selection cannot be met.  Equal versions are told apart by their age.
Pins(packs, requested, frameworks, profile) ==
  LET Of(family) == {p \in Compatible(packs, profile) : p.family = family}
      Newest(S) == CHOOSE p \in S : \A q \in S : q.version <= p.version
      unmet == {f \in Range(frameworks) : f \notin Families \/ Of(f) = {}}
  IN IF requested # {} THEN [ok |-> requested \subseteq Compatible(packs, profile), packs |-> requested]
     ELSE [ok |-> unmet = {} /\ IsInjective(frameworks),
           packs |-> {Newest(Of(f)) : f \in Range(frameworks) \ unmet}]

----------------------------------------------------------------------------
(* persist_assessment_results.                                             *)

\* Evidence for the field an obligation needed when it was published: a built-in
\* profile must cover it, of a runtime profile nothing is asked.
EvidenceSupported(o, manifest) ==
  manifest \notin ProfileRegistry \/ o.field \in manifest.fields

Answer(pack, o, applicable, verdict, baseline) ==
  [pack |-> <<pack.key, pack.version>>, obligation |-> o.key, rule |-> o.rule, applicable |-> applicable,
   implementation |-> o.implementation, verdict |-> verdict, baseline |-> baseline]

\* Mutant: Of several states the first one speaks for the device.
ObligationVerdictAnyScope(o, rule, states, verdicts) ==
  LET state == CHOOSE s \in states : TRUE
      condition == IF o.expected = Absent THEN rule.condition ELSE [rule.condition EXCEPT !.expected = o.expected]
      verdict == EvaluateCondition(condition, state.value, ResolveParameter(o.parameters, condition.parameter))
  IN IF "unknown" \in verdicts \/ states = {} THEN "unknown"
     ELSE IF state.status # "resolved" \/ verdict = "error" THEN "unknown"
     ELSE verdict

\* Mutant: The organization's policy stands in for the parameters of the obligation.
ObligationVerdictOfPolicy(o, rule, states, verdicts) ==
  LET state == CHOOSE s \in states : TRUE
      condition == IF o.expected = Absent THEN rule.condition ELSE [rule.condition EXCEPT !.expected = o.expected]
      verdict == EvaluateCondition(condition, state.value, ResolveParameter(DefaultPolicy, condition.parameter))
  IN IF "unknown" \in verdicts \/ \A s \in states : states # {s} THEN "unknown"
     ELSE IF state.status # "resolved" \/ verdict = "error" THEN "unknown"
     ELSE verdict

\* UNKNOWN when the rule is, when there is not exactly one state, or when that
\* state has no value the condition can be asked of.
ObligationVerdict(o, rule, states, verdicts) ==
  LET state == CHOOSE s \in states : TRUE
      condition == IF o.expected = Absent THEN rule.condition ELSE [rule.condition EXCEPT !.expected = o.expected]
      verdict == EvaluateCondition(condition, state.value, ResolveParameter(o.parameters, condition.parameter))
  IN IF "unknown" \in verdicts \/ \A s \in states : states # {s} THEN "unknown"
     ELSE IF state.status # "resolved" \/ verdict = "error" THEN "unknown"
     ELSE verdict

\* What an audit under a profile answers to an obligation, with the rules
\* published by then.
AnswerTo(pack, o, manifest, rules, states, findings) ==
  LET rule == RuleFor(rules, o.rule, manifest.profile)
      own == {f \in findings : f.rule = rule.id}
      applicable == /\ manifest.profile \in o.profiles
                    /\ Automatic(o) => EvidenceSupported(o, manifest)
  IN IF ~applicable \/ ~Automatic(o) THEN Answer(pack, o, applicable, None, {})
     ELSE Answer(pack, o, TRUE,
                 ObligationVerdict(o, rule, {s \in states : s.field = rule.field}, {f.verdict : f \in own}),
                 own)

\* A missing evaluator is an error of the audit.
EvaluatorsPresent(packs, manifest, rules) ==
  \A p \in packs : \A o \in Range(p.obligations) :
    Automatic(o) /\ manifest.profile \in o.profiles /\ EvidenceSupported(o, manifest)
      => RuleFor(rules, o.rule, manifest.profile) # NoRule

Assess(packs, manifest, rules, states, findings) ==
  UNION {{AnswerTo(p, o, manifest, rules, states, findings) : o \in Range(p.obligations)} : p \in packs}

\* coverage_summary.
Coverage(answers) ==
  LET Count(P(_)) == Cardinality({a \in answers : P(a)}) IN
  [selected |-> Cardinality(answers),
   applicable |-> Count(LAMBDA a : a.applicable),
   automatic |-> Count(LAMBDA a : a.implementation = "implemented"),
   unimplemented |-> Count(LAMBDA a : a.implementation = "unimplemented"),
   manual |-> Count(LAMBDA a : a.implementation = "manual"),
   verdicts |-> [v \in {"pass", "fail", "unknown"} |->
                   Count(LAMBDA a : a.implementation = "implemented" /\ a.verdict = v)]]
=============================================================================
