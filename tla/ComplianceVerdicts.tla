------------------------- MODULE ComplianceVerdicts -------------------------
(***************************************************************************)
(* From effective states to the findings of an audit (compliance/): the    *)
(* sealed rules, the conditions they may state, the rules an organization  *)
(* publishes, and the verdict of a rule on each state of its field.        *)
(***************************************************************************)
EXTENDS Interpretation, ProfileResolution

----------------------------------------------------------------------------
(* evaluator.py.  A condition's expected value is <<"number", n>>, where   *)
(* FALSE is 0 and TRUE is 1, or <<"enum", name>>; a policy parameter is    *)
(* <<"number", n>> or <<"list", set of names>>; <<>> is absent.            *)

Absent == <<>>

Condition(operator, expected, parameter, above) ==
  [operator |-> operator, expected |-> expected, parameter |-> parameter, above |-> above]

\* Python's True == 1.
AsNumber(value) == IF value[1] = "boolean" THEN (IF value[2] THEN 1 ELSE 0) ELSE value[2]

Rank(version) == SelectInSeq(TlsVersions, LAMBDA v : v = version)

PassIf(holds) == IF holds THEN "pass" ELSE "fail"

Textual(member) == member[1] \notin {"boolean", "integer", "number", "duration"}

EvaluateCondition(condition, value, parameter) ==
  LET members == IF value[1] = "list" THEN value[2] ELSE {} IN
  CASE condition.operator = "equals" ->
         IF value[1] \notin {"boolean", "integer"} THEN "error"
         ELSE PassIf(<<"number", AsNumber(value)>> = condition.expected)
    [] condition.operator = "less_than_or_equal" ->
         IF value[1] # "duration" \/ parameter = Absent THEN "error"
         ELSE IF parameter[1] # "number" THEN "error"
         ELSE PassIf((\A low \in condition.above : value[2] > low) /\ value[2] <= parameter[2])
    [] condition.operator = "enum_at_least" ->
         IF value[1] # "enum" THEN "error"
         ELSE IF Rank(value[2]) = 0 THEN "error"
         ELSE PassIf(Rank(value[2]) >= Rank(condition.expected[2]))
    [] condition.operator = "non_empty" ->
         IF value[1] # "list" \/ \E m \in members : ~Textual(m) THEN "error" ELSE PassIf(members # {})
    [] condition.operator = "all_members_in_parameter_set" ->
         IF value[1] # "list" \/ (\E m \in members : ~Textual(m)) \/ parameter = Absent THEN "error"
         ELSE IF parameter[1] # "list" THEN "error"
         ELSE PassIf(\A m \in members : m[2] \in parameter[2])

----------------------------------------------------------------------------
(* rule_registry.py.                                                       *)

Rule(id, field, condition) == [id |-> id, field |-> field, condition |-> condition]

\* A rule needs the parameter its condition names.
NeedsParameter(rule) == rule.condition.parameter # None

Equals(n) == Condition("equals", <<"number", n>>, None, {})
NonEmpty == Condition("non_empty", Absent, None, {})
Approved(parameter) == Condition("all_members_in_parameter_set", Absent, parameter, {})
AtLeast(version) == Condition("enum_at_least", <<"enum", version>>, None, {})
Within(parameter) == Condition("less_than_or_equal", Absent, parameter, {0})

BaseRules ==
  <<Rule("management.telnet.disabled", "management.remote.telnet.enabled", Equals(0)),
    Rule("management.ssh.enabled", "management.remote.ssh.enabled", Equals(1)),
    Rule("management.ssh.version_2", "management.remote.ssh.version", Equals(2)),
    Rule("management.source.restriction.configured", "management.remote.source.restriction.configured", Equals(1)),
    Rule("management.idle_timeout.maximum", "management.session.idle_timeout",
         Within("maximum_admin_idle_timeout_seconds")),
    Rule("logging.enabled", "logging.enabled", Equals(1)),
    Rule("logging.remote.destination.configured", "logging.remote.destination", NonEmpty),
    Rule("logging.remote.destination.approved", "logging.remote.destination",
         Approved("approved_logging_destinations")),
    Rule("time.ntp.server.configured", "time.ntp.server", NonEmpty),
    Rule("time.ntp.configured", "time.ntp.configured", Equals(1)),
    Rule("time.ntp.authentication.enabled", "time.ntp.authentication.enabled", Equals(1)),
    Rule("time.ntp.server.approved", "time.ntp.server", Approved("approved_ntp_servers"))>>

Rules ==
  BaseRules \o
  <<Rule("management.http.disabled", "management.remote.http.enabled", Equals(0)),
    Rule("management.https.enabled", "management.remote.https.enabled", Equals(1)),
    Rule("management.tls.minimum_1_2", "management.remote.tls.minimum_version", AtLeast("tlsv1-2")),
    Rule("management.ssh.strong_crypto", "management.remote.ssh.strong_crypto.configured", Equals(1)),
    Rule("logging.administrative_access.enabled", "logging.administrative_access.enabled", Equals(1))>>

\* RULE_PACK_BY_PROFILE: every built-in profile has a pack of the same rules; a
\* runtime profile has none.
RulesOf(profile) == IF \E m \in ProfileRegistry : m.profile = profile THEN Rules ELSE <<>>

\* policy.py: the one policy there is.
DefaultPolicy == "maximum_admin_idle_timeout_seconds" :> <<"number", 600>>

ResolveParameter(policy, name) == IF name \in DOMAIN policy THEN policy[name] ELSE Absent

----------------------------------------------------------------------------
(* runtime_rules.py.  A published version is a rule with its number and    *)
(* the profiles it is for.                                                 *)

OperatorTypes(operator) ==
  CASE operator = "equals" -> {"boolean", "integer"}
    [] operator = "less_than_or_equal" -> {"duration"}
    [] operator = "enum_at_least" -> {"enum"}
    [] OTHER -> {"list"}

\* _definition: no field is of type list, so the operators on collections are
\* never accepted.
WellDefined(rule) ==
  /\ rule.field \in DOMAIN FieldRegistry
  /\ FieldRegistry[rule.field].types \subseteq OperatorTypes(rule.condition.operator)
  /\ rule.profiles # {}
  /\ (rule.condition.operator \in {"equals", "enum_at_least"}) = (rule.condition.expected # Absent)
  /\ NeedsParameter(rule) = (rule.condition.operator \in {"less_than_or_equal", "all_members_in_parameter_set"})
  /\ rule.condition.above # {} => rule.condition.operator = "less_than_or_equal"

\* A field of a built-in profile is one it covers; of a runtime profile, one that a
\* published mapping fills.
FieldSupported(rule, manifest, mapped) ==
  IF manifest \in ProfileRegistry THEN rule.field \in manifest.fields
  ELSE <<manifest.profile, rule.field>> \in mapped

RuleAccepted(rule, runtime, mapped) ==
  /\ WellDefined(rule)
  /\ \A p \in rule.profiles :
       \E m \in runtime \cup ProfileRegistry : m.profile = p /\ FieldSupported(rule, m, mapped)

NextVersion(published, rule) == 1 + Cardinality({r \in published : r.id = rule.id})

NoRule == Rule(None, None, NonEmpty)

\* Mutant: The newest version of a rule stands for all of them.
RuleForNewest(published, id, profile) ==
  LET own == {r \in published : r.id = id}
      newest == CHOOSE r \in own : \A q \in own : q.version <= r.version
      sealed == SelectInSeq(RulesOf(profile), LAMBDA r : r.id = id)
  IN IF own # {} THEN IF profile \in newest.profiles THEN Rule(id, newest.field, newest.condition) ELSE NoRule
     ELSE IF sealed # 0 THEN RulesOf(profile)[sealed]
     ELSE NoRule

\* runtime_rule_for: the newest published version for the profile, or else the
\* sealed rule of that name.
RuleFor(published, id, profile) ==
  LET own == {r \in published : r.id = id /\ profile \in r.profiles}
      newest == CHOOSE r \in own : \A q \in own : q.version <= r.version
      sealed == SelectInSeq(RulesOf(profile), LAMBDA r : r.id = id)
  IN IF own # {} THEN Rule(id, newest.field, newest.condition)
     ELSE IF sealed # 0 THEN RulesOf(profile)[sealed]
     ELSE NoRule

----------------------------------------------------------------------------
(* service.py: evaluate_audit_compliance.                                  *)

Finding(rule, scope, verdict, reason) ==
  [rule |-> rule.id, field |-> rule.field, scope |-> scope, verdict |-> verdict, reason |-> reason]

\* A block of the time before blocks named rules and fields is about all rules.
Historical(block) == block.rules = {} /\ block.fields = {} /\ block.node # 0

BlockersOf(rule, blocks) == {b \in blocks : rule.id \in b.rules \/ Historical(b)}

StateReason(state) == IF state.status = "conflicting" THEN "conflicting_evidence" ELSE "unknown_semantics"

\* The verdict on one state of the field: a state without a value is UNKNOWN, a
\* missing parameter needs a reviewer, and blocks turn a PASS into UNKNOWN.
FindingOn(rule, state, blocks, policy) ==
  LET parameter == ResolveParameter(policy, rule.condition.parameter)
      verdict == EvaluateCondition(rule.condition, state.value, parameter)
  IN IF state.status # "resolved" THEN Finding(rule, state.scope, "unknown", StateReason(state))
     ELSE IF NeedsParameter(rule) /\ parameter = Absent THEN Finding(rule, state.scope, "manual_review", None)
     ELSE IF verdict = "error" THEN Finding(rule, state.scope, "process_error", None)
     ELSE IF verdict = "pass" /\ BlockersOf(rule, blocks) # {}
          THEN Finding(rule, state.scope, "unknown", "unsupported_feature")
     ELSE Finding(rule, state.scope, verdict, None)

FindingsOfRule(rule, states, blocks, policy) ==
  LET own == {s \in states : s.field = rule.field} IN
  IF own = {} THEN {Finding(rule, NoScope, "unknown", "missing_evidence")}
  ELSE {FindingOn(rule, s, blocks, policy) : s \in own}

\* The rule pack an audit is pinned to: its profile's, or for a runtime profile
\* the generic one of its reader, which does not apply to it.
PinnedRules(manifest) ==
  IF manifest \in ProfileRegistry THEN [profile |-> manifest.profile, rules |-> RulesOf(manifest.profile)]
  ELSE [profile |-> CASE manifest.reader = "xml_tree" -> GenericXml.profile
                      [] manifest.reader = "json_tree" -> GenericJson.profile
                      [] OTHER -> GenericCli.profile,
        rules |-> Rules]

Applicability(resolution, pack) ==
  IF resolution.status # "resolved" THEN "unresolved"
  ELSE IF resolution.profile # pack.profile THEN "not_applicable"
  ELSE "applicable"

EvaluateCompliance(resolution, pack, states, blocks, policy) ==
  LET applicability == Applicability(resolution, pack)
      Of(rule) ==
        CASE applicability = "not_applicable" -> {Finding(rule, NoScope, "not_applicable", None)}
          [] applicability = "unresolved" -> {Finding(rule, NoScope, "unknown", "unsupported_profile")}
          [] OTHER -> FindingsOfRule(rule, states, blocks, policy)
  IN UNION {Of(pack.rules[k]) : k \in DOMAIN pack.rules}
=============================================================================
