--------------------------- MODULE Interpretation ---------------------------
(***************************************************************************)
(* From the structure of a configuration to facts, doubts and unresolved   *)
(* blocks (interpretation/service.py, extractors.py, scopes.py, and the    *)
(* mapping language of training/dsl.py).                                   *)
(*                                                                         *)
(* A statement that a mapping understands becomes a fact.  One that a      *)
(* mapping is about but does not understand is a doubt, a diagnostic about *)
(* the field of that mapping.  One that no mapping makes a fact of is      *)
(* unresolved: a block that keeps the rules it may affect from passing.    *)
(*                                                                         *)
(* A value is <<type, value, the words it was written with>>: facts are    *)
(* compared with their original spelling.                                  *)
(***************************************************************************)
EXTENDS ConfigurationReader, KnowledgePacks, EffectiveStates

CONSTANTS
  Number,    \* numeric words to their numbers
  Endpoint,  \* words that name a host to their canonical <<type, value>>
  Network,   \* <<address, mask>> to a canonical network
  Names      \* words that are well-formed names of access lists

Numeric(w) == w \in DOMAIN Number

----------------------------------------------------------------------------
(* Extractors: a value, NoValue with a diagnostic, or nothing to say.      *)

NoValue == <<"no_value">>
Silent == <<"silent">>

Bool(b, args) == <<"boolean", b, args>>

TransportInput(args, protocol) ==
  LET protocols == Tail(args) IN
  IF Len(args) < 2 \/ Head(args) # "input" THEN NoValue
  ELSE IF protocols = <<"none">> THEN Bool(FALSE, args)
  ELSE IF protocols \in {<<"telnet">>, <<"ssh">>, <<"telnet", "ssh">>, <<"ssh", "telnet">>}
       THEN Bool(protocol \in ToSet(protocols), args)
  ELSE NoValue

ExecTimeout(args) ==
  IF Len(args) \notin {1, 2} \/ \E w \in ToSet(args) : ~Numeric(w) THEN NoValue
  ELSE LET minutes == Number[args[1]]
           seconds == IF Len(args) = 2 THEN Number[args[2]] ELSE 0
       IN IF minutes > 35791 \/ seconds > 59 THEN NoValue
          ELSE <<"duration", minutes * 60 + seconds, args>>

\* One word of minutes, at most so many.
Minutes(words, limit) ==
  IF Len(words) # 1 \/ ~Numeric(words[1]) THEN NoValue
  ELSE IF Number[words[1]] > limit THEN NoValue
  ELSE <<"duration", Number[words[1]] * 60, words>>

HostAfter(args, prefix) ==
  IF Len(args) # 2 \/ Head(args) # prefix \/ args[2] \notin DOMAIN Endpoint THEN NoValue
  ELSE Append(Endpoint[args[2]], <<args[2]>>)

AllowAccessTo(args, protocol) ==
  LET services == {"http", "https", "ping", "snmp", "ssh", "telnet", "fgfm", "ftm", "none"}
      tokens == Tail(args)
  IN IF Len(args) < 2 \/ Head(args) # "allowaccess" \/ ~(ToSet(tokens) \subseteq services) THEN NoValue
     ELSE Bool(protocol \in ToSet(tokens), args)

TrustHost(args) ==
  IF args = <<>> \/ Head(PiecesOf(Head(args))) # "trusthost" THEN Silent
  ELSE LET suffix == Tail(PiecesOf(Head(args))) IN
       IF \/ Len(args) # 3
          \/ suffix = <<>> \/ ~Numeric(Head(suffix)) \/ Number[Head(suffix)] \notin 1 .. 10
          \/ <<args[2], args[3]>> \notin DOMAIN Network
       THEN NoValue
       ELSE <<"ip_network", Network[<<args[2], args[3]>>], Tail(args)>>

TlsVersions == <<"tlsv1-0", "tlsv1-1", "tlsv1-2", "tlsv1-3">>

TlsMinimum(args) ==
  LET ranks == {k \in DOMAIN TlsVersions : TlsVersions[k] \in ToSet(Tail(args))} IN
  IF \/ Len(args) < 2 \/ Head(args) # "admin-https-ssl-versions"
     \/ ~(ToSet(Tail(args)) \subseteq ToSet(TlsVersions))
  THEN NoValue
  ELSE <<"enum", TlsVersions[Min(ranks)], args>>

ServiceAclShape(args) ==
  /\ Len(args) \in {3, 5} /\ Head(args) = "access-group" /\ Last(args) = "in"
  /\ Len(args) = 5 => args[3] = "vrf"
  /\ {args[2]} \cup (IF Len(args) = 5 THEN {args[4]} ELSE {}) \subseteq Names

\* A presence extractor that first asks whether the statement makes sense.
PresentIf(valid, args) == IF valid THEN Bool(TRUE, args) ELSE NoValue

\* EXTRACTORS
Extract(extractor, args) ==
  CASE extractor = "transport_telnet" -> TransportInput(args, "telnet")
    [] extractor = "transport_ssh" -> TransportInput(args, "ssh")
    [] extractor = "duration_minutes_seconds" -> ExecTimeout(args)
    [] extractor = "duration_minutes" -> Minutes(args, 86400)
    [] extractor = "fortios_timeout" ->
         IF args = <<>> \/ Head(args) # "admintimeout" THEN NoValue ELSE Minutes(Tail(args), 35791)
    [] extractor = "ssh_version" ->
         IF Len(args) = 3 /\ args[3] \in {"1", "2"} THEN <<"integer", Number[args[3]], <<args[3]>>>> ELSE NoValue
    [] extractor = "logging_destination" -> HostAfter(args, "host")
    [] extractor \in {"ntp_server", "fortios_server"} -> HostAfter(args, "server")
    [] extractor = "ntp_configured" -> PresentIf(HostAfter(args, "server") # NoValue, args)
    [] extractor = "presence_enabled" -> Bool(TRUE, args)
    [] extractor = "presence_disabled" -> Bool(FALSE, args)
    [] extractor = "cisco_access_class" ->
         PresentIf(Len(args) = 2 /\ args[2] = "in" /\ args[1] \in Names, args)
    [] extractor = "arista_service_acl" -> PresentIf(ServiceAclShape(args), args)
    [] extractor = "ntp_key_id" ->
         IF Len(args) >= 2 /\ Numeric(args[2]) THEN <<"integer", Number[args[2]], <<args[2]>>>> ELSE NoValue
    [] extractor = "fortios_allowaccess_telnet" -> AllowAccessTo(args, "telnet")
    [] extractor = "fortios_allowaccess_ssh" -> AllowAccessTo(args, "ssh")
    [] extractor = "fortios_allowaccess_https" -> AllowAccessTo(args, "https")
    [] extractor = "fortios_allowaccess_http" -> AllowAccessTo(args, "http")
    [] extractor = "fortios_trusthost_network" -> TrustHost(args)
    [] extractor = "fortios_trusthost_restriction" ->
         IF TrustHost(args) \in {NoValue, Silent} THEN TrustHost(args) ELSE Bool(TRUE, args)
    [] extractor = "fortios_tls_minimum" -> TlsMinimum(args)

----------------------------------------------------------------------------
(* Where a statement stands.  Nodes are numbered in document order.        *)

ParentOf(node) == IF node.context = {} THEN 0 ELSE Max(node.context)

\* The first ancestor above the parent that has the command.
AncestorWith(nodes, node, command) ==
  LET above == {a \in node.context \ {ParentOf(node)} : nodes[a].command = command}
  IN IF above = {} THEN 0 ELSE Max(above)

Matches(m, nodes, node) ==
  LET parent == ParentOf(node)
      ancestor == AncestorWith(nodes, node, m.ancestor)
  IN /\ node.command = m.command /\ IsPrefix(m.args, node.args)
     /\ m.parent # "" =>
          /\ parent # 0
          /\ nodes[parent].command = m.parent /\ IsPrefix(m.parentArgs, nodes[parent].args)
          /\ m.ancestor # "" =>
               ancestor # 0 /\ IsPrefix(m.ancestorArgs, nodes[ancestor].args)

NoScope == <<"no_scope">>

\* A scope, and the node it comes from.
Scoped(scope, context) == [scope |-> scope, context |-> context]

VtyRange(nodes, parent) ==
  LET args == IF parent = 0 THEN <<>> ELSE nodes[parent].args
      bounds == Tail(args)
      ok == /\ parent # 0 /\ nodes[parent].command = "line"
            /\ Len(args) \in {2, 3} /\ Head(args) = "vty"
            /\ \A w \in ToSet(bounds) : Numeric(w)
            /\ Number[Head(bounds)] <= Number[Last(bounds)] /\ Number[Last(bounds)] <= 999
  IN IF ok THEN <<"vty_range", Number[Head(bounds)], Number[Last(bounds)]>> ELSE NoScope

\* The name of the edit block directly inside config system <what>.
EditName(nodes, edit, what, type) ==
  LET config == IF edit = 0 THEN 0 ELSE ParentOf(nodes[edit])
      ok == /\ config # 0
            /\ nodes[edit].command = "edit" /\ Len(nodes[edit].args) = 1
            /\ nodes[config].command = "config" /\ nodes[config].args = <<"system", what>>
  IN IF ok THEN <<type, nodes[edit].args[1]>> ELSE NoScope

ManagementService(nodes, parent) ==
  IF parent # 0 /\ nodes[parent].command = "management" /\ nodes[parent].args = <<"ssh">>
  THEN <<"management_service", "ssh">> ELSE NoScope

\* SCOPE_RESOLVERS: all but that of the device look at the parent.
ScopeOf(resolver, nodes, node) ==
  LET parent == ParentOf(node) IN
  Scoped(CASE resolver = "device" -> Device
           [] resolver = "vty_range" -> VtyRange(nodes, parent)
           [] resolver = "interface" -> EditName(nodes, parent, "interface", "interface")
           [] resolver = "administrator" -> EditName(nodes, parent, "admin", "administrator")
           [] resolver = "arista_management_service" -> ManagementService(nodes, parent),
         IF resolver = "device" THEN 0 ELSE parent)

----------------------------------------------------------------------------
(* The mapping language.  A trained mapping matches a command, its         *)
(* surroundings and a pattern of arguments, and captures words.            *)

NoCapture == <<"mismatch">>

\* A captured word as a value of the kind the mapping declares.
TypedWord(w, kind) ==
  CASE kind \in {"integer", "number"} -> IF Numeric(w) THEN <<kind, Number[w]>> ELSE NoCapture
    [] kind = "boolean" -> IF w \in {"true", "false"} THEN <<"boolean", w = "true">> ELSE NoCapture
    [] OTHER -> <<"string", w>>

\* Walking the patterns along the arguments: how far, and what was captured.
Walk(patterns, args) ==
  LET Step(acc, p) ==
        LET here == acc.at <= Len(args)
            w == args[acc.at]
            captured == TypedWord(w, p.type)
        IN IF ~acc.ok THEN acc
           ELSE IF p.op = "optional" THEN [acc EXCEPT !.at = IF here /\ w = p.value THEN @ + 1 ELSE @]
           ELSE IF ~here THEN [acc EXCEPT !.ok = FALSE]
           ELSE IF p.op = "literal" THEN [acc EXCEPT !.ok = (w = p.value), !.at = @ + 1]
           ELSE IF p.op = "one_of" THEN [acc EXCEPT !.ok = w \in p.options, !.at = @ + 1]
           ELSE [acc EXCEPT !.ok = captured # NoCapture, !.at = @ + 1,
                            !.captures = Append(@, <<p.value, captured>>)]
  IN FoldLeft(Step, [ok |-> TRUE, at |-> 1, captures |-> <<>>], patterns)

\* The last capture of that name.
Captured(captures, name) == captures[SelectLastInSeq(captures, LAMBDA c : c[1] = name)][2]

MatchesTrained(m, nodes, node) ==
  LET above == {nodes[a].command : a \in node.context}
      parent == ParentOf(node)
      count == Len(node.args)
  IN /\ IF m.prefix THEN Head(PiecesOf(node.command)) = m.command ELSE node.command = m.command
     /\ m.negated # "any" => node.negated = (m.negated = "yes")
     /\ m.parent # "" => parent # 0 /\ nodes[parent].command = m.parent
     /\ m.ancestors \subseteq above
     /\ m.scopeType \in {"", m.scope}
     /\ m.minimum <= count /\ count <= m.maximum
     /\ Walk(m.patterns, node.args).ok

\* What a value of one kind can become without being rejected.
Fits(kind, output) ==
  \/ kind = output
  \/ kind = "integer" /\ output \in {"duration", "number"}
  \/ kind = "number" /\ output = "duration"
  \/ kind = "string" /\ output \in {"enum", "ip_address", "ip_network"}

Converted(v, unit) ==
  CASE unit = "minutes_to_seconds" -> v * 60
    [] unit = "hours_to_seconds" -> v * 3600
    [] OTHER -> v

Raised == <<"raised">>

\* extract(): a value, or an exception that nothing on the way up handles.
ExtractTrained(m, captures) ==
  LET one == Captured(captures, m.capture)
      parts == [k \in DOMAIN m.parts |-> Captured(captures, m.parts[k])[2]]
      weight == IF Len(parts) = 2 THEN <<60, 1>> ELSE [k \in DOMAIN parts |-> 1]
      value == CASE m.operation = "constant" -> m.constant
                 [] m.operation = "boolean_from_presence" -> <<"boolean", TRUE>>
                 [] m.operation \in {"capture", "integer"} -> one
                 [] m.operation = "enum_mapping" ->
                      IF one[2] \in DOMAIN m.enum THEN <<"string", m.enum[one[2]]>> ELSE Raised
                 [] m.operation = "duration_from_parts" ->
                      <<"number", FoldLeftDomain(LAMBDA acc, k : acc + weight[k] * parts[k], 0, parts)>>
  IN IF value = Raised \/ ~Fits(value[1], m.outputType) THEN Raised
     ELSE <<m.outputType, Converted(value[2], m.unit), <<>> >>

----------------------------------------------------------------------------
(* One statement under one mapping.                                        *)

About(m, nodes, node) ==
  IF m.kind = "sealed" THEN Matches(m.matcher, nodes, node)
  ELSE m.kind = "trained" /\ MatchesTrained(m, nodes, node)

ValueOf(m, node) ==
  IF m.kind = "sealed" THEN Extract(m.extractor, node.args)
  ELSE ExtractTrained(m, Walk(m.patterns, node.args).captures)

\* The outcome of a statement under a mapping that is about it.
Outcome(verdict, op, value, place) ==
  [verdict |-> verdict, says |-> <<op, value>>, scope |-> place.scope, context |-> place.context]

Nothing(verdict) == Outcome(verdict, "none", NoValue, Scoped(NoScope, 0))

\* A reset is understood only without further words.
ResetWords(m, node) == node.args = (IF m.kind = "sealed" THEN m.matcher.args ELSE <<>>)

\* How the resolver will read a removal: a trained mapping version has no removal
\* identity of its own, and only a null value makes its facts anything but ASSIGN.
RemovalOperation(m) == IF m.kind = "sealed" THEN "remove" ELSE "assign"

ReadNegated(m, nodes, node) ==
  LET place == ScopeOf(m.scope, nodes, node)
      value == ValueOf(m, node)
  IN IF m.negation = "unsupported" \/ node.status # "parsed" \/ place.scope = NoScope THEN Nothing("doubt")
     ELSE IF m.negation = "reset_to_default"
          THEN IF ResetWords(m, node) /\ place.scope[1] \in FieldRegistry[m.field].scopes
               THEN Outcome("fact", "reset", Null, place)
               ELSE Nothing("doubt")
     ELSE IF value = Raised THEN Nothing("raised")
     ELSE IF value \in {NoValue, Silent} THEN Nothing("doubt")
     ELSE IF m.negation = "remove_value" THEN Outcome("fact", RemovalOperation(m), value, place)
     ELSE IF value[1] = "boolean" THEN Outcome("fact", "assign", [value EXCEPT ![2] = ~@], place)
     ELSE Nothing("doubt")

ReadPositive(m, nodes, node) ==
  LET place == ScopeOf(m.scope, nodes, node)
      value == ValueOf(m, node)
  IN IF node.status # "parsed" \/ value = NoValue THEN Nothing("doubt")
     ELSE IF value = Raised THEN Nothing("raised")
     ELSE IF value = Silent THEN Nothing("silent")
     ELSE IF place.scope = NoScope THEN Nothing("doubt")
     ELSE Outcome("fact", "assign", value, place)

Reading(m, nodes, node) ==
  IF node.negated THEN ReadNegated(m, nodes, node) ELSE ReadPositive(m, nodes, node)

----------------------------------------------------------------------------
(* A whole document.                                                       *)

Fact(artifact, node, lines, field, scope, says) ==
  [artifact |-> artifact, lines |-> lines, field |-> field, scope |-> scope, says |-> says,
   negated |-> node.negated]

\* Mutant: A statement that some mapping understood in part counts as understood.
UnresolvedNodesUnlessConsidered(nodes, readings) ==
  {n \in DOMAIN nodes : nodes[n].kind # "comment" /\ \A r \in readings : r.node # n /\ r.out.context # n}

\* What is neither matched nor the context of a positive fact.
UnresolvedNodes(nodes, readings) ==
  {n \in DOMAIN nodes :
     /\ nodes[n].kind # "comment"
     /\ \A r \in readings : r.out.verdict = "fact" =>
          r.node # n /\ (r.out.context = n => nodes[r.node].negated)}

\* A pack with a trained mapping asks every statement for a command.
WithoutCommand(pack, nodes) ==
  /\ \E k \in DOMAIN pack : pack[k].kind = "trained"
  /\ \E n \in DOMAIN nodes : nodes[n].kind = "statement" /\ nodes[n].command = NoCommand

InterpretStructural(doc, ir, pack) ==
  LET nodes == ir.nodes
      considered == {c \in (DOMAIN nodes) \X (DOMAIN pack) :
                       nodes[c[1]].kind = "statement" /\ About(pack[c[2]], nodes, nodes[c[1]])}
      readings == {[node |-> c[1], field |-> pack[c[2]].field,
                    out |-> Reading(pack[c[2]], nodes, nodes[c[1]])] : c \in considered}
      Lines(r) == {nodes[r.node].first} \cup (IF r.out.context = 0 THEN {} ELSE {nodes[r.out.context].first})
  IN [facts |-> {Fact(doc.name, nodes[r.node], Lines(r), r.field, r.out.scope, r.out.says) :
                   r \in {q \in readings : q.out.verdict = "fact"}},
      doubts |-> {<<r.node, r.field>> : r \in {q \in readings : q.out.verdict = "doubt"}},
      unresolved |-> UnresolvedNodes(nodes, readings),
      raised |-> WithoutCommand(pack, nodes) \/ \E r \in readings : r.out.verdict = "raised"]

\* Segments <<name, occurrence>>; occurrence 0 of a mapping matches any.
PathMatches(m, path) ==
  /\ Len(m.path) = Len(path)
  /\ \A k \in DOMAIN path : m.path[k][1] = path[k][1] /\ m.path[k][2] \in {0, path[k][2]}

TreeValue(m, node) ==
  LET w == IF node.text = <<>> THEN "" ELSE Head(node.text)
      typed == TypedWord(w, m.valueType)
  IN IF m.source = "presence" THEN <<"boolean", TRUE, <<>> >>
     ELSE IF w = "" \/ typed = NoCapture THEN Silent
     ELSE IF ~Fits(typed[1], m.outputType) THEN NoValue
     ELSE <<m.outputType, Converted(typed[2], m.unit), <<>> >>

\* xml_match_has_unsupported_qualifier: an element next to the matched one.
Qualified(m, nodes, n) ==
  /\ nodes[n].parent # 0
  /\ \E k \in DOMAIN nodes : nodes[k].parent = nodes[n].parent /\ Last(nodes[k].path)[1] \in m.qualifiers

TreeLeaves(doc, nodes) ==
  IF doc.shape = "json" THEN {n \in DOMAIN nodes : nodes[n].text # <<>>}
  ELSE DOMAIN nodes \ {nodes[n].parent : n \in DOMAIN nodes}

TreeOutcome(m, nodes, n) ==
  LET value == TreeValue(m, nodes[n]) IN
  IF m.operation = "xml_path" /\ Qualified(m, nodes, n) THEN NoValue ELSE value

\* A JSON document that was cut gives no facts; an XML document is read as it is.
InterpretTree(doc, ir, pack) ==
  LET nodes == ir.nodes
      cut == doc.shape = "json" /\ ir.truncated
      AboutNode(m, node) ==
        /\ m.kind = "tree"
        /\ m.operation = (IF doc.shape = "xml" THEN "xml_path" ELSE "json_path")
        /\ PathMatches(m, node.path)
        /\ TreeValue(m, node) # Silent
      considered == {c \in (DOMAIN nodes) \X (DOMAIN pack) : ~cut /\ AboutNode(pack[c[2]], nodes[c[1]])}
      facts == {c \in considered : TreeOutcome(pack[c[2]], nodes, c[1]) # NoValue}
      plain == [negated |-> FALSE]
  IN [facts |-> {Fact(doc.name, plain, {c[1]}, pack[c[2]].field, Device,
                      <<"assign", TreeOutcome(pack[c[2]], nodes, c[1])>>) : c \in facts},
      doubts |-> {<<c[1], pack[c[2]].field>> : c \in considered \ facts},
      unresolved |-> TreeLeaves(doc, nodes) \ {c[1] : c \in facts},
      raised |-> FALSE]

Interpret(doc, ir, pack) ==
  IF doc.shape \in {"xml", "json"} THEN InterpretTree(doc, ir, pack) ELSE InterpretStructural(doc, ir, pack)

----------------------------------------------------------------------------
(* _persist_unresolved_blocks.                                             *)

\* The rules that a block about these fields keeps from passing.
AffectedRules(rules, fields) == {rules[k].id : k \in {j \in DOMAIN rules : rules[j].field \in fields}}

RuleFields(rules) == {rules[k].field : k \in DOMAIN rules}

\* A statement of identity alone can state nothing about a field.
IdentityOnly(profile, node) == node.kind = "statement" /\ node.command \in profile.identityOnly

Block(artifact, node, fields, rules) ==
  [artifact |-> artifact, node |-> node, fields |-> fields, rules |-> rules]

BlockOf(doc, ir, result, n, profile, rules) ==
  LET doubted == {d[2] : d \in {e \in result.doubts : e[1] = n}}
      incomplete == /\ doc.shape \notin {"xml", "json"}
                    /\ ir.nodes[n].kind = "opaque" /\ ir.nodes[n].status # "opaque"
      everything == doubted = {} \/ profile.generic \/ incomplete
      all == IF rules = <<>> THEN profile.fields ELSE RuleFields(rules)
  IN IF everything THEN Block(doc.name, n, all, AffectedRules(rules, all))
     ELSE Block(doc.name, n, doubted, AffectedRules(rules, doubted))

DocumentBlocks(doc, ir, result, profile, rules) ==
  {BlockOf(doc, ir, result, n, profile, rules) :
     n \in {k \in result.unresolved :
              doc.shape \in {"xml", "json"} \/ ~IdentityOnly(profile, ir.nodes[k])}}

\* A configuration in a form that the profile does not read.
ConfigurationLike(doc, identified) ==
  \/ doc.type = "configuration"
  \/ doc.type = "unknown_evidence" /\ doc.name \notin identified
  \/ doc.type = "structured_export" /\ doc.configFile

UnreadBlock(doc, profile, rules) ==
  LET all == IF rules = <<>> THEN profile.fields ELSE RuleFields(rules)
  IN Block(doc.name, 0, all, AffectedRules(rules, all))
=============================================================================
