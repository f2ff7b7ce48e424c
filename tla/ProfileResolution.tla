------------------------- MODULE ProfileResolution -------------------------
(***************************************************************************)
(* Which device profile the evidence of a snapshot speaks for              *)
(* (profile_resolution/evidence.py, resolver.py, registry.py, runtime.py). *)
(*                                                                         *)
(* A line carries, in "says", what the patterns of the resolver find in    *)
(* it: pairs of a kind of claim and a value.  A version is a pair of its   *)
(* numbers and its suffix; one that cannot be parsed has no numbers.       *)
(***************************************************************************)
EXTENDS ConfigurationReader

CONSTANTS
  MaxArtifacts,        \* MAX_SNAPSHOT_ARTIFACTS (100)
  MaxArtifactLines,    \* MAX_ARTIFACT_INSPECTION_BYTES, in lines
  MaxSnapshotLines,    \* MAX_SNAPSHOT_INSPECTION_BYTES, in lines
  MaxInspectedLines,   \* MAX_LINES_PER_ARTIFACT (10,000)
  HeadLines            \* the first 4,096 characters, in lines

ASSUME InspectionLimit == MaxInspectedLines \in Nat

None == "none"

----------------------------------------------------------------------------
(* evidence.py: bounded prefixes of the artifacts, identity output first.  *)

EvidencePriority ==
  <<"version_output", "inventory_output", "operational_output", "structured_export",
    "configuration", "unknown_evidence">>

\* Artifacts in the order of their identifiers, sorted by what they are.
InPriority(artifacts) ==
  FlattenSeq([p \in DOMAIN EvidencePriority |->
                SelectSeq(artifacts, LAMBDA a : a.type = EvidencePriority[p])])

InspectedPrefix(artifact, remaining) ==
  LET limit == Min({MaxArtifactLines, remaining, Len(artifact.lines)}) IN
  [artifact EXCEPT !.lines = SubSeq(@, 1, limit),
                   !.cut = @ \/ limit < Len(artifact.lines)]

\* An artifact that cannot be read is an issue; when the budget of the snapshot
\* is spent the rest is not looked at.
AggregateSnapshotEvidence(artifacts) ==
  LET all == InPriority(artifacts)
      Inspect(acc, a) ==
        LET document == InspectedPrefix(a, MaxSnapshotLines - acc.spent) IN
        IF acc.stopped THEN acc
        ELSE IF acc.spent >= MaxSnapshotLines THEN [acc EXCEPT !.stopped = TRUE, !.issues = @ + 1]
        ELSE IF ~a.readable THEN [acc EXCEPT !.issues = @ + 1]
        ELSE [acc EXCEPT !.documents = Append(@, document), !.spent = @ + Len(document.lines)]
      start == [documents |-> <<>>, spent |-> 0, stopped |-> FALSE,
                issues |-> IF Len(all) > MaxArtifacts THEN 1 ELSE 0]
  IN FoldLeft(Inspect, start, SubSeq(all, 1, Min({Len(all), MaxArtifacts})))

----------------------------------------------------------------------------
(* registry.py: version constraints and the built-in manifests.            *)

LexLess(a, b) ==
  \/ IsStrictPrefix(a, b)
  \/ \E k \in DOMAIN a \cap DOMAIN b : SubSeq(a, 1, k - 1) = SubSeq(b, 1, k - 1) /\ a[k] < b[k]

UpTo(numbers, bound) == SubSeq(numbers, 1, Min({Len(numbers), Len(bound)}))

\* Bounds are compared with as much of the version as they have themselves; an
\* empty bound is no bound.
Accepts(constraint, version) ==
  LET numbers == version[1] IN
  /\ numbers # <<>>
  /\ {version, <<numbers, "">>} \cap constraint.excluded = {}
  /\ constraint.majors # {} => Head(numbers) \in constraint.majors
  /\ ~LexLess(UpTo(numbers, constraint.minimum), constraint.minimum)
  /\ ~LexLess(constraint.maximum, UpTo(numbers, constraint.maximum))

AnyVersion == [majors |-> {}, minimum |-> <<>>, maximum |-> <<>>, excluded |-> {}]

Majors(S) == [AnyVersion EXCEPT !.majors = S]

Manifest(profile, vendor, os, constraint, reader, types, fields) ==
  [profile |-> profile, vendor |-> vendor, os |-> os, constraint |-> constraint,
   reader |-> reader, types |-> types, fields |-> fields, tokens |-> {}, selector |-> <<>>,
   identityOnly |-> {}, generic |-> FALSE]

\* canonical_fields of the coverage manifests.
Everywhere ==
  {"management.remote.ssh.enabled", "management.remote.telnet.enabled", "management.session.idle_timeout",
   "logging.remote.destination", "time.ntp.server", "time.ntp.configured"}

IosXe17 ==
  [Manifest("cisco.ios_xe.17", "Cisco", "IOS XE", Majors({17}), "indentation_cli", {"configuration"},
            Everywhere \cup
            {"management.remote.ssh.version", "management.remote.http.enabled",
             "management.remote.source.restriction.configured", "logging.enabled",
             "time.ntp.authentication.enabled", "time.ntp.authentication.key_id",
             "time.ntp.authentication.trusted_key_id"})
     EXCEPT !.identityOnly = {"hostname"}]

Fortios7 ==
  Manifest("fortinet.fortios.7", "Fortinet", "FortiOS", Majors({7}), "fortios_cli", {"configuration"},
           Everywhere \cup
           {"management.remote.http.enabled", "management.remote.https.enabled",
            "management.remote.tls.minimum_version", "management.remote.source.restriction.configured",
            "management.remote.source.permitted_network", "logging.enabled"})

Junos18 ==
  [Manifest("juniper.junos.18", "Juniper", "Junos",
            [AnyVersion EXCEPT !.minimum = <<18, 4>>, !.maximum = <<18, 4>>],
            "xml_tree", {"structured_export"}, Everywhere)
     EXCEPT !.selector = <<"rpc-reply", "configuration", "version">>]

Eos4 ==
  Manifest("arista.eos.4", "Arista", "EOS", Majors({4}), "indentation_cli", {"configuration"},
           Everywhere \cup {"management.remote.source.restriction.configured"})

Generic(profile, os, reader, types) ==
  [Manifest(profile, "Generic", os, Majors({1}), reader, types, {}) EXCEPT !.generic = TRUE]

GenericCli == Generic("generic.cli", "CLI", "indentation_cli", {"configuration", "unknown_evidence"})
GenericXml == Generic("generic.xml", "XML", "xml_tree", {"structured_export"})
GenericJson == Generic("generic.json", "JSON", "json_tree", {"structured_export"})

ProfileRegistry == {IosXe17, Fortios7, Junos18, Eos4, GenericCli, GenericXml, GenericJson}

CompatibleManifests(vendor, os, version) ==
  {m \in ProfileRegistry : m.vendor = vendor /\ m.os = os /\ Accepts(m.constraint, version)}

\* profile_for: a published runtime manifest, or a built-in one.  An organization
\* cannot publish a manifest under a built-in name.
ProfileFor(profile, runtime) ==
  LET known == {m \in runtime \cup ProfileRegistry : m.profile = profile}
  IN CHOOSE m \in known : TRUE

Publishable(manifest, runtime) ==
  /\ \A m \in runtime \cup ProfileRegistry : m.profile # manifest.profile
  /\ manifest.tokens # {}
  /\ manifest.types # {}
  /\ manifest.types \subseteq
       (CASE manifest.reader = "indentation_cli" -> {"configuration", "unknown_evidence"}
          [] manifest.reader \in {"xml_tree", "json_tree"} -> {"structured_export"}
          [] OTHER -> {})
  /\ manifest.selector # <<>> => manifest.reader = "xml_tree"

----------------------------------------------------------------------------
(* resolver.py: what one document says.                                    *)

Claims(line, kind) == {c[2] : c \in {d \in line.says : d[1] = kind}}

Text(words) == FlattenSeq([k \in DOMAIN words |-> PiecesOf(words[k])])

\* How often the delimiter, a run of pieces, occurs in the text.
Occurrences(delimiter, text) ==
  Cardinality({k \in 1 .. Len(text) - Len(delimiter) + 1 :
                 SubSeq(text, k, k + Len(delimiter) - 1) = delimiter})

\* Mutant: Lines of a banner are evidence like any others.
DataLinesWithBanners(doc) ==
  SelectSeq(SubSeq(doc.lines, 1, Min({Len(doc.lines), MaxInspectedLines})),
            LAMBDA line : doc.type # "configuration" \/
              (line.words # <<>> /\ Head(Text(line.words)) \notin {"!", "#", ";"}))

\* The delimiter of the banner that a line is in, and the lines that were kept.  Here the
\* delimiter of a banner is the whole first word of its text.
Scan(acc, line) ==
  LET text == Text(line.words)
      banner == Len(line.words) >= 3 /\ Head(line.words) = "banner"
      delimiter == PiecesOf(line.words[3])
  IN IF acc.delimiter # <<>>
       THEN IF Occurrences(acc.delimiter, text) > 0 THEN [acc EXCEPT !.delimiter = <<>>] ELSE acc
     ELSE IF text = <<>> \/ Head(text) \in {"!", "#", ";"} THEN acc
     ELSE IF banner
       THEN IF Occurrences(delimiter, text) < 2 THEN [acc EXCEPT !.delimiter = delimiter] ELSE acc
     ELSE [acc EXCEPT !.kept = Append(@, line)]

NothingScanned == [delimiter |-> <<>>, kept |-> <<>>]

ScannedFrom(lines) ==
  LET scanned[i \in 0 .. Len(lines)] == IF i = 0 THEN NothingScanned ELSE Scan(scanned[i - 1], lines[i])
  IN scanned

\* The lines that count: in a configuration neither comments nor banners.
DataLines(doc) ==
  LET inspected == Min({Len(doc.lines), MaxInspectedLines})
  IN IF doc.type = "configuration" THEN ScannedFrom(doc.lines)[inspected].kept
     ELSE SubSeq(doc.lines, 1, inspected)

Identity(doc, vendor, os, version, strength) ==
  [vendor |-> vendor, os |-> os, version |-> version, strength |-> strength, document |-> doc.name]

NoVersion == <<<<>>, "">>

ExplicitStrength(doc) == IF doc.type = "configuration" THEN "strong" ELSE "strongest"

\* One Cisco claim a line: a versioned IOS XE one, a bare one, or IOS.
CiscoIdentities(doc, line) ==
  LET strength == ExplicitStrength(doc)
      xe == Claims(line, "xe_version")
  IN IF xe # {} THEN {Identity(doc, "Cisco", "IOS XE", v, strength) : v \in xe}
     ELSE IF Claims(line, "xe_marker") # {} THEN {Identity(doc, "Cisco", "IOS XE", NoVersion, strength)}
     ELSE {Identity(doc, "Cisco", "IOS", v, strength) : v \in Claims(line, "ios_version")}

OtherIdentities(doc, line) ==
  LET strength == ExplicitStrength(doc) IN
  {Identity(doc, "Juniper", "Junos", v, strength) : v \in Claims(line, "junos_version")}
  \cup {Identity(doc, "Fortinet", "FortiOS", v, strength) : v \in Claims(line, "fortios_version")}
  \cup {Identity(doc, "Fortinet", "FortiOS", v, "strongest") : v \in Claims(line, "fortios_status")}

\* Arista is believed only in version output, and its version only next to a
\* product line of the same document, before it or after it.
AristaIdentities(doc, lines) ==
  LET products == UNION {Claims(lines[k], "arista_product") : k \in DOMAIN lines}
      versions == UNION {Claims(lines[k], "arista_version") : k \in DOMAIN lines}
  IN IF doc.type # "version_output" \/ products = {} THEN {}
     ELSE {Identity(doc, "Arista", "EOS", v, "strongest") : v \in versions \cup {NoVersion}}

\* The version an XML document states on the path a manifest names; of several
\* such elements the last one counts.
XmlIdentities(doc, runtime) ==
  LET ir == ReadTree(doc)
      OnPath(m) == {n \in DOMAIN ir.nodes :
                      /\ [k \in DOMAIN ir.nodes[n].path |-> ir.nodes[n].path[k][1]] = m.selector
                      /\ ir.nodes[n].text # <<>>}
      readers == {m \in ProfileRegistry \cup runtime : m.reader = "xml_tree" /\ m.selector # <<>>}
      Stated(n) == Claims(doc.lines[ir.nodes[n].first], "text")
  IN IF doc.shape # "xml" \/ ir.refused THEN {}
     ELSE UNION {{Identity(doc, m.vendor, m.os, v, "strong") : v \in Stated(Max(OnPath(m)))} :
                   m \in {r \in readers : OnPath(r) # {}}}

DocumentIdentities(doc, runtime) ==
  LET lines == DataLines(doc) IN
  UNION {CiscoIdentities(doc, lines[k]) \cup OtherIdentities(doc, lines[k]) : k \in DOMAIN lines}
  \cup AristaIdentities(doc, lines)
  \cup XmlIdentities(doc, runtime)

----------------------------------------------------------------------------
(* Hardware and syntax.                                                    *)

\* _classify_hardware.
ProductFamily(model) ==
  LET series == Head(PiecesOf(model)) IN
  CASE series \in {"C9", "WS-C", "CAT"} -> "Catalyst"
    [] series = "ISR" -> "ISR"
    [] series = "ASR" -> "ASR"
    [] OTHER -> None

Recognized(models) == {m \in models : ProductFamily(m) # None}

\* A PID counts on the two lines after a chassis name.
ChassisModels(lines, i) ==
  IF \/ Claims(lines[i], "chassis") # {}
     \/ \A k \in {i - 2, i - 1} \cap DOMAIN lines : Claims(lines[k], "chassis") = {}
  THEN {}
  ELSE Recognized(Claims(lines[i], "pid"))

\* A model number is believed when it has a Cisco name or when Cisco was
\* already spoken of in this document.
CiscoModels(doc, lines) ==
  LET Certain(i) == Claims(lines[i], "processor") \cup Recognized(Claims(lines[i], "model_number"))
                    \cup ChassisModels(lines, i)
      Context(i) == \/ \E k \in 1 .. i : CiscoIdentities(doc, lines[k]) # {}
                    \/ \E k \in 1 .. i - 1 : Certain(k) # {}
  IN IF doc.type \notin {"version_output", "inventory_output", "operational_output", "unknown_evidence"} THEN {}
     ELSE UNION {Certain(i) \cup (IF Context(i) THEN Claims(lines[i], "model_number") ELSE {}) : i \in DOMAIN lines}

DocumentModels(doc) ==
  LET lines == DataLines(doc) IN
  CiscoModels(doc, lines)
  \cup (IF doc.type # "version_output" THEN {}
        ELSE UNION {Claims(lines[k], "arista_product") : k \in DOMAIN lines})
  \cup UNION {Claims(lines[k], "fortios_status") : k \in DOMAIN lines}

SyntaxCategory(words) ==
  IF Len(words) < 2 THEN None
  ELSE CASE words[1] \in {"hostname", "interface", "aaa", "snmp-server"} -> words[1]
         [] words[1] = "line" /\ words[2] \in {"vty", "con", "console", "aux"} -> "line"
         [] words[1] \in {"ip", "ipv6"} /\ words[2] = "access-list" -> "access_list"
         [] words[1] = "router" /\ words[2] \in {"bgp", "ospf", "eigrp", "isis"} -> "routing"
         [] OTHER -> None

LooksLikeCisco(doc) ==
  LET lines == DataLines(doc) IN
  Cardinality({SyntaxCategory(lines[k].words) : k \in DOMAIN lines} \ {None}) >= 3

----------------------------------------------------------------------------
(* _resolve_candidates.                                                    *)

Result(status, confidence, vendor, os, version, profile, identified) ==
  [status |-> status, confidence |-> confidence, vendor |-> vendor, os |-> os,
   version |-> version, profile |-> profile, identified |-> identified]

\* What the first line that names a version says.
FirstVersion(d) ==
  LET naming == {k \in DOMAIN d.lines : Claims(d.lines[k], "version") # {}}
  IN IF naming = {} THEN {} ELSE Claims(d.lines[Min(naming)], "version")

\* Manifests, versions and the documents that have all the tokens.
RuntimeMatches(documents, runtime) ==
  LET Speaks(m, d) == d.type \in m.types /\ m.tokens \subseteq UNION {Claims(l, "token") : l \in ToSet(d.lines)}
      speaking == {c \in runtime \X DOMAIN documents : Speaks(c[1], documents[c[2]])}
  IN UNION {{<<c[1], v, c[2]>> : v \in {w \in FirstVersion(documents[c[2]]) : Accepts(c[1].constraint, w)}} :
              c \in speaking}

\* The result runtime manifests lead to, if any; the first document that matches
\* counts as identified.
RuntimeResults(documents, runtime, identified) ==
  LET matches == RuntimeMatches(documents, runtime)
      named == {<<c[1], c[2]>> : c \in matches}
      one == CHOOSE n \in named : TRUE
      first == documents[Min({c[3] : c \in matches})].name
  IN IF named = {} THEN {}
     ELSE IF Cardinality(named) > 1
          THEN {Result("ambiguous", "unresolved", None, None, NoVersion, None, identified)}
     ELSE {Result("resolved", "high", one[1].vendor, one[1].os, one[2], one[1].profile, identified \cup {first})}

\* Mutant: The first platform that is named wins.
ConflictingIgnored(values) == FALSE

Conflicting(values) == \E v, w \in values : v # w

\* All explicit evidence speaks of one platform and of at most one version.
FromIdentities(identities, runtimeResults, identified) ==
  LET i == CHOOSE j \in identities : TRUE
      versions == {j.version : j \in identities} \ {NoVersion}
      version == IF versions = {} THEN NoVersion ELSE CHOOSE v \in versions : TRUE
      confidence == IF \E j \in identities : j.strength = "strongest" THEN "high" ELSE "medium"
      candidates == CompatibleManifests(i.vendor, i.os, version)
      own == {r \in runtimeResults : r.vendor = i.vendor /\ r.os = i.os}
      Say(status, conf, profile) == Result(status, conf, i.vendor, i.os, version, profile, identified)
  IN IF Conflicting({<<j.vendor, j.os>> : j \in identities})
       THEN Result("conflict", "unresolved", None, None, NoVersion, None, identified)
     ELSE IF Conflicting(versions) THEN Result("conflict", "unresolved", i.vendor, i.os, NoVersion, None, identified)
     ELSE IF own # {} THEN CHOOSE r \in own : TRUE
     ELSE IF version = NoVersion THEN Say("partially_resolved", "medium", None)
     ELSE IF candidates = {} THEN Say("unsupported", confidence, None)
     ELSE IF Cardinality(candidates) > 1 THEN Say("ambiguous", "unresolved", None)
     ELSE Say("resolved", confidence, (CHOOSE m \in candidates : TRUE).profile)

\* Without any signal: the profile for the one shape that all configuration
\* evidence has.  Only command lines are asked whether they name a platform, and
\* only at their beginning.
GenericProfile(documents, silent) ==
  LET written == {d \in ToSet(documents) :
                    /\ \E l \in ToSet(d.lines) : l.words # <<>>
                    /\ d.type \in {"configuration", "structured_export", "unknown_evidence"}}
      Of(shape) == \A d \in written : d.shape = shape
      Beginning(d) == SubSeq(d.lines, 1, Min({Len(d.lines), HeadLines}))
      NamesPlatform(d) == \E l \in ToSet(Beginning(d)) : Claims(l, "platform") # {}
  IN IF written = {} \/ ~silent THEN None
     ELSE IF Of("xml") THEN GenericXml.profile
     ELSE IF Of("json") THEN GenericJson.profile
     ELSE IF \A d \in written : d.shape # "xml" /\ ~NamesPlatform(d) THEN GenericCli.profile
     ELSE None

ResolveProfile(documents, runtime) ==
  LET docs == ToSet(documents)
      identities == UNION {DocumentIdentities(d, runtime) : d \in docs}
      modelled == {d \in docs : DocumentModels(d) # {}}
      ciscoLike == {d \in docs : LooksLikeCisco(d)}
      identified == {i.document : i \in identities} \cup {d.name : d \in modelled \cup ciscoLike}
      silent == identified = {} /\ \A d \in docs : ~d.ciscoFile
      runtimeResults == RuntimeResults(documents, runtime, identified)
      generic == GenericProfile(documents, silent)
      m == ProfileFor(generic, {})
  IN IF identities # {} THEN FromIdentities(identities, runtimeResults, identified)
     ELSE IF runtimeResults # {} THEN CHOOSE r \in runtimeResults : TRUE
     ELSE IF modelled # {}
       THEN Result("partially_resolved", "medium", "Cisco", None, NoVersion, None, identified)
     ELSE IF ciscoLike # {}
       THEN Result("partially_resolved", "low", "Cisco", None, NoVersion, None, identified)
     ELSE IF generic # None
       THEN Result("resolved", "low", m.vendor, m.os, NoVersion, generic, identified)
     ELSE Result("unresolved", "unresolved", None, None, NoVersion, None, identified)
=============================================================================
