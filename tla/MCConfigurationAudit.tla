------------------------ MODULE MCConfigurationAudit ------------------------
(***************************************************************************)
(* Snapshots for ConfigurationAudit: for each reader, all configurations   *)
(* of a few lines of a vocabulary that has its nesting, its removals, its  *)
(* repetitions and something nobody understands; evidence of identity that *)
(* agrees, disagrees or stands in banners; and an organization that        *)
(* publishes a profile, mappings, rules and catalogs during an audit.      *)
(***************************************************************************)
EXTENDS ConfigurationAudit

MCPieces ==
  "^Chello" :> <<"^C", "hello">> @@ "trusthost1" :> <<"trusthost", "1">>

MCNumber == [w \in {"0", "2", "4", "5", "6", "10", "30", "1"} |->
               CASE w = "0" -> 0 [] w = "1" -> 1 [] w = "2" -> 2 [] w = "4" -> 4
                 [] w = "5" -> 5 [] w = "6" -> 6 [] w = "10" -> 10 [] w = "30" -> 30]

MCEndpoint == "h1" :> <<"string", "h1">> @@ "H1" :> <<"string", "h1">> @@ "h2" :> <<"string", "h2">>

MCNetwork == <<"10.0.0.0", "255.0.0.0">> :> "10.0.0.0/8"

MCNames == {"ACL"}

----------------------------------------------------------------------------
(* Lines and documents.                                                    *)

At(indent, words) == [indent |-> indent, flaw |-> "none", words |-> words, says |-> {}]

Saying(words, says) == [At(0, words) EXCEPT !.says = says]

Document(name, type, lines) ==
  [name |-> name, shape |-> "cli", type |-> type, lines |-> lines, cut |-> FALSE,
   readable |-> TRUE, configFile |-> TRUE, ciscoFile |-> FALSE]

XmlDocument(name, lines) == [Document(name, "structured_export", lines) EXCEPT !.shape = "xml"]
JsonDocument(name, lines) == [Document(name, "structured_export", lines) EXCEPT !.shape = "json"]

NoDrafts == [profiles |-> {}, mappings |-> {}, rules |-> {}, catalogs |-> {}, imports |-> {}]

Snapshot(artifacts) ==
  [artifacts |-> artifacts, requested |-> {}, frameworks |-> <<>>, packs |-> {}, drafts |-> NoDrafts]

Blank == At(0, <<>>)

\* All texts of so many lines, some of which may be blank.
Texts(length, S) == [1 .. length -> S \cup {Blank}]

\* The output of a version command that says what it is.
Version(claim, version) == Document("version", "version_output", <<Saying(<<"version">>, {<<claim, version>>})>>)

Ios17 == Version("xe_version", <<<<17, 3>>, "">>)

----------------------------------------------------------------------------
(* Cisco IOS XE.                                                           *)

CiscoLines ==
  {At(0, <<"line", "vty", "0", "4">>), At(0, <<"line", "vty", "2", "6">>),
   At(1, <<"transport", "input", "telnet">>), At(1, <<"no", "transport", "input">>),
   At(1, <<"exec-timeout", "5">>), At(2, <<"exec-timeout", "0">>),
   At(0, <<"ntp", "server", "h1">>), At(0, <<"no", "ntp", "server", "h1">>),
   At(0, <<"banner", "motd", "^C">>), At(0, <<"^C">>), At(1, <<"!">>),
   At(0, <<"hostname", "r1">>), [At(0, <<"ip", "ssh">>) EXCEPT !.flaw = "long"]}

\* What the obligations of a catalog ask of one device.
Idle(expected) ==
  Obligation("idle", {"cisco.ios_xe.17"}, "implemented", "management.idle_timeout.maximum",
             "management.session.idle_timeout", Absent, "maximum_admin_idle_timeout_seconds" :> <<"number", expected>>)

Telnet ==
  Obligation("telnet", {"cisco.ios_xe.17"}, "implemented", "management.telnet.disabled",
             "management.remote.telnet.enabled", <<"number", 1>>, <<>>)

Nist == Pack("nist", "NIST SP 800-53", 1, {"cisco.ios_xe.17"}, <<Idle(60), Telnet>>)

CiscoSnapshots(length) ==
  {[Snapshot(<<Ios17, Document("config", "configuration", lines)>>)
      EXCEPT !.packs = {Nist}, !.frameworks = <<"NIST SP 800-53">>] : lines \in Texts(length, CiscoLines)}

----------------------------------------------------------------------------
(* FortiOS, Arista and Junos.                                              *)

FortiosLines ==
  {At(0, <<"config", "system", "interface">>), At(0, <<"config", "system", "global">>),
   At(0, <<"edit", "port1">>), At(0, <<"set", "allowaccess", "ssh", "telnet">>),
   At(0, <<"set", "admintimeout", "10">>), At(0, <<"unset", "admintimeout">>),
   At(0, <<"next">>), At(0, <<"end">>)}

FortiosSnapshots(length) ==
  {Snapshot(<<Version("fortios_version", <<<<7, 2>>, "">>),
              Document("config", "configuration", lines)>>) : lines \in Texts(length, FortiosLines)}

AristaLines ==
  {At(0, <<"management", "ssh">>), At(0, <<"management", "telnet">>),
   At(1, <<"shutdown">>), At(1, <<"no", "shutdown">>), At(1, <<"idle-timeout", "5">>),
   At(1, <<"ip", "access-group", "ACL", "in">>), At(0, <<"logging", "host", "h1">>),
   At(0, <<"no", "logging", "host", "H1">>)}

AristaVersion ==
  Document("version", "version_output",
           <<Saying(<<"Arista">>, {<<"arista_product", "DCS-7050">>}),
             Saying(<<"version">>, {<<"arista_version", <<<<4, 28>>, "">> >>})>>)

AristaSnapshots(length) ==
  {Snapshot(<<AristaVersion, Document("config", "configuration", lines)>>) : lines \in Texts(length, AristaLines)}

JunosLines ==
  {At(2, <<"services">>), At(3, <<"ssh">>), At(2, <<"login">>), At(3, <<"idle-timeout", "10">>),
   At(2, <<"ntp">>), At(3, <<"server">>), At(4, <<"name", "h1">>), At(4, <<"routing-instance", "m">>),
   At(5, <<"deeper">>)}

Junos18x4 == Version("junos_version", <<<<18, 4>>, "">>)

Deeper(lines) == [k \in DOMAIN lines |-> [lines[k] EXCEPT !.indent = @ + 1]]

\* A configuration that is given as it is, and one in the reply to a request, which
\* states the version.
JunosDocument(lines, inside) ==
  LET version == [At(2, <<"version", "18.4">>) EXCEPT !.says = {<<"text", <<<<18, 4>>, "">> >>}]
      whole == <<At(0, <<"configuration">>), At(1, <<"system">>)>> \o lines
  IN XmlDocument("config", IF inside THEN <<At(0, <<"rpc-reply">>)>> \o Deeper(whole) \o <<version>> ELSE whole)

JunosSnapshots(length) ==
  {Snapshot((IF inside THEN <<>> ELSE <<Junos18x4>>) \o <<JunosDocument(SubSeq(lines, 1, k), inside)>>) :
     lines \in [1 .. length -> JunosLines], k \in 0 .. length, inside \in BOOLEAN}

----------------------------------------------------------------------------
(* Identity.                                                               *)

IdentityLines ==
  {Saying(<<"Cisco">>, {<<"xe_version", <<<<17, 3>>, "">> >>, <<"platform", "cisco">>}),
   Saying(<<"Cisco">>, {<<"xe_version", <<<<16, 9>>, "">> >>, <<"platform", "cisco">>}),
   Saying(<<"IOS-XE">>, {<<"xe_marker", "">>, <<"platform", "cisco">>}),
   Saying(<<"FortiOS">>, {<<"fortios_version", <<<<7, 2>>, "">> >>, <<"platform", "fortinet">>}),
   Saying(<<"built", "for", "cisco">>, {<<"platform", "cisco">>}),
   At(0, <<"mystery">>),
   At(0, <<"banner", "motd", "^C">>), At(0, <<"banner", "motd", "^C", "^Chello">>), At(0, <<"^Chello">>)}

IdentitySnapshots(length) ==
  {Snapshot(<<Document("first", type, first), Document("second", "configuration", second)>>) :
     type \in {"version_output", "unknown_evidence"},
     first \in Texts(1, IdentityLines), second \in Texts(length, IdentityLines)}

Telnets ==
  Document("config", "configuration",
           <<At(0, <<"line", "vty", "0", "4">>), At(1, <<"transport", "input", "telnet">>)>>)

\* Two blocks of lines that both allow telnet, or only the first does.
TwoBlocks(protocol) ==
  Document("config", "configuration",
           <<At(0, <<"line", "vty", "0", "4">>), At(1, <<"transport", "input", "telnet">>),
             At(0, <<"line", "vty", "2", "6">>), At(1, <<"transport", "input", protocol>>)>>)

\* A banner inside a block, whose text is indented less than the block.
BannerInBlock ==
  Document("config", "configuration",
           <<At(0, <<"line", "vty", "0", "4">>), At(1, <<"banner", "motd", "^C">>), At(0, <<"text">>),
             At(0, <<"^C">>), At(1, <<"exec-timeout", "5">>)>>)

\* A block whose third line dedents to a level nobody opened, and a fourth at that level.
UnevenBlock ==
  Document("config", "configuration",
           <<At(0, <<"line", "vty", "0", "4">>), At(2, <<"transport", "input", "telnet">>),
             At(1, <<"exec-timeout", "10">>), At(1, <<"exec-timeout", "5">>)>>)

\* Shapes without a profile of their own, evidence that is not read, and
\* assessments that cannot be met.
OtherShapes ==
  {Snapshot(<<JsonDocument("config", <<At(0, <<"">>), At(1, <<"hostname", "r1">>)>>)>>),
   Snapshot(<<XmlDocument("config", <<At(0, <<"<!DOCTYPE">>), At(1, <<"system">>)>>)>>),
   Snapshot(<<Ios17, BannerInBlock>>),
   Snapshot(<<Ios17, UnevenBlock>>),
   Snapshot(<<Ios17, [Telnets EXCEPT !.readable = FALSE]>>),
   Snapshot(<<Ios17, [Telnets EXCEPT !.cut = TRUE]>>),
   Snapshot(<<Ios17, Telnets, JsonDocument("export", <<At(0, <<"">>)>>)>>),
   Snapshot(<<Ios17, [Telnets EXCEPT !.type = "operational_output"]>>),
   [Snapshot(<<Ios17, Telnets>>) EXCEPT !.packs = {Nist}, !.requested = {Nist}],
   [Snapshot(<<Ios17, TwoBlocks("telnet")>>) EXCEPT !.packs = {Nist}, !.requested = {Nist}],
   [Snapshot(<<Ios17, TwoBlocks("ssh")>>) EXCEPT !.packs = {Nist}, !.requested = {Nist}],
   [Snapshot(<<Ios17, Telnets>>) EXCEPT !.packs = {Nist}, !.frameworks = <<"NIST SP 800-53", "NIST SP 800-53">>],
   [Snapshot(<<Version("fortios_version", <<<<7, 2>>, "">>), Telnets>>) EXCEPT
      !.packs = {Nist}, !.requested = {Nist}]}

----------------------------------------------------------------------------
(* Publications.                                                           *)

AcmeOs ==
  [Manifest("acme.os.1", "Acme", "AcmeOS", Majors({1}), "indentation_cli", {"configuration"},
            {"management.session.idle_timeout", "logging.remote.destination"})
     EXCEPT !.tokens = {"acme"}]

\* timeout <minutes>
TimeoutMapping ==
  [kind |-> "trained", field |-> "management.session.idle_timeout", profiles |-> {"acme.os.1"},
   prefix |-> FALSE, command |-> "timeout", negated |-> "no", parent |-> "", ancestors |-> {},
   scopeType |-> "", scope |-> "device", minimum |-> 1, maximum |-> 1,
   patterns |-> <<[op |-> "capture", value |-> "m", type |-> "integer", options |-> {}]>>,
   operation |-> "capture", capture |-> "m", parts |-> <<>>, constant |-> Null, enum |-> <<>>,
   outputType |-> "duration", unit |-> "minutes_to_seconds", negation |-> "unsupported"]

\* loghost <name>, or no loghost <name>
LoghostMapping ==
  [TimeoutMapping EXCEPT !.field = "logging.remote.destination", !.command = "loghost",
     !.negated = "any", !.patterns = <<[@[1] EXCEPT !.type = "string"]>>,
     !.outputType = "string", !.unit = "none", !.negation = "remove_value"]

IdleRule(profile, field) ==
  [id |-> "acme.idle", field |-> field, profiles |-> profile, version |-> 1,
   condition |-> Within("maximum_admin_idle_timeout_seconds")]

AcmeIdle(profile) ==
  Obligation("idle", profile, "implemented", "acme.idle", "management.session.idle_timeout", Absent,
             "maximum_admin_idle_timeout_seconds" :> <<"number", 600>>)

Manual == Obligation("walk", {"acme.os.1"}, "manual", None, None, Absent, <<>>)

AcmeCatalog(version) ==
  Pack("acme", "CIS Benchmark", version, {"acme.os.1", "cisco.ios_xe.17"},
       <<AcmeIdle(IF version = 1 THEN {"acme.os.1"} ELSE {"acme.os.1", "cisco.ios_xe.17"}), Manual>>)

AcmeDrafts ==
  [profiles |-> {AcmeOs}, mappings |-> {TimeoutMapping, LoghostMapping},
   rules |-> {IdleRule({"acme.os.1"}, "management.session.idle_timeout"),
              IdleRule({"cisco.ios_xe.17"}, "management.session.idle_timeout")},
   catalogs |-> {AcmeCatalog(1), AcmeCatalog(2)},
   imports |-> {Pack("external.cis.acme", None, 0, {"acme.os.1"}, <<Manual>>)}]

AcmeVersion == Saying(<<"acme", "1.0">>, {<<"token", "acme">>, <<"version", <<<<1, 0>>, "">> >>})

AcmeLines ==
  {At(0, <<"timeout", "5">>), At(0, <<"timeout", "30">>),
   At(0, <<"loghost", "h1">>), At(0, <<"no", "loghost", "h1">>), At(0, <<"no">>)}

AcmeSnapshots(length) ==
  {[Snapshot(<<Document("config", "configuration", <<AcmeVersion>> \o rest)>>)
      EXCEPT !.drafts = AcmeDrafts, !.frameworks = frameworks] :
     rest \in Texts(length, AcmeLines),
     frameworks \in {<<>>, <<"CIS Benchmark">>}}

\* The version of a published profile, in a banner.
AcmeBanner ==
  [Snapshot(<<Document("config", "configuration",
                       <<At(0, <<"banner", "motd", "^C">>), AcmeVersion, At(0, <<"^C">>), At(0, <<"timeout", "5">>)>>)>>)
     EXCEPT !.drafts = AcmeDrafts]

MCSnapshots ==
  [cisco |-> CiscoSnapshots(3), fortios |-> FortiosSnapshots(4), arista |-> AristaSnapshots(3),
   junos |-> JunosSnapshots(4), identity |-> IdentitySnapshots(3), other |-> OtherShapes,
   acme |-> AcmeSnapshots(1) \cup {AcmeBanner}]

AcmeBanners == [acme |-> {AcmeBanner}]

\* Two statements about one server.
NtpRemovals ==
  [cisco |-> {Snapshot(<<Ios17, Document("config", "configuration", lines)>>) :
     lines \in [1 .. 2 -> {At(0, <<"ntp", "server", "h1">>), At(0, <<"no", "ntp", "server", "h1">>)}]}]
=============================================================================
