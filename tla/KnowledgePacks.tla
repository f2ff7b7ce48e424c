--------------------------- MODULE KnowledgePacks ---------------------------
(***************************************************************************)
(* The canonical fields (security_model/fields.py) and the sealed          *)
(* knowledge packs that map statements to them (knowledge_packs/).         *)
(*                                                                         *)
(* A mapping says which statements it is about, which extractor reads the  *)
(* value, which resolver finds the scope, and what a negated statement     *)
(* means.  The version identities that order published packs are left to   *)
(* MappingTraining.                                                        *)
(***************************************************************************)
EXTENDS Sequences, TLC

Booleans == {"boolean"}
Hosts == {"ip_address", "string"}

Field(types, scopes, repeatable) == [types |-> types, scopes |-> scopes, repeatable |-> repeatable]

FieldRegistry ==
  "management.remote.telnet.enabled" :> Field(Booleans, {"vty_range", "interface", "device"}, FALSE) @@
  "management.remote.ssh.enabled" :> Field(Booleans, {"vty_range", "interface", "device"}, FALSE) @@
  "management.remote.ssh.version" :> Field({"integer"}, {"device"}, FALSE) @@
  "management.remote.https.enabled" :> Field(Booleans, {"interface"}, FALSE) @@
  "management.remote.http.enabled" :> Field(Booleans, {"interface", "device"}, FALSE) @@
  "management.remote.tls.minimum_version" :> Field({"enum"}, {"device"}, FALSE) @@
  "management.remote.source.restriction.configured" :>
     Field(Booleans, {"vty_range", "administrator", "management_service"}, FALSE) @@
  "management.remote.ssh.strong_crypto.configured" :> Field(Booleans, {"device"}, FALSE) @@
  "management.remote.source.permitted_network" :> Field({"ip_network"}, {"administrator"}, TRUE) @@
  "management.session.idle_timeout" :> Field({"duration"}, {"vty_range", "device"}, FALSE) @@
  "logging.remote.destination" :> Field(Hosts, {"device"}, TRUE) @@
  "logging.enabled" :> Field(Booleans, {"device"}, FALSE) @@
  "logging.administrative_access.enabled" :> Field(Booleans, {"device"}, FALSE) @@
  "time.ntp.server" :> Field(Hosts, {"device"}, TRUE) @@
  "time.ntp.configured" :> Field(Booleans, {"device"}, FALSE) @@
  "time.ntp.authentication.enabled" :> Field(Booleans, {"device"}, FALSE) @@
  "time.ntp.authentication.key_id" :> Field({"integer"}, {"device"}, TRUE) @@
  "time.ntp.authentication.trusted_key_id" :> Field({"integer"}, {"device"}, TRUE)

Repeatable(field) == FieldRegistry[field].repeatable

----------------------------------------------------------------------------
(* Matchers.  "" stands for a command that is not asked for.               *)

Anywhere(command, args) ==
  [command |-> command, args |-> args, parent |-> "", parentArgs |-> <<>>,
   ancestor |-> "", ancestorArgs |-> <<>>]

Inside(command, args, parent, parentArgs) ==
  [Anywhere(command, args) EXCEPT !.parent = parent, !.parentArgs = parentArgs]

\* In an edit block of config <args>.
InEdit(command, args, configArgs) ==
  [Inside(command, args, "edit", <<>>) EXCEPT !.ancestor = "config", !.ancestorArgs = configArgs]

InConfig(command, args, configArgs) == Inside(command, args, "config", configArgs)

OnVty(command, args) == Inside(command, args, "line", <<"vty">>)

Sealed(field, matcher, extractor, scope, negation) ==
  [kind |-> "sealed", field |-> field, matcher |-> matcher, extractor |-> extractor,
   scope |-> scope, negation |-> negation]

CiscoMappings ==
  <<Sealed("management.remote.telnet.enabled", OnVty("transport", <<"input">>), "transport_telnet",
           "vty_range", "reset_to_default"),
    Sealed("management.remote.ssh.enabled", OnVty("transport", <<"input">>), "transport_ssh",
           "vty_range", "reset_to_default"),
    Sealed("management.session.idle_timeout", OnVty("exec-timeout", <<>>), "duration_minutes_seconds",
           "vty_range", "reset_to_default"),
    Sealed("management.remote.ssh.version", Anywhere("ip", <<"ssh", "version">>), "ssh_version",
           "device", "reset_to_default"),
    Sealed("logging.remote.destination", Anywhere("logging", <<"host">>), "logging_destination",
           "device", "remove_value"),
    Sealed("time.ntp.server", Anywhere("ntp", <<"server">>), "ntp_server", "device", "remove_value"),
    Sealed("management.remote.source.restriction.configured", OnVty("access-class", <<>>),
           "cisco_access_class", "vty_range", "unsupported"),
    Sealed("logging.enabled", Anywhere("logging", <<"on">>), "presence_enabled", "device", "unsupported"),
    Sealed("time.ntp.authentication.enabled", Anywhere("ntp", <<"authenticate">>), "presence_enabled",
           "device", "unsupported"),
    Sealed("time.ntp.authentication.key_id", Anywhere("ntp", <<"authentication-key">>), "ntp_key_id",
           "device", "remove_value"),
    Sealed("time.ntp.authentication.trusted_key_id", Anywhere("ntp", <<"trusted-key">>), "ntp_key_id",
           "device", "remove_value"),
    Sealed("time.ntp.configured", Anywhere("ntp", <<"server">>), "ntp_configured", "device", "unsupported"),
    Sealed("management.remote.http.enabled", Anywhere("ip", <<"http", "server">>), "presence_enabled",
           "device", "invert_boolean")>>

\* set and unset are mappings of their own; the reader marks unset as negated.
AllowAccess(field, extractor) ==
  <<Sealed(field, InEdit("set", <<"allowaccess">>, <<"system", "interface">>), extractor,
           "interface", "unsupported"),
    Sealed(field, InEdit("unset", <<"allowaccess">>, <<"system", "interface">>), extractor,
           "interface", "reset_to_default")>>

FortiosMappings ==
  <<Sealed("management.session.idle_timeout", InConfig("set", <<"admintimeout">>, <<"system", "global">>),
           "fortios_timeout", "device", "unsupported"),
    Sealed("management.session.idle_timeout", InConfig("unset", <<"admintimeout">>, <<"system", "global">>),
           "fortios_timeout", "device", "reset_to_default"),
    Sealed("logging.remote.destination", InConfig("set", <<"server">>, <<"log", "syslogd", "setting">>),
           "fortios_server", "device", "unsupported"),
    Sealed("time.ntp.server", InEdit("set", <<"server">>, <<"ntpserver">>), "ntp_server",
           "device", "unsupported"),
    Sealed("management.remote.tls.minimum_version",
           InConfig("set", <<"admin-https-ssl-versions">>, <<"system", "global">>),
           "fortios_tls_minimum", "device", "unsupported"),
    Sealed("management.remote.source.restriction.configured", InEdit("set", <<>>, <<"system", "admin">>),
           "fortios_trusthost_restriction", "administrator", "unsupported"),
    Sealed("management.remote.source.permitted_network", InEdit("set", <<>>, <<"system", "admin">>),
           "fortios_trusthost_network", "administrator", "unsupported"),
    Sealed("logging.enabled", InConfig("set", <<"status", "enable">>, <<"log", "setting">>),
           "presence_enabled", "device", "unsupported"),
    Sealed("time.ntp.configured", InEdit("set", <<"server">>, <<"ntpserver">>), "ntp_configured",
           "device", "unsupported")>>
  \o AllowAccess("management.remote.telnet.enabled", "fortios_allowaccess_telnet")
  \o AllowAccess("management.remote.ssh.enabled", "fortios_allowaccess_ssh")
  \o AllowAccess("management.remote.https.enabled", "fortios_allowaccess_https")
  \o AllowAccess("management.remote.http.enabled", "fortios_allowaccess_http")

AristaMappings ==
  <<Sealed("management.remote.ssh.enabled", Inside("shutdown", <<>>, "management", <<"ssh">>),
           "presence_disabled", "device", "invert_boolean"),
    Sealed("management.remote.telnet.enabled", Inside("shutdown", <<>>, "management", <<"telnet">>),
           "presence_disabled", "device", "invert_boolean"),
    Sealed("management.session.idle_timeout", Inside("idle-timeout", <<>>, "management", <<"ssh">>),
           "duration_minutes", "device", "reset_to_default"),
    Sealed("logging.remote.destination", Anywhere("logging", <<"host">>), "logging_destination",
           "device", "remove_value"),
    Sealed("time.ntp.server", Anywhere("ntp", <<"server">>), "ntp_server", "device", "remove_value"),
    Sealed("management.remote.source.restriction.configured",
           Inside("ip", <<"access-group">>, "management", <<"ssh">>),
           "arista_service_acl", "arista_management_service", "unsupported"),
    Sealed("time.ntp.configured", Anywhere("ntp", <<"server">>), "ntp_configured", "device", "unsupported")>>

\* A Junos mapping names the path of an element; only "server" may occur more
\* than once on it, and some may not have a routing-instance next to them.
XmlMapping(field, path, source, valueType, outputType, unit, qualifiers) ==
  [kind |-> "tree", field |-> field, operation |-> "xml_path",
   path |-> [k \in DOMAIN path |-> <<path[k], IF path[k] = "server" THEN 0 ELSE 1>>],
   source |-> source, valueType |-> valueType, outputType |-> outputType, unit |-> unit,
   qualifiers |-> qualifiers, scope |-> "device"]

JunosMappings ==
  LET services == <<"configuration", "system", "services">>
      ntp == <<"configuration", "system", "ntp", "server">>
  IN <<XmlMapping("management.remote.ssh.enabled", services \o <<"ssh">>, "presence", "", "boolean", "none", {}),
       XmlMapping("management.remote.telnet.enabled", services \o <<"telnet">>, "presence", "", "boolean", "none", {}),
       XmlMapping("logging.remote.destination", <<"configuration", "system", "syslog", "host", "name">>,
                  "text", "string", "string", "none", {}),
       XmlMapping("time.ntp.server", ntp \o <<"name">>, "text", "string", "string", "none", {"routing-instance"}),
       XmlMapping("management.session.idle_timeout", <<"configuration", "system", "login", "idle-timeout">>,
                  "text", "integer", "duration", "minutes_to_seconds", {}),
       XmlMapping("time.ntp.configured", ntp, "presence", "", "boolean", "none", {"routing-instance"})>>

----------------------------------------------------------------------------
(* The active sealed pack of each built-in profile, and the mappings that  *)
(* an organization has published on top of it.                             *)

SealedMappings(profile) ==
  CASE profile = "cisco.ios_xe.17" -> CiscoMappings
    [] profile = "fortinet.fortios.7" -> FortiosMappings
    [] profile = "arista.eos.4" -> AristaMappings
    [] profile = "juniper.junos.18" -> JunosMappings
    [] OTHER -> <<>>
=============================================================================
