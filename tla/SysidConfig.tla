---------------------------- MODULE SysidConfig ----------------------------
(***************************************************************************)
(* js2ai -s: the sysidcfg file of a JumpStart installation becomes a       *)
(* system configuration profile.                                           *)
(*                                                                         *)
(* A statement may be continued over lines while a brace is open, or when  *)
(* the brace starts the next line (read_sysidcfg).  The statements are     *)
(* then converted in their order, all but the network interfaces, which    *)
(* are kept to the end: one of them is chosen, and what it becomes depends *)
(* on the name service that was converted.                                 *)
(***************************************************************************)
EXTENDS Naturals, Sequences, SequencesExt, FiniteSets, Functions

CONSTANT Sysidcfgs   \* the files: sequences of lines, a line is a sequence of words

VARIABLES
    sysidcfg,   \* the file
    phase,      \* "read", "convert", "network", "done", "raised"
    lineAt,     \* the next line, or the next statement to convert
    continued,  \* line_continued
    statements, \* sysidcfg.data, in the order of its keys
    sysid       \* the object: the service bundle, what is set, the report
sysidVars == <<sysidcfg, phase, lineAt, continued, statements, sysid>>

(* A word is key=value or has no value at all (<<>>); a value is the       *)
(* sequence of what its commas separate.  "key=" has the value <<"">>.     *)
Word(key, value) == [key |-> key, value |-> value]
Open == Word("{", <<>>)
Close == Word("}", <<>>)
NoOptions == [k \in {} |-> <<>>]

NewSysid == [bundle |-> <<>>, set |-> {}, name |-> "", network |-> FALSE, errors |-> {},
             interfaces |-> <<>>, raised |-> FALSE]
Report(s, level, about) == [s EXCEPT !.errors = @ \cup {<<level, about>>}]

-----------------------------------------------------------------------------
(* Reading.  Words between the braces are options: the last word with a    *)
(* key counts, and what stands after the closing brace is dropped.         *)

IndexOf(words, word) ==
    IF Contains(words, word) THEN SelectInSeq(words, LAMBDA w : w = word) ELSE 0
Options(words) ==
    [k \in {words[i].key : i \in DOMAIN words} |->
        words[CHOOSE i \in DOMAIN words :
                 words[i].key = k /\ \A j \in DOMAIN words : words[j].key = k => j <= i].value]
HasBlock(words) == Contains(words, Open)
Before(words) == IF HasBlock(words) THEN SubSeq(words, 1, IndexOf(words, Open) - 1) ELSE words
After(words) == SubSeq(words, IndexOf(words, Open) + 1, Len(words))
Unclosed(words) == HasBlock(words) /\ ~Contains(After(words), Close)
Block(words) == IF HasBlock(words)
                THEN Options(SubSeq(After(words), 1, IndexOf(After(words), Close) - 1))
                ELSE NoOptions

(* A line that begins with a brace, looked for below the current one.      *)
OpensBelow(i) == i < Len(sysidcfg) /\ sysidcfg[i + 1] # <<>> /\ Head(sysidcfg[i + 1]) = Open
MayContinue(words) ==
    /\ ~HasBlock(words) /\ Len(words) = 1 /\ words[1].value \notin {<<>>, <<"">>}
    /\ words[1].key \in {"network_interface", "name_service"}
Statement(words) ==
    [key |-> Head(words).key, value |-> Head(words).value, options |-> Block(words)]
Malformed(words) ==
    \/ words = <<>> \/ Len(words) > 1
    \/ Head(words).value \in {<<>>, <<"">>}

ReadLine ==
    /\ phase = "read" /\ lineAt <= Len(sysidcfg)
    /\ LET words == continued \o sysidcfg[lineAt]
       IN  IF sysidcfg[lineAt] = <<>> THEN UNCHANGED <<continued, statements, sysid>>
           ELSE IF Unclosed(words) \/ (MayContinue(words) /\ OpensBelow(lineAt))
                THEN continued' = words /\ UNCHANGED <<statements, sysid>>
           ELSE /\ continued' = <<>>
                /\ IF Malformed(Before(words))
                   THEN sysid' = Report(sysid, "process", "syntax") /\ UNCHANGED statements
                   ELSE statements' = Append(statements, Statement(words)) /\ UNCHANGED sysid
    /\ lineAt' = lineAt + 1
    /\ UNCHANGED <<sysidcfg, phase>>

(* A brace that is never closed is reported; the statements that were read *)
(* are converted all the same.                                             *)
EndOfFile ==
    /\ phase = "read" /\ lineAt > Len(sysidcfg)
    /\ sysid' = IF continued = <<>> THEN sysid ELSE Report(sysid, "process", "brace")
    /\ phase' = IF statements = <<>> THEN "done" ELSE "convert"
    /\ lineAt' = 1
    /\ UNCHANGED <<sysidcfg, continued, statements>>

-----------------------------------------------------------------------------
(* The bundle: services with the properties they hold.                     *)

CreateService(s, name, holds) ==
    [s EXCEPT !.bundle = Append(@, [name |-> name, holds |-> holds])]
ServicesNamed(s, name) == {i \in DOMAIN s.bundle : s.bundle[i].name = name}
Holds(s, name) == UNION {s.bundle[i].holds : i \in ServicesNamed(s, name)}

Get(options, key) == IF key \in DOMAIN options THEN options[key] ELSE <<>>
Without(options, keys) == Restrict(options, DOMAIN options \ keys)
CheckPayload(s, about, options) ==
    IF DOMAIN options = {} THEN s ELSE Report(s, "process", about)

(* A keyword that has been set is a duplicate; one with options is wrong.  *)
SetOnce(s, e, result) ==
    IF e.key \in s.set \/ e.options # NoOptions THEN Report(s, "process", e.key)
    ELSE [result EXCEPT !.set = @ \cup {e.key}]

ConvertKeyboard(s, e) ==
    SetOnce(s, e, CreateService(s, "system/keymap", {<<"layout", e.value>>}))
ConvertTimezone(s, e) ==
    SetOnce(s, e, CreateService(s, "system/timezone", {<<"localtime", e.value>>}))
ConvertTerminal(s, e) ==
    SetOnce(s, e, CreateService(s, "system/console-login", {<<"terminal_type", e.value>>}))
ConvertSystemLocale(s, e) ==
    SetOnce(s, e, CreateService(s, "system/environment", {<<"LANG", e.value>>}))
ConvertRootPassword(s, e) ==
    SetOnce(s, e, CreateService(s, "system/config-user",
                                {<<"password", e.value>>, <<"type", <<"normal">>>>}))
ConvertServiceProfile(s, e) ==
    SetOnce(s, e, CASE e.value = <<"limited_net">> -> s
                    [] e.value = <<"open">> -> Report(s, "unsupported", e.key)
                    [] OTHER -> Report(s, "process", e.key))
(* The time server is never recorded as set.                               *)
ConvertTimeserver(s, e) ==
    IF e.options # NoOptions THEN Report(s, "process", e.key)
    ELSE IF e.value = <<"localhost">> THEN s ELSE Report(s, "unsupported", e.key)
ConvertSecurityPolicy(s, e) ==
    IF e.options # NoOptions THEN Report(s, "process", e.key)
    ELSE CASE e.value = <<"none">> -> s
           [] e.value = <<"kerberos">> -> Report(s, "unsupported", e.key)
           [] OTHER -> Report(s, "process", e.key)

ConvertHostname(s, hostname) ==
    IF "hostname" \in s.set \/ hostname = <<"bad">> THEN Report(s, "conversion", "hostname")
    ELSE [CreateService(s, "system/identity", {<<"nodename", hostname>>})
             EXCEPT !.set = @ \cup {"hostname"}]

(* An address that is only begun ("10.0") passes this check.               *)
ValidIp(ip) == ip # "bad"
CompleteAddress(ip) == ip \notin {"partial", "bad"}
AddressList(value) == SelectSeq(value, ValidIp)
ReportAddresses(s, value) ==
    IF \A i \in DOMAIN value : ValidIp(value[i]) THEN s ELSE Report(s, "conversion", "address")

-----------------------------------------------------------------------------
(* The name service.  The required options are asked for in their order.   *)

AdjustNis(s, kind) ==
    CreateService(CreateService(s, "system/name-service/switch", {<<"host", kind>>}),
                  "system/name-service/cache", {})
ConfigureDnsClient(s, enabled) ==
    CreateService(s, "network/dns/client", {<<"enabled", enabled>>})
Missing(e, required) == \E k \in required : Get(e.options, k) = <<>>

ConvertNameServiceDns(s, e) ==
    LET server == Get(e.options, "name_server")
        search == Get(e.options, "search")
        holds == {<<"enabled", <<"true">>>>, <<"nameserver", AddressList(server)>>,
                  <<"domain", Get(e.options, "domain_name")>>}
                 \cup (IF search = <<>> THEN {} ELSE {<<"search", search>>})
        created == CreateService(AdjustNis(s, <<"dns">>), "network/dns/client", holds)
    IN  IF Missing(e, {"domain_name", "name_server"}) THEN Report(s, "process", e.key)
        ELSE CheckPayload([ReportAddresses(created, server) EXCEPT !.name = "dns"], e.key,
                          Without(e.options, {"domain_name", "name_server", "search"}))

ConvertNameServiceNis(s, e) ==
    LET server == Get(e.options, "name_server")
        domain == CreateService(ConfigureDnsClient(AdjustNis(s, <<"nis">>), <<"false">>),
                                "network/nis/domain",
                                {<<"domainname", Get(e.options, "domain_name")>>,
                                 <<"ypservers", AddressList(server)>>})
        client == CreateService(ReportAddresses(domain, server), "network/nis/client", {})
    IN  IF Missing(e, {"domain_name", "name_server"}) THEN Report(s, "process", e.key)
        ELSE CheckPayload([client EXCEPT !.name = "nis"], e.key,
                          Without(e.options, {"domain_name", "name_server"}))
ConvertNameServiceNisplus(s, e) == ConvertNameServiceNis(Report(s, "warning", e.key), e)

ConvertNameServiceNone(s, e) ==
    IF e.options # NoOptions THEN Report(s, "process", e.key) ELSE [s EXCEPT !.name = "none"]

(* The proxy's name is written twice.  The name service is not recorded as *)
(* set.                                                                    *)
ConvertNameServiceLdap(s, e) ==
    LET proxy == Get(e.options, "proxy_dn")
        password == Get(e.options, "proxy_password")
        client == {<<"profile", Get(e.options, "profile")>>,
                   <<"server_list", Get(e.options, "profile_server")>>}
                  \cup (IF proxy = <<>> THEN {}
                        ELSE {<<"search_base", proxy>>, <<"bind_dn", proxy>>})
                  \cup (IF password = <<>> THEN {} ELSE {<<"bind_passwd", password>>})
        ldap == CreateService(ConfigureDnsClient(AdjustNis(s, <<"ldap">>), <<"false">>),
                              "network/ldap/client", client)
    IN  IF Missing(e, {"domain_name", "profile", "profile_server"})
        THEN Report(s, "process", e.key)
        ELSE CheckPayload(CreateService(ldap, "network/nis/domain",
                                        {<<"domainname", Get(e.options, "domain_name")>>}),
                          e.key, Without(e.options, {"domain_name", "profile", "profile_server",
                                                     "proxy_dn", "proxy_password"}))

ConvertNameService(s, e) ==
    IF s.name # "" THEN Report(s, "process", e.key)
    ELSE CASE e.value = <<"dns">> -> ConvertNameServiceDns(s, e)
           [] e.value = <<"nis">> -> ConvertNameServiceNis(s, e)
           [] e.value = <<"nis+">> -> ConvertNameServiceNisplus(s, e)
           [] e.value = <<"ldap">> -> ConvertNameServiceLdap(s, e)
           [] e.value = <<"none">> -> ConvertNameServiceNone(s, e)
           [] OTHER -> Report(s, "process", e.key)

StoreNetInterface(s, e) == [s EXCEPT !.interfaces = Append(@, e)]
Converted(s, e) ==
    CASE e.key = "keyboard" -> ConvertKeyboard(s, e)
      [] e.key = "name_service" -> ConvertNameService(s, e)
      [] e.key = "network_interface" -> StoreNetInterface(s, e)
      [] e.key = "root_password" -> ConvertRootPassword(s, e)
      [] e.key = "security_policy" -> ConvertSecurityPolicy(s, e)
      [] e.key = "service_profile" -> ConvertServiceProfile(s, e)
      [] e.key = "system_locale" -> ConvertSystemLocale(s, e)
      [] e.key = "terminal" -> ConvertTerminal(s, e)
      [] e.key = "timeserver" -> ConvertTimeserver(s, e)
      [] e.key = "timezone" -> ConvertTimezone(s, e)
      [] OTHER -> Report(s, "unsupported", e.key)

ConvertStatement ==
    /\ phase = "convert" /\ lineAt <= Len(statements)
    /\ sysid' = Converted(sysid, statements[lineAt])
    /\ lineAt' = lineAt + 1
    /\ phase' = IF lineAt = Len(statements) THEN "network" ELSE "convert"
    /\ UNCHANGED <<sysidcfg, continued, statements>>

-----------------------------------------------------------------------------
(* The network.  network/physical says whether it is configured            *)
(* automatically; network/install holds what is configured of it.          *)

AppendNetInterface(s, how) == CreateService(s, "network/physical", {<<"active_ncp", how>>})
CreateNetInterface(s, how) ==
    IF ServicesNamed(s, "network/physical") = {}
    THEN CreateService(s, "network/physical", {<<"active_ncp", how>>})
    ELSE [s EXCEPT !.bundle[CHOOSE i \in ServicesNamed(s, "network/physical") : TRUE].holds =
                {<<"active_ncp", how>>}]
Automatic == <<"Automatic">>
DefaultFixed == <<"DefaultFixed">>
NoNameService(s) == s.name \in {"", "none"}

ConfigureInstall(s, holds) ==
    LET installed == IF s.network THEN s ELSE CreateService(s, "network/install", {})
        at == CHOOSE i \in ServicesNamed(installed, "network/install") : TRUE
    IN  [installed EXCEPT !.network = TRUE, !.bundle[at].holds = @ \cup holds]
ReportOthers(s, others, level) ==
    IF others = <<>> THEN s ELSE Report(s, level, "interface")

ConfigNetInterfaceNone(s, options, others) ==
    ReportOthers(CheckPayload(CreateNetInterface(s, DefaultFixed), "network_interface", options),
                 others, "process")

ConfigNetInterfacePrimary(s, options, others) ==
    LET dhcp == Get(options, "dhcp") # <<>>
        auto == IF options = NoOptions THEN s.name = "" ELSE dhcp
        ipv6 == Get(options, "protocol_ipv6")
        left == Without(options, {"dhcp", "protocol_ipv6"})
        read == IF options = NoOptions THEN IF auto THEN s ELSE Report(s, "warning", "network")
                ELSE IF dhcp
                     THEN CheckPayload(IF ipv6 \in {<<>>, <<"yes">>} THEN s
                                       ELSE Report(s, "conversion", "network_interface"),
                                       "network_interface", left)
                ELSE CheckPayload(Report(s, "conversion", "network"), "network_interface",
                                  Without(left, {"ip_address", "netmask", "default_route"}))
        created == CreateNetInterface(read, IF auto THEN Automatic ELSE DefaultFixed)
    IN  ReportOthers(IF auto THEN Report(created, "warning", "primary") ELSE created,
                     others, "process")

Usable(options, key) == Get(options, key) # <<>> /\ ValidIp(Get(options, key)[1])
Routed(options) == Usable(options, "default_route") /\ options.default_route # <<"none">>
ConfigNetPhysicalIpv4(s, interface, options) ==
    LET both == Usable(options, "ip_address") /\ Usable(options, "netmask")
        complete == /\ CompleteAddress(options.ip_address[1])
                    /\ CompleteAddress(options.netmask[1])
        wrong == \E k \in {"ip_address", "netmask", "default_route"} :
                    Get(options, k) # <<>> /\ ~Usable(options, k)
        checked == IF wrong THEN Report(s, "conversion", "address") ELSE s
        holds == {<<"ipv4", interface>>, <<"ipv4 type", <<"static">>>>}
                 \cup (IF both THEN {<<"static_address", options.ip_address \o options.netmask>>} ELSE {})
                 \cup (IF Routed(options) THEN {<<"default_route", options.default_route>>} ELSE {})
    IN  IF DOMAIN options \subseteq {"primary"} THEN s
        ELSE IF both /\ ~complete THEN [checked EXCEPT !.raised = TRUE]
        ELSE CheckPayload(ConfigureInstall(IF both THEN checked
                                           ELSE Report(checked, "conversion", "network_interface"),
                                           holds),
                          "network_interface",
                          Without(options, {"primary", "ip_address", "netmask", "default_route"}))

ConfigNetInterfaceDhcp(s, interface, options) ==
    LET dhcp == ConfigureInstall(s, {<<"ipv4", interface>>, <<"ipv4 type", <<"dhcp">>>>})
    IN  IF options = NoOptions THEN CreateNetInterface(dhcp, DefaultFixed)
        ELSE Report(dhcp, "process", "network_interface")
ConfigNetPhysicalIpv6(s, interface) ==
    ConfigureInstall(s, {<<"ipv6", interface>>, <<"ipv6 type", <<"addrconf">>>>})

(* "protocol_ipv6" without a value has none to look at.                    *)
ConfigNetPhysical(s, interface, options) ==
    LET ipv6 == IF "protocol_ipv6" \in DOMAIN options THEN options.protocol_ipv6 ELSE <<"no">>
        first == IF ipv6 = <<"yes">> THEN ConfigNetPhysicalIpv6(s, interface) ELSE s
        left == Without(options, {"protocol_ipv6", "dhcp"})
    IN  IF ipv6 = <<>> THEN [s EXCEPT !.raised = TRUE]
        ELSE IF Get(options, "dhcp") # <<>> THEN ConfigNetInterfaceDhcp(first, interface, left)
        ELSE ConfigNetPhysicalIpv4(first, interface, left)

(* The interface that is converted: the first one that says it is primary, *)
(* or the first.                                                           *)
IsPrimary(e) == e.value = <<"primary">> \/ "primary" \in DOMAIN e.options
Chosen(s) == IF \E i \in DOMAIN s.interfaces : IsPrimary(s.interfaces[i])
             THEN SelectInSeq(s.interfaces, IsPrimary) ELSE 1

ConfigNetInterface(s) ==
    LET e == s.interfaces[Chosen(s)]
        others == RemoveAt(s.interfaces, Chosen(s))
        hostname == Get(e.options, "hostname")
        named == IF hostname = <<>> THEN s ELSE ConvertHostname(s, hostname)
        options == Without(e.options, {"hostname"})
        physical == IF options = NoOptions
                    THEN CreateNetInterface(Report(named, "unsupported", "network"), Automatic)
                    ELSE ConfigNetPhysical(named, e.value, options)
    IN  IF s.interfaces = <<>>
        THEN IF NoNameService(s) THEN CreateNetInterface(s, Automatic)
             ELSE Report(CreateNetInterface(s, DefaultFixed), "warning", "network")
        ELSE IF e.value = <<"none">> THEN ConfigNetInterfaceNone(named, options, others)
        ELSE IF e.value = <<"primary">> THEN ConfigNetInterfacePrimary(named, options, others)
        ELSE IF options = NoOptions /\ ~NoNameService(s)
             THEN CreateNetInterface(Report(named, "warning", "network"), DefaultFixed)
        ELSE IF physical.raised THEN physical
        ELSE CreateNetInterface(ReportOthers(physical, others, "unsupported"),
                                IF physical.network THEN DefaultFixed ELSE Automatic)

WarnOfDefaults(s) ==
    LET hostname == IF "hostname" \in s.set THEN s ELSE Report(s, "warning", "hostname")
    IN  IF "root_password" \in s.set THEN hostname ELSE Report(hostname, "warning", "root_password")

FinishSysidcfg ==
    /\ phase = "network"
    /\ LET configured == ConfigNetInterface(sysid)
       IN  sysid' = IF configured.raised THEN configured ELSE WarnOfDefaults(configured)
    /\ phase' = IF sysid'.raised THEN "raised" ELSE "done"
    /\ UNCHANGED <<sysidcfg, lineAt, continued, statements>>

SysidStart == /\ phase = "read" /\ lineAt = 1 /\ continued = <<>>
              /\ statements = <<>> /\ sysid = NewSysid
SysidInit == sysidcfg \in Sysidcfgs /\ SysidStart
SysidNext == ReadLine \/ EndOfFile \/ ConvertStatement \/ FinishSysidcfg

-----------------------------------------------------------------------------
(* Properties.                                                             *)

Reported(about) == \E level \in {"process", "unsupported", "conversion", "warning"} :
                      <<level, about>> \in sysid.errors
NameServices == {i \in DOMAIN statements : statements[i].key = "name_service"}
LdapFollowed == \E i, j \in NameServices : i < j /\ statements[i].value = <<"ldap">>

(* What a file says at its top level, read as one text: the words outside  *)
(* braces, without what follows a closing brace on its line.               *)
TopLevel(file) ==
    FoldLeft(LAMBDA acc, line :
                LET after == FoldLeft(LAMBDA a, w :
                        IF a.inside THEN [a EXCEPT !.inside = (w # Close), !.closed = (w = Close)]
                        ELSE IF a.closed THEN a
                        ELSE IF w = Open THEN [a EXCEPT !.inside = TRUE]
                        ELSE [a EXCEPT !.words = Append(@, w)], acc, line)
                IN  [after EXCEPT !.closed = FALSE],
             [inside |-> FALSE, closed |-> FALSE, words |-> <<>>], file).words

(* A file that is read without an error is read as it stands: however its  *)
(* statements are laid out over lines, none is lost, split or taken for    *)
(* options; and it is read without an error where each statement is on a   *)
(* line of its own, or its options on the next (read_sysidcfg, lines       *)
(* 565-645).                                                               *)
EndsBlock(line) == HasBlock(line) /\ IndexOf(line, Close) = Len(line)
OneStatement(line) == /\ Head(line).value \notin {<<>>, <<"">>}
                      /\ Len(line) = 1 \/ (line[2] = Open /\ EndsBlock(line))
OptionsBelow(i) == /\ i > 1 /\ Head(sysidcfg[i]) = Open /\ EndsBlock(sysidcfg[i])
                   /\ MayContinue(sysidcfg[i - 1])
ReadAsItStands ==
    phase # "read" =>
        /\ ~Reported("syntax") /\ ~Reported("brace") =>
              [i \in DOMAIN statements |-> Word(statements[i].key, statements[i].value)]
                  = TopLevel(sysidcfg)
        /\ (\A i \in DOMAIN sysidcfg : sysidcfg[i] # <<>> =>
                OneStatement(sysidcfg[i]) \/ OptionsBelow(i)) =>
              ~Reported("syntax") /\ ~Reported("brace")

(* A service is in the bundle once, whatever keywords come together and    *)
(* however often, except that a name service which follows LDAP is         *)
(* converted beside it (the name service is recorded as set only by the    *)
(* other handlers).                                                        *)
ServicesOnce ==
    LdapFollowed \/ \A i, j \in DOMAIN sysid.bundle : i # j => sysid.bundle[i].name # sysid.bundle[j].name

(* The interface a file wants converted: what is primary goes before what  *)
(* is not, and what is given first before what is given later.             *)
Interfaces == SelectSeq(statements, LAMBDA e : e.key = "network_interface")
Wanted == Head(SelectSeq(Interfaces, IsPrimary) \o Interfaces)

(* A profile has a network ("we always want a network configured", line    *)
(* 1160): fixed when an interface was converted; fixed without one only    *)
(* if that was asked for or reported.                                      *)
NetworkConfigured ==
    phase = "done" /\ statements # <<>> =>
        /\ Cardinality(ServicesNamed(sysid, "network/physical")) = 1
        /\ sysid.network => Holds(sysid, "network/physical") = {<<"active_ncp", DefaultFixed>>}
        /\ ~sysid.network /\ <<"active_ncp", DefaultFixed>> \in Holds(sysid, "network/physical")
           => Reported("network") \/ Wanted.value = <<"none">>

(* Of a keyword that is given more than once the first counts, and the     *)
(* others are reported (rule 5 of the class comment).                      *)
Property == [keyboard |-> <<"system/keymap", "layout">>,
             root_password |-> <<"system/config-user", "password">>,
             system_locale |-> <<"system/environment", "LANG">>,
             terminal |-> <<"system/console-login", "terminal_type">>,
             timezone |-> <<"system/timezone", "localtime">>]
FirstCounts ==
    phase = "done" => \A i \in DOMAIN statements :
        LET key == statements[i].key
            earlier == \E j \in 1 .. i - 1 : statements[j].key = key /\ statements[j].options = NoOptions
            used == statements[i].options = NoOptions /\ ~earlier
        IN  key \in DOMAIN Property =>
                IF used THEN <<Property[key][2], statements[i].value>> \in Holds(sysid, Property[key][1])
                ELSE <<"process", key>> \in sysid.errors

(* An interface with an address and a netmask, or with DHCP, is configured *)
(* so or reported.  "dhcp" has to be written with a sign of equality: the  *)
(* reader gives a word without one no value, and the converter takes it    *)
(* for absent.  An interface that is not converted is reported, unless the *)
(* one that is had neither options nor a configuration.                    *)
InterfaceConverted ==
    phase = "done" /\ Interfaces # <<>> =>
        LET e == Wanted
            named == e.value \notin {<<"none">>, <<"primary">>}
        IN  /\ named /\ Get(e.options, "dhcp") # <<>>
               => <<"ipv4 type", <<"dhcp">>>> \in Holds(sysid, "network/install")
            /\ named /\ Get(e.options, "dhcp") = <<>> /\ Get(e.options, "ip_address") # <<>>
               => \/ Reported("network_interface")
                  \/ <<"static_address", e.options.ip_address \o e.options.netmask>>
                        \in Holds(sysid, "network/install")
            /\ Get(e.options, "hostname") # <<>>
               => \/ <<"nodename", e.options.hostname>> \in Holds(sysid, "system/identity")
                  \/ Reported("hostname")
            /\ Len(Interfaces) > 1
               => Reported("interface") \/ <<"warning", "network">> \in sysid.errors

(* The name service that is converted is one the file gives, with the      *)
(* services its switch needs; any other is reported.                       *)
NameServiceConverted ==
    phase = "done" /\ ~LdapFollowed /\ ~Reported("name_service") /\ sysid.name # "none" =>
        \A i \in NameServices :
            /\ <<"host", statements[i].value>> \in Holds(sysid, "system/name-service/switch")
            /\ ServicesNamed(sysid, "system/name-service/cache") # {}
            /\ ServicesNamed(sysid, "network/dns/client") # {}
            /\ (statements[i].value # <<"dns">>)
                  = (<<"enabled", <<"false">>>> \in Holds(sysid, "network/dns/client"))

(* The files that js2ai -s converts.                                       *)
SysidcfgSound == /\ ReadAsItStands /\ ServicesOnce /\ NetworkConfigured /\ FirstCounts
                 /\ InterfaceConverted /\ NameServiceConverted
=============================================================================
