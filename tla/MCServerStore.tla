---------------------------- MODULE MCServerStore ----------------------------
(***************************************************************************)
(* The stores an AI server edits, side by side: the manifests of a         *)
(* service, its profiles (a table of their own in the same database), the  *)
(* configuration of the DHCP server, and what an older release left: its   *)
(* services, and the profiles, the rules and the system identification of  *)
(* JumpStart, when they are converted.                                     *)
(***************************************************************************)
EXTENDS ManifestStore, DhcpServer, ServiceConversion, JumpStart

ArchOnly == {NoCriteria, [arch |-> {"i86pc"}, ipv4 |-> NoRange]}

(* Three services of one image and two that have images of their own, of   *)
(* which the data cannot all be copied, and the addresses that clients had *)
(* of the older DHCP server.                                               *)
OldService(name, image) ==
    [name |-> name, image |-> image, copyable |-> TRUE, dir |-> "old", boot |-> TRUE,
     version |-> 0, manifest |-> FALSE, default |-> FALSE]
Address(net, host) == [net |-> net, host |-> host]
OldServer ==
    [services |-> <<OldService("s1", "i1"), OldService("s2", "i1"),
                    [OldService("s3", "i1") EXCEPT !.default = TRUE, !.version = 1]>>,
     clients |-> [c1 |-> "s1", c2 |-> "s2"], dry |-> FALSE, solarisDhcp |-> TRUE,
     hasDir |-> FALSE, faulty |-> {"s2"},
     addresses |-> {Address(1, 1), Address(1, 2), Address(1, 4), Address(2, 3), Address(2, 2)}]
TheServers ==
    {OldServer, [OldServer EXCEPT !.faulty = {"s3"}], [OldServer EXCEPT !.dry = TRUE, !.solarisDhcp = FALSE],
     [OldServer EXCEPT !.dry = TRUE, !.solarisDhcp = FALSE, !.hasDir = TRUE],
     [OldServer EXCEPT !.dry = TRUE, !.hasDir = TRUE,
        !.services = <<[OldService("s1", "i1") EXCEPT !.dir = "none"], OldService("s2", "i2")>>],
     [OldServer EXCEPT
        !.services = <<[OldService("s2", "i2") EXCEPT !.copyable = FALSE],
                       [OldService("s1", "i1") EXCEPT !.dir = "port", !.boot = FALSE]>>,
        !.faulty = {"s1", "s2"},
        !.addresses = {Address(1, 3), Address(2, 4), Address(1, 4)}],
     [OldServer EXCEPT
        !.services = <<[OldService("s1", "i1") EXCEPT !.dir = "none"], OldService("s2", "i2")>>,
        !.faulty = {"s1", "s2"}, !.addresses = [net : {1, 2}, host : {2, 3}]]}

(* Profiles of up to MaxLines lines, after the one that has to be first.   *)
CONSTANT MaxLines
Line(key) == [key |-> key, bad |-> FALSE]
Filesys == Line("filesys") @@ [remote |-> FALSE, optional |-> FALSE]
JumpLines ==
    {Line("root_device") @@ [device |-> Dev("c0", "0")],
     Line("root_device") @@ [device |-> Dev("c1", "1")],
     Line("boot_device") @@ [device |-> Dev("c0", Whole), eeprom |-> "none"],
     Line("boot_device") @@ [device |-> Dev("c0", "0"), eeprom |-> "update"],
     Line("boot_device") @@ [device |-> AnyDevice, eeprom |-> "preserve"],
     Line("partitioning") @@ [type |-> "default"],
     Line("partitioning") @@ [type |-> "existing"],
     Line("usedisk") @@ [disks |-> <<"c0">>], 
     Line("usedisk") @@ [disks |-> <<"c1", "c2">>],
     Line("usedisk") @@ [disks |-> <<"bogus">>],
     Line("locale") @@ [locale |-> "de"],
     Line("system_type") @@ [type |-> "server"]}
    \cup {Line("pool") @@ [name |-> p[1], size |-> p[2], swap |-> p[3], dump |-> "auto", mirror |-> p[4],
                           devices |-> p[5]] :
          p \in {<<"rpool", "auto", "0", FALSE, <<AnyDevice>>>>,
                 <<"tank", "10", "20", TRUE, <<Dev("c0", "0"), Dev("c1", "0")>>>>,
                 <<"tank", "existing", "auto", FALSE, <<Dev("c1", "1")>>>>,
                 <<"tank", "10", "auto", FALSE, <<Dev("c0", "1")>>>>}}
    \cup {Line("fdisk") @@ [device |-> Dev(p[1], Whole), type |-> "solaris", size |-> p[2]] :
          p \in {<<"c0", "all">>, <<"rootdisk", "10">>, <<"c0", "20">>}}
    \cup {Filesys @@ [mirror |-> FALSE, device |-> p[1], size |-> p[2], mount |-> p[3]] :
          p \in {<<Dev("c0", "0"), "10", "/">>, <<AnyDevice, "all", "/">>, <<Dev("rootdisk", "0"), "20", "/">>,
                 <<Dev("c0", "1"), "all", "swap">>, <<Dev("c0", "0"), "20", "swap">>}}
    \cup {Filesys @@ [mirror |-> TRUE, name |-> p[1], devices |-> p[2], size |-> "10", mount |-> p[3]] :
          p \in {<<"", <<Dev("c0", "0"), Dev("c1", "0")>>, "/">>,
                 <<"m", <<AnyDevice, Dev("c0", "1")>>, "swap">>}}
    \cup {[Filesys EXCEPT !.remote = TRUE] @@ [mirror |-> FALSE],
          [Filesys EXCEPT !.optional = TRUE] @@
              [mirror |-> FALSE, device |-> Dev("c0", "3"), size |-> "10", mount |-> "swap"]}
    \cup {Line("package") @@ [package |-> "p", action |-> a, from |-> ""] : a \in {"add", "delete"}}
InstallType(t) == Line("install_type") @@ [type |-> t]
JumpProfiles ==
    {<<>>, <<InstallType("upgrade")>>, <<InstallType("flash")>>, <<Line("pool")>>}
    \cup {<<InstallType("initial_install")>> \o s : s \in UNION {[1 .. n -> JumpLines] : n \in 0 .. MaxLines}}


(* The system identification files of two lines, and of up to MaxSysidLines *)
(* where each line is a statement of its own kind or a part of one.        *)
CONSTANT MaxSysidLines
Word(key, value) == [key |-> key, value |-> value]
Said(key, value) == <<Word(key, value)>>
Open == Word("{", <<>>)
Close == Word("}", <<>>)
Braced(options) == <<Open>> \o options \o <<Close>>
Ip == Word("ip_address", <<"10.0.0.1">>)
Server == Word("name_server", <<"10.0.0.1">>)
Domain == Word("domain_name", <<"d">>)
Primary == Word("primary", <<>>)
InterfaceOptions ==
    {<<>>, <<Primary>>, <<Word("dhcp", <<>>)>>, <<Word("dhcp", <<"">>)>>,
     <<Word("dhcp", <<"">>), Primary>>, <<Word("protocol_ipv6", <<>>)>>,
     <<Word("hostname", <<"h">>), Ip, Word("netmask", <<"mask">>), Word("default_route", <<"none">>)>>,
     <<Primary, Word("ip_address", <<"partial">>), Word("netmask", <<"mask">>)>>,
     <<Word("hostname", <<"bad">>), Word("ip_address", <<"bad">>), Word("protocol_ipv6", <<"yes">>)>>}
NameServiceOptions ==
    {<<Domain, Word("name_server", <<"10.0.0.1", "bad">>)>>, <<Server>>,
     <<Domain, Server, Word("profile", <<"p">>), Word("profile_server", <<"10.0.0.1">>)>>}
SysidLines ==
    {<<>>, <<Open>>, <<Close>>, <<Open, Word("dhcp", <<"">>), Close>>,
     Said("keyboard", <<"us">>), Said("keyboard", <<"cz">>), Said("keyboard", <<"us">>) \o Said("keyboard", <<"cz">>),
     Said("terminal", <<"vt100">>), Said("timezone", <<"utc">>), Said("system_locale", <<"C">>),
     Said("root_password", <<"x">>), Said("root_password", <<"">>), Said("service_profile", <<"open">>),
     Said("timeserver", <<"ntp">>), Said("security_policy", <<"kerberos">>), Said("cluster", <<"c">>),
     Said("network_interface", <<"none">>), Said("network_interface", <<"eri0">>),
     Said("network_interface", <<"eri0">>) \o <<Open>>, Said("hostname", <<"h">>) \o <<Close>>,
     Said("name_service", <<"none">>), Said("name_service", <<"ldap">>),
     Said("name_service", <<"nis+">>) \o Braced(<<Domain, Server>>) \o Said("timezone", <<"cet">>)}
    \cup {Said("network_interface", <<n>>) \o Braced(o) : n \in {"eri0", "primary"}, o \in InterfaceOptions}
    \cup {Said("name_service", <<n>>) \o Braced(o) : n \in {"dns", "ldap"}, o \in NameServiceOptions}
FewSysidLines ==
    {<<>>, <<Open>>, <<Close>>, <<Open, Word("dhcp", <<"">>), Close>>,
     Said("keyboard", <<"us">>), Said("keyboard", <<"cz">>), Said("root_password", <<"x">>),
     Said("network_interface", <<"eri0">>), Said("network_interface", <<"eri0">>) \o <<Open>>,
     Said("name_service", <<"none">>), Said("name_service", <<"ldap">>)}
    \cup {Said("network_interface", <<"eri0">>) \o Braced(o) : o \in InterfaceOptions}
    \cup {Said("name_service", <<"ldap">>) \o Braced(o) : o \in NameServiceOptions}
TheSysidcfgs == UNION {[1 .. n -> SysidLines] : n \in 0 .. 2}
                \cup UNION {[1 .. n -> FewSysidLines] : n \in 3 .. MaxSysidLines}

(* The rules files of up to MaxRulesLines lines.  A word of a rule that is *)
(* written over lines can be taken for its profile.                        *)
CONSTANT MaxRulesLines
Scripts(name) == <<"begin", name, "finish">>
RulesLines ==
    {<<>>, <<"\\">>, <<"&&">>, <<"&&", "\\">>, <<"memsize", "64-128", "\\">>,
     <<"memsize", "64-128", "&&", "\\">>, <<"karch", "sun4v", "&&">>, <<"&&", "model", "m", "\\">>,
     <<"model", "m", "&&", "arch", "i86pc", "\\">>, <<"x", "finish">>, Scripts("prof"),
     <<"any">> \o Scripts("prof"), <<"&&", "memsize", "64">> \o Scripts("prof1"),
     <<"arch", "i86pc", "b", "prof10", "prof1", "\\">>}
    \cup {g \o Scripts("prof1") :
            g \in {<<"arch", "i86pc">>, <<"arch", "sun4u">>, <<"arch", "sun4c">>, <<"any", "-">>,
                   <<"network", "10.0.0.0">>, <<"network", "net">>, <<"!", "model", "m">>, <<"hostaddress">>}}
    \cup {<<"arch", "i86pc">> \o Scripts(p) : p \in {"-", "prof", "prof10", "gone"}}
    \cup {<<"model", "m", "&&", "arch", "i86pc">> \o Scripts(p) : p \in {"prof1", "prof10"}}
TheRulesFiles == UNION {[1 .. n -> RulesLines] : n \in 0 .. MaxRulesLines}
ThePartOf == {<<"prof", "prof1">>, <<"prof", "prof10">>, <<"prof1", "prof10">>}

-----------------------------------------------------------------------------
CONSTANTS Stores, Sysidcfgs, RulesFiles, ProfileFiles, Convertible, PartOf
VARIABLES store,
          sysidcfg, phase, lineAt, continued, statements, sysid,
          rulesFile, rulesPhase, lineNum, ruleLine, definedRule, rules, rulesReport,
          directories, profileNames
Sysid == INSTANCE SysidConfig
Rules == INSTANCE JumpRules
sysidVars == <<sysidcfg, phase, lineAt, continued, statements, sysid>>
rulesVars == <<rulesFile, rulesPhase, lineNum, ruleLine, definedRule, rules, rulesReport,
               directories, profileNames>>
allVars == <<storeVars, dhcp, convertVars, jumpVars, sysidVars, rulesVars, store>>

(* One store is edited; what the other conversions would read is fixed.    *)
Init == /\ StoreInit /\ DhcpInit /\ store \in Stores
        /\ ConvertInit /\ (store # "conversion" => server = CHOOSE s \in Servers : TRUE)
        /\ IF store = "jumpstart" THEN JumpInit ELSE profile = <<>> /\ JumpStarts
        /\ IF store = "sysidcfg" THEN Sysid!SysidInit ELSE sysidcfg = <<>> /\ Sysid!SysidStart
        /\ IF store = "rules" THEN Rules!RulesInit ELSE rulesFile = <<>> /\ Rules!RulesStart
jumpFiles == <<jumpVars, sysidVars, rulesVars>>
Next == /\ UNCHANGED store
        /\ \/ store = "manifests" /\ ManifestNext /\ UNCHANGED <<dhcp, convertVars, jumpFiles>>
           \/ store = "profiles" /\ ProfileNext /\ UNCHANGED <<dhcp, convertVars, jumpFiles>>
           \/ store = "dhcp" /\ DhcpNext /\ UNCHANGED <<storeVars, convertVars, jumpFiles>>
           \/ store = "conversion" /\ ConvertNext /\ UNCHANGED <<storeVars, dhcp, jumpFiles>>
           \/ /\ UNCHANGED <<storeVars, dhcp, convertVars>>
              /\ \/ /\ store = "jumpstart" /\ JumpNext
                    /\ UNCHANGED <<sysidVars, rulesVars>>
                 \/ /\ store = "sysidcfg" /\ Sysid!SysidNext
                    /\ UNCHANGED <<jumpVars, rulesVars>>
                 \/ /\ store = "rules" /\ Rules!RulesNext
                    /\ UNCHANGED <<jumpVars, sysidVars>>
Spec == Init /\ [][Next]_allVars

(* What an older release left is converted whole or reported: its services *)
(* with their clients (installadm-convert), and its profiles, rules and    *)
(* system identification (js2ai).                                          *)
OlderReleaseConverted ==
    ConversionSound /\ ProfilesSound /\ Sysid!SysidcfgSound /\ Rules!RulesSound
==============================================================================
