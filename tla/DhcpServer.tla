----------------------------- MODULE DhcpServer -----------------------------
(***************************************************************************)
(* The local ISC DHCP server as installadm edits it (installadm/dhcp.py).  *)
(* The configuration file is the sequence of its stanzas (subnet, class    *)
(* and host), in file order; what dhcp.py edits in place inside a stanza   *)
(* is a field of the stanza.  The operators take and return the record     *)
(* "d" of the server, so that the install services can carry one in their  *)
(* own state; a raised DHCPServerError is d.err.                           *)
(***************************************************************************)
EXTENDS Integers, Sequences, SequencesExt, FiniteSets

CONSTANTS DhcpMacs,      \* hardware addresses
          DhcpBootfiles, \* boot file names
          TopOctet,      \* the largest last octet of an address (255)
          NetOctets,     \* the leading octets, as one number
          SubnetSize,    \* addresses per subnet, the netmask
          MaxStanzas     \* bound on the length of the file

ASSUME DhcpAssumption == /\ TopOctet \in Nat /\ SubnetSize \in Nat \ {0}
                         /\ NetOctets \subseteq Nat /\ MaxStanzas \in Nat

Archs == {"i386", "sparc"}

(* An address is its leading octets and its last one; the netmask is       *)
(* applied to the address as a number.                                     *)
DhcpAddress == [net : NetOctets, host : 0 .. TopOctet]
GetSubnet(ip) == (ip.net * (TopOctet + 1) + ip.host) \div SubnetSize
IpIsInNetwork(ip, subnet) == GetSubnet(ip) = subnet

(* A stanza of the configuration file.  "form" is how the hardware address *)
(* of a host is spelled: installadm writes upper case, an administrator    *)
(* who edits the file may not.                                             *)
SubnetStanza(ip, hi) ==
    [kind |-> "subnet", subnet |-> GetSubnet(ip),
     ranges |-> {[net |-> ip.net, lo |-> ip.host, hi |-> hi]}]
ClassStanza(arch, bootfile) ==
    [kind |-> "class", arch |-> arch, bootfile |-> bootfile]
HostStanza(mac, bootfile, form) ==
    [kind |-> "host", mac |-> mac, bootfile |-> bootfile, form |-> form]

NewDhcp == [configured |-> FALSE, state |-> "disabled", file |-> <<>>,
            err |-> "none"]

IsOnline(d) == d.state = "online"
IsConfigured(d) == d.configured
DhcpFail(d) == [d EXCEPT !.err = "DHCPServerError"]
StanzasOf(d, kind) == {i \in DOMAIN d.file : d.file[i].kind = kind}

(* init_config(): the base stanza and the name services make the file.     *)
InitConfig(d) ==
    IF IsConfigured(d) THEN DhcpFail(d) ELSE [d EXCEPT !.configured = TRUE]

AddStanza(d, stanza) == [d EXCEPT !.file = Append(@, stanza)]

----------------------------------------------------------------------------
(* Address ranges *)

LookupSubnet(d, subnet) ==
    {i \in StanzasOf(d, "subnet") : d.file[i].subnet = subnet}

(* Faulty variant: only the first address of the new range is compared.    *)
OverlapAtLow(stanza, lo, hi) ==
    \E r \in stanza.ranges : lo \in r.lo .. r.hi
(* _check_subnet_for_overlap() compares last octets only.                  *)
CheckSubnetForOverlap(stanza, lo, hi) ==
    \E r \in stanza.ranges : (lo .. hi) \cap (r.lo .. r.hi) # {}

SetAndCheckHiaddr(ip, count) ==
    LET hi == ip.host + (count - 1)
    IN  [hi |-> hi,
         ok |-> /\ hi <= TopOctet
                /\ IpIsInNetwork([ip EXCEPT !.host = hi], GetSubnet(ip))]

AddRangeToSubnet(d, i, ip, hi) ==
    [d EXCEPT !.file[i].ranges =
        @ \cup {[net |-> ip.net, lo |-> ip.host, hi |-> hi]}]

(* add_address_range(); nextserver is FALSE when no local address lies in  *)
(* the network and no boot server was named.                               *)
AddAddressRange(d, ip, count, nextserver) ==
    LET check == SetAndCheckHiaddr(ip, count)
        nets == LookupSubnet(d, GetSubnet(ip))
    IN  CASE ~check.ok -> DhcpFail(d)
          [] check.ok /\ nets # {} ->
                LET i == CHOOSE j \in nets : \A k \in nets : j <= k
                IN  IF CheckSubnetForOverlap(d.file[i], ip.host, check.hi)
                    THEN DhcpFail(d)
                    ELSE AddRangeToSubnet(d, i, ip, check.hi)
          [] check.ok /\ nets = {} ->
                IF nextserver THEN AddStanza(d, SubnetStanza(ip, check.hi))
                ELSE DhcpFail(d)

----------------------------------------------------------------------------
(* Hosts *)

(* _hosts and host_is_configured() compare without regard to case.         *)
HostIsConfigured(d, mac) ==
    \E i \in StanzasOf(d, "host") : d.file[i].mac = mac

AddHost(d, mac, bootfile) ==
    IF HostIsConfigured(d, mac) THEN DhcpFail(d)
    ELSE AddStanza(d, HostStanza(mac, bootfile, "upper"))

(* Faulty variant: the search is not ended by the first match.             *)
RemoveHostsFrom(d, mac) ==
    LET hits == {i \in StanzasOf(d, "host") : d.file[i].mac = mac}
    IN  IF hits = {} THEN d
        ELSE [d EXCEPT !.file =
                SubSeq(@, 1, (CHOOSE i \in hits : \A j \in hits : i <= j) - 1)]
(* remove_host() looks for the address as it is spelled and drops the      *)
(* first host stanza that holds it; the other stanzas stay in order.       *)
RemoveHost(d, mac) ==
    LET hits == {i \in StanzasOf(d, "host") :
                    d.file[i].mac = mac /\ d.file[i].form = "upper"}
    IN  IF hits = {} THEN d
        ELSE LET first == CHOOSE i \in hits : \A j \in hits : i <= j
             IN  [d EXCEPT !.file = RemoveAt(@, first)]

----------------------------------------------------------------------------
(* Architecture classes *)

ArchClasses(d, arch) ==
    {i \in StanzasOf(d, "class") : d.file[i].arch = arch}
ArchClassIsSet(d, arch) == ArchClasses(d, arch) # {}
TheArchClass(d, arch) ==
    CHOOSE i \in ArchClasses(d, arch) : \A j \in ArchClasses(d, arch) : i <= j
GetBootfileForArch(d, arch) ==
    IF ArchClassIsSet(d, arch) THEN d.file[TheArchClass(d, arch)].bootfile
    ELSE "none"

AddArchClass(d, arch, bootfile) ==
    IF ArchClassIsSet(d, arch) THEN DhcpFail(d)
    ELSE AddStanza(d, ClassStanza(arch, bootfile))

(* _edit_class_bootfile() rewrites the first class of the architecture:    *)
(* "set" adds a filename line, "update" replaces or drops the one there.   *)
EditClassBootfile(d, arch, action, bootfile) ==
    LET i == TheArchClass(d, arch)
    IN  IF action = "update" /\ d.file[i].bootfile = "none" THEN d
        ELSE [d EXCEPT !.file[i].bootfile = bootfile]

SetBootfile(d, arch, bootfile) ==
    IF ~ArchClassIsSet(d, arch) \/ GetBootfileForArch(d, arch) # "none"
    THEN DhcpFail(d)
    ELSE EditClassBootfile(d, arch, "set", bootfile)

UpdateBootfile(d, arch, bootfile) ==
    IF ~ArchClassIsSet(d, arch) THEN DhcpFail(d)
    ELSE EditClassBootfile(d, arch, "update", bootfile)

UnsetBootfile(d, arch) ==
    IF ~ArchClassIsSet(d, arch) \/ GetBootfileForArch(d, arch) = "none"
    THEN DhcpFail(d)
    ELSE EditClassBootfile(d, arch, "update", "none")

----------------------------------------------------------------------------
(* The SMF service *)

(* svcadm; a server whose configuration is broken ends in maintenance.     *)
SvcAdm(state, action, broken) ==
    CASE action = "disable" -> "disabled"
      [] action = "enable" /\ state = "maintenance" -> "maintenance"
      [] action = "enable" /\ state # "maintenance" ->
            IF broken THEN "maintenance" ELSE "online"
      [] action = "restart" /\ state = "online" ->
            IF broken THEN "maintenance" ELSE "online"
      [] action = "restart" /\ state # "online" -> state

(* control(): when the state is not the expected one, disable and enable   *)
(* the service; only then give up.                                         *)
DhcpControl(d, action, broken) ==
    LET expected == IF action = "disable" THEN "disabled" ELSE "online"
        first == SvcAdm(d.state, action, broken)
        reset == SvcAdm(SvcAdm(first, "disable", broken), "enable", broken)
    IN  CASE first = expected -> [d EXCEPT !.state = first]
          [] first # expected /\ action = "disable" ->
                DhcpFail([d EXCEPT !.state = first])
          [] first # expected /\ action # "disable" ->
                IF reset = "online" THEN [d EXCEPT !.state = reset]
                ELSE DhcpFail([d EXCEPT !.state = reset])

----------------------------------------------------------------------------
(* The server on its own: any sequence of edits, and an administrator who  *)
(* also writes a host entry by hand.                                       *)
VARIABLE dhcp

dhcpVars == <<dhcp>>

Room == Len(dhcp.file) < MaxStanzas
Edit(d) == dhcp' = d

DhcpInit == dhcp = NewDhcp

DhcpNext ==
    LET d == [dhcp EXCEPT !.err = "none"]
    IN  \/ Edit(InitConfig(d))
        \/ /\ IsConfigured(d)
           /\ \/ /\ Room
                 /\ \/ \E ip \in DhcpAddress, count \in 1 .. TopOctet + 1,
                          nextserver \in BOOLEAN :
                            Edit(AddAddressRange(d, ip, count, nextserver))
                    \/ \E mac \in DhcpMacs, b \in DhcpBootfiles :
                            Edit(AddHost(d, mac, b))
                    \/ \E mac \in DhcpMacs, b \in DhcpBootfiles :
                            /\ ~HostIsConfigured(d, mac)
                            /\ Edit(AddStanza(d, HostStanza(mac, b, "lower")))
                    \/ \E arch \in Archs, b \in DhcpBootfiles :
                            Edit(AddArchClass(d, arch, b))
              \/ \E mac \in DhcpMacs : /\ HostIsConfigured(d, mac)
                                       /\ Edit(RemoveHost(d, mac))
              \/ \E arch \in Archs, b \in DhcpBootfiles :
                    Edit(SetBootfile(d, arch, b))
              \/ \E arch \in Archs, b \in DhcpBootfiles :
                    Edit(UpdateBootfile(d, arch, b))
              \/ \E arch \in Archs : Edit(UnsetBootfile(d, arch))
              \/ \E action \in {"enable", "disable", "restart"},
                    broken \in BOOLEAN :
                    Edit(DhcpControl(d, action, broken))

----------------------------------------------------------------------------
(* Properties *)

DhcpSpec == DhcpInit /\ [][DhcpNext]_dhcpVars

RangeAddresses(r) == {[net |-> r.net, host |-> h] : h \in r.lo .. r.hi}

(* No address is handed out by two ranges of the file, whatever sequence   *)
(* of create-service -i/-c requests built it, although the overlap check   *)
(* compares last octets only; and every address of a range lies in the     *)
(* subnet whose stanza holds it.                                           *)
RangesDisjoint ==
    \A i, j \in StanzasOf(dhcp, "subnet") :
        \A r \in dhcp.file[i].ranges, q \in dhcp.file[j].ranges :
            /\ <<i, r>> # <<j, q>> => RangeAddresses(r) \cap RangeAddresses(q) = {}
            /\ \A a \in RangeAddresses(r) : IpIsInNetwork(a, dhcp.file[i].subnet)

(* What an edit makes of a stanza: the stanza, or one with another boot    *)
(* file or with more ranges.                                               *)
KeptAs(s, file) ==
    {t \in ToSet(file) :
        /\ t.kind = s.kind
        /\ s.kind = "host" => t = s
        /\ s.kind = "class" => t.arch = s.arch
        /\ s.kind = "subnet" => t.subnet = s.subnet /\ s.ranges \subseteq t.ranges}

(* Removing one client's host entry leaves every other client's entry in   *)
(* the file, in its place; no edit ever drops a subnet or a class stanza.  *)
EditsKeepOthers ==
    [][\A i \in DOMAIN dhcp.file :
        LET s == dhcp.file[i]
        IN  KeptAs(s, dhcp'.file) = {} =>
                /\ s.kind = "host"
                /\ Len(dhcp'.file) = Len(dhcp.file) - 1
                /\ ~HostIsConfigured(dhcp', s.mac)]_dhcpVars
============================================================================
