CONSTANTS
 DhcpMacs = {m1}
 DhcpBootfiles = {b1}
 TopOctet = 3
 NetOctets = {0}
 SubnetSize = 4
 MaxStanzas = 9
 AutoNames <- OneAuto
 ChosenNames = {"b"}
 OtherPaths = {"else"}
 Macs = {m1}
 BootArgs = {"", "x"}
 Faults = {"none", "unmount", "smf"}
 ImageKinds <- X86
 RangeAsked <- OneRange
 MdnsServices = {s1, s2}
 Pids = {1, 2, 3}
 MdnsPorts = {80, 81}
 Subjects = {"services", "failures", "daemons", "adverts"}
SPECIFICATION Spec
INVARIANTS
    ServicesSound
    BootFilesCurrent
    ClientsAreOwned
    AdvertisesEnabled
    OneDaemon
CHECK_DEADLOCK FALSE
