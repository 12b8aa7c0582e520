CONSTANTS
 MNames = {"m1"}
 ArchVals = {"i86pc", "sun4v"}
 Addrs = {1, 2}
 PNames = {"p1", "p2"}
 PCrits <- ArchOnly
 MaxPFiles = 3
 MaxInstances = 1
 Timeouts = TRUE
 Appends = FALSE
 DhcpMacs = {d1, d2}
 DhcpBootfiles = {b1}
 TopOctet = 3
 NetOctets = {0, 1}
 SubnetSize = 8
 MaxStanzas = 3
 Stores = {"manifests", "profiles", "dhcp", "conversion", "jumpstart", "sysidcfg", "rules"}
 Servers <- TheServers
 MaxStarts = 2
 NoImage = NoImage
 Profiles <- JumpProfiles
 MaxLines = 3
 Sysidcfgs <- TheSysidcfgs
 MaxSysidLines = 3
 RulesFiles <- TheRulesFiles
 MaxRulesLines = 3
 ProfileFiles = {"prof", "prof1", "prof10"}
 Convertible = {"prof1", "prof10"}
 PartOf <- ThePartOf
SPECIFICATION Spec
INVARIANTS
    OneManifestEach
    
    RangesDisjoint
    OlderReleaseConverted
PROPERTIES
    EditsKeepOthers
CHECK_DEADLOCK FALSE
