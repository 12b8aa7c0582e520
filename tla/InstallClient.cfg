SPECIFICATION Spec
CONSTANTS
  Hosts <- TheHosts
  W = 6
  Boots <- TheBoots
  Manifests <- TheManifests
  Scripts <- TheScripts
  Options <- TheOptions
  Profiles = {"p"}
  Pools = {}
  Generated <- TheGenerated
  MaxRuns = 2
  NoFile = NoFile
  Softwares <- TheSoftwares
  Images <- TheImages
  PkgNum = 2
  NoPub = NoPub
  Targets <- TheTargets
  Systems <- TheSystems
  Begins <- TheBegins
  Jobs <- TheJobs
  MaxEdits = 3
  NoFs = NoFs
  NoMenu = NoMenu
  Installs <- TheInstalls
  None = None
INVARIANTS
    ClientSound
    TransferSound
    PoolsSound
    BootSound
    CompletionSound
PROPERTIES
    ClientConcludes
    TransferEnds
CHECK_DEADLOCK FALSE
