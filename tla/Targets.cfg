SPECIFICATION Spec
CONSTANTS
  DiscPools <- ThePools
  DiscDisks <- TheDisks
  PoolSpecs <- ThePoolSpecs
  DiskSpecs <- TheDiskSpecs
  MaxPools = 2
  MaxDisks = 2
  MinTarget = 2
  RootName = "rpool"
  NoName = NoName
  CylSize = 3
  DevSize = 25
  LogicalAdjustment = 1
  FdNumPart = 2
  MaxExtParts = 2
  VNumPar = 3
  Layouts <- TheLayouts
  Starts = {0, 9}
  Sizes = {6, 13}
  SliceSizes = {4}
  MaxOps = 3
  Setups <- TheSetups
  ZoneTable <- TheZones
  MaxTurns = 3
  Nothing = Nothing
INVARIANTS
    SelectionSound
    LayoutSound
    SessionSound
PROPERTIES
    ResizeFinds
CHECK_DEADLOCK FALSE
