SPECIFICATION Spec
CONSTANTS
  Lists = {l1}
  Links = {k1, k2, k3}
  Scratch = ls
  Weights = {1, 2, 3}
  BadWeight = 3
  Careful = TRUE
  Null = Null
  Errors = {e1, e2}
  Modules = {"td", "ti"}
  ErrTypes = {"err", "cleanup"}
  DataTypes = {"str"}
  Makers = {"c"}
  MaxLists = 2
  MaxObjects = 7
  MaxOps = 3
  Kinds <- TheKinds
  Documents <- TheDocuments
  NoParent = 0
  NoName = NoName
  NoSnapshot = NoSnapshot
  DtdFiles <- TheDtds
  Xmls <- TheXmls
  Wishes <- TheWishes
  AimDtds = {Nil, "ai"}
  OldFiles <- TheOldFiles
  MaxCommands = 2
  MaxChildren = 4
  Nil = Nil
INVARIANTS
    RefsExact
    DocumentsSound
PROPERTIES
    ImplementsLists
CHECK_DEADLOCK FALSE
