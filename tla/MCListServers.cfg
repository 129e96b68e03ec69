SPECIFICATION Spec
CONSTANTS
  u1 = u1
  u2 = u2
  i1 = i1
  i2 = i2
  Users <- TwoUsers
  Ids <- OneId
  Props <- StatusAndName
  Values <- Bits
  NewRow <- New
  Announced <- Status
  Editable <- Name
  OnlyIndex = TRUE
  UserCommands <- AllCommands
  PluginChanges <- ChangeOnly
  MaxChanges = 2
SYMMETRY Symmetric
INVARIANTS
  TypeOK
  MirrorCatchesUp
  ShownAreKnown
CHECK_DEADLOCK FALSE
