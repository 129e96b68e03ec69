SPECIFICATION FairSpec
CONSTANTS
  u1 = u1
  u2 = u2
  i1 = i1
  i2 = i2
  Users <- OneUser
  Ids <- TwoIds
  Props <- StatusAndName
  Values <- Bits
  NewRow <- New
  Announced <- Status
  Editable <- Name
  OnlyIndex = FALSE
  UserCommands <- AllCommands
  PluginChanges <- AddAndChange
  MaxChanges = 2
PROPERTIES
  ImplementsMirroredList
  EverybodyLoads
CHECK_DEADLOCK FALSE
