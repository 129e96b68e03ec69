SPECIFICATION PageSpec
CONSTANTS
  i1 = i1
  i2 = i2
  i3 = i3
  n1 = n1
  n2 = n2
  Ids <- ThreeIds
  Names <- TwoNames
  MaxActs = 4
  MaxEvents = 3
SYMMETRY Symmetric
INVARIANTS
  PageTypeOK
  PageShowsCurrent
PROPERTIES
  OthersGoOnlyAfterIt
  OnlyTypedIsApplied
CHECK_DEADLOCK FALSE
