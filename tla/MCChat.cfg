SPECIFICATION Spec
CONSTANTS
  a = a
  b = b
  Chats <- TwoChats
  IrcTypes <- SomeTypes
  MaxSaid = 2
  MaxNotices = 1
  Widths <- TwoWidths
  Heights <- TwoHeights
  LineHeight = 2
SYMMETRY Symmetric
INVARIANTS
  TypeOK
  NoLineIsMissing
  RowsAreInReach
PROPERTY KeepsItsPlace
CHECK_DEADLOCK FALSE
