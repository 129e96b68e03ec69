SPECIFICATION Spec
CONSTANTS
  s1 = s1
  h1 = h1
  a = a
  smile = smile
  ColonTexts <- OneColonText
  MaxSpliced = 2
  Servers <- OneServer
  Hosts <- OneHost
  Chats <- OneChat
  MaxId = 3
  MaxActs = 2
  MaxMessages = 2
  Unusual = {1}
  MaxRows = 4
INVARIANTS
  TypeOK
  OneRowPerChannel
  RecordedInOrder
  ToldIsRecorded
CHECK_DEADLOCK FALSE
