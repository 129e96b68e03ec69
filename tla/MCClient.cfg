SPECIFICATION Spec
CONSTANTS
  s1 = s1
  s2 = s2
  x = x
  Servers <- TwoServers
  ChatIds <- OneChat
  MaxBroadcasts = 1
  MaxActs = 2
INVARIANTS
  TypeOK
  AnswersComeBack
  SubscriptionsAgree
  WindowIsSound
PROPERTIES
  ImplementsPacketLink
CHECK_DEADLOCK FALSE
