SPECIFICATION Spec
CONSTANTS
  s1 = s1
  s2 = s2
  h1 = h1
  h2 = h2
  a = a
  b = b
  Servers <- TwoServers
  Hosts <- TwoHosts
  Chats <- TwoChats
  MaxId = 3
  MaxActs = 4
INVARIANT RootsStay
CHECK_DEADLOCK FALSE
