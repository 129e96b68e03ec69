SPECIFICATION FairSpec
CONSTANTS
  tcp = tcp
  irc = irc
  c1 = c1
  c2 = c2
  l1 = l1
  Main = Main
  Plugins <- OnlyTcp
  Clients <- TwoClients
  Parts <- NoParts
  Owner <- OwnerOfClients
  Channels = {ch}
  MaxSent <- FirstSendsTwice
  Listeners <- OneListener
INVARIANTS
  TypeOK
  SinglePluginNeverRaces
  SetupComesFirst
  BadSocketsAreClosing
PROPERTIES
  EveryMessageArrives
  EventuallyRegistered
  EventuallyForgotten
CHECK_DEADLOCK FALSE
