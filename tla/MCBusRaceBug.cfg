SPECIFICATION Spec
CONSTANTS
  tcp = tcp
  irc = irc
  c1 = c1
  c2 = c2
  l1 = l1
  Main = Main
  Plugins <- TcpAndIrc
  Clients <- OneClient
  Parts <- OneList
  Owner <- OwnerOfBoth
  Channels = {ch}
  MaxSent <- IrcSends
  Listeners <- NoListeners
INVARIANT
  RegisteredAreJoined
CHECK_DEADLOCK FALSE
