SPECIFICATION StreamSpec
CONSTANTS
  Base = 2
  HeaderSize = 2
  Packets <- SomePackets
  MaxPackets = 3
INVARIANT HangsOnlyWhenCut
PROPERTIES
  EverythingIsRead
  StreamIsPacketLink
CHECK_DEADLOCK FALSE
