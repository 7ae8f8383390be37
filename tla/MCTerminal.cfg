SPECIFICATION FairSpec
CONSTANTS
  HeaderSize = 2
  BufferSize = 8
  IntLimit = 10
  PacketLengths <- MCPacketLengths
  MaxConnects = 3
  MaxSends = 2
INVARIANTS
  IntroducesItself
  PackagesInOrder
PROPERTIES
  DisconnectNoticed
  PacketsArrive
CHECK_DEADLOCK FALSE
