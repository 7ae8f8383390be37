SPECIFICATION FairSpec
CONSTANTS
  HeaderSize = 2
  BufferSize = 7
  IntLimit = 16
  Workers = {w1, w2}
  PacketLengths <- MCPacketLengths
  BadLengths <- MCBadLengths
  MaxReplies = 3
INVARIANTS
  PacketsIntact
  ReaderInv
PROPERTIES
  PacketsArrive
CHECK_DEADLOCK FALSE
