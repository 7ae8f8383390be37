SPECIFICATION FairSpec
CONSTANTS
  HeaderSize = 2
  BufferSize = 6
  Workers = {w1, w2}
  StreamSizes = {1, 4, 5, 6}
  MaxPackets = 3
INVARIANTS
  RepliesIntact
  OneWriteWithinPacket
PROPERTIES
  RepliesArrive
CHECK_DEADLOCK FALSE
