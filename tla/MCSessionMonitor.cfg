SPECIFICATION FairSpec
CONSTANTS
  Clients = {c1, c2}
  MaxHeartBeat = 3
  FreqSec = 1
PROPERTIES
  OnlyOldClosed
  SilentClientsClosed
CHECK_DEADLOCK FALSE
