SPECIFICATION FairSpec
CONSTANTS
  Sessions = {s1}
  Workers = {w1, w2}
  MaxConnection = 0
  MaxClients = 1
  MaxPackets = 3
  MaxReplies = 1
  MaxOutside = 0
  NoSession = NoSession
  NoJob = NoJob
INVARIANTS
  OvertakenPackageInHand
PROPERTIES
  FinishedClientRemoved
  PacketsReachContents
CHECK_DEADLOCK FALSE
