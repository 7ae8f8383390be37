SPECIFICATION Spec
CONSTANTS
  Sessions = {s1, s2}
  Workers = {w1, w2}
  MaxConnection = 0
  MaxClients = 2
  MaxPackets = 1
  MaxReplies = 1
  MaxOutside = 1
  NoSession = NoSession
  NoJob = NoJob
SYMMETRY Symmetry
INVARIANTS
  OneReadPerReply
  OnlySharedSessionsDangle
CHECK_DEADLOCK FALSE
