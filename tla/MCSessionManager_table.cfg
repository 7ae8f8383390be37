SPECIFICATION FairSpec
CONSTANTS
  Sessions = {s1, s2}
  Closers = {c1}
  AcceptThread = accept
  MaxConnection = 0
  SeedLimit = 3
  NoThread = NoThread
  NullSession = NullSession
PROPERTIES
  ImplementsSessionTable
  LockAlwaysFreed
INVARIANTS
  WithinCapacity
