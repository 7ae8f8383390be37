SPECIFICATION Spec
CONSTANTS
  Sessions = {s1, s2}
  Closers = {c1, c2}
  AcceptThread = accept
  MaxConnection = 1
  SeedLimit = 3
  NoThread = NoThread
  NullSession = NullSession
SYMMETRY Symmetry
INVARIANTS
  CountMatchesList
  ListedSessionsUsable
  FreedOnceByClosers
  AdmittedSocketsClosed
  ClosedTargetGone
  IInv
