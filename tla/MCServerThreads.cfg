SPECIFICATION FairSpec
CONSTANTS
  Accept = accept
  Workers = {w1, w2}
  Clients = {c1, c2}
  NoThread = NoThread
  NoClient = NoClient
  MaxThreads = 2
INVARIANTS
  PlaceIsHolders
  RegistrySettledWhenReady
PROPERTIES
  ClientsServed
CHECK_DEADLOCK FALSE
