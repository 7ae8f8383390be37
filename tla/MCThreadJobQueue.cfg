SPECIFICATION Spec
CONSTANTS
  Threads = {t1, t2, t3}
  Items = {j1, j2}
  MaxPushes = 4
  NoThread = NoThread
  NoItem = NoItem
INVARIANTS
  FrontIsThere
PROPERTIES
  ImplementsFifoQueue
