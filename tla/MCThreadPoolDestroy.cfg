SPECIFICATION Spec
CONSTANTS
  Threads = {t1}
  Clients = {c1}
  Jobs = {j1}
  None = None
  t1 = t1
  c1 = c1
  j1 = j1
INVARIANT DestroyWaitsForThreads
CHECK_DEADLOCK FALSE
