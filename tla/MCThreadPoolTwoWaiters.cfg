SPECIFICATION FairSpec
CONSTANTS
  Threads = {t1}
  Clients = {c1, c2}
  Jobs = {j1}
  None = None
  t1 = t1
  c1 = c1
  c2 = c2
  j1 = j1
PROPERTY WaitReturns
CHECK_DEADLOCK FALSE
