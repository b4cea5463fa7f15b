SPECIFICATION FairSpec
CONSTANTS
  Threads = {t1, t2}
  Clients = {c1}
  Jobs = {j1, j2}
  None = None
  t1 = t1
  t2 = t2
  c1 = c1
  j1 = j1
  j2 = j2
PROPERTY QueuedJobsFinish
PROPERTY CallsReturn
CHECK_DEADLOCK FALSE
