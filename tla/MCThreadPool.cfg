SPECIFICATION Spec
CONSTANTS
  Threads = {t1, t2, t3}
  Clients = {c1, c2}
  Jobs = {j1, j2, j3}
  None = None
  t1 = t1
  t2 = t2
  t3 = t3
  c1 = c1
  c2 = c2
  j1 = j1
  j2 = j2
  j3 = j3
SYMMETRY Symmetry
INVARIANT WaitCoversWork
INVARIANT NoLostWakeup
INVARIANT CountsExact
INVARIANT FreedAfterUse
PROPERTY ImplementsWorkPool
CHECK_DEADLOCK FALSE
