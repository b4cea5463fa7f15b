SPECIFICATION FairSpec
CONSTANTS
  r1 = r1
  r2 = r2
  r3 = r3
  nodeA = nodeA
  nodeD = nodeD
  nodeAX = nodeAX
  nodeDX = nodeDX
  Root = Root
  None = None
  Absent = Absent
  Dir = Dir
  Old = Old
  Hole = Hole
  Listing = Listing
  Requests = {r1, r2, r3}
  Nodes = {Root, nodeA, nodeD, nodeAX, nodeDX}
  Files = {nodeA}
  Above <- MCAbove
  Scenarios <- MCScenarios
  Resetting = {r1}
  NThreads = 2
  Fds = {1, 2, 3, 4, 5}
  IntCells = 3
INVARIANTS ServedAlone StoredAlone OneAnswer ResourcesReturned
PROPERTIES RequestsEnd
CHECK_DEADLOCK FALSE
