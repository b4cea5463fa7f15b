SPECIFICATION MountedSpec
CONSTANTS
  leafA = leafA
  leafB = leafB
  leafC = leafC
  dataA = dataA
  dataB = dataB
  Dot = Dot
  DotDot = DotDot
  NoName = NoName
  Junk = Junk
  Leaf = {leafA, leafB}
  LinkText = {}
  Data = {dataA}
  NInodes = 3
  NBlocks = 1
  DirentsPerBlk = 3
  InodesPerBlk = 2
  MaxBlks = 2
  MaxNlink = 15
  MaxDirSize = 7
  MaxSize = 1
  MaxRaised = 3
INVARIANTS HandleKeepsInode
VIEW HandlesView
