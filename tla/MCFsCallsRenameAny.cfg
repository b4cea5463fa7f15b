SPECIFICATION SpecRename
CONSTANTS
  leafA = leafA
  leafB = leafB
  leafC = leafC
  dataA = dataA
  dataB = dataB
  Dot = Dot
  DotDot = DotDot
  NoName = NoName
  Junk = Junk
  Leaf = {leafA, leafB}
  LinkText = {}
  Data = {dataA}
  NInodes = 3
  NBlocks = 6
  DirentsPerBlk = 3
  InodesPerBlk = 2
  MaxBlks = 2
  MaxNlink = 18
  MaxDirSize = 37
  MaxSize = 1
  MaxRaised = 3
INVARIANTS BlocksExact
VIEW View
