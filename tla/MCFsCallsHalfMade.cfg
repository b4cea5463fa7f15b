SPECIFICATION Spec
CONSTANTS
  leafA = leafA
  leafB = leafB
  leafC = leafC
  dataA = dataA
  dataB = dataB
  Dot = Dot
  DotDot = DotDot
  NoName = NoName
  Junk = Junk
  Leaf = {leafA, leafB}
  LinkText = {leafA}
  Data = {dataA}
  NInodes = 3
  NBlocks = 2
  DirentsPerBlk = 4
  InodesPerBlk = 2
  MaxBlks = 2
  MaxNlink = 15
  MaxDirSize = 17
  MaxSize = 1
  MaxRaised = 3
INVARIANTS EmptyHasNoNames
VIEW View
