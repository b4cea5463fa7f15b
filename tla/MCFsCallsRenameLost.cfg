SPECIFICATION SpecRename
CONSTANTS
  leafA = leafA
  leafB = leafB
  leafC = leafC
  dataA = dataA
  dataB = dataB
  Dot = Dot
  DotDot = DotDot
  NoName = NoName
  Junk = Junk
  Leaf = {leafA, leafB}
  LinkText = {}
  Data = {dataA}
  NInodes = 3
  NBlocks = 2
  DirentsPerBlk = 3
  InodesPerBlk = 2
  MaxBlks = 2
  MaxNlink = 15
  MaxDirSize = 13
  MaxSize = 1
  MaxRaised = 3
PROPERTIES RenameKeepsFile
VIEW View
