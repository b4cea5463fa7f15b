SPECIFICATION SpecPlain
CONSTANTS
  leafA = leafA
  leafB = leafB
  leafC = leafC
  dataA = dataA
  dataB = dataB
  Dot = Dot
  DotDot = DotDot
  NoName = NoName
  Junk = Junk
  Leaf = {leafA, leafB}
  LinkText = {}
  Data = {dataA}
  NInodes = 3
  NBlocks = 3
  DirentsPerBlk = 4
  InodesPerBlk = 2
  MaxBlks = 1
  MaxNlink = 12
  MaxDirSize = 25
  MaxSize = 0
  MaxRaised = 3
INVARIANTS NamesCounted
PROPERTIES ImplementsNamespace
VIEW View
SYMMETRY Symmetry
