SPECIFICATION ShellFairSpec
CONSTANTS
  leafA = leafA
  leafB = leafB
  stdin = stdin
  fileA = fileA
  noFile = noFile
  dataA = dataA
  dataB = dataB
  Dot = Dot
  DotDot = DotDot
  NoName = NoName
  Junk = Junk
  Leaf = {leafA, leafB}
  LinkText = {leafA, leafB}
  Data = {dataA}
  NInodes = 3
  NBlocks = 2
  DirentsPerBlk = 4
  InodesPerBlk = 2
  MaxBlks = 1
  MaxNlink = 8
  MaxDirSize = 17
  MaxSize = 1
  MaxRaised = 3
  Stdin = stdin
  CMDSTKMAX = 3
  MaxCwd = 2
  Script <- MCScript
  Typed <- MCTyped
INVARIANTS ShellTypeOK CdLikeLs
PROPERTIES GoneCwdInert FilesEnd
VIEW View
