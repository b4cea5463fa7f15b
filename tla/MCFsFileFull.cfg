SPECIFICATION SpecAppend
CONSTANTS
  f1 = f1
  f2 = f2
  Files <- MCFiles
  Byte <- MCByte
  NDirect = 1
  Ptrs = 2
  NBlocks = 6
  MaxWrite = 2
  MaxSize <- MCMaxSizeEven
INVARIANTS StoredExact PutStored
VIEW View
