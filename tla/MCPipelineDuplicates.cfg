SPECIFICATION CompressionSpec
CONSTANTS
  Contents <- MCContents
  Files <- MCFiles
  Similar <- MCSimilar
  MaxQueueLen = 1
  IdSpace = 64
  MaxFiles = 3
  MaxSpurious = 0
  MaxMemoryUsage = 4
  SizeT = 64
  Uint16 = 3
INVARIANT
  DuplicateSharesOffset
\* After the last file of the data set the program ends.
CHECK_DEADLOCK FALSE
