SPECIFICATION Spec
CONSTANTS
  Contents <- MCContents
  Files <- MCFiles
  Similar <- MCSimilar
  GroupSize = 2
  IdSpace = 16
  MaxFiles = 3
  MaxMemoryUsage = 4
  SizeT = 64
  Uint16 = 16
INVARIANTS
  StoreFaithful
  GroupingRight
  LinesEndAtDeltas
PROPERTIES
  ImplementsStore
\* After the last file of the data set the program ends.
CHECK_DEADLOCK FALSE
