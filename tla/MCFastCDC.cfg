SPECIFICATION FairSpec
CONSTANTS
  Byte = {0, 1}
  Inputs <- MCInputs
  Stop <- MCStop
  MaxLen = 7
  MinChunkSize = 2
  MaxChunkSize = 4
  WindowSize = 4
  IdSpace = 8
  MaxFiles = 2
INVARIANTS
  Tiles
  SizesBounded
  ReadsMapped
  WholeFileReturned
  ContentDefined
PROPERTIES
  LoopEnds
\* After the last file of the data set the program ends.
CHECK_DEADLOCK FALSE
