SPECIFICATION ChoiceSpec
CONSTANTS
  Chunks <- MCChunks
  Counts <- MCCounts
  GEAR_TABLE <- MCGear
  M <- MCM
  A <- MCA
  MaxLen = 4
  WordSize = 8
  HashSize = 1024
  SampleEvery = 2
  ZeroSteps = 12
  Threshold = 4
  MinMatch = 3
  MaxChunks = 3
INVARIANTS
  PalantirLookup
  SimilarIsFound
PROPERTIES
  EntriesStay
\* After the last chunk the program ends.
CHECK_DEADLOCK FALSE
