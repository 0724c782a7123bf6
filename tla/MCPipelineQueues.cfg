SPECIFICATION FairSpec
CONSTANTS
  Contents <- MCContents
  Files <- MCFiles
  MaxQueueLen = 2
  IdSpace = 4
  MaxFiles = 2
  MaxSpurious = 1
INVARIANTS
  TypeOK
  InFlightInOrder
  DoneMeansDrained
  NothingLost
  FileMetaTiles
PROPERTIES
  HangsOnlyByLostWakeup
  EveryChunkWritten
\* After the last file of the data set the program ends.
CHECK_DEADLOCK FALSE
