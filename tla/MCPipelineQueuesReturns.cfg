SPECIFICATION FairSpec
CONSTANTS
  Contents <- MCContents
  Files <- MCShortFiles
  MaxQueueLen = 1
  IdSpace = 4
  MaxFiles = 1
  MaxSpurious = 0
PROPERTIES
  AddFileReturns
\* After the last file of the data set the program ends.
CHECK_DEADLOCK FALSE
