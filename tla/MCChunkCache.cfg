\* Four base chunks of one to five bytes and a cache with a limit of five: from
\* four chunks at once down to one that never fits.
SPECIFICATION Spec
CONSTANTS
  MaxMemoryUsage = 5
  SizeT = 64
  Ids = {0, 1, 2, 3}
  Lens = {1, 2, 4, 5}
INVARIANTS
  MapMatchesList
  KeepsMostRecent
  LimitKept
\* A crash ends the program.
CHECK_DEADLOCK FALSE
