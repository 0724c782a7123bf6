SPECIFICATION Spec
CONSTANTS
  Byte <- MCByte
  Inputs <- MCInputs
  Polynomial <- MCPolynomial
  ByteBits = 2
  WINSIZE = 3
  StopMask = {0, 1}
  MaxLen = 6
  MinChunkSize = 2
  MaxChunkSize = 4
  IdSpace = 8
  MaxFiles = 2
INVARIANT
  WholeFileReturned
\* After the last file of the data set the program ends.
CHECK_DEADLOCK FALSE
