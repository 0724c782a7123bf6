CONSTANTS
    s_near = 4
    s_same = 3
    Bytes = 8
    Radix = 4
    USize = 4096
    WordBits = 8
    HalfBits = 6
    ByteBits = 2
    hash_multiplier = 5
    LLOOK = 4
    LSTEP = 2
    SCHAIN = 3
    SLCHAIN = 2
    MAXLAZY = 7
    LONGENOUGH = 9
    MIN_RUN = 8
    Far4 = 14
    Far5 = 16
    DEFAULT_WINSIZE = 12
    ALLOCSIZE = 4
    OUTPUT_MAX = 200
    Pieces <- MCPieces
    Jobs <- MCJobs
    HARDMAXWINSIZE = 64
    DEC_ALLOCSIZE = 4
    DecodePieces <- MCDecodePieces
    Cuts = {0, 1, 6}
    RECODE_IOPT = 32
SPECIFICATION CodecSpec
INVARIANTS
    RoundTrip
    CutRefused
    AssertionsHold
    NeverAsksForBlock
    MergeComposes
PROPERTY Terminates
