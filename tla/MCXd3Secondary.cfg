CONSTANTS
    ALPHABET_SIZE = 6
    DJW_MAX_CODELEN = 3
    djw_encode_12basic <- MCBasic
    djw_encode_12extra <- MCExtra
    DJW_EXTRA_CODE_BITS = 2
    DJW_CLCLEN_BITS = 3
    DJW_GBCLEN_BITS = 2
    DJW_MIN_IMPROVEMENT = 2
    EFFICIENCY_BITS = 4
    Sections <- MCSections
    Configs <- MCConfigs
    MaxSections <- MCMaxSections
    SECONDARY_MIN_INPUT = 3
    SECONDARY_MIN_SAVINGS = 2
SPECIFICATION Spec
CHECK_DEADLOCK FALSE
INVARIANTS
    ReadBackUnlessLost
    TablesBest
    TreesSound
