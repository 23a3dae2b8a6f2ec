CONSTANTS
    NumGroups = 2
    BlocksPerGroup = 1
    InodesPerGroup = 2
    FirstDataBlock = 1
    Formats <- MCFormats
    SuperBase = 3
SPECIFICATION DescriptorsSpec
INVARIANTS
    TypeOK
    CountsCoverFree
    SuperBetween
    ExhaustedMeansFull
    BytesAgree
    DirsCounted
PROPERTIES
    PrefersGroup
    PoolSpec
