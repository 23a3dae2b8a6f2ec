CONSTANTS
    dot = dot
    dotdot = dotdot
    m = m
    x = x
    y = y
    NumGroups = 2
    BlocksPerGroup = 2
    InodesPerGroup = 2
    FirstDataBlock = 1
    Root = 2
    Dot = dot
    DotDot = dotdot
    Names <- MCNames
    NameWords <- MCNameWords
    BlockWords = 6
    Writes <- MCWrites
    ParentPaths <- MCParentPaths
    MaxExtents = 2
    Reserved <- MCReserved
    Images <- MCImages
SPECIFICATION VolumeSpec
PROPERTIES
    FilesSpec
    CallsEnd
    WritesSucceed
CHECK_DEADLOCK FALSE
