CONSTANTS
    dot = dot
    dotdot = dotdot
    m = m
    n = n
    x = x
    y = y
    Blocks = {0, 1, 2, 3, 4, 5}
    Inodes = {1, 2, 11, 12}
    Root = 2
    Dot = dot
    DotDot = dotdot
    Names <- MCNames
    NameWords <- MCNameWords
    BlockWords = 6
    Writes <- CacheWrites
    ParentPaths <- CachePaths
    MaxExtents = 2
    Reserved <- MCReserved
    Images <- CacheImages
    Candidates <- FirstFit
    MaxFailures = 1
SPECIFICATION CachedSpec
INVARIANTS
    WrittenSurvives
    CreatedSurvives
    SurvivorsMarked
CHECK_DEADLOCK FALSE
