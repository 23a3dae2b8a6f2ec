CONSTANTS
    dot = dot
    dotdot = dotdot
    m = m
    n = n
    x = x
    y = y
    Blocks = {0, 1, 2, 3, 4, 5, 6}
    Inodes = {1, 2, 11, 12}
    Root = 2
    Dot = dot
    DotDot = dotdot
    Names <- MCNames
    NameWords <- MCNameWords
    BlockWords = 6
    Writes <- MCWrites
    ParentPaths <- MCParentPaths
    MaxExtents = 2
    Reserved <- MCReserved
    Images <- MCImages
    Candidates <- FirstFit
SPECIFICATION Spec
INVARIANTS
    TypeOK
    FilesReadBack
    NoSharedBlock
    LinkedIsWritten
    SpaceAccounted
    LinksCounted
PROPERTIES
    EntriesKept
    StoreSpec
