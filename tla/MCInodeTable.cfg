CONSTANTS
    NumGroups = 2
    InodesPerGroup = 2
    InodeSizes = {1, 2}
    Base = 3
    WordBase = 3
    MaxBlocks = 2
    MaxCalls = 3
SPECIFICATION Spec
INVARIANTS
    InodesReadBack
PROPERTIES
    NeighboursKept
CHECK_DEADLOCK FALSE
