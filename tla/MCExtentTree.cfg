CONSTANTS
    Root = 0
    LogicalLimit = 16
    LongBit = 4
    RootMax = 4
    MaxDepth = 2
    Images <- MCImages
    Blocks = {1, 2, 3, 4, 5}
SPECIFICATION Spec
INVARIANTS
    TypeOK
    ExtentsSorted
    LookupsAgree
    ReadExact
    SearchesComplete
PROPERTIES
    MapSpec
CHECK_DEADLOCK FALSE
