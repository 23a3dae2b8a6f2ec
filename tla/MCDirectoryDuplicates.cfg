CONSTANTS
    dot = dot
    dotdot = dotdot
    a = a
    wide = wide
    long = long
    BlockWords = 13
    Names <- MCNames
    NameWords <- MCNameWords
    Images <- MCImages
    MaxExtents = 2
    MaxIno = 5
SPECIFICATION Spec
INVARIANT NamesUnique
