CONSTANTS
    Callers = {alice, bob}
    Total = 4
    BufferBits = 8
SPECIFICATION Spec
INVARIANTS
    OwnershipExact
    NearestFree
    RunFoundUnlessSplit
