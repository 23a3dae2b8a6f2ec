CONSTANTS
    Callers = {alice, bob}
    Total = 4
    BufferBits = 8
SPECIFICATION Spec
INVARIANT ContiguousComplete
