CONSTANTS
    MaxKey = 7
    Stores <- MCStores
    Locals <- MCLocals
    Worker = {w1, w2}
    Bufsize = 1
    Window = 1
    MaxCreates = 1
    MaxBreaks = 1
SPECIFICATION Spec
CHECK_DEADLOCK FALSE
INVARIANTS TypeOK SeedComplete
PROPERTIES CreateReturns SeedEnds
