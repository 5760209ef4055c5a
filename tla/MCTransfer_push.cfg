CONSTANTS
    a = a
    b = b
    x = x
    n1 = n1
    n2 = n2
    Entry = {a, b, x}
    Zero = Zero
    Previous <- Tree
    Depth <- TreeDepth
    Node = {n1, n2}
    Xfer <- Routes
    Voted <- Votes
    Window = 1
    MaxStarts = 2
    Fragile = {}
SPECIFICATION Spec
CHECK_DEADLOCK FALSE
INVARIANTS PushDelivers
