CONSTANTS
    p1 = p1
    p2 = p2
    e1 = e1
    e2 = e2
    Zero = Zero
    Peer = {p1, p2}
    Entry = {e1, e2}
    First = p1
    Previous <- RivalPrevious
    Height <- RivalHeight
    Depth <- RivalHeight
    Contacts = {p1, p2}
    Faults = {}
    MaxFaults = 0
    MaxCalls = 2
    MaxRounds <- OneEach
    MaxTimeouts <- OneEach
SPECIFICATION Spec
CHECK_DEADLOCK FALSE
INVARIANT
    Consensus
