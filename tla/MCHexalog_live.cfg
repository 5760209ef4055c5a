CONSTANTS
    p1 = p1
    p2 = p2
    e1 = e1
    e2 = e2
    Zero = Zero
    Peer = {p1, p2}
    Entry = {e1}
    First = p1
    Previous <- ChainPrevious
    Height <- ChainHeight
    Depth <- ChainHeight
    Contacts = {p1, p2}
    Faults = {"timeout", "crash"}
    MaxFaults = 1
    MaxCalls = 2
    MaxRounds <- TwoEach
    MaxTimeouts <- TwoEach
SPECIFICATION MCFairSpec
CHECK_DEADLOCK FALSE
PROPERTIES
    BallotsEnd
    BroadcastersDrain
    CalmReachesAll
