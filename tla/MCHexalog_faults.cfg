CONSTANTS
    p1 = p1
    p2 = p2
    e1 = e1
    e2 = e2
    Zero = Zero
    Peer = {p1, p2}
    Entry = {e1, e2}
    First = p1
    Previous <- ChainPrevious
    Height <- ChainHeight
    Depth <- ChainHeight
    Contacts = {p1}
    Faults = {"crash", "disconnect", "timeout"}
    MaxFaults = 1
    MaxCalls = 2
    MaxRounds <- LaterTwo
    MaxTimeouts <- EarlyOne
SPECIFICATION Spec
CHECK_DEADLOCK FALSE
INVARIANTS
    TypeOK
    Unanimity
    SettledPrefix
    AppliedOnce
    SuccessIsReal
    VotingInv
PROPERTY PromiseKept
