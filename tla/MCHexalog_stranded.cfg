CONSTANTS
    p1 = p1
    p2 = p2
    e1 = e1
    e2 = e2
    Zero = Zero
    Peer = {p1, p2}
    Entry = {e1}
    First = p1
    Previous <- ChainPrevious
    Height <- ChainHeight
    Depth <- ChainHeight
    Contacts = {p2}
    Faults = {}
    MaxFaults = 0
    MaxCalls = 1
    MaxRounds <- OneEach
    MaxTimeouts <- OneEach
SPECIFICATION FairSpec
CHECK_DEADLOCK FALSE
PROPERTY ProposalReachesAll
