CONSTANTS
    h1 = h1
    h2 = h2
    h3 = h3
    Handler = {h1, h2, h3}
    QueueSize = 2
    SetFails = TRUE
    MaxHeight = 5
    MaxCrashes = 2
SPECIFICATION FairSpec
CHECK_DEADLOCK FALSE
INVARIANTS
    TypeOK
    FewLost
    FewMissed
    OncePerProcess
PROPERTY AllApplied
