CONSTANTS
    v1 = v1
    v2 = v2
    t1 = t1
    t2 = t2
    w1 = w1
    Voter = {v1, v2}
    Thread = {t1, t2}
    Waiter = {w1}
    Rivals = TRUE
SPECIFICATION FairSpec
CHECK_DEADLOCK FALSE
INVARIANTS
    TypeOK
    SuccessIsCommitted
    OneSuccess
    NilErrorExplained
PROPERTIES
    WaitersWake
    HandlersReturn
