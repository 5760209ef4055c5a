CONSTANTS
    n1 = n1
    n2 = n2
    n3 = n3
    a = a
    b = b
    c = c
    Node = {n1, n2, n3}
    Entry = {a, b, c}
    None = None
    Loads <- MCLoads
    BroadcastBufSize = 1
    HealBufSize = 1
SYMMETRY Symmetry
SPECIFICATION Spec
CHECK_DEADLOCK FALSE
INVARIANTS TypeOK NobodyStuck FewBroadcasts ExitsDrained
