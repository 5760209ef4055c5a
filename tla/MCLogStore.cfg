CONSTANTS
    a = a
    b = b
    c = c
    x = x
    t1 = t1
    t2 = t2
    t3 = t3
    Zero = Zero
    Entry = {a, b, c, x}
    Previous <- Tree
    Depth <- TreeDepth
    Thread = {t1, t2, t3}
    Programs <- MCPrograms
    MaxIndex = 2
SPECIFICATION Spec
CHECK_DEADLOCK FALSE
INVARIANTS
    TypeOK
    IndexedIsStored
    HeightFollows
    MarkerIsMissing
PROPERTY OneEntryAtATime
