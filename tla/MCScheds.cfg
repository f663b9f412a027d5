\* Three processes, one of which sleeps, for three jiffies; a burst wraps in
\* the third.  The machine stops when init has left: there is a last state.
SPECIFICATION SchedsSpec
CONSTANTS
    t1 = t1
    t2 = t2
    t3 = t3
    Tasks = {t1, t2, t3}
    InitTask = InitTask
    Idle = Idle
    Null = Null
    Parent <- Flat
    Interactive = {t1}
    TIMESLICE = 2
    Jiffy = 3
    UintValues = 8
    MaxJiffies = 3
SYMMETRY SymBatch
INVARIANTS
    SjfTypeOK
    CreditBounded
PROPERTIES
    ShortestFirst
    NobodyStarves
CHECK_DEADLOCK FALSE
