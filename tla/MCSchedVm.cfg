\* Four processes: a chain of three generations and a child of init; three of
\* them sleep.  The machine stops when init has left, so there is a last state.
SPECIFICATION FairSpec
CONSTANTS
    t1 = t1
    t2 = t2
    t3 = t3
    t4 = t4
    Tasks = {t1, t2, t3, t4}
    InitTask = InitTask
    Idle = Idle
    Null = Null
    Parent <- Nested
    Interactive = {t1, t2, t4}
INVARIANTS
    TypeOK
    LinksOK
    OneRing
    OnePlace
    ChildrenCounted
    CpuWellUsed
PROPERTIES
    SleepersWake
    ShutsDown
CHECK_DEADLOCK FALSE
