\* One process alone on the machine.
SPECIFICATION SchedsSpec
CONSTANTS
    t1 = t1
    t2 = t2
    t3 = t3
    Tasks = {t1}
    InitTask = InitTask
    Idle = Idle
    Null = Null
    Parent <- Flat
    Interactive = {}
    TIMESLICE = 2
    Jiffy = 3
    UintValues = 1000
    MaxJiffies = 3
INVARIANTS
    CreditExact
CHECK_DEADLOCK FALSE
