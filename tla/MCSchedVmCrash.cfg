\* One process that sleeps: enough for the IO timer to be counting when init
\* leaves.  The machine stops there, so there is a last state.
SPECIFICATION Spec
CONSTANTS
    t1 = t1
    t2 = t2
    t3 = t3
    t4 = t4
    Tasks = {t1}
    InitTask = InitTask
    Idle = Idle
    Null = Null
    Parent <- Flat
    Interactive = {t1}
INVARIANTS
    NoCrash
CHECK_DEADLOCK FALSE
