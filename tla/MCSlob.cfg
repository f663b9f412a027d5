\* Two pages of seven units: a page can hold a hole in front of an aligned
\* block, a remainder behind it, a block between two free ones, and two free
\* blocks that both fit.
SPECIFICATION Spec
CONSTANTS
    PageUnits = 7
    Pages = {p1, p2}
    Cpus = {c1, c2}
    Requests <- Mixed
    SLOB_UNIT = 2
    SLOB_BREAK1 = 3
    SLOB_BREAK2 = 6
    NoCall = NoCall
SYMMETRY SymPages
INVARIANTS
    TypeOK
    FreeListMerged
    PagesTiled
    ListsComplete
PROPERTIES
    GrowsOnlyWhenFull
    MemoryFreeCautious
    ImplementsHeap
