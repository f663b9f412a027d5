\* One page that is large against the alignment.
SPECIFICATION Spec
CONSTANTS
    PageUnits = 20
    Pages = {p1}
    Cpus = {c1}
    Requests <- Aligned
    SLOB_UNIT = 2
    SLOB_BREAK1 = 100
    SLOB_BREAK2 = 200
    NoCall = NoCall
PROPERTIES
    BestFit
