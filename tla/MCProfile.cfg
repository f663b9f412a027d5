\* Files of up to five processes, well-formed or not.  The parser ends.
SPECIFICATION Spec
CONSTANTS
    MaxProcs = 5
    MaxOpen = 4
    NULL = NULL
INVARIANTS
    TypeOK
    NestedAsWritten
    VerdictRight
CHECK_DEADLOCK FALSE
