\* Two threads on the one cursor.
SPECIFICATION Spec
CONSTANTS
    textA = textA
    textB = textB
    Contents = {textA, textB}
    HashOf <- MCHashOf
    Threads = {1, 2}
    Allowed <- UpToTwo
    Copies = {0}
    MaxPos = 150
INVARIANTS
    CountersRight
CHECK_DEADLOCK FALSE
