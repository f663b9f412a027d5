\* One thread; a counter may go over 99.
SPECIFICATION FairSpec
CONSTANTS
    textA = textA
    textB = textB
    Contents = {textA, textB}
    HashOf <- MCHashOf
    Threads = {1}
    Allowed <- Numbers
    Copies = {0, 97}
    MaxPos = 150
INVARIANTS
    TypeOK
PROPERTIES
    ImplementsHashLedger
    CallsEnd
