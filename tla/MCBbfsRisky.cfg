\* Every risky call, and a counter digit so small that counters reach 10 and 100
\* (in base 2) within two files of two cells.
SPECIFICATION FairSpec
CONSTANTS
    textA = textA
    textB = textB
    textC = textC
    Contents = {textA, textB}
    Hashes <- MCHashes
    HashOf <- MCHashOf
    ZeroHash = ZeroHash
    Radix = 2
    Names = {n1, n2}
    Inodes = {f1, f2}
    NoFile = NoFile
    NoName = NoName
    Busy = Busy
    Missing = Missing
    Null = Null
    RawIds = RawIds
    RawSize = RawSize
    Payloads <- UpToTwo
    MaxCells = 2
    CellsPerBlock = 2
    Calls = {"sparse", "link", "rename_over", "ftruncate"}
INVARIANTS
    LedgerOK
    BlocksStored
PROPERTIES
    RequestsEnd
