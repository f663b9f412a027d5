\* Two files of up to three blocks over three contents, all calls, careful steps
\* only (Bbfs!Careful).  Radix 3: blocks held by four and five cells have counters
\* of two digits.  CarefulSpec stops where every next step is a careless one.
SPECIFICATION CarefulSpec
CONSTANTS
    textA = textA
    textB = textB
    textC = textC
    Contents = {textA, textB, textC}
    Hashes <- MCHashes
    HashOf <- MCHashOf
    ZeroHash = ZeroHash
    Radix = 3
    Names = {n1, n2}
    Inodes = {f1, f2}
    NoFile = NoFile
    NoName = NoName
    Busy = Busy
    Missing = Missing
    Null = Null
    RawIds = RawIds
    RawSize = RawSize
    Payloads <- UpToTwo
    MaxCells = 3
    CellsPerBlock = 2
    Calls = {"sparse", "link", "rename_over", "ftruncate"}
CHECK_DEADLOCK FALSE
SYMMETRY SymNamesInodesContents
INVARIANTS
    TypeOK
    LedgerOK
    BlocksStored
    RefCountExact
    ReadsExact
PROPERTIES
    LiveBlockKept
    ImplementsFlatFs
