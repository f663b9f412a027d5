\* The counter of the code: one file with ten equal blocks, then another block.
SPECIFICATION Spec
CONSTANTS
    textA = textA
    textB = textB
    textC = textC
    Contents = {textA, textB}
    Hashes <- MCHashes
    HashOf <- MCHashOf
    ZeroHash = ZeroHash
    Radix = 10
    Names = {n1, n2}
    Inodes = {f1, f2}
    NoFile = NoFile
    NoName = NoName
    Busy = Busy
    Missing = Missing
    Null = Null
    RawIds = RawIds
    RawSize = RawSize
    Payloads <- TenOfA
    MaxCells = 11
    CellsPerBlock = 2
    Calls = {}
SYMMETRY SymNamesInodes
INVARIANTS
    RefCountExact
