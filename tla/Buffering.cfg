SPECIFICATION FairSpec
CONSTANTS
    Handles = {1, 2, 3, 4, 5, 6, 7}
    NoHandle = 0
    BufLen = 28
    StructAlign = 2
    StorageAlign = 4
    MinMove = 4
    HandleSize = 4
    Parts <- MCParts
    Sizes <- MCSizes
    Chunk = 4
    Watermark = 6
    GetSizes = {3}
    SeekTo = {0, 6}
    MaxSeeks = 1
    Failing = {"audio"}
    Lapses = {}
INVARIANTS  PointersHold
PROPERTIES ReadReturns HaltReturns
