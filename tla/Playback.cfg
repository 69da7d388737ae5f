SPECIFICATION Spec
CONSTANTS
    Tracks = {1, 2, 3, 4}
    LastOf = {1}
    Room = 2
    Unreadable = {2}
    TooBig = {4}
    PcmSize = 3
    LowData = 1
    Units <- ShortFour
    Format <- Mixed
    Failing = {3}
    Commands = {"next", "prev", "seek", "restart", "pause", "flush", "nextdir", "stop", "play"}
    MaxEvents = 2
INVARIANTS DecoderSound HeardIsShown SkipLands ReportsAreTrue 
PROPERTIES AudioReturns 
CHECK_DEADLOCK FALSE
