SPECIFICATION RemovingSpec
CONSTANTS
    Senders = {t1, t2}
    NoThread = NoThread
    Length = 4
    Wrap = 8
    MaxPending = 4
INVARIANTS
    SendersWait
