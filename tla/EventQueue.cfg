SPECIFICATION FairSpec
CONSTANTS
    Senders = {t1, t2}
    NoThread = NoThread
    Length = 4
    Wrap = 8
    MaxPending = 5
INVARIANTS SendersSound OwnerAwake
PROPERTIES ImplementsMessageQueue SendReturns
