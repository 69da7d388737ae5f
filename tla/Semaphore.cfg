SPECIFICATION FairSpec
CONSTANTS
    Threads = {t1, t2, t3, t4}
    MaxCount = 2
INVARIANTS TypeOK  QueuedAtZero
PROPERTIES FirstComeFirstServed WaitEnds
