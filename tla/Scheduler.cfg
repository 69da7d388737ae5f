SPECIFICATION FairSpec
CONSTANTS
    Threads = {t1, t2, t3}
    NoThread = NoThread
    Prios = {1, 2, 4}
    Realtime = 1
INVARIANTS RunQueueSound RoundRobin
PROPERTY EveryoneRuns
