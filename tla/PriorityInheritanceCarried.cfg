SPECIFICATION FullSpec
CONSTANTS
    Threads = {t1, t2, t3, t4}
    Mutexes = {m1, m2}
    Queues = {}
    NoThread = NoThread
    NoObject = NoObject
    Prios = {1, 2, 3}
    Idle = 4
    MaxRecursion = 0
SYMMETRY Symmetry
INVARIANT InheritsHighest
