SPECIFICATION Spec
CONSTANTS
    Threads = {t1, t2, t3}
    NoThread = NoThread
    Wrap = 16
    MaxTicks = 3
    Minute = 2
    Late = 1
SYMMETRY Symmetry
INVARIANTS ListSound NobodyOverlooked OverdueBounded
PROPERTY NeverEarly
