SPECIFICATION TickSpec
CONSTANTS
    Timeouts = {o1, o2, o3, o4}
    Tasks = {f1, f2}
    timeout_tick = timeout_tick
    MaxTimeouts = 3
    MaxInterval = 2
SYMMETRY Symmetry
INVARIANTS ListsSound NobodyLeftOut
