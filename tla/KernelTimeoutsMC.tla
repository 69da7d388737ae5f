--------------------------- MODULE KernelTimeoutsMC ---------------------------
\* Model-checking instances of KernelTimeouts: timeouts, and tick tasks, are
\* interchangeable.
EXTENDS KernelTimeouts, TLC

Symmetry == Permutations(Timeouts) \cup Permutations(Tasks)
===============================================================================
