--------------------------- MODULE ThreadTimeoutsMC ---------------------------
\* Model-checking instances of ThreadTimeouts: threads are interchangeable.
EXTENDS ThreadTimeouts, TLC

Symmetry == Permutations(Threads)
===============================================================================
