------------------------------ MODULE MrswLockMC ------------------------------
\* Model-checking instances of MrswLock: the threads are interchangeable.
EXTENDS MrswLock, TLC

Symmetry == Permutations(Threads)
===============================================================================
