----------------------------- MODULE SemaphoreMC -----------------------------
\* Model-checking instances of Semaphore: the threads are interchangeable.
EXTENDS Semaphore, TLC

Symmetry == Permutations(Threads)
===============================================================================
