----------------------------- MODULE SchedulerMC -----------------------------
\* Model-checking instances of Scheduler: threads are interchangeable.
EXTENDS Scheduler, TLC

Symmetry == Permutations(Threads)
===============================================================================
