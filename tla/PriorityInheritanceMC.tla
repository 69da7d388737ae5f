----------------------- MODULE PriorityInheritanceMC -----------------------
\* Model-checking instances of PriorityInheritance: threads and mutexes are
\* interchangeable.
EXTENDS PriorityInheritance, TLC

Symmetry == Permutations(Threads) \cup Permutations(Mutexes)
===============================================================================
