----------------------------- MODULE EventQueueMC -----------------------------
\* Model-checking instances of EventQueue: the senders are interchangeable.
EXTENDS EventQueue, TLC

Symmetry == Permutations(Senders)
===============================================================================
