------------------------------ MODULE PlaylistMC ------------------------------
EXTENDS Playlist
\* One seed turns the list, the other turns it over.
MCPerm == [s \in {1, 2} |-> [n \in 1 .. MaxAmount |->
              [i \in 1 .. n |-> IF s = 1 THEN (i % n) + 1 ELSE n + 1 - i]]]
MCSteps == {-1, 1, 2}
===============================================================================
