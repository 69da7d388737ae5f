-------------------------------- MODULE RWLock --------------------------------
(***************************************************************************)
(* What a fair multi-reader, single-writer lock promises its callers,      *)
(* whatever it keeps inside: claims, one line of waiters in order of       *)
(* arrival, and the rule that the claims leaving the lock admit exactly    *)
(* the head of the line that can share it.  MrswLock implements it.        *)
(***************************************************************************)
EXTENDS Naturals, Sequences

CONSTANTS Threads,      \* the threads that use the lock
          MaxClaims     \* bound on the nested claims of one thread

VARIABLES reads,        \* reads[t]: read claims thread t holds
          writes,       \* writes[t]: write claims thread t holds
          line          \* waiters, as [thread, reader], in order of arrival

avars == <<reads, writes, line>>

Waiting(t) == \E i \in 1..Len(line) : line[i].thread = t

Free(R, W) == \A t \in Threads : R[t] = 0 /\ W[t] = 0

\* The number of waiters at the head of the line that enter together: one
\* writer, or every reader up to the first writer.
Admits(k) ==
    \/ k = 1 /\ ~line[1].reader
    \/ /\ \A i \in 1..k : line[i].reader
       /\ k < Len(line) => ~line[k+1].reader

Init == /\ reads = [t \in Threads |-> 0]
        /\ writes = [t \in Threads |-> 0]
        /\ line = << >>

\* A thread that already has the access it asks for, or needs nobody's leave.
Enter(t) ==
    /\ ~Waiting(t)
    /\ \/ /\ \/ writes[t] > 0 \/ reads[t] > 0
             \/ line = << >> /\ \A u \in Threads : writes[u] = 0
          /\ reads[t] < MaxClaims
          /\ reads' = [reads EXCEPT ![t] = @ + 1]
          /\ UNCHANGED writes
       \/ /\ writes[t] > 0 \/ Free(reads, writes)
          /\ writes[t] < MaxClaims
          /\ writes' = [writes EXCEPT ![t] = @ + 1]
          /\ UNCHANGED reads
    /\ UNCHANGED line

\* A thread that must wait takes the last place in the line.
Queue(t) ==
    /\ ~Waiting(t) /\ reads[t] = 0 /\ writes[t] = 0
    /\ ~Free(reads, writes)
    /\ \E r \in BOOLEAN :
          /\ r => line # << >> \/ \E u \in Threads : writes[u] > 0
          /\ line' = Append(line, [thread |-> t, reader |-> r])
    /\ UNCHANGED <<reads, writes>>

\* The claims left are R and W.  When they leave the lock free, the head of
\* the line enters in the same step, so that nobody can overtake the line.
Settle(R, W) ==
    IF Free(R, W) /\ line # << >>
    THEN \E k \in 1..Len(line) :
           LET Admitted(u) == \E i \in 1..k : line[i].thread = u
               reader == line[1].reader
           IN /\ Admits(k)
              /\ reads' = [u \in Threads |->
                             IF Admitted(u) /\ reader THEN 1 ELSE R[u]]
              /\ writes' = [u \in Threads |->
                              IF Admitted(u) /\ ~reader THEN 1 ELSE W[u]]
              /\ line' = SubSeq(line, k + 1, Len(line))
    ELSE reads' = R /\ writes' = W /\ UNCHANGED line

\* A thread drops one of its claims.
Leave(t) ==
    /\ ~Waiting(t)
    /\ \/ reads[t] > 0 /\ Settle([reads EXCEPT ![t] = @ - 1], writes)
       \/ writes[t] > 0 /\ Settle(reads, [writes EXCEPT ![t] = @ - 1])

Next == \E t \in Threads : Enter(t) \/ Queue(t) \/ Leave(t)

Spec == Init /\ [][Next]_avars
===============================================================================
