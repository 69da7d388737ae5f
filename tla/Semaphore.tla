------------------------------- MODULE Semaphore -------------------------------
(***************************************************************************)
(* The counting semaphore of firmware/kernel/semaphore.c.  It is released  *)
(* from interrupt handlers (DMA, storage and timer completions) and from   *)
(* threads, and waited on with or without a timeout.  A wait that expires  *)
(* leaves the thread running but still in the queue until the thread       *)
(* itself gets the processor, and a release may find it there.             *)
(***************************************************************************)
EXTENDS Integers, Sequences, FiniteSets

CONSTANTS Threads,      \* threads that wait
          MaxCount      \* s->max

ASSUME SemAssumption == IsFiniteSet(Threads) /\ MaxCount \in Nat \ {0}

VARIABLES
    count,    \* s->count
    queue,    \* s->queue, oldest waiter first
    state,    \* "out": not in semaphore_wait; "blocked": STATE_BLOCKED;
              \* "blocked_tmo": STATE_BLOCKED_W_TMO; "running": made runnable,
              \* the code after switch_thread not yet executed
    owed      \* history: releases that counted less successful waits

vars == <<count, queue, state, owed>>

InWait == {"blocked", "blocked_tmo", "running"}
Queued(t) == \E i \in 1..Len(queue) : queue[i] = t

\* A thread that a release has woken and that has not returned yet.
Handed == {t \in Threads : state[t] = "running" /\ ~Queued(t)}

Without(q, i) == [j \in 1..(Len(q) - 1) |-> IF j < i THEN q[j] ELSE q[j + 1]]

Init == /\ count \in 0..MaxCount
        /\ queue = << >>
        /\ state = [t \in Threads |-> "out"]
        /\ owed = count

\* Slips the definitions below could have made.
HasWaiter_Blocked == \E i \in 1..Len(queue) : state[queue[i]] # "running"
Room_OffByOne == count <= MaxCount
StillQueued_Unchecked(t) == FALSE
Pick_Last(i) == i = Len(queue)

\* The release finds a thread in the queue (one that timed out counts too).
HasWaiter == queue # << >>

Room == count < MaxCount

\* Whom a release takes from the queue: the oldest waiter.
Pick(i) == i = 1

\* After the switch: the thread is still in the queue, nobody released it.
StillQueued(t) == Queued(t)

\* wait_queue_try_remove by the thread whose wait expired.
Unlink(i) == queue' = Without(queue, i)

\* semaphore_wait with the count up, or polled (timeout 0) with the count 0.
WaitTake(t) ==
    /\ state[t] = "out" /\ count > 0
    /\ count' = count - 1 /\ owed' = owed - 1
    /\ UNCHANGED <<queue, state>>

\* semaphore_wait with the count 0: the thread blocks, with or without timeout.
WaitBlock(t, s) ==
    /\ state[t] = "out" /\ ~(count > 0)
    /\ queue' = Append(queue, t)
    /\ state' = [state EXCEPT ![t] = s]
    /\ UNCHANGED <<count, owed>>

\* check_tmo_expired makes the thread runnable and leaves it in the queue.
Expire(t) ==
    /\ state[t] = "blocked_tmo"
    /\ state' = [state EXCEPT ![t] = "running"]
    /\ UNCHANGED <<count, queue, owed>>

\* The rest of semaphore_wait once the thread has the processor again.
Resume(t) ==
    /\ state[t] = "running"
    /\ state' = [state EXCEPT ![t] = "out"]
    /\ IF ~StillQueued(t)
       THEN owed' = owed - 1 /\ UNCHANGED <<count, queue>>
       ELSE /\ \E i \in 1..Len(queue) : queue[i] = t /\ Unlink(i)
            /\ IF count > 0 THEN count' = count - 1 /\ owed' = owed - 1
                            ELSE UNCHANGED <<count, owed>>

\* semaphore_release, from a thread or an interrupt handler.
ReleaseWaiter ==
    /\ HasWaiter
    /\ \E i \in 1..Len(queue) :
          /\ Pick(i)
          /\ queue' = Without(queue, i)
          /\ state' = [state EXCEPT ![queue[i]] = "running"]
    /\ owed' = owed + 1
    /\ UNCHANGED count

ReleaseUp ==
    /\ ~HasWaiter
    /\ IF Room THEN count' = count + 1 /\ owed' = owed + 1
               ELSE UNCHANGED <<count, owed>>
    /\ UNCHANGED <<queue, state>>

Release == ReleaseWaiter \/ ReleaseUp

Next == \/ Release
        \/ \E t \in Threads : \/ WaitTake(t) \/ Expire(t) \/ Resume(t)
                              \/ WaitBlock(t, "blocked")
                              \/ WaitBlock(t, "blocked_tmo")

Spec == Init /\ [][Next]_vars

\* The driver completes its operations again and again, timeouts expire, and
\* the scheduler runs every runnable thread.
Fairness == /\ WF_vars(Release)
            /\ \A t \in Threads : WF_vars(Resume(t)) /\ WF_vars(Expire(t))
FairSpec == Spec /\ Fairness
-------------------------------------------------------------------------------
TypeOK ==
    /\ count \in 0..MaxCount
    /\ queue \in Seq(Threads)
    /\ state \in [Threads -> {"out"} \cup InWait]
    /\ owed \in Int

\* Threads queue only at a count of 0: the KERNEL_ASSERT in semaphore_release,
\* and the reason why a wait that expired finds nothing to take.
QueuedAtZero == queue # << >> => count = 0

\* No release is lost or counted twice, whatever expires and whoever is late:
\* what was released and not yet consumed is in the count or on its way to a
\* thread that will report success.
NothingLost == owed = count + Cardinality(Handed)

\* The queue holds every waiting thread once, and every thread that is blocked
\* (a blocked thread that is not in the queue could never be woken).
QueueIsWaiters ==
    /\ \A i, j \in 1..Len(queue) : queue[i] = queue[j] => i = j
    /\ \A i \in 1..Len(queue) : state[queue[i]] # "out"
    /\ \A t \in Threads : state[t] \in {"blocked", "blocked_tmo"} => Queued(t)

IInv == TypeOK /\ QueuedAtZero /\ NothingLost /\ QueueIsWaiters

\* A release goes to the thread that has waited longest: while one waits in
\* the queue, nobody takes the count and nobody behind it is handed a release.
FirstComeFirstServed ==
    [][\A t, u \in Threads :
          u \in Handed' /\ (\E i, j \in 1..Len(queue) :
                               i < j /\ queue[i] = t /\ queue[j] = u)
            => ~Queued(t)']_vars

\* A thread that waits without a timeout returns in the end.
WaitEnds == \A t \in Threads : state[t] \in InWait ~> state[t] = "out"
===============================================================================
