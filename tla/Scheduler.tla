------------------------------ MODULE Scheduler ------------------------------
(***************************************************************************)
(* The choice of the next thread in firmware/kernel/thread.c: the circular *)
(* run queue, round robin among the most urgent threads, and aging, by     *)
(* which less urgent threads get their turn.  Threads are cooperative: one *)
(* runs until it calls switch_thread.  Priorities stay as they are here;   *)
(* PriorityInheritance models their changes.                               *)
(*                                                                         *)
(* Interrupt handlers wake threads at any point, also between the moment a *)
(* thread leaves the processor and the choice of the next one, when the    *)
(* check of the timeouts lets interrupts in and wakes sleepers.            *)
(***************************************************************************)
EXTENDS Integers, Sequences, FiniteSets, FiniteSetsExt, SequencesExt

CONSTANTS Threads,
          NoThread,     \* a NULL thread pointer
          Prios,        \* thread priorities, the lower the more urgent
          Realtime      \* PRIORITY_REALTIME: the last of the realtime class

ASSUME SchedulerAssumption ==
    /\ Prios \subseteq Nat \ {0} /\ Realtime \in Nat
    /\ IsFiniteSet(Threads) /\ NoThread \notin Threads

VARIABLES
    prio,       \* thread->priority, equal to thread->base_priority
    rtr,        \* the run queue, from corep->rtr.head on
    skip,       \* thread->skip_count
    running,    \* corep->running; NoThread inside switch_thread
    last,       \* switch_thread's local: the thread that left the processor
    waited      \* history: how often another thread was given the processor
                \* while t, one of the most urgent, could have had it
vars == <<prio, rtr, skip, running, last, waited>>

Runnable == ToSet(rtr)
RealtimeThread(t) == prio[t] <= Realtime

Init ==
    /\ prio \in [Threads -> Prios]
    /\ \E t \in Threads : rtr = <<t>> /\ running = t
    /\ skip = prio
    /\ last = NoThread
    /\ waited = [t \in Threads |-> 0]

\* Slips the definitions below could have made.
Start_AtHead == 1
MakeFirst_Forgotten(i) == rtr

\* rtr_queue_add: behind all others, just before the head of the circle.
RtrAdd(t) == rtr' = Append(rtr, t)

\* rtr_queue_make_first
MakeFirst(i) == SubSeq(rtr, i, Len(rtr)) \o SubSeq(rtr, 1, i - 1)

\* priobit_ffs(&rtr_dist.mask)
MostUrgent == Min({prio[t] : t \in Runnable})

\* Where the search starts: behind the thread that left if it is runnable.
Start == IF last \in Runnable
         THEN ((CHOOSE i \in DOMAIN rtr : rtr[i] = last) % Len(rtr)) + 1
         ELSE 1

\* RTR_THREAD_NEXT: the place the search has come to after k steps.
At(k) == ((Start - 1 + k) % Len(rtr)) + 1

\* A thread the search comes across has been skipped often enough.
Aged(t, max) ==
    LET diff == prio[t] - max
    IN ~RealtimeThread(t) /\ skip[t] + 1 > diff * diff

\* The search stops at a thread that is among the most urgent or has aged.
Fit(k) == prio[rtr[At(k)]] <= MostUrgent \/ Aged(rtr[At(k)], MostUrgent)
Found == Min({k \in 0..(Len(rtr) - 1) : Fit(k)})

-------------------------------------------------------------------------------
\* core_schedule_wakeup, for an interrupt handler, the running thread or a
\* timeout: the thread is promoted by the skips it starts with.
Wakeup(t) ==
    /\ t \notin Runnable
    /\ RtrAdd(t)
    /\ skip' = [skip EXCEPT ![t] = prio[t]]
    /\ waited' = [waited EXCEPT ![t] = 0]
    /\ UNCHANGED <<prio, running, last>>

\* The running thread calls switch_thread: it only yields, or it blocks or
\* sleeps (prepare_block takes it off the run queue).
Yield ==
    /\ running # NoThread
    /\ running' = NoThread /\ last' = running
    /\ UNCHANGED <<prio, rtr, skip, waited>>

Block ==
    /\ running # NoThread
    /\ rtr' = RemoveFirst(rtr, running)
    /\ running' = NoThread /\ last' = running
    /\ UNCHANGED <<prio, skip, waited>>

\* Nothing to run: the core sleeps, and what runs next comes from the head.
Idle ==
    /\ running = NoThread /\ rtr = <<>> /\ last # NoThread
    /\ last' = NoThread
    /\ UNCHANGED <<prio, rtr, skip, running, waited>>

\* switch_thread takes the thread the search stops at.  Those it comes across
\* before are skipped.
Switch ==
    /\ running = NoThread /\ rtr # <<>>
    /\ LET t == rtr[At(Found)]
           Skipped == {rtr[At(k)] : k \in 0..(Found - 1)}
       IN /\ running' = t
          /\ rtr' = MakeFirst(At(Found))
          /\ skip' = [u \in Threads |->
                        IF u = t THEN 0
                        ELSE IF u \in Skipped /\ ~RealtimeThread(u)
                        THEN skip[u] + 1 ELSE skip[u]]
          /\ waited' = [u \in Threads |->
                          IF u # t /\ u \in Runnable /\ prio[u] = MostUrgent
                          THEN waited[u] + 1 ELSE 0]
    /\ last' = NoThread
    /\ UNCHANGED prio

Next == \/ \E t \in Threads : Wakeup(t)
        \/ Yield \/ Block \/ Idle \/ Switch

Spec == Init /\ [][Next]_vars

\* Threads give up the processor again and again, one way or the other.
FairSpec == Spec /\ WF_vars(Yield \/ Block) /\ WF_vars(Switch)

-------------------------------------------------------------------------------
TypeOK ==
    /\ prio \in [Threads -> Prios]
    /\ Runnable \subseteq Threads /\ IsInjective(rtr)
    /\ skip \in [Threads -> Nat]
    /\ running \in Threads \cup {NoThread}
    /\ last \in Threads \cup {NoThread}

\* The running thread is the head of the run queue, whoever is woken: that is
\* where should_switch_tasks finds the priority to compare a woken thread with.
RunningIsHead == running # NoThread => rtr # <<>> /\ Head(rtr) = running

\* The run queue is sound: each runnable thread is in the circle once, and the
\* circle's head is the thread that runs.
RunQueueSound == TypeOK /\ RunningIsHead

\* "Switch thread in round robin fashion for any given priority": how often one
\* of the most urgent threads is passed over has a bound, whatever the others
\* do.  It is not one turn for each other thread: a thread that is woken again
\* while the next one is chosen puts those woken after it in front.
RoundRobin ==
    LET n == Cardinality(Threads)
    IN \A t \in Threads : waited[t] <= (n * (n - 1)) \div 2

\* Aging prevents starvation: a runnable thread below the realtime class runs
\* in the end, whatever more urgent threads do.
EveryoneRuns ==
    \A t \in Threads :
        (t \in Runnable /\ ~RealtimeThread(t)) ~> (running = t)
===============================================================================
