------------------------- MODULE PriorityInheritance -------------------------
(***************************************************************************)
(* Priority inheritance in firmware/kernel/thread.c: threads that wait for *)
(* mutexes (firmware/kernel/mutex.c) and for the answers of a queue's      *)
(* owner lend their priority to the thread they wait for, through chains   *)
(* of any length.  The code keeps books of who lends what: a histogram in  *)
(* each thread, one of the run queue, and a priority in each object.       *)
(*                                                                         *)
(* A call runs with interrupts off from its first change of the books to   *)
(* its last, so it is one step.  Any runnable thread may be the one that   *)
(* runs; objects held by several readers at once are not modelled here.    *)
(***************************************************************************)
EXTENDS Integers, Sequences, FiniteSets, FiniteSetsExt, SequencesExt

CONSTANTS Threads, Mutexes,
          Queues,       \* event queues with a registered owner
          NoThread,     \* a NULL thread pointer
          NoObject,     \* a NULL blocker
          Prios,        \* thread priorities, the lower the more urgent
          Idle,         \* PRIORITY_IDLE: of no task
          MaxRecursion  \* bound on mutex recursion

ASSUME PriorityAssumption ==
    /\ IsFiniteSet(Threads) /\ IsFiniteSet(Mutexes) /\ IsFiniteSet(Queues)
    /\ Prios \subseteq Nat /\ Idle \in Nat /\ \A p \in Prios : p < Idle
    /\ NoThread \notin Threads /\ NoObject \notin Mutexes \cup Queues
    /\ Mutexes \cap Queues = {} /\ MaxRecursion \in Nat

Objects == Mutexes \cup Queues

VARIABLES
    state,      \* thread->state: "running" (runnable), "sleeping", "blocked"
    base,       \* thread->base_priority
    blocker,    \* thread->blocker: the object it waits for
    holder,     \* bl->thread: the mutex's owner, the queue's owner
    queue,      \* the threads that wait for the object
    recursion,  \* m->recursion
    books       \* what the code records about priorities:
                \*   prio[t]   thread->priority
                \*   hist[t]   thread->pdist.hist
                \*   blpr[o]   bl->priority
                \*   rtr       rtr_dist.hist of the core
                \*   carried   the last update took line 605 with a priority
                \*             that belongs to the object before

waiting == <<state, blocker, queue>>
vars == <<waiting, base, holder, recursion, books>>

NoEntries == [p \in Prios |-> 0]

Init ==
    /\ state = [t \in Threads |-> "running"]
    /\ base \in [Threads -> Prios]
    /\ blocker = [t \in Threads |-> NoObject]
    /\ holder \in {h \in [Objects -> Threads \cup {NoThread}] :
                     \A o \in Objects : o \in Queues <=> h[o] \in Threads}
    /\ queue = [o \in Objects |-> <<>>]
    /\ recursion = [m \in Mutexes |-> 0]
    /\ books = [prio |-> base,
                hist |-> [t \in Threads |-> [NoEntries EXCEPT ![base[t]] = 1]],
                blpr |-> [o \in Objects |-> Idle],
                rtr |-> [p \in Prios |-> Cardinality({t \in Threads : base[t] = p})],
                carried |-> FALSE]

-------------------------------------------------------------------------------
\* prio_add_entry and prio_subtract_entry; the callers skip PRIORITY_IDLE.
Plus(h, p) == IF p \in Prios THEN [h EXCEPT ![p] = @ + 1] ELSE h
Minus(h, p) == IF p \in Prios THEN [h EXCEPT ![p] = @ - 1] ELSE h

\* priobit_ffs of the mask: the most urgent priority with an entry.
Highest(h) == Min({p \in Prios : h[p] > 0})

\* Slips the definitions below could have made.
WithPriority_NoMove(b, t, p) == [b EXCEPT !.prio[t] = p]
Onward_NoScan(b, o, oldpr, newpr, carried) ==
    IF newpr <= b.blpr[o] THEN newpr ELSE b.blpr[o]

\* wait_queue_find_priority
QueuePriority(b, q) == Min({Idle} \cup {b.prio[u] : u \in ToSet(q)})

\* set_rtr_thread_priority of a runnable thread, an assignment otherwise.
WithPriority(b, t, p) ==
    [b EXCEPT !.prio[t] = p,
              !.rtr = IF state[t] = "running" THEN Plus(Minus(@, b.prio[t]), p)
                                              ELSE @]

\* inherit_priority enters the object's new priority with its holder.
Lend(b, o, p) ==
    [b EXCEPT !.blpr[o] = p,
              !.hist[holder[o]] = Minus(Plus(@, p), b.blpr[o])]

\* inherit_priority, at the object a boosted thread waits for: the priority
\* its holder is to be lent, or the one carried over from the object before.
Carries(b, o, oldpr, newpr) == newpr > b.blpr[o] /\ oldpr > b.blpr[o]
Onward(b, o, oldpr, newpr, carried) ==
    IF newpr <= b.blpr[o] THEN newpr
    ELSE IF oldpr <= b.blpr[o] THEN QueuePriority(b, queue[o]) ELSE carried

\* inherit_priority, one round of its loop: the object's new priority is entered
\* with the holder; where that changes the holder's priority and the holder waits
\* itself, the next round is that of the object it waits for.
Round(r) ==
    LET t == holder[r.object]
        old == r.books.prio[t]
        lent == Lend(r.books, r.object, r.new)
        pr == Highest(lent.hist[t])
        moved == WithPriority(lent, t, pr)
        next == blocker[t]
        new == Onward(moved, next, old, pr, r.new)
        seen == [moved EXCEPT !.carried = @ \/ Carries(moved, next, old, pr)]
    IN IF ~r.more THEN r
       ELSE IF pr = old THEN [r EXCEPT !.books = lent, !.more = FALSE]
       ELSE IF next = NoObject \/ new = moved.blpr[next]
         THEN [r EXCEPT !.books = moved, !.more = FALSE]
       ELSE [books |-> seen, object |-> next, new |-> new, more |-> TRUE]

\* The loop moves down a chain of waits, which has each object once at most.
Rounds(first) ==
    LET round[n \in Nat] == IF n = 0 THEN first ELSE Round(round[n - 1])
    IN round
Inherit(b, o, new) ==
    LET first == [books |-> b, object |-> o, new |-> new, more |-> TRUE]
    IN Rounds(first)[Cardinality(Objects)].books

\* priority_disinherit_internal, of the thread that runs.
Disinherit(b, t, p) ==
    LET h == Minus(b.hist[t], p)
        c == [b EXCEPT !.hist[t] = h]
    IN IF p \in Prios /\ h[p] = 0 /\ p <= b.prio[t]
       THEN WithPriority(c, t, Highest(h)) ELSE c

\* priority_inherit_internal, of a thread about to be woken.
QuickInherit(b, t, p) ==
    [b EXCEPT !.hist[t] = Plus(@, p),
              !.prio[t] = IF p < @ THEN p ELSE @]

\* core_rtr_add and core_rtr_remove
Runnable(b, t) == [b EXCEPT !.rtr = Plus(@, b.prio[t])]
Unrunnable(b, t) == [b EXCEPT !.rtr = Minus(@, b.prio[t])]

-------------------------------------------------------------------------------
\* u is t, or what t waits for is held by a thread that waits on u.
WaitsOn(t, u) ==
    \A S \in SUBSET Threads :
        /\ t \in S
        /\ \A v \in S : blocker[v] # NoObject => holder[blocker[v]] \in S
        => u \in S

\* block_thread_ on an object that supports inheritance.  The program takes
\* care never to wait in a circle.
Block(t, o) ==
    /\ ~WaitsOn(holder[o], t)
    /\ state' = [state EXCEPT ![t] = "blocked"]
    /\ blocker' = [blocker EXCEPT ![t] = o]
    /\ queue' = [queue EXCEPT ![o] = Append(@, t)]
    /\ LET p == books.prio[t]
           b == Unrunnable(books, t)
       IN books' = IF p < books.blpr[o] THEN Inherit(b, o, p) ELSE b
    /\ UNCHANGED <<base, holder, recursion>>

\* mutex_lock
MutexLock(t, m) ==
    /\ state[t] = "running"
    /\ \/ /\ holder[m] = t /\ recursion[m] < MaxRecursion
          /\ recursion' = [recursion EXCEPT ![m] = @ + 1]
          /\ UNCHANGED <<waiting, base, holder, books>>
       \/ /\ holder[m] = NoThread
          /\ holder' = [holder EXCEPT ![m] = t]
          /\ UNCHANGED <<waiting, base, recursion, books>>
       \/ holder[m] \notin {t, NoThread} /\ Block(t, m)

\* wakeup_thread_transfer: the first thread that waits becomes the owner and
\* takes over what the others lend.
Transfer(t, m) ==
    LET u == Head(queue[m])
        rest == Tail(queue[m])
        p == books.blpr[m]
        newp == IF rest = <<>> THEN Idle
                ELSE IF books.prio[u] <= p THEN QueuePriority(books, rest) ELSE p
        taken == QuickInherit(Disinherit(books, t, p), u, newp)
    IN /\ holder' = [holder EXCEPT ![m] = u]
       /\ queue' = [queue EXCEPT ![m] = rest]
       /\ blocker' = [blocker EXCEPT ![u] = NoObject]
       /\ state' = [state EXCEPT ![u] = "running"]
       /\ books' = [Runnable(taken, u) EXCEPT !.blpr[m] = newp]

\* mutex_unlock, by the owner.
MutexUnlock(t, m) ==
    /\ state[t] = "running" /\ holder[m] = t
    /\ \/ /\ recursion[m] > 0
          /\ recursion' = [recursion EXCEPT ![m] = @ - 1]
          /\ UNCHANGED <<waiting, holder, books>>
       \/ /\ recursion[m] = 0 /\ queue[m] = <<>>
          /\ holder' = [holder EXCEPT ![m] = NoThread]
          /\ UNCHANGED <<waiting, recursion, books>>
       \/ /\ recursion[m] = 0 /\ queue[m] # <<>>
          /\ Transfer(t, m) /\ UNCHANGED recursion
    /\ UNCHANGED base

\* queue_send waits for the owner of the queue.
QueueSend(t, q) == state[t] = "running" /\ holder[q] # t /\ Block(t, q)

\* wakeup_thread_release: a sender is let go, in any order and by anyone.
Release(t, q) ==
    /\ t \in ToSet(queue[q])
    /\ LET rest == RemoveFirst(queue[q], t)
           b == Runnable(books, t)
           new == QueuePriority(books, rest)
       IN /\ queue' = [queue EXCEPT ![q] = rest]
          /\ books' = IF books.prio[t] > books.blpr[q] \/ new = books.blpr[q]
                      THEN b ELSE Inherit(b, q, new)
    /\ blocker' = [blocker EXCEPT ![t] = NoObject]
    /\ state' = [state EXCEPT ![t] = "running"]
    /\ UNCHANGED <<base, holder, recursion>>

\* sleep_thread, and the end of the sleep in check_tmo_expired.
Sleep(t) ==
    /\ state[t] = "running"
    /\ state' = [state EXCEPT ![t] = "sleeping"]
    /\ books' = Unrunnable(books, t)
    /\ UNCHANGED <<blocker, queue, base, holder, recursion>>

Wake(t) ==
    /\ state[t] = "sleeping"
    /\ state' = [state EXCEPT ![t] = "running"]
    /\ books' = Runnable(books, t)
    /\ UNCHANGED <<blocker, queue, base, holder, recursion>>

\* thread_set_priority, by any thread for any thread.
SetPriority(t, p) ==
    /\ p # base[t]
    /\ base' = [base EXCEPT ![t] = p]
    /\ LET own == [books EXCEPT !.hist[t] = Plus(Minus(@, base[t]), p)]
           old == books.prio[t]
           new == Highest(own.hist[t])
           b == WithPriority(own, t, new)
           o == blocker[t]
           blpr == IF new < books.blpr[o] THEN new
                   ELSE IF old <= books.blpr[o] THEN QueuePriority(b, queue[o])
                   ELSE books.blpr[o]
       IN books' = IF old = new THEN own
                   ELSE IF o = NoObject THEN b
                   ELSE IF blpr = books.blpr[o] THEN b ELSE Inherit(b, o, blpr)
    /\ UNCHANGED <<waiting, holder, recursion>>

Step == \/ \E t \in Threads, m \in Mutexes : MutexLock(t, m) \/ MutexUnlock(t, m)
        \/ \E t \in Threads, q \in Queues : QueueSend(t, q) \/ Release(t, q)
        \/ \E t \in Threads : Sleep(t) \/ Wake(t)
        \/ \E t \in Threads, p \in Prios : SetPriority(t, p)

\* Steps in which no priority is carried over to another object.
Next == Step /\ ~books'.carried
Spec == Init /\ [][Next]_vars

\* Every step of the code.
FullSpec == Init /\ [][Step]_vars

-------------------------------------------------------------------------------
\* What the code may record, with counts of the set N.
Books(N) == [prio : [Threads -> Prios], hist : [Threads -> [Prios -> N]],
             blpr : [Objects -> Prios \cup {Idle}], rtr : [Prios -> N],
             carried : BOOLEAN]

TypeOK ==
    /\ state \in [Threads -> {"running", "sleeping", "blocked"}]
    /\ base \in [Threads -> Prios]
    /\ blocker \in [Threads -> Objects \cup {NoObject}]
    /\ holder \in [Objects -> Threads \cup {NoThread}]
    /\ queue \in [Objects -> Seq(Threads)]
    /\ recursion \in [Mutexes -> 0..MaxRecursion]
    /\ books \in Books(0..(Cardinality(Objects) + Cardinality(Threads)))

\* "A lower priority thread inherits the priority of the highest priority
\* thread blocked waiting for it", directly or through a chain: a thread runs
\* at the most urgent base priority among those that cannot go on without it.
InheritsHighest ==
    \A t \in Threads :
        books.prio[t] = Min({base[u] : u \in {v \in Threads : WaitsOn(v, t)}})

\* "Priority summary of owned objects that have blocked threads and thread's
\* own base priority": no lent priority is entered twice or left behind when
\* locks change hands, waits end and priorities change in any order.
HistoryExact ==
    \A t \in Threads, p \in Prios :
        books.hist[t][p] =
            (IF base[t] = p THEN 1 ELSE 0)
            + Cardinality({o \in Objects : holder[o] = t /\ books.blpr[o] = p})

\* An object's priority is that of its most urgent waiter, PRIORITY_IDLE when
\* there is none; the quick paths that skip the scan of the queue are right.
ObjectPriorityExact ==
    \A o \in Objects : books.blpr[o] = QueuePriority(books, queue[o])

\* The run queue's summary counts every runnable thread at the priority it has
\* by now: switch_thread compares each thread with the summary's first bit.
RunQueueExact ==
    \A p \in Prios : books.rtr[p] =
        Cardinality({t \in Threads : state[t] = "running" /\ books.prio[t] = p})

\* The three books say exactly who lends what to whom, after any sequence of
\* waits, handovers, releases in any order and changes of priority.
BooksExact == HistoryExact /\ ObjectPriorityExact /\ RunQueueExact

\* A thread waits for one thing, in that object's queue and once; what it waits
\* for has a holder; and no threads wait for each other in a circle: "those are
\* prevented, right?"
WaitsSound ==
    /\ \A t \in Threads : state[t] = "blocked" <=> blocker[t] # NoObject
    /\ \A o \in Objects : IsInjective(queue[o])
    /\ \A t \in Threads, o \in Objects : t \in ToSet(queue[o]) <=> blocker[t] = o
    /\ \A o \in Objects : o \in Queues \/ queue[o] # <<>> => holder[o] \in Threads
NoCircle ==
    \A S \in SUBSET Threads : S # {} =>
        \E t \in S : blocker[t] = NoObject \/ holder[blocker[t]] \notin S

\* Every wait is well formed, and the books are exact about all of them.
BooksSound == TypeOK /\ WaitsSound /\ NoCircle /\ BooksExact

\* The inductive invariant.  That there is no circle is carried along as a
\* numbering in which each thread waits on one of a higher number.
Ranks(rank) ==
    \A t \in Threads :
        blocker[t] # NoObject => rank[t] < rank[holder[blocker[t]]]
Ranked == \E N \in Nat : \E rank \in [Threads -> 0..N] : Ranks(rank)

\* A thread runs at the most urgent of its own priority and those it is lent.
PriorityOfHistory ==
    \A t \in Threads : books.prio[t] = Highest(books.hist[t])

IInv ==
    /\ TypeOK /\ WaitsSound /\ Ranked
    /\ BooksExact /\ PriorityOfHistory /\ ~books.carried
===============================================================================
