------------------------------- MODULE MrswLock -------------------------------
(***************************************************************************)
(* The multi-reader, single-writer lock of firmware/kernel/mrsw_lock.c, in *)
(* the build with priority scheduling on one core.  Threads are switched   *)
(* only where the code calls switch_thread, so that an action is a whole   *)
(* call, up to the point where it blocks.  The priorities the splay        *)
(* carries are the subject of PriorityInheritance.                         *)
(***************************************************************************)
EXTENDS Integers, Sequences, FiniteSets

CONSTANTS Threads,      \* the threads that use the lock (MAXTHREADS of them)
          NoThread,     \* a NULL thread pointer
          MaxClaims     \* bound on nested claims (rdrecursion[] is 8 bits wide)

ASSUME ThreadsAssumption == IsFiniteSet(Threads) /\ NoThread \notin Threads
ASSUME ClaimsAssumption == MaxClaims \in Nat \ {0}

VARIABLES
    count,        \* mrsw->count: > 0 readers, < 0 nested writer claims
    queue,        \* mrsw->queue: blocked threads, oldest first
    owner,        \* mrsw->splay.blocker.thread
    mask,         \* mrsw->splay.mask: the threads that own it as readers
    rdrecursion,  \* mrsw->rdrecursion[]
    multi,        \* thread->retval as set before blocking: wants to read
    blocked,      \* the threads in STATE_BLOCKED
    reads,        \* reads[t]: read claims the code around the calls holds
    writes        \* writes[t]: write claims it holds

lockVars == <<count, queue, owner, mask, rdrecursion>>
threadVars == <<multi, blocked>>
claimVars == <<reads, writes>>
vars == <<lockVars, threadVars, claimVars>>

Init == /\ count = 0 /\ queue = << >> /\ owner = NoThread /\ mask = {}
        /\ rdrecursion = [t \in Threads |-> 0]
        /\ multi = [t \in Threads |-> FALSE]
        /\ blocked = {}
        /\ reads = [t \in Threads |-> 0]
        /\ writes = [t \in Threads |-> 0]

Running(t) == t \notin blocked
WriterIs(t) == owner = t /\ count < 0

\* Slips the helpers below could have made: no check for a waiting writer, or
\* for a writer inside; a release that does not look for waiters, names
\* nobody anew, or removes one thread too few from the queue.
OpenToReaders_Barging == count >= 0
OpenToReaders_Intruding == queue = << >>
LastReader_Stranding == FALSE
Nested_OffByOne(t) == rdrecursion[t] >= 0
SoleRemaining_Stale(n, m) == IF n = 0 THEN NoThread ELSE owner
Unqueue_OneShort(n) == SubSeq(queue, n, Len(queue))

\* A thread blocks at the tail of the queue (block_thread, then switch_thread).
Block(t, reader) ==
    /\ multi' = [multi EXCEPT ![t] = reader]
    /\ queue' = Append(queue, t)
    /\ blocked' = blocked \cup {t}
    /\ UNCHANGED <<count, owner, mask, rdrecursion, reads, writes>>

\* A reader may claim the lock: no writer has it and nobody waits for it.
OpenToReaders == count >= 0 /\ queue = << >>

\* The release of the last reader hands the lock to the writer in wait.
LastReader == count = 1 /\ queue # << >>

\* The reader's claim is a nested one.
Nested(t) == rdrecursion[t] > 0

\* The readers without t: its bit in the splay's mask is cleared.
MaskWithout(t) == mask \ {t}

\* The queue without its first n threads.
Unqueue(n) == SubSeq(queue, n + 1, Len(queue))

\* Whom the splay names once n readers, those in m, are left.
SoleRemaining(n, m) ==
    CASE n = 0 -> NoThread
      [] n = 1 -> CHOOSE t \in m : TRUE
      [] OTHER -> owner

\* The first n waiters are readers and the one after them, if any, is not.
LeadingReaders(n) ==
    /\ \A i \in 1..n : multi[queue[i]]
    /\ n < Len(queue) => ~multi[queue[n + 1]]

-------------------------------------------------------------------------------
\* mrsw_read_acquire: the writer's own request is passed over, ...
ReadInWrite(t) ==
    /\ WriterIs(t)
    /\ reads' = [reads EXCEPT ![t] = @ + 1]
    /\ UNCHANGED <<lockVars, threadVars, writes>>

\* ... a reader that is already in counts one more claim, ...
ReadAgain(t) ==
    /\ ~WriterIs(t) /\ t \in mask
    /\ rdrecursion' = [rdrecursion EXCEPT ![t] = @ + 1]
    /\ reads' = [reads EXCEPT ![t] = @ + 1]
    /\ UNCHANGED <<count, queue, owner, mask, threadVars, writes>>

\* ... a new reader claims an open lock ...
ReadClaim(t) ==
    /\ ~WriterIs(t) /\ t \notin mask /\ OpenToReaders
    /\ count' = count + 1
    /\ mask' = mask \cup {t}
    /\ owner' = IF count + 1 = 1 THEN t ELSE NoThread
    /\ reads' = [reads EXCEPT ![t] = @ + 1]
    /\ UNCHANGED <<queue, rdrecursion, threadVars, writes>>

\* ... and blocks when a writer owns it or waits.
ReadBlock(t) == ~WriterIs(t) /\ t \notin mask /\ ~OpenToReaders /\ Block(t, TRUE)

ReadAcquire(t) ==
    /\ Running(t) /\ reads[t] < MaxClaims
    /\ ReadInWrite(t) \/ ReadAgain(t) \/ ReadClaim(t) \/ ReadBlock(t)

\* mrsw_read_release: ignored for the writer; a nested claim is counted down;
\* the last reader wakes the writer in wait and transfers ownership to it;
\* otherwise readership is given up.
ReadReleaseInWrite(t) ==
    /\ WriterIs(t)
    /\ reads' = [reads EXCEPT ![t] = @ - 1]
    /\ UNCHANGED <<lockVars, threadVars, writes>>

ReadReleaseAgain(t) ==
    /\ ~WriterIs(t) /\ t \in mask /\ Nested(t)
    /\ rdrecursion' = [rdrecursion EXCEPT ![t] = @ - 1]
    /\ reads' = [reads EXCEPT ![t] = @ - 1]
    /\ UNCHANGED <<count, queue, owner, mask, threadVars, writes>>

ReadReleaseToWriter(t) ==
    /\ ~WriterIs(t) /\ t \in mask /\ ~Nested(t) /\ LastReader
    /\ count' = -1
    /\ mask' = MaskWithout(t)
    /\ owner' = Head(queue) /\ queue' = Unqueue(1)
    /\ blocked' = blocked \ {Head(queue)}
    /\ reads' = [reads EXCEPT ![t] = @ - 1]
    /\ writes' = [writes EXCEPT ![Head(queue)] = 1]
    /\ UNCHANGED <<rdrecursion, multi>>

ReadRelinquish(t) ==
    /\ ~WriterIs(t) /\ t \in mask /\ ~Nested(t) /\ ~LastReader
    /\ count' = count - 1
    /\ mask' = MaskWithout(t)
    /\ owner' = SoleRemaining(count - 1, MaskWithout(t))
    /\ reads' = [reads EXCEPT ![t] = @ - 1]
    /\ UNCHANGED <<queue, rdrecursion, threadVars, writes>>

ReadRelease(t) ==
    /\ Running(t) /\ reads[t] > 0
    /\ \/ ReadReleaseInWrite(t) \/ ReadReleaseAgain(t)
       \/ ReadReleaseToWriter(t) \/ ReadRelinquish(t)

-------------------------------------------------------------------------------
\* mrsw_write_acquire: the thread the splay names is let in at once (the code
\* does not look at count there), a free lock is taken, else the thread blocks.
WriteAgain(t) ==
    /\ owner = t
    /\ count' = count - 1
    /\ writes' = [writes EXCEPT ![t] = @ + 1]
    /\ UNCHANGED <<queue, owner, mask, rdrecursion, threadVars, reads>>

WriteClaim(t) ==
    /\ owner # t /\ count = 0
    /\ count' = -1 /\ owner' = t
    /\ writes' = [writes EXCEPT ![t] = @ + 1]
    /\ UNCHANGED <<queue, mask, rdrecursion, threadVars, reads>>

WriteBlock(t) == owner # t /\ count # 0 /\ Block(t, FALSE)

RequestWrite(t) ==
    /\ Running(t) /\ writes[t] < MaxClaims
    /\ WriteAgain(t) \/ WriteClaim(t) \/ WriteBlock(t)

\* What the header asks of callers: a reader does not ask for write access.
WriteAcquire(t) == (reads[t] > 0 => writes[t] > 0) /\ RequestWrite(t)

\* mrsw_write_release: a nested claim is counted down; the last one frees the
\* lock, hands it to a writer at the head of the queue, or admits the readers
\* there (wakeup_thread_queue_multi_transfer).
WriteReleaseAgain(t) ==
    /\ count < -1
    /\ count' = count + 1
    /\ writes' = [writes EXCEPT ![t] = @ - 1]
    /\ UNCHANGED <<queue, owner, mask, rdrecursion, threadVars, reads>>

WriteReleaseFree(t) ==
    /\ count >= -1 /\ queue = << >>
    /\ owner' = NoThread /\ count' = 0
    /\ writes' = [writes EXCEPT ![t] = @ - 1]
    /\ UNCHANGED <<queue, mask, rdrecursion, threadVars, reads>>

WriteReleaseToWriter(t) ==
    /\ count >= -1 /\ queue # << >> /\ ~multi[Head(queue)]
    /\ owner' = Head(queue) /\ queue' = Unqueue(1)
    /\ blocked' = blocked \ {Head(queue)}
    /\ writes' = [writes EXCEPT ![t] = @ - 1, ![Head(queue)] = 1]
    /\ UNCHANGED <<count, mask, rdrecursion, multi, reads>>

WriteReleaseToReaders(t) ==
    /\ count >= -1 /\ queue # << >> /\ multi[Head(queue)]
    /\ \E n \in 1..Len(queue) :
         LET woken == {queue[i] : i \in 1..n}
         IN /\ LeadingReaders(n)
            /\ count' = n
            /\ mask' = mask \cup woken
            /\ owner' = IF n = 1 THEN Head(queue) ELSE NoThread
            /\ queue' = Unqueue(n)
            /\ blocked' = blocked \ woken
            /\ reads' = [u \in Threads |-> IF u \in woken THEN 1 ELSE reads[u]]
    /\ writes' = [writes EXCEPT ![t] = @ - 1]
    /\ UNCHANGED <<rdrecursion, multi>>

\* The assertion of mrsw_write_release (owner = t) is part of the invariant;
\* callers release in the reverse order of their claims.
WriteRelease(t) ==
    /\ Running(t) /\ writes[t] > 0 /\ (writes[t] = 1 => reads[t] = 0)
    /\ \/ WriteReleaseAgain(t) \/ WriteReleaseFree(t)
       \/ WriteReleaseToWriter(t) \/ WriteReleaseToReaders(t)

Next == \E t \in Threads : \/ ReadAcquire(t) \/ ReadRelease(t)
                           \/ WriteAcquire(t) \/ WriteRelease(t)

Spec == Init /\ [][Next]_vars

-------------------------------------------------------------------------------
\* Types of the variables (struct mrsw_lock and the fields of thread_entry).
TypeOK ==
    /\ count \in Int
    /\ queue \in Seq(Threads)
    /\ owner \in Threads \cup {NoThread}
    /\ mask \subseteq Threads
    /\ rdrecursion \in [Threads -> Nat]
    /\ multi \in [Threads -> BOOLEAN]
    /\ blocked \subseteq Threads
    /\ reads \in [Threads -> Nat]
    /\ writes \in [Threads -> Nat]

\* A thread that returned from mrsw_write_acquire is alone in the lock: no
\* other thread holds a write or a read claim, however the claims were granted
\* (directly, or by the wake of a release).
Exclusion ==
    \A t, u \in Threads :
        writes[t] > 0 /\ u # t => writes[u] = 0 /\ reads[u] = 0

\* The lock's own books agree with the claims handed out: count is the number
\* of reading threads or minus the writer's nested claims, mask and
\* rdrecursion[] are the readers and their claims.
BooksAgree ==
    /\ count >= 0 => /\ mask = {t \in Threads : reads[t] > 0}
                     /\ \A t \in Threads : writes[t] = 0
                     /\ count = Cardinality(mask)
    /\ count < 0 => /\ owner \in Threads /\ writes[owner] = -count
                    /\ mask = {}
    /\ \A t \in mask : reads[t] = rdrecursion[t] + 1
    /\ \A t \in Threads \ mask : rdrecursion[t] = 0

\* The splay names a thread exactly when one thread owns the lock, and that
\* thread: what mrsw_read_acquire, mrsw_write_release and the priority code
\* (wakeup_thread_transfer asserts it) take for granted.
OwnerIsSoleHolder ==
    /\ count = 0 => owner = NoThread
    /\ count = 1 => mask = {owner}
    /\ count > 1 => owner = NoThread

\* Nobody waits for a lock that could be had: with waiters the lock is taken,
\* and while readers hold it the first waiter is a writer ("if the queue has
\* threads, then the next after the owning readers is a writer").
NoStranded ==
    queue # << >> => /\ count # 0
                     /\ count > 0 => ~multi[Head(queue)]

\* A blocked thread is in the queue once, and holds nothing.
WaitersHoldNothing ==
    /\ blocked = {queue[i] : i \in 1..Len(queue)}
    /\ \A i, j \in 1..Len(queue) : queue[i] = queue[j] => i = j
    /\ \A t \in blocked : reads[t] = 0 /\ writes[t] = 0

IInv == /\ TypeOK /\ Exclusion /\ BooksAgree /\ OwnerIsSoleHolder
        /\ NoStranded /\ WaitersHoldNothing

-------------------------------------------------------------------------------
\* mrsw_lock.c implements the fair lock: count, mask, owner and recursion
\* counts decide every claim as the callers' claims and the line would.
Line == [i \in 1..Len(queue) |->
            [thread |-> queue[i], reader |-> multi[queue[i]]]]
Lock == INSTANCE RWLock WITH line <- Line
ImplementsRWLock == Lock!Spec

\* No thread starves: as long as every thread now and then holds no claim,
\* each thread that blocks in an acquire call is eventually let in, however the
\* others keep coming back.
WaitersServed ==
    (\A t \in Threads : []<>(reads[t] = 0 /\ writes[t] = 0))
        => \A t \in Threads : t \in blocked ~> t \notin blocked
===============================================================================
