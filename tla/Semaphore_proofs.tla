--------------------------- MODULE Semaphore_proofs ---------------------------
(***************************************************************************)
(* Machine-checked proofs about Semaphore, for any finite set of threads   *)
(* and any maximum.  That no release is lost rests on two more facts: the  *)
(* count is 0 while anybody queues, so that a release cannot raise it past *)
(* a waiter, and a queued thread is never one a release was handed to.     *)
(***************************************************************************)
EXTENDS Semaphore, Integers, Sequences, FiniteSets, SequencesExt,
        FiniteSetTheorems, SequenceTheorems, TLAPS

-------------------------------------------------------------------------------
\* Lists: what the operations on them do to what is in them.

\* A thread that joins a queue is its last.
LEMMA AppendFacts ==
    ASSUME NEW S, NEW q \in Seq(S), NEW t \in S
    PROVE  /\ Append(q, t) \in Seq(S)
           /\ Len(q) \in Nat
           /\ Append(q, t) # << >>
           /\ Len(Append(q, t)) = Len(q) + 1
           /\ \A i \in 1..Len(q) : Append(q, t)[i] = q[i]
           /\ Append(q, t)[Len(q) + 1] = t
           /\ q # << >> => Head(Append(q, t)) = Head(q) /\ Len(q) > 0
           /\ q = << >> => Head(Append(q, t)) = t /\ Len(q) = 0
  BY AppendProperties, LenProperties, EmptySeq, SMT

\* A queue's members and its head.
LEMMA QueueFacts ==
    ASSUME NEW S, NEW q \in Seq(S)
    PROVE  /\ Len(q) \in Nat
           /\ \A i \in 1..Len(q) : q[i] \in S
           /\ q # << >> => 1 \in 1..Len(q) /\ Head(q) = q[1]
  BY LenProperties, ElementOfSeq, EmptySeq, SMT

\* Taking the element at i out of a queue leaves the others in their order.
LEMMA RemoveFacts ==
    ASSUME NEW S, NEW q \in Seq(S), NEW i \in 1..Len(q)
    PROVE  LET r == [j \in 1..(Len(q) - 1) |-> IF j < i THEN q[j] ELSE q[j + 1]]
           IN  /\ r \in Seq(S)
               /\ Len(q) \in Nat /\ Len(r) = Len(q) - 1
               /\ \A j \in 1..(Len(q) - 1) :
                    r[j] = IF j < i THEN q[j] ELSE q[j + 1]
  <1> DEFINE n == Len(q) - 1
             r == [j \in 1..n |-> IF j < i THEN q[j] ELSE q[j + 1]]
  <1>1. Len(q) \in Nat /\ n \in Nat /\ \A j \in 1..Len(q) : q[j] \in S
    BY LenProperties, ElementOfSeq, SMT
  <1>2. \A j \in 1..n : (IF j < i THEN q[j] ELSE q[j + 1]) \in S
    BY <1>1, SMT
  <1>3. r \in [1..n -> S]
    BY <1>2
  <1>4. r \in Seq(S)
    BY <1>1, <1>3, SeqDef
  <1>5. Len(r) = n
    BY <1>1, <1>3, <1>4, LenProperties, SMT
  <1>6. QED
    BY <1>1, <1>4, <1>5

-------------------------------------------------------------------------------

\* A thread is queued or handed a release, never both, and few are handed one.
LEMMA HandedFacts ==
    /\ IsFiniteSet(Handed) /\ Cardinality(Handed) \in Nat
    /\ \A t \in Handed : ~Queued(t)
  <1>1. Handed \subseteq Threads
    BY DEF Handed
  <1>2. IsFiniteSet(Handed)
    BY <1>1, FS_Subset, SemAssumption
  <1>3. QED
    BY <1>2, FS_CardinalityType DEF Handed

\* A semaphore just initialised satisfies the invariant.
LEMMA InitEstablishes == Init => IInv
  <1> SUFFICES ASSUME Init PROVE IInv
    OBVIOUS
  <1>1. queue = << >> /\ << >> \in Seq(Threads) /\ Len(<< >>) = 0
    BY EmptySeq DEF Init
  <1>2. TypeOK
    BY <1>1, SemAssumption, SMT DEF Init, TypeOK
  <1>3. Handed = {}
    BY DEF Init, Handed
  <1>4. NothingLost
    BY <1>2, <1>3, FS_EmptySet, SMT DEF Init, TypeOK, NothingLost
  <1>5. QueueIsWaiters
    BY <1>1, SMT DEF Init, QueueIsWaiters
  <1>6. QED
    BY <1>1, <1>2, <1>4, <1>5 DEF IInv, QueuedAtZero

\* What is left of the queue when its i-th thread is taken out.
LEMMA Taken ==
    ASSUME IInv, NEW i \in 1..Len(queue), queue' = Without(queue, i)
    PROVE  /\ queue' \in Seq(Threads)
           /\ queue[i] \in Threads /\ Queued(queue[i])
           /\ queue # << >>
           /\ \A u \in Threads : u = queue[i] => ~Queued(u)'
           /\ \A u \in Threads : u # queue[i] => (Queued(u)' <=> Queued(u))
           /\ \A j, k \in 1..Len(queue') : queue'[j] = queue'[k] => j = k
  <1> DEFINE n == Len(queue) - 1
  <1>1. /\ queue' \in Seq(Threads) /\ Len(queue) \in Nat /\ Len(queue') = n
        /\ \A j \in 1..n : queue'[j] = IF j < i THEN queue[j] ELSE queue[j + 1]
    BY RemoveFacts DEF IInv, TypeOK, Without
  <1>2. \A j, k \in 1..Len(queue) : queue[j] = queue[k] => j = k
    BY DEF IInv, QueueIsWaiters
  <1>3. queue[i] \in Threads /\ Queued(queue[i]) /\ queue # << >>
    BY <1>1, QueueFacts, EmptySeq, SMT DEF IInv, TypeOK, Queued
  <1>4. \A u \in Threads : u = queue[i] => ~Queued(u)'
    BY <1>1, <1>2, SMT DEF Queued
  <1>5. ASSUME NEW u \in Threads, u # queue[i]
        PROVE  Queued(u)' <=> Queued(u)
    <2>1. ASSUME NEW j \in 1..Len(queue), queue[j] = u
          PROVE  \E k \in 1..n : queue'[k] = u
      <3>1. CASE j < i
        BY <1>1, <2>1, <3>1, SMT
      <3>2. CASE j > i
        <4>1. j - 1 \in 1..n /\ ~(j - 1 < i) /\ (j - 1) + 1 = j
          BY <1>1, <3>2, SMT
        <4>2. queue'[j - 1] = u
          BY <1>1, <2>1, <4>1
        <4>3. QED
          BY <4>1, <4>2
      <3>3. j # i
        BY <1>5, <2>1
      <3>4. QED
        BY <1>1, <3>1, <3>2, <3>3, SMT
    <2>2. ASSUME NEW k \in 1..n, queue'[k] = u
          PROVE  \E j \in 1..Len(queue) : queue[j] = u
      BY <1>1, <2>2, SMT
    <2>3. QED
      BY <1>1, <2>1, <2>2 DEF Queued
  <1>6. ASSUME NEW j \in 1..n, NEW k \in 1..n, queue'[j] = queue'[k]
        PROVE  j = k
    BY <1>1, <1>2, <1>6, SMT
  <1>7. QED
    BY <1>1, <1>3, <1>4, <1>5, <1>6

\* semaphore_wait that finds a count to take.
LEMMA WaitTakePreserves ==
    ASSUME IInv, NEW t \in Threads, WaitTake(t)
    PROVE  IInv'
  <1>1. Handed' = Handed
    BY DEF WaitTake, Handed, Queued
  <1>2. TypeOK' /\ QueuedAtZero'
    BY SemAssumption, SMT DEF IInv, TypeOK, WaitTake, QueuedAtZero
  <1>3. NothingLost'
    BY <1>1, HandedFacts, SMT DEF IInv, TypeOK, WaitTake, NothingLost
  <1>4. QueueIsWaiters'
    BY DEF IInv, WaitTake, QueueIsWaiters, Queued
  <1>5. QED
    BY <1>2, <1>3, <1>4 DEF IInv

\* semaphore_wait that blocks, with a timeout or without.
LEMMA WaitBlockPreserves ==
    ASSUME IInv, NEW t \in Threads, NEW s \in {"blocked", "blocked_tmo"},
           WaitBlock(t, s)
    PROVE  IInv'
  <1> DEFINE n == Len(queue)
  <1>1. /\ queue' \in Seq(Threads) /\ n \in Nat /\ Len(queue') = n + 1
        /\ \A i \in 1..n : queue'[i] = queue[i]
        /\ queue'[n + 1] = t
    BY AppendFacts DEF IInv, TypeOK, WaitBlock
  <1>2. \A i \in 1..n : queue[i] # t /\ queue[i] \in Threads
    BY QueueFacts DEF IInv, TypeOK, QueueIsWaiters, WaitBlock
  <1>3. \A u \in Threads : Queued(u)' <=> Queued(u) \/ u = t
    BY <1>1, <1>2, SMT DEF Queued
  <1>4. \A u \in Threads : u # t => state'[u] = state[u]
    BY DEF WaitBlock, IInv, TypeOK
  <1>5. state'[t] = s
    BY DEF WaitBlock, IInv, TypeOK
  <1>6. Handed' = Handed
    <2>1. t \notin Handed
      BY DEF WaitBlock, Handed
    <2>2. \A u \in Threads : u \in Handed' <=> u \in Handed
      BY <2>1, <1>3, <1>4, <1>5 DEF Handed
    <2>3. QED
      BY <2>2 DEF Handed
  <1>7. TypeOK' /\ QueuedAtZero'
    BY <1>1, SemAssumption, SMT
    DEF IInv, TypeOK, WaitBlock, QueuedAtZero, InWait
  <1>8. NothingLost'
    BY <1>6 DEF IInv, WaitBlock, NothingLost
  <1>9. QueueIsWaiters'
    <2>1. \A i, j \in 1..Len(queue') : queue'[i] = queue'[j] => i = j
      BY <1>1, <1>2, SMT DEF IInv, QueueIsWaiters
    <2>2. \A i \in 1..Len(queue') : state'[queue'[i]] # "out"
      BY <1>1, <1>2, <1>4, <1>5, SMT DEF IInv, QueueIsWaiters
    <2>3. \A u \in Threads :
            state'[u] \in {"blocked", "blocked_tmo"} => Queued(u)'
      BY <1>3, <1>4 DEF IInv, QueueIsWaiters
    <2>4. QED
      BY <2>1, <2>2, <2>3 DEF QueueIsWaiters
  <1>10. QED
    BY <1>7, <1>8, <1>9 DEF IInv

\* A timeout makes a thread runnable and leaves it queued.
LEMMA ExpirePreserves ==
    ASSUME IInv, NEW t \in Threads, Expire(t)
    PROVE  IInv'
  <1>1. \A u \in Threads : /\ u # t => state'[u] = state[u]
                           /\ Queued(u)' <=> Queued(u)
    BY DEF Expire, IInv, TypeOK, Queued
  <1>2. state'[t] = "running" /\ Queued(t)
    BY DEF Expire, IInv, TypeOK, QueueIsWaiters
  <1>3. Handed' = Handed
    BY <1>1, <1>2 DEF Handed
  <1>4. TypeOK' /\ QueuedAtZero'
    BY SMT DEF IInv, TypeOK, Expire, QueuedAtZero, InWait
  <1>5. NothingLost'
    BY <1>3 DEF IInv, Expire, NothingLost
  <1>6. QueueIsWaiters'
    <2>1. \A i \in 1..Len(queue) : queue[i] \in Threads
      BY QueueFacts DEF IInv, TypeOK
    <2>2. QED
      BY <1>1, <1>2, <2>1 DEF IInv, Expire, QueueIsWaiters
  <1>7. QED
    BY <1>4, <1>5, <1>6 DEF IInv

\* The queue after a thread is taken out, whose state becomes s: by a release
\* ("running") or by the thread itself ("out").
LEMMA TakenKeepsQueue ==
    ASSUME IInv, NEW i \in 1..Len(queue),
           NEW s \in {"running", "out"},
           queue' = Without(queue, i),
           state' = [state EXCEPT ![queue[i]] = s]
    PROVE  QueueIsWaiters'
  <1>1. \A j \in 1..Len(queue') : /\ queue'[j] # queue[i]
                                  /\ queue'[j] \in Threads /\ Queued(queue'[j])
    <2>1. \A j \in 1..Len(queue') : queue'[j] \in Threads
      BY Taken, ElementOfSeq
    <2>2. \A u \in Threads : (\E j \in 1..Len(queue') : queue'[j] = u) =>
                                u # queue[i] /\ Queued(u)
      BY Taken DEF Queued
    <2>3. QED
      BY <2>1, <2>2
  <1>2. \A u \in Threads : u # queue[i] => state'[u] = state[u]
    BY Taken DEF IInv, TypeOK
  <1>3. \A j \in 1..Len(queue') : state'[queue'[j]] # "out"
    BY <1>1, <1>2 DEF IInv, QueueIsWaiters, Queued
  <1>4. ASSUME NEW u \in Threads, state'[u] \in {"blocked", "blocked_tmo"},
               u # queue[i]
        PROVE  Queued(u)'
    BY <1>2, <1>4, Taken DEF IInv, QueueIsWaiters
  <1>5. state'[queue[i]] \notin {"blocked", "blocked_tmo"}
    BY Taken DEF IInv, TypeOK
  <1>6. QED
    BY <1>3, <1>4, <1>5, Taken DEF QueueIsWaiters

\* A release hands one unit to the thread it takes from the queue.
LEMMA ReleasePreserves ==
    ASSUME IInv, Release
    PROVE  IInv'
  <1>1. CASE ReleaseWaiter
    <2>1. PICK i \in 1..Len(queue) :
            /\ queue' = Without(queue, i)
            /\ state' = [state EXCEPT ![queue[i]] = "running"]
      BY <1>1 DEF ReleaseWaiter
    <2> DEFINE t == queue[i]
    <2>2. owed' = owed + 1 /\ count' = count /\ t \in Threads
      BY <1>1, <2>1, Taken DEF ReleaseWaiter
    <2>3. QueueIsWaiters'
      BY <2>1, TakenKeepsQueue
    <2>4. TypeOK' /\ QueuedAtZero'
      <3>1. queue' \in Seq(Threads) /\ queue # << >>
        BY <2>1, Taken
      <3>2. state' \in [Threads -> {"out"} \cup InWait]
        BY <2>1, <2>2 DEF IInv, TypeOK, InWait
      <3>3. QED
        BY <2>2, <3>1, <3>2, SMT DEF IInv, TypeOK, QueuedAtZero
    <2>5. t \notin Handed /\ Handed' = Handed \cup {t}
      <3>1. t \notin Handed
        BY <2>1, Taken DEF Handed
      <3>2. t \in Handed'
        BY <2>1, <2>2, Taken DEF Handed, IInv, TypeOK
      <3>3. \A u \in Threads : u # t => (u \in Handed' <=> u \in Handed)
        BY <2>1, <2>2, Taken DEF Handed, IInv, TypeOK
      <3>4. Handed \subseteq Threads /\ Handed' \subseteq Threads
        BY DEF Handed
      <3>5. QED
        BY <2>2, <3>1, <3>2, <3>3, <3>4
    <2>6. Cardinality(Handed') = Cardinality(Handed) + 1
      BY <2>5, HandedFacts, FS_AddElement
    <2>7. NothingLost'
      BY <2>2, <2>6, HandedFacts, SMT DEF IInv, TypeOK, NothingLost
    <2>8. QED
      BY <2>3, <2>4, <2>7 DEF IInv
  <1>2. CASE ReleaseUp
    <2>1. Handed' = Handed
      BY <1>2 DEF ReleaseUp, Handed, Queued
    <2>2. TypeOK' /\ QueuedAtZero'
      BY <1>2, SemAssumption, SMT
      DEF IInv, TypeOK, ReleaseUp, HasWaiter, Room, QueuedAtZero
    <2>3. NothingLost'
      BY <1>2, <2>1, HandedFacts, SMT
      DEF IInv, TypeOK, ReleaseUp, NothingLost
    <2>4. QueueIsWaiters'
      BY <1>2 DEF IInv, ReleaseUp, QueueIsWaiters, Queued
    <2>5. QED
      BY <2>2, <2>3, <2>4 DEF IInv
  <1>3. QED
    BY <1>1, <1>2 DEF Release

\* A thread that returns takes what it was handed; if its wait expired it takes
\* itself out of the queue and finds nothing, because the count is 0.
LEMMA ResumePreserves ==
    ASSUME IInv, NEW t \in Threads, Resume(t)
    PROVE  IInv'
  <1>1. state' = [state EXCEPT ![t] = "out"] /\ state[t] = "running"
    BY DEF Resume
  <1>2. state' \in [Threads -> {"out"} \cup InWait]
    BY <1>1 DEF IInv, TypeOK, InWait
  <1>3. CASE ~Queued(t)
    <2>1. owed' = owed - 1 /\ UNCHANGED <<count, queue>>
      BY <1>3 DEF Resume, StillQueued
    <2>2. t \in Handed /\ Handed' = Handed \ {t}
      <3>1. t \in Handed /\ t \notin Handed'
        BY <1>1, <1>3 DEF Handed, IInv, TypeOK
      <3>2. \A u \in Threads : u # t => (u \in Handed' <=> u \in Handed)
        BY <1>1, <2>1 DEF Handed, IInv, TypeOK, Queued
      <3>3. Handed \subseteq Threads /\ Handed' \subseteq Threads
        BY DEF Handed
      <3>4. QED
        BY <3>1, <3>2, <3>3
    <2>3. Cardinality(Handed') = Cardinality(Handed) - 1
      BY <2>2, HandedFacts, FS_RemoveElement
    <2>4. TypeOK' /\ QueuedAtZero'
      BY <1>2, <2>1, SMT DEF IInv, TypeOK, QueuedAtZero
    <2>5. NothingLost'
      BY <2>1, <2>3, HandedFacts, SMT DEF IInv, TypeOK, NothingLost
    <2>6. QueueIsWaiters'
      <3>1. \A i \in 1..Len(queue) : queue[i] \in Threads /\ queue[i] # t
        BY <1>3, QueueFacts DEF IInv, TypeOK, Queued
      <3>2. \A u \in Threads : u # t => state'[u] = state[u]
        BY <1>1 DEF IInv, TypeOK
      <3>3. state'[t] = "out"
        BY <1>1 DEF IInv, TypeOK
      <3>4. QED
        BY <2>1, <3>1, <3>2, <3>3 DEF IInv, QueueIsWaiters, Queued
    <2>7. QED
      BY <2>4, <2>5, <2>6 DEF IInv
  <1>4. CASE Queued(t)
    <2>1. PICK i \in 1..Len(queue) :
            queue[i] = t /\ queue' = Without(queue, i)
      BY <1>4 DEF Resume, StillQueued, Unlink
    <2>2. queue # << >> /\ count = 0
      BY <2>1, Taken DEF IInv, QueuedAtZero
    <2>3. UNCHANGED <<count, owed>>
      BY <1>4, <2>2, SMT DEF Resume, StillQueued
    <2>4. Handed' = Handed
      <3>1. t \notin Handed /\ t \notin Handed'
        BY <1>1, <1>4 DEF Handed, IInv, TypeOK
      <3>2. \A u \in Threads : u # t => (u \in Handed' <=> u \in Handed)
        BY <1>1, <2>1, Taken DEF Handed, IInv, TypeOK
      <3>3. Handed \subseteq Threads /\ Handed' \subseteq Threads
        BY DEF Handed
      <3>4. QED
        BY <3>1, <3>2, <3>3
    <2>5. TypeOK' /\ QueuedAtZero'
      <3>1. queue' \in Seq(Threads)
        BY <2>1, Taken
      <3>2. QED
        BY <1>2, <2>2, <2>3, <3>1 DEF IInv, TypeOK, QueuedAtZero
    <2>6. NothingLost'
      BY <2>3, <2>4 DEF IInv, NothingLost
    <2>7. QueueIsWaiters'
      BY <1>1, <2>1, TakenKeepsQueue
    <2>8. QED
      BY <2>5, <2>6, <2>7 DEF IInv
  <1>5. QED
    BY <1>3, <1>4

-------------------------------------------------------------------------------
\* The inductive invariant of the semaphore, for every finite set of threads,
\* every maximum and every order of waits, releases and timeouts.
THEOREM Invariance == Spec => []IInv
  <1>1. IInv /\ [Next]_vars => IInv'
    <2> SUFFICES ASSUME IInv, [Next]_vars PROVE IInv'
      OBVIOUS
    <2>1. CASE Next
      BY <2>1, ReleasePreserves, WaitTakePreserves, WaitBlockPreserves,
         ExpirePreserves, ResumePreserves DEF Next
    <2>2. CASE UNCHANGED vars
      BY <2>2
      DEF vars, IInv, TypeOK, QueuedAtZero, NothingLost, QueueIsWaiters,
          Handed, Queued
    <2>3. QED
      BY <2>1, <2>2
  <1>2. QED
    BY InitEstablishes, <1>1, PTL DEF Spec

\* No release is lost, and none serves two waits.
THEOREM ReleasesConserved == Spec => []NothingLost
  <1>1. IInv => NothingLost
    BY DEF IInv
  <1>2. QED
    BY Invariance, <1>1, PTL

\* The KERNEL_ASSERT of semaphore_release never fires.
THEOREM AssertionHolds == Spec => []QueuedAtZero
  <1>1. IInv => QueuedAtZero
    BY DEF IInv
  <1>2. QED
    BY Invariance, <1>1, PTL

\* A blocked thread can always be found by a release.
THEOREM WaitersAreQueued == Spec => []QueueIsWaiters
  <1>1. IInv => QueueIsWaiters
    BY DEF IInv
  <1>2. QED
    BY Invariance, <1>1, PTL

\* A queued thread leaves the queue in two ways only: it is the oldest and a
\* release takes it, or its wait expired and it unlinks itself.
LEMMA LeavesQueue ==
    ASSUME IInv, Next, NEW u \in Threads, Queued(u), ~Queued(u)'
    PROVE  queue[1] = u \/ state'[u] = "out"
  <1>1. CASE Release
    <2>1. ReleaseWaiter
      BY <1>1 DEF Release, ReleaseUp, Queued
    <2>2. PICK i \in 1..Len(queue) : i = 1 /\ queue' = Without(queue, i)
      BY <2>1 DEF ReleaseWaiter, Pick
    <2>3. QED
      BY <2>2, Taken
  <1>2. CASE \E t \in Threads : \/ WaitTake(t) \/ Expire(t)
                                \/ WaitBlock(t, "blocked")
                                \/ WaitBlock(t, "blocked_tmo")
    <2>1. ASSUME NEW t \in Threads, queue' = Append(queue, t)
          PROVE  Queued(u)'
      BY <2>1, AppendFacts, SMT DEF IInv, TypeOK, Queued
    <2>2. queue' = queue \/ \E t \in Threads : queue' = Append(queue, t)
      BY <1>2 DEF WaitTake, Expire, WaitBlock
    <2>3. QED
      BY <2>1, <2>2 DEF Queued
  <1>3. CASE \E t \in Threads : Resume(t)
    <2>1. PICK t \in Threads : Resume(t)
      BY <1>3
    <2>2. CASE Queued(t)
      <3>1. PICK i \in 1..Len(queue) :
              queue[i] = t /\ queue' = Without(queue, i)
        BY <2>1, <2>2 DEF Resume, StillQueued, Unlink
      <3>2. u = t
        BY <3>1, Taken
      <3>3. QED
        BY <2>1, <3>2 DEF Resume, IInv, TypeOK
    <2>3. CASE ~Queued(t)
      BY <2>1, <2>3 DEF Resume, StillQueued, Queued
    <2>4. QED
      BY <2>2, <2>3
  <1>4. QED
    BY <1>1, <1>2, <1>3 DEF Next

\* The state of the semaphore stays what its type says: the count never passes
\* the maximum or drops below 0.
THEOREM TypeCorrect == Spec => []TypeOK
  <1>1. IInv => TypeOK
    BY DEF IInv
  <1>2. QED
    BY Invariance, <1>1, PTL

\* No release overtakes: a thread behind another in the queue is handed nothing
\* while that other one still waits there.
THEOREM ServedInOrder == Spec => FirstComeFirstServed
  <1> DEFINE Step == \A t, u \in Threads :
                        u \in Handed' /\ (\E i, j \in 1..Len(queue) :
                               i < j /\ queue[i] = t /\ queue[j] = u)
                          => ~Queued(t)'
  <1>1. IInv /\ [Next]_vars => [Step]_vars
    <2> SUFFICES ASSUME IInv, Next, NEW t \in Threads, NEW u \in Threads,
                        u \in Handed',
                        NEW i \in 1..Len(queue), NEW j \in 1..Len(queue),
                        i < j, queue[i] = t, queue[j] = u
                 PROVE  FALSE
      OBVIOUS
    <2>1. Queued(u) /\ ~Queued(u)' /\ state'[u] = "running"
      BY DEF Queued, Handed
    <2>2. queue[1] = u
      BY <2>1, LeavesQueue
    <2>3. 1 \in 1..Len(queue) /\ Len(queue) \in Nat
      BY QueueFacts, SMT DEF IInv, TypeOK
    <2>4. j = 1
      BY <2>2, <2>3 DEF IInv, QueueIsWaiters
    <2>5. QED
      BY <2>3, <2>4, SMT
  <1>2. QED
    BY Invariance, <1>1, PTL DEF Spec, FirstComeFirstServed
===============================================================================
