--------------------------- MODULE MrswLock_proofs ---------------------------
(***************************************************************************)
(* Machine-checked proofs about MrswLock, for any finite set of threads    *)
(* and any nesting of claims.  IInv is inductive: exclusion alone is not,  *)
(* because a release trusts count, mask and owner, so that they have to    *)
(* agree with the claims the callers hold; and a wake trusts the queue to  *)
(* hold only threads without a claim.                                      *)
(***************************************************************************)
EXTENDS MrswLock, Integers, Sequences, FiniteSets, SequencesExt,
        FiniteSetTheorems, SequenceTheorems, TLAPS

-------------------------------------------------------------------------------
\* Lists: what the operations on them do to what is in them.

\* A thread that joins a queue is its last.
LEMMA AppendFacts ==
    ASSUME NEW S, NEW q \in Seq(S), NEW t \in S
    PROVE  /\ Append(q, t) \in Seq(S)
           /\ Len(q) \in Nat
           /\ Append(q, t) # << >>
           /\ Len(Append(q, t)) = Len(q) + 1
           /\ \A i \in 1..Len(q) : Append(q, t)[i] = q[i]
           /\ Append(q, t)[Len(q) + 1] = t
           /\ q # << >> => Head(Append(q, t)) = Head(q) /\ Len(q) > 0
           /\ q = << >> => Head(Append(q, t)) = t /\ Len(q) = 0
  BY AppendProperties, LenProperties, EmptySeq, SMT

\* What is left of a queue whose first n are taken.
LEMMA UnqueueFacts ==
    ASSUME NEW S, NEW q \in Seq(S), NEW n \in 1..Len(q)
    PROVE  /\ SubSeq(q, n + 1, Len(q)) \in Seq(S)
           /\ Len(q) \in Nat
           /\ Len(SubSeq(q, n + 1, Len(q))) = Len(q) - n
           /\ \A i \in 1..(Len(q) - n) : SubSeq(q, n + 1, Len(q))[i] = q[n + i]
           /\ SubSeq(q, n + 1, Len(q)) # << >> =>
                /\ n < Len(q)
                /\ Head(SubSeq(q, n + 1, Len(q))) = q[n + 1]
  <1>1. Len(q) \in Nat /\ \A i \in 1..Len(q) : q[i] \in S
    BY LenProperties, ElementOfSeq
  <1>2. /\ SubSeq(q, n + 1, Len(q)) \in Seq(S)
        /\ Len(SubSeq(q, n + 1, Len(q))) =
             IF n + 1 <= Len(q) THEN Len(q) - (n + 1) + 1 ELSE 0
        /\ \A i \in 1..(Len(q) - (n + 1) + 1) :
             SubSeq(q, n + 1, Len(q))[i] = q[(n + 1) + i - 1]
    BY <1>1, SubSeqProperties
  <1>3. SubSeq(q, n + 1, Len(q)) # << >> => n < Len(q)
    BY <1>1, <1>2, EmptySeq, SMT
  <1>4. QED
    BY <1>1, <1>2, <1>3, SMT

\* A queue's members and its head.
LEMMA QueueFacts ==
    ASSUME NEW S, NEW q \in Seq(S)
    PROVE  /\ Len(q) \in Nat
           /\ \A i \in 1..Len(q) : q[i] \in S
           /\ q # << >> => 1 \in 1..Len(q) /\ Head(q) = q[1]
  BY LenProperties, ElementOfSeq, EmptySeq, SMT

\* The first n threads of a queue without repetition are n threads.
PrefixSet(q, n) == {q[i] : i \in 1..n}

\* The first n of a queue are n threads.
LEMMA PrefixCardinality ==
    ASSUME NEW q, Len(q) \in Nat, NEW n \in 1..Len(q),
           \A i, j \in 1..Len(q) : q[i] = q[j] => i = j
    PROVE  IsFiniteSet(PrefixSet(q, n)) /\ Cardinality(PrefixSet(q, n)) = n
  <1> DEFINE f == [i \in 1..n |-> q[i]]
             W == PrefixSet(q, n)
  <1>1. Len(q) \in Nat /\ 1..n \subseteq 1..Len(q) /\ n \in Nat
    BY SMT
  <1>2. f \in [1..n -> W] /\ \A i, j \in 1..n : f[i] = f[j] => i = j
    BY <1>1 DEF PrefixSet
  <1>3. \A w \in W : \E i \in 1..n : f[i] = w
    BY DEF PrefixSet
  <1>4. f \in Bijection(1..n, W)
    BY <1>2, <1>3 DEF Bijection, Injection, Surjection, IsInjective
  <1>5. ExistsBijection(1..n, W)
    BY <1>4 DEF ExistsBijection
  <1>6. IsFiniteSet(1..n) /\ Cardinality(1..n) = n
    BY <1>1, FS_Interval, SMT
  <1>7. QED
    BY <1>5, <1>6, FS_Bijection

-------------------------------------------------------------------------------
\* A lock just initialised satisfies the invariant.
LEMMA InitEstablishes == Init => IInv
  <1> SUFFICES ASSUME Init PROVE IInv
    OBVIOUS
  <1>1. << >> \in Seq(Threads) /\ Len(<< >>) = 0
    BY EmptySeq
  <1>2. Cardinality({}) = 0
    BY FS_EmptySet
  <1>3. TypeOK
    BY <1>1, SMT DEF Init, TypeOK
  <1>4. WaitersHoldNothing
    BY <1>1 DEF Init, WaitersHoldNothing
  <1>5. QED
    BY <1>1, <1>2, <1>3, <1>4, SMT
    DEF Init, IInv, Exclusion, BooksAgree, OwnerIsSoleHolder, NoStranded

\* The parts of the state the calls of one thread start from.
LEMMA HolderFacts ==
    ASSUME IInv
    PROVE  /\ IsFiniteSet(mask) /\ Cardinality(mask) \in Nat
           /\ Cardinality(mask) = 0 <=> mask = {}
           /\ \A t \in Threads : t \in mask => count > 0
           /\ count < 0 => \A t \in Threads :
                              t # owner => reads[t] = 0 /\ writes[t] = 0
           /\ \A t \in Threads : writes[t] > 0 => count < 0 /\ owner = t
           /\ \A t \in Threads : reads[t] > 0 =>
                              t \in mask \/ (count < 0 /\ owner = t)
  <1>1. IsFiniteSet(mask)
    BY ThreadsAssumption, FS_Subset DEF IInv, TypeOK
  <1>2. Cardinality(mask) \in Nat /\ (Cardinality(mask) = 0 <=> mask = {})
    BY <1>1, FS_CardinalityType, FS_EmptySet
  <1>3. \A t \in Threads : t \in mask => count > 0
    BY <1>2, SMT DEF IInv, TypeOK, BooksAgree
  <1>4. \A t \in Threads : writes[t] > 0 => count < 0 /\ owner = t
    BY SMT DEF IInv, TypeOK, BooksAgree, Exclusion
  <1>5. count < 0 => \A t \in Threads :
                        t # owner => reads[t] = 0 /\ writes[t] = 0
    BY SMT DEF IInv, TypeOK, BooksAgree, Exclusion
  <1>6. \A t \in Threads : reads[t] > 0 =>
                        t \in mask \/ (count < 0 /\ owner = t)
    BY <1>5, SMT DEF IInv, TypeOK, BooksAgree
  <1>7. QED
    BY <1>1, <1>2, <1>3, <1>4, <1>5, <1>6

\* Steps that leave the queue alone give no claim to a blocked thread.
LEMMA WaitersStay ==
    ASSUME IInv, UNCHANGED <<queue, blocked>>,
           \A u \in blocked : reads'[u] = reads[u] /\ writes'[u] = writes[u]
    PROVE  WaitersHoldNothing'
  BY DEF IInv, WaitersHoldNothing

\* A thread that blocks holds nothing and joins the tail of the queue.
LEMMA BlockPreserves ==
    ASSUME IInv, NEW t \in Threads, NEW reader \in BOOLEAN,
           Running(t), Block(t, reader), reads[t] = 0, writes[t] = 0,
           count # 0, count > 0 /\ queue = << >> => ~reader
    PROVE  IInv'
  <1>1. TypeOK'
    BY AppendFacts, SMTT(30) DEF IInv, TypeOK, Block
  <1>2. Exclusion' /\ BooksAgree' /\ OwnerIsSoleHolder'
    BY SMT DEF IInv, Exclusion, BooksAgree, OwnerIsSoleHolder, Block
  <1>3. NoStranded'
    <2>1. CASE queue = << >>
      BY <2>1, AppendFacts, SMT DEF IInv, TypeOK, Block, NoStranded
    <2>2. CASE queue # << >>
      <3>1. Head(queue') = Head(queue) /\ Head(queue) # t
        BY <2>2, AppendFacts, QueueFacts, SMT
        DEF IInv, TypeOK, Block, Running, WaitersHoldNothing
      <3>2. QED
        BY <2>2, <3>1, SMT DEF IInv, TypeOK, Block, NoStranded
    <2>3. QED
      BY <2>1, <2>2
  <1>4. WaitersHoldNothing'
    <2> DEFINE n == Len(queue)
    <2>1. /\ n \in Nat /\ Len(queue') = n + 1
          /\ \A i \in 1..n : queue'[i] = queue[i]
          /\ queue'[n + 1] = t
      BY AppendFacts, SMT DEF IInv, TypeOK, Block
    <2>2. \A i \in 1..n : queue[i] # t
      BY DEF IInv, Running, WaitersHoldNothing
    <2>3. blocked' = {queue'[i] : i \in 1..(n + 1)}
      BY <2>1, SMT DEF IInv, WaitersHoldNothing, Block
    <2>4. \A i, j \in 1..(n + 1) : queue'[i] = queue'[j] => i = j
      BY <2>1, <2>2, SMT DEF IInv, WaitersHoldNothing
    <2>5. \A u \in blocked' : reads'[u] = 0 /\ writes'[u] = 0
      BY DEF IInv, WaitersHoldNothing, Block
    <2>6. QED
      BY <2>1, <2>3, <2>4, <2>5 DEF WaitersHoldNothing
  <1>5. QED
    BY <1>1, <1>2, <1>3, <1>4 DEF IInv

\* mrsw_read_acquire, nested, at once, or up to where it blocks.
LEMMA ReadAcquirePreserves ==
    ASSUME IInv, NEW t \in Threads, ReadAcquire(t)
    PROVE  IInv'
  <1>1. CASE ReadInWrite(t)
    <2>1. TypeOK'
      BY <1>1, SMT
      DEF IInv, TypeOK, ReadInWrite, lockVars, threadVars
    <2>2. Exclusion' /\ BooksAgree' /\ OwnerIsSoleHolder' /\ NoStranded'
      BY <1>1, SMT
      DEF IInv, TypeOK, ReadInWrite, WriterIs, lockVars, threadVars, Exclusion,
          BooksAgree, OwnerIsSoleHolder, NoStranded
    <2>3. WaitersHoldNothing'
      BY <1>1, WaitersStay
      DEF IInv, TypeOK, ReadAcquire, Running, ReadInWrite, lockVars, threadVars
    <2>4. QED
      BY <2>1, <2>2, <2>3 DEF IInv
  <1>2. CASE ReadAgain(t)
    <2>1. TypeOK'
      BY <1>2, SMTT(30) DEF IInv, TypeOK, ReadAgain, threadVars
    <2>2. count > 0 /\ reads[t] > 0
      BY <1>2, HolderFacts, SMT DEF IInv, TypeOK, BooksAgree, ReadAgain
    <2>3. Exclusion' /\ BooksAgree' /\ OwnerIsSoleHolder' /\ NoStranded'
      BY <1>2, <2>2, SMT
      DEF IInv, TypeOK, ReadAgain, threadVars, Exclusion,
          BooksAgree, OwnerIsSoleHolder, NoStranded
    <2>4. WaitersHoldNothing'
      BY <1>2, WaitersStay
      DEF IInv, TypeOK, ReadAcquire, Running, ReadAgain, threadVars
    <2>5. QED
      BY <2>1, <2>3, <2>4 DEF IInv
  <1>3. CASE ReadClaim(t)
    <2>1. TypeOK'
      BY <1>3, SMT DEF IInv, TypeOK, ReadClaim, threadVars
    <2>2. Cardinality(mask') = Cardinality(mask) + 1
      BY <1>3, HolderFacts, FS_AddElement DEF ReadClaim
    <2>3. Exclusion' /\ NoStranded' /\ BooksAgree'
      BY <1>3, <2>2, HolderFacts, SMT
      DEF IInv, TypeOK, ReadClaim, OpenToReaders, threadVars, Exclusion,
          BooksAgree, NoStranded
    <2>4. OwnerIsSoleHolder'
      BY <1>3, HolderFacts, SMT
      DEF IInv, TypeOK, ReadClaim, OpenToReaders, BooksAgree, OwnerIsSoleHolder
    <2>5. WaitersHoldNothing'
      BY <1>3, WaitersStay
      DEF IInv, TypeOK, ReadAcquire, Running, ReadClaim, threadVars
    <2>6. QED
      BY <2>1, <2>3, <2>4, <2>5 DEF IInv
  <1>4. CASE ReadBlock(t)
    <2>1. reads[t] = 0 /\ writes[t] = 0
      BY <1>4, HolderFacts, SMT DEF ReadBlock, WriterIs, IInv, TypeOK
    <2>2. count # 0 /\ (count > 0 => queue # << >>)
      BY <1>4, SMT DEF ReadBlock, OpenToReaders, IInv, TypeOK, NoStranded
    <2>3. Running(t) /\ Block(t, TRUE) /\ TRUE \in BOOLEAN
      BY <1>4 DEF ReadBlock, ReadAcquire
    <2>4. QED
      BY <2>1, <2>2, <2>3, BlockPreserves
  <1>5. QED
    BY <1>1, <1>2, <1>3, <1>4 DEF ReadAcquire

-------------------------------------------------------------------------------
\* The first n waiters leave the queue and the other waiters get nothing.
LEMMA WakePreservesWaiters ==
    ASSUME IInv, NEW n \in 1..Len(queue),
           queue' = Unqueue(n),
           blocked' = blocked \ {queue[i] : i \in 1..n},
           \A u \in blocked' : reads'[u] = reads[u] /\ writes'[u] = writes[u]
    PROVE  /\ queue' \in Seq(Threads)
           /\ WaitersHoldNothing'
           /\ queue' # << >> => n < Len(queue) /\ Head(queue') = queue[n + 1]
  <1> DEFINE m == Len(queue)
  <1>1. /\ queue' \in Seq(Threads)
        /\ m \in Nat /\ Len(queue') = m - n
        /\ \A i \in 1..(m - n) : queue'[i] = queue[n + i]
        /\ queue' # << >> => n < m /\ Head(queue') = queue[n + 1]
    BY UnqueueFacts, ZenonT(30) DEF Unqueue, IInv, TypeOK
  <1>2. /\ blocked = {queue[i] : i \in 1..m}
        /\ \A i, j \in 1..m : queue[i] = queue[j] => i = j
    BY DEF IInv, WaitersHoldNothing
  <1>3. blocked' = {queue'[i] : i \in 1..(m - n)}
    <2>1. ASSUME NEW u, u \in blocked' PROVE u \in {queue'[i] : i \in 1..(m - n)}
      <3>1. PICK k \in 1..m : u = queue[k]
        BY <2>1, <1>2
      <3>2. k \notin 1..n
        BY <2>1, <3>1
      <3>3. k - n \in 1..(m - n) /\ n + (k - n) = k
        BY <3>1, <3>2, <1>1, SMT
      <3>4. queue'[k - n] = u
        BY <3>1, <3>3, <1>1
      <3>5. QED
        BY <3>3, <3>4
    <2>2. ASSUME NEW k \in 1..(m - n) PROVE queue'[k] \in blocked'
      <3>1. n + k \in 1..m /\ n + k \notin 1..n /\ queue'[k] = queue[n + k]
        BY <1>1, SMT
      <3>2. queue[n + k] \in blocked
        BY <3>1, <1>2
      <3>3. \A i \in 1..n : i \in 1..m /\ i # n + k
        BY <1>1, SMT
      <3>4. queue[n + k] \notin {queue[i] : i \in 1..n}
        BY <3>1, <3>3, <1>2
      <3>5. QED
        BY <3>1, <3>2, <3>4
    <2>3. QED
      BY <2>1, <2>2
  <1>4. \A i, j \in 1..(m - n) : queue'[i] = queue'[j] => i = j
    <2>1. \A i \in 1..(m - n) : n + i \in 1..m
      BY <1>1, SMT
    <2>2. ASSUME NEW i \in 1..(m - n), NEW j \in 1..(m - n),
                 queue'[i] = queue'[j]
          PROVE  i = j
      <3>1. n + i = n + j
        BY <2>1, <2>2, <1>1, <1>2
      <3>2. QED
        BY <3>1, <1>1, SMT
    <2>3. QED
      BY <2>2
  <1>5. \A u \in blocked' : reads'[u] = 0 /\ writes'[u] = 0
    BY DEF IInv, WaitersHoldNothing
  <1>6. QED
    BY <1>1, <1>3, <1>4, <1>5 DEF WaitersHoldNothing

\* A release hands the lock to the writer at the head of the queue, which
\* holds the only claim from then on.
LEMMA HandOverPreserves ==
    ASSUME IInv, queue # << >>,
           queue' = Unqueue(1), blocked' = blocked \ {Head(queue)},
           owner' = Head(queue), count' = -1, mask' = {},
           rdrecursion' = rdrecursion, \A u \in Threads : rdrecursion[u] = 0,
           multi' = multi,
           reads' \in [Threads -> Nat], writes' \in [Threads -> Nat],
           \A u \in Threads : /\ reads'[u] = 0
                              /\ writes'[u] = IF u = Head(queue) THEN 1 ELSE 0
    PROVE  IInv'
  <1>1. /\ 1 \in 1..Len(queue) /\ Head(queue) = queue[1]
        /\ Head(queue) \in Threads
        /\ {queue[i] : i \in 1..1} = {Head(queue)}
    BY QueueFacts, SMT DEF IInv, TypeOK
  <1>2. \A u \in blocked' : reads'[u] = reads[u] /\ writes'[u] = writes[u]
    BY <1>1 DEF IInv, TypeOK, WaitersHoldNothing
  <1>3. queue' \in Seq(Threads) /\ WaitersHoldNothing'
    BY <1>1, <1>2, WakePreservesWaiters
  <1>4. TypeOK'
    BY <1>1, <1>3, SMT DEF IInv, TypeOK
  <1>5. Exclusion' /\ BooksAgree' /\ OwnerIsSoleHolder' /\ NoStranded'
    BY <1>1, SMT
    DEF IInv, TypeOK, Exclusion, BooksAgree, OwnerIsSoleHolder, NoStranded
  <1>6. QED
    BY <1>3, <1>4, <1>5 DEF IInv

\* mrsw_read_release, with the handover to a writer.
LEMMA ReadReleasePreserves ==
    ASSUME IInv, NEW t \in Threads, ReadRelease(t)
    PROVE  IInv'
  <1>1. CASE ReadReleaseInWrite(t)
    <2>1. TypeOK'
      BY <1>1, SMT
      DEF IInv, TypeOK, ReadRelease, ReadReleaseInWrite, lockVars, threadVars
    <2>2. Exclusion' /\ BooksAgree' /\ OwnerIsSoleHolder' /\ NoStranded'
      BY <1>1, SMT
      DEF IInv, TypeOK, ReadRelease, ReadReleaseInWrite, WriterIs, lockVars,
          threadVars, Exclusion, BooksAgree, OwnerIsSoleHolder, NoStranded
    <2>3. WaitersHoldNothing'
      BY <1>1, WaitersStay
      DEF IInv, TypeOK, ReadRelease, Running, ReadReleaseInWrite, lockVars,
          threadVars
    <2>4. QED
      BY <2>1, <2>2, <2>3 DEF IInv
  <1>2. CASE ReadReleaseAgain(t)
    <2>1. TypeOK'
      BY <1>2, SMTT(30)
      DEF IInv, TypeOK, ReadRelease, ReadReleaseAgain, Nested, threadVars
    <2>2. count > 0 /\ reads[t] > 1
      BY <1>2, HolderFacts, SMT
      DEF IInv, TypeOK, BooksAgree, ReadReleaseAgain, Nested
    <2>3. Exclusion' /\ BooksAgree' /\ OwnerIsSoleHolder' /\ NoStranded'
      BY <1>2, <2>2, SMT
      DEF IInv, TypeOK, ReadReleaseAgain, threadVars, Exclusion, BooksAgree,
          OwnerIsSoleHolder, NoStranded
    <2>4. WaitersHoldNothing'
      BY <1>2, WaitersStay
      DEF IInv, TypeOK, ReadRelease, Running, ReadReleaseAgain, threadVars
    <2>5. QED
      BY <2>1, <2>3, <2>4 DEF IInv
  <1>3. CASE ReadReleaseToWriter(t)
    <2>1. count = 1 /\ mask = {t} /\ queue # << >> /\ reads[t] = 1
      BY <1>3, SMT
      DEF IInv, TypeOK, ReadReleaseToWriter, LastReader, Nested, BooksAgree,
          OwnerIsSoleHolder
    <2>2. Head(queue) \in Threads /\ Head(queue) \in blocked /\ Head(queue) # t
      BY <1>3, <2>1, QueueFacts
      DEF IInv, TypeOK, ReadRelease, Running, WaitersHoldNothing
    <2>3. \A u \in Threads : /\ rdrecursion[u] = 0
                             /\ u # t => reads[u] = 0
                             /\ writes[u] = 0
      BY <1>3, <2>1, SMT
      DEF IInv, TypeOK, ReadReleaseToWriter, Nested, BooksAgree
    <2>4. /\ reads' \in [Threads -> Nat] /\ writes' \in [Threads -> Nat]
          /\ \A u \in Threads : /\ reads'[u] = 0
                                /\ writes'[u] = IF u = Head(queue) THEN 1 ELSE 0
      BY <1>3, <2>1, <2>2, <2>3, SMT DEF IInv, TypeOK, ReadReleaseToWriter
    <2>5. /\ queue' = Unqueue(1) /\ blocked' = blocked \ {Head(queue)}
          /\ owner' = Head(queue) /\ count' = -1 /\ mask' = {}
          /\ rdrecursion' = rdrecursion /\ multi' = multi
      BY <1>3, <2>1 DEF ReadReleaseToWriter, MaskWithout
    <2>6. QED
      BY <2>1, <2>3, <2>4, <2>5, HandOverPreserves
  <1>4. CASE ReadRelinquish(t)
    <2>1. /\ count > 0 /\ reads[t] = 1 /\ t \in mask
          /\ \A u \in Threads : writes[u] = 0
          /\ mask = {u \in Threads : reads[u] > 0} /\ count = Cardinality(mask)
      BY <1>4, HolderFacts, SMT
      DEF IInv, TypeOK, ReadRelinquish, Nested, BooksAgree
    <2>2. IsFiniteSet(mask') /\ Cardinality(mask') = count - 1
      BY <1>4, <2>1, HolderFacts, FS_RemoveElement
      DEF ReadRelinquish, MaskWithout
    <2>3. /\ count - 1 = 0 => mask' = {}
          /\ count - 1 = 1 => mask' = {CHOOSE u \in mask' : TRUE}
      <3>1. count - 1 = 0 => mask' = {}
        BY <2>2, FS_EmptySet
      <3>2. ASSUME count - 1 = 1 PROVE mask' = {CHOOSE u \in mask' : TRUE}
        <4>1. PICK x : mask' = {x}
          BY <2>2, <3>2, FS_Singleton
        <4>2. QED
          BY <4>1
      <3>3. QED
        BY <3>1, <3>2
    <2>4. owner' = SoleRemaining(count - 1, mask') /\ count' = count - 1
      BY <1>4 DEF ReadRelinquish
    <2>5. mask' \subseteq Threads /\ TypeOK'
      <3>1. mask' \subseteq Threads
        BY <1>4 DEF IInv, TypeOK, ReadRelinquish, MaskWithout
      <3>2. owner' \in Threads \cup {NoThread}
        BY <2>1, <2>3, <2>4, <3>1, SMT DEF IInv, TypeOK, SoleRemaining
      <3>3. QED
        BY <1>4, <2>1, <3>1, <3>2, SMT
        DEF IInv, TypeOK, ReadRelinquish, threadVars
    <2>6. OwnerIsSoleHolder'
      <3>1. /\ count' = 0 => owner' = NoThread
            /\ count' = 1 => owner' = CHOOSE u \in mask' : TRUE
            /\ count' > 1 => owner' = owner
        BY <2>1, <2>4, SMT DEF IInv, TypeOK, SoleRemaining
      <3>2. count' > 1 => owner = NoThread
        BY <2>4, SMT DEF IInv, TypeOK, OwnerIsSoleHolder
      <3>3. count' = 1 => mask' = {CHOOSE u \in mask' : TRUE}
        BY <2>3, <2>4
      <3>4. QED
        BY <3>1, <3>2, <3>3 DEF OwnerIsSoleHolder
    <2>7. BooksAgree'
      <3>1. mask' = {u \in Threads : reads'[u] > 0}
        <4>1. \A u \in Threads : u \in mask' <=> reads'[u] > 0
          BY <1>4, <2>1, SMT DEF IInv, TypeOK, ReadRelinquish, MaskWithout
        <4>2. QED
          BY <4>1, <2>5
      <3>2. writes' = writes /\ rdrecursion' = rdrecursion /\ rdrecursion[t] = 0
        BY <1>4, SMT DEF IInv, TypeOK, ReadRelinquish, Nested
      <3>3. \A u \in mask' : reads'[u] = rdrecursion'[u] + 1
        BY <1>4, <3>2, SMT
        DEF IInv, TypeOK, ReadRelinquish, MaskWithout, BooksAgree
      <3>4. \A u \in Threads \ mask' : rdrecursion'[u] = 0
        BY <1>4, <3>2, SMT
        DEF IInv, TypeOK, ReadRelinquish, MaskWithout, BooksAgree
      <3>5. ~(count' < 0) /\ count' = Cardinality(mask')
        BY <2>1, <2>2, <2>4, SMT DEF IInv, TypeOK
      <3>6. QED
        BY <2>1, <3>1, <3>2, <3>3, <3>4, <3>5 DEF BooksAgree
    <2>8. Exclusion' /\ NoStranded'
      BY <1>4, <2>1, SMT
      DEF IInv, TypeOK, ReadRelinquish, LastReader, threadVars, Exclusion,
          NoStranded
    <2>9. WaitersHoldNothing'
      BY <1>4, WaitersStay
      DEF IInv, TypeOK, ReadRelease, Running, ReadRelinquish, threadVars
    <2>10. QED
      BY <2>5, <2>6, <2>7, <2>8, <2>9 DEF IInv
  <1>5. QED
    BY <1>1, <1>2, <1>3, <1>4 DEF ReadRelease

\* mrsw_write_acquire, nested, at once, or up to where it blocks.
LEMMA WriteAcquirePreserves ==
    ASSUME IInv, NEW t \in Threads, WriteAcquire(t)
    PROVE  IInv'
  <1> USE DEF WriteAcquire, RequestWrite
  <1>1. CASE WriteAgain(t)
    <2>1. count < 0 /\ writes[t] = -count
      <3>1. owner = t /\ t # NoThread
        BY <1>1, ThreadsAssumption DEF WriteAgain
      <3>2. count # 0 /\ ~(count > 1)
        BY <3>1, SMT DEF IInv, OwnerIsSoleHolder
      <3>3. count # 1
        BY <3>1, SMT DEF IInv, TypeOK, OwnerIsSoleHolder, BooksAgree
      <3>4. QED
        BY <3>1, <3>2, <3>3, SMT DEF IInv, TypeOK, BooksAgree
    <2>2. TypeOK'
      BY <1>1, SMT DEF IInv, TypeOK, WriteAgain, threadVars
    <2>3. Exclusion' /\ BooksAgree' /\ OwnerIsSoleHolder' /\ NoStranded'
      BY <1>1, <2>1, SMT
      DEF IInv, TypeOK, WriteAgain, threadVars, Exclusion, BooksAgree,
          OwnerIsSoleHolder, NoStranded
    <2>4. WaitersHoldNothing'
      BY <1>1, WaitersStay DEF IInv, TypeOK, Running, WriteAgain, threadVars
    <2>5. QED
      BY <2>2, <2>3, <2>4 DEF IInv
  <1>2. CASE WriteClaim(t)
    <2>1. \A u \in Threads : /\ u \notin mask /\ writes[u] = 0
                             /\ reads[u] = 0 /\ rdrecursion[u] = 0
      BY <1>2, HolderFacts, SMTT(30) DEF IInv, TypeOK, WriteClaim, BooksAgree
    <2>2. TypeOK'
      BY <1>2, SMT DEF IInv, TypeOK, WriteClaim, threadVars
    <2>3. Exclusion' /\ BooksAgree' /\ OwnerIsSoleHolder' /\ NoStranded'
      BY <1>2, <2>1, SMT
      DEF IInv, TypeOK, WriteClaim, threadVars, Exclusion, BooksAgree,
          OwnerIsSoleHolder, NoStranded
    <2>4. WaitersHoldNothing'
      BY <1>2, WaitersStay DEF IInv, TypeOK, Running, WriteClaim, threadVars
    <2>5. QED
      BY <2>2, <2>3, <2>4 DEF IInv
  <1>3. CASE WriteBlock(t)
    <2>1. writes[t] = 0
      BY <1>3, HolderFacts, SMT DEF IInv, TypeOK, WriteBlock
    <2>2. reads[t] = 0
      BY <2>1, SMT DEF IInv, TypeOK
    <2>3. /\ Running(t) /\ Block(t, FALSE) /\ FALSE \in BOOLEAN /\ count # 0
      BY <1>3 DEF WriteBlock
    <2>4. QED
      BY <2>1, <2>2, <2>3, BlockPreserves
  <1>4. QED
    BY <1>1, <1>2, <1>3

\* mrsw_write_release, with the handover to a writer or to readers.
LEMMA WriteReleasePreserves ==
    ASSUME IInv, NEW t \in Threads, WriteRelease(t)
    PROVE  IInv'
  <1>1. /\ count < 0 /\ owner = t /\ writes[t] = -count /\ mask = {}
        /\ t \notin blocked
        /\ \A u \in Threads : rdrecursion[u] = 0
        /\ \A u \in Threads : u # t => reads[u] = 0 /\ writes[u] = 0
    BY HolderFacts, SMT
    DEF IInv, TypeOK, BooksAgree, WriteRelease, Running
  <1>2. CASE WriteReleaseAgain(t)
    <2>1. TypeOK'
      BY <1>1, <1>2, SMT DEF IInv, TypeOK, WriteReleaseAgain, threadVars
    <2>2. Exclusion' /\ BooksAgree' /\ OwnerIsSoleHolder' /\ NoStranded'
      BY <1>1, <1>2, SMT
      DEF IInv, TypeOK, WriteReleaseAgain, threadVars, Exclusion, BooksAgree,
          OwnerIsSoleHolder, NoStranded
    <2>3. WaitersHoldNothing'
      BY <1>1, <1>2, WaitersStay DEF IInv, TypeOK, WriteReleaseAgain, threadVars
    <2>4. QED
      BY <2>1, <2>2, <2>3 DEF IInv
  <1>4. CASE WriteReleaseFree(t)
    <2>1. reads[t] = 0 /\ writes[t] = 1
      BY <1>1, <1>4, SMT DEF IInv, TypeOK, WriteRelease, WriteReleaseFree
    <2>2. TypeOK'
      BY <1>4, <2>1, SMT DEF IInv, TypeOK, WriteReleaseFree, threadVars
    <2>3. \A u \in Threads : reads'[u] = 0 /\ writes'[u] = 0
      BY <1>1, <1>4, <2>1, SMT DEF IInv, TypeOK, WriteReleaseFree, threadVars
    <2>4. Exclusion' /\ BooksAgree' /\ OwnerIsSoleHolder' /\ NoStranded'
      BY <1>1, <1>4, <2>2, <2>3, FS_EmptySet, SMT
      DEF TypeOK, WriteReleaseFree, Exclusion, BooksAgree,
          OwnerIsSoleHolder, NoStranded
    <2>5. WaitersHoldNothing'
      BY <1>1, <1>4, WaitersStay DEF IInv, TypeOK, WriteReleaseFree, threadVars
    <2>6. QED
      BY <2>2, <2>4, <2>5 DEF IInv
  <1>5. CASE WriteReleaseToWriter(t)
    <2>1. reads[t] = 0 /\ writes[t] = 1 /\ count = -1 /\ queue # << >>
      BY <1>1, <1>5, SMT DEF IInv, TypeOK, WriteRelease, WriteReleaseToWriter
    <2>2. Head(queue) \in Threads /\ Head(queue) # t
      BY <1>1, <2>1, QueueFacts DEF IInv, TypeOK, WaitersHoldNothing
    <2>3. /\ reads' \in [Threads -> Nat] /\ writes' \in [Threads -> Nat]
          /\ \A u \in Threads : /\ reads'[u] = 0
                                /\ writes'[u] = IF u = Head(queue) THEN 1 ELSE 0
      BY <1>1, <1>5, <2>1, <2>2, SMTT(30) DEF IInv, TypeOK, WriteReleaseToWriter
    <2>4. /\ queue' = Unqueue(1) /\ blocked' = blocked \ {Head(queue)}
          /\ owner' = Head(queue) /\ count' = -1 /\ mask' = {}
          /\ rdrecursion' = rdrecursion /\ multi' = multi
      BY <1>1, <1>5, <2>1 DEF WriteReleaseToWriter
    <2>5. QED
      BY <1>1, <2>1, <2>3, <2>4, HandOverPreserves
  <1>6. CASE WriteReleaseToReaders(t)
    <2> DEFINE woken(n) == {queue[i] : i \in 1..n}
    <2>1. PICK n \in 1..Len(queue) :
            /\ LeadingReaders(n)
            /\ count' = n
            /\ mask' = mask \cup woken(n)
            /\ owner' = IF n = 1 THEN Head(queue) ELSE NoThread
            /\ queue' = Unqueue(n)
            /\ blocked' = blocked \ woken(n)
            /\ reads' = [u \in Threads |-> IF u \in woken(n) THEN 1 ELSE reads[u]]
      BY <1>6 DEF WriteReleaseToReaders
    <2> DEFINE W == {queue[i] : i \in 1..n}
    <2>2. /\ writes' = [writes EXCEPT ![t] = @ - 1]
          /\ rdrecursion' = rdrecursion /\ multi' = multi
          /\ queue # << >>
      BY <1>6 DEF WriteReleaseToReaders
    <2>3. reads[t] = 0 /\ writes[t] = 1
      BY <1>1, <1>6, SMT DEF IInv, TypeOK, WriteRelease, WriteReleaseToReaders
    <2>4. /\ Len(queue) \in Nat /\ n \in Nat /\ n > 0
          /\ 1..n \subseteq 1..Len(queue) /\ Head(queue) = queue[1]
          /\ \A i \in 1..Len(queue) : queue[i] \in Threads
      BY <2>2, QueueFacts, SMTT(30) DEF IInv, TypeOK
    <2>5. W \subseteq Threads /\ W \subseteq blocked /\ t \notin W
      BY <1>1, <2>4 DEF IInv, WaitersHoldNothing
    <2>6. mask' = W /\ IsFiniteSet(W) /\ Cardinality(W) = n
      <3>1. \A i, j \in 1..Len(queue) : queue[i] = queue[j] => i = j
        BY DEF IInv, WaitersHoldNothing
      <3>2. IsFiniteSet(PrefixSet(queue, n)) /\ Cardinality(PrefixSet(queue, n)) = n
        BY <2>4, <3>1, PrefixCardinality
      <3>3. W = PrefixSet(queue, n)
        BY DEF PrefixSet
      <3>4. QED
        BY <1>1, <2>1, <3>2, <3>3
    <2>7. \A u \in Threads : /\ reads'[u] = IF u \in W THEN 1 ELSE 0
                             /\ writes'[u] = 0
      BY <1>1, <2>1, <2>2, <2>3, SMT DEF IInv, TypeOK
    <2>8. /\ queue' \in Seq(Threads)
          /\ WaitersHoldNothing'
          /\ queue' # << >> => n < Len(queue) /\ Head(queue') = queue[n + 1]
      <3>1. blocked' = blocked \ W /\ queue' = Unqueue(n)
        BY <2>1
      <3>2. \A u \in blocked' : reads'[u] = reads[u] /\ writes'[u] = writes[u]
        BY <1>1, <2>5, <2>7, <3>1 DEF IInv, TypeOK, WaitersHoldNothing
      <3>3. QED
        BY <3>1, <3>2, WakePreservesWaiters
    <2>9. TypeOK'
      <3>1. reads' \in [Threads -> Nat] /\ writes' \in [Threads -> Nat]
        BY <2>1, <2>2, <2>3, SMT DEF IInv, TypeOK
      <3>2. owner' \in Threads \cup {NoThread} /\ count' \in Int
        BY <2>1, <2>4, SMT
      <3>3. QED
        BY <2>1, <2>2, <2>5, <2>6, <2>8, <3>1, <3>2 DEF IInv, TypeOK
    <2>10. Exclusion'
      BY <2>7, SMT DEF Exclusion
    <2>11. BooksAgree'
      <3>1. mask' = {u \in Threads : reads'[u] > 0}
        <4>1. \A u \in Threads : u \in mask' <=> reads'[u] > 0
          BY <2>6, <2>7, SMT
        <4>2. QED
          BY <2>5, <2>6, <4>1
      <3>2. ~(count' < 0) /\ count' = Cardinality(mask')
        <4>1. count' = n /\ Cardinality(mask') = n
          BY <2>1, <2>6
        <4>2. ~(n < 0)
          BY <2>4, SMT
        <4>3. QED
          BY <4>1, <4>2
      <3>3. \A u \in Threads : rdrecursion'[u] = 0 /\ 1 = rdrecursion'[u] + 1
        BY <1>1, <2>2, SMT
      <3>4. QED
        BY <2>5, <2>6, <2>7, <3>1, <3>2, <3>3 DEF BooksAgree
    <2>12. OwnerIsSoleHolder'
      <3>1. n = 1 => W = {Head(queue)}
        <4>1. 1..1 = {1}
          BY SMT
        <4>2. QED
          BY <2>4, <4>1
      <3>2. count' # 0
        BY <2>1, <2>4, SMT
      <3>3. ASSUME count' = 1 PROVE mask' = {owner'}
        BY <2>1, <2>6, <3>1, <3>3
      <3>4. count' > 1 => owner' = NoThread
        BY <2>1, <2>4, SMT
      <3>5. QED
        BY <3>2, <3>3, <3>4 DEF OwnerIsSoleHolder
    <2>13. NoStranded'
      <3>1. count' # 0
        BY <2>1, <2>4, SMT
      <3>2. queue' # << >> => ~multi'[Head(queue')]
        BY <2>1, <2>2, <2>8 DEF LeadingReaders
      <3>3. QED
        BY <3>1, <3>2 DEF NoStranded
    <2>14. QED
      BY <2>8, <2>9, <2>10, <2>11, <2>12, <2>13 DEF IInv
  <1>7. QED
    BY <1>2, <1>4, <1>5, <1>6 DEF WriteRelease

-------------------------------------------------------------------------------
\* The inductive invariant: the lock's books, its owner field, the queue and
\* the claims of its callers agree after any number of calls of mrsw_lock.c,
\* for every finite set of threads and every depth of nesting.
THEOREM Invariance == Spec => []IInv
  <1>1. IInv /\ [Next]_vars => IInv'
    <2> SUFFICES ASSUME IInv, [Next]_vars PROVE IInv'
      OBVIOUS
    <2>1. CASE Next
      BY <2>1, ReadAcquirePreserves, ReadReleasePreserves,
         WriteAcquirePreserves, WriteReleasePreserves DEF Next
    <2>2. CASE UNCHANGED vars
      BY <2>2
      DEF vars, lockVars, threadVars, claimVars, IInv, TypeOK, Exclusion,
          BooksAgree, OwnerIsSoleHolder, NoStranded, WaitersHoldNothing
    <2>3. QED
      BY <2>1, <2>2
  <1>2. QED
    BY InitEstablishes, <1>1, PTL DEF Spec

\* Every variable of the lock and of its callers keeps its type.
THEOREM TypeCorrect == Spec => []TypeOK
  <1>1. IInv => TypeOK
    BY DEF IInv
  <1>2. QED
    BY Invariance, <1>1, PTL

\* A thread inside with write access is alone there.
THEOREM MutualExclusion == Spec => []Exclusion
  <1>1. IInv => Exclusion
    BY DEF IInv
  <1>2. QED
    BY Invariance, <1>1, PTL

\* The splay names the sole holder, which is what the assertion in
\* mrsw_write_release and the transfer of inherited priority need.
THEOREM OwnerNamesSoleHolder == Spec => []OwnerIsSoleHolder
  <1>1. IInv => OwnerIsSoleHolder
    BY DEF IInv
  <1>2. QED
    BY Invariance, <1>1, PTL

\* No thread is left waiting at a lock it could be given.
THEOREM NobodyStranded == Spec => []NoStranded
  <1>1. IInv => NoStranded
    BY DEF IInv
  <1>2. QED
    BY Invariance, <1>1, PTL

-------------------------------------------------------------------------------
\* The line of the fair lock, as the queue and the flags of its threads show it.
Waiter == [thread : Threads, reader : BOOLEAN]
Row(q, m) == [i \in 1..Len(q) |-> [thread |-> q[i], reader |-> m[q[i]]]]

\* The row of waiting requests, place by place.
LEMMA RowFacts ==
    ASSUME NEW q \in Seq(Threads), NEW m \in [Threads -> BOOLEAN]
    PROVE  /\ Row(q, m) \in Seq(Waiter) /\ Len(q) \in Nat
           /\ Len(Row(q, m)) = Len(q)
           /\ \A i \in 1..Len(q) : /\ Row(q, m)[i].thread = q[i]
                                   /\ Row(q, m)[i].reader = m[q[i]]
                                   /\ Row(q, m)[i] = [thread |-> q[i], reader |-> m[q[i]]]
           /\ Row(q, m) = << >> <=> q = << >>
  <1>1. Len(q) \in Nat /\ \A i \in 1..Len(q) : q[i] \in Threads
    BY LenProperties, ElementOfSeq
  <1>2. \A i \in 1..Len(q) : [thread |-> q[i], reader |-> m[q[i]]] \in Waiter
    BY <1>1 DEF Waiter
  <1>3. /\ Row(q, m) \in Seq(Waiter)
        /\ Len(Row(q, m)) = Len(q)
    BY <1>1, <1>2, SMT DEF Row
  <1>4. \A i \in 1..Len(q) : /\ Row(q, m)[i].thread = q[i]
                             /\ Row(q, m)[i].reader = m[q[i]]
                             /\ Row(q, m)[i] = [thread |-> q[i], reader |-> m[q[i]]]
    BY DEF Row
  <1>5. Row(q, m) = << >> <=> q = << >>
    <2>1. Row(q, m) # << >> => Len(q) # 0
      BY <1>3, EmptySeq, SMT
    <2>2. q # << >> => Len(q) # 0
      BY EmptySeq, SMT
    <2>3. Row(q, m) = << >> => Len(Row(q, m)) = 0
      BY EmptySeq
    <2>4. q = << >> => Len(q) = 0
      BY EmptySeq
    <2>5. QED
      BY <1>3, <2>1, <2>2, <2>3, <2>4
  <1>6. QED
    BY <1>1, <1>3, <1>4, <1>5

\* The refinement mapping's line is the row of the queue, before and after.
LEMMA LineIsRow == Line = Row(queue, multi) /\ Line' = Row(queue', multi')
  BY DEF Line, Row

\* A thread that runs is not in line.
LEMMA NotWaiting ==
    ASSUME IInv, NEW t \in Threads, t \notin blocked
    PROVE  ~Lock!Waiting(t)
  <1>1. queue \in Seq(Threads) /\ multi \in [Threads -> BOOLEAN]
    BY DEF IInv, TypeOK
  <1>2. \A i \in 1..Len(queue) : queue[i] # t
    BY DEF IInv, WaitersHoldNothing
  <1>3. \A i \in 1..Len(Line) : Line[i].thread # t
    <2>1. /\ Len(Line) = Len(queue)
          /\ \A i \in 1..Len(queue) : Line[i].thread = queue[i]
      BY <1>1, RowFacts, LineIsRow
    <2>2. QED
      BY <1>2, <2>1
  <1>4. QED
    BY <1>3 DEF Lock!Waiting

\* A thread let in at once enters as the fair lock allows.
LEMMA EnterHolds ==
    ASSUME IInv, NEW t \in Threads, t \notin blocked,
           queue' = queue, multi' = multi,
           \/ /\ \/ writes[t] > 0 \/ reads[t] > 0
                 \/ queue = << >> /\ \A u \in Threads : writes[u] = 0
              /\ reads[t] < MaxClaims
              /\ reads' = [reads EXCEPT ![t] = @ + 1]
              /\ writes' = writes
           \/ /\ \/ writes[t] > 0
                 \/ \A u \in Threads : reads[u] = 0 /\ writes[u] = 0
              /\ writes[t] < MaxClaims
              /\ writes' = [writes EXCEPT ![t] = @ + 1]
              /\ reads' = reads
    PROVE  Lock!Enter(t)
  <1>1. queue \in Seq(Threads) /\ multi \in [Threads -> BOOLEAN]
    BY DEF IInv, TypeOK
  <1>2. ~Lock!Waiting(t)
    BY NotWaiting
  <1>3. queue = << >> => Line = << >>
    BY <1>1, RowFacts, LineIsRow
  <1>4. Line' = Line
    BY LineIsRow
  <1>5. QED
    BY <1>2, <1>3, <1>4 DEF Lock!Enter, Lock!Free

\* A thread that blocks joins the end of the fair lock's line.
LEMMA QueueHolds ==
    ASSUME IInv, NEW t \in Threads, NEW r \in BOOLEAN, t \notin blocked,
           Block(t, r), reads[t] = 0, writes[t] = 0,
           \E u \in Threads : ~(reads[u] = 0 /\ writes[u] = 0),
           r => queue # << >> \/ \E u \in Threads : writes[u] > 0
    PROVE  Lock!Queue(t)
  <1> DEFINE l == Line
  <1>1. /\ queue \in Seq(Threads) /\ multi \in [Threads -> BOOLEAN]
        /\ queue' = Append(queue, t) /\ multi' = [multi EXCEPT ![t] = r]
        /\ reads' = reads /\ writes' = writes
    BY DEF IInv, TypeOK, Block
  <1>2. /\ queue' \in Seq(Threads) /\ multi' \in [Threads -> BOOLEAN]
        /\ Len(queue) \in Nat /\ Len(queue') = Len(queue) + 1
        /\ \A i \in 1..Len(queue) : queue'[i] = queue[i]
        /\ queue'[Len(queue) + 1] = t
    BY <1>1, AppendFacts
  <1>3. \A i \in 1..Len(queue) : queue[i] # t /\ queue[i] \in Threads
    BY <1>1, QueueFacts DEF IInv, WaitersHoldNothing
  <1> DEFINE e == [thread |-> t, reader |-> r]
             k == Row(queue', multi')
  <1>4. e \in Waiter
    BY DEF Waiter
  <1>5. l \in Seq(Waiter) /\ Len(l) = Len(queue)
    BY <1>1, RowFacts, LineIsRow
  <1>6. /\ Append(l, e) \in Seq(Waiter) /\ Len(Append(l, e)) = Len(queue) + 1
        /\ \A i \in 1..Len(queue) : Append(l, e)[i] = l[i]
        /\ Append(l, e)[Len(queue) + 1] = e
    BY <1>4, <1>5, AppendFacts
  <1>7. k \in Seq(Waiter) /\ Len(k) = Len(queue) + 1
    BY <1>2, RowFacts, LineIsRow
  <1>8. \A i \in 1..(Len(queue) + 1) : k[i] = Append(l, e)[i]
    <2>1. ASSUME NEW i \in 1..Len(queue)
          PROVE  k[i] = l[i]
      <3>1. l[i] = [thread |-> queue[i], reader |-> multi[queue[i]]]
        BY <1>1, RowFacts, LineIsRow
      <3>2. i \in 1..Len(queue')
        BY <1>2, SMT
      <3>3. k[i] = [thread |-> queue'[i], reader |-> multi'[queue'[i]]]
        BY <1>2, <3>2, RowFacts, LineIsRow
      <3>4. queue'[i] = queue[i] /\ multi'[queue[i]] = multi[queue[i]]
        BY <1>1, <1>2, <1>3
      <3>5. QED
        BY <3>1, <3>3, <3>4
    <2>2. k[Len(queue) + 1] = e
      <3>1. Len(queue) + 1 \in 1..Len(queue')
        BY <1>2, SMT
      <3>2. k[Len(queue) + 1] = [thread |-> queue'[Len(queue) + 1],
                                 reader |-> multi'[queue'[Len(queue) + 1]]]
        BY <1>2, <3>1, RowFacts, LineIsRow
      <3>3. multi'[t] = r
        BY <1>1
      <3>4. QED
        BY <1>2, <3>2, <3>3
    <2> HIDE DEF k, l, e
    <2>3. QED
      BY <1>2, <1>6, <2>1, <2>2, SMT
  <1>9. k = Append(l, e)
    <2> HIDE DEF k, l, e
    <2>1. QED
      BY <1>6, <1>7, <1>8, SeqEqual
  <1>10. Line' = Append(Line, [thread |-> t, reader |-> r])
    BY <1>9, LineIsRow
  <1>11. ~Lock!Waiting(t)
    BY NotWaiting
  <1>12. queue # << >> => Line # << >>
    BY <1>1, RowFacts, LineIsRow
  <1> HIDE DEF k, l, e
  <1>13. ~Lock!Free(reads, writes)
    BY DEF Lock!Free
  <1>14. QED
    BY <1>1, <1>10, <1>11, <1>12, <1>13 DEF Lock!Queue

\* A release that lets nobody in.
LEMMA LeaveKeeps ==
    ASSUME IInv, NEW t \in Threads, t \notin blocked,
           queue' = queue, multi' = multi,
           \/ reads[t] > 0 /\ reads' = [reads EXCEPT ![t] = @ - 1] /\ writes' = writes
           \/ writes[t] > 0 /\ writes' = [writes EXCEPT ![t] = @ - 1] /\ reads' = reads,
           \/ \E u \in Threads : ~(reads'[u] = 0 /\ writes'[u] = 0)
           \/ queue = << >>
    PROVE  Lock!Leave(t)
  <1>1. queue \in Seq(Threads) /\ multi \in [Threads -> BOOLEAN]
    BY DEF IInv, TypeOK
  <1>2. ~Lock!Waiting(t)
    BY NotWaiting
  <1>3. Line # << >> => queue # << >>
    BY <1>1, RowFacts, LineIsRow
  <1>4. Line' = Line
    BY LineIsRow
  <1>5. CASE reads[t] > 0 /\ reads' = [reads EXCEPT ![t] = @ - 1] /\ writes' = writes
    <2> DEFINE R == [reads EXCEPT ![t] = @ - 1]
    <2>1. ~((\A u \in Threads : R[u] = 0 /\ writes[u] = 0)
             /\ Line # << >>)
      BY <1>3, <1>5
    <2>2. Lock!Settle(R, writes)
      BY <1>4, <1>5, <2>1 DEF Lock!Settle, Lock!Free
    <2>3. QED
      BY <1>2, <1>5, <2>2 DEF Lock!Leave
  <1>6. CASE writes[t] > 0 /\ writes' = [writes EXCEPT ![t] = @ - 1] /\ reads' = reads
    <2> DEFINE W == [writes EXCEPT ![t] = @ - 1]
    <2>1. ~((\A u \in Threads : reads[u] = 0 /\ W[u] = 0)
             /\ Line # << >>)
      BY <1>3, <1>6
    <2>2. Lock!Settle(reads, W)
      BY <1>4, <1>6, <2>1 DEF Lock!Settle, Lock!Free
    <2>3. QED
      BY <1>2, <1>6, <2>2 DEF Lock!Leave
  <1>7. QED
    BY <1>5, <1>6

\* A release that leaves the lock free and lets in the first n in line.
LEMMA LeaveAdmits ==
    ASSUME IInv, NEW t \in Threads, t \notin blocked,
           NEW n \in 1..Len(queue), queue' = Unqueue(n), multi' = multi,
           NEW R, NEW W,
           \/ reads[t] > 0 /\ R = [reads EXCEPT ![t] = @ - 1] /\ W = writes
           \/ writes[t] > 0 /\ W = [writes EXCEPT ![t] = @ - 1] /\ R = reads,
           \A u \in Threads : R[u] = 0 /\ W[u] = 0,
           \/ n = 1 /\ ~multi[Head(queue)]
           \/ multi[Head(queue)] /\ LeadingReaders(n),
           reads' = [u \in Threads |-> IF u \in {queue[i] : i \in 1..n} /\ multi[Head(queue)]
                                       THEN 1 ELSE R[u]],
           writes' = [u \in Threads |-> IF u \in {queue[i] : i \in 1..n} /\ ~multi[Head(queue)]
                                        THEN 1 ELSE W[u]]
    PROVE  Lock!Leave(t)
  <1> DEFINE l == Line
             k == Row(queue', multi')
  <1>1. /\ queue \in Seq(Threads) /\ multi \in [Threads -> BOOLEAN]
        /\ Len(queue) \in Nat
    BY QueueFacts DEF IInv, TypeOK
  <1>2. /\ queue' \in Seq(Threads) /\ multi' \in [Threads -> BOOLEAN]
        /\ Len(queue') = Len(queue) - n
        /\ \A i \in 1..(Len(queue) - n) : queue'[i] = queue[n + i]
    BY <1>1, UnqueueFacts, SMTT(30) DEF Unqueue
  <1>3. /\ l \in Seq(Waiter) /\ Len(l) = Len(queue)
        /\ \A i \in 1..Len(queue) :
             /\ l[i].thread = queue[i] /\ l[i].reader = multi[queue[i]]
             /\ l[i] = [thread |-> queue[i], reader |-> multi[queue[i]]]
        /\ l = << >> => queue = << >>
    BY <1>1, RowFacts, LineIsRow
  <1>4. /\ k \in Seq(Waiter) /\ Len(k) = Len(queue) - n
        /\ \A i \in 1..(Len(queue) - n) :
             k[i] = [thread |-> queue'[i], reader |-> multi'[queue'[i]]]
    <2>1. queue' \in Seq(Threads) /\ multi' \in [Threads -> BOOLEAN]
      BY <1>2
    <2>2. k \in Seq(Waiter) /\ Len(k) = Len(queue')
      BY ONLY <2>1, RowFacts, LineIsRow
    <2>3. \A i \in 1..Len(queue') :
               k[i] = [thread |-> queue'[i], reader |-> multi'[queue'[i]]]
      BY ONLY <2>1, RowFacts, LineIsRow
    <2> HIDE DEF k
    <2>4. QED
      BY <1>2, <2>2, <2>3
  <1>5. 1 \in 1..Len(queue) /\ Head(queue) = queue[1] /\ queue # << >>
    <2>1. queue # << >>
      <3>1. Len(queue) # 0
        BY <1>1, SMT
      <3>2. QED
        BY <3>1, EmptySeq
    <2>2. QED
      BY <1>1, <2>1, QueueFacts
  <1>6. k = SubSeq(l, n + 1, Len(l))
    <2> DEFINE s == SubSeq(l, n + 1, Len(l))
    <2> HIDE DEF l, k
    <2>1. n \in 1..Len(l)
      BY <1>3
    <2>2. /\ s \in Seq(Waiter) /\ Len(s) = Len(l) - n
          /\ \A i \in 1..(Len(l) - n) : s[i] = l[n + i]
      BY <1>3, <2>1, UnqueueFacts
    <2>3. ASSUME NEW i \in 1..(Len(queue) - n)
          PROVE  k[i] = s[i]
      <3>1. n + i \in 1..Len(queue)
        BY <1>1, SMT
      <3>2. /\ l[n + i] = [thread |-> queue[n + i], reader |-> multi[queue[n + i]]]
            /\ queue'[i] = queue[n + i]
        BY <1>2, <1>3, <3>1
      <3>3. s[i] = l[n + i]
        BY <1>3, <2>2
      <3>4. k[i] = [thread |-> queue'[i], reader |-> multi'[queue'[i]]]
        BY <1>4
      <3>5. QED
        BY <3>2, <3>3, <3>4
    <2> HIDE DEF s
    <2>4. Len(k) = Len(s) /\ \A i \in 1..Len(k) : k[i] = s[i]
      BY <1>3, <1>4, <2>2, <2>3
    <2>5. k = s
      BY <1>4, <2>2, <2>4, SeqEqual
    <2>6. QED
      BY <2>5 DEF s
  <1>7. Line' = k
    BY LineIsRow
  <1>8. Lock!Admits(n)
    <2> HIDE DEF l, k
    <2>1. \/ n = 1 /\ ~l[1].reader
          \/ /\ \A i \in 1..n : l[i].reader
             /\ n < Len(l) => ~l[n + 1].reader
      <3>1. CASE n = 1 /\ ~multi[Head(queue)]
        BY <1>3, <1>5, <3>1
      <3>2. CASE LeadingReaders(n)
        <4>1. \A i \in 1..n : i \in 1..Len(queue)
          BY <1>1, SMT
        <4>2. \A i \in 1..n : l[i].reader
          BY <1>3, <3>2, <4>1 DEF LeadingReaders
        <4>3. n < Len(queue) => n + 1 \in 1..Len(queue)
          BY <1>1, SMT
        <4>4. n < Len(l) => ~l[n + 1].reader
          BY <1>3, <3>2, <4>3 DEF LeadingReaders
        <4>5. QED
          BY <4>2, <4>4
      <3>3. QED
        BY <3>1, <3>2
    <2>2. QED
      BY <2>1 DEF Lock!Admits, l
  <1>9. \A u : u \in {queue[i] : i \in 1..n} <=> \E i \in 1..n : l[i].thread = u
    <2>1. \A i \in 1..n : i \in 1..Len(queue)
      BY <1>1, SMT
    <2> HIDE DEF l
    <2>2. \A i \in 1..n : l[i].thread = queue[i]
      BY <1>3, <2>1
    <2>3. QED
      BY <2>2
  <1>10. l[1].reader = multi[Head(queue)]
    <2> HIDE DEF l
    <2>1. QED
      BY <1>3, <1>5, ZenonT(30)
  <1>11. l # << >> /\ n \in 1..Len(l)
    BY <1>3, <1>5
  <1>12. Lock!Free(R, W)
    BY DEF Lock!Free
  <1>13. /\ reads' = [u \in Threads |->
                        IF (\E i \in 1..n : l[i].thread = u) /\ l[1].reader
                        THEN 1 ELSE R[u]]
         /\ writes' = [u \in Threads |->
                         IF (\E i \in 1..n : l[i].thread = u) /\ ~l[1].reader
                         THEN 1 ELSE W[u]]
    <2> HIDE DEF l, k
    <2>1. QED
      BY <1>9, <1>10
  <1>14. ~Lock!Waiting(t)
    BY NotWaiting
  <1> HIDE DEF k
  <1>15. \E j \in 1..Len(l) :
            /\ Lock!Admits(j)
            /\ reads' = [u \in Threads |->
                           IF (\E i \in 1..j : l[i].thread = u) /\ l[1].reader
                           THEN 1 ELSE R[u]]
            /\ writes' = [u \in Threads |->
                            IF (\E i \in 1..j : l[i].thread = u) /\ ~l[1].reader
                            THEN 1 ELSE W[u]]
            /\ k = SubSeq(l, j + 1, Len(l))
    <2> HIDE DEF l
    <2>1. QED
      BY <1>6, <1>8, <1>11, <1>13
  <1>16. CASE reads[t] > 0 /\ R = [reads EXCEPT ![t] = @ - 1] /\ W = writes
    <2> DEFINE r == [reads EXCEPT ![t] = @ - 1]
    <2>1. Lock!Free(r, writes)
      BY <1>12, <1>16 DEF Lock!Free
    <2>2. R = r /\ W = writes
      BY <1>16
    <2> HIDE DEF r
    <2>3. Lock!Settle(r, writes)
      BY ONLY <1>7, <1>11, <1>15, <2>1, <2>2 DEF Lock!Settle
    <2>4. QED
      BY <1>14, <1>16, <2>3 DEF Lock!Leave, r
  <1>17. CASE writes[t] > 0 /\ W = [writes EXCEPT ![t] = @ - 1] /\ R = reads
    <2> DEFINE w == [writes EXCEPT ![t] = @ - 1]
    <2>1. Lock!Free(reads, w)
      BY <1>12, <1>17 DEF Lock!Free
    <2>2. R = reads /\ W = w
      BY <1>17
    <2> HIDE DEF w
    <2>3. Lock!Settle(reads, w)
      BY ONLY <1>7, <1>11, <1>15, <2>1, <2>2 DEF Lock!Settle
    <2>4. QED
      BY <1>14, <1>17, <2>3 DEF Lock!Leave, w
  <1>18. QED
    BY <1>16, <1>17

\* mrsw_read_acquire is a step of the fair lock.
LEMMA ReadAcquireRefines ==
    ASSUME IInv, NEW t \in Threads, ReadAcquire(t)
    PROVE  Lock!Next
  <1>1. t \notin blocked /\ reads[t] < MaxClaims
    BY DEF ReadAcquire, Running
  <1>2. CASE ReadInWrite(t) \/ ReadAgain(t) \/ ReadClaim(t)
    <2>1. /\ queue' = queue /\ multi' = multi
          /\ reads' = [reads EXCEPT ![t] = @ + 1] /\ writes' = writes
      BY <1>2 DEF ReadInWrite, ReadAgain, ReadClaim, lockVars, threadVars
    <2>2. \/ writes[t] > 0 \/ reads[t] > 0
          \/ queue = << >> /\ \A u \in Threads : writes[u] = 0
      <3>1. CASE ReadInWrite(t)
        BY <3>1, SMT DEF ReadInWrite, WriterIs, IInv, TypeOK, BooksAgree
      <3>2. CASE ReadAgain(t)
        BY <3>2, SMT DEF ReadAgain, IInv, TypeOK, BooksAgree
      <3>3. CASE ReadClaim(t)
        BY <3>3 DEF ReadClaim, OpenToReaders, IInv, BooksAgree
      <3>4. QED
        BY <1>2, <3>1, <3>2, <3>3
    <2>3. Lock!Enter(t)
      BY <1>1, <2>1, <2>2, EnterHolds
    <2>4. QED
      BY <2>3 DEF Lock!Next
  <1>3. CASE ReadBlock(t)
    <2>1. Block(t, TRUE) /\ ~OpenToReaders /\ ~WriterIs(t) /\ t \notin mask
      BY <1>3 DEF ReadBlock
    <2>2. reads[t] = 0 /\ writes[t] = 0
      BY <2>1, HolderFacts, SMT DEF IInv, TypeOK, WriterIs
    <2>3. count # 0
      BY <2>1, SMT DEF OpenToReaders, IInv, TypeOK, NoStranded
    <2>4. CASE count < 0
      <3>1. owner \in Threads /\ writes[owner] > 0
        BY <2>4, SMT DEF IInv, TypeOK, BooksAgree
      <3>2. \E u \in Threads : ~(reads[u] = 0 /\ writes[u] = 0)
        BY <3>1, SMT DEF IInv, TypeOK
      <3>3. \E u \in Threads : writes[u] > 0
        BY <3>1
      <3>4. Lock!Queue(t)
        BY <1>1, <2>1, <2>2, <3>2, <3>3, QueueHolds
      <3>5. QED
        BY <3>4 DEF Lock!Next
    <2>5. CASE count > 0
      <3>1. queue # << >>
        BY <2>1, <2>5, SMT DEF OpenToReaders, IInv, TypeOK
      <3>2. mask # {}
        BY <2>5, HolderFacts, SMT DEF IInv, TypeOK, BooksAgree
      <3>3. \E u \in Threads : ~(reads[u] = 0 /\ writes[u] = 0)
        <4>1. PICK u \in mask : u \in Threads
          BY <3>2 DEF IInv, TypeOK
        <4>2. reads[u] # 0
          BY <4>1, SMT DEF IInv, TypeOK, BooksAgree
        <4>3. QED
          BY <4>1, <4>2
      <3>4. Lock!Queue(t)
        BY <1>1, <2>1, <2>2, <3>1, <3>3, QueueHolds
      <3>5. QED
        BY <3>4 DEF Lock!Next
    <2>6. QED
      BY <2>3, <2>4, <2>5, SMT DEF IInv, TypeOK
  <1>4. QED
    BY <1>2, <1>3 DEF ReadAcquire

\* mrsw_write_acquire is a step of the fair lock.
LEMMA WriteAcquireRefines ==
    ASSUME IInv, NEW t \in Threads, WriteAcquire(t)
    PROVE  Lock!Next
  <1>1. /\ t \notin blocked /\ writes[t] < MaxClaims
        /\ reads[t] > 0 => writes[t] > 0
    BY DEF WriteAcquire, RequestWrite, Running
  <1>2. CASE WriteAgain(t) \/ WriteClaim(t)
    <2>1. /\ queue' = queue /\ multi' = multi
          /\ writes' = [writes EXCEPT ![t] = @ + 1] /\ reads' = reads
      BY <1>2 DEF WriteAgain, WriteClaim, threadVars
    <2>2. \/ writes[t] > 0
          \/ \A u \in Threads : reads[u] = 0 /\ writes[u] = 0
      <3>1. CASE WriteAgain(t)
        <4>1. owner = t /\ t # NoThread
          BY <3>1, ThreadsAssumption DEF WriteAgain
        <4>2. CASE count < 0
          BY <4>1, <4>2, SMT DEF IInv, TypeOK, BooksAgree
        <4>3. CASE ~(count < 0)
          <5>1. count = 1 /\ mask = {t}
            BY <4>1, <4>3, SMT DEF IInv, TypeOK, OwnerIsSoleHolder
          <5>2. reads[t] > 0
            BY <5>1, SMT DEF IInv, TypeOK, BooksAgree
          <5>3. QED
            BY <1>1, <5>2
        <4>4. QED
          BY <4>2, <4>3
      <3>2. CASE WriteClaim(t)
        <4>1. count = 0
          BY <3>2 DEF WriteClaim
        <4>2. ASSUME NEW u \in Threads
              PROVE  ~(reads[u] > 0) /\ ~(writes[u] > 0)
          BY <4>1, HolderFacts, SMT
        <4>3. QED
          BY <4>2, SMT DEF IInv, TypeOK
      <3>3. QED
        BY <1>2, <3>1, <3>2
    <2>3. Lock!Enter(t)
      BY <1>1, <2>1, <2>2, EnterHolds
    <2>4. QED
      BY <2>3 DEF Lock!Next
  <1>3. CASE WriteBlock(t)
    <2>1. Block(t, FALSE) /\ owner # t /\ count # 0
      BY <1>3 DEF WriteBlock
    <2>2. ~(writes[t] > 0)
      BY <2>1, HolderFacts
    <2>3. reads[t] = 0 /\ writes[t] = 0
      BY <1>1, <2>2, SMT DEF IInv, TypeOK
    <2>4. \E u \in Threads : ~(reads[u] = 0 /\ writes[u] = 0)
      <3>1. CASE count < 0
        BY <3>1, SMT DEF IInv, TypeOK, BooksAgree
      <3>2. CASE ~(count < 0)
        <4>1. mask # {}
          BY <2>1, <3>2, HolderFacts, SMT DEF IInv, TypeOK, BooksAgree
        <4>2. PICK u \in mask : u \in Threads
          BY <4>1 DEF IInv, TypeOK
        <4>3. reads[u] # 0
          BY <4>2, SMT DEF IInv, TypeOK, BooksAgree
        <4>4. QED
          BY <4>2, <4>3
      <3>3. QED
        BY <3>1, <3>2
    <2>5. Lock!Queue(t)
      BY <1>1, <2>1, <2>3, <2>4, QueueHolds
    <2>6. QED
      BY <2>5 DEF Lock!Next
  <1>4. QED
    BY <1>2, <1>3 DEF WriteAcquire, RequestWrite

\* mrsw_read_release is a step of the fair lock.
LEMMA ReadReleaseRefines ==
    ASSUME IInv, NEW t \in Threads, ReadRelease(t)
    PROVE  Lock!Next
  <1>1. t \notin blocked /\ reads[t] > 0
    BY DEF ReadRelease, Running
  <1>2. CASE ReadReleaseInWrite(t) \/ ReadReleaseAgain(t) \/ ReadRelinquish(t)
    <2>1. /\ queue' = queue /\ multi' = multi
          /\ reads' = [reads EXCEPT ![t] = @ - 1] /\ writes' = writes
      BY <1>2 DEF ReadReleaseInWrite, ReadReleaseAgain, ReadRelinquish,
                  lockVars, threadVars
    <2>2. \/ \E u \in Threads : ~(reads'[u] = 0 /\ writes'[u] = 0)
          \/ queue = << >>
      <3>1. CASE ReadReleaseInWrite(t)
        <4>1. writes[t] # 0
          BY <3>1, SMT DEF ReadReleaseInWrite, WriterIs, IInv, TypeOK, BooksAgree
        <4>2. QED
          BY <2>1, <4>1
      <3>2. CASE ReadReleaseAgain(t)
        <4>1. reads'[t] # 0
          BY <2>1, <3>2, SMT DEF ReadReleaseAgain, Nested, IInv, TypeOK, BooksAgree
        <4>2. QED
          BY <4>1
      <3>3. CASE ReadRelinquish(t) /\ queue # << >>
        <4>1. t \in mask /\ count > 0 /\ count # 1 /\ count = Cardinality(mask)
          BY <3>3, HolderFacts, SMTT(30)
          DEF ReadRelinquish, LastReader, IInv, TypeOK, BooksAgree
        <4>2. PICK u \in mask : u # t
          <5>1. CASE mask = {t}
            <6>1. Cardinality(mask) = 1
              BY <5>1, FS_Singleton
            <6>2. QED
              BY <4>1, <6>1
          <5>2. QED
            BY <4>1, <5>1
        <4>3. u \in Threads /\ reads[u] # 0
          <5>1. u \in Threads
            BY DEF IInv, TypeOK
          <5>2. QED
            BY <5>1, SMT DEF IInv, TypeOK, BooksAgree
        <4>4. reads'[u] # 0
          BY <2>1, <4>2, <4>3 DEF IInv, TypeOK
        <4>5. QED
          BY <4>3, <4>4
      <3>4. QED
        BY <1>2, <3>1, <3>2, <3>3
    <2>3. Lock!Leave(t)
      BY <1>1, <2>1, <2>2, LeaveKeeps
    <2>4. QED
      BY <2>3 DEF Lock!Next
  <1>3. CASE ReadReleaseToWriter(t)
    <2> DEFINE R == [reads EXCEPT ![t] = @ - 1]
    <2>1. /\ queue' = Unqueue(1) /\ multi' = multi /\ reads' = R
          /\ writes' = [writes EXCEPT ![Head(queue)] = 1]
          /\ count = 1 /\ queue # << >> /\ t \in mask /\ rdrecursion[t] = 0
      BY <1>3, SMT DEF ReadReleaseToWriter, LastReader, Nested, IInv, TypeOK
    <2>2. 1 \in 1..Len(queue) /\ Head(queue) = queue[1] /\ Head(queue) \in Threads
      BY <2>1, QueueFacts DEF IInv, TypeOK
    <2>3. ~multi[Head(queue)]
      BY <2>1, SMT DEF IInv, NoStranded
    <2>4. {queue[i] : i \in 1..1} = {Head(queue)}
      <3>1. 1..1 = {1}
        BY SMT
      <3>2. QED
        BY <2>2, <3>1
    <2>5. mask = {t}
      BY <2>1 DEF IInv, OwnerIsSoleHolder
    <2>6. \A u \in Threads : R[u] = 0 /\ writes[u] = 0
      <3>1. \A u \in Threads : writes[u] = 0
        BY <2>1, SMT DEF IInv, BooksAgree
      <3>2. R[t] = 0
        BY <2>1, SMT DEF IInv, TypeOK, BooksAgree
      <3>3. ASSUME NEW u \in Threads, u # t
            PROVE  R[u] = 0
        <4>1. ~(reads[u] > 0)
          BY <2>1, <2>5, <3>3, HolderFacts, SMT
        <4>2. QED
          BY <3>3, <4>1, SMT DEF IInv, TypeOK
      <3>4. QED
        BY <3>1, <3>2, <3>3
    <2>7. /\ reads' = [u \in Threads |-> IF u \in {queue[i] : i \in 1..1} /\ multi[Head(queue)]
                                         THEN 1 ELSE R[u]]
          /\ writes' = [u \in Threads |-> IF u \in {queue[i] : i \in 1..1} /\ ~multi[Head(queue)]
                                          THEN 1 ELSE writes[u]]
      <3>1. R = [u \in Threads |-> R[u]]
        BY DEF IInv, TypeOK
      <3> HIDE DEF R
      <3>2. [writes EXCEPT ![Head(queue)] = 1]
              = [u \in Threads |-> IF u = Head(queue) THEN 1 ELSE writes[u]]
        BY DEF IInv, TypeOK
      <3>3. QED
        BY <2>1, <2>3, <2>4, <3>1, <3>2
    <2>8. R = [reads EXCEPT ![t] = @ - 1]
      OBVIOUS
    <2> HIDE DEF R
    <2>9. \/ reads[t] > 0 /\ R = [reads EXCEPT ![t] = @ - 1] /\ writes = writes
          \/ writes[t] > 0 /\ writes = [writes EXCEPT ![t] = @ - 1] /\ R = reads
      BY <1>1, <2>8
    <2>10. /\ 1 \in 1..Len(queue) /\ queue' = Unqueue(1) /\ multi' = multi
           /\ \/ 1 = 1 /\ ~multi[Head(queue)]
              \/ multi[Head(queue)] /\ LeadingReaders(1)
      BY <2>1, <2>2, <2>3
    <2>11. Lock!Leave(t)
      BY <1>1, <2>6, <2>7, <2>9, <2>10, LeaveAdmits
    <2>12. QED
      BY <2>11 DEF Lock!Next
  <1>4. QED
    BY <1>2, <1>3 DEF ReadRelease

\* mrsw_write_release is a step of the fair lock.
LEMMA WriteReleaseRefines ==
    ASSUME IInv, NEW t \in Threads, WriteRelease(t)
    PROVE  Lock!Next
  <1>1. /\ t \notin blocked /\ writes[t] > 0 /\ count < 0 /\ owner = t
        /\ writes[t] = -count /\ (writes[t] = 1 => reads[t] = 0)
    <2>1. t \notin blocked /\ writes[t] > 0 /\ (writes[t] = 1 => reads[t] = 0)
      BY DEF WriteRelease, Running
    <2>2. count < 0 /\ owner = t
      BY <2>1, HolderFacts
    <2>3. QED
      BY <2>1, <2>2 DEF IInv, BooksAgree
  <1> DEFINE W == [writes EXCEPT ![t] = @ - 1]
  <1>2. CASE WriteReleaseAgain(t)
    <2>1. /\ queue' = queue /\ multi' = multi /\ writes' = W /\ reads' = reads
      BY <1>2 DEF WriteReleaseAgain, threadVars
    <2>2. W[t] # 0
      BY <1>1, <1>2, SMT DEF WriteReleaseAgain, IInv, TypeOK
    <2>3. Lock!Leave(t)
      BY <1>1, <2>1, <2>2, LeaveKeeps
    <2>4. QED
      BY <2>3 DEF Lock!Next
  <1>3. CASE WriteReleaseFree(t)
    <2>1. /\ queue' = queue /\ multi' = multi /\ writes' = W /\ reads' = reads
          /\ queue = << >>
      BY <1>3 DEF WriteReleaseFree, threadVars
    <2>2. Lock!Leave(t)
      BY <1>1, <2>1, LeaveKeeps
    <2>3. QED
      BY <2>2 DEF Lock!Next
  <1>4. CASE WriteReleaseToWriter(t) \/ WriteReleaseToReaders(t)
    <2>1. queue # << >> /\ multi' = multi
      BY <1>4 DEF WriteReleaseToWriter, WriteReleaseToReaders
    <2>2. writes[t] = 1 /\ reads[t] = 0
      BY <1>1, <1>4, SMT
      DEF WriteReleaseToWriter, WriteReleaseToReaders, IInv, TypeOK
    <2>3. \A u \in Threads : reads[u] = 0 /\ W[u] = 0
      <3>1. W[t] = 0
        BY <2>2, SMT DEF IInv, TypeOK
      <3>2. \A u \in Threads : u # t => reads[u] = 0 /\ W[u] = 0
        BY <1>1, HolderFacts DEF IInv, TypeOK
      <3>3. QED
        BY <2>2, <3>1, <3>2
    <2>4. 1 \in 1..Len(queue) /\ Head(queue) = queue[1] /\ Head(queue) \in Threads
          /\ Head(queue) # t
      BY <1>1, <2>1, QueueFacts DEF IInv, TypeOK, WaitersHoldNothing
    <2>5. {queue[i] : i \in 1..1} = {Head(queue)}
      <3>1. 1..1 = {1}
        BY SMT
      <3>2. QED
        BY <2>4, <3>1
    <2>6. /\ reads = [u \in Threads |-> reads[u]]
          /\ W = [u \in Threads |-> W[u]]
          /\ \/ reads[t] > 0 /\ reads = [reads EXCEPT ![t] = @ - 1] /\ W = writes
             \/ writes[t] > 0 /\ W = [writes EXCEPT ![t] = @ - 1] /\ reads = reads
      BY <1>1 DEF IInv, TypeOK
    <2>7. CASE WriteReleaseToWriter(t)
      <3>1. /\ queue' = Unqueue(1) /\ reads' = reads /\ ~multi[Head(queue)]
            /\ writes' = [writes EXCEPT ![t] = @ - 1, ![Head(queue)] = 1]
        BY <2>7 DEF WriteReleaseToWriter
      <3>2. writes' = [u \in Threads |-> IF u = Head(queue) THEN 1 ELSE W[u]]
        BY <2>4, <3>1 DEF IInv, TypeOK
      <3>3. /\ reads' = [u \in Threads |-> IF u \in {queue[i] : i \in 1..1} /\ multi[Head(queue)]
                                           THEN 1 ELSE reads[u]]
            /\ writes' = [u \in Threads |-> IF u \in {queue[i] : i \in 1..1} /\ ~multi[Head(queue)]
                                            THEN 1 ELSE W[u]]
        <4> HIDE DEF W
        <4>1. QED
          BY <2>5, <2>6, <3>1, <3>2
      <3>4. /\ 1 \in 1..Len(queue) /\ queue' = Unqueue(1) /\ multi' = multi
            /\ \/ 1 = 1 /\ ~multi[Head(queue)]
               \/ multi[Head(queue)] /\ LeadingReaders(1)
        BY <2>1, <2>4, <3>1
      <3> HIDE DEF W
      <3>5. Lock!Leave(t)
        BY <1>1, <2>3, <2>6, <3>3, <3>4, LeaveAdmits
      <3>6. QED
        BY <3>5 DEF Lock!Next
    <2>8. CASE WriteReleaseToReaders(t)
      <3>1. multi[Head(queue)] /\ writes' = W
        BY <2>8 DEF WriteReleaseToReaders
      <3>2. PICK n \in 1..Len(queue) :
              /\ LeadingReaders(n)
              /\ queue' = Unqueue(n)
              /\ reads' = [u \in Threads |-> IF u \in {queue[i] : i \in 1..n}
                                             THEN 1 ELSE reads[u]]
        BY <2>8 DEF WriteReleaseToReaders
      <3>3. /\ reads' = [u \in Threads |-> IF u \in {queue[i] : i \in 1..n} /\ multi[Head(queue)]
                                           THEN 1 ELSE reads[u]]
            /\ writes' = [u \in Threads |-> IF u \in {queue[i] : i \in 1..n} /\ ~multi[Head(queue)]
                                            THEN 1 ELSE W[u]]
        <4> HIDE DEF W
        <4>1. QED
          BY <2>6, <3>1, <3>2
      <3>4. \/ n = 1 /\ ~multi[Head(queue)]
            \/ multi[Head(queue)] /\ LeadingReaders(n)
        BY <3>1, <3>2
      <3> HIDE DEF W
      <3>5. Lock!Leave(t)
        BY <1>1, <2>1, <2>3, <2>6, <3>2, <3>3, <3>4, LeaveAdmits, SMTT(30)
      <3>6. QED
        BY <3>5 DEF Lock!Next
    <2>9. QED
      BY <1>4, <2>7, <2>8
  <1>5. QED
    BY <1>2, <1>3, <1>4 DEF WriteRelease

\* mrsw_lock.c is a fair lock: whatever it keeps in count, mask, owner and the
\* recursion counts, each call grants, refuses or hands over claims as the
\* callers' claims and the line of waiters alone would decide.
THEOREM Implements == Spec => ImplementsRWLock
  <1>1. Init => Lock!Init
    <2> SUFFICES ASSUME Init PROVE Lock!Init
      OBVIOUS
    <2>1. << >> \in Seq(Threads) /\ multi \in [Threads -> BOOLEAN] /\ queue = << >>
      BY EmptySeq DEF Init
    <2>2. Line = << >>
      BY <2>1, RowFacts, LineIsRow
    <2>3. QED
      BY <2>2 DEF Init, Lock!Init
  <1>2. IInv /\ [Next]_vars => [Lock!Next]_(Lock!avars)
    <2> SUFFICES ASSUME IInv, [Next]_vars PROVE [Lock!Next]_(Lock!avars)
      OBVIOUS
    <2>1. CASE Next
      BY <2>1, ReadAcquireRefines, ReadReleaseRefines, WriteAcquireRefines,
         WriteReleaseRefines DEF Next
    <2>2. CASE UNCHANGED vars
      <3>1. reads' = reads /\ writes' = writes /\ queue' = queue /\ multi' = multi
        BY <2>2 DEF vars, lockVars, threadVars, claimVars
      <3>2. Line' = Line
        BY <3>1, LineIsRow
      <3>3. QED
        BY <3>1, <3>2 DEF Lock!avars
    <2>3. QED
      BY <2>1, <2>2
  <1>3. QED
    BY <1>1, <1>2, Invariance, PTL DEF Spec, Lock!Spec, ImplementsRWLock
===============================================================================
