--------------------------- MODULE Scheduler_proofs ---------------------------
(***************************************************************************)
(* Machine-checked proofs about Scheduler, for any finite set of threads   *)
(* and any priorities.                                                     *)
(*                                                                         *)
(* That round robin has a bound rests on an account of the threads that    *)
(* can still run before t does: those the search meets before t (Ahead),   *)
(* and those off the run queue, which get in front of t only when a thread *)
(* blocks and is woken again before the next is chosen.  That thread is    *)
(* then behind t for good, so that each can be the cause of this once.     *)
(***************************************************************************)
EXTENDS Scheduler, Integers, Sequences, FiniteSets, SequencesExt,
        FiniteSetTheorems, SequenceTheorems, WellFoundedInduction, TLAPS

-------------------------------------------------------------------------------
\* Lists: what the operations on them do to what is in them.

\* A thread that joins a queue is its last.
LEMMA AppendFacts ==
    ASSUME NEW S, NEW q \in Seq(S), NEW t \in S
    PROVE  /\ Append(q, t) \in Seq(S)
           /\ Len(q) \in Nat
           /\ Append(q, t) # << >>
           /\ Len(Append(q, t)) = Len(q) + 1
           /\ \A i \in 1..Len(q) : Append(q, t)[i] = q[i]
           /\ Append(q, t)[Len(q) + 1] = t
           /\ q # << >> => Head(Append(q, t)) = Head(q) /\ Len(q) > 0
           /\ q = << >> => Head(Append(q, t)) = t /\ Len(q) = 0
  BY AppendProperties, LenProperties, EmptySeq, SMT

\* A queue's members and its head.
LEMMA QueueFacts ==
    ASSUME NEW S, NEW q \in Seq(S)
    PROVE  /\ Len(q) \in Nat
           /\ \A i \in 1..Len(q) : q[i] \in S
           /\ q # << >> => 1 \in 1..Len(q) /\ Head(q) = q[1]
  BY LenProperties, ElementOfSeq, EmptySeq, SMT

\* The first n threads of a queue without repetition are n threads.
PrefixSet(q, n) == {q[i] : i \in 1..n}

\* The first n of a queue are n threads.
LEMMA PrefixCardinality ==
    ASSUME NEW q, Len(q) \in Nat, NEW n \in 1..Len(q),
           \A i, j \in 1..Len(q) : q[i] = q[j] => i = j
    PROVE  IsFiniteSet(PrefixSet(q, n)) /\ Cardinality(PrefixSet(q, n)) = n
  <1> DEFINE f == [i \in 1..n |-> q[i]]
             W == PrefixSet(q, n)
  <1>1. Len(q) \in Nat /\ 1..n \subseteq 1..Len(q) /\ n \in Nat
    BY SMT
  <1>2. f \in [1..n -> W] /\ \A i, j \in 1..n : f[i] = f[j] => i = j
    BY <1>1 DEF PrefixSet
  <1>3. \A w \in W : \E i \in 1..n : f[i] = w
    BY DEF PrefixSet
  <1>4. f \in Bijection(1..n, W)
    BY <1>2, <1>3 DEF Bijection, Injection, Surjection, IsInjective
  <1>5. ExistsBijection(1..n, W)
    BY <1>4 DEF ExistsBijection
  <1>6. IsFiniteSet(1..n) /\ Cardinality(1..n) = n
    BY <1>1, FS_Interval, SMT
  <1>7. QED
    BY <1>5, <1>6, FS_Bijection

\* RemoveAt of the library, place by place.
LEMMA RemoveAtFacts ==
    ASSUME NEW S, NEW s \in Seq(S), NEW k \in 1..Len(s)
    PROVE  /\ RemoveAt(s, k) \in Seq(S)
           /\ Len(s) \in Nat /\ Len(RemoveAt(s, k)) = Len(s) - 1
           /\ \A j \in 1..(Len(s) - 1) :
                RemoveAt(s, k)[j] = IF j < k THEN s[j] ELSE s[j + 1]
  <1> DEFINE a == SubSeq(s, 1, k - 1)
             b == SubSeq(s, k + 1, Len(s))
  <1>1. Len(s) \in Nat /\ \A j \in 1..Len(s) : s[j] \in S
    BY LenProperties, ElementOfSeq
  <1>2. /\ a \in Seq(S) /\ Len(a) = IF 1 <= k - 1 THEN (k - 1) - 1 + 1 ELSE 0
        /\ \A j \in 1..((k - 1) - 1 + 1) : a[j] = s[1 + j - 1]
    <2>1. \A j \in 1..(k - 1) : s[j] \in S
      BY <1>1, SMT
    <2>2. 1 \in Int /\ k - 1 \in Int
      BY SMT
    <2>3. QED
      BY <2>1, <2>2, SubSeqProperties
  <1>3. /\ b \in Seq(S)
        /\ Len(b) = IF k + 1 <= Len(s) THEN Len(s) - (k + 1) + 1 ELSE 0
        /\ \A j \in 1..(Len(s) - (k + 1) + 1) : b[j] = s[(k + 1) + j - 1]
    <2>1. \A j \in (k + 1)..Len(s) : s[j] \in S
      BY <1>1, SMT
    <2>2. k + 1 \in Int /\ Len(s) \in Int
      BY <1>1, SMT
    <2>3. QED
      BY <2>1, <2>2, SubSeqProperties
  <1>4. /\ a \o b \in Seq(S)
        /\ Len(a \o b) = Len(a) + Len(b)
        /\ \A j \in 1..(Len(a) + Len(b)) :
             (a \o b)[j] = IF j <= Len(a) THEN a[j] ELSE b[j - Len(a)]
    BY <1>2, <1>3, ConcatProperties
  <1>5. Len(a) = k - 1 /\ Len(b) = Len(s) - k
    BY <1>1, <1>2, <1>3, SMT
  <1> HIDE DEF a, b
  <1>6. ASSUME NEW j \in 1..(Len(s) - 1)
        PROVE  (a \o b)[j] = IF j < k THEN s[j] ELSE s[j + 1]
    <2>1. (a \o b)[j] = IF j <= k - 1 THEN a[j] ELSE b[j - (k - 1)]
      BY <1>1, <1>4, <1>5, SMT
    <2>2. CASE j < k
      BY <1>2, <2>1, <2>2, SMT
    <2>3. CASE ~(j < k)
      <3>1. j - (k - 1) \in 1..(Len(s) - (k + 1) + 1)
        BY <1>1, <2>3, SMT
      <3>2. b[j - (k - 1)] = s[(k + 1) + (j - (k - 1)) - 1]
        BY <1>3, <3>1
      <3>3. (k + 1) + (j - (k - 1)) - 1 = j + 1
        BY <1>1, SMT
      <3>4. QED
        BY <2>1, <2>3, <3>2, <3>3, SMT
    <2>4. QED
      BY <2>2, <2>3
  <1>7. Len(a \o b) = Len(s) - 1
    BY <1>1, <1>4, <1>5, SMT
  <1>8. QED
    BY <1>1, <1>4, <1>6, <1>7 DEF RemoveAt, a, b

\* No entry twice, place by place; IsInjective says so of the function.
LEMMA NoRepetition ==
    ASSUME NEW S, NEW s \in Seq(S)
    PROVE  /\ IsInjective(s) <=> \A i, j \in 1..Len(s) : s[i] = s[j] => i = j
           /\ \A x : x \in ToSet(s) <=> \E i \in 1..Len(s) : s[i] = x
           /\ DOMAIN s = 1..Len(s)
  BY LenProperties DEF IsInjective, ToSet

\* The empty list, and which lists are empty.
LEMMA EmptyList ==
    ASSUME NEW S
    PROVE  /\ << >> \in Seq(S) /\ Len(<< >>) = 0 /\ IsInjective(<< >>)
           /\ \A x : x \notin ToSet(<< >>)
           /\ \A s \in Seq(S) : s # << >> <=> \E x \in S : x \in ToSet(s)
  <1>1. << >> \in Seq(S) /\ Len(<< >>) = 0
    BY EmptySeq
  <1>2. \A k \in 1..0 : FALSE
    BY SMT
  <1>3. IsInjective(<< >>) /\ \A x : x \notin ToSet(<< >>)
    <2>1. 1..Len(<< >>) = {}
      BY <1>1, <1>2
    <2>2. QED
      BY <1>1, <2>1, NoRepetition
  <1>4. ASSUME NEW s \in Seq(S), s # << >> PROVE \E x \in S : x \in ToSet(s)
    <2>1. 1 \in 1..Len(s)
      BY <1>4, EmptySeq, SMT
    <2>2. s[1] \in S /\ s[1] \in ToSet(s)
      BY <2>1, ElementOfSeq, NoRepetition
    <2>3. QED
      BY <2>2
  <1>5. QED
    BY <1>1, <1>3, <1>4

\* Taking an entry out of a list without repetition moves up those behind it
\* and leaves the rest as it was.
LEMMA RemoveFirstFacts ==
    ASSUME NEW S, NEW s \in Seq(S), IsInjective(s), NEW x
    PROVE  LET r == RemoveFirst(s, x)
           IN  /\ r \in Seq(S) /\ IsInjective(r)
               /\ Len(s) \in Nat /\ Len(r) \in Nat /\ Len(r) <= Len(s)
               /\ x \notin ToSet(s) => r = s
               /\ \A k \in 1..Len(s) : s[k] = x =>
                    /\ Len(r) = Len(s) - 1
                    /\ \A j \in 1..Len(r) :
                         r[j] = IF j < k THEN s[j] ELSE s[j + 1]
               /\ \A y : y \in ToSet(r) <=> y \in ToSet(s) /\ y # x
  <1> DEFINE r == RemoveFirst(s, x)
  <1>1. /\ Len(s) \in Nat
        /\ \A i, j \in 1..Len(s) : s[i] = s[j] => i = j
        /\ \A y : y \in ToSet(s) <=> \E i \in 1..Len(s) : s[i] = y
    BY NoRepetition, LenProperties
  <1>2. CASE x \notin ToSet(s)
    <2>1. r = s
      BY <1>1, <1>2 DEF RemoveFirst
    <2>2. QED
      BY <1>1, <1>2, <2>1, SMT
  <1>3. CASE x \in ToSet(s)
    <2>1. PICK k \in 1..Len(s) : s[k] = x
      BY <1>1, <1>3
    <2>2. SelectInSeq(s, LAMBDA v : v = x) = k
      BY <1>1, <2>1, SMT DEF SelectInSeq, Min
    <2>3. r = RemoveAt(s, k)
      BY <2>1, <2>2 DEF RemoveFirst
    <2>4. /\ r \in Seq(S) /\ Len(r) = Len(s) - 1 /\ Len(r) \in Nat
          /\ \A j \in 1..Len(r) : r[j] = IF j < k THEN s[j] ELSE s[j + 1]
      <3>1. /\ r \in Seq(S) /\ Len(r) = Len(s) - 1
            /\ \A j \in 1..(Len(s) - 1) :
                 r[j] = IF j < k THEN s[j] ELSE s[j + 1]
        BY <2>3, RemoveAtFacts
      <3> HIDE DEF r
      <3>2. Len(r) \in Nat
        BY <1>1, <3>1, SMT
      <3>3. QED
        BY <3>1, <3>2
    <2> HIDE DEF r
    <2>5. \A i, j \in 1..Len(r) : r[i] = r[j] => i = j
      BY <1>1, <2>4, SMT
    <2>6. \A m \in 1..Len(s) : s[m] = x => m = k
      BY <1>1, <2>1
    <2>7. ASSUME NEW y, y \in ToSet(r) PROVE y \in ToSet(s) /\ y # x
      <3>1. PICK j \in 1..Len(r) : r[j] = y
        BY <2>4, <2>7, NoRepetition
      <3>2. PICK m \in 1..Len(s) : y = s[m] /\ m # k
        BY <1>1, <2>4, <3>1, SMT
      <3>3. QED
        BY <1>1, <2>6, <3>2
    <2>8. ASSUME NEW y, y \in ToSet(s), y # x PROVE y \in ToSet(r)
      <3>1. PICK m \in 1..Len(s) : s[m] = y
        BY <1>1, <2>8
      <3>2. m # k
        BY <2>1, <2>8, <3>1
      <3>3. PICK j \in 1..Len(r) : m = IF j < k THEN j ELSE j + 1
        <4>1. CASE m < k
          BY <1>1, <2>4, <4>1, SMT
        <4>2. CASE m > k
          <5>1. m - 1 \in 1..Len(r) /\ ~(m - 1 < k) /\ m = (m - 1) + 1
            BY <1>1, <2>4, <4>2, SMT
          <5>2. QED
            BY <5>1
        <4>3. QED
          BY <1>1, <3>2, <4>1, <4>2, SMT
      <3>4. r[j] = y
        BY <2>4, <3>1, <3>3
      <3>5. QED
        BY <2>4, <3>4, NoRepetition
    <2>9. QED
      BY <1>1, <1>3, <2>4, <2>5, <2>6, <2>7, <2>8, NoRepetition, SMTT(30) DEF r
  <1>4. QED
    BY <1>2, <1>3

\* A thread that was not in the list joins it behind all others.
LEMMA Joined ==
    ASSUME NEW S, NEW s \in Seq(S), IsInjective(s), NEW x \in S, x \notin ToSet(s)
    PROVE  /\ Append(s, x) \in Seq(S) /\ IsInjective(Append(s, x))
           /\ Len(Append(s, x)) = Len(s) + 1 /\ Len(s) \in Nat
           /\ \A i \in 1..Len(s) : Append(s, x)[i] = s[i]
           /\ Append(s, x)[Len(s) + 1] = x
           /\ \A y : y \in ToSet(Append(s, x)) <=> y \in ToSet(s) \/ y = x
  <1> DEFINE r == Append(s, x)
  <1>1. /\ r \in Seq(S) /\ Len(s) \in Nat /\ Len(r) = Len(s) + 1
        /\ \A i \in 1..Len(s) : r[i] = s[i]
        /\ r[Len(s) + 1] = x
    BY AppendFacts
  <1>2. /\ \A i, j \in 1..Len(s) : s[i] = s[j] => i = j
        /\ \A y : y \in ToSet(s) <=> \E i \in 1..Len(s) : s[i] = y
    BY NoRepetition
  <1> HIDE DEF r
  <1>3. \A i \in 1..Len(r) : i \in 1..Len(s) \/ i = Len(s) + 1
    BY <1>1, SMT
  <1>4. /\ \A i \in 1..Len(s) : i \in 1..Len(r)
        /\ Len(s) + 1 \in 1..Len(r)
    BY <1>1, SMT
  <1>5. \A y : (\E i \in 1..Len(r) : r[i] = y) <=> y \in ToSet(s) \/ y = x
    BY <1>1, <1>2, <1>3, <1>4
  <1>6. \A i, j \in 1..Len(r) : r[i] = r[j] => i = j
    BY <1>1, <1>2, <1>3
  <1>7. QED
    BY <1>1, <1>5, <1>6, NoRepetition DEF r

\* A list without repetition is no longer than the set its entries are from.
LEMMA ListLength ==
    ASSUME NEW S, IsFiniteSet(S), NEW s \in Seq(S), IsInjective(s)
    PROVE  Len(s) <= Cardinality(S) /\ Cardinality(S) \in Nat
  <1>1. /\ Len(s) \in Nat /\ Cardinality(S) \in Nat
        /\ \A i, j \in 1..Len(s) : s[i] = s[j] => i = j
    BY NoRepetition, LenProperties, FS_CardinalityType
  <1>2. CASE Len(s) = 0
    BY <1>1, <1>2, SMT
  <1>3. CASE Len(s) # 0
    <2>1. Len(s) \in 1..Len(s)
      BY <1>1, <1>3, SMT
    <2>2. Cardinality(PrefixSet(s, Len(s))) = Len(s)
      BY <1>1, <2>1, PrefixCardinality
    <2>3. PrefixSet(s, Len(s)) \subseteq S
      BY ElementOfSeq DEF PrefixSet
    <2>4. QED
      BY <1>1, <2>2, <2>3, FS_Subset, SMT
  <1>4. QED
    BY <1>2, <1>3

-------------------------------------------------------------------------------
\* Numbers.

\* A set of numbers with a member has a least one.
LEMMA SmallestOf ==
    ASSUME NEW S \in SUBSET Nat, S # {}
    PROVE  Min(S) \in S /\ \A x \in S : Min(S) <= x
  <1> DEFINE R == OpToRel(<, Nat)
  <1>1. IsWellFoundedOn(R, Nat)
    BY NatLessThanWellFounded
  <1> HIDE DEF R
  <1>2. PICK x \in S : \A y \in S : ~(<<y, x>> \in R)
    <2>1. \E x \in S : \A y \in S : ~(<<y, x>> \in R)
      BY <1>1, WFMin
    <2>2. QED
      BY <2>1
  <1>3. \A y \in S : x <= y
    <2>1. \A y \in Nat : y < x => <<y, x>> \in R
      BY DEF R, OpToRel
    <2>2. x \in Nat /\ \A y \in S : y \in Nat
      OBVIOUS
    <2>3. \A y \in S : ~(y < x)
      BY <1>2, <2>1, <2>2
    <2>4. QED
      BY <2>2, <2>3, SMT
  <1>4. QED
    BY <1>3 DEF Min

-------------------------------------------------------------------------------

N == Cardinality(Threads)

\* The place of the thread the search starts behind, 0 if it starts at the
\* head: the running thread, or the one that just left the processor.
Behind(q) ==
    IF running # NoThread THEN q = 1
    ELSE IF last \in Runnable THEN q \in DOMAIN rtr /\ rtr[q] = last
    ELSE q = 0

\* In a run queue of n threads with the search to start behind place q: how
\* many threads it meets before it comes to place i, and how many others are
\* not behind that place.  r is 1 while a thread runs, and 0 in switch_thread.
Ahead(n, q, i) == IF i > q THEN i - q - 1 ELSE n - q + i - 1
Others(n, r, q, i) == Ahead(n, q, i) + (N - n) + r

\* Twice as often as the search can still stop before place i.
Left(n, r, q, i) ==
    IF i > q
    THEN 2 * Ahead(n, q, i) + Others(n, r, q, i) * (Others(n, r, q, i) - 1)
    ELSE Others(n, r, q, i) * (Others(n, r, q, i) + 1)

Busy == IF running # NoThread THEN 1 ELSE 0

Shape ==
    /\ TypeOK /\ RunningIsHead
    /\ rtr \in Seq(Threads)
    /\ running # NoThread => last = NoThread

Counted ==
    /\ waited \in [Threads -> Nat]
    /\ \A t \in Threads : t \notin Runnable \/ t = running \/ t = last
                            => waited[t] = 0

\* How often a thread has waited, and will yet, is not more than the bound.
Within(w, n, r, q, i) == 2 * w + Left(n, r, q, i) <= N * (N - 1)

Account ==
    \A i \in 1..Len(rtr), q \in 0..Len(rtr) :
        Behind(q) /\ rtr[i] # running =>
            Within(waited[rtr[i]], Len(rtr), Busy, q, i)

IInv == Shape /\ Counted /\ Account

-------------------------------------------------------------------------------
\* N counts the threads.
LEMMA ThreadCount == N \in Nat
  BY SchedulerAssumption, FS_CardinalityType DEF N

\* What the type of the run queue says of its places.
LEMMA Places ==
    ASSUME NEW s \in Seq(Threads), IsInjective(s)
    PROVE  /\ Len(s) \in Nat /\ Len(s) <= N /\ N \in Nat
           /\ DOMAIN s = 1..Len(s)
           /\ \A i \in 1..Len(s) : s[i] \in Threads /\ s[i] # NoThread
           /\ \A i, j \in 1..Len(s) : s[i] = s[j] => i = j
           /\ \A x : x \in ToSet(s) <=> \E i \in 1..Len(s) : s[i] = x
  <1>1. Len(s) <= N
    BY SchedulerAssumption, ListLength DEF N
  <1>2. \A i \in 1..Len(s) : s[i] \in Threads /\ s[i] # NoThread
    BY ElementOfSeq, SchedulerAssumption
  <1>3. QED
    BY <1>1, <1>2, ThreadCount, LenProperties, NoRepetition

\* What the solver needs to compare products of one number and the next.
LEMMA Products ==
    /\ \A a, b \in Nat : a <= b => a * (a + 1) <= b * (b + 1)
    /\ \A a, b \in Nat : a <= b => a * (a - 1) <= b * (b - 1)
    /\ \A a \in Nat : a * (a + 1) = a * (a - 1) + 2 * a
    /\ \A a \in Nat : (a + 1) * ((a + 1) - 1) = a * (a + 1)
    /\ \A a \in Nat : a * (a + 1) \in Nat /\ a * (a - 1) \in Int
  <1>1. \A a, b \in Nat : a <= b => a * (a + 1) <= b * (b + 1)
    BY SMT
  <1>2. \A a, b \in Nat : a <= b => a * (a - 1) <= b * (b - 1)
    BY SMT
  <1>3. \A a \in Nat : a * (a + 1) = a * (a - 1) + 2 * a
    BY SMT
  <1>4. \A a \in Nat : (a + 1) * ((a + 1) - 1) = a * (a + 1)
    BY SMT
  <1>5. \A a \in Nat : a * (a + 1) \in Nat /\ a * (a - 1) \in Int
    BY SMT
  <1>6. QED
    BY <1>1, <1>2, <1>3, <1>4, <1>5

\* Left is an integer, since the product it halves is even.
LEMMA LeftInt ==
    ASSUME NEW n \in Nat, NEW r \in {0, 1}, NEW q \in 0..n, NEW i \in 1..n
    PROVE  Left(n, r, q, i) \in Int
  <1>1. Ahead(n, q, i) \in Int /\ Others(n, r, q, i) \in Int
    BY ThreadCount, SMT DEF Ahead, Others
  <1>2. \A a, o \in Int : 2 * a + o * (o - 1) \in Int /\ o * (o + 1) \in Int
    BY SMT
  <1>3. QED
    BY <1>1, <1>2 DEF Left

\* Left is not negative in any state.
LEMMA LeftNat ==
    ASSUME Shape, NEW q \in 0..Len(rtr), NEW i \in 1..Len(rtr)
    PROVE  Left(Len(rtr), Busy, q, i) \in Nat
  <1> DEFINE n == Len(rtr)
             a == Ahead(n, q, i)
             o == Others(n, Busy, q, i)
  <1>1. n \in Nat /\ n <= N /\ N \in Nat /\ Busy \in {0, 1}
    BY Places DEF Shape, TypeOK, Busy
  <1>2. a \in Nat /\ o \in Nat
    BY <1>1, SMT DEF Ahead, Others
  <1> HIDE DEF a, o, n
  <1>3. 2 * a + o * (o - 1) \in Nat /\ o * (o + 1) \in Nat
    <2>1. \A x \in Nat : x * (x - 1) \in Nat /\ x * (x + 1) \in Nat
      BY SMT
    <2>2. \A x, y \in Nat : 2 * x + y \in Nat
      BY SMT
    <2>3. QED
      BY <1>2, <2>1, <2>2
  <1>4. QED
    BY <1>3 DEF Left, a, o, n

\* What is left starts below the bound, wherever a thread is.
LEMMA LeftAtMost ==
    ASSUME NEW n \in Nat, n <= N, NEW r \in {0, 1}, NEW q \in 0..n,
           NEW i \in 1..n, r = 1 => q = 1 /\ i # 1
    PROVE  Left(n, r, q, i) <= N * (N - 1)
  <1> DEFINE a == Ahead(n, q, i)
             o == Others(n, r, q, i)
  <1>1. a \in Nat /\ o \in Nat /\ a <= N - 1 /\ o <= N - 1
    BY ThreadCount, SMT DEF Ahead, Others
  <1>2. N - 1 \in Nat /\ N = (N - 1) + 1
    BY <1>1, ThreadCount, SMT
  <1>3. N * (N - 1) = (N - 1) * ((N - 1) + 1)
    BY <1>2, ThreadCount, Products
  <1> HIDE DEF a, o
  <1>4. CASE i > q
    <2>1. Left(n, r, q, i) = 2 * a + o * (o - 1)
      BY <1>4 DEF Left, a, o
    <2>2. o * (o - 1) <= (N - 1) * ((N - 1) - 1)
      BY <1>1, <1>2, Products
    <2>3. (N - 1) * ((N - 1) + 1) = (N - 1) * ((N - 1) - 1) + 2 * (N - 1)
      BY <1>2, Products
    <2>4. o * (o - 1) \in Int /\ (N - 1) * ((N - 1) - 1) \in Int
      BY <1>1, <1>2, Products
    <2>5. \A x, y \in Int : x <= y => 2 * a + x <= y + 2 * (N - 1)
      BY <1>1, <1>2, SMT
    <2>6. QED
      BY <1>3, <2>1, <2>2, <2>3, <2>4, <2>5
  <1>5. CASE ~(i > q)
    <2>1. Left(n, r, q, i) = o * (o + 1)
      BY <1>5 DEF Left, o
    <2>2. QED
      BY <1>1, <1>2, <1>3, <2>1, Products
  <1>6. QED
    BY <1>4, <1>5

\* The four ways what is left changes: a thread yields, a thread blocks, one
\* is woken (y is its new place, 0 if the search does not start behind it),
\* and the search finds the thread f threads on.
LEMMA LeftByYield ==
    ASSUME NEW n \in Nat, n <= N, NEW i \in 2..n
    PROVE  Left(n, 0, 1, i) <= Left(n, 1, 1, i)
  <1> DEFINE a == i - 2
             o == i - 2 + (N - n)
  <1>1. a \in Nat /\ o \in Nat /\ o + 1 \in Nat
    BY ThreadCount, SMT
  <1>2. /\ i > 1 /\ Ahead(n, 1, i) = a
        /\ Others(n, 0, 1, i) = o /\ Others(n, 1, 1, i) = o + 1
    BY ThreadCount, SMT DEF Ahead, Others
  <1> HIDE DEF a, o
  <1>3. /\ Left(n, 0, 1, i) = 2 * a + o * (o - 1)
        /\ Left(n, 1, 1, i) = 2 * a + (o + 1) * ((o + 1) - 1)
    BY <1>2 DEF Left
  <1>4. /\ o * (o - 1) <= (o + 1) * ((o + 1) - 1)
        /\ o * (o - 1) \in Int /\ (o + 1) * ((o + 1) - 1) \in Int
    <2>1. o <= o + 1
      BY <1>1, SMT
    <2>2. QED
      BY <1>1, <2>1, Products
  <1>5. \A x, y \in Int : x <= y => 2 * a + x <= 2 * a + y
    BY <1>1, SMT
  <1>6. QED
    BY <1>3, <1>4, <1>5

\* Blocking takes nothing from anyone's account.
LEMMA LeftByBlock ==
    ASSUME NEW n \in Nat, NEW i \in 1..(n - 1)
    PROVE  Left(n - 1, 0, 0, i) = Left(n, 1, 1, i + 1)
  <1>1. /\ Ahead(n - 1, 0, i) = i - 1 /\ Ahead(n, 1, i + 1) = i - 1
        /\ i > 0 /\ i + 1 > 1
    BY SMT DEF Ahead
  <1>2. Others(n - 1, 0, 0, i) = Others(n, 1, 1, i + 1)
    BY <1>1, ThreadCount, SMT DEF Others
  <1>3. QED
    BY <1>1, <1>2 DEF Left

\* A wakeup adds to the run queue what it takes from outside it.
LEMMA LeftByWakeup ==
    ASSUME NEW n \in Nat, n + 1 <= N, NEW r \in {0, 1}, NEW q \in 0..n,
           NEW i \in 1..n, r = 1 => q = 1 /\ i # 1
    PROVE  Left(n + 1, r, q, i) <= Left(n, r, q, i)
  <1> DEFINE a == Ahead(n, q, i)
             o == Others(n, r, q, i)
  <1>1. CASE i > q
    <2>1. a \in Nat /\ o \in Nat /\ (o > 0 => o - 1 \in Nat)
      BY <1>1, ThreadCount, SMT DEF Ahead, Others
    <2>2. Ahead(n + 1, q, i) = a /\ Others(n + 1, r, q, i) = o - 1 /\ o > 0
      BY <1>1, ThreadCount, SMT DEF Ahead, Others
    <2> HIDE DEF a, o
    <2>3. /\ Left(n, r, q, i) = 2 * a + o * (o - 1)
          /\ Left(n + 1, r, q, i) = 2 * a + (o - 1) * ((o - 1) - 1)
      BY <1>1, <2>2 DEF Left, a, o
    <2>4. /\ (o - 1) * ((o - 1) - 1) <= o * (o - 1)
          /\ o * (o - 1) \in Int /\ (o - 1) * ((o - 1) - 1) \in Int
      <3>1. o - 1 <= o
        BY <2>1, SMT
      <3>2. QED
        BY <2>1, <2>2, <3>1, Products
    <2>5. \A x, y \in Int : x <= y => 2 * a + x <= 2 * a + y
      BY <2>1, SMT
    <2>6. QED
      BY <2>3, <2>4, <2>5
  <1>2. CASE ~(i > q)
    <2>1. Others(n + 1, r, q, i) = o /\ o \in Nat
      BY <1>2, ThreadCount, SMT DEF Ahead, Others
    <2> HIDE DEF a, o
    <2>2. /\ Left(n, r, q, i) = o * (o + 1)
          /\ Left(n + 1, r, q, i) = o * (o + 1)
      BY <1>2, <2>1 DEF Left, o
    <2>3. o * (o + 1) \in Int
      BY <2>1, SMT
    <2>4. QED
      BY <2>2, <2>3, SMT
  <1>3. QED
    BY <1>1, <1>2

\* The one wakeup that moves the search's start: the thread that just blocked.
LEMMA LeftByWakeupOfLast ==
    ASSUME NEW n \in Nat, n + 1 <= N, NEW i \in 1..n
    PROVE  Left(n + 1, 0, n + 1, i) <= Left(n, 0, 0, i)
  <1> DEFINE a == i - 1
             o == i - 1 + (N - n)
  <1>1. a \in Nat /\ o \in Nat /\ o - 1 \in Nat
    BY ThreadCount, SMT
  <1>2. /\ Ahead(n, 0, i) = a /\ Others(n, 0, 0, i) = o
        /\ Others(n + 1, 0, n + 1, i) = o - 1
        /\ i > 0 /\ ~(i > n + 1)
    BY ThreadCount, SMT DEF Ahead, Others
  <1> HIDE DEF a, o
  <1>3. /\ Left(n, 0, 0, i) = 2 * a + o * (o - 1)
        /\ Left(n + 1, 0, n + 1, i) = (o - 1) * ((o - 1) + 1)
    BY <1>2 DEF Left
  <1>4. (o - 1) * ((o - 1) + 1) = o * (o - 1)
    BY <1>1, SMT
  <1>5. o * (o - 1) \in Int
    BY <1>1, SMT
  <1>6. \A x \in Int : x <= 2 * a + x
    BY <1>1, SMT
  <1>7. QED
    BY <1>3, <1>4, <1>5, <1>6

\* A switch to a thread before t costs one turn.
LEMMA LeftBySwitch ==
    ASSUME NEW n \in Nat, n <= N, NEW q \in 0..n, NEW i \in 1..n,
           NEW f \in Nat, f < Ahead(n, q, i)
    PROVE  Left(n, 1, 1, Ahead(n, q, i) - f + 1) + 2 <= Left(n, 0, q, i)
  <1> DEFINE a == Ahead(n, q, i)
             o == Others(n, 0, q, i)
             b == a - f - 1
             p == b + (N - n) + 1
  <1>1. /\ a \in Nat /\ o \in Nat /\ b \in Nat /\ p \in Nat
        /\ b + 1 <= a /\ p <= o /\ a <= o
        /\ a - f + 1 > 1 /\ b = (a - f + 1) - 1 - 1
    BY ThreadCount, SMT DEF Ahead, Others
  <1>2. /\ Ahead(n, 1, a - f + 1) = b
        /\ Others(n, 1, 1, a - f + 1) = p
    BY <1>1 DEF Ahead, Others
  <1> HIDE DEF a, o, b, p
  <1>3. Left(n, 1, 1, a - f + 1) = 2 * b + p * (p - 1)
    BY <1>1, <1>2 DEF Left
  <1>4. p * (p - 1) <= o * (o - 1) /\ p * (p - 1) \in Int /\ o * (o - 1) \in Int
    BY <1>1, Products
  <1>5. \A x, y \in Int : x <= y => 2 * b + x + 2 <= 2 * a + y
    BY <1>1, SMT
  <1>6. CASE i > q
    <2>1. Left(n, 0, q, i) = 2 * a + o * (o - 1)
      BY <1>6 DEF Left, a, o
    <2>2. QED
      BY <1>3, <1>4, <1>5, <2>1 DEF a
  <1>7. CASE ~(i > q)
    <2>1. Left(n, 0, q, i) = o * (o - 1) + 2 * o
      BY <1>1, <1>7, Products DEF Left, o
    <2>2. \A x, y \in Int : x <= y => 2 * b + x + 2 <= y + 2 * o
      BY <1>1, SMT
    <2>3. QED
      BY <1>3, <1>4, <2>1, <2>2 DEF a
  <1>8. QED
    BY <1>6, <1>7

-------------------------------------------------------------------------------
\* rtr_queue_make_first turns the circle: what was e - 1 places behind the new
\* head is in place e.
LEMMA Turned ==
    ASSUME NEW S, NEW s \in Seq(S), IsInjective(s), NEW f \in 1..Len(s)
    PROVE  LET r == SubSeq(s, f, Len(s)) \o SubSeq(s, 1, f - 1)
           IN  /\ r \in Seq(S) /\ Len(r) = Len(s) /\ IsInjective(r)
               /\ \A e \in 1..Len(s) :
                    r[e] = IF f + e - 1 <= Len(s) THEN s[f + e - 1]
                           ELSE s[f + e - 1 - Len(s)]
               /\ \A x : x \in ToSet(r) <=> x \in ToSet(s)
  <1> DEFINE a == SubSeq(s, f, Len(s))
             b == SubSeq(s, 1, f - 1)
             r == a \o b
  <1>1. /\ Len(s) \in Nat /\ \A j \in 1..Len(s) : s[j] \in S
        /\ \A i, j \in 1..Len(s) : s[i] = s[j] => i = j
        /\ \A x : x \in ToSet(s) <=> \E i \in 1..Len(s) : s[i] = x
    BY LenProperties, ElementOfSeq, NoRepetition
  <1>2. /\ a \in Seq(S)
        /\ Len(a) = IF f <= Len(s) THEN Len(s) - f + 1 ELSE 0
        /\ \A j \in 1..(Len(s) - f + 1) : a[j] = s[f + j - 1]
    <2>1. \A j \in f..Len(s) : s[j] \in S
      BY <1>1, SMT
    <2>2. f \in Int /\ Len(s) \in Int
      BY <1>1, SMT
    <2>3. QED
      BY <2>1, <2>2, SubSeqProperties
  <1>3. /\ b \in Seq(S)
        /\ Len(b) = IF 1 <= f - 1 THEN (f - 1) - 1 + 1 ELSE 0
        /\ \A j \in 1..((f - 1) - 1 + 1) : b[j] = s[1 + j - 1]
    <2>1. \A j \in 1..(f - 1) : s[j] \in S
      BY <1>1, SMT
    <2>2. 1 \in Int /\ f - 1 \in Int
      BY <1>1, SMT
    <2>3. QED
      BY <2>1, <2>2, SubSeqProperties
  <1>4. /\ r \in Seq(S) /\ Len(r) = Len(a) + Len(b)
        /\ \A j \in 1..(Len(a) + Len(b)) :
             r[j] = IF j <= Len(a) THEN a[j] ELSE b[j - Len(a)]
    BY <1>2, <1>3, ConcatProperties
  <1>5. Len(a) = Len(s) - f + 1 /\ Len(b) = f - 1
    BY <1>1, <1>2, <1>3, SMT
  <1> HIDE DEF a, b, r
  <1>6. Len(r) = Len(s)
    BY <1>1, <1>4, <1>5, SMT
  <1>7. ASSUME NEW e \in 1..Len(s)
        PROVE  r[e] = IF f + e - 1 <= Len(s) THEN s[f + e - 1]
                      ELSE s[f + e - 1 - Len(s)]
    <2>1. r[e] = IF e <= Len(s) - f + 1 THEN a[e] ELSE b[e - (Len(s) - f + 1)]
      BY <1>4, <1>5, <1>6
    <2>2. CASE f + e - 1 <= Len(s)
      <3>1. e <= Len(s) - f + 1 /\ e \in 1..(Len(s) - f + 1)
        BY <1>1, <2>2, SMT
      <3>2. QED
        BY <1>2, <2>1, <2>2, <3>1
    <2>3. CASE ~(f + e - 1 <= Len(s))
      <3> DEFINE j == e - (Len(s) - f + 1)
      <3>1. /\ ~(e <= Len(s) - f + 1)
            /\ j \in 1..((f - 1) - 1 + 1) /\ 1 + j - 1 = f + e - 1 - Len(s)
        BY <1>1, <2>3, SMT
      <3> HIDE DEF j
      <3>2. b[j] = s[f + e - 1 - Len(s)]
        BY <1>3, <3>1
      <3>3. QED
        BY <2>1, <2>3, <3>1, <3>2 DEF j
    <2>4. QED
      BY <2>2, <2>3
  <1>8. ASSUME NEW i \in 1..Len(r), NEW j \in 1..Len(r), r[i] = r[j]
        PROVE  i = j
    <2> DEFINE g(e) == IF f + e - 1 <= Len(s) THEN f + e - 1
                       ELSE f + e - 1 - Len(s)
    <2>1. \A e \in 1..Len(s) : g(e) \in 1..Len(s) /\ r[e] = s[g(e)]
      <3>1. \A e \in 1..Len(s) : g(e) \in 1..Len(s)
        BY <1>1, SMT
      <3>2. QED
        BY <1>7, <3>1
    <2>2. g(i) = g(j)
      <3> HIDE DEF g
      <3>1. QED
        BY <1>1, <1>6, <1>8, <2>1, SMTT(30)
    <2>3. QED
      BY <1>1, <1>6, <2>2, SMT
  <1>9. ASSUME NEW x PROVE x \in ToSet(r) <=> x \in ToSet(s)
    <2>1. x \in ToSet(r) <=> \E i \in 1..Len(s) : r[i] = x
      BY <1>4, <1>6, NoRepetition
    <2>2. ASSUME NEW i \in 1..Len(s) PROVE \E j \in 1..Len(s) : r[i] = s[j]
      BY <1>1, <1>7, SMT
    <2>3. ASSUME NEW j \in 1..Len(s) PROVE \E i \in 1..Len(s) : r[i] = s[j]
      <3>1. CASE j >= f
        <4>1. /\ j - f + 1 \in 1..Len(s) /\ f + (j - f + 1) - 1 = j
              /\ j <= Len(s)
          BY <1>1, <3>1, SMT
        <4>2. QED
          BY <1>7, <4>1
      <3>2. CASE j < f
        <4>1. /\ j + Len(s) - f + 1 \in 1..Len(s)
              /\ ~(f + (j + Len(s) - f + 1) - 1 <= Len(s))
              /\ f + (j + Len(s) - f + 1) - 1 - Len(s) = j
          BY <1>1, <3>2, SMT
        <4>2. QED
          BY <1>7, <4>1
      <3>3. QED
        BY <1>1, <3>1, <3>2, SMT
    <2>4. QED
      BY <1>1, <2>1, <2>2, <2>3, ZenonT(30)
  <1>10. IsInjective(r)
    BY <1>4, <1>8, NoRepetition
  <1>11. QED
    BY <1>4, <1>6, <1>7, <1>9, <1>10 DEF r, a, b

-------------------------------------------------------------------------------
\* The run queue as a circle of different threads, headed by the running one.
LEMMA Circle ==
    ASSUME Shape
    PROVE  /\ Len(rtr) \in Nat /\ Len(rtr) <= N /\ N \in Nat
           /\ \A i \in 1..Len(rtr) : rtr[i] \in Threads /\ rtr[i] # NoThread
           /\ \A i, j \in 1..Len(rtr) : rtr[i] = rtr[j] => i = j
           /\ \A x : x \in Runnable <=> \E i \in 1..Len(rtr) : rtr[i] = x
           /\ DOMAIN rtr = 1..Len(rtr)
           /\ rtr # << >> <=> Len(rtr) > 0
           /\ running # NoThread => 1 \in 1..Len(rtr) /\ rtr[1] = running
           /\ NoThread \notin Runnable
  <1>1. rtr \in Seq(Threads) /\ IsInjective(rtr)
    BY DEF Shape, TypeOK
  <1>2. rtr # << >> <=> Len(rtr) > 0
    BY <1>1, Places, EmptySeq, SMT
  <1>3. running # NoThread => 1 \in 1..Len(rtr) /\ rtr[1] = running
    BY <1>1, QueueFacts DEF Shape, RunningIsHead
  <1>4. QED
    BY <1>1, <1>2, <1>3, Places DEF Runnable

\* There is one place the search starts behind.
LEMMA SomeBehind ==
    ASSUME Shape
    PROVE  \E q \in 0..Len(rtr) : Behind(q) /\ (running # NoThread => q = 1)
  <1>1. CASE running # NoThread
    <2>1. 1 \in 0..Len(rtr)
      BY <1>1, Circle, SMT
    <2>2. QED
      BY <1>1, <2>1 DEF Behind
  <1>2. CASE running = NoThread /\ last \in Runnable
    <2>1. PICK i \in 1..Len(rtr) : rtr[i] = last
      BY <1>2, Circle
    <2>2. i \in 0..Len(rtr)
      BY Circle, SMT
    <2>3. QED
      BY <1>2, <2>1, <2>2, Circle DEF Behind
  <1>3. CASE running = NoThread /\ last \notin Runnable
    <2>1. 0 \in 0..Len(rtr)
      BY Circle, SMT
    <2>2. QED
      BY <1>3, <2>1 DEF Behind
  <1>4. QED
    BY <1>1, <1>2, <1>3

\* switch_thread begins its search right behind the place q.
LEMMA StartsBehind ==
    ASSUME Shape, running = NoThread, rtr # << >>,
           NEW q \in 0..Len(rtr), Behind(q)
    PROVE  /\ Start = IF q = Len(rtr) THEN 1 ELSE q + 1
           /\ Start \in 1..Len(rtr)
  <1>1. Len(rtr) \in Nat \ {0}
    BY Circle, SMT
  <1>2. CASE last \in Runnable
    <2>1. q \in 1..Len(rtr) /\ rtr[q] = last
      BY <1>2, Circle DEF Behind
    <2>2. (CHOOSE i \in DOMAIN rtr : rtr[i] = last) = q
      BY <2>1, Circle
    <2>3. Start = (q % Len(rtr)) + 1
      BY <1>2, <2>2 DEF Start
    <2>4. q % Len(rtr) = IF q = Len(rtr) THEN 0 ELSE q
      BY <1>1, <2>1, SMT
    <2>5. QED
      BY <1>1, <2>1, <2>3, <2>4, SMT
  <1>3. CASE last \notin Runnable
    <2>1. Start = 1 /\ q = 0
      BY <1>3 DEF Start, Behind
    <2>2. QED
      BY <1>1, <2>1, SMT
  <1>4. QED
    BY <1>2, <1>3

\* The search comes round the circle, from the start to the thread it is
\* behind.
LEMMA Searched ==
    ASSUME NEW n \in Nat \ {0}, Len(rtr) = n, Start \in 1..n,
           NEW k \in 0..(n - 1)
    PROVE  /\ At(k) = IF Start + k <= n THEN Start + k ELSE Start + k - n
           /\ At(k) \in 1..n
  <1>1. /\ \A a \in 0..(n - 1) : a % n = a
        /\ \A a \in n..(2 * n - 1) : a % n = a - n
    BY SMT
  <1>2. CASE Start + k <= n
    <2>1. Start - 1 + k \in 0..(n - 1) /\ (Start - 1 + k) + 1 = Start + k
      BY <1>2, SMT
    <2>2. At(k) = Start + k
      BY <1>1, <2>1 DEF At
    <2>3. QED
      BY <1>2, <2>2, SMT
  <1>3. CASE ~(Start + k <= n)
    <2>1. /\ Start - 1 + k \in n..(2 * n - 1)
          /\ (Start - 1 + k - n) + 1 = Start + k - n
      BY <1>3, SMT
    <2>2. At(k) = Start + k - n
      BY <1>1, <2>1 DEF At
    <2>3. QED
      BY <1>3, <2>2, SMT
  <1>4. QED
    BY <1>2, <1>3

\* The thread at place i is met after Ahead others.
LEMMA MetAt ==
    ASSUME Shape, running = NoThread, rtr # << >>,
           NEW q \in 0..Len(rtr), Behind(q), NEW i \in 1..Len(rtr)
    PROVE  /\ Ahead(Len(rtr), q, i) \in 0..(Len(rtr) - 1)
           /\ At(Ahead(Len(rtr), q, i)) = i
  <1> DEFINE n == Len(rtr)
             k == Ahead(n, q, i)
  <1>1. n \in Nat \ {0}
    BY Circle, SMT
  <1>2. Start = (IF q = n THEN 1 ELSE q + 1) /\ Start \in 1..n
    BY StartsBehind
  <1>3. k = IF i > q THEN i - q - 1 ELSE n - q + i - 1
    BY DEF Ahead
  <1> HIDE DEF n, k
  <1>4. q \in 0..n /\ i \in 1..n
    BY DEF n
  <1>5. k \in 0..(n - 1)
    BY <1>1, <1>3, <1>4, SMT
  <1>6. i = IF Start + k <= n THEN Start + k ELSE Start + k - n
    BY <1>1, <1>2, <1>3, <1>4, SMT
  <1>7. At(k) = i
    BY <1>1, <1>2, <1>5, <1>6, Searched DEF n
  <1>8. QED
    BY <1>5, <1>7 DEF n, k

\* The search finds a thread: one of the most urgent is on the circle.
LEMMA FoundFacts ==
    ASSUME Shape, running = NoThread, rtr # << >>
    PROVE  /\ Found \in 0..(Len(rtr) - 1)
           /\ \A k \in 0..(Len(rtr) - 1) : Fit(k) => Found <= k
           /\ At(Found) \in 1..Len(rtr)
           /\ MostUrgent \in Nat
  <1> DEFINE P == {prio[t] : t \in Runnable}
             F == {k \in 0..(Len(rtr) - 1) : Fit(k)}
  <1>1. PICK q \in 0..Len(rtr) : Behind(q)
    BY SomeBehind
  <1>2. Len(rtr) \in Nat \ {0} /\ 1 \in 1..Len(rtr) /\ Start \in 1..Len(rtr)
    <2>1. Len(rtr) \in Nat \ {0} /\ 1 \in 1..Len(rtr)
      BY Circle, SMT
    <2>2. QED
      BY <1>1, <2>1, StartsBehind
  <1>3. P \in SUBSET Nat /\ P # {}
    <2>1. \A t \in Runnable : prio[t] \in Nat
      BY SchedulerAssumption DEF Shape, TypeOK
    <2>2. rtr[1] \in Runnable
      BY <1>2, Circle
    <2>3. QED
      BY <2>1, <2>2
  <1>4. MostUrgent \in P /\ P \subseteq Nat
    BY <1>3, SmallestOf DEF MostUrgent
  <1>5. PICK t \in Runnable : prio[t] = MostUrgent
    BY <1>4
  <1>6. PICK i \in 1..Len(rtr) : rtr[i] = t
    BY Circle
  <1>7. PICK k \in 0..(Len(rtr) - 1) : At(k) = i
    BY <1>1, MetAt
  <1>8. Fit(k)
    <2>1. prio[rtr[At(k)]] = MostUrgent /\ MostUrgent \in Nat
      BY <1>4, <1>5, <1>6, <1>7
    <2>2. prio[rtr[At(k)]] <= MostUrgent
      BY <2>1, SMT
    <2>3. QED
      BY <2>2 DEF Fit
  <1>9. F \in SUBSET Nat /\ F # {}
    <2>1. \A j \in 0..(Len(rtr) - 1) : j \in Nat
      BY SMT
    <2>2. QED
      BY <1>8, <2>1
  <1>10. Found \in F /\ \A j \in F : Found <= j
    BY <1>9, SmallestOf DEF Found
  <1>11. At(Found) \in 1..Len(rtr)
    BY <1>2, <1>10, Searched
  <1>12. QED
    BY <1>4, <1>10, <1>11

-------------------------------------------------------------------------------
\* switch_thread turns the circle so that the chosen thread is its head.
LEMMA TurnedRunQueue ==
    ASSUME Shape, Switch
    PROVE  /\ rtr' \in Seq(Threads) /\ IsInjective(rtr') /\ Len(rtr') = Len(rtr)
           /\ \A x : x \in Runnable' <=> x \in Runnable
           /\ rtr'[1] = running' /\ running' = rtr[At(Found)]
           /\ 1 \in 1..Len(rtr')
           /\ \A e \in 1..Len(rtr) :
                rtr'[e] = IF At(Found) + e - 1 <= Len(rtr)
                          THEN rtr[At(Found) + e - 1]
                          ELSE rtr[At(Found) + e - 1 - Len(rtr)]
  <1>1. /\ running = NoThread /\ rtr # << >>
        /\ rtr' = SubSeq(rtr, At(Found), Len(rtr))
                    \o SubSeq(rtr, 1, At(Found) - 1)
        /\ running' = rtr[At(Found)]
    BY DEF Switch, MakeFirst
  <1>2. At(Found) \in 1..Len(rtr)
    BY <1>1, FoundFacts
  <1>3. /\ rtr' \in Seq(Threads) /\ IsInjective(rtr') /\ Len(rtr') = Len(rtr)
        /\ \A e \in 1..Len(rtr) :
             rtr'[e] = IF At(Found) + e - 1 <= Len(rtr)
                       THEN rtr[At(Found) + e - 1]
                       ELSE rtr[At(Found) + e - 1 - Len(rtr)]
        /\ \A x : x \in ToSet(rtr') <=> x \in ToSet(rtr)
    BY <1>1, <1>2, Turned DEF Shape, TypeOK
  <1>4. 1 \in 1..Len(rtr)
    BY <1>1, Circle, SMT
  <1>5. At(Found) + 1 - 1 = At(Found) /\ At(Found) <= Len(rtr)
    BY <1>2, Circle, SMT
  <1>6. rtr'[1] = running'
    BY <1>1, <1>3, <1>4, <1>5
  <1>7. QED
    BY <1>1, <1>3, <1>4, <1>6 DEF Runnable

\* Every step keeps the shape of the run queue.
LEMMA ShapeStep ==
    ASSUME Shape, [Next]_vars
    PROVE  Shape'
  <1> USE DEF Shape
  <1>1. ASSUME NEW t \in Threads, Wakeup(t) PROVE Shape'
    <2>1. /\ rtr' = Append(rtr, t) /\ t \notin ToSet(rtr)
          /\ skip' = [skip EXCEPT ![t] = prio[t]]
          /\ UNCHANGED <<prio, running, last>>
      BY <1>1 DEF Wakeup, RtrAdd, Runnable
    <2>2. /\ rtr' \in Seq(Threads) /\ IsInjective(rtr')
          /\ \A y : y \in ToSet(rtr') <=> y \in ToSet(rtr) \/ y = t
      BY <2>1, Joined DEF TypeOK
    <2>3. skip' \in [Threads -> Nat]
      BY <2>1, SchedulerAssumption DEF TypeOK
    <2>4. TypeOK'
      BY <2>1, <2>2, <2>3 DEF TypeOK, Runnable
    <2>5. RunningIsHead'
      BY <2>1, AppendFacts DEF RunningIsHead
    <2>6. QED
      BY <2>1, <2>2, <2>4, <2>5
  <1>2. CASE Yield
    BY <1>2 DEF Yield, TypeOK, RunningIsHead, Runnable
  <1>3. CASE Block
    <2>1. /\ rtr' = RemoveFirst(rtr, running) /\ running' = NoThread
          /\ last' = running /\ UNCHANGED <<prio, skip>>
      BY <1>3 DEF Block
    <2>2. /\ rtr' \in Seq(Threads) /\ IsInjective(rtr')
          /\ \A y : y \in ToSet(rtr') => y \in ToSet(rtr)
      BY <2>1, RemoveFirstFacts DEF TypeOK
    <2>3. TypeOK'
      BY <2>1, <2>2 DEF TypeOK, Runnable
    <2>4. QED
      BY <2>1, <2>2, <2>3 DEF RunningIsHead
  <1>4. CASE Idle
    BY <1>4 DEF Idle, TypeOK, RunningIsHead, Runnable
  <1>5. CASE Switch
    <2>1. /\ last' = NoThread /\ prio' = prio
          /\ skip' = [u \in Threads |->
                        IF u = rtr[At(Found)] THEN 0
                        ELSE IF /\ u \in {rtr[At(k)] : k \in 0..(Found - 1)}
                                /\ ~RealtimeThread(u)
                        THEN skip[u] + 1 ELSE skip[u]]
      BY <1>5 DEF Switch
    <2>2. skip' \in [Threads -> Nat]
      <3>1. \A u \in Threads : skip[u] \in Nat /\ skip[u] + 1 \in Nat
        BY SMT DEF TypeOK
      <3>2. QED
        BY <2>1, <3>1
    <2>3. running' \in Threads
      BY <1>5, TurnedRunQueue, ElementOfSeq
    <2>4. TypeOK'
      BY <1>5, <2>1, <2>2, <2>3, TurnedRunQueue DEF TypeOK
    <2>5. RunningIsHead'
      BY <1>5, TurnedRunQueue, QueueFacts, EmptySeq, SMT DEF RunningIsHead
    <2>6. QED
      BY <1>5, <2>1, <2>4, <2>5, TurnedRunQueue
  <1>6. CASE UNCHANGED vars
    BY <1>6 DEF vars, TypeOK, RunningIsHead, Runnable
  <1>7. QED
    BY <1>1, <1>2, <1>3, <1>4, <1>5, <1>6 DEF Next

\* At the start all threads are on the run queue.
LEMMA ShapeInit == Init => Shape
  <1> SUFFICES ASSUME Init PROVE Shape
    OBVIOUS
  <1>1. PICK t \in Threads : rtr = <<t>> /\ running = t
    BY DEF Init
  <1>2. rtr \in Seq(Threads) /\ Len(rtr) = 1 /\ rtr[1] = t /\ rtr # << >>
    BY <1>1, SMT
  <1>3. IsInjective(rtr) /\ Runnable \subseteq Threads
    <2>1. \A i, j \in 1..Len(rtr) : rtr[i] = rtr[j] => i = j
      BY <1>2, SMT
    <2>2. QED
      BY <1>2, <2>1, NoRepetition, ElementOfSeq DEF Runnable
  <1>4. skip \in [Threads -> Nat]
    BY SchedulerAssumption DEF Init
  <1>5. Head(rtr) = running
    BY <1>1, SMT
  <1>6. QED
    BY <1>1, <1>2, <1>3, <1>4, <1>5 DEF Init, Shape, TypeOK, RunningIsHead

\* RunQueueSound: each runnable thread is in the circle once, and the head of
\* the circle is the thread that runs, however wakeups fall.
THEOREM RunQueueIsSound == Spec => []RunQueueSound
  <1>1. Init => Shape
    BY ShapeInit
  <1>2. Shape /\ [Next]_vars => Shape'
    BY ShapeStep
  <1>3. Shape => RunQueueSound
    BY DEF Shape, RunQueueSound
  <1>4. QED
    BY <1>1, <1>2, <1>3, PTL DEF Spec

-------------------------------------------------------------------------------
\* Waiting turns are counted only for threads on the run queue.
LEMMA CountedStep ==
    ASSUME Shape, Counted, [Next]_vars
    PROVE  Counted'
  <1> USE DEF Counted
  <1>1. ASSUME NEW t \in Threads, Wakeup(t) PROVE Counted'
    <2>1. /\ rtr' = Append(rtr, t) /\ t \notin ToSet(rtr)
          /\ waited' = [waited EXCEPT ![t] = 0]
          /\ UNCHANGED <<running, last>>
      BY <1>1 DEF Wakeup, RtrAdd, Runnable
    <2>2. \A y : y \in Runnable' <=> y \in Runnable \/ y = t
      BY <2>1, Joined DEF Shape, TypeOK, Runnable
    <2>3. /\ waited' \in [Threads -> Nat]
          /\ \A u \in Threads : waited'[u] = IF u = t THEN 0 ELSE waited[u]
      BY <2>1
    <2>4. ASSUME NEW u \in Threads,
                 u \notin Runnable' \/ u = running' \/ u = last'
          PROVE  waited'[u] = 0
      BY <2>1, <2>2, <2>3, <2>4
    <2>5. QED
      BY <2>3, <2>4
  <1>2. CASE Yield
    BY <1>2, Circle DEF Yield, Runnable
  <1>3. CASE Block
    <2>1. /\ rtr' = RemoveFirst(rtr, running) /\ running' = NoThread
          /\ last' = running /\ waited' = waited
      BY <1>3 DEF Block
    <2>2. \A y : y \in Runnable' <=> y \in Runnable /\ y # running
      BY <2>1, RemoveFirstFacts DEF Shape, TypeOK, Runnable
    <2>3. ASSUME NEW u \in Threads,
                 u \notin Runnable' \/ u = running' \/ u = last'
          PROVE  waited[u] = 0
      BY <2>1, <2>2, <2>3, SchedulerAssumption
    <2>4. QED
      BY <2>1, <2>3
  <1>4. CASE Idle
    <2>1. \A t \in Threads : t \notin Runnable
      BY <1>4, EmptyList DEF Idle, Runnable
    <2>2. QED
      BY <1>4, <2>1 DEF Idle, Runnable
  <1>5. CASE Switch
    <2>1. /\ last' = NoThread /\ running' = rtr[At(Found)]
          /\ waited' = [u \in Threads |->
                          IF /\ u # rtr[At(Found)] /\ u \in Runnable
                             /\ prio[u] = MostUrgent
                          THEN waited[u] + 1 ELSE 0]
      BY <1>5 DEF Switch
    <2>2. \A u \in Threads : waited[u] + 1 \in Nat
      BY SMT
    <2>3. waited' \in [Threads -> Nat]
      BY <2>1, <2>2
    <2>4. \A t \in Threads : t # last'
      BY <2>1, SchedulerAssumption
    <2>5. QED
      BY <1>5, <2>1, <2>3, <2>4, TurnedRunQueue
  <1>6. CASE UNCHANGED vars
    BY <1>6 DEF vars, Runnable
  <1>7. QED
    BY <1>1, <1>2, <1>3, <1>4, <1>5, <1>6 DEF Next

\* A thread that has not waited has its whole account left.
LEMMA WithinAtFirst ==
    ASSUME NEW n \in Nat, n <= N, NEW r \in {0, 1}, NEW q \in 0..n,
           NEW i \in 1..n, r = 1 => q = 1 /\ i # 1
    PROVE  Within(0, n, r, q, i)
  <1>1. Left(n, r, q, i) <= N * (N - 1)
    BY LeftAtMost
  <1>2. Left(n, r, q, i) \in Int
    BY LeftInt
  <1>3. QED
    BY <1>1, <1>2, SMT DEF Within

\* An account that shrinks by a turn's worth allows one more turn.
LEMMA WithinLess ==
    ASSUME NEW n \in Nat, NEW r \in {0, 1}, NEW q \in 0..n, NEW i \in 1..n,
           NEW n2 \in Nat, NEW r2 \in {0, 1}, NEW q2 \in 0..n2,
           NEW i2 \in 1..n2, NEW w \in Nat, Within(w, n, r, q, i)
    PROVE  /\ Left(n2, r2, q2, i2) <= Left(n, r, q, i)
                => Within(w, n2, r2, q2, i2)
           /\ Left(n2, r2, q2, i2) + 2 <= Left(n, r, q, i)
                => Within(w + 1, n2, r2, q2, i2)
  <1>1. Left(n, r, q, i) \in Int /\ Left(n2, r2, q2, i2) \in Int
    BY LeftInt
  <1>2. N * (N - 1) \in Int
    BY ThreadCount, SMT
  <1>3. \A x, y, b \in Int : 2 * w + x <= b =>
            (y <= x => 2 * w + y <= b) /\ (y + 2 <= x => 2 * (w + 1) + y <= b)
    BY SMT
  <1>4. QED
    BY <1>1, <1>2, <1>3 DEF Within

\* A wakeup keeps every account.
LEMMA AccountByWakeup ==
    ASSUME Shape, Counted, Account, Shape', NEW t \in Threads, Wakeup(t),
           NEW i \in 1..Len(rtr'), NEW q \in 0..Len(rtr'),
           Behind(q)', rtr'[i] # running'
    PROVE  Within(waited'[rtr'[i]], Len(rtr'), Busy', q, i)
  <1> DEFINE n == Len(rtr)
             r == Busy
  <1>1. /\ rtr' = Append(rtr, t) /\ t \notin ToSet(rtr)
        /\ waited' = [waited EXCEPT ![t] = 0]
        /\ running' = running /\ last' = last
    BY DEF Wakeup, RtrAdd, Runnable
  <1>2. /\ Len(rtr') = n + 1 /\ n \in Nat
        /\ \A j \in 1..n : rtr'[j] = rtr[j]
        /\ rtr'[n + 1] = t
        /\ \A y : y \in Runnable' <=> y \in Runnable \/ y = t
    BY <1>1, Joined DEF Shape, TypeOK, Runnable
  <1>3. n + 1 <= N
    BY <1>2, Places DEF Shape, TypeOK
  <1>4. /\ Busy' = r /\ r \in {0, 1}
        /\ r = 1 => running # NoThread
    BY <1>1, SMT DEF Busy
  <1>5. r = 1 => /\ q = 1 /\ 1 \in 1..n /\ rtr[1] = running
                 /\ i # 1 /\ Behind(1)
    BY <1>1, <1>2, <1>4, Circle DEF Behind
  <1>6. waited \in [Threads -> Nat]
    BY DEF Counted
  <1>7. CASE i = n + 1
    <2>1. waited'[rtr'[i]] = 0
      BY <1>1, <1>2, <1>6, <1>7
    <2>2. n + 1 \in Nat /\ q \in 0..(n + 1) /\ i \in 1..(n + 1)
      BY <1>2, SMT
    <2>3. QED
      BY <1>2, <1>3, <1>4, <1>5, <2>1, <2>2, WithinAtFirst
  <1>8. CASE i # n + 1
    <2>1. i \in 1..n /\ rtr'[i] = rtr[i]
      BY <1>2, <1>8, SMT
    <2>2. rtr[i] \in Threads /\ rtr[i] # t /\ rtr[i] \in Runnable
      BY <1>1, <2>1, Circle DEF Runnable
    <2>3. waited'[rtr'[i]] = waited[rtr[i]] /\ waited[rtr[i]] \in Nat
      BY <1>1, <1>6, <2>1, <2>2
    <2>4. rtr[i] # running
      BY <1>1, <2>1
    <2> HIDE DEF r
    <2>5. CASE running = NoThread /\ last = t
      <3>1. Behind(0) /\ r = 0
        BY <1>1, <2>5 DEF Behind, Runnable, Busy, r
      <3>2. q = n + 1
        <4>1. q \in DOMAIN rtr' /\ rtr'[q] = t
          BY <1>1, <1>2, <2>5 DEF Behind
        <4>2. n + 1 \in 1..Len(rtr')
          BY <1>2, SMT
        <4>3. rtr' \in Seq(Threads) /\ IsInjective(rtr')
          BY DEF Shape, TypeOK
        <4>4. /\ DOMAIN rtr' = 1..Len(rtr')
              /\ \A j, k \in 1..Len(rtr') : rtr'[j] = rtr'[k] => j = k
          BY <4>3, Places
        <4>5. QED
          BY <1>2, <4>1, <4>2, <4>4
      <3>3. Within(waited[rtr[i]], n, 0, 0, i)
        <4>1. 0 \in 0..n
          BY <1>2, SMT
        <4>2. QED
          BY <2>1, <2>4, <3>1, <4>1 DEF Account, r
      <3>4. Left(n + 1, 0, n + 1, i) <= Left(n, 0, 0, i)
        BY <1>2, <1>3, <2>1, LeftByWakeupOfLast
      <3>5. /\ n + 1 \in Nat /\ n + 1 \in 0..(n + 1) /\ 0 \in 0..n
            /\ i \in 1..(n + 1) /\ 0 \in {0, 1}
        BY <1>2, <2>1, SMT
      <3>6. Within(waited[rtr[i]], n + 1, 0, n + 1, i)
        BY <1>2, <2>1, <2>3, <3>3, <3>4, <3>5, WithinLess
      <3>7. QED
        BY <1>2, <1>4, <2>3, <3>1, <3>2, <3>6
    <2>6. CASE ~(running = NoThread /\ last = t)
      <3>1. q \in 0..n /\ Behind(q)
        <4>1. CASE r = 1
          <5>1. 1 \in 0..n
            BY <1>2, <1>5, <4>1, SMT
          <5>2. QED
            BY <1>5, <4>1, <5>1
        <4>2. CASE r = 0 /\ last \in Runnable
          <5>1. running = NoThread
            BY <4>2 DEF Busy, r
          <5>2. q \in 1..Len(rtr') /\ rtr'[q] = last
            BY <1>1, <1>2, <4>2, <5>1, Places DEF Behind, Shape, TypeOK
          <5>3. q # n + 1
            BY <1>2, <2>6, <5>1, <5>2
          <5>4. q \in 1..n /\ q \in 0..n
            BY <1>2, <5>2, <5>3, SMT
          <5>5. QED
            BY <1>2, <4>2, <5>1, <5>2, <5>4, Circle DEF Behind
        <4>3. CASE r = 0 /\ last \notin Runnable
          <5>1. running = NoThread
            BY <4>3 DEF Busy, r
          <5>2. last' \notin Runnable'
            BY <1>1, <1>2, <2>6, <4>3, <5>1
          <5>3. q = 0
            BY <1>1, <5>1, <5>2 DEF Behind
          <5>4. 0 \in 0..n
            BY <1>2, SMT
          <5>5. QED
            BY <4>3, <5>1, <5>3, <5>4 DEF Behind
        <4>4. QED
          BY <1>4, <4>1, <4>2, <4>3
      <3>2. Within(waited[rtr[i]], n, r, q, i)
        BY <2>1, <2>4, <3>1 DEF Account, r
      <3>3. /\ n + 1 \in Nat /\ q \in 0..(n + 1) /\ i \in 1..(n + 1)
        BY <1>2, <2>1, SMT
      <3>4. Left(n + 1, r, q, i) <= Left(n, r, q, i)
        BY <1>2, <1>3, <1>4, <1>5, <2>1, <3>1, LeftByWakeup
      <3>5. Within(waited[rtr[i]], n + 1, r, q, i)
        <4>1. n \in Nat /\ waited[rtr[i]] \in Nat
          BY <1>2, <2>3
        <4>2. QED
          BY <1>4, <2>1, <3>1, <3>2, <3>3, <3>4, <4>1, WithinLess, ZenonT(30)
      <3>6. QED
        BY <1>2, <1>4, <2>3, <3>5
    <2>7. QED
      BY <2>5, <2>6
  <1>9. QED
    BY <1>7, <1>8

\* Giving up the processor keeps every account.
LEMMA AccountByYield ==
    ASSUME Shape, Counted, Account, Yield,
           NEW i \in 1..Len(rtr'), NEW q \in 0..Len(rtr'), Behind(q)'
    PROVE  Within(waited'[rtr'[i]], Len(rtr'), Busy', q, i)
  <1> DEFINE n == Len(rtr)
  <1>1. /\ running # NoThread /\ running' = NoThread /\ last' = running
        /\ rtr' = rtr /\ waited' = waited
    BY DEF Yield
  <1>2. /\ n \in Nat /\ n <= N /\ 1 \in 1..n /\ 1 \in 0..n
        /\ rtr[1] = running /\ i \in 1..n
    <2>1. /\ n \in Nat /\ n <= N /\ 1 \in 1..n /\ rtr[1] = running
      BY <1>1, Circle
    <2>2. 1 \in 0..n
      BY <2>1, SMT
    <2>3. QED
      BY <1>1, <2>1, <2>2
  <1>3. q = 1
    <2>1. running \in Runnable
      BY <1>2, Circle
    <2>2. q \in 1..n /\ rtr[q] = running
      BY <1>1, <2>1, Circle DEF Behind, Runnable
    <2>3. QED
      BY <1>2, <2>2, Circle
  <1>4. Busy' = 0 /\ Busy = 1 /\ 0 \in {0, 1} /\ 1 \in {0, 1}
    BY <1>1 DEF Busy
  <1>5. CASE i = 1
    <2>1. waited[rtr[i]] = 0
      BY <1>2, <1>5, Circle DEF Counted
    <2>2. Within(0, n, 0, 1, i)
      BY <1>2, <1>4, WithinAtFirst, SMT
    <2>3. QED
      BY <1>1, <1>3, <1>4, <2>1, <2>2
  <1>6. CASE i # 1
    <2>1. rtr[i] # running
      BY <1>2, <1>6, Circle
    <2>2. Behind(1)
      BY <1>1 DEF Behind
    <2>3. Within(waited[rtr[i]], n, 1, 1, i)
      BY <1>2, <1>4, <2>1, <2>2 DEF Account
    <2>4. Left(n, 0, 1, i) <= Left(n, 1, 1, i)
      <3>1. i \in 2..n
        BY <1>2, <1>6, SMT
      <3>2. QED
        BY <1>2, <3>1, LeftByYield
    <2>5. waited[rtr[i]] \in Nat
      BY <1>2, Circle DEF Counted
    <2>6. Within(waited[rtr[i]], n, 0, 1, i)
      BY <1>2, <1>4, <2>3, <2>4, <2>5, WithinLess
    <2>7. QED
      BY <1>1, <1>3, <1>4, <2>6
  <1>7. QED
    BY <1>5, <1>6

\* Blocking keeps every account.
LEMMA AccountByBlock ==
    ASSUME Shape, Counted, Account, Block,
           NEW i \in 1..Len(rtr'), NEW q \in 0..Len(rtr'), Behind(q)'
    PROVE  Within(waited'[rtr'[i]], Len(rtr'), Busy', q, i)
  <1> DEFINE n == Len(rtr)
  <1>1. /\ running # NoThread /\ running' = NoThread /\ last' = running
        /\ rtr' = RemoveFirst(rtr, running) /\ waited' = waited
    BY DEF Block
  <1>2. /\ n \in Nat /\ n <= N /\ 1 \in 1..n /\ rtr[1] = running
    BY <1>1, Circle
  <1>3. /\ Len(rtr') = n - 1
        /\ \A j \in 1..Len(rtr') : rtr'[j] = IF j < 1 THEN rtr[j] ELSE rtr[j + 1]
        /\ running \notin Runnable'
    <2> DEFINE r == RemoveFirst(rtr, running)
    <2>1. rtr \in Seq(Threads) /\ IsInjective(rtr)
      BY DEF Shape, TypeOK
    <2>2. /\ \A k \in 1..n : rtr[k] = running =>
               /\ Len(r) = n - 1
               /\ \A j \in 1..Len(r) : r[j] = IF j < k THEN rtr[j] ELSE rtr[j + 1]
          /\ \A y : y \in ToSet(r) <=> y \in ToSet(rtr) /\ y # running
      BY <2>1, RemoveFirstFacts
    <2> HIDE DEF r
    <2>3. /\ Len(r) = n - 1
          /\ \A j \in 1..Len(r) : r[j] = IF j < 1 THEN rtr[j] ELSE rtr[j + 1]
          /\ running \notin ToSet(r)
      BY <1>2, <2>2
    <2>4. QED
      BY <1>1, <2>3 DEF Runnable, r
  <1>4. q = 0
    BY <1>1, <1>3 DEF Behind
  <1>5. /\ i \in 1..(n - 1) /\ n - 1 \in Nat /\ i + 1 \in 1..n /\ i + 1 # 1
        /\ ~(i < 1) /\ 0 \in 0..(n - 1) /\ 1 \in 0..n
    BY <1>2, <1>3, SMT
  <1>6. rtr'[i] = rtr[i + 1] /\ rtr[i + 1] # running
    BY <1>2, <1>3, <1>5, Circle
  <1>7. Busy' = 0 /\ Busy = 1 /\ 0 \in {0, 1} /\ 1 \in {0, 1}
    BY <1>1 DEF Busy
  <1>8. Within(waited[rtr[i + 1]], n, 1, 1, i + 1)
    <2>1. Behind(1)
      BY <1>1 DEF Behind
    <2>2. QED
      BY <1>5, <1>6, <1>7, <2>1 DEF Account
  <1>9. Left(n - 1, 0, 0, i) = Left(n, 1, 1, i + 1)
    BY <1>2, <1>5, LeftByBlock
  <1>10. Within(waited[rtr[i + 1]], n - 1, 0, 0, i)
    BY <1>8, <1>9 DEF Within
  <1>11. QED
    BY <1>1, <1>3, <1>4, <1>6, <1>7, <1>10

\* The thread the search meets in its k-th step comes after the one it finds
\* as many places behind the new head as it was behind that one.
LEMMA TurnedTo ==
    ASSUME Shape, Switch, NEW k \in 0..(Len(rtr) - 1), Found < k
    PROVE  /\ k - Found + 1 \in 2..Len(rtr)
           /\ rtr'[k - Found + 1] = rtr[At(k)]
  <1> DEFINE n == Len(rtr)
             e == k - Found + 1
             f == At(Found)
  <1>1. running = NoThread /\ rtr # << >>
    BY DEF Switch
  <1>2. PICK q \in 0..n : Behind(q)
    BY SomeBehind
  <1>3. Start \in 1..n
    BY <1>1, <1>2, StartsBehind
  <1>4. n \in Nat \ {0}
    BY <1>1, Circle, SMT
  <1>5. Found \in 0..(n - 1)
    BY <1>1, FoundFacts
  <1>6. /\ f = IF Start + Found <= n THEN Start + Found ELSE Start + Found - n
        /\ At(k) = IF Start + k <= n THEN Start + k ELSE Start + k - n
    BY <1>3, <1>4, <1>5, Searched
  <1>7. \A g \in 1..n :
            rtr'[g] = IF f + g - 1 <= n THEN rtr[f + g - 1]
                      ELSE rtr[f + g - 1 - n]
    BY TurnedRunQueue
  <1> HIDE DEF n, f
  <1>8. k \in 0..(n - 1)
    BY DEF n
  <1>9. e \in 2..n /\ e \in 1..n
    BY <1>4, <1>5, <1>8, SMT
  <1>10. At(k) = IF f + e - 1 <= n THEN f + e - 1 ELSE f + e - 1 - n
    BY <1>3, <1>4, <1>5, <1>6, <1>8, SMT
  <1>11. rtr'[e] = rtr[At(k)]
    BY <1>7, <1>9, <1>10
  <1>12. QED
    BY <1>9, <1>11 DEF n

\* A switch takes a turn from the accounts of those it passes over.
LEMMA AccountBySwitch ==
    ASSUME Shape, Counted, Account, Switch,
           NEW i \in 1..Len(rtr'), NEW q \in 0..Len(rtr'),
           Behind(q)', rtr'[i] # running'
    PROVE  Within(waited'[rtr'[i]], Len(rtr'), Busy', q, i)
  <1> DEFINE n == Len(rtr)
             u == rtr'[i]
  <1>1. /\ running = NoThread /\ rtr # << >>
        /\ waited' = [v \in Threads |->
                        IF /\ v # rtr[At(Found)] /\ v \in Runnable
                           /\ prio[v] = MostUrgent
                        THEN waited[v] + 1 ELSE 0]
    BY DEF Switch
  <1>2. /\ rtr' \in Seq(Threads) /\ IsInjective(rtr') /\ Len(rtr') = n
        /\ \A x : x \in Runnable' <=> x \in Runnable
        /\ rtr'[1] = running' /\ running' = rtr[At(Found)]
        /\ 1 \in 1..n
    BY TurnedRunQueue
  <1>3. n \in Nat /\ n <= N
    BY Circle
  <1>4. i \in 1..n /\ i # 1 /\ u \in Threads /\ u \in Runnable
    BY <1>2, Places DEF Runnable
  <1>5. running' # NoThread
    BY <1>1, FoundFacts, Circle, <1>2
  <1>6. q = 1 /\ Busy' = 1 /\ Busy = 0
    BY <1>1, <1>5 DEF Behind, Busy
  <1>7. 1 \in 0..n /\ 1 \in {0, 1} /\ 0 \in {0, 1}
    BY <1>3, <1>2, SMT
  <1>8. CASE prio[u] # MostUrgent
    <2>1. waited'[u] = 0
      BY <1>1, <1>4, <1>8
    <2>2. Within(0, n, 1, 1, i)
      BY <1>3, <1>4, <1>7, WithinAtFirst
    <2>3. QED
      BY <1>2, <1>6, <2>1, <2>2
  <1>9. CASE prio[u] = MostUrgent
    <2>1. waited'[u] = waited[u] + 1 /\ waited[u] \in Nat
      BY <1>1, <1>2, <1>4, <1>9 DEF Counted
    <2>2. PICK j \in 1..n : rtr[j] = u
      BY <1>4, Circle
    <2>3. PICK b \in 0..n : Behind(b)
      BY SomeBehind
    <2>4. /\ Ahead(n, b, j) \in 0..(n - 1)
          /\ At(Ahead(n, b, j)) = j
      BY <1>1, <2>3, MetAt
    <2>5. Found < Ahead(n, b, j) /\ Found \in Nat
      <3>1. prio[rtr[j]] <= MostUrgent
        BY <1>1, <1>9, <2>2, FoundFacts, SMT
      <3>2. Fit(Ahead(n, b, j))
        BY <2>4, <3>1 DEF Fit
      <3>3. Found <= Ahead(n, b, j) /\ Found \in 0..(n - 1)
        BY <1>1, <2>4, <3>2, FoundFacts
      <3>4. Found # Ahead(n, b, j)
        BY <1>2, <2>2, <2>4
      <3>5. \A x, y \in 0..(n - 1) : x <= y /\ x # y => x < y /\ x \in Nat
        BY <1>3, SMT
      <3>6. QED
        BY <2>4, <3>3, <3>4, <3>5
    <2>6. /\ Ahead(n, b, j) - Found + 1 \in 2..n
          /\ rtr'[Ahead(n, b, j) - Found + 1] = u
      BY <2>2, <2>4, <2>5, TurnedTo
    <2>7. Ahead(n, b, j) - Found + 1 \in 1..n
      BY <1>3, <2>6, SMT
    <2>8. Ahead(n, b, j) - Found + 1 = i
      BY <1>2, <1>4, <2>6, <2>7, NoRepetition
    <2>9. Left(n, 1, 1, i) + 2 <= Left(n, 0, b, j)
      BY <1>3, <2>5, <2>8, LeftBySwitch
    <2>10. Within(waited[u], n, 0, b, j)
      <3>1. rtr[j] # running
        BY <1>1, Circle
      <3>2. QED
        BY <1>6, <2>2, <2>3, <3>1 DEF Account
    <2>11. Within(waited[u] + 1, n, 1, 1, i)
      BY <1>3, <1>4, <1>7, <2>1, <2>9, <2>10, WithinLess
    <2>12. QED
      BY <1>2, <1>6, <2>1, <2>11
  <1>10. QED
    BY <1>8, <1>9

\* Every step keeps every account.
LEMMA AccountStep ==
    ASSUME Shape, Counted, Account, Shape', [Next]_vars
    PROVE  Account'
  <1> SUFFICES ASSUME NEW i \in 1..Len(rtr'), NEW q \in 0..Len(rtr'),
                      Behind(q)', rtr'[i] # running'
               PROVE  Within(waited'[rtr'[i]], Len(rtr'), Busy', q, i)
    BY DEF Account, Within, Left, Ahead, Others, N
  <1>1. ASSUME NEW t \in Threads, Wakeup(t)
        PROVE  Within(waited'[rtr'[i]], Len(rtr'), Busy', q, i)
    BY <1>1, AccountByWakeup
  <1>2. CASE Yield
    BY <1>2, AccountByYield
  <1>3. CASE Block
    BY <1>3, AccountByBlock
  <1>4. CASE Idle
    <2>1. Len(rtr') = 0
      BY <1>4, EmptyList DEF Idle
    <2>2. QED
      BY <2>1, SMT
  <1>5. CASE Switch
    BY <1>5, AccountBySwitch
  <1>6. CASE UNCHANGED vars
    <2>1. Behind(q) /\ Busy' = Busy /\ rtr' = rtr /\ waited' = waited
          /\ running' = running
      BY <1>6 DEF vars, Behind, Busy, Runnable
    <2>2. QED
      BY <2>1 DEF Account
  <1>7. QED
    BY <1>1, <1>2, <1>3, <1>4, <1>5, <1>6 DEF Next

\* The inductive invariant of the run queue, with an account of the turns that
\* each runnable thread can still have to wait.
THEOREM Invariance == Spec => []IInv
  <1>1. Init => IInv
    <2> SUFFICES ASSUME Init PROVE IInv
      OBVIOUS
    <2>1. Shape
      BY ShapeInit
    <2>2. Counted
      BY DEF Init, Counted
    <2>3. PICK t \in Threads : rtr = <<t>> /\ running = t
      BY DEF Init
    <2>4. \A i \in 1..Len(rtr) : rtr[i] = running
      BY <2>3, SMT
    <2>5. QED
      BY <2>1, <2>2, <2>4 DEF IInv, Account
  <1>2. IInv /\ [Next]_vars => IInv'
    BY ShapeStep, CountedStep, AccountStep DEF IInv
  <1>3. QED
    BY <1>1, <1>2, PTL DEF Spec

\* RoundRobin: how often one of the most urgent threads is passed over has a
\* bound, whatever the others do.
THEOREM RoundRobinBounded == Spec => []RoundRobin
  <1>1. ASSUME IInv, NEW t \in Threads
        PROVE  waited[t] <= (N * (N - 1)) \div 2
    <2> USE <1>1 DEF IInv
    <2>1. N \in Nat /\ waited[t] \in Nat /\ N * (N - 1) \in Int
      BY ThreadCount, SMT DEF Counted
    <2>2. N >= 1
      <3>1. IsFiniteSet(Threads) /\ Threads # {}
        BY SchedulerAssumption
      <3>2. N # 0
        BY <3>1, FS_EmptySet DEF N
      <3>3. QED
        BY <2>1, <3>2, SMT
    <2>3. 2 * waited[t] <= N * (N - 1)
      <3>1. CASE t \notin Runnable \/ t = running
        <4>1. waited[t] = 0
          BY <3>1 DEF Counted
        <4>2. \A n \in Nat : n >= 1 => 2 * 0 <= n * (n - 1)
          BY SMT
        <4>3. QED
          BY <2>1, <2>2, <4>1, <4>2
      <3>2. CASE t \in Runnable /\ t # running
        <4>1. PICK i \in 1..Len(rtr) : rtr[i] = t
          BY <3>2, Circle
        <4>2. PICK q \in 0..Len(rtr) :
                Behind(q) /\ (running # NoThread => q = 1)
          BY SomeBehind
        <4> DEFINE k == Left(Len(rtr), Busy, q, i)
        <4>3. 2 * waited[t] + k <= N * (N - 1)
          BY <3>2, <4>1, <4>2 DEF Account, Within
        <4>4. k \in Nat
          BY <3>2, <4>1, <4>2, LeftNat
        <4> HIDE DEF k
        <4>5. \A x \in Int : 2 * waited[t] + k <= x => 2 * waited[t] <= x
          BY <2>1, <4>4, SMT
        <4>6. QED
          BY <2>1, <4>3, <4>5
      <3>3. QED
        BY <3>1, <3>2
    <2>4. \A w \in Nat, b \in Int : 2 * w <= b => w <= b \div 2
      BY SMT
    <2>5. QED
      BY <2>1, <2>3, <2>4
  <1>2. IInv => RoundRobin
    BY <1>1 DEF RoundRobin, N
  <1>3. QED
    BY <1>2, Invariance, PTL
===============================================================================
