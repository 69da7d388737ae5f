--------------------------- MODULE Timeouts_proofs ---------------------------
(***************************************************************************)
(* Machine-checked proofs about the two kinds of timeout, which keep their *)
(* objects in lists: KernelTimeouts, whose names are those with tick_ and  *)
(* Tick, and ThreadTimeouts.                                               *)
(*                                                                         *)
(* KernelTimeouts, for any timeouts, any finite set of tick tasks and any  *)
(* room.  Walking an array by position while its entries take themselves   *)
(* off skips an entry now and then.  What keeps that in bounds is a sum:   *)
(* each time an entry is skipped it moves up by a place, and nothing ever  *)
(* moves it down again.                                                    *)
(*                                                                         *)
(* ThreadTimeouts, for any finite or infinite set of threads, any width of *)
(* the tick counter and any time limits that fit in half of its range.     *)
(* Ticks are compared by the sign of a wrapped difference.  The invariant  *)
(* says of every tick the code keeps how far it is from current_tick as a  *)
(* plain number, and that these numbers stay small enough for the          *)
(* comparison to be right.                                                 *)
(***************************************************************************)
EXTENDS KernelTimeouts, ThreadTimeouts, Integers, Sequences, FiniteSets,
        SequencesExt, FiniteSetTheorems, SequenceTheorems, TLAPS

-------------------------------------------------------------------------------
\* Lists: what the operations on them do to what is in them.

\* A thread that joins a queue is its last.
LEMMA AppendFacts ==
    ASSUME NEW S, NEW q \in Seq(S), NEW t \in S
    PROVE  /\ Append(q, t) \in Seq(S)
           /\ Len(q) \in Nat
           /\ Append(q, t) # << >>
           /\ Len(Append(q, t)) = Len(q) + 1
           /\ \A h \in 1..Len(q) : Append(q, t)[h] = q[h]
           /\ Append(q, t)[Len(q) + 1] = t
           /\ q # << >> => Head(Append(q, t)) = Head(q) /\ Len(q) > 0
           /\ q = << >> => Head(Append(q, t)) = t /\ Len(q) = 0
  BY AppendProperties, LenProperties, EmptySeq, SMT

\* The first n threads of a queue without repetition are n threads.
PrefixSet(q, n) == {q[h] : h \in 1..n}

\* The first n of a queue are n threads.
LEMMA PrefixCardinality ==
    ASSUME NEW q, Len(q) \in Nat, NEW n \in 1..Len(q),
           \A h, j \in 1..Len(q) : q[h] = q[j] => h = j
    PROVE  IsFiniteSet(PrefixSet(q, n)) /\ Cardinality(PrefixSet(q, n)) = n
  <1> DEFINE f == [h \in 1..n |-> q[h]]
             W == PrefixSet(q, n)
  <1>1. Len(q) \in Nat /\ 1..n \subseteq 1..Len(q) /\ n \in Nat
    BY SMT
  <1>2. f \in [1..n -> W] /\ \A h, j \in 1..n : f[h] = f[j] => h = j
    BY <1>1 DEF PrefixSet
  <1>3. \A w \in W : \E h \in 1..n : f[h] = w
    BY DEF PrefixSet
  <1>4. f \in Bijection(1..n, W)
    BY <1>2, <1>3 DEF Bijection, Injection, Surjection, IsInjective
  <1>5. ExistsBijection(1..n, W)
    BY <1>4 DEF ExistsBijection
  <1>6. IsFiniteSet(1..n) /\ Cardinality(1..n) = n
    BY <1>1, FS_Interval, SMT
  <1>7. QED
    BY <1>5, <1>6, FS_Bijection

\* RemoveAt of the library, place by place.
LEMMA RemoveAtFacts ==
    ASSUME NEW S, NEW s \in Seq(S), NEW k \in 1..Len(s)
    PROVE  /\ RemoveAt(s, k) \in Seq(S)
           /\ Len(s) \in Nat /\ Len(RemoveAt(s, k)) = Len(s) - 1
           /\ \A j \in 1..(Len(s) - 1) :
                RemoveAt(s, k)[j] = IF j < k THEN s[j] ELSE s[j + 1]
  <1> DEFINE a == SubSeq(s, 1, k - 1)
             b == SubSeq(s, k + 1, Len(s))
  <1>1. Len(s) \in Nat /\ \A j \in 1..Len(s) : s[j] \in S
    BY LenProperties, ElementOfSeq
  <1>2. /\ a \in Seq(S) /\ Len(a) = IF 1 <= k - 1 THEN (k - 1) - 1 + 1 ELSE 0
        /\ \A j \in 1..((k - 1) - 1 + 1) : a[j] = s[1 + j - 1]
    <2>1. \A j \in 1..(k - 1) : s[j] \in S
      BY <1>1, SMT
    <2>2. 1 \in Int /\ k - 1 \in Int
      BY SMT
    <2>3. QED
      BY <2>1, <2>2, SubSeqProperties
  <1>3. /\ b \in Seq(S)
        /\ Len(b) = IF k + 1 <= Len(s) THEN Len(s) - (k + 1) + 1 ELSE 0
        /\ \A j \in 1..(Len(s) - (k + 1) + 1) : b[j] = s[(k + 1) + j - 1]
    <2>1. \A j \in (k + 1)..Len(s) : s[j] \in S
      BY <1>1, SMT
    <2>2. k + 1 \in Int /\ Len(s) \in Int
      BY <1>1, SMT
    <2>3. QED
      BY <2>1, <2>2, SubSeqProperties
  <1>4. /\ a \o b \in Seq(S)
        /\ Len(a \o b) = Len(a) + Len(b)
        /\ \A j \in 1..(Len(a) + Len(b)) :
             (a \o b)[j] = IF j <= Len(a) THEN a[j] ELSE b[j - Len(a)]
    BY <1>2, <1>3, ConcatProperties
  <1>5. Len(a) = k - 1 /\ Len(b) = Len(s) - k
    BY <1>1, <1>2, <1>3, SMT
  <1> HIDE DEF a, b
  <1>6. ASSUME NEW j \in 1..(Len(s) - 1)
        PROVE  (a \o b)[j] = IF j < k THEN s[j] ELSE s[j + 1]
    <2>1. (a \o b)[j] = IF j <= k - 1 THEN a[j] ELSE b[j - (k - 1)]
      BY <1>1, <1>4, <1>5, SMT
    <2>2. CASE j < k
      BY <1>2, <2>1, <2>2, SMT
    <2>3. CASE ~(j < k)
      <3>1. j - (k - 1) \in 1..(Len(s) - (k + 1) + 1)
        BY <1>1, <2>3, SMT
      <3>2. b[j - (k - 1)] = s[(k + 1) + (j - (k - 1)) - 1]
        BY <1>3, <3>1
      <3>3. (k + 1) + (j - (k - 1)) - 1 = j + 1
        BY <1>1, SMT
      <3>4. QED
        BY <2>1, <2>3, <3>2, <3>3, SMT
    <2>4. QED
      BY <2>2, <2>3
  <1>7. Len(a \o b) = Len(s) - 1
    BY <1>1, <1>4, <1>5, SMT
  <1>8. QED
    BY <1>1, <1>4, <1>6, <1>7 DEF RemoveAt, a, b

\* No entry twice, place by place; IsInjective says so of the function.
LEMMA NoRepetition ==
    ASSUME NEW S, NEW s \in Seq(S)
    PROVE  /\ IsInjective(s) <=> \A h, j \in 1..Len(s) : s[h] = s[j] => h = j
           /\ \A x : x \in ToSet(s) <=> \E h \in 1..Len(s) : s[h] = x
           /\ DOMAIN s = 1..Len(s)
  BY LenProperties DEF IsInjective, ToSet

\* The empty list, and which lists are empty.
LEMMA EmptyList ==
    ASSUME NEW S
    PROVE  /\ << >> \in Seq(S) /\ Len(<< >>) = 0 /\ IsInjective(<< >>)
           /\ \A x : x \notin ToSet(<< >>)
           /\ \A s \in Seq(S) : s # << >> <=> \E x \in S : x \in ToSet(s)
  <1>1. << >> \in Seq(S) /\ Len(<< >>) = 0
    BY EmptySeq
  <1>2. \A k \in 1..0 : FALSE
    BY SMT
  <1>3. IsInjective(<< >>) /\ \A x : x \notin ToSet(<< >>)
    <2>1. 1..Len(<< >>) = {}
      BY <1>1, <1>2
    <2>2. QED
      BY <1>1, <2>1, NoRepetition
  <1>4. ASSUME NEW s \in Seq(S), s # << >> PROVE \E x \in S : x \in ToSet(s)
    <2>1. 1 \in 1..Len(s)
      BY <1>4, EmptySeq, SMT
    <2>2. s[1] \in S /\ s[1] \in ToSet(s)
      BY <2>1, ElementOfSeq, NoRepetition
    <2>3. QED
      BY <2>2
  <1>5. QED
    BY <1>1, <1>3, <1>4

\* Taking an entry out of a list without repetition moves up those behind it
\* and leaves the rest as it was.
LEMMA RemoveFirstFacts ==
    ASSUME NEW S, NEW s \in Seq(S), IsInjective(s), NEW x
    PROVE  LET r == RemoveFirst(s, x)
           IN  /\ r \in Seq(S) /\ IsInjective(r)
               /\ Len(s) \in Nat /\ Len(r) \in Nat /\ Len(r) <= Len(s)
               /\ x \notin ToSet(s) => r = s
               /\ \A k \in 1..Len(s) : s[k] = x =>
                    /\ Len(r) = Len(s) - 1
                    /\ \A j \in 1..Len(r) :
                         r[j] = IF j < k THEN s[j] ELSE s[j + 1]
               /\ \A y : y \in ToSet(r) <=> y \in ToSet(s) /\ y # x
  <1> DEFINE r == RemoveFirst(s, x)
  <1>1. /\ Len(s) \in Nat
        /\ \A h, j \in 1..Len(s) : s[h] = s[j] => h = j
        /\ \A y : y \in ToSet(s) <=> \E h \in 1..Len(s) : s[h] = y
    BY NoRepetition, LenProperties
  <1>2. CASE x \notin ToSet(s)
    <2>1. r = s
      BY <1>1, <1>2 DEF RemoveFirst
    <2>2. QED
      BY <1>1, <1>2, <2>1, SMT
  <1>3. CASE x \in ToSet(s)
    <2>1. PICK k \in 1..Len(s) : s[k] = x
      BY <1>1, <1>3
    <2>2. SelectInSeq(s, LAMBDA v : v = x) = k
      BY <1>1, <2>1, SMT DEF SelectInSeq, Min
    <2>3. r = RemoveAt(s, k)
      BY <2>1, <2>2 DEF RemoveFirst
    <2>4. /\ r \in Seq(S) /\ Len(r) = Len(s) - 1 /\ Len(r) \in Nat
          /\ \A j \in 1..Len(r) : r[j] = IF j < k THEN s[j] ELSE s[j + 1]
      <3>1. /\ r \in Seq(S) /\ Len(r) = Len(s) - 1
            /\ \A j \in 1..(Len(s) - 1) :
                 r[j] = IF j < k THEN s[j] ELSE s[j + 1]
        BY <2>3, RemoveAtFacts
      <3> HIDE DEF r
      <3>2. Len(r) \in Nat
        BY <1>1, <3>1, SMT
      <3>3. QED
        BY <3>1, <3>2
    <2> HIDE DEF r
    <2>5. \A h, j \in 1..Len(r) : r[h] = r[j] => h = j
      BY <1>1, <2>4, SMTT(30)
    <2>6. \A m \in 1..Len(s) : s[m] = x => m = k
      BY <1>1, <2>1
    <2>7. ASSUME NEW y, y \in ToSet(r) PROVE y \in ToSet(s) /\ y # x
      <3>1. PICK j \in 1..Len(r) : r[j] = y
        BY <2>4, <2>7, NoRepetition
      <3>2. PICK m \in 1..Len(s) : y = s[m] /\ m # k
        BY <1>1, <2>4, <3>1, SMT
      <3>3. QED
        BY <1>1, <2>6, <3>2
    <2>8. ASSUME NEW y, y \in ToSet(s), y # x PROVE y \in ToSet(r)
      <3>1. PICK m \in 1..Len(s) : s[m] = y
        BY <1>1, <2>8
      <3>2. m # k
        BY <2>1, <2>8, <3>1
      <3>3. PICK j \in 1..Len(r) : m = IF j < k THEN j ELSE j + 1
        <4>1. CASE m < k
          BY <1>1, <2>4, <4>1, SMT
        <4>2. CASE m > k
          <5>1. m - 1 \in 1..Len(r) /\ ~(m - 1 < k) /\ m = (m - 1) + 1
            BY <1>1, <2>4, <4>2, SMT
          <5>2. QED
            BY <5>1
        <4>3. QED
          BY <1>1, <3>2, <4>1, <4>2, SMT
      <3>4. r[j] = y
        BY <2>4, <3>1, <3>3
      <3>5. QED
        BY <2>4, <3>4, NoRepetition
    <2>9. QED
      BY <1>1, <1>3, <2>4, <2>5, <2>6, <2>7, <2>8, NoRepetition, SMTT(30) DEF r
  <1>4. QED
    BY <1>2, <1>3

\* A list without repetition is no longer than the set its entries are from.
LEMMA ListLength ==
    ASSUME NEW S, IsFiniteSet(S), NEW s \in Seq(S), IsInjective(s)
    PROVE  Len(s) <= Cardinality(S) /\ Cardinality(S) \in Nat
  <1>1. /\ Len(s) \in Nat /\ Cardinality(S) \in Nat
        /\ \A h, j \in 1..Len(s) : s[h] = s[j] => h = j
    BY NoRepetition, LenProperties, FS_CardinalityType
  <1>2. CASE Len(s) = 0
    BY <1>1, <1>2, SMT
  <1>3. CASE Len(s) # 0
    <2>1. Len(s) \in 1..Len(s)
      BY <1>1, <1>3, SMT
    <2>2. Cardinality(PrefixSet(s, Len(s))) = Len(s)
      BY <1>1, <2>1, PrefixCardinality
    <2>3. PrefixSet(s, Len(s)) \subseteq S
      BY ElementOfSeq DEF PrefixSet
    <2>4. QED
      BY <1>1, <2>2, <2>3, FS_Subset, SMT
  <1>4. QED
    BY <1>2, <1>3

-------------------------------------------------------------------------------
\* KernelTimeouts: the place of an interrupt in the lists, and the two sums.

N == Cardinality(All)

\* Call_tick_tasks has not come to the m-th task yet.
Uncalled(m) == place > 0 /\ m >= IF at > 0 THEN place + 1 ELSE place

\* The k-th timeout has not been looked at in this interrupt, with
\* timeout_tick in the m-th place of the tick tasks.
Unwalked(k, m) == place > 0 /\ IF at > 0 THEN k >= at ELSE m >= place

Lists ==
    /\ tick_funcs \in Seq(All) /\ IsInjective(tick_funcs)
    /\ tmo_list \in Seq(Timeouts) /\ IsInjective(tmo_list)
    /\ Len(tmo_list) <= MaxTimeouts

Counters ==
    /\ due \in [Timeouts -> Int] /\ missed \in [All -> Nat]
    /\ place \in 0..(N + 1) /\ at \in 0..(MaxTimeouts + 1)

\* While the timeouts are walked, timeout_tick is the task being called, or
\* has just taken itself off.
Walking ==
    at > 0 => /\ place \in 1..N
              /\ \A m \in 1..Len(tick_funcs) :
                   tick_funcs[m] = timeout_tick => m = place

\* The interrupts a task was left out of, and its place, never exceed N.
TaskSum ==
    \A m \in 1..Len(tick_funcs) :
        missed[tick_funcs[m]] + m <= N + IF Uncalled(m) THEN 1 ELSE 0

\* The ticks a timeout is late by, its place and that of timeout_tick.
TimeoutSum ==
    \A k \in 1..Len(tmo_list), m \in 1..Len(tick_funcs) :
        tick_funcs[m] = timeout_tick /\ due[tmo_list[k]] <= 0 =>
            k + m - due[tmo_list[k]]
                <= N + MaxTimeouts - IF Unwalked(k, m) THEN 0 ELSE 1

TickIInv ==
    /\ Lists /\ Counters /\ WalkedWhileNeeded
    /\ Walking /\ TaskSum /\ TimeoutSum

-------------------------------------------------------------------------------
\* All tasks, timeout_tick among them, are N in number.
LEMMA TaskCount ==
    /\ IsFiniteSet(All) /\ N \in Nat /\ N = Cardinality(Tasks) + 1
    /\ Cardinality(Tasks) \in Nat
    /\ MaxTimeouts \in Nat /\ MaxTimeouts >= 1
  <1>1. IsFiniteSet(All) /\ N = Cardinality(Tasks) + 1
    BY KernelTimeoutAssumption, FS_AddElement DEF All, N
  <1>2. N \in Nat /\ Cardinality(Tasks) \in Nat
    BY <1>1, KernelTimeoutAssumption, FS_CardinalityType DEF N
  <1>3. QED
    BY <1>1, <1>2, KernelTimeoutAssumption, SMT

\* What the type of the two lists says of their places.
LEMMA Places ==
    ASSUME Lists
    PROVE  /\ Len(tick_funcs) \in Nat /\ Len(tick_funcs) <= N
           /\ Len(tmo_list) \in Nat
           /\ DOMAIN tick_funcs = 1..Len(tick_funcs)
           /\ DOMAIN tmo_list = 1..Len(tmo_list)
           /\ \A m \in 1..Len(tick_funcs) : tick_funcs[m] \in All
           /\ \A k \in 1..Len(tmo_list) : tmo_list[k] \in Timeouts
           /\ \A m, n \in 1..Len(tick_funcs) :
                tick_funcs[m] = tick_funcs[n] => m = n
           /\ \A k, n \in 1..Len(tmo_list) : tmo_list[k] = tmo_list[n] => k = n
           /\ \A x : x \in Installed <=>
                \E m \in 1..Len(tick_funcs) : tick_funcs[m] = x
           /\ \A x : x \in Active <=>
                \E k \in 1..Len(tmo_list) : tmo_list[k] = x
  <1>1. /\ tick_funcs \in Seq(All) /\ IsInjective(tick_funcs)
        /\ tmo_list \in Seq(Timeouts) /\ IsInjective(tmo_list)
    BY DEF Lists
  <1>2. Len(tick_funcs) <= N
    BY <1>1, TaskCount, ListLength DEF N
  <1>3. /\ Len(tick_funcs) \in Nat /\ DOMAIN tick_funcs = 1..Len(tick_funcs)
        /\ \A m \in 1..Len(tick_funcs) : tick_funcs[m] \in All
    BY <1>1, LenProperties, ElementOfSeq
  <1>4. /\ Len(tmo_list) \in Nat /\ DOMAIN tmo_list = 1..Len(tmo_list)
        /\ \A k \in 1..Len(tmo_list) : tmo_list[k] \in Timeouts
    BY <1>1, LenProperties, ElementOfSeq
  <1>5. QED
    BY <1>1, <1>2, <1>3, <1>4, NoRepetition DEF Installed, Active

\* s2 is a list left of s by taking entries out: none has moved down.
NoneDown(s, s2) ==
    \A j \in 1..Len(s2) : s2[j] \in ToSet(s) =>
        \E k \in 1..Len(s) : k >= j /\ s[k] = s2[j]

\* Removing an entry moves the others up or not at all.
LEMMA RemovedUp ==
    ASSUME NEW S, NEW s \in Seq(S), IsInjective(s), NEW x
    PROVE  /\ Removed(s, x) \in Seq(S) /\ IsInjective(Removed(s, x))
           /\ Len(Removed(s, x)) \in Nat /\ Len(Removed(s, x)) <= Len(s)
           /\ NoneDown(s, Removed(s, x))
           /\ \A y : y \in ToSet(Removed(s, x)) <=> y \in ToSet(s) /\ y # x
           /\ x \notin ToSet(s) => Removed(s, x) = s
  <1> DEFINE r == Removed(s, x)
  <1>1. /\ r \in Seq(S) /\ IsInjective(r) /\ Len(s) \in Nat /\ Len(r) \in Nat
        /\ Len(r) <= Len(s)
        /\ x \notin ToSet(s) => r = s
        /\ \A k \in 1..Len(s) : s[k] = x =>
             /\ Len(r) = Len(s) - 1
             /\ \A j \in 1..Len(r) : r[j] = IF j < k THEN s[j] ELSE s[j + 1]
        /\ \A y : y \in ToSet(r) <=> y \in ToSet(s) /\ y # x
    BY RemoveFirstFacts DEF Removed
  <1> HIDE DEF r
  <1>2. NoneDown(s, r)
    <2>1. CASE x \notin ToSet(s)
      BY <1>1, <2>1, SMT DEF NoneDown
    <2>2. CASE x \in ToSet(s)
      <3>1. PICK k \in 1..Len(s) : s[k] = x
        BY <2>2, NoRepetition
      <3>2. /\ Len(r) = Len(s) - 1
            /\ \A j \in 1..Len(r) : r[j] = IF j < k THEN s[j] ELSE s[j + 1]
        BY <1>1, <3>1
      <3>3. \A j \in 1..Len(r) : j \in 1..Len(s) /\ j + 1 \in 1..Len(s)
                                 /\ j >= j /\ j + 1 >= j
        BY <1>1, <3>2, SMT
      <3>4. QED
        BY <3>2, <3>3 DEF NoneDown
    <2>3. QED
      BY <2>1, <2>2
  <1>3. QED
    BY <1>1, <1>2 DEF r

\* Adding an entry leaves the others where they are.
LEMMA PutBehind ==
    ASSUME NEW S, NEW s \in Seq(S), IsInjective(s), NEW x \in S
    PROVE  /\ Put(s, x) \in Seq(S) /\ IsInjective(Put(s, x))
           /\ Len(Put(s, x)) = IF x \in ToSet(s) THEN Len(s) ELSE Len(s) + 1
           /\ Put(s, x) # << >>
           /\ NoneDown(s, Put(s, x))
           /\ \A y : y \in ToSet(Put(s, x)) <=> y \in ToSet(s) \/ y = x
           /\ x \in ToSet(s) => Put(s, x) = s
  <1> DEFINE r == Put(s, x)
  <1>1. /\ Len(s) \in Nat
        /\ \A i1, j \in 1..Len(s) : s[i1] = s[j] => i1 = j
        /\ \A y : y \in ToSet(s) <=> \E i1 \in 1..Len(s) : s[i1] = y
    BY NoRepetition, LenProperties
  <1>2. CASE x \in ToSet(s)
    <2>1. r = s
      BY <1>2 DEF Put
    <2>2. s # << >>
      BY <1>1, <1>2, EmptySeq, SMT
    <2>3. NoneDown(s, s)
      BY <1>1, SMT DEF NoneDown
    <2>4. QED
      BY <1>2, <2>1, <2>2, <2>3
  <1>3. CASE x \notin ToSet(s)
    <2>1. r = Append(s, x)
      BY <1>3 DEF Put
    <2>2. /\ r \in Seq(S) /\ r # << >> /\ Len(r) = Len(s) + 1
          /\ \A j \in 1..Len(s) : r[j] = s[j]
          /\ r[Len(s) + 1] = x
      BY <2>1, AppendFacts
    <2> HIDE DEF r
    <2>3. \A j \in 1..Len(s) : s[j] # x
      BY <1>1, <1>3
    <2>4. \A i1, j \in 1..Len(r) : r[i1] = r[j] => i1 = j
      BY <1>1, <2>2, <2>3, SMT
    <2>5. \A y : (\E j \in 1..Len(r) : r[j] = y)
                   <=> (\E j \in 1..Len(s) : s[j] = y) \/ y = x
      BY <1>1, <2>2, SMT
    <2>6. \A y : y \in ToSet(r) <=> y \in ToSet(s) \/ y = x
      BY <1>1, <2>2, <2>5, NoRepetition
    <2>7. NoneDown(s, r)
      <3>1. \A j \in 1..Len(r) : r[j] # x => j \in 1..Len(s) /\ j >= j
        BY <1>1, <2>2, SMT
      <3>2. QED
        BY <1>3, <2>2, <3>1 DEF NoneDown
    <2>8. IsInjective(r)
      BY <2>2, <2>4, NoRepetition
    <2>9. QED
      BY <1>3, <2>2, <2>6, <2>7, <2>8 DEF r
  <1>4. QED
    BY <1>2, <1>3

\* The places of a list of tasks, whichever it is.
LEMMA TaskPlaces ==
    ASSUME NEW s \in Seq(All), IsInjective(s)
    PROVE  /\ Len(s) \in Nat /\ Len(s) <= N
           /\ \A m \in 1..Len(s) : s[m] \in All /\ s[m] \in ToSet(s)
           /\ \A m, n \in 1..Len(s) : s[m] = s[n] => m = n
           /\ DOMAIN s = 1..Len(s)
  <1>1. Len(s) <= N
    BY TaskCount, ListLength DEF N
  <1>2. QED
    BY <1>1, LenProperties, ElementOfSeq, NoRepetition

\* Nothing is registered, nothing is missed.
LEMMA InitEstablishes == TickInit => TickIInv
  <1> SUFFICES ASSUME TickInit PROVE TickIInv
    OBVIOUS
  <1>1. tick_funcs = << >> /\ tmo_list = << >> /\ place = 0 /\ at = 0
    BY DEF TickInit
  <1>2. /\ << >> \in Seq(All) /\ << >> \in Seq(Timeouts) /\ Len(<< >>) = 0
        /\ IsInjective(<< >>) /\ \A x : x \notin ToSet(<< >>)
    BY EmptyList
  <1>3. Lists
    BY <1>1, <1>2, TaskCount, SMT DEF Lists
  <1>4. Counters
    BY TaskCount, SMT DEF TickInit, Counters
  <1>5. WalkedWhileNeeded
    BY <1>1, <1>2 DEF WalkedWhileNeeded, Installed
  <1>6. Walking /\ TaskSum /\ TimeoutSum
    BY <1>1, <1>2, SMT DEF Walking, TaskSum, TimeoutSum
  <1>7. QED
    BY <1>3, <1>4, <1>5, <1>6 DEF TickIInv

\* Between two interrupts: whatever is taken out of the lists or put behind
\* them, the sums hold.
LEMMA QuietStep ==
    ASSUME TickIInv, place = 0, UNCHANGED <<place, at>>,
           Lists', WalkedWhileNeeded', due' \in [Timeouts -> Int],
           Reset(tick_funcs, tick_funcs'),
           NoneDown(tick_funcs, tick_funcs'), NoneDown(tmo_list, tmo_list'),
           \A k \in 1..Len(tmo_list') :
               due'[tmo_list'[k]] <= 0 =>
                   /\ tmo_list'[k] \in Active
                   /\ due'[tmo_list'[k]] = due[tmo_list'[k]]
    PROVE  TickIInv'
  <1>1. /\ tick_funcs' \in Seq(All) /\ IsInjective(tick_funcs')
        /\ tmo_list' \in Seq(Timeouts) /\ IsInjective(tmo_list')
    BY DEF Lists
  <1>2. /\ Len(tick_funcs') \in Nat /\ Len(tick_funcs') <= N
        /\ \A m \in 1..Len(tick_funcs') :
             tick_funcs'[m] \in All /\ tick_funcs'[m] \in ToSet(tick_funcs')
    BY <1>1, TaskPlaces
  <1>3. at = 0 /\ place' = 0 /\ at' = 0
    BY TaskCount, SMT DEF TickIInv, Walking, Counters
  <1>4. \A f \in All : missed[f] \in Nat
    BY DEF TickIInv, Counters
  <1>5. \A f \in All :
           missed'[f] = IF f \in ToSet(tick_funcs) /\ f \in ToSet(tick_funcs')
                        THEN missed[f] ELSE 0
    BY DEF Reset
  <1>6. Counters' /\ Walking'
    <2>1. missed' \in [All -> Nat]
      BY <1>4 DEF Reset
    <2>2. QED
      BY <1>3, <2>1, TaskCount, SMT DEF Counters, Walking, TickIInv, N, All
  <1>7. TaskSum'
    <2> SUFFICES ASSUME NEW m \in 1..Len(tick_funcs')
                 PROVE  missed'[tick_funcs'[m]] + m <= N
      <3>1. N' = N
        BY DEF N, All
      <3>2. \A m : ~Uncalled(m)'
        BY <1>3, SMT DEF Uncalled
      <3>3. QED
        BY <1>3, <3>1, <3>2, TaskCount, SMT DEF TaskSum
    <2>1. CASE tick_funcs'[m] \in ToSet(tick_funcs)
      <3>1. PICK n \in 1..Len(tick_funcs) : n >= m /\ tick_funcs[n] = tick_funcs'[m]
        BY <2>1 DEF NoneDown
      <3>2. missed[tick_funcs[n]] + n <= N
        BY <1>3, TaskCount, SMT DEF TickIInv, TaskSum, Uncalled
      <3>3. missed'[tick_funcs'[m]] = missed[tick_funcs[n]]
        BY <1>2, <1>5, <2>1, <3>1
      <3>4. missed[tick_funcs[n]] \in Nat /\ n \in Nat /\ m \in Nat
        BY <1>2, <1>4, <3>1, Places, SMT DEF TickIInv
      <3>5. QED
        BY <3>1, <3>2, <3>3, <3>4, TaskCount, SMT
    <2>2. CASE tick_funcs'[m] \notin ToSet(tick_funcs)
      <3>1. missed'[tick_funcs'[m]] = 0
        BY <1>2, <1>5, <2>2
      <3>2. QED
        BY <1>2, <3>1, TaskCount, SMT
    <2>3. QED
      BY <2>1, <2>2
  <1>8. TimeoutSum'
    <2> SUFFICES ASSUME NEW k \in 1..Len(tmo_list'),
                        NEW m \in 1..Len(tick_funcs'),
                        tick_funcs'[m] = timeout_tick, due'[tmo_list'[k]] <= 0
                 PROVE  k + m - due'[tmo_list'[k]] <= N + MaxTimeouts - 1
      <3>1. N' = N
        BY DEF N, All
      <3>2. \A k, m : ~Unwalked(k, m)'
        BY <1>3, SMT DEF Unwalked
      <3>3. QED
        BY <3>1, <3>2 DEF TimeoutSum
    <2>1. PICK k0 \in 1..Len(tmo_list) : k0 >= k /\ tmo_list[k0] = tmo_list'[k]
      BY DEF NoneDown, Active
    <2>2. timeout_tick \in ToSet(tick_funcs)
      <3>1. tmo_list # << >>
        BY <2>1, EmptySeq, SMT
      <3>2. QED
        BY <3>1 DEF TickIInv, WalkedWhileNeeded, Installed
    <2>3. PICK m0 \in 1..Len(tick_funcs) :
            m0 >= m /\ tick_funcs[m0] = timeout_tick
      BY <2>2 DEF NoneDown
    <2>4. due'[tmo_list'[k]] = due[tmo_list[k0]] /\ due[tmo_list[k0]] \in Int
      BY <2>1, Places DEF TickIInv, Counters
    <2>5. k \in Nat /\ m \in Nat /\ k0 \in Nat /\ m0 \in Nat
      BY <1>1, Places, LenProperties, SMT DEF TickIInv
    <2>6. k0 + m0 - due[tmo_list[k0]] <= N + MaxTimeouts - 1
      <3>1. ~Unwalked(k0, m0)
        BY DEF Unwalked
      <3>2. due[tmo_list[k0]] <= 0
        BY <2>4
      <3>3. QED
        BY <2>3, <3>1, <3>2 DEF TickIInv, TimeoutSum
    <2>7. QED
      <3>1. \A x, b \in Int : k0 + m0 - x <= b => k + m - x <= b
        BY <2>1, <2>3, <2>5, SMT
      <3>2. N + MaxTimeouts - 1 \in Int
        BY TaskCount, SMT
      <3>3. QED
        BY <2>4, <2>6, <3>1, <3>2
  <1>9. QED
    BY <1>6, <1>7, <1>8 DEF TickIInv

\* Steps that change nothing keep the invariant.
LEMMA StutterPreserves ==
    ASSUME TickIInv, UNCHANGED tick_vars
    PROVE  TickIInv'
  BY DEF TickIInv, tick_vars, Lists, Counters, WalkedWhileNeeded, Walking, TaskSum,
         TimeoutSum, Uncalled, Unwalked, Installed, All, N

\* In a list that stays, nothing moves down.
LEMMA UnchangedUp ==
    ASSUME NEW S, NEW s \in Seq(S)
    PROVE  NoneDown(s, s)
  BY LenProperties, SMT DEF NoneDown

\* timeout_register outside the tick interrupt.
LEMMA RegisterPreserves ==
    ASSUME TickIInv, NEW t \in Timeouts, NEW n \in 1..MaxInterval, Register(t, n)
    PROVE  TickIInv'
  <1>1. place = 0 /\ UNCHANGED <<place, at>>
    BY DEF Register
  <1>2. /\ tick_funcs \in Seq(All) /\ IsInjective(tick_funcs)
        /\ tmo_list \in Seq(Timeouts) /\ IsInjective(tmo_list)
        /\ Len(tmo_list) <= MaxTimeouts /\ Len(tmo_list) \in Nat
    BY Places DEF TickIInv, Lists
  <1>3. CASE UNCHANGED tick_vars
    BY <1>3, StutterPreserves
  <1>4. CASE ~UNCHANGED tick_vars
    <2>1. /\ t \in Active \/ Len(tmo_list) < MaxTimeouts
          /\ tick_funcs' = IF tmo_list = << >> THEN Put(tick_funcs, timeout_tick)
                                               ELSE tick_funcs
          /\ tmo_list' = Put(tmo_list, t)
          /\ due' = [due EXCEPT ![t] = n]
          /\ Reset(tick_funcs, tick_funcs')
      BY <1>1, <1>4 DEF Register, tick_vars
    <2>2. /\ tmo_list' \in Seq(Timeouts) /\ IsInjective(tmo_list')
          /\ Len(tmo_list') = IF t \in Active THEN Len(tmo_list)
                                              ELSE Len(tmo_list) + 1
          /\ tmo_list' # << >> /\ NoneDown(tmo_list, tmo_list')
          /\ \A y : y \in ToSet(tmo_list') <=> y \in Active \/ y = t
      BY <1>2, <2>1, PutBehind DEF Active
    <2>3. timeout_tick \in All
      BY DEF All
    <2>4. /\ tick_funcs' \in Seq(All) /\ IsInjective(tick_funcs')
          /\ NoneDown(tick_funcs, tick_funcs')
          /\ timeout_tick \in ToSet(tick_funcs')
      <3>1. CASE tmo_list = << >>
        BY <1>2, <2>1, <2>3, <3>1, PutBehind
      <3>2. CASE tmo_list # << >>
        BY <1>2, <2>1, <3>2, UnchangedUp
        DEF TickIInv, WalkedWhileNeeded, Installed
      <3>3. QED
        BY <3>1, <3>2
    <2>5. Lists'
      <3>1. Len(tmo_list') <= MaxTimeouts
        BY <1>2, <2>1, <2>2, TaskCount, SMT
      <3>2. QED
        BY <2>2, <2>4, <3>1 DEF Lists, All
    <2>6. WalkedWhileNeeded'
      BY <2>2, <2>4 DEF WalkedWhileNeeded, Installed
    <2>7. due' \in [Timeouts -> Int]
      BY <2>1, SMT DEF TickIInv, Counters
    <2>8. ASSUME NEW k \in 1..Len(tmo_list'), due'[tmo_list'[k]] <= 0
          PROVE  /\ tmo_list'[k] \in Active
                 /\ due'[tmo_list'[k]] = due[tmo_list'[k]]
      <3>1. tmo_list'[k] \in Timeouts /\ tmo_list'[k] \in ToSet(tmo_list')
        BY <2>2, ElementOfSeq, NoRepetition
      <3>2. tmo_list'[k] # t
        BY <2>1, <2>8, <3>1, SMT DEF TickIInv, Counters
      <3>3. QED
        BY <2>1, <2>2, <3>1, <3>2 DEF TickIInv, Counters
    <2>9. QED
      BY <1>1, <2>1, <2>2, <2>4, <2>5, <2>6, <2>7, <2>8, QuietStep
  <1>5. QED
    BY <1>3, <1>4

\* timeout_cancel outside the tick interrupt.
LEMMA CancelPreserves ==
    ASSUME TickIInv, NEW t \in Timeouts, Cancel(t)
    PROVE  TickIInv'
  <1>1. /\ place = 0 /\ UNCHANGED <<place, at>>
        /\ tmo_list' = Removed(tmo_list, t)
        /\ tick_funcs' = IF tmo_list' = << >>
                         THEN Removed(tick_funcs, timeout_tick) ELSE tick_funcs
        /\ due' = [due EXCEPT ![t] = 0]
        /\ Reset(tick_funcs, tick_funcs') /\ t \in Active
    BY DEF Cancel, TasksAfterCancel
  <1>2. /\ tick_funcs \in Seq(All) /\ IsInjective(tick_funcs)
        /\ tmo_list \in Seq(Timeouts) /\ IsInjective(tmo_list)
        /\ Len(tmo_list) <= MaxTimeouts /\ Len(tmo_list) \in Nat
    BY Places DEF TickIInv, Lists
  <1>3. /\ tmo_list' \in Seq(Timeouts) /\ IsInjective(tmo_list')
        /\ Len(tmo_list') \in Nat /\ Len(tmo_list') <= Len(tmo_list)
        /\ NoneDown(tmo_list, tmo_list')
        /\ \A y : y \in ToSet(tmo_list') <=> y \in Active /\ y # t
    BY <1>1, <1>2, RemovedUp DEF Active
  <1>4. /\ tick_funcs' \in Seq(All) /\ IsInjective(tick_funcs')
        /\ NoneDown(tick_funcs, tick_funcs')
        /\ timeout_tick \in ToSet(tick_funcs') <=> tmo_list' # << >>
    <2>1. CASE tmo_list' = << >>
      BY <1>1, <1>2, <2>1, RemovedUp
    <2>2. CASE tmo_list' # << >>
      <3>1. tmo_list # << >>
        BY <1>1, EmptyList DEF Active
      <3>2. QED
        BY <1>1, <1>2, <2>2, <3>1, UnchangedUp
        DEF TickIInv, WalkedWhileNeeded, Installed
    <2>3. QED
      BY <2>1, <2>2
  <1>5. Lists' /\ WalkedWhileNeeded'
    <2>1. Len(tmo_list') <= MaxTimeouts
      BY <1>2, <1>3, TaskCount, SMT
    <2>2. QED
      BY <1>3, <1>4, <2>1 DEF Lists, All, WalkedWhileNeeded, Installed
  <1>6. due' \in [Timeouts -> Int]
    BY <1>1, SMT DEF TickIInv, Counters
  <1>7. ASSUME NEW k \in 1..Len(tmo_list'), due'[tmo_list'[k]] <= 0
        PROVE  /\ tmo_list'[k] \in Active
               /\ due'[tmo_list'[k]] = due[tmo_list'[k]]
    <2>1. tmo_list'[k] \in Timeouts /\ tmo_list'[k] \in ToSet(tmo_list')
      BY <1>3, ElementOfSeq, NoRepetition
    <2>2. QED
      BY <1>1, <1>3, <2>1 DEF TickIInv, Counters
  <1>8. QED
    BY <1>1, <1>3, <1>4, <1>5, <1>6, <1>7, QuietStep

\* A tick task comes or goes; timeout_tick is not one that threads add.
LEMMA TaskListPreserves ==
    ASSUME TickIInv, NEW f \in Tasks, AddTask(f) \/ RemoveTask(f)
    PROVE  TickIInv'
  <1>1. /\ place = 0 /\ UNCHANGED <<place, at, tmo_list, due>>
        /\ \/ tick_funcs' = Put(tick_funcs, f)
           \/ tick_funcs' = Removed(tick_funcs, f)
        /\ Reset(tick_funcs, tick_funcs')
    BY DEF AddTask, RemoveTask
  <1>2. /\ tick_funcs \in Seq(All) /\ IsInjective(tick_funcs)
        /\ tmo_list \in Seq(Timeouts) /\ IsInjective(tmo_list)
        /\ f \in All /\ f # timeout_tick
    BY KernelTimeoutAssumption DEF TickIInv, Lists, All
  <1>3. /\ tick_funcs' \in Seq(All) /\ IsInjective(tick_funcs')
        /\ NoneDown(tick_funcs, tick_funcs')
        /\ timeout_tick \in ToSet(tick_funcs') <=> timeout_tick \in Installed
    <2>1. CASE tick_funcs' = Put(tick_funcs, f)
      BY <1>2, <2>1, PutBehind DEF Installed
    <2>2. CASE tick_funcs' = Removed(tick_funcs, f)
      BY <1>2, <2>2, RemovedUp DEF Installed
    <2>3. QED
      BY <1>1, <2>1, <2>2
  <1>4. Lists' /\ WalkedWhileNeeded'
    BY <1>1, <1>3 DEF TickIInv, Lists, All, WalkedWhileNeeded, Installed
  <1>5. due' \in [Timeouts -> Int] /\ NoneDown(tmo_list, tmo_list')
    BY <1>1, <1>2, UnchangedUp DEF TickIInv, Counters
  <1>6. \A k \in 1..Len(tmo_list') : tmo_list'[k] \in Active
    BY <1>1, <1>2, NoRepetition DEF Active
  <1>7. QED
    BY <1>1, <1>3, <1>4, <1>5, <1>6, QuietStep

-------------------------------------------------------------------------------
\* The two sums as facts about numbers, for the arithmetic of the steps below.
LEMMA Sums ==
    ASSUME TickIInv
    PROVE  /\ \A m \in 1..Len(tick_funcs) :
                /\ missed[tick_funcs[m]] \in Nat /\ m \in Nat /\ m <= N
                /\ missed[tick_funcs[m]] + m <= N + 1
                /\ ~Uncalled(m) => missed[tick_funcs[m]] + m <= N
           /\ \A k \in 1..Len(tmo_list), m \in 1..Len(tick_funcs) :
                /\ due[tmo_list[k]] \in Int /\ k \in Nat /\ k <= MaxTimeouts
                /\ tick_funcs[m] = timeout_tick /\ due[tmo_list[k]] <= 0 =>
                     /\ k + m - due[tmo_list[k]] <= N + MaxTimeouts
                     /\ ~Unwalked(k, m) =>
                          k + m - due[tmo_list[k]] <= N + MaxTimeouts - 1
  <1>1. /\ Len(tick_funcs) \in Nat /\ Len(tick_funcs) <= N
        /\ Len(tmo_list) \in Nat /\ Len(tmo_list) <= MaxTimeouts
        /\ \A m \in 1..Len(tick_funcs) : tick_funcs[m] \in All
        /\ \A k \in 1..Len(tmo_list) : tmo_list[k] \in Timeouts
    BY Places DEF TickIInv, Lists
  <1>2. ASSUME NEW m \in 1..Len(tick_funcs)
        PROVE  /\ missed[tick_funcs[m]] \in Nat /\ m \in Nat /\ m <= N
               /\ missed[tick_funcs[m]] + m <= N + 1
               /\ ~Uncalled(m) => missed[tick_funcs[m]] + m <= N
    <2>1. missed[tick_funcs[m]] \in Nat /\ m \in Nat /\ m <= N
      BY <1>1, TaskCount, SMT DEF TickIInv, Counters
    <2>2. missed[tick_funcs[m]] + m <= N + IF Uncalled(m) THEN 1 ELSE 0
      BY DEF TickIInv, TaskSum
    <2>3. QED
      BY <2>1, <2>2, TaskCount, SMT
  <1>3. ASSUME NEW k \in 1..Len(tmo_list), NEW m \in 1..Len(tick_funcs)
        PROVE  /\ due[tmo_list[k]] \in Int /\ k \in Nat /\ k <= MaxTimeouts
               /\ tick_funcs[m] = timeout_tick /\ due[tmo_list[k]] <= 0 =>
                    /\ k + m - due[tmo_list[k]] <= N + MaxTimeouts
                    /\ ~Unwalked(k, m) =>
                         k + m - due[tmo_list[k]] <= N + MaxTimeouts - 1
    <2>1. due[tmo_list[k]] \in Int /\ k \in Nat /\ k <= MaxTimeouts /\ m \in Nat
      BY <1>1, TaskCount, SMT DEF TickIInv, Counters
    <2>2. tick_funcs[m] = timeout_tick /\ due[tmo_list[k]] <= 0 =>
            k + m - due[tmo_list[k]]
              <= N + MaxTimeouts - IF Unwalked(k, m) THEN 0 ELSE 1
      BY DEF TickIInv, TimeoutSum
    <2>3. QED
      BY <2>1, <2>2, TaskCount, SMTT(30)
  <1>4. QED
    BY <1>2, <1>3

\* And back: the sums of a next state, place by place.
LEMMA SumsAfter ==
    ASSUME \A m \in 1..Len(tick_funcs') :
             /\ missed'[tick_funcs'[m]] \in Nat /\ m \in Nat
             /\ missed'[tick_funcs'[m]] + m <= N + 1
             /\ ~Uncalled(m)' => missed'[tick_funcs'[m]] + m <= N,
           \A k \in 1..Len(tmo_list'), m \in 1..Len(tick_funcs') :
             tick_funcs'[m] = timeout_tick /\ due'[tmo_list'[k]] <= 0 =>
               /\ due'[tmo_list'[k]] \in Int /\ k \in Nat /\ m \in Nat
               /\ k + m - due'[tmo_list'[k]] <= N + MaxTimeouts
               /\ ~Unwalked(k, m)' =>
                    k + m - due'[tmo_list'[k]] <= N + MaxTimeouts - 1
    PROVE  TaskSum' /\ TimeoutSum'
  <1>1. N' = N
    BY DEF N, All
  <1>2. TaskSum'
    <2> SUFFICES ASSUME NEW m \in 1..Len(tick_funcs')
                 PROVE  missed'[tick_funcs'[m]] + m
                          <= N + IF Uncalled(m)' THEN 1 ELSE 0
      BY <1>1 DEF TaskSum
    <2>1. QED
      BY TaskCount, SMT
  <1>3. TimeoutSum'
    <2> SUFFICES ASSUME NEW k \in 1..Len(tmo_list'),
                        NEW m \in 1..Len(tick_funcs'),
                        tick_funcs'[m] = timeout_tick, due'[tmo_list'[k]] <= 0
                 PROVE  k + m - due'[tmo_list'[k]]
                          <= N + MaxTimeouts - IF Unwalked(k, m)' THEN 0 ELSE 1
      BY <1>1 DEF TimeoutSum
    <2>1. QED
      BY TaskCount, SMTT(30)
  <1>4. QED
    BY <1>2, <1>3

\* A tick comes: every tick task is owed a call, every timeout is nearer its end.
LEMMA TickBeginPreserves ==
    ASSUME TickIInv, TickBegin
    PROVE  TickIInv'
  <1>1. /\ place = 0 /\ place' = 1 /\ at = 0 /\ at' = 0
        /\ UNCHANGED <<tick_funcs, tmo_list>>
    BY TaskCount, SMT DEF TickBegin, TickIInv, Walking, Counters
  <1>2. /\ \A m \in 1..Len(tick_funcs) : missed'[tick_funcs[m]] =
                                           missed[tick_funcs[m]] + 1
        /\ \A k \in 1..Len(tmo_list) : due'[tmo_list[k]] =
                                           due[tmo_list[k]] - 1
    BY Places DEF TickBegin, TickIInv
  <1>3. Counters'
    <2>1. due' \in [Timeouts -> Int]
      BY SMT DEF TickBegin, TickIInv, Counters
    <2>2. missed' \in [All -> Nat]
      BY SMT DEF TickBegin, TickIInv, Counters
    <2>3. N' = N /\ All' = All
      BY DEF N, All
    <2>4. QED
      BY <1>1, <2>1, <2>2, <2>3, TaskCount, SMT DEF Counters, TickIInv
  <1>4. \A m \in 1..Len(tick_funcs') :
             /\ missed'[tick_funcs'[m]] \in Nat /\ m \in Nat
             /\ missed'[tick_funcs'[m]] + m <= N + 1
             /\ ~Uncalled(m)' => missed'[tick_funcs'[m]] + m <= N
    <2>1. \A m \in 1..Len(tick_funcs) : ~Uncalled(m) /\ Uncalled(m)'
      BY <1>1, Sums, SMT DEF Uncalled
    <2>2. QED
      BY <1>1, <1>2, <2>1, Sums, TaskCount, SMTT(30)
  <1>5. \A k \in 1..Len(tmo_list'), m \in 1..Len(tick_funcs') :
             tick_funcs'[m] = timeout_tick /\ due'[tmo_list'[k]] <= 0 =>
               /\ due'[tmo_list'[k]] \in Int /\ k \in Nat /\ m \in Nat
               /\ k + m - due'[tmo_list'[k]] <= N + MaxTimeouts
               /\ ~Unwalked(k, m)' =>
                    k + m - due'[tmo_list'[k]] <= N + MaxTimeouts - 1
    <2> SUFFICES ASSUME NEW k \in 1..Len(tmo_list), NEW m \in 1..Len(tick_funcs),
                        tick_funcs[m] = timeout_tick, due[tmo_list[k]] - 1 <= 0
                 PROVE  /\ due[tmo_list[k]] - 1 \in Int /\ k \in Nat /\ m \in Nat
                        /\ k + m - (due[tmo_list[k]] - 1) <= N + MaxTimeouts
                        /\ Unwalked(k, m)'
      BY <1>1, <1>2
    <2>1. ~Unwalked(k, m) /\ Unwalked(k, m)' /\ m \in Nat /\ m <= N
      BY <1>1, Sums, SMT DEF Unwalked
    <2>2. /\ due[tmo_list[k]] \in Int /\ k \in Nat /\ k <= MaxTimeouts
          /\ due[tmo_list[k]] <= 0 =>
               k + m - due[tmo_list[k]] <= N + MaxTimeouts - 1
      BY <2>1, Sums
    <2>3. \A x \in Int : x - 1 <= 0 /\ (x <= 0 => k + m - x <= N + MaxTimeouts - 1)
             => x - 1 \in Int /\ k + m - (x - 1) <= N + MaxTimeouts
      BY <2>1, <2>2, TaskCount, SMT
    <2>4. QED
      BY <2>1, <2>2, <2>3
  <1>6. Lists' /\ WalkedWhileNeeded' /\ Walking'
    BY <1>1, SMT DEF TickIInv, Lists, WalkedWhileNeeded, Walking, Installed, All
  <1>7. QED
    BY <1>3, <1>4, <1>5, <1>6, SumsAfter DEF TickIInv

\* A task takes itself off while it is called: those behind it move up, and
\* the first of them is left out.
LEMMA TickTaskPreserves ==
    ASSUME TickIInv, NEW f \in Tasks, TickTask(f)
    PROVE  TickIInv'
  <1>1. /\ place \in 1..Len(tick_funcs) /\ at = 0 /\ at' = 0 /\ place' = place + 1
        /\ tick_funcs[place] = f /\ f # timeout_tick /\ f \in All
        /\ UNCHANGED <<tmo_list, due>>
        /\ missed' = [missed EXCEPT ![f] = 0]
    BY Places, KernelTimeoutAssumption DEF TickTask, Call, TickIInv, All
  <1>2. /\ tick_funcs \in Seq(All) /\ IsInjective(tick_funcs)
        /\ Len(tick_funcs) \in Nat /\ Len(tick_funcs) <= N
        /\ \A m, n \in 1..Len(tick_funcs) :
             tick_funcs[m] = tick_funcs[n] => m = n
        /\ \A m \in 1..Len(tick_funcs) : tick_funcs[m] \in All
    BY Places DEF TickIInv, Lists
  <1>3. /\ \A m \in 1..Len(tick_funcs) : missed'[tick_funcs[m]] =
                                   IF m = place THEN 0 ELSE missed[tick_funcs[m]]
        /\ missed' \in [All -> Nat]
    BY <1>1, <1>2 DEF TickIInv, Counters
  \* Where an entry of the list afterwards comes from.
  <1>4. /\ tick_funcs' \in Seq(All) /\ IsInjective(tick_funcs')
        /\ \A m \in 1..Len(tick_funcs') :
             \E n \in 1..Len(tick_funcs) :
                /\ tick_funcs'[m] = tick_funcs[n]
                /\ n = m \/ (n = m + 1 /\ m >= place)
        /\ timeout_tick \in ToSet(tick_funcs') <=> timeout_tick \in Installed
    <2>1. CASE tick_funcs' = tick_funcs
      BY <1>2, <2>1 DEF Installed
    <2>2. CASE tick_funcs' = Removed(tick_funcs, f)
      <3> DEFINE r == RemoveFirst(tick_funcs, f)
      <3>1. /\ r \in Seq(All) /\ IsInjective(r) /\ Len(r) = Len(tick_funcs) - 1
            /\ \A j \in 1..Len(r) : r[j] = IF j < place THEN tick_funcs[j]
                                                    ELSE tick_funcs[j + 1]
            /\ \A y : y \in ToSet(r) <=> y \in ToSet(tick_funcs) /\ y # f
        BY <1>1, <1>2, RemoveFirstFacts
      <3> HIDE DEF r
      <3>2. tick_funcs' = r
        BY <2>2 DEF Removed, r
      <3>3. \A m \in 1..Len(r) : m \in 1..Len(tick_funcs)
                                 /\ m + 1 \in 1..Len(tick_funcs)
                                 /\ (~(m < place) => m >= place)
        BY <1>1, <1>2, <3>1, SMT
      <3>4. \A m \in 1..Len(r) :
             \E n \in 1..Len(tick_funcs) :
                /\ r[m] = tick_funcs[n]
                /\ n = m \/ (n = m + 1 /\ m >= place)
        BY <3>1, <3>3
      <3>5. QED
        BY <1>1, <3>1, <3>2, <3>4 DEF Installed
    <2>3. QED
      BY <1>1, <2>1, <2>2 DEF TickTask
  <1>5. \A m \in 1..Len(tick_funcs') : m \in Nat /\ m >= 1
    BY <1>4, TaskPlaces, SMT
  <1>6. ASSUME NEW m \in 1..Len(tick_funcs')
        PROVE  /\ missed'[tick_funcs'[m]] \in Nat /\ m \in Nat
               /\ missed'[tick_funcs'[m]] + m <= N + 1
               /\ ~Uncalled(m)' => missed'[tick_funcs'[m]] + m <= N
    <2>1. PICK n \in 1..Len(tick_funcs) :
                /\ tick_funcs'[m] = tick_funcs[n]
                /\ n = m \/ (n = m + 1 /\ m >= place)
      BY <1>4
    <2>2. missed'[tick_funcs'[m]] = IF n = place THEN 0 ELSE missed[tick_funcs[n]]
      BY <1>3, <2>1
    <2>3. /\ n \in Nat /\ n <= N /\ m \in Nat
          /\ missed[tick_funcs[n]] \in Nat
          /\ missed[tick_funcs[n]] + n <= N + 1
          /\ ~Uncalled(n) => missed[tick_funcs[n]] + n <= N
      BY <1>5, Sums
    <2>4. (Uncalled(n) <=> n >= place) /\ (Uncalled(m)' <=> m >= place + 1)
      BY <1>1, <1>2, SMT DEF Uncalled
    <2>5. \A x \in Nat : (x + n <= N + 1) /\ (~(n >= place) => x + n <= N) /\ n # place
            => x + m <= N + 1 /\ (~(m >= place + 1) => x + m <= N)
      BY <1>1, <1>2, <2>1, <2>3, TaskCount, SMTT(30)
    <2>6. 0 + m <= N + 1 /\ 0 + m <= N /\ 0 \in Nat
      BY <2>1, <2>3, TaskCount, SMT
    <2>7. CASE n = place
      BY <2>2, <2>3, <2>6, <2>7
    <2>8. CASE n # place
      BY <2>2, <2>3, <2>4, <2>5, <2>8
    <2>9. QED
      BY <2>7, <2>8
  <1>7. ASSUME NEW k \in 1..Len(tmo_list'), NEW m \in 1..Len(tick_funcs'),
               tick_funcs'[m] = timeout_tick, due'[tmo_list'[k]] <= 0
        PROVE  /\ due'[tmo_list'[k]] \in Int /\ k \in Nat /\ m \in Nat
               /\ k + m - due'[tmo_list'[k]] <= N + MaxTimeouts
               /\ ~Unwalked(k, m)' =>
                    k + m - due'[tmo_list'[k]] <= N + MaxTimeouts - 1
    <2>1. PICK n \in 1..Len(tick_funcs) :
                /\ tick_funcs[n] = timeout_tick /\ n # place
                /\ n = m \/ (n = m + 1 /\ m >= place)
      BY <1>1, <1>4, <1>7
    <2>2. k \in 1..Len(tmo_list) /\ due'[tmo_list'[k]] = due[tmo_list[k]]
      BY <1>1
    <2>3. /\ due[tmo_list[k]] \in Int /\ k \in Nat /\ m \in Nat /\ n \in Nat
          /\ k + n - due[tmo_list[k]] <= N + MaxTimeouts
          /\ ~Unwalked(k, n) => k + n - due[tmo_list[k]] <= N + MaxTimeouts - 1
      BY <1>5, <1>7, <2>1, <2>2, Sums
    <2>4. (Unwalked(k, n) <=> n >= place) /\ (Unwalked(k, m)' <=> m >= place + 1)
      BY <1>1, <1>2, SMT DEF Unwalked
    <2>5. \A x \in Int : /\ k + n - x <= N + MaxTimeouts
                         /\ ~(n >= place) => k + n - x <= N + MaxTimeouts - 1
            => /\ k + m - x <= N + MaxTimeouts
               /\ ~(m >= place + 1) => k + m - x <= N + MaxTimeouts - 1
      <3>1. /\ k \in Int /\ m \in Int /\ n \in Int /\ place \in Int
            /\ N \in Int /\ MaxTimeouts \in Int /\ n # place
            /\ n = m \/ (n = m + 1 /\ m >= place)
        BY <1>1, <1>2, <2>1, <2>3, TaskCount, SMT
      <3>2. QED
        BY <3>1, SMT
    <2>6. QED
      BY <2>2, <2>3, <2>4, <2>5
  <1>8. Lists' /\ WalkedWhileNeeded'
    BY <1>1, <1>4 DEF TickIInv, Lists, WalkedWhileNeeded, Installed, All
  <1>9. Counters' /\ Walking'
    <2>1. N' = N /\ All' = All /\ place + 1 \in 0..(N + 1)
      BY <1>1, <1>2, TaskCount, SMT DEF N, All
    <2>2. QED
      BY <1>1, <1>3, <2>1, SMT DEF Counters, Walking, TickIInv
  <1>10. QED
    BY <1>6, <1>7, <1>8, <1>9, SumsAfter DEF TickIInv

\* call_tick_tasks is through: every entry was called or has moved up.
LEMMA TickEndPreserves ==
    ASSUME TickIInv, TickEnd
    PROVE  TickIInv'
  <1>1. /\ place > Len(tick_funcs) /\ at = 0 /\ at' = 0 /\ place' = 0
        /\ UNCHANGED <<tick_funcs, tmo_list, due, missed>>
        /\ N' = N /\ All' = All
    BY DEF TickEnd, N, All
  <1>2. \A m \in 1..Len(tick_funcs) : ~Uncalled(m) /\ ~Uncalled(m)'
    BY <1>1, Places, TaskCount, SMT DEF Uncalled, TickIInv, Counters
  <1>3. \A k, m : m \in 1..Len(tick_funcs) => ~Unwalked(k, m)
    BY <1>1, Places, TaskCount, SMT DEF Unwalked, TickIInv, Counters
  <1>4. \A m \in 1..Len(tick_funcs') :
             /\ missed'[tick_funcs'[m]] \in Nat /\ m \in Nat
             /\ missed'[tick_funcs'[m]] + m <= N + 1
             /\ ~Uncalled(m)' => missed'[tick_funcs'[m]] + m <= N
    BY <1>1, <1>2, Sums
  <1>5. \A k \in 1..Len(tmo_list'), m \in 1..Len(tick_funcs') :
             tick_funcs'[m] = timeout_tick /\ due'[tmo_list'[k]] <= 0 =>
               /\ due'[tmo_list'[k]] \in Int /\ k \in Nat /\ m \in Nat
               /\ k + m - due'[tmo_list'[k]] <= N + MaxTimeouts
               /\ ~Unwalked(k, m)' =>
                    k + m - due'[tmo_list'[k]] <= N + MaxTimeouts - 1
    BY <1>1, <1>3, Sums
  <1>6. Lists' /\ WalkedWhileNeeded' /\ Walking' /\ Counters'
    BY <1>1, TaskCount, SMT
    DEF TickIInv, Lists, WalkedWhileNeeded, Walking, Installed, Counters
  <1>7. QED
    BY <1>4, <1>5, <1>6, SumsAfter DEF TickIInv

\* call_tick_tasks comes to timeout_tick.
LEMMA WalkBeginPreserves ==
    ASSUME TickIInv, WalkBegin
    PROVE  TickIInv'
  <1>1. /\ place \in 1..Len(tick_funcs) /\ at = 0 /\ at' = 1 /\ place' = place
        /\ tick_funcs[place] = timeout_tick
        /\ UNCHANGED <<tick_funcs, tmo_list, due>>
        /\ missed' = [missed EXCEPT ![timeout_tick] = 0]
        /\ N' = N /\ All' = All /\ timeout_tick \in All
    BY Places DEF WalkBegin, Call, TickIInv, All, N
  <1>2. /\ Len(tick_funcs) \in Nat /\ Len(tick_funcs) <= N
        /\ Len(tmo_list) \in Nat /\ Len(tmo_list) <= MaxTimeouts
        /\ \A m, n \in 1..Len(tick_funcs) :
             tick_funcs[m] = tick_funcs[n] => m = n
        /\ \A m \in 1..Len(tick_funcs) : tick_funcs[m] \in All
    BY Places DEF TickIInv, Lists
  <1>3. /\ \A m \in 1..Len(tick_funcs) : missed'[tick_funcs[m]] =
                                   IF m = place THEN 0 ELSE missed[tick_funcs[m]]
        /\ missed' \in [All -> Nat]
    BY <1>1, <1>2 DEF TickIInv, Counters
  <1>4. ASSUME NEW m \in 1..Len(tick_funcs')
        PROVE  /\ missed'[tick_funcs'[m]] \in Nat /\ m \in Nat
               /\ missed'[tick_funcs'[m]] + m <= N + 1
               /\ ~Uncalled(m)' => missed'[tick_funcs'[m]] + m <= N
    <2>1. m \in 1..Len(tick_funcs) /\ m \in Nat /\ m <= N
      BY <1>1, Sums
    <2>2. CASE m = place
      BY <1>1, <1>3, <2>1, <2>2, TaskCount, SMT
    <2>3. CASE m # place
      <3>1. ~Uncalled(m)' => ~Uncalled(m)
        BY <1>1, <2>1, <2>3, SMT DEF Uncalled
      <3>2. missed'[tick_funcs'[m]] = missed[tick_funcs[m]]
        BY <1>1, <1>3, <2>1, <2>3
      <3>3. QED
        BY <2>1, <3>1, <3>2, Sums
    <2>4. QED
      BY <2>2, <2>3
  <1>5. \A k \in 1..Len(tmo_list'), m \in 1..Len(tick_funcs') :
             tick_funcs'[m] = timeout_tick /\ due'[tmo_list'[k]] <= 0 =>
               /\ due'[tmo_list'[k]] \in Int /\ k \in Nat /\ m \in Nat
               /\ k + m - due'[tmo_list'[k]] <= N + MaxTimeouts
               /\ ~Unwalked(k, m)' =>
                    k + m - due'[tmo_list'[k]] <= N + MaxTimeouts - 1
    <2>1. \A k \in 1..Len(tmo_list) : \A m : Unwalked(k, m)'
      BY <1>1, <1>2, SMT DEF Unwalked
    <2>2. QED
      BY <1>1, <2>1, Sums
  <1>6. Lists' /\ WalkedWhileNeeded'
    BY <1>1 DEF TickIInv, Lists, WalkedWhileNeeded, Installed
  <1>7. Walking' /\ Counters'
    <2>1. place \in 1..N /\ 1 \in 0..(MaxTimeouts + 1)
      BY <1>1, <1>2, TaskCount, SMT
    <2>2. QED
      BY <1>1, <1>2, <1>3, <2>1 DEF Walking, Counters, TickIInv
  <1>8. QED
    BY <1>4, <1>5, <1>6, <1>7, SumsAfter DEF TickIInv

\* While the timeouts are walked: which tasks and timeouts are still to come.
LEMMA InWalk ==
    ASSUME TickIInv, at > 0
    PROVE  /\ place \in Nat /\ place > 0 /\ at \in Nat /\ place <= N
           /\ \A m : Uncalled(m) <=> m >= place + 1
           /\ \A k, m : Unwalked(k, m) <=> k >= at
  BY TaskCount, SMT DEF TickIInv, Walking, Counters, Uncalled, Unwalked

\* timeout_tick passes a timeout whose time has not come.
LEMMA WalkPendingPreserves ==
    ASSUME TickIInv, WalkPending
    PROVE  TickIInv'
  <1>1. /\ at \in 1..Len(tmo_list) /\ due[tmo_list[at]] > 0
        /\ at' = at + 1 /\ UNCHANGED <<tick_funcs, tmo_list, due, place, missed>>
        /\ N' = N /\ All' = All
    BY Places DEF WalkPending, TickIInv, N, All
  <1>2. Len(tmo_list) \in Nat /\ Len(tmo_list) <= MaxTimeouts /\ at > 0
        /\ at \in Nat /\ at' > 0
    BY <1>1, Places, SMT DEF TickIInv, Lists
  <1>3. \A m : Uncalled(m)' <=> Uncalled(m)
    BY <1>1, <1>2 DEF Uncalled
  <1>4. ASSUME NEW k \in 1..Len(tmo_list), NEW m, k # at
        PROVE  Unwalked(k, m)' <=> Unwalked(k, m)
    BY <1>1, <1>2, <1>4, SMT DEF Unwalked
  <1>5. \A m \in 1..Len(tick_funcs') :
             /\ missed'[tick_funcs'[m]] \in Nat /\ m \in Nat
             /\ missed'[tick_funcs'[m]] + m <= N + 1
             /\ ~Uncalled(m)' => missed'[tick_funcs'[m]] + m <= N
    BY <1>1, <1>3, Sums
  <1>6. ASSUME NEW k \in 1..Len(tmo_list'), NEW m \in 1..Len(tick_funcs'),
               tick_funcs'[m] = timeout_tick, due'[tmo_list'[k]] <= 0
        PROVE  /\ due'[tmo_list'[k]] \in Int /\ k \in Nat /\ m \in Nat
               /\ k + m - due'[tmo_list'[k]] <= N + MaxTimeouts
               /\ ~Unwalked(k, m)' =>
                    k + m - due'[tmo_list'[k]] <= N + MaxTimeouts - 1
    <2>1. due[tmo_list[k]] <= 0 /\ due[tmo_list[k]] \in Int
      BY <1>1, <1>6, Sums
    <2>2. k # at
      BY <1>1, <2>1, SMT
    <2>3. QED
      BY <1>1, <1>4, <1>6, <2>1, <2>2, Sums
  <1>7. Lists' /\ WalkedWhileNeeded' /\ Walking' /\ Counters'
    BY <1>1, <1>2, TaskCount, SMTT(30)
    DEF TickIInv, Lists, WalkedWhileNeeded, Walking, Installed, Counters
  <1>8. QED
    BY <1>5, <1>6, <1>7, SumsAfter DEF TickIInv

\* timeout_tick is at the end of its list.
LEMMA WalkEndPreserves ==
    ASSUME TickIInv, WalkEnd
    PROVE  TickIInv'
  <1>1. /\ at > Len(tmo_list) /\ at' = 0 /\ place' = place + 1
        /\ UNCHANGED <<tick_funcs, tmo_list, due, missed>>
        /\ N' = N /\ All' = All
    BY DEF WalkEnd, N, All
  <1>2. Len(tmo_list) \in Nat /\ at > 0
    BY <1>1, Places, SMT DEF TickIInv, Counters
  <1>3. \A m : Uncalled(m)' <=> Uncalled(m)
    BY <1>1, <1>2, InWalk, SMT DEF Uncalled
  <1>4. \A k \in 1..Len(tmo_list) : \A m : ~Unwalked(k, m)
    BY <1>1, <1>2, InWalk, SMT
  <1>5. \A m \in 1..Len(tick_funcs') :
             /\ missed'[tick_funcs'[m]] \in Nat /\ m \in Nat
             /\ missed'[tick_funcs'[m]] + m <= N + 1
             /\ ~Uncalled(m)' => missed'[tick_funcs'[m]] + m <= N
    BY <1>1, <1>3, Sums
  <1>6. \A k \in 1..Len(tmo_list'), m \in 1..Len(tick_funcs') :
             tick_funcs'[m] = timeout_tick /\ due'[tmo_list'[k]] <= 0 =>
               /\ due'[tmo_list'[k]] \in Int /\ k \in Nat /\ m \in Nat
               /\ k + m - due'[tmo_list'[k]] <= N + MaxTimeouts
               /\ ~Unwalked(k, m)' =>
                    k + m - due'[tmo_list'[k]] <= N + MaxTimeouts - 1
    BY <1>1, <1>4, Sums
  <1>7. Lists' /\ WalkedWhileNeeded' /\ Walking' /\ Counters'
    <2>1. place + 1 \in 0..(N + 1) /\ 0 \in 0..(MaxTimeouts + 1)
      BY <1>2, InWalk, TaskCount, SMT
    <2>2. ~(at' > 0)
      BY <1>1, SMT
    <2>3. QED
      BY <1>1, <2>1, <2>2
      DEF TickIInv, Lists, WalkedWhileNeeded, Walking, Installed, Counters
  <1>8. QED
    BY <1>5, <1>6, <1>7, SumsAfter DEF TickIInv

\* An expired timeout is set again.
LEMMA ReloadPreserves ==
    ASSUME TickIInv, WalkExpired, NEW n \in 1..MaxInterval,
           due' = [due EXCEPT ![tmo_list[at]] = n],
           UNCHANGED <<tick_funcs, tmo_list>>
    PROVE  TickIInv'
  <1>1. /\ at \in 1..Len(tmo_list) /\ at' = at + 1
        /\ UNCHANGED <<tick_funcs, tmo_list, place, missed>>
        /\ N' = N /\ All' = All
    BY Places DEF WalkExpired, TickIInv, N, All
  <1>2. /\ Len(tmo_list) \in Nat /\ Len(tmo_list) <= MaxTimeouts /\ at > 0
        /\ at \in Nat /\ at' > 0
        /\ \A k \in 1..Len(tmo_list) : tmo_list[k] \in Timeouts
        /\ \A j, k \in 1..Len(tmo_list) : tmo_list[j] = tmo_list[k] => j = k
    BY <1>1, Places, SMT DEF TickIInv, Lists
  <1>3. /\ due' \in [Timeouts -> Int] /\ due'[tmo_list[at]] > 0
        /\ \A k \in 1..Len(tmo_list) :
             k # at => due'[tmo_list[k]] = due[tmo_list[k]]
    BY <1>1, <1>2, SMT DEF TickIInv, Counters
  <1>4. \A m : Uncalled(m)' <=> Uncalled(m)
    BY <1>1, <1>2 DEF Uncalled
  <1>5. ASSUME NEW k \in 1..Len(tmo_list), NEW m, k # at
        PROVE  Unwalked(k, m)' <=> Unwalked(k, m)
    BY <1>1, <1>2, <1>5, SMT DEF Unwalked
  <1>6. \A m \in 1..Len(tick_funcs') :
             /\ missed'[tick_funcs'[m]] \in Nat /\ m \in Nat
             /\ missed'[tick_funcs'[m]] + m <= N + 1
             /\ ~Uncalled(m)' => missed'[tick_funcs'[m]] + m <= N
    BY <1>1, <1>4, Sums
  <1>7. ASSUME NEW k \in 1..Len(tmo_list'), NEW m \in 1..Len(tick_funcs'),
               tick_funcs'[m] = timeout_tick, due'[tmo_list'[k]] <= 0
        PROVE  /\ due'[tmo_list'[k]] \in Int /\ k \in Nat /\ m \in Nat
               /\ k + m - due'[tmo_list'[k]] <= N + MaxTimeouts
               /\ ~Unwalked(k, m)' =>
                    k + m - due'[tmo_list'[k]] <= N + MaxTimeouts - 1
    <2>1. k \in 1..Len(tmo_list) /\ tmo_list' = tmo_list
          /\ tick_funcs' = tick_funcs
      BY <1>1
    <2>2. due'[tmo_list[k]] \in Int
      BY <1>2, <1>3, <2>1
    <2>3. k # at
      BY <1>3, <1>7, <2>1, <2>2, SMT
    <2>4. due'[tmo_list'[k]] = due[tmo_list[k]]
      BY <1>3, <2>1, <2>3
    <2>5. QED
      BY <1>5, <1>7, <2>1, <2>3, <2>4, Sums
  <1>8. Lists' /\ WalkedWhileNeeded' /\ Walking'
    BY <1>1, <1>2 DEF TickIInv, Lists, WalkedWhileNeeded, Walking, Installed
  <1>9. Counters'
    <2>1. at + 1 \in 0..(MaxTimeouts + 1)
      BY <1>1, <1>2, TaskCount, SMT
    <2>2. QED
      BY <1>1, <1>3, <2>1 DEF TickIInv, Counters
  <1>10. QED
    BY <1>6, <1>7, <1>8, <1>9, SumsAfter DEF TickIInv

\* The tick tasks when the walk took the last timeout off, or another one.
LEMMA TasksAfterWalk ==
    ASSUME TickIInv, at > 0, tmo_list # << >>,
           tick_funcs' \in {tick_funcs, Removed(tick_funcs, timeout_tick)}
    PROVE  /\ tick_funcs' \in Seq(All) /\ IsInjective(tick_funcs')
           /\ tick_funcs' = Removed(tick_funcs, timeout_tick) =>
                timeout_tick \notin ToSet(tick_funcs')
           /\ tick_funcs' = tick_funcs => timeout_tick \in ToSet(tick_funcs')
           /\ \A m \in 1..Len(tick_funcs') :
                /\ m \in Nat
                /\ \E n \in 1..Len(tick_funcs) :
                     /\ tick_funcs'[m] = tick_funcs[n]
                     /\ n = m \/ (n = m + 1 /\ n >= place + 1)
  <1>1. /\ tick_funcs \in Seq(All) /\ IsInjective(tick_funcs)
        /\ Len(tick_funcs) \in Nat
        /\ timeout_tick \in ToSet(tick_funcs)
        /\ \A m \in 1..Len(tick_funcs) :
             tick_funcs[m] = timeout_tick => m = place
    BY Places DEF TickIInv, Lists, WalkedWhileNeeded, Installed, Walking
  <1>2. CASE tick_funcs' = tick_funcs
    <2>1. tick_funcs # Removed(tick_funcs, timeout_tick)
      BY <1>1, RemovedUp
    <2>2. \A m \in 1..Len(tick_funcs) : m \in Nat
      BY <1>1, SMT
    <2>3. QED
      BY <1>1, <1>2, <2>1, <2>2
  <1>3. CASE tick_funcs' = Removed(tick_funcs, timeout_tick)
    <2> DEFINE r == RemoveFirst(tick_funcs, timeout_tick)
    <2>1. PICK q \in 1..Len(tick_funcs) : tick_funcs[q] = timeout_tick
      BY <1>1, NoRepetition
    <2>2. q = place
      BY <1>1, <2>1
    <2>3. /\ r \in Seq(All) /\ IsInjective(r) /\ Len(r) = Len(tick_funcs) - 1
          /\ \A j \in 1..Len(r) : r[j] = IF j < q THEN tick_funcs[j]
                                                  ELSE tick_funcs[j + 1]
          /\ \A y : y \in ToSet(r) <=> y \in ToSet(tick_funcs) /\ y # timeout_tick
      BY <1>1, <2>1, RemoveFirstFacts
    <2> HIDE DEF r
    <2>4. tick_funcs' = r
      BY <1>3 DEF Removed, r
    <2>5. \A m \in 1..Len(r) : /\ m \in 1..Len(tick_funcs) /\ m \in Nat
                               /\ m + 1 \in 1..Len(tick_funcs)
                               /\ ~(m < q) => m + 1 >= q + 1
      BY <1>1, <2>3, SMT
    <2>6. ASSUME NEW m \in 1..Len(r)
          PROVE  \E n \in 1..Len(tick_funcs) :
                     /\ r[m] = tick_funcs[n]
                     /\ n = m \/ (n = m + 1 /\ n >= place + 1)
      <3>1. CASE m < q
        BY <2>3, <2>5, <3>1
      <3>2. CASE ~(m < q)
        <4>1. r[m] = tick_funcs[m + 1] /\ m + 1 >= place + 1
          BY <2>2, <2>3, <2>5, <3>2
        <4>2. QED
          BY <2>5, <4>1
      <3>3. QED
        BY <3>1, <3>2
    <2>7. r # tick_funcs
      BY <1>1, <2>3
    <2>8. QED
      BY <2>3, <2>4, <2>5, <2>6, <2>7
  <1>4. QED
    BY <1>2, <1>3

\* An expired timeout takes itself off the list being walked: the one behind
\* it is left out, and so is the tick task behind timeout_tick if it was the
\* last one.
LEMMA CancelledPreserves ==
    ASSUME TickIInv, WalkExpired, tmo_list' = Removed(tmo_list, tmo_list[at]),
           tick_funcs' = TasksAfterCancel(tmo_list'),
           due' = [due EXCEPT ![tmo_list[at]] = 0]
    PROVE  TickIInv'
  <1> DEFINE t == tmo_list[at]
             r == RemoveFirst(tmo_list, t)
  <1>1. /\ at \in 1..Len(tmo_list) /\ at' = at + 1 /\ UNCHANGED <<place, missed>>
        /\ N' = N /\ All' = All
    BY Places DEF WalkExpired, TickIInv, N, All
  <1>2. /\ tmo_list \in Seq(Timeouts) /\ IsInjective(tmo_list)
        /\ Len(tmo_list) \in Nat /\ Len(tmo_list) <= MaxTimeouts
        /\ at \in Nat /\ at > 0 /\ at' > 0 /\ t \in Timeouts
        /\ \A k \in 1..Len(tmo_list) : tmo_list[k] \in Timeouts
    BY <1>1, Places, SMT DEF TickIInv, Lists
  <1>3. /\ place \in Nat /\ place > 0 /\ place <= N
        /\ \A m : Uncalled(m) <=> m >= place + 1
        /\ \A k, m : Unwalked(k, m) <=> k >= at
    BY <1>2, InWalk
  <1>4. /\ \A m : Uncalled(m)' <=> m >= place + 1
        /\ \A k, m : Unwalked(k, m)' <=> k >= at + 1
    BY <1>1, <1>2, <1>3 DEF Uncalled, Unwalked
  <1>5. /\ r \in Seq(Timeouts) /\ IsInjective(r) /\ Len(r) = Len(tmo_list) - 1
        /\ \A j \in 1..Len(r) : r[j] = IF j < at THEN tmo_list[j]
                                                ELSE tmo_list[j + 1]
        /\ \A y : y \in ToSet(r) <=> y \in ToSet(tmo_list) /\ y # t
    BY <1>1, <1>2, RemoveFirstFacts
  <1>6. tmo_list' = r
    BY DEF Removed
  <1> HIDE DEF r, t
  <1>7. tmo_list # << >>
    BY <1>1, EmptySeq, SMT
  <1>8. tick_funcs' = IF tmo_list' = << >> THEN Removed(tick_funcs, timeout_tick)
                                           ELSE tick_funcs
    BY DEF TasksAfterCancel
  <1>9. /\ tick_funcs' \in Seq(All) /\ IsInjective(tick_funcs')
        /\ \A m \in 1..Len(tick_funcs') :
             /\ m \in Nat
             /\ \E n \in 1..Len(tick_funcs) :
                  /\ tick_funcs'[m] = tick_funcs[n]
                  /\ n = m \/ (n = m + 1 /\ n >= place + 1)
    BY <1>2, <1>7, <1>8, TasksAfterWalk
  <1>10. timeout_tick \in ToSet(tick_funcs') <=> tmo_list' # << >>
    BY <1>2, <1>7, <1>8, TasksAfterWalk
  <1>11. ASSUME NEW m \in 1..Len(tick_funcs')
         PROVE  /\ missed'[tick_funcs'[m]] \in Nat /\ m \in Nat
                /\ missed'[tick_funcs'[m]] + m <= N + 1
                /\ ~Uncalled(m)' => missed'[tick_funcs'[m]] + m <= N
    <2>1. PICK n \in 1..Len(tick_funcs) :
            /\ tick_funcs'[m] = tick_funcs[n]
            /\ n = m \/ (n = m + 1 /\ n >= place + 1)
      BY <1>9
    <2>2. missed'[tick_funcs'[m]] = missed[tick_funcs[n]] /\ m \in Nat
      BY <1>1, <1>9, <2>1
    <2>3. /\ missed[tick_funcs[n]] \in Nat /\ n \in Nat
          /\ missed[tick_funcs[n]] + n <= N + 1
          /\ ~(n >= place + 1) => missed[tick_funcs[n]] + n <= N
      BY <1>3, Sums
    <2>4. \A x \in Nat : /\ x + n <= N + 1
                         /\ ~(n >= place + 1) => x + n <= N
            => x + m <= N + 1 /\ (~(m >= place + 1) => x + m <= N)
      BY <1>3, <2>1, <2>2, <2>3, TaskCount, SMTT(30)
    <2>5. QED
      BY <1>4, <2>2, <2>3, <2>4
  <1>12. ASSUME NEW k \in 1..Len(tmo_list'), NEW m \in 1..Len(tick_funcs'),
                tick_funcs'[m] = timeout_tick, due'[tmo_list'[k]] <= 0
         PROVE  /\ due'[tmo_list'[k]] \in Int /\ k \in Nat /\ m \in Nat
                /\ k + m - due'[tmo_list'[k]] <= N + MaxTimeouts
                /\ ~Unwalked(k, m)' =>
                     k + m - due'[tmo_list'[k]] <= N + MaxTimeouts - 1
    <2>1. k \in 1..Len(r) /\ k \in Nat /\ k \in 1..Len(tmo_list)
          /\ k + 1 \in 1..Len(tmo_list)
      BY <1>2, <1>5, <1>6, SMT
    <2>2. tmo_list' # << >> /\ tick_funcs' = tick_funcs
      <3>1. Len(tmo_list') # 0
        BY <1>12, SMT
      <3>2. QED
        BY <1>8, <3>1, EmptySeq
    <2>3. PICK j \in 1..Len(tmo_list) :
            /\ tmo_list'[k] = tmo_list[j]
            /\ (k < at /\ j = k) \/ (k >= at /\ j = k + 1)
      <3>1. CASE k < at
        BY <1>5, <1>6, <2>1, <3>1
      <3>2. CASE ~(k < at)
        <4>1. k >= at /\ k + 1 \in 1..Len(tmo_list)
          BY <1>2, <2>1, <3>2, SMT
        <4>2. tmo_list'[k] = tmo_list[k + 1]
          BY <1>5, <1>6, <2>1, <3>2
        <4>3. QED
          BY <4>1, <4>2
      <3>3. QED
        BY <3>1, <3>2
    <2>4. due'[tmo_list'[k]] = due[tmo_list[j]]
      <3>1. tmo_list'[k] # t
        BY <1>5, <1>6, <2>1, NoRepetition
      <3>2. QED
        BY <1>2, <2>3, <3>1 DEF TickIInv, Counters, t
    <2>5. /\ due[tmo_list[j]] \in Int /\ j \in Nat /\ m \in Nat
          /\ j + m - due[tmo_list[j]] <= N + MaxTimeouts
          /\ ~(j >= at) => j + m - due[tmo_list[j]] <= N + MaxTimeouts - 1
      BY <1>3, <1>9, <1>12, <2>2, <2>4, Sums
    <2>6. \A x \in Int : /\ j + m - x <= N + MaxTimeouts
                         /\ ~(j >= at) => j + m - x <= N + MaxTimeouts - 1
            => /\ k + m - x <= N + MaxTimeouts
               /\ ~(k >= at + 1) => k + m - x <= N + MaxTimeouts - 1
      <3>1. /\ j \in Int /\ m \in Int /\ k \in Int /\ at \in Int
            /\ N \in Int /\ MaxTimeouts \in Int
            /\ (k < at /\ j = k) \/ (k >= at /\ j = k + 1)
        BY <1>2, <2>1, <2>3, <2>5, TaskCount, SMT
      <3>2. QED
        BY <3>1, SMT
    <2>7. QED
      BY <1>4, <2>1, <2>4, <2>5, <2>6
  <1>13. Lists' /\ WalkedWhileNeeded'
    <2>1. Len(r) <= MaxTimeouts
      BY <1>2, <1>5, TaskCount, SMT
    <2>2. QED
      BY <1>1, <1>5, <1>6, <1>9, <1>10, <2>1
      DEF Lists, WalkedWhileNeeded, Installed
  <1>14. Walking'
    <2>1. \A m \in 1..Len(tick_funcs') : tick_funcs'[m] = timeout_tick => m = place
      <3>1. CASE tmo_list' = << >>
        BY <1>9, <1>10, <3>1, NoRepetition
      <3>2. CASE tmo_list' # << >>
        BY <1>2, <1>8, <3>2 DEF TickIInv, Walking
      <3>3. QED
        BY <3>1, <3>2
    <2>2. place \in 1..N
      BY <1>3, TaskCount, SMT
    <2>3. QED
      BY <1>1, <2>1, <2>2 DEF Walking
  <1>15. Counters'
    <2>1. at + 1 \in 0..(MaxTimeouts + 1)
      BY <1>1, <1>2, TaskCount, SMT
    <2>2. due' \in [Timeouts -> Int]
      BY <1>2, SMT DEF TickIInv, Counters, t
    <2>3. QED
      BY <1>1, <2>1, <2>2 DEF TickIInv, Counters
  <1>16. QED
    BY <1>11, <1>12, <1>13, <1>14, <1>15, SumsAfter DEF TickIInv

\* Every step of the tick interrupt keeps the invariant.
LEMMA InterruptPreserves ==
    ASSUME TickIInv, Interrupt
    PROVE  TickIInv'
  <1>1. CASE WalkExpired
    BY <1>1, ReloadPreserves, CancelledPreserves DEF WalkExpired
  <1>2. CASE ~WalkExpired
    BY <1>2, TickBeginPreserves, TickEndPreserves, TickTaskPreserves,
       WalkBeginPreserves, WalkPendingPreserves, WalkEndPreserves DEF Interrupt
  <1>3. QED
    BY <1>1, <1>2

-------------------------------------------------------------------------------
\* The inductive invariant of the tick, for any timeouts and tick tasks and
\* every order in which threads and callbacks add them and take them off.
THEOREM TickInvariance == TickSpec => []TickIInv
  <1>1. TickIInv /\ [TickNext]_tick_vars => TickIInv'
    <2> SUFFICES ASSUME TickIInv, [TickNext]_tick_vars PROVE TickIInv'
      OBVIOUS
    <2>1. CASE TickNext
      BY <2>1, InterruptPreserves, RegisterPreserves, CancelPreserves,
         TaskListPreserves DEF TickNext
    <2>2. CASE UNCHANGED tick_vars
      BY <2>2, StutterPreserves
    <2>3. QED
      BY <2>1, <2>2
  <1>2. QED
    BY InitEstablishes, <1>1, PTL DEF TickSpec

\* Both arrays are walked within their length and hold each entry once, and
\* timeout_tick is installed exactly while there is a timeout.
THEOREM ListsAreSound == TickSpec => []ListsSound
  <1>1. TickIInv => ListsSound
    <2> SUFFICES ASSUME TickIInv PROVE ListsSound
      OBVIOUS
    <2>1. Installed \subseteq All /\ Active \subseteq Timeouts
      BY Places DEF TickIInv
    <2>2. TickTypeOK
      BY <2>1 DEF TickIInv, Lists, Counters, TickTypeOK, N
    <2>3. QED
      BY <2>2 DEF ListsSound, TickIInv
  <1>2. QED
    BY TickInvariance, <1>1, PTL

\* No timeout is late by more ticks, and no tick task left out of more
\* interrupts in a row, than there are others that could move it up.
THEOREM SkipsAreBounded == TickSpec => []NobodyLeftOut
  <1>1. TickIInv => NobodyLeftOut
    <2> SUFFICES ASSUME TickIInv PROVE NobodyLeftOut
      OBVIOUS
    <2>1. ASSUME NEW t \in Active
          PROVE  -due[t] <= MaxTimeouts - 1 + Cardinality(Tasks)
      <3>1. PICK k \in 1..Len(tmo_list) : tmo_list[k] = t
        BY Places DEF TickIInv
      <3>2. tmo_list # << >>
        BY EmptyList DEF Active
      <3>3. PICK m \in 1..Len(tick_funcs) : tick_funcs[m] = timeout_tick
        BY <3>2, Places DEF TickIInv, WalkedWhileNeeded
      <3>4. /\ due[t] \in Int /\ k \in Nat /\ m \in Nat /\ k >= 1 /\ m >= 1
            /\ due[t] <= 0 => k + m - due[t] <= N + MaxTimeouts
        <4>1. k >= 1 /\ m >= 1
          BY Places, SMT DEF TickIInv
        <4>2. QED
          BY <3>1, <3>3, <4>1, Sums
      <3>5. \A x \in Int : (x <= 0 => k + m - x <= N + MaxTimeouts)
              => -x <= MaxTimeouts - 1 + Cardinality(Tasks)
        BY <3>4, TaskCount, SMT
      <3>6. QED
        BY <3>4, <3>5
    <2>2. ASSUME NEW f \in Installed, place = 0
          PROVE  missed[f] <= Cardinality(Tasks)
      <3>1. PICK m \in 1..Len(tick_funcs) : tick_funcs[m] = f
        BY Places DEF TickIInv
      <3>2. ~Uncalled(m)
        BY <2>2, SMT DEF Uncalled
      <3>3. missed[f] \in Nat /\ m \in Nat /\ m >= 1 /\ missed[f] + m <= N
        BY <3>1, <3>2, Sums, SMT
      <3>4. \A x \in Nat : x + m <= N => x <= Cardinality(Tasks)
        BY <3>3, TaskCount, SMT
      <3>5. QED
        BY <3>3, <3>4
    <2>3. QED
      BY <2>1, <2>2 DEF NobodyLeftOut, NeverLate, TaskCalled
  <1>2. QED
    BY TickInvariance, <1>1, PTL

-------------------------------------------------------------------------------
\* ThreadTimeouts: the list of waiting threads, and wrapped ticks.

\* A thread that was not in the list joins it behind all others.
LEMMA Joined ==
    ASSUME NEW S, NEW s \in Seq(S), IsInjective(s), NEW x \in S, x \notin ToSet(s)
    PROVE  /\ Append(s, x) \in Seq(S) /\ IsInjective(Append(s, x))
           /\ Len(Append(s, x)) = Len(s) + 1 /\ Len(s) \in Nat
           /\ \A i \in 1..Len(s) : Append(s, x)[i] = s[i]
           /\ Append(s, x)[Len(s) + 1] = x
           /\ \A y : y \in ToSet(Append(s, x)) <=> y \in ToSet(s) \/ y = x
  <1> DEFINE r == Append(s, x)
  <1>1. /\ r \in Seq(S) /\ Len(s) \in Nat /\ Len(r) = Len(s) + 1
        /\ \A i \in 1..Len(s) : r[i] = s[i]
        /\ r[Len(s) + 1] = x
    BY AppendFacts
  <1>2. /\ \A i, j \in 1..Len(s) : s[i] = s[j] => i = j
        /\ \A y : y \in ToSet(s) <=> \E i \in 1..Len(s) : s[i] = y
    BY NoRepetition
  <1> HIDE DEF r
  <1>3. \A i \in 1..Len(r) : i \in 1..Len(s) \/ i = Len(s) + 1
    BY <1>1, SMT
  <1>4. /\ \A i \in 1..Len(s) : i \in 1..Len(r)
        /\ Len(s) + 1 \in 1..Len(r)
    BY <1>1, SMT
  <1>5. \A y : (\E i \in 1..Len(r) : r[i] = y) <=> y \in ToSet(s) \/ y = x
    BY <1>1, <1>2, <1>3, <1>4
  <1>6. \A i, j \in 1..Len(r) : r[i] = r[j] => i = j
    BY <1>1, <1>2, <1>3
  <1>7. QED
    BY <1>1, <1>5, <1>6, NoRepetition DEF r

-------------------------------------------------------------------------------
\* Numbers.

\* Quotient and remainder.
LEMMA DivMod ==
    ASSUME NEW n \in Nat \ {0}, NEW a \in Int
    PROVE  a % n \in 0..(n - 1) /\ a \div n \in Int /\ a = n * (a \div n) + (a % n)
  BY SMT

\* A remainder is found from any multiple it is added to.
LEMMA ModUnique ==
    ASSUME NEW n \in Nat \ {0}, NEW k \in Int, NEW r \in 0..(n - 1)
    PROVE  (n * k + r) % n = r
  BY SMT

\* Adding multiples of n keeps the remainder.
LEMMA ModPlus ==
    ASSUME NEW n \in Nat \ {0}, NEW a \in Int, NEW k \in Int
    PROVE  (a + n * k) % n = a % n
  <1>1. PICK q \in Int, r \in 0..(n - 1) : a = n * q + r /\ a % n = r
    BY DivMod
  <1>2. a + n * k = n * (q + k) + r /\ q + k \in Int
    BY <1>1, SMT
  <1>3. QED
    BY <1>1, <1>2, ModUnique

\* What is added to a wrapped number can be added before it wraps.
LEMMA ModOfSum ==
    ASSUME NEW n \in Nat \ {0}, NEW a \in Int, NEW b \in Int
    PROVE  ((a % n) + b) % n = (a + b) % n
  <1>1. PICK k \in Int : a = n * k + (a % n) /\ a % n \in Int
    <2>1. a \div n \in Int /\ a = n * (a \div n) + (a % n) /\ a % n \in 0..(n - 1)
      BY DivMod
    <2>2. a % n \in Int
      BY <2>1, SMT
    <2>3. QED
      BY <2>1, <2>2
  <1> DEFINE r == a % n
  <1>2. a = n * k + r /\ r \in Int
    BY <1>1
  <1> HIDE DEF r
  <1>3. a + b = (r + b) + n * k /\ r + b \in Int
    BY <1>2, SMT
  <1>4. (a + b) % n = (r + b) % n
    BY <1>3, ModPlus, ZenonT(30)
  <1>5. QED
    BY <1>4 DEF r

\* Differences may be reduced before they are taken.
LEMMA ModOfDifference ==
    ASSUME NEW n \in Nat \ {0}, NEW a \in Int, NEW b \in Int
    PROVE  ((a % n) - (b % n)) % n = (a - b) % n
  <1> DEFINE r == a % n
             s == b % n
  <1>1. r \in Int /\ s \in Int
    <2>1. r \in 0..(n - 1) /\ s \in 0..(n - 1)
      BY DivMod
    <2>2. QED
      BY <2>1, SMT
  <1>2. PICK k \in Int : b = n * k + s
    BY DivMod
  <1>3. (r + (-s)) % n = (a + (-s)) % n
    <2>1. -s \in Int
      BY <1>1, SMT
    <2>2. QED
      BY <2>1, ModOfSum
  <1> HIDE DEF r, s
  <1>4. a + (-s) = (a - b) + n * k /\ a - b \in Int
    BY <1>1, <1>2, SMT
  <1>5. (a + (-s)) % n = (a - b) % n
    BY <1>4, ModPlus, ZenonT(30)
  <1>6. r - s = r + (-s)
    BY <1>1, SMT
  <1>7. QED
    BY <1>3, <1>5, <1>6 DEF r, s

\* The remainder of a number that is close to zero.
LEMMA SmallMod ==
    ASSUME NEW n \in Nat \ {0}, NEW x \in Int, -n <= x, x < n
    PROVE  x % n = IF x < 0 THEN x + n ELSE x
  <1>1. CASE x < 0
    <2>1. x = n * (-1) + (x + n) /\ x + n \in 0..(n - 1) /\ -1 \in Int
      BY <1>1, SMT
    <2>2. (n * (-1) + (x + n)) % n = x + n
      BY <2>1, ModUnique
    <2>3. QED
      BY <1>1, <2>1, <2>2
  <1>2. CASE ~(x < 0)
    <2>1. x = n * 0 + x /\ x \in 0..(n - 1) /\ 0 \in Int
      BY <1>2, SMT
    <2>2. (n * 0 + x) % n = x
      BY <2>1, ModUnique
    <2>3. QED
      BY <1>2, <2>1, <2>2
  <1>3. QED
    BY <1>1, <1>2

-------------------------------------------------------------------------------

\* x is the tick d ticks from now.
Away(x, d) == x = (tick + d) % Wrap

Shape ==
    /\ TypeOK /\ ListedWhileWaiting
    /\ tmo \in Seq(Threads)
    /\ left \in [Threads -> Int]
    /\ scan \in [on : BOOLEAN,
                 thread : Threads \cup {NoThread}, prev : Threads \cup {NoThread},
                 tick : 0..(Wrap - 1), next : 0..(Wrap - 1)]

\* A thread waits for the tick its history says.
Expiry ==
    \A t \in Threads : state[t] \in Timed =>
        Away(expires[t], left[t]) /\ left[t] <= MaxTicks

\* The next check is at most d ticks away, and not after anyone's time is up.
DueIn(d) ==
    /\ Away(check, d)
    /\ \A t \in Threads : state[t] \in Timed => left[t] >= d

Due == ~scan.on => \E d \in -Late..Minute : DueIn(d)

\* The check that began e ticks ago has dealt with the first p threads of the
\* list; of these none that still waits has to be looked at before m ticks
\* from its beginning.
Scanned(e, m, p) ==
    /\ Away(scan.tick, -e) /\ Away(scan.next, m - e)
    /\ scan.prev = IF p = 0 THEN NoThread ELSE tmo[p]
    /\ scan.thread = IF p = Len(tmo) THEN NoThread ELSE tmo[p + 1]
    /\ \A t \in Threads : state[t] \in Timed => left[t] + e >= -Late
    /\ \A i \in 1..p : state[tmo[i]] \in Timed => left[tmo[i]] + e >= m

Scanning ==
    scan.on => \E e \in 0..Late, m \in 1..Minute, p \in 0..Len(tmo) :
                   Scanned(e, m, p)

IInv == Shape /\ Expiry /\ Due /\ Scanning

-------------------------------------------------------------------------------
\* What TimeoutAssumption says of the constants.
LEMMA Limits ==
    /\ Wrap \in Nat \ {0} /\ MaxTicks \in Nat /\ MaxTicks >= 1
    /\ Minute \in Nat /\ Minute >= 1 /\ Late \in Nat
    /\ 2 * (MaxTicks + Minute + 2 * Late) < Wrap
  <1>1. /\ Wrap \in Nat /\ MaxTicks \in Nat \ {0} /\ Minute \in Nat \ {0}
        /\ Late \in Nat /\ 2 * (MaxTicks + Minute + 2 * Late) < Wrap
    BY TimeoutAssumption
  <1>2. QED
    BY <1>1, SMT

\* TIME_BEFORE tells which of two ticks is first if they are close enough.
LEMMA Compare ==
    ASSUME tick \in Int, NEW x, NEW y, NEW c \in Int, NEW d \in Int,
           Away(x, c), Away(y, d), 2 * (d - c) < Wrap, 2 * (c - d) + 1 < Wrap
    PROVE  /\ Before(x, y) <=> c < d
           /\ Away(Earlier(x, y), IF c < d THEN c ELSE d)
           /\ (x - y) % Wrap = IF c < d THEN c - d + Wrap ELSE c - d
  <1>1. tick + c \in Int /\ tick + d \in Int /\ c - d \in Int
        /\ (tick + c) - (tick + d) = c - d
    BY SMT
  <1>2. (x - y) % Wrap = (c - d) % Wrap
    <2>1. (((tick + c) % Wrap) - ((tick + d) % Wrap)) % Wrap
            = ((tick + c) - (tick + d)) % Wrap
      BY <1>1, Limits, ModOfDifference
    <2>2. QED
      BY <1>1, <2>1 DEF Away
  <1>3. -Wrap <= c - d /\ c - d < Wrap /\ (c - d < 0 <=> c < d)
    BY Limits, SMT
  <1>4. (c - d) % Wrap = IF c < d THEN c - d + Wrap ELSE c - d
    BY <1>1, <1>3, Limits, SmallMod
  <1>5. \A w \in Nat : /\ 2 * (w \div 2) <= w /\ w <= 2 * (w \div 2) + 1
                       /\ w \div 2 \in Nat
    BY SMT
  <1>6. PICK h \in Nat : h = Wrap \div 2 /\ 2 * h <= Wrap /\ Wrap <= 2 * h + 1
    BY <1>5, Limits
  <1>7. (IF c < d THEN c - d + Wrap ELSE c - d) >= h <=> c < d
    BY <1>6, Limits, SMT
  <1>8. Before(x, y) <=> c < d
    BY <1>2, <1>4, <1>6, <1>7 DEF Before
  <1>9. QED
    BY <1>2, <1>4, <1>8 DEF Earlier

\* A tick is as many ticks away as it takes to get there.
LEMMA AwayTick ==
    ASSUME tick \in 0..(Wrap - 1)
    PROVE  /\ tick \in Int /\ Away(tick, 0)
           /\ \A d \in Int : (tick + d) % Wrap \in 0..(Wrap - 1)
  <1>1. tick \in Int /\ tick + 0 = tick /\ 0 \in Int
    BY Limits, SMT
  <1>2. -Wrap <= tick /\ tick < Wrap /\ ~(tick < 0)
    BY Limits, SMT
  <1>3. tick % Wrap = tick
    BY <1>1, <1>2, Limits, SmallMod
  <1>4. ASSUME NEW d \in Int PROVE (tick + d) % Wrap \in 0..(Wrap - 1)
    <2>1. tick + d \in Int
      BY <1>1, SMT
    <2>2. QED
      BY <2>1, Limits, DivMod
  <1>5. QED
    BY <1>1, <1>3, <1>4 DEF Away

\* When the tick interrupt has come everything is a tick closer.
LEMMA AwayNext ==
    ASSUME tick \in 0..(Wrap - 1), tick' = (tick + 1) % Wrap,
           NEW x, NEW d \in Int, Away(x, d)
    PROVE  x = (tick' + (d - 1)) % Wrap
  <1>1. tick + 1 \in Int /\ d - 1 \in Int /\ (tick + 1) + (d - 1) = tick + d
    BY AwayTick, SMT
  <1>2. QED
    BY <1>1, Limits, ModOfSum, ZenonT(30) DEF Away

-------------------------------------------------------------------------------
\* The list of timed threads, place by place.
LEMMA List ==
    ASSUME Shape
    PROVE  /\ Len(tmo) \in Nat /\ DOMAIN tmo = 1..Len(tmo)
           /\ \A i \in 1..Len(tmo) : tmo[i] \in Threads /\ tmo[i] # NoThread
           /\ \A i, j \in 1..Len(tmo) : tmo[i] = tmo[j] => i = j
           /\ \A x : x \in Listed <=> \E i \in 1..Len(tmo) : tmo[i] = x
           /\ tmo \in Seq(Threads) /\ IsInjective(tmo)
  <1>1. tmo \in Seq(Threads) /\ IsInjective(tmo)
    BY DEF Shape, TypeOK
  <1>2. \A i \in 1..Len(tmo) : tmo[i] \in Threads /\ tmo[i] # NoThread
    BY <1>1, ElementOfSeq, TimeoutAssumption
  <1>3. QED
    BY <1>1, <1>2, LenProperties, NoRepetition DEF Listed

\* The thread that follows a place of the list.
LEMMA AfterPlace ==
    ASSUME Shape, NEW p \in 0..Len(tmo)
    PROVE  After(IF p = 0 THEN NoThread ELSE tmo[p])
             = IF p = Len(tmo) THEN NoThread ELSE tmo[p + 1]
  <1>1. Len(tmo) \in Nat
    BY List
  <1>2. CASE p = 0
    BY <1>1, <1>2, SMT DEF After
  <1>3. CASE p # 0
    <2>1. p \in 1..Len(tmo)
      BY <1>1, <1>3, SMT
    <2>2. tmo[p] # NoThread /\ (CHOOSE j \in DOMAIN tmo : tmo[j] = tmo[p]) = p
      BY <2>1, List
    <2>3. After(tmo[p]) = IF 1 + p <= Len(tmo) THEN tmo[1 + p] ELSE NoThread
      <3> DEFINE i == IF tmo[p] = NoThread THEN 1
                      ELSE 1 + CHOOSE j \in DOMAIN tmo : tmo[j] = tmo[p]
      <3>1. After(tmo[p]) = IF i <= Len(tmo) THEN tmo[i] ELSE NoThread
        BY DEF After
      <3>2. i = 1 + p
        BY <2>2
      <3> HIDE DEF i
      <3>3. QED
        BY <3>1, <3>2
    <2>4. 1 + p = p + 1 /\ (1 + p <= Len(tmo) <=> p # Len(tmo))
      BY <1>1, <2>1, SMT
    <2>5. QED
      BY <1>3, <2>3, <2>4
  <1>4. QED
    BY <1>2, <1>3

\* The thread the check has come to: its place, and what the check sees.
LEMMA Checked ==
    ASSUME IInv, CheckThread, NEW e \in 0..Late, NEW m \in 1..Minute,
           NEW p \in 0..Len(tmo), Scanned(e, m, p)
    PROVE  LET t == scan.thread
           IN  /\ t \in Threads /\ p + 1 \in 1..Len(tmo) /\ tmo[p + 1] = t
               /\ After(scan.prev) = t
               /\ After(t) = IF p + 1 = Len(tmo) THEN NoThread ELSE tmo[p + 2]
               /\ state[t] \in Timed =>
                    /\ Before(scan.tick, expires[t]) <=> left[t] + e > 0
                    /\ Away(Earlier(expires[t], scan.next),
                            (IF left[t] + e < m THEN left[t] + e ELSE m) - e)
  <1> DEFINE t == scan.thread
  <1> USE DEF IInv
  <1>1. scan.on /\ t # NoThread
    BY DEF CheckThread
  <1>2. /\ scan.prev = IF p = 0 THEN NoThread ELSE tmo[p]
        /\ t = IF p = Len(tmo) THEN NoThread ELSE tmo[p + 1]
        /\ Away(scan.tick, -e) /\ Away(scan.next, m - e)
        /\ \A u \in Threads : state[u] \in Timed => left[u] + e >= -Late
    BY DEF Scanned
  <1>3. p # Len(tmo) /\ t = tmo[p + 1]
    BY <1>1, <1>2
  <1>4. Len(tmo) \in Nat
    BY List
  <1> HIDE DEF t
  <1>5. p + 1 \in 1..Len(tmo) /\ p + 1 \in 0..Len(tmo) /\ p + 1 # 0
        /\ (p + 1) + 1 = p + 2
    BY <1>3, <1>4, SMTT(30)
  <1>6. t \in Threads
    BY <1>3, <1>5, List
  <1>7. After(scan.prev) = t
    BY <1>2, <1>3, AfterPlace
  <1>8. After(t) = IF p + 1 = Len(tmo) THEN NoThread ELSE tmo[p + 2]
    BY <1>3, <1>5, AfterPlace
  <1>9. ASSUME state[t] \in Timed
        PROVE  /\ Before(scan.tick, expires[t]) <=> left[t] + e > 0
               /\ Away(Earlier(expires[t], scan.next),
                       (IF left[t] + e < m THEN left[t] + e ELSE m) - e)
    <2> DEFINE k == left[t]
               x == expires[t]
    <2>1. Away(x, k) /\ k <= MaxTicks /\ k + e >= -Late /\ k \in Int
      BY <1>2, <1>6, <1>9 DEF Expiry, Shape
    <2>2. tick \in Int
      BY AwayTick DEF Shape, TypeOK
    <2> HIDE DEF k, x
    <2>3. /\ -e \in Int /\ m - e \in Int
          /\ 2 * (k - (-e)) < Wrap /\ 2 * ((-e) - k) + 1 < Wrap
          /\ 2 * ((m - e) - k) < Wrap /\ 2 * (k - (m - e)) + 1 < Wrap
      BY <2>1, Limits, SMT
    <2>4. Before(scan.tick, x) <=> -e < k
      BY <1>2, <2>1, <2>2, <2>3, Compare
    <2>5. -e < k <=> k + e > 0
      BY <2>1, SMT
    <2>6. Away(Earlier(x, scan.next), IF k < m - e THEN k ELSE m - e)
      BY <1>2, <2>1, <2>2, <2>3, Compare
    <2>7. (IF k < m - e THEN k ELSE m - e) = (IF k + e < m THEN k + e ELSE m) - e
      BY <2>1, SMT
    <2>8. QED
      BY <2>4, <2>5, <2>6, <2>7 DEF k, x
  <1>10. QED
    BY <1>3, <1>5, <1>6, <1>7, <1>8, <1>9 DEF t

-------------------------------------------------------------------------------
\* Every step keeps the list's shape.
LEMMA ShapeStep ==
    ASSUME IInv, [Next]_vars
    PROVE  Shape'
  <1> USE DEF IInv, Shape
  <1>1. ASSUME NEW t \in Threads, NEW s \in Timed, NEW n \in 0..MaxTicks,
               PrepareBlock(t, s, n)
        PROVE  Shape'
    <2>1. /\ state' = [state EXCEPT ![t] = s]
          /\ expires' = [expires EXCEPT ![t] = (tick + n) % Wrap]
          /\ check' = Earlier((tick + n) % Wrap, check)
          /\ tmo' = IF t \in Listed THEN tmo ELSE Append(tmo, t)
          /\ left' = [left EXCEPT ![t] = n]
          /\ tick' = tick /\ scan' = scan /\ state[t] = "running"
      BY <1>1 DEF PrepareBlock, Enlist
    <2>2. n \in Int
      BY SMT
    <2>3. (tick + n) % Wrap \in 0..(Wrap - 1)
      BY <2>2, AwayTick DEF TypeOK
    <2>4. /\ tmo' \in Seq(Threads) /\ IsInjective(tmo')
          /\ \A y : y \in Listed' <=> y \in Listed \/ y = t
      <3>1. CASE t \in Listed
        BY <2>1, <3>1 DEF TypeOK, Listed
      <3>2. CASE t \notin Listed
        BY <2>1, <3>2, Joined DEF TypeOK, Listed
      <3>3. QED
        BY <3>1, <3>2
    <2>5. TypeOK'
      <3>1. check' \in 0..(Wrap - 1)
        BY <2>1, <2>3 DEF TypeOK, Earlier
      <3>2. state' \in [Threads -> {"killed", "running", "blocked"} \cup Timed]
        BY <2>1 DEF TypeOK
      <3>3. expires' \in [Threads -> 0..(Wrap - 1)]
        BY <2>1, <2>3 DEF TypeOK
      <3>4. Listed' \subseteq Threads
        BY <2>4 DEF TypeOK
      <3>5. QED
        BY <2>1, <2>4, <3>1, <3>2, <3>3, <3>4 DEF TypeOK
    <2>6. ListedWhileWaiting'
      <3>1. \A u \in Threads : state'[u] = IF u = t THEN s ELSE state[u]
        BY <2>1 DEF TypeOK
      <3>2. s # "killed"
        BY DEF Timed
      <3>3. state'[t] # "killed"
        BY <3>1, <3>2
      <3>4. \A u \in Threads : state'[u] = "killed" => u # t /\ u \notin Listed
        BY <3>1, <3>3 DEF ListedWhileWaiting
      <3>5. \A u \in Threads : state'[u] \in Timed => u \in Listed \/ u = t
        BY <3>1 DEF ListedWhileWaiting, Waiting
      <3>6. QED
        BY <2>4, <3>4, <3>5 DEF ListedWhileWaiting, Waiting
    <2>7. left' \in [Threads -> Int]
      BY <2>1, <2>2
    <2>8. QED
      BY <2>1, <2>4, <2>5, <2>6, <2>7
  <1>2. ASSUME NEW t \in Threads, BlockForever(t) \/ Wakeup(t) \/ Create(t)
        PROVE  Shape'
    <2>1. PICK s \in {"running", "blocked"} :
            state' = [state EXCEPT ![t] = s]
      BY <1>2 DEF BlockForever, Wakeup, Create
    <2>2. /\ tick' = tick /\ tmo' = tmo /\ check' = check /\ scan' = scan
          /\ expires' = expires \/ expires' = [expires EXCEPT ![t] = 0]
          /\ left' = left \/ left' = [left EXCEPT ![t] = 0]
      BY <1>2 DEF BlockForever, Wakeup, Create
    <2>3. 0 \in 0..(Wrap - 1) /\ 0 \in Int
      BY Limits, SMT
    <2>4. expires' \in [Threads -> 0..(Wrap - 1)] /\ left' \in [Threads -> Int]
      BY <2>2, <2>3 DEF TypeOK
    <2>5. /\ state' \in [Threads -> {"killed", "running", "blocked"} \cup Timed]
          /\ \A u \in Threads : state'[u] = IF u = t THEN s ELSE state[u]
      BY <2>1 DEF TypeOK
    <2>6. s \notin Timed /\ s # "killed"
      BY DEF Timed
    <2>7. ListedWhileWaiting'
      BY <2>2, <2>5, <2>6 DEF ListedWhileWaiting, Waiting, Listed
    <2>8. QED
      BY <2>2, <2>4, <2>5, <2>7 DEF TypeOK, Listed
  <1>3. ASSUME NEW t \in Threads, Exit(t) PROVE Shape'
    <2>1. /\ state' = [state EXCEPT ![t] = "killed"] /\ tmo' = RemoveFirst(tmo, t)
          /\ UNCHANGED <<tick, expires, check, scan, left>>
      BY <1>3 DEF Exit, Delist
    <2>2. /\ tmo' \in Seq(Threads) /\ IsInjective(tmo')
          /\ \A y : y \in Listed' <=> y \in Listed /\ y # t
      BY <2>1, List, RemoveFirstFacts DEF Listed
    <2>3. /\ state' \in [Threads -> {"killed", "running", "blocked"} \cup Timed]
          /\ \A u \in Threads : state'[u] = IF u = t THEN "killed" ELSE state[u]
      BY <2>1 DEF TypeOK
    <2>4. "killed" \notin Timed
      BY DEF Timed
    <2>5. ListedWhileWaiting'
      BY <2>2, <2>3, <2>4 DEF ListedWhileWaiting, Waiting
    <2>6. QED
      BY <2>1, <2>2, <2>3, <2>5 DEF TypeOK
  <1>4. CASE Tick
    <2>1. /\ tick' = (tick + 1) % Wrap
          /\ left' = [t \in Threads |-> IF t \in Waiting THEN left[t] - 1 ELSE left[t]]
          /\ UNCHANGED <<state, expires, tmo, check, scan>>
      BY <1>4 DEF Tick
    <2>2. tick' \in 0..(Wrap - 1)
      BY <2>1, AwayTick, SMT DEF TypeOK
    <2>3. left' \in [Threads -> Int]
      <3>1. \A t \in Threads : left[t] \in Int /\ left[t] - 1 \in Int
        BY SMT
      <3>2. QED
        BY <2>1, <3>1
    <2>4. QED
      BY <2>1, <2>2, <2>3 DEF TypeOK, ListedWhileWaiting, Waiting, Listed
  <1>5. CASE CheckBegin
    <2>1. /\ scan' = [on |-> TRUE, thread |-> After(NoThread), prev |-> NoThread,
                      tick |-> tick, next |-> (tick + Minute) % Wrap]
          /\ UNCHANGED <<tick, state, expires, tmo, check, left>>
      BY <1>5 DEF CheckBegin
    <2>2. (tick + Minute) % Wrap \in 0..(Wrap - 1)
      BY AwayTick, Limits, SMT DEF TypeOK
    <2>3. After(NoThread) \in Threads \cup {NoThread}
      <3>1. After(NoThread) = IF 1 <= Len(tmo) THEN tmo[1] ELSE NoThread
        BY DEF After
      <3>2. 1 <= Len(tmo) => 1 \in 1..Len(tmo)
        BY List, SMT
      <3>3. QED
        BY <3>1, <3>2, List
    <2>4. QED
      BY <2>1, <2>2, <2>3 DEF TypeOK, ListedWhileWaiting, Waiting, Listed
  <1>6. CASE CheckThread
    <2> DEFINE t == scan.thread
    <2>1. PICK e \in 0..Late, m \in 1..Minute, p \in 0..Len(tmo) :
            Scanned(e, m, p)
      BY <1>6 DEF Scanning, CheckThread
    <2>2. /\ t \in Threads /\ After(scan.prev) = t
          /\ After(t) = IF p + 1 = Len(tmo) THEN NoThread ELSE tmo[p + 2]
          /\ p + 1 \in 1..Len(tmo)
      BY <1>6, <2>1, Checked
    <2>3. After(t) \in Threads \cup {NoThread}
      <3>1. p + 1 # Len(tmo) => p + 2 \in 1..Len(tmo)
        BY <2>2, List, SMT
      <3>2. QED
        BY <2>2, <3>1, List
    <2>4. CASE state[t] \in Timed /\ Before(scan.tick, expires[t])
      <3>1. /\ scan' = [scan EXCEPT !.next = Earlier(expires[t], @),
                                    !.thread = After(t), !.prev = t]
            /\ UNCHANGED <<state, expires, left, tmo, tick, check>>
        BY <1>6, <2>4 DEF CheckThread
      <3>2. Earlier(expires[t], scan.next) \in 0..(Wrap - 1)
        BY <2>2 DEF Earlier, TypeOK
      <3>3. /\ scan' \in [on : BOOLEAN, thread : Threads \cup {NoThread},
                          prev : Threads \cup {NoThread},
                          tick : 0..(Wrap - 1), next : 0..(Wrap - 1)]
            /\ scan'.thread \in Threads \cup {NoThread}
            /\ scan'.prev \in Threads \cup {NoThread}
        BY <2>2, <2>3, <3>1, <3>2
      <3>4. QED
        BY <3>1, <3>3 DEF TypeOK, ListedWhileWaiting, Waiting, Listed
    <2>5. CASE ~(state[t] \in Timed /\ Before(scan.tick, expires[t]))
      <3>1. /\ scan' = [scan EXCEPT !.thread = After(t)]
            /\ tmo' = RemoveFirst(tmo, t)
            /\ state' = [state EXCEPT ![t] =
                           IF state[t] \in Timed THEN "running" ELSE state[t]]
            /\ expires' = [expires EXCEPT ![t] = 0]
            /\ left' = [left EXCEPT ![t] = 0]
            /\ UNCHANGED <<tick, check>>
        BY <1>6, <2>2, <2>5 DEF CheckThread, Delist
      <3>2. /\ tmo' \in Seq(Threads) /\ IsInjective(tmo')
            /\ \A y : y \in Listed' <=> y \in Listed /\ y # t
        BY <3>1, List, RemoveFirstFacts DEF Listed
      <3>3. 0 \in 0..(Wrap - 1) /\ 0 \in Int
        BY Limits, SMT
      <3>4. expires' \in [Threads -> 0..(Wrap - 1)] /\ left' \in [Threads -> Int]
        BY <3>1, <3>3 DEF TypeOK
      <3>5. /\ state' \in [Threads -> {"killed", "running", "blocked"} \cup Timed]
            /\ \A u \in Threads : u # t => state'[u] = state[u]
            /\ state'[t] = IF state[t] \in Timed THEN "running" ELSE state[t]
        BY <2>2, <3>1 DEF TypeOK
      <3>6. "running" \notin Timed
        BY DEF Timed
      <3>7. state'[t] \notin Timed
        BY <3>5, <3>6
      <3>8. \A u \in Threads : state'[u] \in Timed => u # t /\ state[u] \in Timed
        BY <3>5, <3>7
      <3>9. \A u \in Threads : state'[u] = "killed" => u = t \/ state[u] = "killed"
        BY <3>5
      <3>10. ListedWhileWaiting'
        BY <3>2, <3>8, <3>9 DEF ListedWhileWaiting, Waiting
      <3>11. /\ scan' \in [on : BOOLEAN, thread : Threads \cup {NoThread},
                           prev : Threads \cup {NoThread},
                           tick : 0..(Wrap - 1), next : 0..(Wrap - 1)]
             /\ scan'.thread \in Threads \cup {NoThread}
             /\ scan'.prev \in Threads \cup {NoThread}
        BY <2>3, <3>1
      <3>12. QED
        BY <3>1, <3>2, <3>4, <3>5, <3>10, <3>11 DEF TypeOK
    <2>6. QED
      BY <2>4, <2>5
  <1>7. CASE CheckEnd
    <2>1. /\ check' = scan.next /\ scan' = NoScan
          /\ UNCHANGED <<tick, state, expires, tmo, left>>
      BY <1>7 DEF CheckEnd
    <2>2. 0 \in 0..(Wrap - 1)
      BY Limits, SMT
    <2>3. QED
      BY <2>1, <2>2 DEF TypeOK, ListedWhileWaiting, Waiting, Listed, NoScan
  <1>8. CASE UNCHANGED vars
    BY <1>8 DEF vars, TypeOK, ListedWhileWaiting, Waiting, Listed
  <1>9. QED
    BY <1>1, <1>2, <1>3, <1>4, <1>5, <1>6, <1>7, <1>8 DEF Next, Check

-------------------------------------------------------------------------------
\* Time that has passed, or not, for what is away.
LEMMA ExpiryStep ==
    ASSUME IInv, [Next]_vars
    PROVE  Expiry'
  <1> USE DEF IInv
  <1>0. /\ tick \in 0..(Wrap - 1) /\ left \in [Threads -> Int]
        /\ expires \in [Threads -> 0..(Wrap - 1)]
        /\ DOMAIN state = Threads
    BY DEF Shape, TypeOK
  <1>1. ASSUME NEW t \in Threads, NEW s \in Timed, NEW n \in 0..MaxTicks,
               PrepareBlock(t, s, n)
        PROVE  Expiry'
    <2>1. /\ state' = [state EXCEPT ![t] = s]
          /\ expires' = [expires EXCEPT ![t] = (tick + n) % Wrap]
          /\ left' = [left EXCEPT ![t] = n] /\ tick' = tick
      BY <1>1 DEF PrepareBlock
    <2>2. n <= MaxTicks
      BY SMT
    <2>3. ASSUME NEW u \in Threads, state'[u] \in Timed
          PROVE  expires'[u] = (tick + left'[u]) % Wrap /\ left'[u] <= MaxTicks
      BY <1>0, <2>1, <2>2, <2>3 DEF Expiry, Away
    <2>4. QED
      BY <2>1, <2>3 DEF Expiry, Away
  <1>2. ASSUME NEW t \in Threads, Wakeup(t) \/ BlockForever(t) \/ Exit(t) \/ Create(t)
        PROVE  Expiry'
    <2>1. /\ tick' = tick
          /\ \A u \in Threads : state'[u] \in Timed =>
                u # t /\ state[u] \in Timed
          /\ \A u \in Threads : u # t =>
                expires'[u] = expires[u] /\ left'[u] = left[u]
      BY <1>0, <1>2 DEF Wakeup, BlockForever, Exit, Create, Timed
    <2>2. QED
      BY <2>1 DEF Expiry, Away
  <1>3. CASE Tick
    <2>1. /\ tick' = (tick + 1) % Wrap /\ state' = state /\ expires' = expires
          /\ \A u \in Threads : state[u] \in Timed => left'[u] = left[u] - 1
      BY <1>3 DEF Tick, Waiting
    <2>2. ASSUME NEW u \in Threads, state[u] \in Timed
          PROVE  /\ expires[u] = (tick' + (left[u] - 1)) % Wrap
                 /\ left[u] - 1 <= MaxTicks
      <3>1. Away(expires[u], left[u]) /\ left[u] <= MaxTicks /\ left[u] \in Int
        BY <1>0, <2>2 DEF Expiry
      <3>2. expires[u] = (tick' + (left[u] - 1)) % Wrap
        BY <1>0, <2>1, <3>1, AwayNext
      <3>3. left[u] - 1 <= MaxTicks
        BY <3>1, Limits, SMT
      <3>4. QED
        BY <3>2, <3>3
    <2>3. QED
      BY <2>1, <2>2 DEF Expiry, Away
  <1>4. CASE CheckThread
    <2>1. /\ tick' = tick
          /\ \A u \in Threads : state'[u] \in Timed =>
                /\ state[u] \in Timed
                /\ expires'[u] = expires[u] /\ left'[u] = left[u]
      <3> DEFINE t == scan.thread
      <3>1. CASE state[t] \in Timed /\ Before(scan.tick, expires[t])
        BY <1>4, <3>1 DEF CheckThread
      <3>2. CASE ~(state[t] \in Timed /\ Before(scan.tick, expires[t]))
        <4>1. /\ tick' = tick
              /\ state' = [state EXCEPT ![t] =
                             IF state[t] \in Timed THEN "running" ELSE state[t]]
              /\ expires' = [expires EXCEPT ![t] = 0]
              /\ left' = [left EXCEPT ![t] = 0]
          BY <1>4, <3>2 DEF CheckThread
        <4>2. "running" \notin Timed
          BY DEF Timed
        <4>3. \A u \in Threads : state'[u] \in Timed => u # t /\ state[u] \in Timed
          BY <1>0, <4>1, <4>2
        <4>4. QED
          BY <1>0, <4>1, <4>3
      <3>3. QED
        BY <3>1, <3>2
    <2>2. QED
      BY <2>1 DEF Expiry, Away
  <1>5. CASE CheckBegin \/ CheckEnd \/ UNCHANGED vars
    BY <1>5 DEF CheckBegin, CheckEnd, vars, Expiry, Away
  <1>6. QED
    BY <1>1, <1>2, <1>3, <1>4, <1>5 DEF Next, Check

\* Every step keeps next_tmo_check from lying behind any wait's end.
LEMMA DueStep ==
    ASSUME IInv, [Next]_vars
    PROVE  Due'
  <1> USE DEF IInv
  <1>0. /\ tick \in 0..(Wrap - 1) /\ left \in [Threads -> Int]
        /\ tick \in Int /\ DOMAIN state = Threads
    BY AwayTick DEF Shape, TypeOK
  <1>1. ASSUME NEW t \in Threads, NEW s \in Timed, NEW n \in 0..MaxTicks,
               PrepareBlock(t, s, n)
        PROVE  Due'
    <2>1. /\ state' = [state EXCEPT ![t] = s] /\ ~scan.on
          /\ check' = Earlier((tick + n) % Wrap, check)
          /\ left' = [left EXCEPT ![t] = n] /\ tick' = tick /\ scan' = scan
      BY <1>1 DEF PrepareBlock
    <2>2. PICK d \in -Late..Minute : DueIn(d)
      BY <2>1 DEF Due
    <2> DEFINE b == IF n < d THEN n ELSE d
    <2>3. /\ d \in Int /\ n \in Int /\ b \in -Late..Minute /\ b <= n /\ b <= d
          /\ 2 * (d - n) < Wrap /\ 2 * (n - d) + 1 < Wrap
      BY Limits, SMT
    <2>4. Away((tick + n) % Wrap, n) /\ Away(check, d)
      BY <2>2 DEF DueIn, Away
    <2>5. Away(Earlier((tick + n) % Wrap, check), b)
      BY <1>0, <2>3, <2>4, Compare
    <2> HIDE DEF b
    <2>6. ASSUME NEW u \in Threads, state'[u] \in Timed PROVE left'[u] >= b
      <3>1. CASE u = t
        <4>1. left'[u] = n
          BY <1>0, <2>1, <3>1
        <4>2. QED
          BY <2>3, <4>1, SMT
      <3>2. CASE u # t
        <4>1. left'[u] = left[u] /\ left[u] >= d /\ left[u] \in Int
          BY <1>0, <2>1, <2>2, <2>6, <3>2 DEF DueIn
        <4>2. \A x \in Int, y \in -Late..Minute : x >= d /\ y <= d => x >= y
          BY <2>3, Limits, SMT
        <4>3. QED
          BY <2>3, <4>1, <4>2
      <3>3. QED
        BY <3>1, <3>2
    <2>7. DueIn(b)'
      BY <2>1, <2>5, <2>6 DEF DueIn, Away
    <2>8. QED
      BY <2>3, <2>7 DEF Due
  <1>2. ASSUME NEW t \in Threads, Wakeup(t) \/ BlockForever(t) \/ Exit(t) \/ Create(t)
        PROVE  Due'
    <2>1. /\ tick' = tick /\ check' = check /\ scan' = scan
          /\ \A u \in Threads : state'[u] \in Timed =>
                u # t /\ state[u] \in Timed
          /\ \A u \in Threads : u # t => left'[u] = left[u]
      BY <1>0, <1>2 DEF Wakeup, BlockForever, Exit, Create, Timed
    <2>2. ASSUME NEW d \in -Late..Minute, DueIn(d) PROVE DueIn(d)'
      BY <2>1, <2>2 DEF DueIn, Away
    <2>3. QED
      BY <2>1, <2>2 DEF Due
  <1>3. CASE Tick
    <2> SUFFICES ASSUME ~scan'.on PROVE \E d \in -Late..Minute : DueIn(d)'
      BY DEF Due
    <2>1. /\ tick' = (tick + 1) % Wrap /\ state' = state /\ check' = check
          /\ \A u \in Threads : state[u] \in Timed => left'[u] = left[u] - 1
          /\ ~scan.on
          /\ Before(tick, check) \/ (tick - check) % Wrap < Late
      BY <1>3 DEF Tick, Waiting
    <2>2. PICK d \in -Late..Minute : DueIn(d)
      BY <2>1 DEF Due
    <2>3. /\ d \in Int /\ 0 \in Int /\ 0 - d = -d
          /\ 2 * (d - 0) < Wrap /\ 2 * (0 - d) + 1 < Wrap
      BY Limits, SMT
    <2>4. /\ Before(tick, check) <=> 0 < d
          /\ (tick - check) % Wrap = IF 0 < d THEN 0 - d + Wrap ELSE 0 - d
      BY <1>0, <2>2, <2>3, AwayTick, Compare, ZenonT(30) DEF DueIn
    <2>5. d - 1 \in -Late..Minute
      <3>1. 0 < d \/ (IF 0 < d THEN 0 - d + Wrap ELSE 0 - d) < Late
        BY <2>1, <2>4
      <3>2. QED
        BY <2>3, <3>1, Limits, SMT
    <2>6. check = (tick' + (d - 1)) % Wrap
      BY <1>0, <2>1, <2>2, <2>3, AwayNext DEF DueIn
    <2>7. ASSUME NEW u \in Threads, state[u] \in Timed PROVE left[u] - 1 >= d - 1
      <3>1. left[u] >= d /\ left[u] \in Int
        BY <1>0, <2>2, <2>7 DEF DueIn
      <3>2. QED
        BY <2>3, <3>1, SMT
    <2>8. DueIn(d - 1)'
      BY <2>1, <2>6, <2>7 DEF DueIn, Away
    <2>9. QED
      BY <2>5, <2>8
  <1>4. CASE CheckBegin
    BY <1>4 DEF CheckBegin, Due
  <1>5. CASE CheckThread
    <2>1. scan.on /\ scan'.on = scan.on
      BY <1>5 DEF CheckThread, Shape
    <2>2. QED
      BY <2>1 DEF Due
  <1>6. CASE CheckEnd
    <2>1. /\ scan.on /\ scan.thread = NoThread /\ check' = scan.next
          /\ UNCHANGED <<tick, state, expires, tmo, left>>
      BY <1>6 DEF CheckEnd
    <2>2. PICK e \in 0..Late, m \in 1..Minute, p \in 0..Len(tmo) :
            Scanned(e, m, p)
      BY <2>1 DEF Scanning
    <2>3. p = Len(tmo)
      <3>1. Len(tmo) \in Nat
        BY List
      <3>2. p # Len(tmo) => p + 1 \in 1..Len(tmo)
        BY <3>1, SMT
      <3>3. QED
        BY <2>1, <2>2, <3>2, List DEF Scanned
    <2>4. m - e \in -Late..Minute
      BY Limits, SMT
    <2>5. ASSUME NEW u \in Threads, state[u] \in Timed PROVE left[u] >= m - e
      <3>1. PICK i \in 1..Len(tmo) : tmo[i] = u
        BY <2>5, List DEF Shape, ListedWhileWaiting, Waiting
      <3>2. left[u] + e >= m /\ left[u] \in Int
        BY <1>0, <2>2, <2>3, <2>5, <3>1 DEF Scanned
      <3>3. QED
        BY <3>2, Limits, SMT
    <2>6. Away(scan.next, m - e)
      BY <2>2 DEF Scanned
    <2>7. DueIn(m - e)'
      BY <2>1, <2>5, <2>6 DEF DueIn, Away
    <2>8. QED
      BY <2>4, <2>7 DEF Due
  <1>7. CASE UNCHANGED vars
    BY <1>7 DEF vars, Due, DueIn, Away
  <1>8. QED
    BY <1>1, <1>2, <1>3, <1>4, <1>5, <1>6, <1>7 DEF Next, Check

-------------------------------------------------------------------------------
\* The check goes on as it was, with the same place in the list: nobody can
\* start a wait in the middle of it.
LEMMA ScannedStill ==
    ASSUME Shape, NEW e \in 0..Late, NEW m \in 1..Minute, NEW p \in 0..Len(tmo),
           Scanned(e, m, p),
           tick' = tick, tmo' = tmo, scan' = scan,
           \A u \in Threads : state'[u] \in Timed =>
               state[u] \in Timed /\ left'[u] = left[u]
    PROVE  Scanned(e, m, p)'
  <1>1. /\ Away(scan.tick, -e)' /\ Away(scan.next, m - e)'
        /\ scan'.prev = (IF p = 0 THEN NoThread ELSE tmo'[p])
        /\ scan'.thread = (IF p = Len(tmo') THEN NoThread ELSE tmo'[p + 1])
    BY DEF Scanned, Away
  <1>2. \A u \in Threads : state'[u] \in Timed => left'[u] + e >= -Late
    BY DEF Scanned
  <1>3. \A i \in 1..p : tmo[i] \in Threads
    <2>1. \A i \in 1..p : i \in 1..Len(tmo)
      <3>1. Len(tmo) \in Nat
        BY List
      <3>2. QED
        BY <3>1, SMT
    <2>2. QED
      BY <2>1, List
  <1>4. \A i \in 1..p : state'[tmo'[i]] \in Timed => left'[tmo'[i]] + e >= m
    BY <1>3 DEF Scanned
  <1>5. QED
    BY <1>1, <1>2, <1>4 DEF Scanned

\* Every step keeps what a check in progress has established.
LEMMA ScanningStep ==
    ASSUME IInv, [Next]_vars
    PROVE  Scanning'
  <1> USE DEF IInv
  <1>0. /\ tick \in 0..(Wrap - 1) /\ left \in [Threads -> Int]
        /\ tick \in Int /\ DOMAIN state = Threads
    BY AwayTick DEF Shape, TypeOK
  <1>00. Len(tmo) \in Nat
    BY List
  <1>1. ASSUME UNCHANGED <<tick, tmo, scan>>,
               \A u \in Threads : state'[u] \in Timed =>
                   state[u] \in Timed /\ left'[u] = left[u]
        PROVE  Scanning'
    BY <1>1, ScannedStill DEF Scanning
  <1>2. ASSUME NEW t \in Threads, Wakeup(t)
        PROVE  Scanning'
    <2>1. /\ UNCHANGED <<tick, tmo, scan>>
          /\ \A u \in Threads : state'[u] \in Timed =>
                state[u] \in Timed /\ left'[u] = left[u]
      BY <1>0, <1>2 DEF Wakeup, Timed
    <2>2. QED
      BY <1>1, <2>1
  <1>3. CASE UNCHANGED vars
    BY <1>1, <1>3 DEF vars
  <1>4. ASSUME ~scan.on, ~CheckBegin, [Next]_vars PROVE ~scan'.on
    BY <1>4 DEF Next, Check, PrepareBlock, BlockForever, Wakeup, Exit, Create,
                Tick, CheckThread, CheckEnd, vars
  <1>5. CASE Tick /\ scan.on
    <2>1. /\ tick' = (tick + 1) % Wrap /\ UNCHANGED <<state, tmo, scan>>
          /\ \A u \in Threads : state[u] \in Timed => left'[u] = left[u] - 1
          /\ (tick - scan.tick) % Wrap < Late
      BY <1>5 DEF Tick, Waiting
    <2>2. PICK e \in 0..Late, m \in 1..Minute, p \in 0..Len(tmo) :
            Scanned(e, m, p)
      BY <1>5 DEF Scanning
    <2>3. /\ e \in Int /\ m \in Int /\ -e \in Int /\ m - e \in Int /\ 0 \in Int
          /\ 2 * ((-e) - 0) < Wrap /\ 2 * (0 - (-e)) + 1 < Wrap
          /\ ~(0 < -e) /\ 0 - (-e) = e
          /\ (-e) - 1 = -(e + 1) /\ (m - e) - 1 = m - (e + 1)
      BY Limits, SMT
    <2>4. e + 1 \in 0..Late
      <3>1. (tick - scan.tick) % Wrap = e
        BY <1>0, <2>2, <2>3, AwayTick, Compare, ZenonT(60) DEF Scanned
      <3>2. e < Late
        BY <2>1, <3>1
      <3>3. QED
        BY <2>3, <3>2, Limits, SMT
    <2>5. /\ scan.tick = (tick' + (-(e + 1))) % Wrap
          /\ scan.next = (tick' + (m - (e + 1))) % Wrap
      <3>1. Away(scan.tick, -e) /\ Away(scan.next, m - e)
        BY <2>2 DEF Scanned
      <3>2. /\ scan.tick = (tick' + ((-e) - 1)) % Wrap
            /\ scan.next = (tick' + ((m - e) - 1)) % Wrap
        BY <1>0, <2>1, <2>3, <3>1, AwayNext
      <3>3. QED
        BY <2>3, <3>2
    <2>6. \A u \in Threads : left[u] \in Int
      BY <1>0
    <2>7. \A x \in Int : (x - 1) + (e + 1) = x + e
      BY <2>3, SMT
    <2>8. \A i \in 1..p : tmo[i] \in Threads
      <3>1. \A i \in 1..p : i \in 1..Len(tmo)
        BY <1>00, SMT
      <3>2. QED
        BY <3>1, List
    <2>9. /\ \A u \in Threads : state'[u] \in Timed => left'[u] + (e + 1) >= -Late
          /\ \A i \in 1..p : state'[tmo'[i]] \in Timed =>
                left'[tmo'[i]] + (e + 1) >= m
      BY <2>1, <2>2, <2>6, <2>7, <2>8 DEF Scanned
    <2>10. Scanned(e + 1, m, p)'
      BY <2>1, <2>2, <2>5, <2>9 DEF Scanned, Away
    <2>11. QED
      BY <2>1, <2>4, <2>10 DEF Scanning
  <1>6. CASE CheckBegin
    <2>1. /\ scan' = [on |-> TRUE, thread |-> After(NoThread), prev |-> NoThread,
                      tick |-> tick, next |-> (tick + Minute) % Wrap]
          /\ UNCHANGED <<tick, state, expires, tmo, check, left>>
          /\ ~scan.on /\ ~Before(tick, check)
      BY <1>6 DEF CheckBegin
    <2>2. PICK d \in -Late..Minute : DueIn(d)
      BY <2>1 DEF Due
    <2>3. /\ 0 \in 0..Late /\ Minute \in 1..Minute /\ 0 \in 0..Len(tmo)
          /\ tick + (-0) = tick + 0 /\ Minute - 0 = Minute /\ 0 + 1 = 1
      <3>1. 0 \in 0..Late /\ Minute \in 1..Minute /\ Minute - 0 = Minute
        BY Limits, SMT
      <3>2. 0 \in 0..Len(tmo)
        BY <1>00, SMT
      <3>3. tick + (-0) = tick + 0 /\ 0 + 1 = 1
        BY <1>0, SMT
      <3>4. QED
        BY <3>1, <3>2, <3>3
    <2>4. ASSUME NEW u \in Threads, state[u] \in Timed PROVE left[u] + 0 >= -Late
      <3>1. left[u] >= d /\ left[u] \in Int
        BY <1>0, <2>2, <2>4 DEF DueIn
      <3>2. QED
        BY <3>1, Limits, SMT
    <2>5. After(NoThread) = IF 0 = Len(tmo) THEN NoThread ELSE tmo[1]
      BY <2>3, AfterPlace
    <2>6. \A i \in 1..0 : FALSE
      BY SMT
    <2>7. Away(tick, 0)
      BY <1>0, AwayTick
    <2>8. Scanned(0, Minute, 0)'
      BY <2>1, <2>3, <2>4, <2>5, <2>6, <2>7 DEF Scanned, Away
    <2>9. QED
      BY <2>1, <2>3, <2>8 DEF Scanning
  <1>7. CASE CheckEnd
    BY <1>7 DEF CheckEnd, NoScan, Scanning
  <1>8. CASE CheckThread
    <2> DEFINE t == scan.thread
    <2>1. PICK e \in 0..Late, m \in 1..Minute, p \in 0..Len(tmo) :
            Scanned(e, m, p)
      BY <1>8 DEF Scanning, CheckThread
    <2>2. /\ t \in Threads /\ p + 1 \in 1..Len(tmo) /\ tmo[p + 1] = t
          /\ After(scan.prev) = t
          /\ After(t) = IF p + 1 = Len(tmo) THEN NoThread ELSE tmo[p + 2]
          /\ state[t] \in Timed =>
               /\ Before(scan.tick, expires[t]) <=> left[t] + e > 0
               /\ Away(Earlier(expires[t], scan.next),
                       (IF left[t] + e < m THEN left[t] + e ELSE m) - e)
      BY <1>8, <2>1, Checked
    <2>3. \A i \in 1..p : i \in 1..Len(tmo) /\ tmo[i] \in Threads /\ i # p + 1
      <3>1. \A i \in 1..p : i \in 1..Len(tmo) /\ i # p + 1
        BY <1>00, SMT
      <3>2. QED
        BY <3>1, List
    <2>4. /\ Away(scan.tick, -e) /\ Away(scan.next, m - e)
          /\ scan.prev = (IF p = 0 THEN NoThread ELSE tmo[p])
          /\ \A u \in Threads : state[u] \in Timed => left[u] + e >= -Late
          /\ \A i \in 1..p : state[tmo[i]] \in Timed => left[tmo[i]] + e >= m
      BY <2>1 DEF Scanned
    <2>5. CASE state[t] \in Timed /\ Before(scan.tick, expires[t])
      <3>1. /\ scan' = [scan EXCEPT !.next = Earlier(expires[t], @),
                                    !.thread = After(t), !.prev = t]
            /\ UNCHANGED <<state, expires, left, tmo, tick, check>>
        BY <1>8, <2>5 DEF CheckThread
      <3>2. /\ scan'.tick = scan.tick /\ scan'.prev = t /\ scan'.thread = After(t)
            /\ scan'.next = Earlier(expires[t], scan.next)
        BY <3>1 DEF Shape
      <3>3. left[t] \in Int /\ left[t] + e > 0
        BY <1>0, <2>2, <2>5
      <3>4. PICK b \in 1..Minute :
              /\ b = IF left[t] + e < m THEN left[t] + e ELSE m
              /\ b <= m /\ b <= left[t] + e
        <4>1. (IF left[t] + e < m THEN left[t] + e ELSE m) \in 1..Minute
          <5>1. e \in Int /\ m \in 1..Minute /\ Minute \in Nat
            BY Limits, SMT
          <5>2. \A x \in Int : x > 0 => (IF x < m THEN x ELSE m) \in 1..Minute
            BY <5>1, SMT
          <5>3. left[t] + e \in Int /\ left[t] + e > 0
            BY <3>3, <5>1, SMT
          <5>4. QED
            BY <5>2, <5>3
        <4>2. LET b == IF left[t] + e < m THEN left[t] + e ELSE m
              IN  b <= m /\ b <= left[t] + e
          <5>1. \A x \in Int : LET b == IF x < m THEN x ELSE m IN b <= m /\ b <= x
            BY Limits, SMT
          <5>2. left[t] + e \in Int
            BY <3>3, Limits, SMT
          <5>3. QED
            BY <5>1, <5>2
        <4>3. QED
          BY <4>1, <4>2
      <3>5. Away(scan'.next, b - e)
        BY <2>2, <2>5, <3>2, <3>4
      <3>6. p + 1 \in 0..Len(tmo) /\ p + 1 # 0 /\ (p + 1) + 1 = p + 2
        BY <1>00, <2>2, SMT
      <3>7. ASSUME NEW i \in 1..(p + 1), state[tmo[i]] \in Timed
            PROVE  left[tmo[i]] + e >= b
        <4>1. CASE i = p + 1
          BY <2>2, <3>3, <3>4, <4>1, SMT
        <4>2. CASE i # p + 1
          <5>1. i \in 1..p
            BY <1>00, <4>2, SMT
          <5>2. left[tmo[i]] + e >= m /\ left[tmo[i]] \in Int
            BY <1>0, <2>3, <2>4, <3>7, <5>1
          <5>3. \A x \in Int : x + e >= m => x + e >= b
            BY <3>4, Limits, SMT
          <5>4. QED
            BY <5>2, <5>3
        <4>3. QED
          BY <4>1, <4>2
      <3>8. Scanned(e, b, p + 1)'
        BY <2>2, <2>4, <3>1, <3>2, <3>5, <3>6, <3>7 DEF Scanned, Away
      <3>9. QED
        BY <3>1, <3>4, <3>6, <3>8 DEF Scanning
    <2>6. CASE ~(state[t] \in Timed /\ Before(scan.tick, expires[t]))
      <3>1. /\ scan' = [scan EXCEPT !.thread = After(t)]
            /\ tmo' = RemoveFirst(tmo, t)
            /\ state' = [state EXCEPT ![t] =
                           IF state[t] \in Timed THEN "running" ELSE state[t]]
            /\ left' = [left EXCEPT ![t] = 0]
            /\ UNCHANGED <<tick, check>>
        BY <1>8, <2>2, <2>6 DEF CheckThread, Delist
      <3>2. /\ scan'.tick = scan.tick /\ scan'.prev = scan.prev
            /\ scan'.next = scan.next /\ scan'.thread = After(t)
        BY <3>1 DEF Shape
      <3>3. /\ Len(tmo') = Len(tmo) - 1
            /\ \A j \in 1..Len(tmo') :
                 tmo'[j] = IF j < p + 1 THEN tmo[j] ELSE tmo[j + 1]
        <4> DEFINE r == RemoveFirst(tmo, t)
        <4>1. \A k \in 1..Len(tmo) : tmo[k] = t =>
                /\ Len(r) = Len(tmo) - 1
                /\ \A j \in 1..Len(r) : r[j] = IF j < k THEN tmo[j] ELSE tmo[j + 1]
          <5>1. tmo \in Seq(Threads) /\ IsInjective(tmo)
            BY List
          <5>2. QED
            BY <5>1, RemoveFirstFacts
        <4> HIDE DEF r
        <4>2. /\ Len(r) = Len(tmo) - 1
              /\ \A j \in 1..Len(r) :
                   r[j] = IF j < p + 1 THEN tmo[j] ELSE tmo[j + 1]
          BY <2>2, <4>1
        <4>3. QED
          BY <3>1, <4>2 DEF r
      <3>4. /\ p \in 0..Len(tmo')
            /\ p = Len(tmo') <=> p + 1 = Len(tmo)
            /\ p # Len(tmo') => p + 1 \in 1..Len(tmo')
            /\ ~(p + 1 < p + 1) /\ (p + 1) + 1 = p + 2
            /\ p # 0 => p \in 1..p
            /\ \A i \in 1..p : i \in 1..Len(tmo') /\ i < p + 1
        BY <1>00, <2>2, <3>3, SMT
      <3>5. \A i \in 1..p : tmo'[i] = tmo[i]
        BY <3>3, <3>4
      <3>6. scan'.prev = IF p = 0 THEN NoThread ELSE tmo'[p]
        BY <2>4, <3>2, <3>4, <3>5
      <3>7. scan'.thread = IF p = Len(tmo') THEN NoThread ELSE tmo'[p + 1]
        BY <2>2, <3>2, <3>3, <3>4
      <3>8. "running" \notin Timed
        BY DEF Timed
      <3>9. \A u \in Threads : state'[u] \in Timed =>
                u # t /\ state[u] \in Timed /\ left'[u] = left[u]
        <4>1. \A u \in Threads : state'[u] \in Timed => u # t /\ state[u] \in Timed
          BY <1>0, <3>1, <3>8
        <4>2. QED
          BY <1>0, <3>1, <4>1
      <3>10. /\ \A u \in Threads : state'[u] \in Timed => left'[u] + e >= -Late
             /\ \A i \in 1..p : state'[tmo'[i]] \in Timed => left'[tmo'[i]] + e >= m
        BY <2>3, <2>4, <3>5, <3>9
      <3>11. Scanned(e, m, p)'
        BY <2>4, <3>1, <3>2, <3>6, <3>7, <3>10 DEF Scanned, Away
      <3>12. QED
        BY <3>4, <3>11 DEF Scanning
    <2>7. QED
      BY <2>5, <2>6
  <1>9. QED
    BY <1>2, <1>3, <1>4, <1>5, <1>6, <1>7, <1>8
       DEF Next, Check, PrepareBlock, BlockForever, Exit, Create, Scanning

\* The inductive invariant of the timed waits: how far away each tick is that
\* the code keeps, and what a check under way has seen so far.
THEOREM Invariance == Spec => []IInv
  <1>1. Init => IInv
    <2> SUFFICES ASSUME Init PROVE IInv
      OBVIOUS
    <2>1. /\ tick \in 0..(Wrap - 1) /\ check = tick /\ tmo = << >>
          /\ state = [t \in Threads |-> "running"]
          /\ expires = [t \in Threads |-> 0] /\ left = [t \in Threads |-> 0]
          /\ scan = NoScan
      BY DEF Init
    <2>2. 0 \in 0..(Wrap - 1) /\ 0 \in Int /\ 0 \in -Late..Minute
      BY Limits, SMT
    <2>3. /\ << >> \in Seq(Threads) /\ IsInjective(<< >>)
          /\ \A x : x \notin ToSet(<< >>)
      BY EmptyList
    <2>4. \A t \in Threads : state[t] \notin Timed /\ state[t] # "killed"
      BY <2>1 DEF Timed
    <2>5. /\ tick \in 0..(Wrap - 1) /\ check \in 0..(Wrap - 1)
          /\ state \in [Threads -> {"killed", "running", "blocked"} \cup Timed]
          /\ expires \in [Threads -> 0..(Wrap - 1)]
          /\ left \in [Threads -> Int]
          /\ Listed \subseteq Threads /\ IsInjective(tmo) /\ tmo \in Seq(Threads)
      BY <2>1, <2>2, <2>3 DEF Listed
    <2>6. scan.thread = NoThread /\ scan.prev = NoThread /\ ~scan.on
      BY <2>1 DEF NoScan
    <2>7. scan \in [on : BOOLEAN, thread : Threads \cup {NoThread},
                    prev : Threads \cup {NoThread},
                    tick : 0..(Wrap - 1), next : 0..(Wrap - 1)]
      BY <2>1, <2>2 DEF NoScan
    <2>8. Shape
      BY <2>4, <2>5, <2>6, <2>7 DEF Shape, TypeOK, ListedWhileWaiting, Waiting
    <2>9. DueIn(0)
      BY <2>1, <2>4, AwayTick DEF DueIn
    <2>10. QED
      BY <2>2, <2>4, <2>6, <2>8, <2>9 DEF IInv, Expiry, Due, Scanning
  <1>2. IInv /\ [Next]_vars => IInv'
    BY ShapeStep, ExpiryStep, DueStep, ScanningStep DEF IInv
  <1>3. QED
    BY <1>1, <1>2, PTL DEF Spec

-------------------------------------------------------------------------------
\* ListSound: who waits with a timeout is in the list once, who is gone is not.
THEOREM ListIsSound == Spec => []ListSound
  <1>1. IInv => ListSound
    BY DEF IInv, Shape, ListSound
  <1>2. QED
    BY <1>1, Invariance, PTL

\* NobodyOverlooked: while the scheduler sees no reason to check, nobody's
\* time is up.
THEOREM ChecksInTime == Spec => []NobodyOverlooked
  <1>1. IInv => NobodyOverlooked
    <2> SUFFICES ASSUME IInv, ~scan.on, Before(tick, check),
                        NEW t \in Threads, state[t] \in Timed
                 PROVE  left[t] > 0
      BY DEF NobodyOverlooked, Waiting
    <2>1. PICK d \in -Late..Minute : DueIn(d)
      BY DEF IInv, Due
    <2>2. /\ d \in Int /\ 0 \in Int
          /\ 2 * (d - 0) < Wrap /\ 2 * (0 - d) + 1 < Wrap
      BY Limits, SMT
    <2>3. tick \in 0..(Wrap - 1)
      BY DEF IInv, Shape, TypeOK
    <2>4. 0 < d
      BY <2>1, <2>2, <2>3, AwayTick, Compare DEF DueIn
    <2>5. left[t] >= d /\ left[t] \in Int
      BY <2>1 DEF DueIn, IInv, Shape
    <2>6. QED
      BY <2>2, <2>4, <2>5, SMT
  <1>2. QED
    BY <1>1, Invariance, PTL

\* OverdueBounded: no wait is overdue by more than a late check and a long one.
THEOREM OverdueIsBounded == Spec => []OverdueBounded
  <1>1. IInv => OverdueBounded
    <2> SUFFICES ASSUME IInv, NEW t \in Threads, state[t] \in Timed
                 PROVE  left[t] >= -2 * Late
      BY DEF OverdueBounded, Waiting
    <2>1. left[t] \in Int
      BY DEF IInv, Shape
    <2>2. CASE scan.on
      <3>1. PICK e \in 0..Late : left[t] + e >= -Late
        BY <2>2 DEF IInv, Scanning, Scanned
      <3>2. QED
        BY <2>1, <3>1, Limits, SMT
    <2>3. CASE ~scan.on
      <3>1. PICK d \in -Late..Minute : left[t] >= d
        BY <2>3 DEF IInv, Due, DueIn
      <3>2. QED
        BY <2>1, <3>1, Limits, SMT
    <2>4. QED
      BY <2>2, <2>3
  <1>2. QED
    BY <1>1, Invariance, PTL

\* NeverEarly: a sleeper goes on only when its ticks have passed.
THEOREM SleepsLongEnough == Spec => NeverEarly
  <1>1. IInv /\ [Next]_vars =>
          [\A t \in Threads :
             state[t] = "sleeping" /\ state'[t] # "sleeping" => left[t] <= 0]_vars
    <2> SUFFICES ASSUME IInv, Next, NEW t \in Threads,
                        state[t] = "sleeping", state'[t] # "sleeping"
                 PROVE  left[t] <= 0
      OBVIOUS
    <2>1. DOMAIN state = Threads /\ left[t] \in Int
      BY DEF IInv, Shape, TypeOK
    <2>2. CheckThread /\ t = scan.thread /\ scan.on
      BY <2>1 DEF Next, Check, PrepareBlock, BlockForever, Wakeup, Exit, Create,
                  Tick, CheckBegin, CheckThread, CheckEnd
    <2>3. PICK e \in 0..Late, m \in 1..Minute, p \in 0..Len(tmo) :
            Scanned(e, m, p)
      BY <2>2 DEF IInv, Scanning
    <2>4. ~Before(scan.tick, expires[t])
      BY <2>2 DEF CheckThread, Timed
    <2>5. ~(left[t] + e > 0)
      BY <2>2, <2>3, <2>4, Checked DEF Timed
    <2>6. QED
      BY <2>1, <2>5, Limits, SMT
  <1>2. QED
    BY <1>1, Invariance, PTL DEF Spec, NeverEarly
===============================================================================
