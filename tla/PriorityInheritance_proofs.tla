---------------------- MODULE PriorityInheritance_proofs ----------------------
(***************************************************************************)
(* Machine-checked proofs about PriorityInheritance, for any finite sets   *)
(* of threads, mutexes and queues, any priorities and chains of waits of   *)
(* any length: the books are exact, and a thread runs at the most urgent   *)
(* priority of those that wait on it.                                      *)
(*                                                                         *)
(* A walk of inherit_priority passes through states in which the books of  *)
(* one object are wrong.  It is followed round by round: Between says what *)
(* holds between two rounds, RoundKeeps that a round keeps it and goes to  *)
(* a thread of a higher number, InheritFacts that the walk therefore ends  *)
(* and leaves the books exact.  The numbering of the threads (Ranked) is   *)
(* what makes this work: it is how the invariant says that no threads wait *)
(* in a circle, and each wait that begins has to come with a new one.      *)
(***************************************************************************)
EXTENDS PriorityInheritance, Integers, Sequences, FiniteSets, SequencesExt,
        FiniteSetTheorems, SequenceTheorems, WellFoundedInduction, TLAPS

-------------------------------------------------------------------------------
\* Lists: what the operations on them do to what is in them.

\* A thread that joins a queue is its last.
LEMMA AppendFacts ==
    ASSUME NEW S, NEW q \in Seq(S), NEW t \in S
    PROVE  /\ Append(q, t) \in Seq(S)
           /\ Len(q) \in Nat
           /\ Append(q, t) # << >>
           /\ Len(Append(q, t)) = Len(q) + 1
           /\ \A i \in 1..Len(q) : Append(q, t)[i] = q[i]
           /\ Append(q, t)[Len(q) + 1] = t
           /\ q # << >> => Head(Append(q, t)) = Head(q) /\ Len(q) > 0
           /\ q = << >> => Head(Append(q, t)) = t /\ Len(q) = 0
  BY AppendProperties, LenProperties, EmptySeq, SMT

\* A queue's members and its head.
LEMMA QueueFacts ==
    ASSUME NEW S, NEW q \in Seq(S)
    PROVE  /\ Len(q) \in Nat
           /\ \A i \in 1..Len(q) : q[i] \in S
           /\ q # << >> => 1 \in 1..Len(q) /\ Head(q) = q[1]
  BY LenProperties, ElementOfSeq, EmptySeq, SMT

\* RemoveAt of the library, place by place.
LEMMA RemoveAtFacts ==
    ASSUME NEW S, NEW s \in Seq(S), NEW k \in 1..Len(s)
    PROVE  /\ RemoveAt(s, k) \in Seq(S)
           /\ Len(s) \in Nat /\ Len(RemoveAt(s, k)) = Len(s) - 1
           /\ \A j \in 1..(Len(s) - 1) :
                RemoveAt(s, k)[j] = IF j < k THEN s[j] ELSE s[j + 1]
  <1> DEFINE a == SubSeq(s, 1, k - 1)
             b == SubSeq(s, k + 1, Len(s))
  <1>1. Len(s) \in Nat /\ \A j \in 1..Len(s) : s[j] \in S
    BY LenProperties, ElementOfSeq
  <1>2. /\ a \in Seq(S) /\ Len(a) = IF 1 <= k - 1 THEN (k - 1) - 1 + 1 ELSE 0
        /\ \A j \in 1..((k - 1) - 1 + 1) : a[j] = s[1 + j - 1]
    <2>1. \A j \in 1..(k - 1) : s[j] \in S
      BY <1>1, SMT
    <2>2. 1 \in Int /\ k - 1 \in Int
      BY SMT
    <2>3. QED
      BY <2>1, <2>2, SubSeqProperties
  <1>3. /\ b \in Seq(S)
        /\ Len(b) = IF k + 1 <= Len(s) THEN Len(s) - (k + 1) + 1 ELSE 0
        /\ \A j \in 1..(Len(s) - (k + 1) + 1) : b[j] = s[(k + 1) + j - 1]
    <2>1. \A j \in (k + 1)..Len(s) : s[j] \in S
      BY <1>1, SMT
    <2>2. k + 1 \in Int /\ Len(s) \in Int
      BY <1>1, SMT
    <2>3. QED
      BY <2>1, <2>2, SubSeqProperties
  <1>4. /\ a \o b \in Seq(S)
        /\ Len(a \o b) = Len(a) + Len(b)
        /\ \A j \in 1..(Len(a) + Len(b)) :
             (a \o b)[j] = IF j <= Len(a) THEN a[j] ELSE b[j - Len(a)]
    BY <1>2, <1>3, ConcatProperties
  <1>5. Len(a) = k - 1 /\ Len(b) = Len(s) - k
    BY <1>1, <1>2, <1>3, SMT
  <1> HIDE DEF a, b
  <1>6. ASSUME NEW j \in 1..(Len(s) - 1)
        PROVE  (a \o b)[j] = IF j < k THEN s[j] ELSE s[j + 1]
    <2>1. (a \o b)[j] = IF j <= k - 1 THEN a[j] ELSE b[j - (k - 1)]
      BY <1>1, <1>4, <1>5, SMT
    <2>2. CASE j < k
      BY <1>2, <2>1, <2>2, SMT
    <2>3. CASE ~(j < k)
      <3>1. j - (k - 1) \in 1..(Len(s) - (k + 1) + 1)
        BY <1>1, <2>3, SMT
      <3>2. b[j - (k - 1)] = s[(k + 1) + (j - (k - 1)) - 1]
        BY <1>3, <3>1
      <3>3. (k + 1) + (j - (k - 1)) - 1 = j + 1
        BY <1>1, SMT
      <3>4. QED
        BY <2>1, <2>3, <3>2, <3>3, SMT
    <2>4. QED
      BY <2>2, <2>3
  <1>7. Len(a \o b) = Len(s) - 1
    BY <1>1, <1>4, <1>5, SMT
  <1>8. QED
    BY <1>1, <1>4, <1>6, <1>7 DEF RemoveAt, a, b

\* No entry twice, place by place; IsInjective says so of the function.
LEMMA NoRepetition ==
    ASSUME NEW S, NEW s \in Seq(S)
    PROVE  /\ IsInjective(s) <=> \A i, j \in 1..Len(s) : s[i] = s[j] => i = j
           /\ \A x : x \in ToSet(s) <=> \E i \in 1..Len(s) : s[i] = x
           /\ DOMAIN s = 1..Len(s)
  BY LenProperties DEF IsInjective, ToSet

\* The empty list, and which lists are empty.
LEMMA EmptyList ==
    ASSUME NEW S
    PROVE  /\ << >> \in Seq(S) /\ Len(<< >>) = 0 /\ IsInjective(<< >>)
           /\ \A x : x \notin ToSet(<< >>)
           /\ \A s \in Seq(S) : s # << >> <=> \E x \in S : x \in ToSet(s)
  <1>1. << >> \in Seq(S) /\ Len(<< >>) = 0
    BY EmptySeq
  <1>2. \A k \in 1..0 : FALSE
    BY SMT
  <1>3. IsInjective(<< >>) /\ \A x : x \notin ToSet(<< >>)
    <2>1. 1..Len(<< >>) = {}
      BY <1>1, <1>2
    <2>2. QED
      BY <1>1, <2>1, NoRepetition
  <1>4. ASSUME NEW s \in Seq(S), s # << >> PROVE \E x \in S : x \in ToSet(s)
    <2>1. 1 \in 1..Len(s)
      BY <1>4, EmptySeq, SMT
    <2>2. s[1] \in S /\ s[1] \in ToSet(s)
      BY <2>1, ElementOfSeq, NoRepetition
    <2>3. QED
      BY <2>2
  <1>5. QED
    BY <1>1, <1>3, <1>4

\* Taking an entry out of a list without repetition moves up those behind it
\* and leaves the rest as it was.
LEMMA RemoveFirstFacts ==
    ASSUME NEW S, NEW s \in Seq(S), IsInjective(s), NEW x
    PROVE  LET r == RemoveFirst(s, x)
           IN  /\ r \in Seq(S) /\ IsInjective(r)
               /\ Len(s) \in Nat /\ Len(r) \in Nat /\ Len(r) <= Len(s)
               /\ x \notin ToSet(s) => r = s
               /\ \A k \in 1..Len(s) : s[k] = x =>
                    /\ Len(r) = Len(s) - 1
                    /\ \A j \in 1..Len(r) :
                         r[j] = IF j < k THEN s[j] ELSE s[j + 1]
               /\ \A y : y \in ToSet(r) <=> y \in ToSet(s) /\ y # x
  <1> DEFINE r == RemoveFirst(s, x)
  <1>1. /\ Len(s) \in Nat
        /\ \A i, j \in 1..Len(s) : s[i] = s[j] => i = j
        /\ \A y : y \in ToSet(s) <=> \E i \in 1..Len(s) : s[i] = y
    BY NoRepetition, LenProperties
  <1>2. CASE x \notin ToSet(s)
    <2>1. r = s
      BY <1>1, <1>2 DEF RemoveFirst
    <2>2. QED
      BY <1>1, <1>2, <2>1, SMT
  <1>3. CASE x \in ToSet(s)
    <2>1. PICK k \in 1..Len(s) : s[k] = x
      BY <1>1, <1>3
    <2>2. SelectInSeq(s, LAMBDA v : v = x) = k
      BY <1>1, <2>1, SMT DEF SelectInSeq, Min
    <2>3. r = RemoveAt(s, k)
      BY <2>1, <2>2 DEF RemoveFirst
    <2>4. /\ r \in Seq(S) /\ Len(r) = Len(s) - 1 /\ Len(r) \in Nat
          /\ \A j \in 1..Len(r) : r[j] = IF j < k THEN s[j] ELSE s[j + 1]
      <3>1. /\ r \in Seq(S) /\ Len(r) = Len(s) - 1
            /\ \A j \in 1..(Len(s) - 1) :
                 r[j] = IF j < k THEN s[j] ELSE s[j + 1]
        BY <2>3, RemoveAtFacts
      <3> HIDE DEF r
      <3>2. Len(r) \in Nat
        BY <1>1, <3>1, SMT
      <3>3. QED
        BY <3>1, <3>2
    <2> HIDE DEF r
    <2>5. \A i, j \in 1..Len(r) : r[i] = r[j] => i = j
      BY <1>1, <2>4, SMT
    <2>6. \A m \in 1..Len(s) : s[m] = x => m = k
      BY <1>1, <2>1
    <2>7. ASSUME NEW y, y \in ToSet(r) PROVE y \in ToSet(s) /\ y # x
      <3>1. PICK j \in 1..Len(r) : r[j] = y
        BY <2>4, <2>7, NoRepetition
      <3>2. PICK m \in 1..Len(s) : y = s[m] /\ m # k
        BY <1>1, <2>4, <3>1, SMT
      <3>3. QED
        BY <1>1, <2>6, <3>2
    <2>8. ASSUME NEW y, y \in ToSet(s), y # x PROVE y \in ToSet(r)
      <3>1. PICK m \in 1..Len(s) : s[m] = y
        BY <1>1, <2>8
      <3>2. m # k
        BY <2>1, <2>8, <3>1
      <3>3. PICK j \in 1..Len(r) : m = IF j < k THEN j ELSE j + 1
        <4>1. CASE m < k
          BY <1>1, <2>4, <4>1, SMT
        <4>2. CASE m > k
          <5>1. m - 1 \in 1..Len(r) /\ ~(m - 1 < k) /\ m = (m - 1) + 1
            BY <1>1, <2>4, <4>2, SMT
          <5>2. QED
            BY <5>1
        <4>3. QED
          BY <1>1, <3>2, <4>1, <4>2, SMT
      <3>4. r[j] = y
        BY <2>4, <3>1, <3>3
      <3>5. QED
        BY <2>4, <3>4, NoRepetition
    <2>9. QED
      BY <1>1, <1>3, <2>4, <2>5, <2>6, <2>7, <2>8, NoRepetition, SMTT(30) DEF r
  <1>4. QED
    BY <1>2, <1>3

\* A thread that was not in the list joins it behind all others.
LEMMA Joined ==
    ASSUME NEW S, NEW s \in Seq(S), IsInjective(s), NEW x \in S, x \notin ToSet(s)
    PROVE  /\ Append(s, x) \in Seq(S) /\ IsInjective(Append(s, x))
           /\ Len(Append(s, x)) = Len(s) + 1 /\ Len(s) \in Nat
           /\ \A i \in 1..Len(s) : Append(s, x)[i] = s[i]
           /\ Append(s, x)[Len(s) + 1] = x
           /\ \A y : y \in ToSet(Append(s, x)) <=> y \in ToSet(s) \/ y = x
  <1> DEFINE r == Append(s, x)
  <1>1. /\ r \in Seq(S) /\ Len(s) \in Nat /\ Len(r) = Len(s) + 1
        /\ \A i \in 1..Len(s) : r[i] = s[i]
        /\ r[Len(s) + 1] = x
    BY AppendFacts
  <1>2. /\ \A i, j \in 1..Len(s) : s[i] = s[j] => i = j
        /\ \A y : y \in ToSet(s) <=> \E i \in 1..Len(s) : s[i] = y
    BY NoRepetition
  <1> HIDE DEF r
  <1>3. \A i \in 1..Len(r) : i \in 1..Len(s) \/ i = Len(s) + 1
    BY <1>1, SMT
  <1>4. /\ \A i \in 1..Len(s) : i \in 1..Len(r)
        /\ Len(s) + 1 \in 1..Len(r)
    BY <1>1, SMT
  <1>5. \A y : (\E i \in 1..Len(r) : r[i] = y) <=> y \in ToSet(s) \/ y = x
    BY <1>1, <1>2, <1>3, <1>4
  <1>6. \A i, j \in 1..Len(r) : r[i] = r[j] => i = j
    BY <1>1, <1>2, <1>3
  <1>7. QED
    BY <1>1, <1>5, <1>6, NoRepetition DEF r

-------------------------------------------------------------------------------
\* Numbers.

\* A set of numbers with a member has a least one.
LEMMA SmallestOf ==
    ASSUME NEW S \in SUBSET Nat, S # {}
    PROVE  Min(S) \in S /\ \A x \in S : Min(S) <= x
  <1> DEFINE R == OpToRel(<, Nat)
  <1>1. IsWellFoundedOn(R, Nat)
    BY NatLessThanWellFounded
  <1> HIDE DEF R
  <1>2. PICK x \in S : \A y \in S : ~(<<y, x>> \in R)
    <2>1. \E x \in S : \A y \in S : ~(<<y, x>> \in R)
      BY <1>1, WFMin
    <2>2. QED
      BY <2>1
  <1>3. \A y \in S : x <= y
    <2>1. \A y \in Nat : y < x => <<y, x>> \in R
      BY DEF R, OpToRel
    <2>2. x \in Nat /\ \A y \in S : y \in Nat
      OBVIOUS
    <2>3. \A y \in S : ~(y < x)
      BY <1>2, <2>1, <2>2
    <2>4. QED
      BY <2>2, <2>3, SMT
  <1>4. QED
    BY <1>3 DEF Min

-------------------------------------------------------------------------------
(* The rounds of a walk exist and follow each other. *)

\* A set that has 0 and the successor of every number in it has all numbers.
LEMMA CountingUp ==
    ASSUME NEW S, 0 \in S, \A n \in Nat : n \in S => n + 1 \in S
    PROVE  \A n \in Nat : n \in S
  <1> DEFINE Left == {n \in Nat : n \notin S}
  <1> SUFFICES ASSUME Left # {} PROVE FALSE
    OBVIOUS
  <1>1. Min(Left) \in Left /\ \A x \in Left : Min(Left) <= x
    BY SmallestOf
  <1> DEFINE m == Min(Left)
  <1>2. m \in Nat /\ m # 0 /\ m \notin S
    BY <1>1
  <1>3. m - 1 \in Nat /\ m - 1 \notin Left
    BY <1>1, <1>2, SMT
  <1>4. m - 1 \in S
    BY <1>3
  <1>5. QED
    BY <1>2, <1>3, <1>4, SMT

\* The rounds up to the n-th.
UpTo(first, g, n) == g = [i \in 0..n |-> IF i = 0 THEN first ELSE Round(g[i - 1])]

\* The rounds up to any number exist.
LEMMA SomeRounds ==
    ASSUME NEW first, NEW n \in Nat
    PROVE  \E g : UpTo(first, g, n)
  <1> DEFINE S == {k \in Nat : \E g : UpTo(first, g, k)}
  <1>1. 0 \in S
    <2> DEFINE g == [i \in 0..0 |-> first]
    <2>1. g = [i \in 0..0 |-> IF i = 0 THEN first ELSE Round(g[i - 1])]
      BY SMT
    <2>2. QED
      BY <2>1 DEF UpTo
  <1>2. ASSUME NEW k \in Nat, k \in S PROVE k + 1 \in S
    <2>1. PICK g : UpTo(first, g, k)
      BY <1>2
    <2> DEFINE h == [i \in 0..(k + 1) |-> IF i = 0 THEN first ELSE Round(g[i - 1])]
    <2>2. \A i \in 0..k : g[i] = IF i = 0 THEN first ELSE Round(g[i - 1])
      BY <2>1 DEF UpTo
    <2>3. \A i \in 0..k : h[i] = g[i]
      BY <2>2, SMT
    <2>4. \A i \in 0..(k + 1) : i # 0 => i - 1 \in 0..k
      BY SMT
    <2>5. \A i \in 0..(k + 1) : i # 0 => h[i - 1] = g[i - 1]
      BY <2>3, <2>4
    <2>6. h = [i \in 0..(k + 1) |-> IF i = 0 THEN first ELSE Round(h[i - 1])]
      BY <2>5, Zenon
    <2> HIDE DEF h
    <2>7. UpTo(first, h, k + 1)
      BY <2>6 DEF UpTo
    <2>8. k + 1 \in Nat
      BY SMT
    <2>9. QED
      BY <2>7, <2>8
  <1> HIDE DEF S
  <1>3. n \in S
    BY <1>1, <1>2, CountingUp
  <1>4. QED
    BY <1>3 DEF S

\* Any two agree as far as both go.
LEMMA SameRounds ==
    ASSUME NEW first, NEW g, NEW h, NEW n \in Nat, NEW m \in Nat,
           UpTo(first, g, n), UpTo(first, h, m)
    PROVE  \A i \in Nat : i <= n /\ i <= m => g[i] = h[i]
  <1> DEFINE S == {i \in Nat : i <= n /\ i <= m => g[i] = h[i]}
  <1>1. \A i \in 0..n : g[i] = IF i = 0 THEN first ELSE Round(g[i - 1])
    BY DEF UpTo
  <1>2. \A i \in 0..m : h[i] = IF i = 0 THEN first ELSE Round(h[i - 1])
    BY DEF UpTo
  <1>3. 0 \in S
    BY <1>1, <1>2, SMT
  <1>4. ASSUME NEW i \in Nat, i \in S PROVE i + 1 \in S
    <2> SUFFICES ASSUME i + 1 <= n, i + 1 <= m PROVE g[i + 1] = h[i + 1]
      BY SMT
    <2>1. g[i] = h[i]
      BY <1>4, SMT
    <2>2. i + 1 \in 0..n /\ i + 1 \in 0..m /\ i + 1 # 0 /\ (i + 1) - 1 = i
      BY SMT
    <2>3. g[i + 1] = Round(g[i]) /\ h[i + 1] = Round(h[i])
      BY <1>1, <1>2, <2>2
    <2>4. QED
      BY <2>1, <2>3
  <1> HIDE DEF S
  <1>5. \A i \in Nat : i \in S
    BY <1>3, <1>4, CountingUp
  <1>6. QED
    BY <1>5 DEF S

\* The loop's rounds are what their definition says.
LEMMA RoundsDefined ==
    ASSUME NEW first
    PROVE  /\ Rounds(first)[0] = first
           /\ \A n \in Nat : Rounds(first)[n + 1] = Round(Rounds(first)[n])
  <1> DEFINE G(n) == CHOOSE g : UpTo(first, g, n)
             f == [n \in Nat |-> G(n)[n]]
  <1>1. \A n \in Nat : UpTo(first, G(n), n)
    BY SomeRounds
  <1> HIDE DEF G
  <1>2. \A n \in Nat : \A i \in 0..n :
            G(n)[i] = IF i = 0 THEN first ELSE Round(G(n)[i - 1])
    BY <1>1 DEF UpTo
  <1>3. ASSUME NEW n \in Nat
        PROVE  f[n] = IF n = 0 THEN first ELSE Round(f[n - 1])
    <2>1. f[n] = IF n = 0 THEN first ELSE Round(G(n)[n - 1])
      BY <1>2, SMT
    <2>2. CASE n # 0
      <3>1. n - 1 \in Nat /\ n - 1 <= n /\ n - 1 <= n - 1
        BY <2>2, SMT
      <3>2. G(n)[n - 1] = G(n - 1)[n - 1]
        BY <1>1, <3>1, SameRounds
      <3>3. f[n - 1] = G(n - 1)[n - 1]
        BY <3>1
      <3>4. QED
        BY <2>1, <3>2, <3>3
    <2>3. QED
      BY <2>1, <2>2
  <1>4. f = [n \in Nat |-> IF n = 0 THEN first ELSE Round(f[n - 1])]
    BY <1>3
  <1> HIDE DEF f
  <1>5. \E h : h = [n \in Nat |-> IF n = 0 THEN first ELSE Round(h[n - 1])]
    BY <1>4
  <1> DEFINE r == Rounds(first)
  <1>6. r = [n \in Nat |-> IF n = 0 THEN first ELSE Round(r[n - 1])]
    BY <1>5 DEF Rounds
  <1> HIDE DEF r
  <1>7. r[0] = first
    BY <1>6
  <1>8. ASSUME NEW n \in Nat PROVE r[n + 1] = Round(r[n])
    <2>1. n + 1 \in Nat /\ n + 1 # 0 /\ (n + 1) - 1 = n
      BY SMT
    <2>2. r[n + 1] = Round(r[(n + 1) - 1])
      BY <1>6, <2>1
    <2>3. QED
      BY <2>1, <2>2
  <1>9. QED
    BY <1>7, <1>8 DEF r

-------------------------------------------------------------------------------
(* The books, one operation at a time.  The definitions say of any books b, *)
(* holders h, base priorities bs, waiters W and runnable threads R what the *)
(* invariant says of the state.                                             *)

\* Books with any numbers in them, and what an object's priority can be.
IntBooks == Books(Int)
Levels == Prios \cup {Idle}

\* The objects of h that lend t the priority p, and t's exact history.
Lent(b, h, t, p) == {o \in Objects : h[o] = t /\ b.blpr[o] = p}
HistoryOf(b, h, bs) ==
    \A t \in Threads, p \in Prios :
        b.hist[t][p] = (IF bs[t] = p THEN 1 ELSE 0) + Cardinality(Lent(b, h, t, p))

\* The exact priority of a thread, and the exact summary of the run queue.
PriorityOf(b) == \A t \in Threads : b.prio[t] = Highest(b.hist[t])
RunningAt(b, R, p) == {t \in R : b.prio[t] = p}
RunQueueOf(b, R) == \A p \in Prios : b.rtr[p] = Cardinality(RunningAt(b, R, p))

\* The most urgent of the threads S, and the exact priority of each object.
Least(b, S) == Min({Idle} \cup {b.prio[u] : u \in S})
ObjectsOf(b, W, except) ==
    \A o \in Objects \ except : b.blpr[o] = Least(b, W[o])

\* Two sets that differ in one element at most.
LEMMA OneApart ==
    ASSUME NEW A, NEW B, NEW x, IsFiniteSet(A),
           \A y : y # x => (y \in A <=> y \in B)
    PROVE  /\ IsFiniteSet(B) /\ Cardinality(A) \in Nat /\ Cardinality(B) \in Nat
           /\ Cardinality(B) = (Cardinality(A) - (IF x \in A THEN 1 ELSE 0))
                               + (IF x \in B THEN 1 ELSE 0)
  <1>1. Cardinality(A) \in Nat
    BY FS_CardinalityType
  <1>2. CASE x \in A /\ x \in B
    <2>1. A = B
      BY <1>2
    <2>2. QED
      BY <1>1, <1>2, <2>1, SMT
  <1>3. CASE x \notin A /\ x \notin B
    <2>1. A = B
      BY <1>3
    <2>2. QED
      BY <1>1, <1>3, <2>1, SMT
  <1>4. CASE x \in A /\ x \notin B
    <2>1. B = A \ {x}
      BY <1>4
    <2>2. /\ IsFiniteSet(A \ {x})
          /\ Cardinality(A \ {x}) = Cardinality(A) - 1
      BY <1>4, FS_RemoveElement
    <2>3. Cardinality(A \ {x}) \in Nat
      BY <2>2, FS_CardinalityType
    <2>4. QED
      BY <1>1, <1>4, <2>1, <2>2, <2>3, SMT
  <1>5. CASE x \notin A /\ x \in B
    <2>1. B = A \cup {x}
      BY <1>5
    <2>2. /\ IsFiniteSet(A \cup {x})
          /\ Cardinality(A \cup {x}) = Cardinality(A) + 1
      BY <1>5, FS_AddElement
    <2>3. QED
      BY <1>1, <1>5, <2>1, <2>2, SMT
  <1>6. QED
    BY <1>2, <1>3, <1>4, <1>5

\* The levels are numbers, and objects and threads are finitely many.
LEMMA Finite ==
    /\ Levels \subseteq Nat /\ Idle \in Levels /\ Prios \subseteq Levels
    /\ Idle \notin Prios /\ \A p \in Levels : p <= Idle
    /\ IsFiniteSet(Threads) /\ IsFiniteSet(Objects)
    /\ Cardinality(Threads) \in Nat /\ Cardinality(Objects) \in Nat
    /\ NoThread \notin Threads /\ NoObject \notin Objects
  <1>1. IsFiniteSet(Objects)
    BY PriorityAssumption, FS_Union DEF Objects
  <1>2. QED
    BY <1>1, PriorityAssumption, FS_CardinalityType, SMT DEF Levels, Objects

\* One entry more, and one less.
LEMMA Entries ==
    ASSUME NEW h \in [Prios -> Int], NEW p \in Levels
    PROVE  /\ Plus(h, p) \in [Prios -> Int] /\ Minus(h, p) \in [Prios -> Int]
           /\ \A x \in Prios : Plus(h, p)[x] = h[x] + (IF x = p THEN 1 ELSE 0)
           /\ \A x \in Prios : Minus(h, p)[x] = h[x] - (IF x = p THEN 1 ELSE 0)
  BY Finite, SMT DEF Plus, Minus, Levels

\* A history with an entry has a most urgent one.
LEMMA HighestFacts ==
    ASSUME NEW h \in [Prios -> Int], NEW q \in Prios, h[q] > 0
    PROVE  /\ Highest(h) \in Prios /\ h[Highest(h)] > 0
           /\ \A p \in Prios : h[p] > 0 => Highest(h) <= p
  <1> DEFINE S == {p \in Prios : h[p] > 0}
  <1>1. S \in SUBSET Nat /\ S # {}
    BY PriorityAssumption
  <1>2. Min(S) \in S /\ \A x \in S : Min(S) <= x
    BY <1>1, SmallestOf
  <1>3. QED
    BY <1>2 DEF Highest

\* And it is the only one with an entry and nothing more urgent.
LEMMA HighestIs ==
    ASSUME NEW h \in [Prios -> Int], NEW q \in Prios, h[q] > 0,
           \A p \in Prios : h[p] > 0 => q <= p
    PROVE  Highest(h) = q
  <1>1. /\ Highest(h) \in Prios /\ h[Highest(h)] > 0
        /\ \A p \in Prios : h[p] > 0 => Highest(h) <= p
    BY HighestFacts
  <1>2. Highest(h) <= q /\ q <= Highest(h)
    BY <1>1
  <1>3. Highest(h) \in Nat /\ q \in Nat
    BY <1>1, PriorityAssumption
  <1>4. QED
    BY <1>2, <1>3, SMT

\* The most urgent of some threads.
LEMMA LeastFacts ==
    ASSUME NEW b \in IntBooks, NEW S \in SUBSET Threads
    PROVE  /\ Least(b, S) \in Levels
           /\ \A u \in S : Least(b, S) <= b.prio[u]
           /\ Least(b, S) = Idle \/ \E u \in S : b.prio[u] = Least(b, S)
           /\ S = {} => Least(b, S) = Idle
           /\ S # {} => Least(b, S) \in Prios
  <1> DEFINE V == {Idle} \cup {b.prio[u] : u \in S}
  <1>1. b.prio \in [Threads -> Prios]
    BY DEF IntBooks, Books
  <1>2. V \in SUBSET Nat /\ V # {} /\ V \subseteq Levels
    BY <1>1, Finite DEF Levels
  <1>3. Min(V) \in V /\ \A x \in V : Min(V) <= x
    BY <1>2, SmallestOf
  <1> DEFINE m == Min(V)
  <1>4. m = Least(b, S)
    BY DEF Least
  <1>5. m \in Levels /\ (m = Idle \/ \E u \in S : b.prio[u] = m)
    BY <1>2, <1>3
  <1>6. \A u \in S : m <= b.prio[u]
    BY <1>3
  <1>7. S = {} => m = Idle
    BY <1>5
  <1> HIDE DEF m
  <1>8. ASSUME S # {} PROVE m \in Prios
    <2>1. PICK u \in S : TRUE
      BY <1>8
    <2>2. m <= b.prio[u] /\ b.prio[u] \in Prios /\ m \in Levels
      BY <1>1, <1>5, <1>6
    <2>3. m # Idle
      <3>1. b.prio[u] < Idle /\ b.prio[u] \in Nat /\ m \in Nat /\ Idle \in Nat
        BY <2>2, PriorityAssumption, Finite
      <3>2. QED
        BY <2>2, <3>1, SMT
    <2>4. QED
      BY <2>2, <2>3 DEF Levels
  <1>9. QED
    BY <1>4, <1>5, <1>6, <1>7, <1>8

\* And the only level that bounds them and is the priority of one.
LEMMA LeastIs ==
    ASSUME NEW b \in IntBooks, NEW S \in SUBSET Threads, NEW v \in Levels,
           \A u \in S : v <= b.prio[u],
           v = Idle \/ \E u \in S : b.prio[u] = v
    PROVE  Least(b, S) = v
  <1>1. b.prio \in [Threads -> Prios] /\ \A u \in S : b.prio[u] \in Nat
    BY Finite DEF IntBooks, Books
  <1>2. v \in Nat /\ v <= Idle /\ Idle \in Nat
    BY Finite
  <1>3. Least(b, S) \in Nat /\ Least(b, S) <= Idle
    BY LeastFacts, Finite
  <1>4. Least(b, S) <= v
    BY <1>1, <1>2, <1>3, LeastFacts
  <1>5. v <= Least(b, S)
    BY <1>1, <1>2, <1>3, LeastFacts
  <1>6. QED
    BY <1>2, <1>3, <1>4, <1>5, SMT

\* inherit_priority's entry of an object's new priority with its holder.
LEMMA LendFacts ==
    ASSUME NEW b \in IntBooks, NEW o \in Objects, NEW p \in Levels,
           holder[o] \in Threads
    PROVE  LET c == Lend(b, o, p)
           IN  /\ c \in IntBooks
               /\ c.prio = b.prio /\ c.rtr = b.rtr /\ c.carried = b.carried
               /\ c.blpr[o] = p
               /\ \A x \in Objects : x # o => c.blpr[x] = b.blpr[x]
               /\ \A t \in Threads : t # holder[o] => c.hist[t] = b.hist[t]
               /\ \A x \in Prios :
                    c.hist[holder[o]][x] = (b.hist[holder[o]][x]
                      + (IF x = p THEN 1 ELSE 0)) - (IF x = b.blpr[o] THEN 1 ELSE 0)
  <1> DEFINE c == Lend(b, o, p)
             t == holder[o]
             h == Minus(Plus(b.hist[t], p), b.blpr[o])
  <1>1. /\ b.prio \in [Threads -> Prios] /\ b.hist \in [Threads -> [Prios -> Int]]
        /\ b.blpr \in [Objects -> Levels] /\ b.rtr \in [Prios -> Int]
        /\ b.carried \in BOOLEAN
    BY DEF IntBooks, Books, Levels
  <1>2. b.hist[t] \in [Prios -> Int] /\ b.blpr[o] \in Levels
    BY <1>1
  <1>3. /\ Plus(b.hist[t], p) \in [Prios -> Int]
        /\ \A x \in Prios :
             Plus(b.hist[t], p)[x] = b.hist[t][x] + (IF x = p THEN 1 ELSE 0)
    BY <1>2, Entries
  <1>4. /\ h \in [Prios -> Int]
        /\ \A x \in Prios :
             h[x] = Plus(b.hist[t], p)[x] - (IF x = b.blpr[o] THEN 1 ELSE 0)
    BY <1>2, <1>3, Entries
  <1> HIDE DEF h
  <1>5. c = [b EXCEPT !.blpr = [b.blpr EXCEPT ![o] = p],
                      !.hist = [b.hist EXCEPT ![t] = h]]
    BY DEF Lend, h, IntBooks, Books
  <1> HIDE DEF c
  <1>6. /\ c \in IntBooks
        /\ c.prio = b.prio /\ c.rtr = b.rtr /\ c.carried = b.carried
        /\ c.blpr = [b.blpr EXCEPT ![o] = p]
        /\ c.hist = [b.hist EXCEPT ![t] = h]
    <2>1. [b.blpr EXCEPT ![o] = p] \in [Objects -> Levels]
      BY <1>1
    <2>2. [b.hist EXCEPT ![t] = h] \in [Threads -> [Prios -> Int]]
      BY <1>1, <1>4
    <2>3. QED
      BY <1>5, <2>1, <2>2 DEF IntBooks, Books, Levels
  <1>7. \A x \in Prios : c.hist[t][x] = h[x]
    BY <1>1, <1>6
  <1>8. QED
    BY <1>1, <1>3, <1>4, <1>6, <1>7 DEF c

\* set_rtr_thread_priority
LEMMA MoveFacts ==
    ASSUME NEW b \in IntBooks, NEW t \in Threads, NEW p \in Prios,
           NEW R \in SUBSET Threads, t \in R <=> state[t] = "running",
           RunQueueOf(b, R)
    PROVE  LET c == WithPriority(b, t, p)
           IN  /\ c \in IntBooks /\ RunQueueOf(c, R)
               /\ c.hist = b.hist /\ c.blpr = b.blpr /\ c.carried = b.carried
               /\ c.prio[t] = p
               /\ \A u \in Threads : u # t => c.prio[u] = b.prio[u]
  <1> DEFINE c == WithPriority(b, t, p)
             r == IF state[t] = "running" THEN Plus(Minus(b.rtr, b.prio[t]), p)
                                          ELSE b.rtr
             old == b.prio[t]
  <1>1. /\ b.prio \in [Threads -> Prios] /\ b.hist \in [Threads -> [Prios -> Int]]
        /\ b.blpr \in [Objects -> Levels] /\ b.rtr \in [Prios -> Int]
        /\ b.carried \in BOOLEAN
    BY DEF IntBooks, Books, Levels
  <1>2. old \in Prios /\ old \in Levels /\ p \in Levels
    BY <1>1 DEF Levels
  <1>3. /\ Minus(b.rtr, old) \in [Prios -> Int]
        /\ \A x \in Prios :
             Minus(b.rtr, old)[x] = b.rtr[x] - (IF x = old THEN 1 ELSE 0)
    BY <1>1, <1>2, Entries
  <1>4. /\ Plus(Minus(b.rtr, old), p) \in [Prios -> Int]
        /\ \A x \in Prios : Plus(Minus(b.rtr, old), p)[x] =
             Minus(b.rtr, old)[x] + (IF x = p THEN 1 ELSE 0)
    BY <1>2, <1>3, Entries
  <1>5. r \in [Prios -> Int]
    BY <1>1, <1>4
  <1>6. c = [b EXCEPT !.prio = [b.prio EXCEPT ![t] = p], !.rtr = r]
    BY DEF WithPriority, IntBooks, Books
  <1>7. \A x \in Prios : r[x] = IF state[t] = "running"
             THEN (b.rtr[x] - (IF x = old THEN 1 ELSE 0)) + (IF x = p THEN 1 ELSE 0)
             ELSE b.rtr[x]
    BY <1>3, <1>4
  <1> HIDE DEF c, r
  <1>8. /\ c \in IntBooks
        /\ c.hist = b.hist /\ c.blpr = b.blpr /\ c.carried = b.carried
        /\ c.prio = [b.prio EXCEPT ![t] = p] /\ c.rtr = r
    <2>1. [b.prio EXCEPT ![t] = p] \in [Threads -> Prios]
      BY <1>1
    <2>2. QED
      BY <1>5, <1>6, <2>1 DEF IntBooks, Books
  <1>9. ASSUME NEW x \in Prios PROVE c.rtr[x] = Cardinality(RunningAt(c, R, x))
    <2> DEFINE A == RunningAt(b, R, x)
               B == RunningAt(c, R, x)
    <2>1. \A u : u # t => (u \in A <=> u \in B)
      BY <1>1, <1>8 DEF RunningAt
    <2>2. IsFiniteSet(A)
      BY Finite, FS_Subset DEF RunningAt
    <2>3. t \in A <=> t \in R /\ x = old
      BY DEF RunningAt
    <2>4. t \in B <=> t \in R /\ x = p
      BY <1>1, <1>8 DEF RunningAt
    <2>5. b.rtr[x] = Cardinality(A)
      BY DEF RunQueueOf
    <2> HIDE DEF A, B, old
    <2>6. /\ Cardinality(A) \in Nat
          /\ Cardinality(B) = (Cardinality(A) - (IF t \in A THEN 1 ELSE 0))
                               + (IF t \in B THEN 1 ELSE 0)
      BY <2>1, <2>2, OneApart
    <2>7. c.rtr[x] = Cardinality(B)
      BY <1>7, <1>8, <2>3, <2>4, <2>5, <2>6, SMT
    <2>8. QED
      BY <2>7 DEF B
  <1>10. \A u \in Threads : u # t => c.prio[u] = b.prio[u]
    BY <1>1, <1>8
  <1>11. c.prio[t] = p
    BY <1>1, <1>8
  <1>12. RunQueueOf(c, R)
    BY <1>9 DEF RunQueueOf
  <1>13. QED
    BY <1>8, <1>10, <1>11, <1>12 DEF c

\* core_rtr_add and core_rtr_remove: a thread joins or leaves those that run.
LEMMA RunnableFacts ==
    ASSUME NEW b \in IntBooks, NEW t \in Threads, NEW R \in SUBSET Threads,
           RunQueueOf(b, R)
    PROVE  /\ t \notin R =>
                /\ Runnable(b, t) \in IntBooks
                /\ RunQueueOf(Runnable(b, t), R \cup {t})
           /\ t \in R =>
                /\ Unrunnable(b, t) \in IntBooks
                /\ RunQueueOf(Unrunnable(b, t), R \ {t})
           /\ \A c \in {Runnable(b, t), Unrunnable(b, t)} :
                /\ c.prio = b.prio /\ c.hist = b.hist
                /\ c.blpr = b.blpr /\ c.carried = b.carried
  <1> DEFINE pr == b.prio[t]
             up == Plus(b.rtr, pr)
             down == Minus(b.rtr, pr)
             c == Runnable(b, t)
             d == Unrunnable(b, t)
  <1>1. /\ b.prio \in [Threads -> Prios] /\ b.rtr \in [Prios -> Int]
        /\ pr \in Prios /\ pr \in Levels
    BY DEF IntBooks, Books, Levels
  <1>2. /\ up \in [Prios -> Int] /\ down \in [Prios -> Int]
        /\ \A x \in Prios : up[x] = b.rtr[x] + (IF x = pr THEN 1 ELSE 0)
        /\ \A x \in Prios : down[x] = b.rtr[x] - (IF x = pr THEN 1 ELSE 0)
    BY <1>1, Entries
  <1> HIDE DEF up, down
  <1>3. c = [b EXCEPT !.rtr = up] /\ d = [b EXCEPT !.rtr = down]
    BY DEF Runnable, Unrunnable, up, down, IntBooks, Books
  <1> HIDE DEF c, d
  <1>4. /\ c \in IntBooks /\ c.rtr = up /\ c.prio = b.prio /\ c.hist = b.hist
        /\ c.blpr = b.blpr /\ c.carried = b.carried
        /\ d \in IntBooks /\ d.rtr = down /\ d.prio = b.prio /\ d.hist = b.hist
        /\ d.blpr = b.blpr /\ d.carried = b.carried
    BY <1>2, <1>3 DEF IntBooks, Books
  <1>5. ASSUME NEW x \in Prios, t \notin R
        PROVE  c.rtr[x] = Cardinality(RunningAt(c, R \cup {t}, x))
    <2> DEFINE A == RunningAt(b, R, x)
               B == RunningAt(c, R \cup {t}, x)
    <2>1. /\ \A u : u # t => (u \in A <=> u \in B)
          /\ t \notin A /\ (t \in B <=> x = pr)
      BY <1>4, <1>5 DEF RunningAt
    <2>2. IsFiniteSet(A)
      BY Finite, FS_Subset DEF RunningAt
    <2>3. b.rtr[x] = Cardinality(A)
      BY DEF RunQueueOf
    <2> HIDE DEF A, B, pr
    <2>4. /\ Cardinality(A) \in Nat
          /\ Cardinality(B) = (Cardinality(A) - (IF t \in A THEN 1 ELSE 0))
                               + (IF t \in B THEN 1 ELSE 0)
      BY <2>1, <2>2, OneApart
    <2>5. c.rtr[x] = Cardinality(B)
      BY <1>2, <1>4, <2>1, <2>3, <2>4, SMT
    <2>6. QED
      BY <2>5 DEF B
  <1>6. ASSUME NEW x \in Prios, t \in R
        PROVE  d.rtr[x] = Cardinality(RunningAt(d, R \ {t}, x))
    <2> DEFINE A == RunningAt(b, R, x)
               B == RunningAt(d, R \ {t}, x)
    <2>1. /\ \A u : u # t => (u \in A <=> u \in B)
          /\ t \notin B /\ (t \in A <=> x = pr)
      BY <1>4, <1>6 DEF RunningAt
    <2>2. IsFiniteSet(A)
      BY Finite, FS_Subset DEF RunningAt
    <2>3. b.rtr[x] = Cardinality(A)
      BY DEF RunQueueOf
    <2> HIDE DEF A, B, pr
    <2>4. /\ Cardinality(A) \in Nat
          /\ Cardinality(B) = (Cardinality(A) - (IF t \in A THEN 1 ELSE 0))
                               + (IF t \in B THEN 1 ELSE 0)
      BY <2>1, <2>2, OneApart
    <2>5. d.rtr[x] = Cardinality(B)
      BY <1>2, <1>4, <2>1, <2>3, <2>4, SMT
    <2>6. QED
      BY <2>5 DEF B
  <1>7. QED
    BY <1>4, <1>5, <1>6 DEF RunQueueOf, c, d

-------------------------------------------------------------------------------
(* What the exact histories say of priorities. *)

\* A history that is exact has the thread's own priority, what it is lent, and
\* nothing else.
LEMMA HistoryFacts ==
    ASSUME NEW b \in IntBooks, NEW h, NEW bs \in [Threads -> Prios],
           HistoryOf(b, h, bs), NEW t \in Threads
    PROVE  /\ b.hist[t] \in [Prios -> Int]
           /\ \A p \in Prios : b.hist[t][p] >= 0
           /\ b.hist[t][bs[t]] > 0
           /\ \A o \in Objects : h[o] = t /\ b.blpr[o] \in Prios
                                   => b.hist[t][b.blpr[o]] > 0
           /\ \A p \in Prios : b.hist[t][p] > 0
                => p = bs[t] \/ \E o \in Objects : h[o] = t /\ b.blpr[o] = p
           /\ Highest(b.hist[t]) \in Prios
           /\ Highest(b.hist[t]) <= bs[t]
           /\ \A o \in Objects : h[o] = t /\ b.blpr[o] \in Prios
                                   => Highest(b.hist[t]) <= b.blpr[o]
           /\ \/ Highest(b.hist[t]) = bs[t]
              \/ \E o \in Objects : h[o] = t /\ b.blpr[o] = Highest(b.hist[t])
  <1>1. b.hist[t] \in [Prios -> Int] /\ bs[t] \in Prios
    BY DEF IntBooks, Books
  <1>2. ASSUME NEW p \in Prios
        PROVE  IsFiniteSet(Lent(b, h, t, p)) /\ Cardinality(Lent(b, h, t, p)) \in Nat
    <2>1. Lent(b, h, t, p) \subseteq Objects
      BY DEF Lent
    <2>2. QED
      BY <2>1, Finite, FS_Subset, FS_CardinalityType
  <1>3. \A p \in Prios : b.hist[t][p] =
            (IF bs[t] = p THEN 1 ELSE 0) + Cardinality(Lent(b, h, t, p))
    BY DEF HistoryOf
  <1>4. b.hist[t][bs[t]] > 0
    <2>1. b.hist[t][bs[t]] = 1 + Cardinality(Lent(b, h, t, bs[t]))
      BY <1>1, <1>3
    <2>2. QED
      BY <1>1, <1>2, <2>1, SMT
  <1>5. ASSUME NEW o \in Objects, h[o] = t, b.blpr[o] \in Prios
        PROVE  b.hist[t][b.blpr[o]] > 0
    <2> DEFINE p == b.blpr[o]
               L == Lent(b, h, t, p)
    <2>1. o \in L
      BY <1>5 DEF Lent
    <2>2. Cardinality(L) # 0
      BY <1>2, <1>5, <2>1, FS_EmptySet
    <2> HIDE DEF L
    <2>3. Cardinality(L) \in Nat
      BY <1>2, <1>5 DEF L
    <2>4. b.hist[t][p] = (IF bs[t] = p THEN 1 ELSE 0) + Cardinality(L)
      BY <1>3, <1>5 DEF L
    <2>5. QED
      BY <2>2, <2>3, <2>4, SMT
  <1>6. ASSUME NEW p \in Prios, b.hist[t][p] > 0, p # bs[t]
        PROVE  \E o \in Objects : h[o] = t /\ b.blpr[o] = p
    <2>1. b.hist[t][p] = 0 + Cardinality(Lent(b, h, t, p))
      BY <1>3, <1>6
    <2>2. Cardinality(Lent(b, h, t, p)) # 0
      BY <1>2, <1>6, <2>1, SMT
    <2>3. Lent(b, h, t, p) # {}
      BY <2>2, FS_EmptySet
    <2>4. QED
      BY <2>3 DEF Lent
  <1>7. /\ Highest(b.hist[t]) \in Prios /\ b.hist[t][Highest(b.hist[t])] > 0
        /\ \A p \in Prios : b.hist[t][p] > 0 => Highest(b.hist[t]) <= p
    BY <1>1, <1>4, HighestFacts
  <1>8. \A p \in Prios : b.hist[t][p] >= 0
    BY <1>2, <1>3, SMT
  <1>9. QED
    BY <1>1, <1>4, <1>5, <1>6, <1>7, <1>8

\* A change of one object's priority or holder is entered with both holders.
Entered(b, h, c, g, o) ==
    /\ \A x \in Objects : x # o => h[x] = g[x] /\ b.blpr[x] = c.blpr[x]
    /\ \A t \in Threads, p \in Prios : c.hist[t][p] =
          (b.hist[t][p] - (IF h[o] = t /\ b.blpr[o] = p THEN 1 ELSE 0))
          + (IF g[o] = t /\ c.blpr[o] = p THEN 1 ELSE 0)

\* Such a change keeps the histories exact.
LEMMA HistoryChange ==
    ASSUME NEW b, NEW c, NEW h, NEW g, NEW bs, NEW o \in Objects,
           b \in IntBooks, c \in IntBooks, HistoryOf(b, h, bs),
           Entered(b, h, c, g, o)
    PROVE  HistoryOf(c, g, bs)
  <1> SUFFICES ASSUME NEW t \in Threads, NEW p \in Prios
               PROVE  c.hist[t][p] = (IF bs[t] = p THEN 1 ELSE 0)
                                     + Cardinality(Lent(c, g, t, p))
    BY DEF HistoryOf
  <1> DEFINE A == Lent(b, h, t, p)
             B == Lent(c, g, t, p)
  <1>1. \A x : x # o => (x \in A <=> x \in B)
    BY DEF Lent, Entered
  <1>2. (o \in A <=> h[o] = t /\ b.blpr[o] = p) /\ (o \in B <=> g[o] = t /\ c.blpr[o] = p)
    BY DEF Lent
  <1>3. IsFiniteSet(A)
    BY Finite, FS_Subset DEF Lent
  <1>4. b.hist[t][p] = (IF bs[t] = p THEN 1 ELSE 0) + Cardinality(A)
    BY DEF HistoryOf
  <1>5. c.hist[t][p] = (b.hist[t][p] - (IF o \in A THEN 1 ELSE 0))
                       + (IF o \in B THEN 1 ELSE 0)
    BY <1>2 DEF Entered
  <1> HIDE DEF A, B
  <1>6. /\ Cardinality(A) \in Nat
        /\ Cardinality(B) = (Cardinality(A) - (IF o \in A THEN 1 ELSE 0))
                             + (IF o \in B THEN 1 ELSE 0)
    BY <1>1, <1>3, OneApart
  <1>7. c.hist[t][p] = (IF bs[t] = p THEN 1 ELSE 0) + Cardinality(B)
    BY <1>4, <1>5, <1>6, SMT
  <1>8. QED
    BY <1>7 DEF B

\* A thread that waits for an object is not less urgent than the object.
LEMMA LeastMoved ==
    ASSUME NEW b \in IntBooks, NEW c \in IntBooks, NEW S \in SUBSET Threads,
           NEW t \in Threads,
           \A u \in Threads : u # t => c.prio[u] = b.prio[u]
    PROVE  /\ t \notin S => Least(c, S) = Least(b, S)
           /\ t \in S /\ c.prio[t] <= Least(b, S) => Least(c, S) = c.prio[t]
           /\ t \in S /\ c.prio[t] > Least(b, S) /\ b.prio[t] > Least(b, S)
                => Least(c, S) = Least(b, S)
  <1>1. /\ b.prio \in [Threads -> Prios] /\ c.prio \in [Threads -> Prios]
        /\ \A u \in Threads : b.prio[u] \in Nat /\ c.prio[u] \in Nat
                              /\ c.prio[u] \in Levels /\ b.prio[u] < Idle
    BY Finite, PriorityAssumption DEF IntBooks, Books
  <1>2. /\ Least(b, S) \in Levels /\ Least(b, S) \in Nat
        /\ \A u \in S : Least(b, S) <= b.prio[u]
        /\ Least(b, S) = Idle \/ \E u \in S : b.prio[u] = Least(b, S)
    BY LeastFacts, Finite
  <1> DEFINE m == Least(b, S)
  <1> HIDE DEF m
  <1>3. ASSUME t \notin S PROVE Least(c, S) = m
    <2>1. \A u \in S : m <= c.prio[u]
      BY <1>2, <1>3 DEF m
    <2>2. m = Idle \/ \E u \in S : c.prio[u] = m
      BY <1>2, <1>3 DEF m
    <2>3. QED
      BY <1>2, <2>1, <2>2, LeastIs DEF m
  <1>4. ASSUME t \in S, c.prio[t] <= m PROVE Least(c, S) = c.prio[t]
    <2>1. ASSUME NEW u \in S PROVE c.prio[t] <= c.prio[u]
      <3>1. CASE u = t
        BY <1>1, <3>1, SMT
      <3>2. CASE u # t
        <4>1. c.prio[u] = b.prio[u] /\ m <= b.prio[u] /\ m \in Nat
          BY <1>2, <3>2 DEF m
        <4>2. c.prio[t] \in Nat /\ c.prio[u] \in Nat
          BY <1>1
        <4>3. QED
          BY <1>4, <4>1, <4>2, SMT
      <3>3. QED
        BY <3>1, <3>2
    <2>2. QED
      BY <1>1, <1>4, <2>1, LeastIs
  <1>5. ASSUME t \in S, c.prio[t] > m, b.prio[t] > m PROVE Least(c, S) = m
    <2>1. ASSUME NEW u \in S PROVE m <= c.prio[u]
      <3>1. CASE u = t
        BY <1>1, <1>2, <1>5, <3>1, SMT DEF m
      <3>2. CASE u # t
        BY <1>2, <3>2 DEF m
      <3>3. QED
        BY <3>1, <3>2
    <2>2. m = Idle \/ \E u \in S : c.prio[u] = m
      <3>1. m \in Nat /\ b.prio[t] \in Nat /\ b.prio[t] # m
        <4>1. m \in Nat /\ b.prio[t] \in Nat
          BY <1>1, <1>2 DEF m
        <4>2. QED
          BY <1>5, <4>1, SMT
      <3>2. QED
        BY <1>2, <3>1 DEF m
    <2>3. m \in Levels
      BY <1>2 DEF m
    <2>4. QED
      BY <2>1, <2>2, <2>3, LeastIs
  <1>6. QED
    BY <1>3, <1>4, <1>5 DEF m

-------------------------------------------------------------------------------
(* A walk down a chain of waits, on behalf of thread x and from object o0. *)

\* Who waits for what (W), who is runnable (R): as in the state, save for x,
\* whose wait begins or ends, and for the queue of o0; and no circle of waits.
Chain(W, R, x, o0, rank) ==
    /\ W \in [Objects -> SUBSET Threads] /\ R \in SUBSET Threads
    /\ rank \in [Threads -> Nat] /\ x \in Threads /\ o0 \in Objects
    /\ blocker \in [Threads -> Objects \cup {NoObject}]
    /\ holder[o0] \in Threads /\ rank[x] < rank[holder[o0]]
    /\ \A v \in Threads : v # x =>
         /\ \A o \in Objects : v \in W[o] <=> blocker[v] = o
         /\ v \in R <=> state[v] = "running"
    /\ \A v \in Threads, o \in Objects :
         v \in W[o] => holder[o] \in Threads /\ rank[v] < rank[holder[o]]
    /\ \A o \in Objects : o # o0 => W[o] = ToSet(queue[o])

\* Between two rounds the books are exact but for the priority of the object
\* whose turn it is, and that one is known; after the last they are exact.
Between(r, W, R, bs, rank, o0) ==
    /\ r \in [books : IntBooks, object : Objects, new : Levels, more : BOOLEAN]
    /\ holder[r.object] \in Threads /\ rank[holder[o0]] <= rank[holder[r.object]]
    /\ HistoryOf(r.books, holder, bs) /\ PriorityOf(r.books) /\ RunQueueOf(r.books, R)
    /\ ~r.books.carried =>
         IF r.more THEN /\ ObjectsOf(r.books, W, {r.object})
                        /\ r.new = Least(r.books, W[r.object])
                   ELSE ObjectsOf(r.books, W, {})

\* The priority the next object gets is that of its most urgent waiter.
LEMMA OnwardFacts ==
    ASSUME NEW b \in IntBooks, NEW c \in IntBooks, NEW o \in Objects, NEW t \in Threads,
           NEW carried \in Levels,
           \A u \in Threads : u # t => c.prio[u] = b.prio[u],
           c.blpr = b.blpr, ToSet(queue[o]) \in SUBSET Threads
    PROVE  LET new == Onward(c, o, b.prio[t], c.prio[t], carried)
           IN  /\ new \in Levels
               /\ /\ t \in ToSet(queue[o])
                  /\ b.blpr[o] = Least(b, ToSet(queue[o]))
                  => /\ ~Carries(c, o, b.prio[t], c.prio[t])
                          => new = Least(c, ToSet(queue[o]))
                     /\ Carries(c, o, b.prio[t], c.prio[t])
                          => b.blpr[o] = Least(c, ToSet(queue[o]))
  <1> DEFINE S == ToSet(queue[o])
             old == b.prio[t]
             pr == c.prio[t]
             new == Onward(c, o, old, pr, carried)
             m == b.blpr[o]
  <1>1. /\ old \in Nat /\ pr \in Nat /\ pr \in Levels /\ m \in Nat /\ m \in Levels
        /\ c.blpr[o] = m
    BY Finite DEF IntBooks, Books, Levels
  <1>2. new = IF pr <= m THEN pr
              ELSE IF old <= m THEN Least(c, S) ELSE carried
    BY <1>1 DEF Onward, QueuePriority, Least
  <1>3. Carries(c, o, old, pr) <=> pr > m /\ old > m
    BY <1>1 DEF Carries
  <1>4. Least(c, S) \in Levels
    BY LeastFacts
  <1>5. new \in Levels
    BY <1>1, <1>2, <1>4
  <1> HIDE DEF new
  <1>6. ASSUME t \in S, m = Least(b, S), ~Carries(c, o, old, pr)
        PROVE  new = Least(c, S)
    <2>1. CASE pr <= m
      <3>1. Least(c, S) = pr
        BY <1>6, <2>1, LeastMoved
      <3>2. QED
        BY <1>2, <2>1, <3>1
    <2>2. CASE ~(pr <= m)
      <3>1. old <= m
        BY <1>1, <1>3, <1>6, <2>2, SMT
      <3>2. QED
        BY <1>2, <2>2, <3>1
    <2>3. QED
      BY <2>1, <2>2
  <1>7. ASSUME t \in S, m = Least(b, S), Carries(c, o, old, pr)
        PROVE  m = Least(c, S)
    BY <1>3, <1>7, LeastMoved
  <1>8. QED
    BY <1>5, <1>6, <1>7 DEF new

\* One round.
LEMMA RoundKeeps ==
    ASSUME NEW W, NEW R, NEW x, NEW o0, NEW rank, NEW bs \in [Threads -> Prios],
           Chain(W, R, x, o0, rank), NEW r, Between(r, W, R, bs, rank, o0)
    PROVE  /\ Between(Round(r), W, R, bs, rank, o0)
           /\ Round(r).more =>
                /\ r.more
                /\ rank[holder[r.object]] < rank[holder[Round(r).object]]
           /\ r.books.carried => Round(r).books.carried
  <1> DEFINE b == r.books
             o == r.object
             t == holder[o]
             old == b.prio[t]
             lent == Lend(b, o, r.new)
             pr == Highest(lent.hist[t])
             moved == WithPriority(lent, t, pr)
             next == blocker[t]
             new == Onward(moved, next, old, pr, r.new)
             c1 == moved.carried \/ Carries(moved, next, old, pr)
             seen == [moved EXCEPT !.carried = c1]
             z == Round(r)
  <1>1. /\ b \in IntBooks /\ o \in Objects /\ t \in Threads /\ r.new \in Levels
        /\ r.more \in BOOLEAN
        /\ r = [books |-> b, object |-> o, new |-> r.new, more |-> r.more]
        /\ rank[holder[o0]] <= rank[t]
        /\ HistoryOf(b, holder, bs) /\ PriorityOf(b) /\ RunQueueOf(b, R)
    BY DEF Between
  <1>2. /\ W \in [Objects -> SUBSET Threads] /\ R \in SUBSET Threads
        /\ rank \in [Threads -> Nat] /\ x \in Threads /\ holder[o0] \in Threads
        /\ rank[x] < rank[holder[o0]] /\ next \in Objects \cup {NoObject}
    BY <1>1 DEF Chain
  <1>3. CASE ~r.more
    <2>1. z = r
      BY <1>3 DEF Round
    <2>2. QED
      BY <1>3, <2>1
  <1>4. CASE r.more
    <2>1. t # x
      <3>1. rank[x] \in Nat /\ rank[t] \in Nat /\ rank[holder[o0]] \in Nat
        BY <1>1, <1>2
      <3>2. rank[x] < rank[t]
        BY <1>1, <1>2, <3>1, SMT
      <3>3. QED
        BY <3>1, <3>2, SMT
    <2>2. /\ \A p \in Objects : t \in W[p] <=> next = p
          /\ t \in R <=> state[t] = "running"
          /\ t \notin W[o]
      <3>1. t \in W[o] => rank[t] < rank[t] /\ rank[t] \in Nat
        BY <1>1, <1>2 DEF Chain
      <3>2. t \notin W[o]
        BY <3>1, SMT
      <3>3. QED
        BY <1>1, <2>1, <3>2 DEF Chain
    <2>3. /\ lent \in IntBooks
          /\ lent.prio = b.prio /\ lent.rtr = b.rtr /\ lent.carried = b.carried
          /\ lent.blpr[o] = r.new
          /\ \A p \in Objects : p # o => lent.blpr[p] = b.blpr[p]
          /\ \A u \in Threads : u # t => lent.hist[u] = b.hist[u]
          /\ \A p \in Prios : lent.hist[t][p] = (b.hist[t][p]
               + (IF p = r.new THEN 1 ELSE 0)) - (IF p = b.blpr[o] THEN 1 ELSE 0)
      BY <1>1, LendFacts
    <2> HIDE DEF lent
    <2>4. HistoryOf(lent, holder, bs)
      <3>1. ASSUME NEW u \in Threads, NEW p \in Prios
            PROVE  lent.hist[u][p] =
              (b.hist[u][p] - (IF holder[o] = u /\ b.blpr[o] = p THEN 1 ELSE 0))
              + (IF holder[o] = u /\ lent.blpr[o] = p THEN 1 ELSE 0)
        <4>1. b.hist[u][p] \in Int
          BY <1>1 DEF IntBooks, Books
        <4>2. CASE u = t
          BY <2>3, <4>1, <4>2, SMT
        <4>3. CASE u # t
          BY <2>3, <4>1, <4>3, SMT
        <4>4. QED
          BY <4>2, <4>3
      <3>2. Entered(b, holder, lent, holder, o)
        BY <2>3, <3>1 DEF Entered
      <3>3. QED
        BY <1>1, <2>3, <3>2, HistoryChange
    <2>5. pr \in Prios
      BY <1>1, <2>3, <2>4, HistoryFacts
    <2>6. RunQueueOf(lent, R)
      BY <1>1, <2>3 DEF RunQueueOf, RunningAt
    <2>7. \A p \in Objects : Least(lent, W[p]) = Least(b, W[p])
      BY <2>3 DEF Least
    <2>8. \A u \in Threads : u # t => lent.prio[u] = Highest(lent.hist[u])
      BY <1>1, <2>3 DEF PriorityOf
    <2>9. ~b.carried => ObjectsOf(lent, W, {})
      <3>1. ASSUME ~b.carried, NEW p \in Objects PROVE lent.blpr[p] = Least(lent, W[p])
        <4>1. CASE p = o
          BY <1>4, <2>3, <2>7, <3>1, <4>1 DEF Between
        <4>2. CASE p # o
          BY <1>4, <2>3, <2>7, <3>1, <4>2 DEF Between, ObjectsOf
        <4>3. QED
          BY <4>1, <4>2
      <3>2. QED
        BY <3>1 DEF ObjectsOf
    <2> HIDE DEF pr
    <2>10. CASE pr = old
      <3>1. z = [r EXCEPT !.books = lent, !.more = FALSE]
        BY <1>4, <2>10 DEF Round, lent, pr
      <3> HIDE DEF z
      <3>2. z = [books |-> lent, object |-> o, new |-> r.new, more |-> FALSE]
        BY <1>1, <3>1, Zenon
      <3>3. /\ z.books = lent /\ z.object = o /\ z.new = r.new /\ ~z.more
            /\ z \in [books : IntBooks, object : Objects, new : Levels, more : BOOLEAN]
        BY <1>1, <2>3, <3>2
      <3>4. PriorityOf(lent)
        BY <2>3, <2>8, <2>10 DEF PriorityOf, pr
      <3>5. Between(z, W, R, bs, rank, o0)
        BY <1>1, <2>3, <2>4, <2>6, <2>9, <3>3, <3>4 DEF Between
      <3>6. b.carried => z.books.carried
        BY <2>3, <3>3
      <3>7. QED
        BY <3>3, <3>5, <3>6 DEF z
    <2>11. CASE pr # old
      <3>1. /\ moved \in IntBooks /\ RunQueueOf(moved, R)
            /\ moved.hist = lent.hist /\ moved.blpr = lent.blpr
            /\ moved.carried = lent.carried
            /\ moved.prio[t] = pr
            /\ \A u \in Threads : u # t => moved.prio[u] = lent.prio[u]
        BY <1>1, <1>2, <2>2, <2>3, <2>5, <2>6, MoveFacts, SMTT(30)
      <3> HIDE DEF moved
      <3>2. HistoryOf(moved, holder, bs)
        BY <2>4, <3>1 DEF HistoryOf, Lent
      <3>3. PriorityOf(moved)
        BY <2>8, <3>1 DEF PriorityOf, pr
      <3>4. ~b.carried => ObjectsOf(moved, W, {next})
        <4>1. ASSUME ~b.carried, NEW p \in Objects, p # next
              PROVE  moved.blpr[p] = Least(moved, W[p])
          <5>1. t \notin W[p] /\ W[p] \in SUBSET Threads
            BY <1>2, <2>2, <4>1
          <5>2. Least(moved, W[p]) = Least(lent, W[p])
            BY <1>1, <2>3, <3>1, <5>1, LeastMoved
          <5>3. QED
            BY <2>9, <3>1, <4>1, <5>2 DEF ObjectsOf
        <4>2. QED
          BY <4>1 DEF ObjectsOf
      <3>5. ASSUME next # NoObject
            PROVE  /\ next \in Objects /\ next # o /\ holder[next] \in Threads
                   /\ rank[t] < rank[holder[next]]
                   /\ rank[holder[o0]] <= rank[holder[next]]
                   /\ W[next] = ToSet(queue[next])
                   /\ new \in Levels
                   /\ ~b.carried /\ ~Carries(moved, next, old, pr)
                        => new = Least(moved, W[next])
                   /\ ~b.carried /\ Carries(moved, next, old, pr)
                        => moved.blpr[next] = Least(moved, W[next])
        <4>1. next \in Objects /\ t \in W[next]
          BY <1>2, <2>2, <3>5
        <4>2. holder[next] \in Threads /\ rank[t] < rank[holder[next]]
          BY <1>1, <4>1 DEF Chain
        <4>3. rank[t] \in Nat /\ rank[holder[next]] \in Nat /\ rank[holder[o0]] \in Nat
          BY <1>1, <1>2, <4>2
        <4>4. /\ rank[holder[o0]] <= rank[holder[next]]
              /\ rank[holder[o0]] # rank[holder[next]]
              /\ rank[t] # rank[holder[next]]
          BY <1>1, <4>2, <4>3, SMT
        <4>5. next # o0 /\ next # o
          BY <4>4
        <4>6. W[next] = ToSet(queue[next])
          BY <4>1, <4>5 DEF Chain
        <4>7. ToSet(queue[next]) \in SUBSET Threads
          BY <1>2, <4>1, <4>6
        <4> DEFINE old2 == lent.prio[t]
                   pr2 == moved.prio[t]
                   new2 == Onward(moved, next, old2, pr2, r.new)
                   carries2 == Carries(moved, next, old2, pr2)
        <4>8. /\ new2 \in Levels
              /\ /\ t \in ToSet(queue[next])
                 /\ lent.blpr[next] = Least(lent, ToSet(queue[next]))
                 => /\ ~carries2 => new2 = Least(moved, ToSet(queue[next]))
                    /\ carries2 => lent.blpr[next] = Least(moved, ToSet(queue[next]))
          BY <1>1, <2>3, <3>1, <4>1, <4>7, OnwardFacts, ZenonT(30)
        <4>9. old2 = old /\ pr2 = pr
          BY <2>3, <3>1
        <4> HIDE DEF old2, pr2
        <4>10. new2 = new /\ carries2 = Carries(moved, next, old, pr)
          BY <4>9, SMTT(30)
        <4> HIDE DEF new2, carries2
        <4>11. /\ new \in Levels
               /\ /\ t \in ToSet(queue[next])
                  /\ lent.blpr[next] = Least(lent, ToSet(queue[next]))
                  => /\ ~Carries(moved, next, old, pr)
                           => new = Least(moved, ToSet(queue[next]))
                     /\ Carries(moved, next, old, pr)
                           => lent.blpr[next] = Least(moved, ToSet(queue[next]))
          BY <4>8, <4>10
        <4> HIDE DEF new
        <4>12. ~b.carried => lent.blpr[next] = Least(lent, ToSet(queue[next]))
          BY <2>9, <4>1, <4>6 DEF ObjectsOf
        <4>13. ASSUME ~b.carried, ~Carries(moved, next, old, pr)
               PROVE  new = Least(moved, W[next])
          BY <2>2, <4>1, <4>6, <4>11, <4>12, <4>13
        <4>14. ASSUME ~b.carried, Carries(moved, next, old, pr)
               PROVE  moved.blpr[next] = Least(moved, W[next])
          BY <2>2, <3>1, <4>1, <4>6, <4>11, <4>12, <4>14
        <4>15. new \in Levels
          BY <4>11, SMTT(30)
        <4>16. QED
          BY <4>1, <4>2, <4>4, <4>5, <4>6, <4>13, <4>14, <4>15
      <3> HIDE DEF new
      <3>6. CASE next = NoObject \/ new = moved.blpr[next]
        <4>1. z = [r EXCEPT !.books = moved, !.more = FALSE]
          BY <1>4, <2>11, <3>6 DEF Round, lent, pr, moved, new
        <4> HIDE DEF z
        <4>2. z = [books |-> moved, object |-> o, new |-> r.new, more |-> FALSE]
          BY <1>1, <4>1, Zenon
        <4>3. /\ z.books = moved /\ z.object = o /\ z.new = r.new /\ ~z.more
              /\ z \in [books : IntBooks, object : Objects, new : Levels, more : BOOLEAN]
          BY <1>1, <3>1, <4>2
        <4>4. ASSUME ~b.carried PROVE ObjectsOf(moved, W, {})
          <5>1. ASSUME NEW p \in Objects PROVE moved.blpr[p] = Least(moved, W[p])
            <6>1. CASE p # next
              BY <3>4, <4>4, <6>1 DEF ObjectsOf
            <6>2. CASE p = next
              <7>1. next # NoObject
                BY <6>2, Finite
              <7>2. QED
                BY <3>5, <3>6, <4>4, <6>2, <7>1
            <6>3. QED
              BY <6>1, <6>2
          <5>2. QED
            BY <5>1 DEF ObjectsOf
        <4>5. Between(z, W, R, bs, rank, o0)
          BY <1>1, <2>3, <3>1, <3>2, <3>3, <4>3, <4>4 DEF Between
        <4>6. b.carried => z.books.carried
          BY <2>3, <3>1, <4>3
        <4>7. QED
          BY <4>3, <4>5, <4>6 DEF z
      <3>7. CASE ~(next = NoObject \/ new = moved.blpr[next])
        <4>1. z = [books |-> seen, object |-> next, new |-> new, more |-> TRUE]
          BY <1>4, <2>11, <3>7 DEF Round, lent, pr, moved, new
        <4> HIDE DEF z
        <4>2. c1 \in BOOLEAN
          BY DEF Carries
        <4> HIDE DEF c1
        <4>3. /\ seen \in IntBooks /\ seen.carried = c1 /\ seen.prio = moved.prio
              /\ seen.hist = moved.hist /\ seen.blpr = moved.blpr /\ seen.rtr = moved.rtr
          BY <3>1, <4>2 DEF IntBooks, Books
        <4> HIDE DEF seen
        <4>4. /\ z.books = seen /\ z.object = next /\ z.new = new /\ z.more
              /\ z \in [books : IntBooks, object : Objects, new : Levels, more : BOOLEAN]
          BY <3>5, <3>7, <4>1, <4>3
        <4>5. /\ HistoryOf(seen, holder, bs) /\ PriorityOf(seen) /\ RunQueueOf(seen, R)
          BY <3>1, <3>2, <3>3, <4>3
             DEF HistoryOf, PriorityOf, RunQueueOf, RunningAt, Lent
        <4>6. ASSUME ~seen.carried
              PROVE  ObjectsOf(seen, W, {next}) /\ new = Least(seen, W[next])
          <5>1. ~b.carried /\ ~Carries(moved, next, old, pr)
            BY <2>3, <3>1, <4>3, <4>6 DEF c1
          <5>2. Least(seen, W[next]) = Least(moved, W[next])
            BY <4>3 DEF Least
          <5>3. ObjectsOf(seen, W, {next})
            BY <3>4, <4>3, <5>1 DEF ObjectsOf, Least
          <5>4. QED
            BY <3>5, <3>7, <5>1, <5>2, <5>3
        <4>7. b.carried => seen.carried
          BY <2>3, <3>1, <4>3 DEF c1
        <4>8. /\ holder[z.object] \in Threads
              /\ rank[holder[o0]] <= rank[holder[z.object]]
              /\ rank[t] < rank[holder[z.object]]
          BY <3>5, <3>7, <4>4
        <4>9. Between(z, W, R, bs, rank, o0)
          BY <4>4, <4>5, <4>6, <4>8 DEF Between
        <4>10. QED
          BY <1>4, <4>4, <4>7, <4>8, <4>9 DEF z
      <3>8. QED
        BY <3>6, <3>7
    <2>12. QED
      BY <2>10, <2>11
  <1>5. QED
    BY <1>1, <1>3, <1>4

\* The objects whose holders come before that of o.
Before(o, rank) ==
    {p \in Objects : holder[p] \in Threads /\ rank[holder[p]] < rank[holder[o]]}

\* The walk ends, and when it has ended the books are exact.
LEMMA InheritFacts ==
    ASSUME NEW W, NEW R, NEW x, NEW o0, NEW rank, NEW bs \in [Threads -> Prios],
           Chain(W, R, x, o0, rank), NEW b \in IntBooks, NEW new \in Levels,
           HistoryOf(b, holder, bs), PriorityOf(b), RunQueueOf(b, R),
           ObjectsOf(b, W, {o0}), new = Least(b, W[o0])
    PROVE  LET c == Inherit(b, o0, new)
           IN  /\ c \in IntBooks
               /\ HistoryOf(c, holder, bs) /\ PriorityOf(c) /\ RunQueueOf(c, R)
               /\ ~c.carried => ObjectsOf(c, W, {})
  <1> DEFINE first == [books |-> b, object |-> o0, new |-> new, more |-> TRUE]
             f == Rounds(first)
             S == {n \in Nat :
                     /\ Between(f[n], W, R, bs, rank, o0)
                     /\ f[n].more => n <= Cardinality(Before(f[n].object, rank))}
             N == Cardinality(Objects)
  <1>1. /\ f[0] = first /\ \A n \in Nat : f[n + 1] = Round(f[n])
    BY RoundsDefined
  <1>2. /\ o0 \in Objects /\ holder[o0] \in Threads /\ rank \in [Threads -> Nat]
    BY DEF Chain
  <1>3. \A o \in Objects : /\ IsFiniteSet(Before(o, rank))
                           /\ Cardinality(Before(o, rank)) \in Nat
    BY Finite, FS_Subset, FS_CardinalityType DEF Before
  <1> HIDE DEF f
  <1>4. 0 \in S
    <2>1. Between(first, W, R, bs, rank, o0)
      <3>1. /\ first.books = b /\ first.object = o0 /\ first.new = new /\ first.more
            /\ first \in [books : IntBooks, object : Objects, new : Levels, more : BOOLEAN]
        BY <1>2
      <3> HIDE DEF first
      <3>2. rank[holder[o0]] <= rank[holder[o0]]
        BY <1>2, SMT
      <3>3. QED
        BY <1>2, <3>1, <3>2 DEF Between
    <2>2. 0 <= Cardinality(Before(o0, rank))
      BY <1>2, <1>3, SMT
    <2>3. QED
      BY <1>1, <2>1, <2>2
  <1>5. ASSUME NEW n \in Nat, n \in S PROVE n + 1 \in S
    <2> DEFINE r == f[n]
               z == f[n + 1]
               A == Before(r.object, rank)
               B == Before(z.object, rank)
    <2>1. Between(r, W, R, bs, rank, o0) /\ z = Round(r)
      BY <1>1, <1>5
    <2>2. /\ Between(z, W, R, bs, rank, o0)
          /\ z.more => r.more /\ rank[holder[r.object]] < rank[holder[z.object]]
      BY <2>1, RoundKeeps
    <2> HIDE DEF z
    <2>3. ASSUME z.more PROVE n + 1 <= Cardinality(B)
      <3>1. /\ r.object \in Objects /\ z.object \in Objects
            /\ holder[r.object] \in Threads /\ holder[z.object] \in Threads
        BY <2>1, <2>2 DEF Between
      <3>2. rank[holder[r.object]] \in Nat /\ rank[holder[z.object]] \in Nat
        BY <1>2, <3>1
      <3>3. r.object \in B /\ r.object \notin A
        BY <2>2, <2>3, <3>1, <3>2, SMT DEF Before
      <3>4. ASSUME NEW p \in A PROVE p \in B
        <4>1. /\ p \in Objects /\ holder[p] \in Threads
              /\ rank[holder[p]] < rank[holder[r.object]]
          BY DEF Before
        <4>2. rank[holder[p]] \in Nat
          BY <1>2, <4>1
        <4>3. rank[holder[p]] < rank[holder[z.object]]
          BY <2>2, <2>3, <3>2, <4>1, <4>2, SMT
        <4>4. QED
          BY <4>1, <4>3 DEF Before
      <3>5. A \cup {r.object} \subseteq B
        BY <3>3, <3>4
      <3> HIDE DEF A, B
      <3>6. /\ IsFiniteSet(A) /\ IsFiniteSet(B)
            /\ Cardinality(A) \in Nat /\ Cardinality(B) \in Nat
        BY <1>3, <3>1 DEF A, B
      <3>7. /\ IsFiniteSet(A \cup {r.object})
            /\ Cardinality(A \cup {r.object}) = Cardinality(A) + 1
        BY <3>3, <3>6, FS_AddElement
      <3>8. Cardinality(A \cup {r.object}) <= Cardinality(B)
        BY <3>5, <3>6, FS_Subset
      <3>9. n <= Cardinality(A)
        BY <1>5, <2>2, <2>3 DEF A
      <3>10. QED
        BY <3>6, <3>7, <3>8, <3>9, SMT
    <2>4. n + 1 \in Nat
      BY SMT
    <2>5. QED
      BY <2>2, <2>3, <2>4 DEF z
  <1> HIDE DEF S
  <1>6. N \in S
    BY <1>4, <1>5, CountingUp, Finite
  <1>7. ~f[N].more
    <2> SUFFICES ASSUME f[N].more PROVE FALSE
      OBVIOUS
    <2> DEFINE o == f[N].object
               B == Before(o, rank)
    <2>1. o \in Objects /\ holder[o] \in Threads
      BY <1>6 DEF S, Between
    <2>2. N <= Cardinality(B)
      BY <1>6 DEF S
    <2>3. o \notin B
      <3>1. rank[holder[o]] \in Nat
        BY <1>2, <2>1
      <3>2. QED
        BY <3>1, SMT DEF Before
    <2>4. B \subseteq Objects \ {o}
      BY <2>3 DEF Before
    <2> HIDE DEF B
    <2>5. /\ IsFiniteSet(Objects \ {o})
          /\ Cardinality(Objects \ {o}) = N - 1
      BY <2>1, Finite, FS_RemoveElement, SMTT(30)
    <2>6. Cardinality(B) <= N - 1 /\ Cardinality(B) \in Nat
      BY <1>3, <2>1, <2>4, <2>5, FS_Subset DEF B
    <2>7. N \in Nat
      BY Finite
    <2>8. QED
      BY <2>2, <2>6, <2>7, SMT
  <1> DEFINE c == f[N].books
  <1>8. c = Inherit(b, o0, new)
    BY DEF Inherit, f
  <1>9. Between(f[N], W, R, bs, rank, o0)
    BY <1>6 DEF S
  <1>10. /\ c \in IntBooks
         /\ HistoryOf(c, holder, bs) /\ PriorityOf(c) /\ RunQueueOf(c, R)
         /\ ~c.carried => ObjectsOf(c, W, {})
    BY <1>7, <1>9 DEF Between
  <1>11. QED
    BY <1>8, <1>10

-------------------------------------------------------------------------------
(* The invariant, taken apart and put together. *)

\* Who waits for what, and who is runnable.
Waiters == [o \in Objects |-> ToSet(queue[o])]
Running == {t \in Threads : state[t] = "running"}

\* The types but for the books.
ControlOK ==
    /\ state \in [Threads -> {"running", "sleeping", "blocked"}]
    /\ base \in [Threads -> Prios]
    /\ blocker \in [Threads -> Objects \cup {NoObject}]
    /\ holder \in [Objects -> Threads \cup {NoThread}]
    /\ queue \in [Objects -> Seq(Threads)]
    /\ recursion \in [Mutexes -> 0..MaxRecursion]

\* The books are exact, with as much slack in their types as their changes need.
Exact ==
    /\ books \in IntBooks
    /\ HistoryOf(books, holder, base) /\ PriorityOf(books)
    /\ RunQueueOf(books, Running) /\ ObjectsOf(books, Waiters, {})

\* Who waits for an object are threads.
LEMMA WaitersAreThreads ==
    ASSUME ControlOK
    PROVE  /\ Waiters \in [Objects -> SUBSET Threads] /\ Running \in SUBSET Threads
           /\ \A o \in Objects : /\ queue[o] \in Seq(Threads)
                                 /\ ToSet(queue[o]) \in SUBSET Threads
                                 /\ Waiters[o] = ToSet(queue[o])
  <1>1. \A o \in Objects : queue[o] \in Seq(Threads)
    BY DEF ControlOK
  <1>2. \A o \in Objects : ToSet(queue[o]) \in SUBSET Threads
    <2>1. ASSUME NEW o \in Objects, NEW x \in ToSet(queue[o]) PROVE x \in Threads
      <3>1. PICK i \in 1..Len(queue[o]) : queue[o][i] = x
        BY <1>1, <2>1, NoRepetition
      <3>2. QED
        BY <1>1, <3>1, ElementOfSeq
    <2>2. QED
      BY <2>1
  <1>3. QED
    BY <1>1, <1>2 DEF Waiters, Running

\* The invariant in the terms of these proofs.
LEMMA TakenApart ==
    ASSUME IInv
    PROVE  ControlOK /\ Exact /\ WaitsSound /\ Ranked /\ ~books.carried
  <1>1. ControlOK /\ books \in IntBooks
    <2>1. 0..(Cardinality(Objects) + Cardinality(Threads)) \subseteq Int
      BY SMT
    <2>2. QED
      BY <2>1 DEF IInv, TypeOK, ControlOK, IntBooks, Books
  <1>2. HistoryOf(books, holder, base)
    BY DEF IInv, BooksExact, HistoryExact, HistoryOf, Lent
  <1>3. PriorityOf(books)
    BY DEF IInv, PriorityOfHistory, PriorityOf
  <1>4. RunQueueOf(books, Running)
    <2>1. \A p \in Prios : RunningAt(books, Running, p) =
              {t \in Threads : state[t] = "running" /\ books.prio[t] = p}
      BY DEF RunningAt, Running
    <2>2. QED
      BY <2>1 DEF IInv, BooksExact, RunQueueExact, RunQueueOf
  <1>5. ObjectsOf(books, Waiters, {})
    BY <1>1, WaitersAreThreads
       DEF IInv, BooksExact, ObjectPriorityExact, QueuePriority, ObjectsOf, Least
  <1>6. QED
    BY <1>1, <1>2, <1>3, <1>4, <1>5 DEF IInv, Exact

\* Books that are exact count no more than there is to count.
LEMMA CountsBounded ==
    ASSUME ControlOK, Exact
    PROVE  books \in Books(0..(Cardinality(Objects) + Cardinality(Threads)))
  <1> DEFINE N == Cardinality(Objects) + Cardinality(Threads)
  <1>1. Cardinality(Objects) \in Nat /\ Cardinality(Threads) \in Nat
        /\ IsFiniteSet(Objects) /\ IsFiniteSet(Threads)
    BY Finite
  <1>2. ASSUME NEW t \in Threads, NEW p \in Prios PROVE books.hist[t][p] \in 0..N
    <2> DEFINE L == Lent(books, holder, t, p)
    <2>1. L \subseteq Objects
      BY DEF Lent
    <2>2. books.hist[t][p] = (IF base[t] = p THEN 1 ELSE 0) + Cardinality(L)
      BY DEF Exact, HistoryOf
    <2> HIDE DEF L
    <2>3. Cardinality(L) \in Nat /\ Cardinality(L) <= Cardinality(Objects)
      BY <1>1, <2>1, FS_Subset, FS_CardinalityType
    <2>4. Cardinality(Threads) # 0
      BY <1>1, FS_EmptySet
    <2>5. QED
      BY <1>1, <2>2, <2>3, <2>4, SMT
  <1>3. ASSUME NEW p \in Prios PROVE books.rtr[p] \in 0..N
    <2> DEFINE A == RunningAt(books, Running, p)
    <2>1. A \subseteq Threads
      BY DEF RunningAt, Running
    <2>2. books.rtr[p] = Cardinality(A)
      BY DEF Exact, RunQueueOf
    <2> HIDE DEF A
    <2>3. Cardinality(A) \in Nat /\ Cardinality(A) <= Cardinality(Threads)
      BY <1>1, <2>1, FS_Subset, FS_CardinalityType
    <2>4. QED
      BY <1>1, <2>2, <2>3, SMT
  <1> HIDE DEF N
  <1>4. books \in IntBooks
    BY DEF Exact
  <1>5. books.hist \in [Threads -> [Prios -> 0..N]]
    <2>1. books.hist \in [Threads -> [Prios -> Int]]
      BY <1>4 DEF IntBooks, Books
    <2>2. ASSUME NEW t \in Threads PROVE books.hist[t] \in [Prios -> 0..N]
      BY <1>2, <2>1
    <2>3. QED
      BY <2>1, <2>2
  <1>6. books.rtr \in [Prios -> 0..N]
    BY <1>3, <1>4 DEF IntBooks, Books
  <1>7. books \in Books(0..N)
    BY <1>4, <1>5, <1>6 DEF IntBooks, Books
  <1>8. QED
    BY <1>7 DEF N

\* The terms of these proofs give the invariant.
LEMMA PutTogether ==
    ControlOK /\ Exact /\ WaitsSound /\ Ranked /\ ~books.carried => IInv
  <1> SUFFICES ASSUME ControlOK, Exact, WaitsSound, Ranked, ~books.carried
               PROVE  IInv
    OBVIOUS
  <1>1. TypeOK
    BY CountsBounded DEF ControlOK, TypeOK
  <1>2. HistoryExact
    BY DEF Exact, HistoryOf, HistoryExact, Lent
  <1>3. ObjectPriorityExact
    <2>1. ASSUME NEW o \in Objects
          PROVE  books.blpr[o] = QueuePriority(books, queue[o])
      <3>1. books.blpr[o] = Least(books, ToSet(queue[o]))
        BY WaitersAreThreads DEF Exact, ObjectsOf
      <3>2. QED
        BY <3>1 DEF Least, QueuePriority
    <2>2. QED
      BY <2>1 DEF ObjectPriorityExact
  <1>4. RunQueueExact
    <2>1. \A p \in Prios : RunningAt(books, Running, p) =
              {t \in Threads : state[t] = "running" /\ books.prio[t] = p}
      BY DEF RunningAt, Running
    <2>2. QED
      BY <2>1 DEF Exact, RunQueueExact, RunQueueOf
  <1>5. PriorityOfHistory
    BY DEF Exact, PriorityOf, PriorityOfHistory
  <1>6. QED
    BY <1>1, <1>2, <1>3, <1>4, <1>5 DEF IInv, BooksExact

\* Where a call leaves all waits but t's own as they were, the walk that it
\* starts at o finds the chain in the state.
LEMMA ChainOf ==
    ASSUME ControlOK, ControlOK', WaitsSound',
           NEW rank \in [Threads -> Nat], Ranks(rank)',
           NEW t \in Threads, NEW o \in Objects, holder' = holder,
           holder[o] \in Threads, rank[t] < rank[holder[o]],
           \A v \in Threads : v # t => blocker'[v] = blocker[v] /\ state'[v] = state[v],
           \A p \in Objects : p # o => queue'[p] = queue[p]
    PROVE  Chain(Waiters', Running', t, o, rank)
  <1>1. /\ Waiters' \in [Objects -> SUBSET Threads] /\ Running' \in SUBSET Threads
        /\ \A p \in Objects : Waiters'[p] = ToSet(queue'[p])
    <2>1. ASSUME NEW p \in Objects PROVE ToSet(queue'[p]) \in SUBSET Threads
      <3>1. queue'[p] \in Seq(Threads)
        BY DEF ControlOK
      <3>2. ASSUME NEW x \in ToSet(queue'[p]) PROVE x \in Threads
        <4>1. PICK i \in 1..Len(queue'[p]) : queue'[p][i] = x
          BY <3>1, <3>2, NoRepetition, SMTT(30)
        <4>2. QED
          BY <3>1, <4>1, ElementOfSeq
      <3>3. QED
        BY <3>2
    <2>2. QED
      BY <2>1 DEF Waiters, Running
  <1>2. \A v \in Threads, p \in Objects : v \in Waiters'[p] <=> blocker'[v] = p
    BY <1>1 DEF WaitsSound
  <1>3. ASSUME NEW v \in Threads, NEW p \in Objects, v \in Waiters'[p]
        PROVE  holder[p] \in Threads /\ rank[v] < rank[holder[p]]
    <2>1. blocker'[v] = p /\ p # NoObject
      BY <1>2, <1>3, Finite
    <2>2. rank[v] < rank[holder[p]]
      BY <2>1 DEF Ranks
    <2>3. v \in ToSet(queue'[p]) /\ queue'[p] \in Seq(Threads)
      BY <1>1, <1>3 DEF ControlOK
    <2>4. queue'[p] # << >>
      BY <2>3, EmptyList
    <2>5. holder'[p] \in Threads
      BY <2>4 DEF WaitsSound
    <2>6. QED
      BY <2>2, <2>5
  <1>4. \A v \in Threads : v # t =>
           /\ \A p \in Objects : v \in Waiters'[p] <=> blocker[v] = p
           /\ v \in Running' <=> state[v] = "running"
    BY <1>2 DEF Running
  <1>5. \A p \in Objects : p # o => Waiters'[p] = ToSet(queue[p])
    BY <1>1
  <1>6. blocker \in [Threads -> Objects \cup {NoObject}]
    BY DEF ControlOK
  <1>7. QED
    BY <1>1, <1>3, <1>4, <1>5, <1>6 DEF Chain

-------------------------------------------------------------------------------
(* Every call keeps the invariant. *)

\* Nobody waits at first, and nobody is lent anything.
LEMMA InitEstablishes == Init => IInv
  <1> SUFFICES ASSUME Init PROVE IInv
    OBVIOUS
  <1> DEFINE b == books
  <1>1. /\ state = [t \in Threads |-> "running"] /\ base \in [Threads -> Prios]
        /\ blocker = [t \in Threads |-> NoObject]
        /\ holder \in [Objects -> Threads \cup {NoThread}]
        /\ \A o \in Objects : o \in Queues => holder[o] \in Threads
        /\ queue = [o \in Objects |-> << >>]
        /\ recursion = [m \in Mutexes |-> 0]
    BY DEF Init
  <1>2. /\ b.prio = base /\ ~b.carried
        /\ b.hist = [t \in Threads |-> [NoEntries EXCEPT ![base[t]] = 1]]
        /\ b.blpr = [o \in Objects |-> Idle]
        /\ b.rtr = [p \in Prios |-> Cardinality({t \in Threads : base[t] = p})]
        /\ b = [prio |-> b.prio, hist |-> b.hist, blpr |-> b.blpr, rtr |-> b.rtr,
                carried |-> b.carried]
        /\ b.carried \in BOOLEAN
    BY DEF Init
  <1> HIDE DEF b
  <1>3. << >> \in Seq(Threads) /\ IsInjective(<< >>) /\ \A x : x \notin ToSet(<< >>)
    BY EmptyList
  <1>4. ControlOK
    <2>1. 0 \in 0..MaxRecursion
      BY PriorityAssumption, SMT
    <2>2. QED
      BY <1>1, <1>3, <2>1 DEF ControlOK
  <1>5. WaitsSound
    BY <1>1, <1>3, Finite DEF WaitsSound
  <1>6. Ranked
    <2> DEFINE rank == [t \in Threads |-> 0]
    <2>1. rank \in [Threads -> 0..0] /\ 0 \in Nat
      BY SMT
    <2>2. Ranks(rank)
      BY <1>1 DEF Ranks
    <2>3. QED
      BY <2>1, <2>2 DEF Ranked
  <1>7. \A t \in Threads, p \in Prios :
           b.hist[t][p] = IF base[t] = p THEN 1 ELSE 0
    BY <1>1, <1>2 DEF NoEntries
  <1>8. b \in IntBooks
    <2>1. b.hist \in [Threads -> [Prios -> Int]]
      BY <1>1, <1>2 DEF NoEntries
    <2>2. ASSUME NEW p \in Prios PROVE b.rtr[p] \in Int
      <3>1. IsFiniteSet({t \in Threads : base[t] = p})
        BY Finite, FS_Subset
      <3>2. Cardinality({t \in Threads : base[t] = p}) \in Nat
        BY <3>1, FS_CardinalityType
      <3>3. QED
        BY <1>2, <3>2, SMT
    <2>3. b.rtr \in [Prios -> Int]
      BY <1>2, <2>2
    <2>4. b.blpr \in [Objects -> Prios \cup {Idle}] /\ b.prio \in [Threads -> Prios]
      BY <1>1, <1>2
    <2>5. QED
      BY <1>2, <2>1, <2>3, <2>4 DEF IntBooks, Books
  <1>9. HistoryOf(b, holder, base)
    <2>1. ASSUME NEW t \in Threads, NEW p \in Prios
          PROVE  Cardinality(Lent(b, holder, t, p)) = 0
      <3>1. Lent(b, holder, t, p) = {}
        BY <1>2, Finite DEF Lent
      <3>2. QED
        BY <3>1, FS_EmptySet
    <2>2. QED
      BY <1>7, <2>1, SMT DEF HistoryOf
  <1>10. PriorityOf(b)
    <2>1. ASSUME NEW t \in Threads PROVE b.prio[t] = Highest(b.hist[t])
      <3> DEFINE h == b.hist[t]
                 q == base[t]
      <3>1. h \in [Prios -> Int] /\ q \in Prios
        BY <1>1, <1>8 DEF IntBooks, Books
      <3>2. h[q] > 0 /\ \A p \in Prios : h[p] > 0 => q <= p
        BY <1>7, <3>1, PriorityAssumption, SMT
      <3> HIDE DEF h
      <3>3. Highest(h) = q
        BY <3>1, <3>2, HighestIs
      <3>4. QED
        BY <1>2, <3>3 DEF h
    <2>2. QED
      BY <2>1 DEF PriorityOf
  <1>11. RunQueueOf(b, Running)
    <2>1. \A p \in Prios : RunningAt(b, Running, p) = {t \in Threads : base[t] = p}
      BY <1>1, <1>2 DEF RunningAt, Running
    <2>2. QED
      BY <1>2, <2>1 DEF RunQueueOf
  <1>12. ObjectsOf(b, Waiters, {})
    <2>1. ASSUME NEW o \in Objects PROVE b.blpr[o] = Least(b, Waiters[o])
      <3>1. Waiters[o] = {}
        BY <1>1, <1>3 DEF Waiters
      <3>2. Least(b, {}) = Idle
        BY <1>8, LeastFacts
      <3>3. QED
        BY <1>2, <3>1, <3>2
    <2>2. QED
      BY <2>1 DEF ObjectsOf
  <1>13. QED
    BY <1>2, <1>4, <1>5, <1>6, <1>8, <1>9, <1>10, <1>11, <1>12, PutTogether
       DEF Exact, b

\* A thread that does not hold up the holder of o may wait for it.
LEMMA BlockRanked ==
    ASSUME IInv, NEW t \in Threads, NEW o \in Objects, holder[o] \in Threads,
           ~WaitsOn(holder[o], t), holder' = holder,
           blocker' = [blocker EXCEPT ![t] = o]
    PROVE  \E N \in Nat : \E rank \in [Threads -> 0..N] :
               Ranks(rank)' /\ rank[t] < rank[holder[o]]
  <1>1. ControlOK /\ WaitsSound
    BY TakenApart
  <1>2. PICK N \in Nat : \E r \in [Threads -> 0..N] : Ranks(r)
    BY TakenApart DEF Ranked
  <1>3. PICK r \in [Threads -> 0..N] : Ranks(r)
    BY <1>2
  <1>4. PICK S \in SUBSET Threads :
          /\ holder[o] \in S /\ t \notin S
          /\ \A v \in S : blocker[v] # NoObject => holder[blocker[v]] \in S
    BY DEF WaitsOn
  <1> DEFINE M == (N + N) + 1
             rank == [v \in Threads |-> IF v \in S THEN (r[v] + N) + 1 ELSE r[v]]
  <1>5. \A v \in Threads : r[v] \in Nat /\ r[v] <= N
    BY <1>3, SMT
  <1>6. M \in Nat /\ rank \in [Threads -> 0..M]
    BY <1>5, SMT
  <1>7. \A v \in Threads : rank[v] = IF v \in S THEN (r[v] + N) + 1 ELSE r[v]
    OBVIOUS
  <1> HIDE DEF rank, M
  <1>8. rank[t] < rank[holder[o]]
    BY <1>4, <1>5, <1>7, SMT
  <1>9. ASSUME NEW v \in Threads, blocker'[v] # NoObject
        PROVE  rank[v] < rank[holder'[blocker'[v]]]
    <2>1. CASE v = t
      <3>1. blocker'[v] = o
        BY <1>1, <2>1 DEF ControlOK
      <3>2. QED
        BY <1>8, <2>1, <3>1
    <2>2. CASE v # t
      <3> DEFINE w == holder[blocker[v]]
      <3>1. blocker'[v] = blocker[v] /\ blocker[v] # NoObject /\ blocker[v] \in Objects
        BY <1>1, <1>9, <2>2 DEF ControlOK
      <3>2. queue[blocker[v]] # << >>
        <4>1. v \in ToSet(queue[blocker[v]]) /\ queue[blocker[v]] \in Seq(Threads)
          BY <1>1, <3>1 DEF WaitsSound, ControlOK
        <4>2. QED
          BY <4>1, EmptyList
      <3>3. w \in Threads /\ r[v] < r[w]
        BY <1>1, <1>3, <3>1, <3>2 DEF WaitsSound, Ranks
      <3>4. v \in S => w \in S
        BY <1>4, <3>1
      <3> HIDE DEF w
      <3>5. rank[v] < rank[w]
        BY <1>5, <1>7, <3>3, <3>4, SMT
      <3>6. QED
        BY <3>1, <3>5 DEF w
    <2>3. QED
      BY <2>1, <2>2
  <1>10. Ranks(rank)'
    BY <1>9 DEF Ranks
  <1>11. QED
    BY <1>6, <1>8, <1>10

\* One more thread waits.
LEMMA LeastJoined ==
    ASSUME NEW b \in IntBooks, NEW S \in SUBSET Threads, NEW t \in Threads
    PROVE  Least(b, S \cup {t}) =
             IF b.prio[t] < Least(b, S) THEN b.prio[t] ELSE Least(b, S)
  <1> DEFINE m == Least(b, S)
             p == b.prio[t]
  <1>1. /\ p \in Levels /\ p \in Nat /\ m \in Levels /\ m \in Nat
        /\ \A u \in Threads : b.prio[u] \in Nat
        /\ \A u \in S : m <= b.prio[u]
        /\ m = Idle \/ \E u \in S : b.prio[u] = m
    <2>1. b.prio \in [Threads -> Prios]
      BY DEF IntBooks, Books
    <2>2. QED
      BY <2>1, LeastFacts, Finite
  <1> HIDE DEF m
  <1>2. CASE p < m
    <2>1. \A u \in S \cup {t} : p <= b.prio[u]
      BY <1>1, <1>2, SMT
    <2>2. Least(b, S \cup {t}) = p
      BY <1>1, <2>1, LeastIs
    <2>3. QED
      BY <1>2, <2>2 DEF m
  <1>3. CASE ~(p < m)
    <2>1. \A u \in S \cup {t} : m <= b.prio[u]
      BY <1>1, <1>3, SMT
    <2>2. m = Idle \/ \E u \in S \cup {t} : b.prio[u] = m
      BY <1>1
    <2>3. Least(b, S \cup {t}) = m
      BY <1>1, <2>1, <2>2, LeastIs
    <2>4. QED
      BY <1>3, <2>3 DEF m
  <1>4. QED
    BY <1>2, <1>3

\* A thread blocks.
LEMMA BlockKeeps ==
    ASSUME IInv, NEW t \in Threads, NEW o \in Objects, holder[o] \in Threads,
           state[t] = "running", Block(t, o), ~books'.carried
    PROVE  IInv'
  <1>1. ControlOK /\ WaitsSound /\ Exact
    BY TakenApart
  <1>2. /\ state' = [state EXCEPT ![t] = "blocked"]
        /\ blocker' = [blocker EXCEPT ![t] = o]
        /\ queue' = [queue EXCEPT ![o] = Append(queue[o], t)]
        /\ base' = base /\ holder' = holder /\ recursion' = recursion
        /\ ~WaitsOn(holder[o], t)
    BY DEF Block
  <1>3. /\ blocker[t] = NoObject /\ \A p \in Objects : t \notin ToSet(queue[p])
        /\ \A p \in Objects : queue[p] \in Seq(Threads) /\ IsInjective(queue[p])
    <2>1. blocker[t] = NoObject
      BY <1>1 DEF WaitsSound
    <2>2. QED
      BY <1>1, <2>1, Finite DEF WaitsSound, ControlOK
  <1>4. /\ queue'[o] \in Seq(Threads) /\ IsInjective(queue'[o])
        /\ \A y : y \in ToSet(queue'[o]) <=> y \in ToSet(queue[o]) \/ y = t
        /\ \A p \in Objects : p # o => queue'[p] = queue[p]
    <2>1. /\ queue'[o] = Append(queue[o], t)
          /\ \A p \in Objects : p # o => queue'[p] = queue[p]
      BY <1>1, <1>2 DEF ControlOK
    <2>2. QED
      BY <1>3, <2>1, Joined
  <1>5. ControlOK'
    <2>1. Append(queue[o], t) \in Seq(Threads)
      BY <1>3, Joined
    <2>2. QED
      BY <1>1, <1>2, <2>1 DEF ControlOK
  <1>6. WaitsSound'
    <2>1. \A v \in Threads : /\ state'[v] = IF v = t THEN "blocked" ELSE state[v]
                             /\ blocker'[v] = IF v = t THEN o ELSE blocker[v]
      BY <1>1, <1>2 DEF ControlOK
    <2>2. \A v \in Threads : state'[v] = "blocked" <=> blocker'[v] # NoObject
      BY <1>1, <2>1, Finite DEF WaitsSound
    <2>3. \A p \in Objects : IsInjective(queue'[p])
      BY <1>3, <1>4
    <2>4. ASSUME NEW v \in Threads, NEW p \in Objects
          PROVE  v \in ToSet(queue'[p]) <=> blocker'[v] = p
      <3>1. v \in ToSet(queue[p]) <=> blocker[v] = p
        BY <1>1 DEF WaitsSound
      <3>2. CASE p = o
        BY <1>4, <2>1, <3>1, <3>2
      <3>3. CASE p # o
        BY <1>3, <1>4, <2>1, <3>1, <3>3
      <3>4. QED
        BY <3>2, <3>3
    <2>5. \A p \in Objects : p \in Queues \/ queue'[p] # << >> => holder'[p] \in Threads
      BY <1>1, <1>2, <1>4 DEF WaitsSound
    <2>6. QED
      BY <2>2, <2>3, <2>4, <2>5 DEF WaitsSound
  <1>7. PICK N \in Nat : \E rank \in [Threads -> 0..N] :
            Ranks(rank)' /\ rank[t] < rank[holder[o]]
    BY <1>2, BlockRanked
  <1>8. PICK rank \in [Threads -> 0..N] : Ranks(rank)' /\ rank[t] < rank[holder[o]]
    BY <1>7
  <1>9. Ranked'
    BY <1>8 DEF Ranked
  <1>10. Chain(Waiters', Running', t, o, rank)
    <2>1. rank \in [Threads -> Nat]
      BY <1>8, SMT
    <2>2. \A v \in Threads : v # t => blocker'[v] = blocker[v] /\ state'[v] = state[v]
      BY <1>1, <1>2 DEF ControlOK
    <2>3. QED
      BY <1>1, <1>2, <1>4, <1>5, <1>6, <1>8, <2>1, <2>2, ChainOf
  <1> DEFINE b == Unrunnable(books, t)
             p0 == books.prio[t]
             W == Waiters'
             R == Running'
  <1>11. R = Running \ {t} /\ t \in Running
    BY <1>1, <1>2 DEF Running, ControlOK
  <1>12. /\ W[o] = ToSet(queue[o]) \cup {t} /\ Waiters[o] = ToSet(queue[o])
         /\ \A p \in Objects : p # o => W[p] = Waiters[p]
         /\ Waiters[o] \in SUBSET Threads
    <2>1. \A p \in Objects : W[p] = ToSet(queue'[p]) /\ Waiters[p] = ToSet(queue[p])
      BY DEF Waiters
    <2>2. QED
      BY <1>1, <1>4, <2>1, WaitersAreThreads
  <1>13. /\ b \in IntBooks /\ RunQueueOf(b, R)
         /\ b.prio = books.prio /\ b.hist = books.hist
         /\ b.blpr = books.blpr /\ b.carried = books.carried
    BY <1>1, <1>11, RunnableFacts, WaitersAreThreads DEF Exact
  <1> HIDE DEF b, W, R
  <1>14. HistoryOf(b, holder, base) /\ PriorityOf(b)
    BY <1>1, <1>13 DEF Exact, HistoryOf, PriorityOf, Lent
  <1>15. \A p \in Objects : b.blpr[p] = Least(b, Waiters[p])
    BY <1>1, <1>13 DEF Exact, ObjectsOf, Least
  <1>16. ObjectsOf(b, W, {o})
    BY <1>12, <1>15 DEF ObjectsOf
  <1>17. Least(b, W[o]) = IF p0 < b.blpr[o] THEN p0 ELSE b.blpr[o]
    <2>1. Least(b, Waiters[o] \cup {t}) =
            IF b.prio[t] < Least(b, Waiters[o]) THEN b.prio[t] ELSE Least(b, Waiters[o])
      BY <1>12, <1>13, LeastJoined
    <2>2. QED
      BY <1>12, <1>13, <1>15, <2>1
  <1>18. books' = IF p0 < books.blpr[o] THEN Inherit(b, o, p0) ELSE b
    BY DEF Block, b
  <1>19. /\ books' \in IntBooks /\ HistoryOf(books', holder, base)
         /\ PriorityOf(books') /\ RunQueueOf(books', R) /\ ObjectsOf(books', W, {})
    <2>1. CASE p0 < books.blpr[o]
      <3>1. p0 \in Levels
        BY <1>1 DEF Exact, IntBooks, Books, Levels
      <3>2. p0 = Least(b, W[o]) /\ books' = Inherit(b, o, p0)
        BY <1>13, <1>17, <1>18, <2>1
      <3>3. base \in [Threads -> Prios]
        BY <1>1 DEF ControlOK
      <3>4. Chain(W, R, t, o, rank)
        BY <1>10 DEF W, R
      <3> HIDE DEF p0
      <3>5. LET c == Inherit(b, o, p0)
            IN  /\ c \in IntBooks
                /\ HistoryOf(c, holder, base) /\ PriorityOf(c) /\ RunQueueOf(c, R)
                /\ ~c.carried => ObjectsOf(c, W, {})
        BY <1>13, <1>14, <1>16, <3>1, <3>2, <3>3, <3>4, InheritFacts
      <3>6. QED
        BY <3>2, <3>5
    <2>2. CASE ~(p0 < books.blpr[o])
      <3>1. books' = b /\ b.blpr[o] = Least(b, W[o])
        BY <1>13, <1>17, <1>18, <2>2
      <3>2. ObjectsOf(b, W, {})
        BY <1>16, <3>1 DEF ObjectsOf
      <3>3. QED
        BY <1>13, <1>14, <3>1, <3>2
    <2>3. QED
      BY <2>1, <2>2
  <1>20. Exact'
    BY <1>2, <1>19 DEF Exact, W, R
  <1>21. (ControlOK /\ Exact /\ WaitsSound /\ Ranked /\ ~books.carried => IInv)'
    BY PutTogether, PTL
  <1>22. QED
    BY <1>5, <1>6, <1>9, <1>20, <1>21

\* A nested lock or unlock, or no step at all.
LEMMA RecursionKeeps ==
    ASSUME IInv, recursion' \in [Mutexes -> 0..MaxRecursion],
           UNCHANGED <<waiting, base, holder, books>>
    PROVE  IInv'
  <1>1. ControlOK /\ WaitsSound /\ Exact /\ Ranked /\ ~books.carried
    BY TakenApart
  <1>2. /\ state' = state /\ blocker' = blocker /\ queue' = queue
        /\ base' = base /\ holder' = holder /\ books' = books
    BY DEF waiting
  <1>3. ControlOK' /\ WaitsSound'
    BY <1>1, <1>2 DEF ControlOK, WaitsSound
  <1>4. Running' = Running /\ Waiters' = Waiters
    BY <1>2 DEF Running, Waiters
  <1>5. Exact'
    BY <1>1, <1>2, <1>4 DEF Exact
  <1>6. Ranked'
    BY <1>1, <1>2 DEF Ranked, Ranks
  <1>7. (ControlOK /\ Exact /\ WaitsSound /\ Ranked /\ ~books.carried => IInv)'
    BY PutTogether, PTL
  <1>8. QED
    BY <1>1, <1>2, <1>3, <1>5, <1>6, <1>7

\* A mutex nobody waits for gets a holder or loses it.
LEMMA HolderKeeps ==
    ASSUME IInv, NEW m \in Mutexes, queue[m] = << >>, NEW n \in Threads \cup {NoThread},
           holder' = [holder EXCEPT ![m] = n],
           UNCHANGED <<waiting, base, recursion, books>>
    PROVE  IInv'
  <1>1. ControlOK /\ WaitsSound /\ Exact /\ Ranked /\ ~books.carried
    BY TakenApart
  <1>2. /\ state' = state /\ blocker' = blocker /\ queue' = queue
        /\ base' = base /\ recursion' = recursion /\ books' = books
    BY DEF waiting
  <1>3. m \in Objects /\ m \notin Queues
    BY PriorityAssumption DEF Objects
  <1>4. \A o \in Objects : o # m => holder'[o] = holder[o]
    BY <1>1 DEF ControlOK
  <1>5. ControlOK'
    BY <1>1, <1>2 DEF ControlOK
  <1>6. WaitsSound'
    BY <1>1, <1>2, <1>3, <1>4 DEF WaitsSound
  <1>7. Ranked'
    <2>1. PICK N \in Nat : \E rank \in [Threads -> 0..N] : Ranks(rank)
      BY <1>1 DEF Ranked
    <2>2. PICK rank \in [Threads -> 0..N] : Ranks(rank)
      BY <2>1
    <2>3. ASSUME NEW v \in Threads, blocker'[v] # NoObject
          PROVE  rank[v] < rank[holder'[blocker'[v]]]
      <3>1. blocker[v] \in Objects /\ v \in ToSet(queue[blocker[v]])
        BY <1>1, <1>2, <2>3 DEF ControlOK, WaitsSound
      <3>2. blocker[v] # m
        BY <3>1, EmptyList
      <3>3. QED
        BY <1>2, <1>4, <2>2, <2>3, <3>1, <3>2 DEF Ranks
    <2>4. Ranks(rank)'
      BY <2>3 DEF Ranks
    <2>5. QED
      BY <2>4 DEF Ranked
  <1>8. books.blpr[m] = Idle
    <2>1. Waiters[m] = {}
      BY <1>3, EmptyList DEF Waiters
    <2>2. books.blpr[m] = Least(books, {}) /\ books \in IntBooks
      BY <1>1, <1>3, <2>1 DEF Exact, ObjectsOf
    <2>3. Least(books, {}) = Idle
      BY <2>2, LeastFacts
    <2>4. QED
      BY <2>2, <2>3
  <1>9. HistoryOf(books, holder', base)
    <2>1. books \in IntBooks /\ HistoryOf(books, holder, base)
      BY <1>1 DEF Exact
    <2>2. \A t \in Threads, p \in Prios :
             Lent(books, holder', t, p) = Lent(books, holder, t, p)
      BY <1>4, <1>8, Finite DEF Lent
    <2>3. ASSUME NEW t \in Threads, NEW p \in Prios
          PROVE  books.hist[t][p] = (IF base[t] = p THEN 1 ELSE 0)
                                    + Cardinality(Lent(books, holder', t, p))
      <3>1. books.hist[t][p] = (IF base[t] = p THEN 1 ELSE 0)
                               + Cardinality(Lent(books, holder, t, p))
        BY <2>1 DEF HistoryOf
      <3>2. Lent(books, holder', t, p) = Lent(books, holder, t, p)
        BY <2>2
      <3>3. QED
        BY <3>1, <3>2
    <2>4. QED
      BY <2>3 DEF HistoryOf
  <1>10. Running' = Running /\ Waiters' = Waiters
    BY <1>2 DEF Running, Waiters
  <1>11. Exact'
    BY <1>1, <1>2, <1>9, <1>10 DEF Exact
  <1>12. (ControlOK /\ Exact /\ WaitsSound /\ Ranked /\ ~books.carried => IInv)'
    BY PutTogether, PTL
  <1>13. QED
    BY <1>1, <1>2, <1>5, <1>6, <1>7, <1>11, <1>12

\* A sleep begins or ends.
LEMMA SleepKeeps ==
    ASSUME IInv, NEW t \in Threads, Sleep(t) \/ Wake(t)
    PROVE  IInv'
  <1>1. ControlOK /\ WaitsSound /\ Exact /\ Ranked /\ ~books.carried
    BY TakenApart
  <1> DEFINE s == IF Sleep(t) THEN "sleeping" ELSE "running"
             R == Running'
  <1>2. /\ state' = [state EXCEPT ![t] = s] /\ state[t] \in {"running", "sleeping"}
        /\ s \in {"running", "sleeping"}
        /\ blocker' = blocker /\ queue' = queue
        /\ base' = base /\ holder' = holder /\ recursion' = recursion
    BY DEF Sleep, Wake
  <1>3. /\ Sleep(t) => /\ books' = Unrunnable(books, t) /\ state[t] = "running"
                       /\ s = "sleeping"
        /\ ~Sleep(t) => /\ books' = Runnable(books, t) /\ state[t] = "sleeping"
                        /\ s = "running"
    BY DEF Sleep, Wake
  <1> HIDE DEF s
  <1>4. \A v \in Threads : state'[v] = IF v = t THEN s ELSE state[v]
    BY <1>1, <1>2 DEF ControlOK
  <1>5. ControlOK'
    BY <1>1, <1>2 DEF ControlOK
  <1>6. WaitsSound'
    <2>1. \A v \in Threads : state'[v] = "blocked" <=> state[v] = "blocked"
      BY <1>2, <1>4
    <2>2. QED
      BY <1>1, <1>2, <2>1 DEF WaitsSound
  <1>7. Ranked'
    BY <1>1, <1>2 DEF Ranked, Ranks
  <1>8. /\ Sleep(t) => t \in Running /\ R = Running \ {t}
        /\ ~Sleep(t) => t \notin Running /\ R = Running \cup {t}
    BY <1>3, <1>4 DEF Running
  <1>9. books \in IntBooks /\ RunQueueOf(books, Running) /\ Running \in SUBSET Threads
    BY <1>1, WaitersAreThreads DEF Exact
  <1> HIDE DEF R
  <1>10. /\ books' \in IntBooks /\ RunQueueOf(books', R)
         /\ books'.prio = books.prio /\ books'.hist = books.hist
         /\ books'.blpr = books.blpr /\ books'.carried = books.carried
    <2>1. CASE Sleep(t)
      BY <1>3, <1>8, <1>9, <2>1, RunnableFacts
    <2>2. CASE ~Sleep(t)
      BY <1>3, <1>8, <1>9, <2>2, RunnableFacts
    <2>3. QED
      BY <2>1, <2>2
  <1>11. HistoryOf(books', holder', base') /\ PriorityOf(books')
    BY <1>1, <1>2, <1>10 DEF Exact, HistoryOf, PriorityOf, Lent
  <1>12. ObjectsOf(books', Waiters', {})
    <2>1. Waiters' = Waiters
      BY <1>2 DEF Waiters
    <2>2. QED
      BY <1>1, <1>10, <2>1 DEF Exact, ObjectsOf, Least
  <1>13. Exact'
    BY <1>10, <1>11, <1>12 DEF Exact, R
  <1>14. (ControlOK /\ Exact /\ WaitsSound /\ Ranked /\ ~books.carried => IInv)'
    BY PutTogether, PTL
  <1>15. QED
    BY <1>1, <1>5, <1>6, <1>7, <1>10, <1>13, <1>14

\* One thread fewer waits, and not the most urgent.
LEMMA LeastLeft ==
    ASSUME NEW b \in IntBooks, NEW S \in SUBSET Threads, NEW t \in Threads,
           b.prio[t] > Least(b, S)
    PROVE  Least(b, S \ {t}) = Least(b, S)
  <1> DEFINE m == Least(b, S)
  <1>1. /\ m \in Levels /\ m \in Nat /\ b.prio[t] \in Nat
        /\ \A u \in S : m <= b.prio[u]
        /\ m = Idle \/ \E u \in S : b.prio[u] = m
    <2>1. b.prio \in [Threads -> Prios]
      BY DEF IntBooks, Books
    <2>2. QED
      BY <2>1, LeastFacts, Finite
  <1>2. b.prio[t] # m
    <2> HIDE DEF m
    <2>1. b.prio[t] > m
      BY DEF m
    <2>2. QED
      BY <1>1, <2>1, SMT
  <1> HIDE DEF m
  <1>3. m = Idle \/ \E u \in S \ {t} : b.prio[u] = m
    BY <1>1, <1>2
  <1>4. \A u \in S \ {t} : m <= b.prio[u]
    BY <1>1
  <1>5. QED
    BY <1>1, <1>3, <1>4, LeastIs DEF m

\* A sender is let go.
LEMMA ReleaseKeeps ==
    ASSUME IInv, NEW t \in Threads, NEW q \in Queues, Release(t, q), ~books'.carried
    PROVE  IInv'
  <1> DEFINE rest == RemoveFirst(queue[q], t)
  <1>1. ControlOK /\ WaitsSound /\ Exact /\ Ranked
    BY TakenApart
  <1>2. /\ state' = [state EXCEPT ![t] = "running"]
        /\ blocker' = [blocker EXCEPT ![t] = NoObject]
        /\ queue' = [queue EXCEPT ![q] = rest]
        /\ base' = base /\ holder' = holder /\ recursion' = recursion
        /\ t \in ToSet(queue[q])
    BY DEF Release
  <1>3. /\ q \in Objects /\ blocker[t] = q /\ state[t] = "blocked"
        /\ holder[q] \in Threads /\ q # NoObject
        /\ queue[q] \in Seq(Threads) /\ IsInjective(queue[q])
    <2>1. q \in Objects
      BY DEF Objects
    <2>2. blocker[t] = q /\ q # NoObject
      BY <1>1, <1>2, <2>1, Finite DEF WaitsSound
    <2>3. QED
      BY <1>1, <2>1, <2>2 DEF WaitsSound, ControlOK
  <1>4. /\ rest \in Seq(Threads) /\ IsInjective(rest)
        /\ \A y : y \in ToSet(rest) <=> y \in ToSet(queue[q]) /\ y # t
    BY <1>3, RemoveFirstFacts
  <1> HIDE DEF rest
  <1>5. queue'[q] = rest /\ \A p \in Objects : p # q => queue'[p] = queue[p]
    BY <1>1, <1>2, <1>3 DEF ControlOK
  <1>6. \A v \in Threads : /\ state'[v] = IF v = t THEN "running" ELSE state[v]
                           /\ blocker'[v] = IF v = t THEN NoObject ELSE blocker[v]
    BY <1>1, <1>2 DEF ControlOK
  <1>7. ControlOK'
    BY <1>1, <1>2, <1>4 DEF ControlOK
  <1>8. WaitsSound'
    <2>1. \A v \in Threads : state'[v] = "blocked" <=> blocker'[v] # NoObject
      BY <1>1, <1>6 DEF WaitsSound
    <2>2. \A p \in Objects : IsInjective(queue'[p])
      BY <1>1, <1>4, <1>5 DEF WaitsSound
    <2>3. ASSUME NEW v \in Threads, NEW p \in Objects
          PROVE  v \in ToSet(queue'[p]) <=> blocker'[v] = p
      <3>1. (v \in ToSet(queue[p]) <=> blocker[v] = p) /\ p # NoObject
        BY <1>1, Finite DEF WaitsSound
      <3>2. CASE p = q
        BY <1>4, <1>5, <1>6, <3>1, <3>2
      <3>3. CASE p # q
        BY <1>3, <1>5, <1>6, <3>1, <3>3
      <3>4. QED
        BY <3>2, <3>3
    <2>4. \A p \in Objects : p \in Queues \/ queue'[p] # << >> => holder'[p] \in Threads
      BY <1>1, <1>2, <1>3, <1>5 DEF WaitsSound
    <2>5. QED
      BY <2>1, <2>2, <2>3, <2>4 DEF WaitsSound
  <1>9. PICK N \in Nat : \E rank \in [Threads -> 0..N] : Ranks(rank)
    BY <1>1 DEF Ranked
  <1>10. PICK rank \in [Threads -> 0..N] : Ranks(rank)
    BY <1>9
  <1>11. Ranks(rank)' /\ rank[t] < rank[holder[q]]
    BY <1>2, <1>3, <1>6, <1>10 DEF Ranks
  <1>12. Ranked'
    BY <1>10, <1>11 DEF Ranked
  <1>13. Chain(Waiters', Running', t, q, rank)
    <2>1. rank \in [Threads -> Nat]
      BY <1>10, SMT
    <2>2. \A v \in Threads : v # t => blocker'[v] = blocker[v] /\ state'[v] = state[v]
      BY <1>6
    <2>3. QED
      BY <1>1, <1>2, <1>3, <1>5, <1>7, <1>8, <1>11, <2>1, <2>2, ChainOf
  <1> DEFINE b == Runnable(books, t)
             p0 == books.prio[t]
             new == QueuePriority(books, rest)
             W == Waiters'
             R == Running'
  <1>14. R = Running \cup {t} /\ t \notin Running
    BY <1>3, <1>6 DEF Running
  <1>15. /\ W[q] = Waiters[q] \ {t} /\ t \in Waiters[q]
         /\ \A p \in Objects : p # q => W[p] = Waiters[p]
         /\ Waiters[q] \in SUBSET Threads /\ W[q] = ToSet(rest)
    <2>1. \A p \in Objects : W[p] = ToSet(queue'[p]) /\ Waiters[p] = ToSet(queue[p])
      BY DEF Waiters
    <2>2. ToSet(rest) = ToSet(queue[q]) \ {t}
      BY <1>4
    <2>3. QED
      BY <1>1, <1>2, <1>3, <1>5, <2>1, <2>2, WaitersAreThreads
  <1>16. /\ b \in IntBooks /\ RunQueueOf(b, R)
         /\ b.prio = books.prio /\ b.hist = books.hist
         /\ b.blpr = books.blpr /\ b.carried = books.carried
    BY <1>1, <1>14, RunnableFacts, WaitersAreThreads DEF Exact
  <1>17. new = Least(b, W[q])
    <2>1. new = Least(books, ToSet(rest))
      BY DEF QueuePriority, Least
    <2> HIDE DEF new, b, W
    <2>2. Least(b, ToSet(rest)) = Least(books, ToSet(rest))
      BY <1>16 DEF Least
    <2>3. QED
      BY <1>15, <2>1, <2>2
  <1>18. books' = IF p0 > books.blpr[q] \/ new = books.blpr[q]
                  THEN b ELSE Inherit(b, q, new)
    BY DEF Release, b, rest
  <1> HIDE DEF b, W, R, new
  <1>19. HistoryOf(b, holder, base) /\ PriorityOf(b)
    BY <1>1, <1>16 DEF Exact, HistoryOf, PriorityOf, Lent
  <1>20. \A p \in Objects : b.blpr[p] = Least(b, Waiters[p])
    BY <1>1, <1>16 DEF Exact, ObjectsOf, Least
  <1>21. ObjectsOf(b, W, {q})
    BY <1>15, <1>20 DEF ObjectsOf
  <1>22. p0 > books.blpr[q] => new = books.blpr[q]
    <2>1. b.prio[t] > Least(b, Waiters[q]) => Least(b, W[q]) = Least(b, Waiters[q])
      BY <1>15, <1>16, LeastLeft
    <2>2. QED
      BY <1>3, <1>16, <1>17, <1>20, <2>1
  <1>23. /\ books' \in IntBooks /\ HistoryOf(books', holder, base)
         /\ PriorityOf(books') /\ RunQueueOf(books', R) /\ ObjectsOf(books', W, {})
    <2>1. CASE new # books.blpr[q]
      <3>1. new \in Levels
        BY <1>15, <1>16, <1>17, LeastFacts
      <3>2. books' = Inherit(b, q, new)
        BY <1>18, <1>22, <2>1
      <3>3. base \in [Threads -> Prios]
        BY <1>1 DEF ControlOK
      <3>4. Chain(W, R, t, q, rank)
        BY <1>13 DEF W, R
      <3>5. LET c == Inherit(b, q, new)
            IN  /\ c \in IntBooks
                /\ HistoryOf(c, holder, base) /\ PriorityOf(c) /\ RunQueueOf(c, R)
                /\ ~c.carried => ObjectsOf(c, W, {})
        BY <1>16, <1>17, <1>19, <1>21, <3>1, <3>3, <3>4, InheritFacts
      <3>6. QED
        BY <3>2, <3>5
    <2>2. CASE new = books.blpr[q]
      <3>1. books' = b /\ b.blpr[q] = Least(b, W[q])
        BY <1>16, <1>17, <1>18, <2>2
      <3>2. ObjectsOf(b, W, {})
        BY <1>21, <3>1 DEF ObjectsOf
      <3>3. QED
        BY <1>16, <1>19, <3>1, <3>2
    <2>3. QED
      BY <2>1, <2>2
  <1>24. Exact'
    BY <1>2, <1>23 DEF Exact, W, R
  <1>25. (ControlOK /\ Exact /\ WaitsSound /\ Ranked /\ ~books.carried => IInv)'
    BY PutTogether, PTL
  <1>26. QED
    BY <1>7, <1>8, <1>12, <1>24, <1>25

-------------------------------------------------------------------------------
(* A mutex changes hands. *)

\* What is left behind the head of a queue.
LEMMA TailFacts ==
    ASSUME NEW S, NEW s \in Seq(S), IsInjective(s), s # << >>
    PROVE  /\ Tail(s) \in Seq(S) /\ IsInjective(Tail(s))
           /\ Head(s) \in S /\ Head(s) \in ToSet(s)
           /\ \A y : y \in ToSet(Tail(s)) <=> y \in ToSet(s) /\ y # Head(s)
  <1> DEFINE r == Tail(s)
             n == Len(s)
  <1>1. /\ n \in Nat /\ n # 0
        /\ \A i, j \in 1..n : s[i] = s[j] => i = j
        /\ \A y : y \in ToSet(s) <=> \E i \in 1..n : s[i] = y
    BY NoRepetition, LenProperties, EmptySeq
  <1>2. /\ r \in Seq(S) /\ Len(r) = n - 1 /\ Head(s) \in S
        /\ \A i \in 1..Len(r) : r[i] = s[i + 1]
    BY HeadTailProperties
  <1>3. Head(s) = s[1] /\ 1 \in 1..n
    BY <1>1, QueueFacts
  <1> HIDE DEF r, n
  <1>4. \A i \in 1..Len(r) : i + 1 \in 1..n /\ i + 1 # 1
    BY <1>1, <1>2, SMT
  <1>5. \A i \in 1..n : i # 1 => i - 1 \in 1..Len(r) /\ (i - 1) + 1 = i
    BY <1>1, <1>2, SMT
  <1>6. \A i, j \in 1..Len(r) : r[i] = r[j] => i = j
    BY <1>1, <1>2, <1>4, SMT
  <1>7. \A y : y \in ToSet(r) <=> \E i \in 1..Len(r) : r[i] = y
    BY <1>2, NoRepetition
  <1>8. ASSUME NEW y PROVE y \in ToSet(r) <=> y \in ToSet(s) /\ y # s[1]
    <2>1. ASSUME y \in ToSet(r) PROVE y \in ToSet(s) /\ y # s[1]
      <3>1. PICK i \in 1..Len(r) : r[i] = y
        BY <1>7, <2>1
      <3>2. QED
        BY <1>1, <1>2, <1>3, <1>4, <3>1
    <2>2. ASSUME y \in ToSet(s), y # s[1] PROVE y \in ToSet(r)
      <3>1. PICK i \in 1..n : s[i] = y
        BY <1>1, <2>2
      <3>2. i # 1
        BY <2>2, <3>1
      <3>3. r[i - 1] = y /\ i - 1 \in 1..Len(r)
        BY <1>2, <1>5, <3>1, <3>2
      <3>4. QED
        BY <1>7, <3>3
    <2>3. QED
      BY <2>1, <2>2
  <1>9. QED
    BY <1>1, <1>2, <1>3, <1>6, <1>7, <1>8, NoRepetition DEF r

\* priority_disinherit_internal of a priority that no other entry needs.
LEMMA DisinheritFacts ==
    ASSUME NEW b \in IntBooks, NEW t \in Threads, NEW p \in Prios,
           NEW R \in SUBSET Threads, t \in R <=> state[t] = "running",
           RunQueueOf(b, R), b.prio[t] = Highest(b.hist[t]),
           b.hist[t][p] > 0, NEW q \in Prios, Minus(b.hist[t], p)[q] > 0
    PROVE  LET d == Disinherit(b, t, p)
           IN  /\ d \in IntBooks /\ RunQueueOf(d, R)
               /\ d.blpr = b.blpr /\ d.carried = b.carried
               /\ d.hist = [b.hist EXCEPT ![t] = Minus(b.hist[t], p)]
               /\ d.prio[t] = Highest(d.hist[t])
               /\ \A u \in Threads : u # t => d.prio[u] = b.prio[u]
  <1> DEFINE h == Minus(b.hist[t], p)
             c == [b EXCEPT !.hist[t] = h]
             d == Disinherit(b, t, p)
             old == Highest(b.hist[t])
  <1>1. /\ b.prio \in [Threads -> Prios] /\ b.hist \in [Threads -> [Prios -> Int]]
        /\ b.hist[t] \in [Prios -> Int] /\ p \in Levels
    BY DEF IntBooks, Books, Levels
  <1>2. h \in [Prios -> Int] /\ \A x \in Prios :
            h[x] = b.hist[t][x] - (IF x = p THEN 1 ELSE 0)
    BY <1>1, Entries
  <1>3. d = IF p \in Prios /\ h[p] = 0 /\ p <= b.prio[t]
             THEN WithPriority(c, t, Highest(h)) ELSE c
    BY DEF Disinherit
  <1>4. h[q] > 0
    OBVIOUS
  <1>5. c = [b EXCEPT !.hist = [b.hist EXCEPT ![t] = h]]
    BY DEF IntBooks, Books
  <1> HIDE DEF h, c, d
  <1>6. /\ c \in IntBooks /\ c.prio = b.prio /\ c.blpr = b.blpr
        /\ c.carried = b.carried /\ c.rtr = b.rtr
        /\ c.hist = [b.hist EXCEPT ![t] = h]
    <2>1. [b.hist EXCEPT ![t] = h] \in [Threads -> [Prios -> Int]]
      BY <1>1, <1>2
    <2>2. QED
      BY <1>5, <2>1 DEF IntBooks, Books
  <1>7. RunQueueOf(c, R)
    BY <1>6 DEF RunQueueOf, RunningAt
  <1>8. c.hist[t] = h
    BY <1>1, <1>6
  <1>9. Highest(h) \in Prios
    BY <1>2, <1>4, HighestFacts
  <1>10. CASE h[p] = 0 /\ p <= b.prio[t]
    <2>1. d = WithPriority(c, t, Highest(h))
      BY <1>10, <1>3
    <2>2. /\ d \in IntBooks /\ RunQueueOf(d, R)
          /\ d.hist = c.hist /\ d.blpr = c.blpr /\ d.carried = c.carried
          /\ d.prio[t] = Highest(h)
          /\ \A u \in Threads : u # t => d.prio[u] = c.prio[u]
      BY <1>6, <1>7, <1>9, <2>1, MoveFacts
    <2>3. QED
      BY <1>6, <1>8, <2>2 DEF d, h
  <1>11. CASE ~(h[p] = 0 /\ p <= b.prio[t])
    <2>1. d = c
      BY <1>11, <1>3
    <2>2. Highest(h) = old
      <3>1. /\ old \in Prios /\ b.hist[t][old] > 0
            /\ \A x \in Prios : b.hist[t][x] > 0 => old <= x
        BY <1>1, HighestFacts
      <3> HIDE DEF old
      <3>2. old \in Nat /\ p \in Nat /\ old <= p /\ b.prio[t] = old
        BY <3>1, PriorityAssumption DEF old
      <3>3. h[old] > 0
        <4>1. CASE old # p
          BY <1>1, <1>2, <3>1, <4>1, SMT
        <4>2. CASE old = p
          <5>1. h[p] # 0
            BY <1>11, <3>2, <4>2, SMT
          <5>2. h[p] = b.hist[t][p] - 1 /\ b.hist[t][p] \in Int
            BY <1>1, <1>2
          <5>3. QED
            BY <4>2, <5>1, <5>2, SMT
        <4>3. QED
          BY <4>1, <4>2
      <3>4. \A x \in Prios : h[x] > 0 => b.hist[t][x] > 0
        BY <1>1, <1>2, SMT
      <3>5. QED
        BY <1>2, <3>1, <3>3, <3>4, HighestIs
    <2>3. QED
      BY <1>6, <1>7, <1>8, <2>1, <2>2 DEF d, h
  <1>12. QED
    BY <1>10, <1>11

\* priority_inherit_internal: at once as urgent as the new entry.
LEMMA QuickInheritFacts ==
    ASSUME NEW b \in IntBooks, NEW u \in Threads, NEW p \in Levels,
           b.prio[u] = Highest(b.hist[u]), NEW q \in Prios, b.hist[u][q] > 0,
           \A x \in Prios : b.hist[u][x] >= 0
    PROVE  LET e == QuickInherit(b, u, p)
           IN  /\ e \in IntBooks /\ e.rtr = b.rtr
               /\ e.blpr = b.blpr /\ e.carried = b.carried
               /\ e.hist = [b.hist EXCEPT ![u] = Plus(b.hist[u], p)]
               /\ e.prio[u] = Highest(e.hist[u])
               /\ \A v \in Threads : v # u => e.prio[v] = b.prio[v]
  <1> DEFINE h == Plus(b.hist[u], p)
             e == QuickInherit(b, u, p)
             old == Highest(b.hist[u])
             pr == IF p < b.prio[u] THEN p ELSE b.prio[u]
  <1>1. /\ b.prio \in [Threads -> Prios] /\ b.hist \in [Threads -> [Prios -> Int]]
        /\ b.hist[u] \in [Prios -> Int]
    BY DEF IntBooks, Books
  <1>2. h \in [Prios -> Int] /\ \A x \in Prios :
            h[x] = b.hist[u][x] + (IF x = p THEN 1 ELSE 0)
    BY <1>1, Entries
  <1>3. e = [b EXCEPT !.hist = [b.hist EXCEPT ![u] = h],
                      !.prio = [b.prio EXCEPT ![u] = pr]]
    BY DEF QuickInherit, IntBooks, Books
  <1>4. /\ old \in Prios /\ b.hist[u][old] > 0
        /\ \A x \in Prios : b.hist[u][x] > 0 => old <= x
    BY <1>1, HighestFacts
  <1> HIDE DEF h, e, old
  <1>5. /\ pr \in Prios /\ pr = IF p < old THEN p ELSE old
        /\ old \in Nat /\ p \in Nat
    <2>1. old < Idle /\ old \in Nat /\ p \in Nat /\ Idle \in Nat /\ b.prio[u] = old
      BY <1>4, PriorityAssumption, Finite DEF old
    <2>2. p < old => p # Idle
      BY <2>1, SMT
    <2>3. QED
      BY <1>4, <2>1, <2>2 DEF Levels
  <1> HIDE DEF pr
  <1>6. /\ e \in IntBooks /\ e.rtr = b.rtr /\ e.blpr = b.blpr /\ e.carried = b.carried
        /\ e.hist = [b.hist EXCEPT ![u] = h] /\ e.prio = [b.prio EXCEPT ![u] = pr]
    <2>1. [b.hist EXCEPT ![u] = h] \in [Threads -> [Prios -> Int]]
      BY <1>1, <1>2
    <2>2. [b.prio EXCEPT ![u] = pr] \in [Threads -> Prios]
      BY <1>1, <1>5
    <2>3. QED
      BY <1>3, <2>1, <2>2 DEF IntBooks, Books
  <1>7. Highest(h) = pr
    <2>1. h[pr] > 0
      <3>1. CASE p < old
        <4>1. pr = p /\ p \in Prios
          BY <1>5, <3>1
        <4>2. b.hist[u][p] >= 0 /\ b.hist[u][p] \in Int /\ h[p] = b.hist[u][p] + 1
          BY <1>1, <1>2, <4>1
        <4>3. QED
          BY <4>1, <4>2, SMT
      <3>2. CASE ~(p < old)
        BY <1>1, <1>2, <1>4, <1>5, <3>2, SMT
      <3>3. QED
        BY <3>1, <3>2
    <2>2. ASSUME NEW x \in Prios, h[x] > 0 PROVE pr <= x
      <3>1. x \in Nat
        BY PriorityAssumption
      <3>2. CASE x = p
        BY <1>5, <3>1, <3>2, SMT
      <3>3. CASE x # p
        <4>1. b.hist[u][x] > 0
          BY <1>1, <1>2, <2>2, <3>3, SMT
        <4>2. old <= x
          BY <1>4, <4>1
        <4>3. QED
          BY <1>5, <3>1, <4>2, SMT
      <3>4. QED
        BY <3>2, <3>3
    <2>3. QED
      BY <1>2, <1>5, <2>1, <2>2, HighestIs
  <1>8. e.hist[u] = h /\ e.prio[u] = pr
    BY <1>1, <1>6
  <1>9. \A v \in Threads : v # u => e.prio[v] = b.prio[v]
    BY <1>1, <1>6
  <1>10. QED
    BY <1>6, <1>7, <1>8, <1>9 DEF e, h

\* The owner hands the mutex to the first thread that waits.
LEMMA TransferKeeps ==
    ASSUME IInv, NEW t \in Threads, NEW m \in Mutexes, state[t] = "running",
           holder[m] = t, queue[m] # << >>, Transfer(t, m),
           base' = base, recursion' = recursion, ~books'.carried
    PROVE  IInv'
  <1> DEFINE u == Head(queue[m])
             rest == Tail(queue[m])
             p == books.blpr[m]
             newp == IF rest = << >> THEN Idle
                     ELSE IF books.prio[u] <= p THEN QueuePriority(books, rest) ELSE p
             W == Waiters'
             R == Running'
  <1>1. ControlOK /\ WaitsSound /\ Exact /\ Ranked
    BY TakenApart, SMTT(30)
  <1>2. /\ holder' = [holder EXCEPT ![m] = u]
        /\ queue' = [queue EXCEPT ![m] = rest]
        /\ blocker' = [blocker EXCEPT ![u] = NoObject]
        /\ state' = [state EXCEPT ![u] = "running"]
    BY DEF Transfer
  <1>3. /\ m \in Objects /\ m # NoObject /\ m \notin Queues
        /\ queue[m] \in Seq(Threads) /\ IsInjective(queue[m])
    <2>1. m \in Objects /\ m \notin Queues
      BY PriorityAssumption DEF Objects
    <2>2. QED
      BY <1>1, <2>1, Finite DEF ControlOK, WaitsSound
  <1>4. /\ rest \in Seq(Threads) /\ IsInjective(rest)
        /\ u \in Threads /\ u \in ToSet(queue[m])
        /\ \A y : y \in ToSet(rest) <=> y \in ToSet(queue[m]) /\ y # u
    BY <1>3, TailFacts
  <1>5. newp = IF rest = << >> THEN Idle
               ELSE IF books.prio[u] <= p THEN Least(books, ToSet(rest)) ELSE p
    BY SMTT(30) DEF QueuePriority, Least
  <1>6. books' = [Runnable(QuickInherit(Disinherit(books, t, p), u, newp), u)
                    EXCEPT !.blpr[m] = newp]
    BY DEF Transfer
  <1> HIDE DEF u, rest, newp
  <1>7. blocker[u] = m /\ state[u] = "blocked" /\ u # t
    BY <1>1, <1>3, <1>4 DEF WaitsSound
  <1>8. /\ queue'[m] = rest /\ \A o \in Objects : o # m => queue'[o] = queue[o]
        /\ holder'[m] = u /\ \A o \in Objects : o # m => holder'[o] = holder[o]
    BY <1>1, <1>2, <1>3 DEF ControlOK
  <1>9. \A v \in Threads : /\ state'[v] = IF v = u THEN "running" ELSE state[v]
                           /\ blocker'[v] = IF v = u THEN NoObject ELSE blocker[v]
    BY <1>1, <1>2 DEF ControlOK
  <1>10. ControlOK'
    BY <1>1, <1>2, <1>4 DEF ControlOK
  <1>11. WaitsSound'
    <2>1. \A v \in Threads : state'[v] = "blocked" <=> blocker'[v] # NoObject
      BY <1>1, <1>9 DEF WaitsSound
    <2>2. \A o \in Objects : IsInjective(queue'[o])
      BY <1>1, <1>4, <1>8 DEF WaitsSound
    <2>3. ASSUME NEW v \in Threads, NEW o \in Objects
          PROVE  v \in ToSet(queue'[o]) <=> blocker'[v] = o
      <3>1. (v \in ToSet(queue[o]) <=> blocker[v] = o) /\ o # NoObject
        BY <1>1, Finite DEF WaitsSound
      <3>2. CASE o = m
        BY <1>4, <1>8, <1>9, <3>1, <3>2
      <3>3. CASE o # m
        BY <1>7, <1>8, <1>9, <3>1, <3>3
      <3>4. QED
        BY <3>2, <3>3
    <2>4. \A o \in Objects : o \in Queues \/ queue'[o] # << >> => holder'[o] \in Threads
      BY <1>1, <1>4, <1>8 DEF WaitsSound
    <2>5. QED
      BY <2>1, <2>2, <2>3, <2>4 DEF WaitsSound
  <1>12. Ranked'
    <2>1. PICK N \in Nat : \E r \in [Threads -> 0..N] : Ranks(r)
      BY <1>1 DEF Ranked
    <2>2. PICK r \in [Threads -> 0..N] : Ranks(r)
      BY <2>1
    <2>3. \A v \in Threads : r[v] \in Nat /\ r[v] <= N
      BY <2>2, SMT
    <2> DEFINE M == N + 1
               moved == [v \in Threads |-> IF v = u THEN M ELSE r[v]]
    <2>4. M \in Nat /\ moved \in [Threads -> 0..M]
      BY <2>3, SMT
    <2> HIDE DEF M
    <2>5. PICK rank \in [Threads -> 0..M] :
            \A v \in Threads : rank[v] = IF v = u THEN M ELSE r[v]
      BY <2>4
    <2> HIDE DEF moved
    <2>6. M = N + 1
      BY DEF M
    <2>7. ASSUME NEW v \in Threads, blocker'[v] # NoObject
          PROVE  rank[v] < rank[holder'[blocker'[v]]]
      <3>1. /\ v # u /\ blocker'[v] = blocker[v] /\ blocker[v] # NoObject
            /\ blocker[v] \in Objects
        BY <1>1, <1>9, <2>7 DEF ControlOK
      <3>2. rank[v] = r[v] /\ r[v] \in Nat /\ r[v] <= N
        BY <2>3, <2>5, <3>1
      <3>3. CASE blocker[v] = m
        BY <1>4, <1>8, <2>5, <2>6, <3>1, <3>2, <3>3, SMT
      <3>4. CASE blocker[v] # m
        <4> DEFINE w == holder[blocker[v]]
        <4>1. holder'[blocker'[v]] = w
          BY <1>8, <3>1, <3>4
        <4>2. queue[blocker[v]] # << >>
          <5>1. v \in ToSet(queue[blocker[v]]) /\ queue[blocker[v]] \in Seq(Threads)
            BY <1>1, <3>1 DEF WaitsSound, ControlOK
          <5>2. QED
            BY <5>1, EmptyList
        <4>3. w \in Threads /\ r[v] < r[w]
          BY <1>1, <2>2, <3>1, <4>2 DEF WaitsSound, Ranks
        <4> HIDE DEF w
        <4>4. r[w] \in Nat /\ rank[w] = IF w = u THEN M ELSE r[w]
          BY <2>3, <2>5, <4>3
        <4>5. rank[v] < rank[w]
          BY <2>6, <3>2, <4>3, <4>4, SMT
        <4>6. QED
          BY <4>1, <4>5
      <3>5. QED
        BY <3>3, <3>4
    <2>8. Ranks(rank)'
      BY <2>7 DEF Ranks
    <2>9. (\E q \in [Threads -> 0..M] : Ranks(q))'
      BY <2>5, <2>8
    <2>10. QED
      BY <2>4, <2>9 DEF Ranked
  <1>13. R = Running \cup {u} /\ u \notin Running /\ t \in Running
    BY <1>4, <1>7, <1>9 DEF Running
  <1>14. /\ W[m] = Waiters[m] \ {u} /\ u \in Waiters[m]
         /\ \A o \in Objects : o # m => W[o] = Waiters[o]
         /\ \A o \in Objects : W[o] \in SUBSET Threads
         /\ Waiters[m] \in SUBSET Threads /\ W[m] = ToSet(rest)
    <2>1. \A o \in Objects : W[o] = ToSet(queue'[o]) /\ Waiters[o] = ToSet(queue[o])
      BY DEF Waiters
    <2>2. ToSet(rest) = ToSet(queue[m]) \ {u}
      BY <1>4
    <2>3. QED
      BY <1>1, <1>3, <1>4, <1>8, <2>1, <2>2, WaitersAreThreads
  <1>15. /\ \A o \in Objects : t \notin W[o] /\ u \notin W[o]
    <2>1. ASSUME NEW o \in Objects PROVE t \notin W[o] /\ u \notin W[o]
      <3>1. W[o] = ToSet(queue'[o]) /\ o # NoObject
        BY Finite DEF Waiters
      <3>2. blocker[t] = NoObject /\ blocker'[t] = NoObject /\ blocker'[u] = NoObject
        BY <1>1, <1>4, <1>7, <1>9 DEF WaitsSound
      <3>3. QED
        BY <1>4, <1>11, <3>1, <3>2 DEF WaitsSound
    <2>2. QED
      BY <2>1
  <1>16. /\ books \in IntBooks /\ HistoryOf(books, holder, base) /\ PriorityOf(books)
         /\ RunQueueOf(books, Running)
         /\ \A o \in Objects : books.blpr[o] = Least(books, Waiters[o])
         /\ base \in [Threads -> Prios] /\ Running \in SUBSET Threads
    BY <1>1, WaitersAreThreads DEF Exact, ObjectsOf, ControlOK
  <1> HIDE DEF W, R
  <1>17. p \in Prios /\ newp \in Levels /\ newp = Least(books, W[m])
    <2>1. p = Least(books, Waiters[m]) /\ Waiters[m] # {}
      BY <1>3, <1>14, <1>16
    <2>2. p \in Prios
      BY <1>14, <1>16, <2>1, LeastFacts
    <2>3. CASE rest = << >>
      <3>1. W[m] = {}
        BY <1>14, <2>3, EmptyList
      <3>2. Least(books, {}) = Idle
        BY <1>16, LeastFacts
      <3>3. QED
        BY <1>5, <2>2, <2>3, <3>1, <3>2, Finite
    <2>4. CASE rest # << >> /\ books.prio[u] <= p
      <3>1. newp = Least(books, W[m])
        BY <1>5, <1>14, <2>4
      <3>2. Least(books, W[m]) \in Levels
        BY <1>3, <1>14, <1>16, LeastFacts
      <3>3. QED
        BY <2>2, <3>1, <3>2
    <2>5. CASE rest # << >> /\ ~(books.prio[u] <= p)
      <3>1. books.prio[u] \in Nat /\ p \in Nat
        BY <1>4, <1>16, <2>2, Finite DEF IntBooks, Books
      <3>2. books.prio[u] > Least(books, Waiters[m])
        BY <2>1, <2>5, <3>1, SMT
      <3>3. Least(books, Waiters[m] \ {u}) = Least(books, Waiters[m])
        BY <1>4, <1>14, <1>16, <3>2, LeastLeft
      <3>4. QED
        BY <1>5, <1>14, <2>1, <2>2, <2>5, <3>3, Finite
    <2>6. QED
      BY <2>3, <2>4, <2>5
  <1> DEFINE b == books
             g == [holder EXCEPT ![m] = NoThread]
             h == Minus(b.hist[t], p)
             c == [b EXCEPT !.hist = [b.hist EXCEPT ![t] = h]]
             d == Disinherit(b, t, p)
             e == QuickInherit(d, u, newp)
             f == Runnable(e, u)
  <1>18. /\ b.prio \in [Threads -> Prios] /\ b.hist \in [Threads -> [Prios -> Int]]
         /\ b.hist[t] \in [Prios -> Int] /\ b.blpr \in [Objects -> Levels] /\ p \in Levels
    BY <1>16, <1>17 DEF IntBooks, Books, Levels
  <1>19. h \in [Prios -> Int] /\ \A x \in Prios :
             h[x] = b.hist[t][x] - (IF x = p THEN 1 ELSE 0)
    BY <1>18, Entries
  <1> HIDE DEF h
  <1>20. /\ c \in IntBooks /\ c.prio = b.prio /\ c.blpr = b.blpr
         /\ c.hist = [b.hist EXCEPT ![t] = h]
    <2>1. [b.hist EXCEPT ![t] = h] \in [Threads -> [Prios -> Int]]
      BY <1>18, <1>19
    <2>2. QED
      BY <1>16, <2>1 DEF IntBooks, Books
  <1>21. /\ g[m] = NoThread /\ \A o \in Objects : o # m => g[o] = holder[o]
         /\ \A v \in Threads : g[m] # v
    BY <1>1, <1>3, Finite DEF ControlOK
  <1> HIDE DEF c, g
  <1>22. HistoryOf(c, g, base)
    <2>1. ASSUME NEW v \in Threads, NEW x \in Prios
          PROVE  c.hist[v][x] =
            (b.hist[v][x] - (IF holder[m] = v /\ b.blpr[m] = x THEN 1 ELSE 0))
            + (IF g[m] = v /\ c.blpr[m] = x THEN 1 ELSE 0)
      <3>1. b.hist[v][x] \in Int
        BY <1>18
      <3>2. c.hist[v] = IF v = t THEN h ELSE b.hist[v]
        BY <1>18, <1>20
      <3>3. CASE v = t
        BY <1>19, <1>21, <3>1, <3>2, <3>3, SMT
      <3>4. CASE v # t
        BY <1>21, <3>1, <3>2, <3>4, SMT
      <3>5. QED
        BY <3>3, <3>4
    <2>2. \A o \in Objects : o # m => holder[o] = g[o] /\ b.blpr[o] = c.blpr[o]
      BY <1>20, <1>21
    <2>3. b \in IntBooks /\ HistoryOf(b, holder, base)
      BY <1>16
    <2>4. Entered(b, holder, c, g, m)
      BY <2>1, <2>2 DEF Entered
    <2> HIDE DEF b
    <2>5. QED
      BY <1>3, <1>20, <2>3, <2>4, HistoryChange
  <1>23. \A v \in Threads : c.hist[v] \in [Prios -> Int] /\ c.hist[v][base[v]] > 0
             /\ \A x \in Prios : c.hist[v][x] >= 0
    BY <1>16, <1>20, <1>22, HistoryFacts
  <1>24. c.hist[t] = h /\ base[t] \in Prios /\ base[u] \in Prios
    BY <1>4, <1>16, <1>18, <1>20
  <1>25. b.hist[t][p] > 0
    BY <1>3, <1>16, <1>17, HistoryFacts
  <1>26. /\ d \in IntBooks /\ RunQueueOf(d, Running)
         /\ d.blpr = b.blpr /\ d.carried = b.carried
         /\ d.hist = c.hist
         /\ d.prio[t] = Highest(d.hist[t])
         /\ \A v \in Threads : v # t => d.prio[v] = b.prio[v]
    <2>1. t \in Running <=> state[t] = "running"
      BY DEF Running
    <2>2. b.prio[t] = Highest(b.hist[t])
      BY <1>16 DEF PriorityOf
    <2>3. Minus(b.hist[t], p)[base[t]] > 0
      BY <1>23, <1>24 DEF h
    <2>4. /\ d \in IntBooks /\ RunQueueOf(d, Running)
          /\ d.blpr = b.blpr /\ d.carried = b.carried
          /\ d.hist = [b.hist EXCEPT ![t] = Minus(b.hist[t], p)]
          /\ d.prio[t] = Highest(d.hist[t])
          /\ \A v \in Threads : v # t => d.prio[v] = b.prio[v]
      BY <1>16, <1>17, <1>24, <1>25, <2>1, <2>2, <2>3, DisinheritFacts
    <2> HIDE DEF d
    <2>5. QED
      BY <1>20, <2>4 DEF h
  <1> HIDE DEF d
  <1>27. \A v \in Threads : d.prio[v] = Highest(d.hist[v])
    <2>1. \A v \in Threads : v # t => d.hist[v] = b.hist[v]
      BY <1>18, <1>20, <1>26
    <2>2. QED
      BY <1>16, <1>26, <2>1 DEF PriorityOf
  <1>28. /\ e \in IntBooks /\ e.rtr = d.rtr
         /\ e.blpr = d.blpr /\ e.carried = d.carried
         /\ e.hist = [d.hist EXCEPT ![u] = Plus(d.hist[u], newp)]
         /\ e.prio[u] = Highest(e.hist[u])
         /\ \A v \in Threads : v # u => e.prio[v] = d.prio[v]
    <2>1. d.hist[u][base[u]] > 0 /\ \A x \in Prios : d.hist[u][x] >= 0
      BY <1>4, <1>23, <1>26
    <2>2. QED
      BY <1>4, <1>17, <1>24, <1>26, <1>27, <2>1, QuickInheritFacts, SMTT(30)
  <1> HIDE DEF e
  <1>29. RunQueueOf(e, Running)
    <2>1. \A x \in Prios : RunningAt(e, Running, x) = RunningAt(d, Running, x)
      BY <1>13, <1>16, <1>28 DEF RunningAt
    <2>2. QED
      BY <1>26, <1>28, <2>1 DEF RunQueueOf
  <1>30. /\ f \in IntBooks /\ RunQueueOf(f, R)
         /\ f.prio = e.prio /\ f.hist = e.hist
         /\ f.blpr = e.blpr /\ f.carried = e.carried
    BY <1>4, <1>13, <1>16, <1>28, <1>29, RunnableFacts, ZenonT(30)
  <1> HIDE DEF f
  <1> DEFINE z == books'
  <1>31. z = [f EXCEPT !.blpr = [f.blpr EXCEPT ![m] = newp]]
    BY <1>6, <1>30 DEF IntBooks, Books, b, d, e, f
  <1> HIDE DEF z
  <1>32. /\ z \in IntBooks /\ z.prio = e.prio /\ z.hist = e.hist /\ z.rtr = f.rtr
         /\ z.blpr = [b.blpr EXCEPT ![m] = newp]
    <2>1. f.blpr = b.blpr
      BY <1>26, <1>28, <1>30
    <2>2. [b.blpr EXCEPT ![m] = newp] \in [Objects -> Levels]
      BY <1>17, <1>18
    <2>3. QED
      BY <1>30, <1>31, <2>1, <2>2 DEF IntBooks, Books, Levels
  <1>33. z.blpr[m] = newp /\ \A o \in Objects : o # m => z.blpr[o] = b.blpr[o]
    BY <1>3, <1>18, <1>32
  <1>34. RunQueueOf(z, R)
    BY <1>30, <1>32 DEF RunQueueOf, RunningAt
  <1>35. \A v \in Threads : v # t /\ v # u => z.prio[v] = b.prio[v]
    BY <1>26, <1>28, <1>32
  <1>36. ObjectsOf(z, W, {})
    <2>1. ASSUME NEW o \in Objects PROVE z.blpr[o] = Least(z, W[o])
      <3>1. \A v \in W[o] : z.prio[v] = b.prio[v]
        BY <1>14, <1>15, <1>35
      <3>2. Least(z, W[o]) = Least(b, W[o])
        BY <3>1 DEF Least
      <3>3. CASE o = m
        BY <1>17, <1>33, <3>2, <3>3
      <3>4. CASE o # m
        BY <1>14, <1>16, <1>33, <3>2, <3>4
      <3>5. QED
        BY <3>3, <3>4
    <2>2. QED
      BY <2>1 DEF ObjectsOf
  <1>37. PriorityOf(z)
    <2>1. ASSUME NEW v \in Threads PROVE z.prio[v] = Highest(z.hist[v])
      <3>1. CASE v = u
        BY <1>28, <1>32, <3>1
      <3>2. CASE v # u
        <4>1. e.hist[v] = d.hist[v]
          BY <1>26, <1>28, <3>2 DEF IntBooks, Books
        <4>2. QED
          BY <1>27, <1>28, <1>32, <3>2, <4>1
      <3>3. QED
        BY <3>1, <3>2
    <2>2. QED
      BY <2>1 DEF PriorityOf
  <1>38. HistoryOf(z, holder', base)
    <2> DEFINE k == holder'
    <2>1. k[m] = u /\ \A o \in Objects : o # m => g[o] = k[o] /\ c.blpr[o] = z.blpr[o]
      BY <1>8, <1>20, <1>21, <1>33
    <2>2. ASSUME NEW v \in Threads, NEW x \in Prios
          PROVE  z.hist[v][x] =
            (c.hist[v][x] - (IF g[m] = v /\ c.blpr[m] = x THEN 1 ELSE 0))
            + (IF k[m] = v /\ z.blpr[m] = x THEN 1 ELSE 0)
      <3>1. c.hist[v][x] \in Int /\ d.hist = c.hist
        BY <1>23, <1>26
      <3>2. /\ z.hist = [c.hist EXCEPT ![u] = Plus(c.hist[u], newp)]
            /\ c.hist \in [Threads -> [Prios -> Int]] /\ c.hist[u] \in [Prios -> Int]
        <4>1. c.hist \in [Threads -> [Prios -> Int]]
          BY <1>20 DEF IntBooks, Books
        <4>2. QED
          BY <1>4, <1>26, <1>28, <1>32, <4>1
      <3>3. CASE v = u
        <4>1. z.hist[u] = Plus(c.hist[u], newp)
          BY <1>4, <3>2
        <4>2. Plus(c.hist[u], newp)[x] = c.hist[u][x] + (IF x = newp THEN 1 ELSE 0)
          <5> DEFINE l == c.hist[u]
          <5>1. l \in [Prios -> Int] /\ newp \in Levels
            BY <1>17, <3>2
          <5> HIDE DEF l
          <5>2. \A y \in Prios : Plus(l, newp)[y] = l[y] + (IF y = newp THEN 1 ELSE 0)
            BY <5>1, Entries
          <5>3. QED
            BY <5>2 DEF l
        <4>3. QED
          BY <1>21, <1>33, <2>1, <3>1, <3>3, <4>1, <4>2, SMT
      <3>4. CASE v # u
        <4>1. z.hist[v] = c.hist[v]
          BY <3>4, <3>2
        <4>2. QED
          BY <1>21, <2>1, <3>1, <3>4, <4>1, SMT
      <3>5. QED
        BY <3>3, <3>4
    <2> HIDE DEF k
    <2>3. Entered(c, g, z, k, m)
      BY <2>1, <2>2 DEF Entered
    <2>4. HistoryOf(z, k, base)
      BY <1>3, <1>20, <1>22, <1>32, <2>3, HistoryChange
    <2>5. QED
      BY <2>4 DEF k
  <1>39. Exact'
    BY <1>32, <1>34, <1>36, <1>37, <1>38 DEF Exact, W, R, z
  <1>40. (ControlOK /\ Exact /\ WaitsSound /\ Ranked /\ ~books.carried => IInv)'
    BY PutTogether, PTL
  <1>41. QED
    BY <1>10, <1>11, <1>12, <1>39, <1>40

-------------------------------------------------------------------------------
(* A thread's own priority changes. *)

\* thread_set_priority enters the new priority in place of the old one.
Owned(b, t, old, new) ==
    [b EXCEPT !.hist[t] = Plus(Minus(b.hist[t], old), new)]

\* That makes the thread's history exact again.
LEMMA OwnEntry ==
    ASSUME NEW b \in IntBooks, NEW h, NEW bs \in [Threads -> Prios],
           NEW cs \in [Threads -> Prios], NEW t \in Threads, NEW p \in Prios,
           cs[t] = p, \A v \in Threads : v # t => cs[v] = bs[v],
           HistoryOf(b, h, bs)
    PROVE  LET c == Owned(b, t, bs[t], p)
           IN  /\ c \in IntBooks /\ HistoryOf(c, h, cs)
               /\ c.prio = b.prio /\ c.blpr = b.blpr /\ c.rtr = b.rtr
               /\ c.carried = b.carried
               /\ \A v \in Threads : v # t => c.hist[v] = b.hist[v]
  <1> DEFINE l == b.hist[t]
             m == Minus(l, bs[t])
             n == Plus(m, p)
             c == [b EXCEPT !.hist[t] = n]
  <1>1. /\ b.prio \in [Threads -> Prios] /\ b.hist \in [Threads -> [Prios -> Int]]
        /\ b.blpr \in [Objects -> Levels] /\ b.rtr \in [Prios -> Int]
        /\ b.carried \in BOOLEAN
    BY DEF IntBooks, Books, Levels
  <1>2. l \in [Prios -> Int] /\ bs[t] \in Prios /\ bs[t] \in Levels /\ p \in Levels
    BY <1>1 DEF Levels
  <1> HIDE DEF l
  <1>3. /\ m \in [Prios -> Int]
        /\ \A x \in Prios : m[x] = l[x] - (IF x = bs[t] THEN 1 ELSE 0)
    BY <1>2, Entries
  <1> HIDE DEF m
  <1>4. /\ n \in [Prios -> Int]
        /\ \A x \in Prios : n[x] = m[x] + (IF x = p THEN 1 ELSE 0)
    BY <1>2, <1>3, Entries
  <1> HIDE DEF n
  <1>5. c.prio = b.prio /\ c.rtr = b.rtr /\ c.blpr = b.blpr /\ c.carried = b.carried
    OBVIOUS
  <1>6. c.hist = [b.hist EXCEPT ![t] = n]
    BY DEF IntBooks, Books
  <1>7. /\ c.hist[t] = n /\ \A v \in Threads : v # t => c.hist[v] = b.hist[v]
    BY <1>1, <1>6
  <1>8. c \in IntBooks
    <2>1. [b.hist EXCEPT ![t] = n] \in [Threads -> [Prios -> Int]]
      BY <1>1, <1>4
    <2>2. QED
      BY <1>1, <1>5, <1>6, <2>1 DEF IntBooks, Books
  <1> HIDE DEF c
  <1>9. HistoryOf(c, h, cs)
    <2>1. ASSUME NEW v \in Threads, NEW x \in Prios
          PROVE  c.hist[v][x] = (IF cs[v] = x THEN 1 ELSE 0)
                                + Cardinality(Lent(c, h, v, x))
      <3> DEFINE k == Cardinality(Lent(b, h, v, x))
      <3>1. Lent(c, h, v, x) = Lent(b, h, v, x)
        BY <1>5 DEF Lent
      <3>2. b.hist[v][x] = (IF bs[v] = x THEN 1 ELSE 0) + k
        BY DEF HistoryOf
      <3>3. k \in Nat
        BY Finite, FS_Subset, FS_CardinalityType DEF Lent
      <3> HIDE DEF k
      <3>4. c.hist[v][x] = (IF cs[v] = x THEN 1 ELSE 0) + k
        <4>1. CASE v = t
          <5>1. cs[v] = p /\ l[x] = (IF bs[t] = x THEN 1 ELSE 0) + k
            BY <3>2, <4>1 DEF l
          <5>2. c.hist[v][x] = (l[x] - (IF x = bs[t] THEN 1 ELSE 0))
                               + (IF x = p THEN 1 ELSE 0)
            BY <1>3, <1>4, <1>7, <4>1
          <5>3. QED
            BY <3>3, <5>1, <5>2, SMT
        <4>2. CASE v # t
          <5>1. cs[v] = bs[v] /\ c.hist[v] = b.hist[v]
            BY <1>7, <4>2
          <5>2. QED
            BY <3>2, <5>1
        <4>3. QED
          BY <4>1, <4>2
      <3>5. QED
        BY <3>1, <3>4 DEF k
    <2>2. QED
      BY <2>1 DEF HistoryOf
  <1>10. QED
    BY <1>5, <1>7, <1>8, <1>9 DEF Owned, c, n, m, l

\* thread_set_priority moves the thread and what it waits for.
LEMMA SetPriorityKeeps ==
    ASSUME IInv, NEW t \in Threads, NEW p \in Prios, SetPriority(t, p),
           ~books'.carried
    PROVE  IInv'
  <1> DEFINE W == Waiters
             R == Running
             own == [books EXCEPT !.hist[t] = Plus(Minus(books.hist[t], base[t]), p)]
             old == books.prio[t]
             new == Highest(own.hist[t])
             b == WithPriority(own, t, new)
             o == blocker[t]
             m == books.blpr[o]
             blpr == IF new < m THEN new
                     ELSE IF old <= m THEN QueuePriority(b, queue[o]) ELSE m
             bs == base'
  <1>1. ControlOK /\ WaitsSound /\ Exact /\ Ranked
    BY TakenApart
  <1>2. /\ state' = state /\ blocker' = blocker /\ queue' = queue
        /\ holder' = holder /\ recursion' = recursion
        /\ bs = [base EXCEPT ![t] = p]
        /\ books' = IF old = new THEN own
                    ELSE IF o = NoObject THEN b
                    ELSE IF blpr = m THEN b ELSE Inherit(b, o, blpr)
    BY DEF SetPriority, waiting
  <1>3. ControlOK' /\ WaitsSound' /\ bs \in [Threads -> Prios]
    BY <1>1, <1>2 DEF ControlOK, WaitsSound
  <1>4. Ranked'
    BY <1>1, <1>2 DEF Ranked, Ranks
  <1>5. Waiters' = W /\ Running' = R
    BY <1>2 DEF Waiters, Running
  <1>6. /\ books \in IntBooks /\ HistoryOf(books, holder, base) /\ PriorityOf(books)
        /\ RunQueueOf(books, R)
        /\ \A x \in Objects : books.blpr[x] = Least(books, W[x])
        /\ base \in [Threads -> Prios] /\ R \in SUBSET Threads
        /\ \A x \in Objects : W[x] \in SUBSET Threads /\ W[x] = ToSet(queue[x])
        /\ o \in Objects \cup {NoObject}
    BY <1>1, WaitersAreThreads DEF Exact, ObjectsOf, ControlOK
  <1>7. \A x \in Objects : (t \in W[x] <=> o = x)
    BY <1>1, <1>6 DEF WaitsSound
  <1>8. /\ own \in IntBooks /\ HistoryOf(own, holder, bs)
        /\ own.prio = books.prio /\ own.blpr = books.blpr /\ own.rtr = books.rtr
        /\ \A v \in Threads : v # t => own.hist[v] = books.hist[v]
    <2>1. bs[t] = p /\ \A v \in Threads : v # t => bs[v] = base[v]
      BY <1>2, <1>6
    <2>2. /\ books \in IntBooks /\ base \in [Threads -> Prios]
          /\ HistoryOf(books, holder, base)
          /\ bs \in [Threads -> Prios]
      BY <1>3, <1>6
    <2> HIDE DEF bs, W, R, own, old, new, b, o, m, blpr
    <2>3. LET c == Owned(books, t, base[t], p)
          IN  /\ c \in IntBooks /\ HistoryOf(c, holder, bs)
              /\ c.prio = books.prio /\ c.blpr = books.blpr /\ c.rtr = books.rtr
              /\ c.carried = books.carried
              /\ \A v \in Threads : v # t => c.hist[v] = books.hist[v]
      BY <2>1, <2>2, OwnEntry
    <2>4. own = Owned(books, t, base[t], p)
      BY DEF Owned, own
    <2>5. QED
      BY <2>3, <2>4
  <1>9. t \in R <=> state[t] = "running"
    BY DEF Running
  <1> HIDE DEF W, R, own, bs
  <1>10. RunQueueOf(own, R) /\ old \in Prios
    BY <1>6, <1>8 DEF RunQueueOf, RunningAt, IntBooks, Books
  <1>11. new \in Prios
    BY <1>3, <1>8, HistoryFacts
  <1>12. /\ b \in IntBooks /\ RunQueueOf(b, R)
         /\ b.hist = own.hist /\ b.blpr = own.blpr
         /\ b.prio[t] = new
         /\ \A v \in Threads : v # t => b.prio[v] = own.prio[v]
    <2> HIDE DEF new
    <2>1. QED
      BY <1>6, <1>8, <1>9, <1>10, <1>11, MoveFacts
  <1>13. \A v \in Threads : v # t => b.prio[v] = books.prio[v]
    BY <1>8, <1>12
  <1>14. HistoryOf(b, holder, bs) /\ PriorityOf(b)
    <2>1. \A v \in Threads : b.prio[v] = Highest(b.hist[v])
      BY <1>6, <1>8, <1>12 DEF PriorityOf
    <2>2. QED
      BY <1>8, <1>12, <2>1 DEF HistoryOf, PriorityOf, Lent
  <1>15. CASE old = new
    <2>1. books' = own
      BY <1>2, <1>15
    <2>2. PriorityOf(own)
      BY <1>6, <1>8, <1>15 DEF PriorityOf
    <2>3. ObjectsOf(own, W, {})
      BY <1>6, <1>8 DEF ObjectsOf, Least
    <2>4. Exact'
      BY <1>2, <1>5, <1>8, <1>10, <2>1, <2>2, <2>3 DEF Exact, bs
    <2>5. (ControlOK /\ Exact /\ WaitsSound /\ Ranked /\ ~books.carried => IInv)'
      BY PutTogether, PTL
    <2>6. QED
      BY <1>3, <1>4, <2>4, <2>5
  <1> HIDE DEF b, new
  <1>16. \A x \in Objects : x # o => b.blpr[x] = Least(b, W[x])
    <2>1. ASSUME NEW x \in Objects, x # o PROVE b.blpr[x] = Least(b, W[x])
      <3>1. t \notin W[x]
        BY <1>7, <2>1
      <3>2. Least(b, W[x]) = Least(books, W[x])
        BY <1>6, <1>12, <1>13, <3>1, LeastMoved
      <3>3. QED
        BY <1>6, <1>8, <1>12, <3>2
    <2>2. QED
      BY <2>1
  <1>17. CASE old # new /\ o = NoObject
    <2>1. books' = b
      BY <1>2, <1>17
    <2>2. ObjectsOf(b, W, {})
      BY <1>16, <1>17, Finite DEF ObjectsOf
    <2>3. Exact'
      BY <1>2, <1>5, <1>12, <1>14, <2>1, <2>2 DEF Exact, bs
    <2>4. (ControlOK /\ Exact /\ WaitsSound /\ Ranked /\ ~books.carried => IInv)'
      BY PutTogether, PTL
    <2>5. QED
      BY <1>3, <1>4, <2>3, <2>4
  <1>18. CASE old # new /\ o # NoObject
    <2>1. o \in Objects /\ t \in W[o]
      BY <1>6, <1>7, <1>18
    <2>2. /\ m = Least(books, W[o]) /\ b.blpr[o] = m
          /\ m \in Nat /\ new \in Nat /\ old \in Nat
      <3>1. m = Least(books, W[o]) /\ b.blpr[o] = m
        BY <1>6, <1>8, <1>12, <2>1
      <3>2. QED
        BY <1>6, <1>10, <1>11, <2>1, <3>1, LeastFacts, Finite
    <2>3. blpr = Least(b, W[o])
      <3>1. CASE new <= m
        <4>1. Least(b, W[o]) = new
          BY <1>6, <1>12, <1>13, <2>1, <2>2, <3>1, LeastMoved
        <4>2. CASE new < m
          BY <4>1, <4>2
        <4>3. CASE ~(new < m) /\ old <= m
          BY <1>6, <2>1, <4>3 DEF QueuePriority, Least
        <4>4. CASE ~(new < m) /\ ~(old <= m)
          BY <2>2, <3>1, <4>1, <4>4, SMT
        <4>5. QED
          BY <4>2, <4>3, <4>4
      <3>2. CASE ~(new <= m) /\ old <= m
        <4>1. ~(new < m)
          BY <2>2, <3>2, SMT
        <4>2. QED
          BY <1>6, <2>1, <3>2, <4>1 DEF QueuePriority, Least
      <3>3. CASE ~(new <= m) /\ ~(old <= m)
        <4>1. ~(new < m) /\ new > m /\ old > m
          BY <2>2, <3>3, SMT
        <4>2. Least(b, W[o]) = m
          BY <1>6, <1>12, <1>13, <2>1, <2>2, <4>1, LeastMoved
        <4>3. QED
          BY <3>3, <4>1, <4>2
      <3>4. QED
        BY <3>1, <3>2, <3>3
    <2>4. ObjectsOf(b, W, {o})
      BY <1>16 DEF ObjectsOf
    <2>5. blpr \in Levels
      BY <1>6, <1>12, <2>1, <2>3, LeastFacts
    <2>6. PICK N \in Nat : \E rank \in [Threads -> 0..N] : Ranks(rank)
      BY <1>1 DEF Ranked
    <2>7. PICK rank \in [Threads -> 0..N] : Ranks(rank)
      BY <2>6
    <2>8. Chain(W, R, t, o, rank)
      <3>1. rank \in [Threads -> Nat] /\ Ranks(rank)'
        BY <1>2, <2>7, SMT DEF Ranks
      <3>2. queue[o] # << >>
        BY <1>6, <2>1, EmptyList
      <3>3. holder[o] \in Threads /\ rank[t] < rank[holder[o]]
        BY <1>1, <1>18, <2>1, <2>7, <3>2 DEF WaitsSound, Ranks
      <3>4. Chain(Waiters', Running', t, o, rank)
        BY <1>1, <1>2, <1>3, <2>1, <3>1, <3>3, ChainOf
      <3>5. QED
        BY <1>5, <3>4
    <2> HIDE DEF blpr
    <2>9. /\ books' \in IntBooks /\ HistoryOf(books', holder, bs)
          /\ PriorityOf(books') /\ RunQueueOf(books', R) /\ ObjectsOf(books', W, {})
      <3>1. CASE blpr = m
        <4>1. books' = b
          BY <1>2, <1>18, <3>1
        <4>2. ObjectsOf(b, W, {})
          BY <2>2, <2>3, <2>4, <3>1 DEF ObjectsOf
        <4>3. QED
          BY <1>12, <1>14, <4>1, <4>2
      <3>2. CASE blpr # m
        <4>1. books' = Inherit(b, o, blpr)
          BY <1>2, <1>18, <3>2
        <4>2. LET c == Inherit(b, o, blpr)
              IN  /\ c \in IntBooks
                  /\ HistoryOf(c, holder, bs) /\ PriorityOf(c) /\ RunQueueOf(c, R)
                  /\ ~c.carried => ObjectsOf(c, W, {})
          BY <1>3, <1>12, <1>14, <2>3, <2>4, <2>5, <2>8, InheritFacts
        <4>3. QED
          BY <4>1, <4>2
      <3>3. QED
        BY <3>1, <3>2
    <2>10. Exact'
      BY <1>2, <1>5, <2>9 DEF Exact, bs
    <2>11. (ControlOK /\ Exact /\ WaitsSound /\ Ranked /\ ~books.carried => IInv)'
      BY PutTogether, PTL
    <2>12. QED
      BY <1>3, <1>4, <2>10, <2>11
  <1>19. QED
    BY <1>15, <1>17, <1>18

-------------------------------------------------------------------------------
(* The invariant, and what it says. *)

\* mutex_lock
LEMMA LockKeeps ==
    ASSUME IInv, NEW t \in Threads, NEW m \in Mutexes, MutexLock(t, m),
           ~books'.carried
    PROVE  IInv'
  <1>1. ControlOK /\ WaitsSound /\ m \in Objects /\ state[t] = "running"
    BY TakenApart DEF Objects, MutexLock
  <1>2. CASE /\ holder[m] = t /\ recursion[m] < MaxRecursion
             /\ recursion' = [recursion EXCEPT ![m] = @ + 1]
             /\ UNCHANGED <<waiting, base, holder, books>>
    <2>1. recursion[m] \in 0..MaxRecursion
      BY <1>1 DEF ControlOK
    <2>2. recursion[m] + 1 \in 0..MaxRecursion
      BY <1>2, <2>1, PriorityAssumption, SMT
    <2>3. recursion' \in [Mutexes -> 0..MaxRecursion]
      BY <1>1, <1>2, <2>2 DEF ControlOK
    <2>4. QED
      BY <1>2, <2>3, RecursionKeeps
  <1>3. CASE /\ holder[m] = NoThread
             /\ holder' = [holder EXCEPT ![m] = t]
             /\ UNCHANGED <<waiting, base, recursion, books>>
    <2>1. queue[m] = << >>
      BY <1>1, <1>3, PriorityAssumption DEF WaitsSound
    <2>2. QED
      BY <1>3, <2>1, HolderKeeps
  <1>4. CASE holder[m] \notin {t, NoThread} /\ Block(t, m)
    <2>1. holder[m] \in Threads
      BY <1>1, <1>4 DEF ControlOK
    <2>2. QED
      BY <1>1, <1>4, <2>1, BlockKeeps
  <1>5. QED
    BY <1>2, <1>3, <1>4 DEF MutexLock

\* mutex_unlock
LEMMA UnlockKeeps ==
    ASSUME IInv, NEW t \in Threads, NEW m \in Mutexes, MutexUnlock(t, m),
           ~books'.carried
    PROVE  IInv'
  <1>1. ControlOK /\ state[t] = "running" /\ holder[m] = t /\ base' = base
    BY TakenApart DEF MutexUnlock
  <1>2. CASE /\ recursion[m] > 0
             /\ recursion' = [recursion EXCEPT ![m] = @ - 1]
             /\ UNCHANGED <<waiting, holder, books>>
    <2>1. recursion[m] \in 0..MaxRecursion
      BY <1>1 DEF ControlOK
    <2>2. recursion[m] - 1 \in 0..MaxRecursion
      BY <1>2, <2>1, PriorityAssumption, SMT
    <2>3. recursion' \in [Mutexes -> 0..MaxRecursion]
      BY <1>1, <1>2, <2>2 DEF ControlOK
    <2>4. QED
      BY <1>1, <1>2, <2>3, RecursionKeeps
  <1>3. CASE /\ queue[m] = << >>
             /\ holder' = [holder EXCEPT ![m] = NoThread]
             /\ UNCHANGED <<waiting, recursion, books>>
    BY <1>1, <1>3, HolderKeeps
  <1>4. CASE queue[m] # << >> /\ Transfer(t, m) /\ recursion' = recursion
    BY <1>1, <1>4, TransferKeeps
  <1>5. QED
    BY <1>2, <1>3, <1>4 DEF MutexUnlock

\* queue_send
LEMMA SendKeeps ==
    ASSUME IInv, NEW t \in Threads, NEW q \in Queues, QueueSend(t, q),
           ~books'.carried
    PROVE  IInv'
  <1>1. q \in Objects /\ state[t] = "running" /\ Block(t, q)
    BY DEF Objects, QueueSend
  <1>2. holder[q] \in Threads
    BY <1>1, TakenApart DEF WaitsSound
  <1>3. QED
    BY <1>1, <1>2, BlockKeeps

\* Every step that carries no priority over keeps the invariant.
LEMMA NextKeeps == IInv /\ [Next]_vars => IInv'
  <1> SUFFICES ASSUME IInv, [Next]_vars PROVE IInv'
    OBVIOUS
  <1>1. CASE Next
    <2>1. ~books'.carried /\ Step
      BY <1>1 DEF Next
    <2>2. CASE \E t \in Threads, m \in Mutexes : MutexLock(t, m) \/ MutexUnlock(t, m)
      BY <2>1, <2>2, LockKeeps, UnlockKeeps
    <2>3. CASE \E t \in Threads, q \in Queues : QueueSend(t, q) \/ Release(t, q)
      BY <2>1, <2>3, SendKeeps, ReleaseKeeps
    <2>4. CASE \E t \in Threads : Sleep(t) \/ Wake(t)
      BY <2>4, SleepKeeps
    <2>5. CASE \E t \in Threads, p \in Prios : SetPriority(t, p)
      BY <2>1, <2>5, SetPriorityKeeps
    <2>6. QED
      BY <2>1, <2>2, <2>3, <2>4, <2>5 DEF Step
  <1>2. CASE UNCHANGED vars
    <2>1. /\ UNCHANGED <<waiting, base, holder, books>>
          /\ recursion' = recursion
      BY <1>2 DEF vars
    <2>2. recursion' \in [Mutexes -> 0..MaxRecursion]
      BY <2>1, TakenApart DEF ControlOK
    <2>3. QED
      BY <2>1, <2>2, RecursionKeeps
  <1>3. QED
    BY <1>1, <1>2

\* Every state that the code reaches without carrying a priority over has exact
\* books and no circle of waits.
THEOREM Invariance == Spec => []IInv
  BY InitEstablishes, NextKeeps, PTL DEF Spec

\* The last thread of the numbering among some that wait does not wait for one
\* of them.
LEMMA NumberedNoCircle ==
    ASSUME ControlOK, Ranked, WaitsSound
    PROVE  NoCircle
  <1> SUFFICES ASSUME NEW S \in SUBSET Threads, S # {},
                      \A t \in S : blocker[t] # NoObject /\ holder[blocker[t]] \in S
               PROVE  FALSE
    BY DEF NoCircle
  <1>1. PICK N \in Nat : \E rank \in [Threads -> 0..N] : Ranks(rank)
    BY DEF Ranked
  <1>2. PICK rank \in [Threads -> 0..N] : Ranks(rank)
    BY <1>1
  <1> DEFINE A == {N - rank[t] : t \in S}
  <1>3. \A t \in Threads : rank[t] \in Int /\ N - rank[t] \in Nat
    BY <1>2, SMT
  <1>4. A \in SUBSET Nat /\ A # {}
    BY <1>3
  <1>5. PICK a \in A : \A x \in A : a <= x
    BY <1>4, SmallestOf
  <1>6. PICK t \in S : a = N - rank[t]
    BY <1>5
  <1>7. holder[blocker[t]] \in S /\ rank[t] < rank[holder[blocker[t]]]
    BY <1>2, <1>6 DEF Ranks
  <1> DEFINE w == holder[blocker[t]]
  <1>8. a <= N - rank[w]
    BY <1>5, <1>7
  <1>9. rank[t] \in Int /\ rank[w] \in Int
    BY <1>3, <1>6, <1>7
  <1> HIDE DEF w
  <1>10. QED
    BY <1>6, <1>7, <1>8, <1>9, SMT DEF w

\* After any sequence of waits, handovers, releases in any order and changes of
\* priority the histogram of each thread, the run queue's and the priority of
\* each object say exactly who waits for whom and how urgently, each waiting
\* thread is in the one queue it waits in, and no threads wait in a circle.
THEOREM BooksSoundAlways == Spec => []BooksSound
  <1>1. IInv => BooksSound
    BY TakenApart, NumberedNoCircle DEF IInv, BooksSound
  <1>2. QED
    BY <1>1, Invariance, PTL

\* What waits for what: a thread waits on itself, and on whatever the holder of
\* the object it waits for waits on.
LEMMA WaitsOnFacts ==
    ASSUME NEW t \in Threads
    PROVE  /\ WaitsOn(t, t)
           /\ \A v \in Threads : /\ blocker[v] # NoObject
                                 /\ WaitsOn(holder[blocker[v]], t)
                                 => WaitsOn(v, t)
           /\ \A v \in Threads, S \in SUBSET Threads :
                /\ WaitsOn(v, t) /\ v \in S
                /\ \A w \in S : blocker[w] # NoObject => holder[blocker[w]] \in S
                => t \in S
  BY DEF WaitsOn

\* A thread that waits for an object keeps its holder as urgent as itself.
LEMMA HolderAsUrgent ==
    ASSUME ControlOK, WaitsSound, Exact, NEW v \in Threads, blocker[v] # NoObject
    PROVE  /\ blocker[v] \in Objects /\ holder[blocker[v]] \in Threads
           /\ books.prio[holder[blocker[v]]] <= books.prio[v]
  <1> DEFINE o == blocker[v]
             w == holder[o]
             S == Waiters[o]
             m == books.blpr[o]
             pr == books.prio[v]
  <1>1. o \in Objects /\ v \in ToSet(queue[o]) /\ S = ToSet(queue[o])
        /\ S \in SUBSET Threads /\ queue[o] \in Seq(Threads)
    <2>1. o \in Objects
      BY DEF ControlOK
    <2>2. QED
      BY <2>1, WaitersAreThreads DEF WaitsSound
  <1>2. w \in Threads
    BY <1>1, EmptyList DEF WaitsSound
  <1>3. m = Least(books, S) /\ books \in IntBooks /\ base \in [Threads -> Prios]
    BY <1>1 DEF Exact, ObjectsOf, ControlOK
  <1> HIDE DEF S
  <1>4. m \in Prios /\ m <= pr
    BY <1>1, <1>3, LeastFacts
  <1>5. Highest(books.hist[w]) <= m
    BY <1>1, <1>2, <1>3, <1>4, HistoryFacts DEF Exact
  <1>6. books.prio[w] = Highest(books.hist[w])
    BY <1>2 DEF Exact, PriorityOf
  <1>7. m \in Nat /\ pr \in Nat /\ books.prio[w] \in Nat
    BY <1>2, <1>3, <1>4, Finite DEF IntBooks, Books
  <1> HIDE DEF m, pr, w
  <1>8. books.prio[w] <= pr
    BY <1>4, <1>5, <1>6, <1>7, SMT
  <1>9. QED
    BY <1>1, <1>2, <1>8 DEF pr, w

\* A thread is at least as urgent as every thread that waits on it.
LEMMA AsUrgentAsWaiters ==
    ASSUME ControlOK, WaitsSound, Exact, NEW t \in Threads, NEW v \in Threads,
           WaitsOn(v, t)
    PROVE  books.prio[t] <= base[v]
  <1> DEFINE S == {w \in Threads : books.prio[w] <= books.prio[v]}
  <1>1. /\ books \in IntBooks /\ books.prio \in [Threads -> Prios]
        /\ \A w \in Threads : books.prio[w] \in Nat /\ base[w] \in Nat
        /\ base \in [Threads -> Prios]
    BY Finite DEF Exact, IntBooks, Books, ControlOK
  <1>2. v \in S /\ S \in SUBSET Threads
    BY <1>1
  <1>3. ASSUME NEW w \in S, blocker[w] # NoObject PROVE holder[blocker[w]] \in S
    <2> DEFINE h == holder[blocker[w]]
    <2>1. h \in Threads /\ books.prio[h] <= books.prio[w]
      BY <1>3, HolderAsUrgent
    <2> HIDE DEF h
    <2>2. books.prio[h] <= books.prio[v]
      BY <1>1, <1>3, <2>1, SMT
    <2>3. QED
      BY <2>1, <2>2 DEF h
  <1>4. t \in S
    BY <1>2, <1>3, WaitsOnFacts
  <1>5. books.prio[v] <= base[v]
    BY <1>1, HistoryFacts DEF Exact, PriorityOf
  <1>6. QED
    BY <1>1, <1>4, <1>5, SMT

\* And as urgent as one of them by its own priority.
LEMMA UrgentThroughOne ==
    ASSUME ControlOK, WaitsSound, Exact, Ranked, NEW t \in Threads
    PROVE  \E v \in Threads : WaitsOn(v, t) /\ base[v] = books.prio[t]
  <1> DEFINE T == {w \in Threads : WaitsOn(w, t) /\ books.prio[w] = books.prio[t]}
  <1>1. PICK N \in Nat : \E rank \in [Threads -> 0..N] : Ranks(rank)
    BY DEF Ranked
  <1>2. PICK rank \in [Threads -> 0..N] : Ranks(rank)
    BY <1>1
  <1> DEFINE A == {rank[w] : w \in T}
  <1>3. t \in T
    BY WaitsOnFacts
  <1>4. \A w \in Threads : rank[w] \in Nat
    BY <1>2, SMT
  <1>5. A \in SUBSET Nat /\ A # {}
    BY <1>3, <1>4
  <1>6. PICK a \in A : \A x \in A : a <= x
    BY <1>5, SmallestOf
  <1>7. PICK w \in T : a = rank[w]
    BY <1>6
  <1>8. /\ books \in IntBooks /\ books.prio \in [Threads -> Prios]
        /\ base \in [Threads -> Prios] /\ w \in Threads
        /\ books.prio[w] = Highest(books.hist[w])
        /\ HistoryOf(books, holder, base)
    BY <1>7 DEF Exact, IntBooks, Books, ControlOK, PriorityOf
  <1>9. \/ books.prio[w] = base[w]
        \/ \E o \in Objects : holder[o] = w /\ books.blpr[o] = books.prio[w]
    BY <1>8, HistoryFacts
  <1>10. CASE books.prio[w] = base[w]
    BY <1>7, <1>10
  <1>11. CASE \E o \in Objects : holder[o] = w /\ books.blpr[o] = books.prio[w]
    <2>1. PICK o \in Objects : holder[o] = w /\ books.blpr[o] = books.prio[w]
      BY <1>11
    <2>2. /\ Waiters[o] \in SUBSET Threads /\ Waiters[o] = ToSet(queue[o])
          /\ books.blpr[o] = Least(books, Waiters[o])
      BY WaitersAreThreads DEF Exact, ObjectsOf
    <2>3. books.prio[w] # Idle
      BY <1>8, Finite
    <2>4. PICK v \in Waiters[o] : books.prio[v] = books.prio[w]
      BY <1>8, <2>1, <2>2, <2>3, LeastFacts
    <2>5. v \in Threads /\ blocker[v] = o /\ o # NoObject
      BY <2>2, <2>4, Finite DEF WaitsSound
    <2>6. WaitsOn(v, t)
      BY <1>7, <2>1, <2>5, WaitsOnFacts
    <2>7. v \in T
      BY <1>7, <2>4, <2>5, <2>6
    <2>8. rank[v] < rank[w]
      BY <1>2, <2>1, <2>5 DEF Ranks
    <2>9. rank[w] <= rank[v]
      BY <1>6, <1>7, <2>7
    <2>10. rank[v] \in Nat /\ rank[w] \in Nat
      BY <1>4, <1>8, <2>5
    <2>11. QED
      BY <2>8, <2>9, <2>10, SMT
  <1>12. QED
    BY <1>9, <1>10, <1>11

\* "A lower priority thread inherits the priority of the highest priority thread
\* blocked waiting for it", through chains of any length and until the last
\* waiter has gone: no thread runs at a priority less urgent than that of one
\* that waits on it, and none at a more urgent one than all of these.
THEOREM InheritsHighestAlways == Spec => []InheritsHighest
  <1>1. ASSUME IInv, NEW t \in Threads
        PROVE  books.prio[t] = Min({base[u] : u \in {v \in Threads : WaitsOn(v, t)}})
    <2> DEFINE P == {base[u] : u \in {v \in Threads : WaitsOn(v, t)}}
               pr == books.prio[t]
    <2>1. ControlOK /\ WaitsSound /\ Exact /\ Ranked
      BY <1>1, TakenApart
    <2>2. pr \in P
      BY <2>1, UrgentThroughOne
    <2>3. \A x \in P : pr <= x
      BY <2>1, AsUrgentAsWaiters
    <2>4. P \in SUBSET Nat
      BY <2>1, Finite, ZenonT(30) DEF ControlOK
    <2> HIDE DEF P, pr
    <2>5. Min(P) \in P /\ Min(P) <= pr
      BY <2>2, <2>4, SmallestOf
    <2>6. pr <= Min(P) /\ pr \in Nat /\ Min(P) \in Nat
      BY <2>2, <2>3, <2>4, <2>5
    <2>7. pr = Min(P)
      BY <2>5, <2>6, SMT
    <2>8. QED
      BY <2>7 DEF P, pr
  <1>2. IInv => InheritsHighest
    BY <1>1 DEF InheritsHighest
  <1>3. QED
    BY <1>2, Invariance, PTL

===============================================================================
