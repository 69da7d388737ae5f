--------------------------- MODULE EventQueue_proofs ---------------------------
(***************************************************************************)
(* Machine-checked proofs about EventQueue, for any senders, any length of *)
(* the ring and any number of pending events, with room for them or not.   *)
(*                                                                         *)
(* The sender map is read by distance from the head: with counters that    *)
(* wrap at a multiple of the ring's length, the slots in use are those     *)
(* less than Count from the head, and an event slides by one of them.      *)
(***************************************************************************)
EXTENDS EventQueue, Integers, Sequences, FiniteSets, SequencesExt,
        FiniteSetTheorems, SequenceTheorems, TLAPS

-------------------------------------------------------------------------------
\* Lists: what the operations on them do to what is in them.

\* A thread that joins a queue is its last.
LEMMA AppendFacts ==
    ASSUME NEW S, NEW q \in Seq(S), NEW t \in S
    PROVE  /\ Append(q, t) \in Seq(S)
           /\ Len(q) \in Nat
           /\ Append(q, t) # << >>
           /\ Len(Append(q, t)) = Len(q) + 1
           /\ \A i \in 1..Len(q) : Append(q, t)[i] = q[i]
           /\ Append(q, t)[Len(q) + 1] = t
           /\ q # << >> => Head(Append(q, t)) = Head(q) /\ Len(q) > 0
           /\ q = << >> => Head(Append(q, t)) = t /\ Len(q) = 0
  BY AppendProperties, LenProperties, EmptySeq, SMT

-------------------------------------------------------------------------------
\* Numbers.

\* Quotient and remainder.
LEMMA DivMod ==
    ASSUME NEW n \in Nat \ {0}, NEW a \in Int
    PROVE  a % n \in 0..(n - 1) /\ a \div n \in Int /\ a = n * (a \div n) + (a % n)
  BY SMT

\* A remainder is found from any multiple it is added to.
LEMMA ModUnique ==
    ASSUME NEW n \in Nat \ {0}, NEW k \in Int, NEW r \in 0..(n - 1)
    PROVE  (n * k + r) % n = r
  BY SMT

\* Adding multiples of n keeps the remainder.
LEMMA ModPlus ==
    ASSUME NEW n \in Nat \ {0}, NEW a \in Int, NEW k \in Int
    PROVE  (a + n * k) % n = a % n
  <1>1. PICK q \in Int, r \in 0..(n - 1) : a = n * q + r /\ a % n = r
    BY DivMod
  <1>2. a + n * k = n * (q + k) + r /\ q + k \in Int
    BY <1>1, SMT
  <1>3. QED
    BY <1>1, <1>2, ModUnique

\* What is added to a wrapped number can be added before it wraps.
LEMMA ModOfSum ==
    ASSUME NEW n \in Nat \ {0}, NEW a \in Int, NEW b \in Int
    PROVE  ((a % n) + b) % n = (a + b) % n
  <1>1. PICK k \in Int : a = n * k + (a % n) /\ a % n \in Int
    <2>1. a \div n \in Int /\ a = n * (a \div n) + (a % n) /\ a % n \in 0..(n - 1)
      BY DivMod
    <2>2. a % n \in Int
      BY <2>1, SMT
    <2>3. QED
      BY <2>1, <2>2
  <1> DEFINE r == a % n
  <1>2. a = n * k + r /\ r \in Int
    BY <1>1
  <1> HIDE DEF r
  <1>3. a + b = (r + b) + n * k /\ r + b \in Int
    BY <1>2, SMT
  <1>4. (a + b) % n = (r + b) % n
    BY <1>3, ModPlus, ZenonT(30)
  <1>5. QED
    BY <1>4 DEF r

\* Differences may be reduced before they are taken.
LEMMA ModOfDifference ==
    ASSUME NEW n \in Nat \ {0}, NEW a \in Int, NEW b \in Int
    PROVE  ((a % n) - (b % n)) % n = (a - b) % n
  <1> DEFINE r == a % n
             s == b % n
  <1>1. r \in Int /\ s \in Int
    <2>1. r \in 0..(n - 1) /\ s \in 0..(n - 1)
      BY DivMod
    <2>2. QED
      BY <2>1, SMT
  <1>2. PICK k \in Int : b = n * k + s
    BY DivMod
  <1>3. (r + (-s)) % n = (a + (-s)) % n
    <2>1. -s \in Int
      BY <1>1, SMT
    <2>2. QED
      BY <2>1, ModOfSum
  <1> HIDE DEF r, s
  <1>4. a + (-s) = (a - b) + n * k /\ a - b \in Int
    BY <1>1, <1>2, SMT
  <1>5. (a + (-s)) % n = (a - b) % n
    BY <1>4, ModPlus, ZenonT(30)
  <1>6. r - s = r + (-s)
    BY <1>1, SMT
  <1>7. QED
    BY <1>3, <1>5, <1>6 DEF r, s

\* The remainder of a number that is close to zero.
LEMMA SmallMod ==
    ASSUME NEW n \in Nat \ {0}, NEW x \in Int, -n <= x, x < n
    PROVE  x % n = IF x < 0 THEN x + n ELSE x
  <1>1. CASE x < 0
    <2>1. x = n * (-1) + (x + n) /\ x + n \in 0..(n - 1) /\ -1 \in Int
      BY <1>1, SMT
    <2>2. (n * (-1) + (x + n)) % n = x + n
      BY <2>1, ModUnique
    <2>3. QED
      BY <1>1, <2>1, <2>2
  <1>2. CASE ~(x < 0)
    <2>1. x = n * 0 + x /\ x \in 0..(n - 1) /\ 0 \in Int
      BY <1>2, SMT
    <2>2. (n * 0 + x) % n = x
      BY <2>1, ModUnique
    <2>3. QED
      BY <1>2, <2>1, <2>2
  <1>3. QED
    BY <1>1, <1>2

-------------------------------------------------------------------------------

\* How many slots s is from the head of the ring that starts at r.
From(s, r) == (s - r) % Length

\* A named thread is in the part of the ring between read and write.
Windowed == \A s \in Slots : senders[s] # NoThread => From(s, read) < Count

\* No thread is named twice, or named and taken by the owner.
NamedOnce ==
    /\ \A s, z \in Slots : senders[s] # NoThread /\ senders[s] = senders[z] => s = z
    /\ \A s \in Slots : curr # NoThread => senders[s] # curr

\* Every thread that is blocked has been taken or is named.
Registered ==
    /\ curr # NoThread => sender[curr] = "blocked"
    /\ \A t \in Senders :
          sender[t] = "blocked" => curr = t \/ \E s \in Slots : senders[s] = t

\* The owner answers the message it took before it waits for the next, and
\* nobody waits on a queue that has been deleted.
Answered ==
    /\ owner # "busy" => curr = NoThread
    /\ ~open => \A t \in Senders : sender[t] = "free"

\* The owner is in the wait list only while there is nothing for it to take.
Woken ==
    /\ owner \in {"blocked", "blocked_tmo"} => queued
    /\ owner = "busy" => ~queued
    /\ queued => Count = 0

IInv == /\ TypeOK /\ SendersWait /\ Windowed /\ NamedOnce
        /\ Registered /\ Answered /\ Woken

-------------------------------------------------------------------------------
\* What the constants' assumptions say, as arithmetic needs it.
LEMMA Sizes ==
    /\ Length \in Nat \ {0} /\ Wrap \in Nat \ {0} /\ MaxPending \in Nat
    /\ MaxPending < Wrap /\ NoThread \notin Senders
    /\ \E m \in Int : Wrap = Length * m
  <1>1. /\ Length \in Nat \ {0} /\ Wrap \in Nat /\ Wrap % Length = 0
        /\ MaxPending \in Nat /\ MaxPending < Wrap /\ NoThread \notin Senders
    BY QueueAssumption
  <1>2. Wrap \in Nat \ {0} /\ Wrap \in Int
    BY <1>1, SMT
  <1>3. Wrap \div Length \in Int /\ Wrap = Length * (Wrap \div Length) + 0
    BY <1>1, <1>2, DivMod
  <1>4. \A x \in Int : Wrap = x + 0 => Wrap = x
    BY SMT
  <1>5. Length * (Wrap \div Length) \in Int
    BY <1>1, <1>3, SMT
  <1>6. QED
    BY <1>1, <1>2, <1>3, <1>4, <1>5

\* A counter that has wrapped still points to its slot.
LEMMA SlotOfWrapped ==
    ASSUME NEW a \in Int
    PROVE  (a % Wrap) % Length = a % Length /\ a % Wrap \in Int
  <1>1. PICK m \in Int : Wrap = Length * m
    BY Sizes
  <1>2. PICK d \in Int, r \in 0..(Wrap - 1) : a = Wrap * d + r /\ a % Wrap = r
    BY Sizes, DivMod
  <1>3. Length \in Int /\ r \in Int
    BY Sizes, SMT
  <1>4. \A l, x, y, z \in Int : (l * x) * y + z = z + l * (x * y) /\ x * y \in Int
    BY SMT
  <1>5. a = r + Length * (m * d) /\ m * d \in Int
    BY <1>1, <1>2, <1>3, <1>4
  <1>6. a % Length = r % Length
    BY <1>3, <1>5, Sizes, ModPlus
  <1>7. QED
    BY <1>2, <1>3, <1>6

\* Where the slots are.
LEMMA InRing ==
    ASSUME TypeOK
    PROVE  /\ read \in Int /\ write \in Int
           /\ Count \in 0..(Wrap - 1) /\ Count \in Nat
           /\ WriteSlot \in Slots /\ WriteSlot = Slot(Count)
           /\ \A k \in Int : Slot(k) \in Slots /\ From(Slot(k), read) = k % Length
           /\ \A s \in Slots : /\ From(s, read) \in Slots /\ s \in Int
                               /\ Slot(From(s, read)) = s
           /\ \A s, z \in Slots : From(s, read) = From(z, read) => s = z
  <1>1. read \in Int /\ write \in Int /\ write - read \in Int
    <2>1. read \in 0..(Wrap - 1) /\ write \in 0..(Wrap - 1)
      BY DEF TypeOK
    <2>2. QED
      BY <2>1, SMT
  <1>2. Count \in 0..(Wrap - 1) /\ Count \in Nat
    <2>1. Count \in 0..(Wrap - 1)
      BY <1>1, Sizes, DivMod DEF Count
    <2>2. QED
      BY <2>1, SMT
  <1>3. \A k \in Int : Slot(k) = (read + k) % Length /\ Slot(k) \in Slots
    <2> SUFFICES ASSUME NEW k \in Int
                 PROVE  Slot(k) = (read + k) % Length /\ Slot(k) \in Slots
      OBVIOUS
    <2>1. read + k \in Int
      BY <1>1, SMT
    <2>2. Slot(k) = (read + k) % Length
      BY <2>1, SlotOfWrapped DEF Slot
    <2>3. QED
      BY <2>1, <2>2, Sizes, DivMod DEF Slots
  <1>4. \A k \in Int : From(Slot(k), read) = k % Length
    <2> SUFFICES ASSUME NEW k \in Int PROVE From(Slot(k), read) = k % Length
      OBVIOUS
    <2>1. read + k \in Int /\ -read \in Int /\ (read + k) + (-read) = k
      BY <1>1, SMT
    <2>2. (((read + k) % Length) + (-read)) % Length = k % Length
      <3>1. (((read + k) % Length) + (-read)) % Length
              = ((read + k) + (-read)) % Length
        BY <2>1, Sizes, ModOfSum
      <3>2. QED
        BY <2>1, <3>1
    <2>3. Slot(k) = (read + k) % Length /\ Slot(k) \in Int
      <3>1. Slot(k) \in 0..(Length - 1)
        BY <1>3 DEF Slots
      <3>2. QED
        BY <1>3, <3>1, SMT
    <2>4. Slot(k) - read = Slot(k) + (-read)
      BY <1>1, <2>3, SMT
    <2>5. QED
      BY <2>2, <2>3, <2>4 DEF From
  <1>5. ASSUME NEW s \in Slots
        PROVE  /\ From(s, read) \in Slots /\ s \in Int /\ Slot(From(s, read)) = s
    <2>1. s \in 0..(Length - 1) /\ s \in Int /\ s - read \in Int
          /\ (s - read) + read = s /\ -Length <= s /\ s < Length /\ ~(s < 0)
      <3>1. s \in 0..(Length - 1)
        BY DEF Slots
      <3>2. QED
        BY <1>1, <3>1, Sizes, SMT
    <2>2. From(s, read) \in Slots
      BY <2>1, Sizes, DivMod DEF From, Slots
    <2>3. From(s, read) \in Int /\ read + From(s, read) = From(s, read) + read
      <3>1. From(s, read) \in 0..(Length - 1)
        BY <2>2 DEF Slots
      <3>2. QED
        BY <1>1, <3>1, SMT
    <2>4. (From(s, read) + read) % Length = s % Length
      <3>1. (((s - read) % Length) + read) % Length = ((s - read) + read) % Length
        BY <1>1, <2>1, Sizes, ModOfSum
      <3>2. QED
        BY <2>1, <3>1 DEF From
    <2>5. s % Length = s
      BY <2>1, Sizes, SmallMod
    <2>6. QED
      BY <1>3, <2>1, <2>2, <2>3, <2>4, <2>5
  <1>6. WriteSlot = Slot(Count) /\ WriteSlot \in Slots
    <2>1. read + Count = Count + read /\ Count \in Int
          /\ (write - read) + read = write
      BY <1>1, <1>2, SMT
    <2>2. (Count + read) % Wrap = write % Wrap
      <3>1. (((write - read) % Wrap) + read) % Wrap
              = ((write - read) + read) % Wrap
        BY <1>1, Sizes, ModOfSum
      <3>2. QED
        BY <2>1, <3>1 DEF Count
    <2>3. (write % Wrap) % Length = write % Length
      BY <1>1, SlotOfWrapped
    <2>4. WriteSlot = Slot(Count)
      BY <2>1, <2>2, <2>3 DEF WriteSlot, Slot
    <2>5. QED
      BY <1>3, <2>1, <2>4
  <1>7. QED
    BY <1>1, <1>2, <1>3, <1>4, <1>5, <1>6

\* An event more at the end, or one less at the head.
LEMMA OneMore ==
    ASSUME TypeOK, Count < MaxPending
    PROVE  /\ Succ(write) \in 0..(Wrap - 1)
           /\ (Succ(write) - read) % Wrap = Count + 1
  <1>1. /\ read \in Int /\ write \in Int /\ Count \in Int
        /\ write + 1 \in Int /\ -read \in Int /\ write - read \in Int
        /\ Count + 1 \in 0..(Wrap - 1)
    <2>1. read \in Int /\ write \in Int /\ Count \in 0..(Wrap - 1)
      BY InRing
    <2>2. QED
      BY <2>1, Sizes, SMT
  <1>2. Succ(write) \in 0..(Wrap - 1)
    BY <1>1, Sizes, DivMod DEF Succ
  <1>3. PICK d \in Int : write - read = Wrap * d + Count
    BY <1>1, Sizes, DivMod DEF Count
  <1>4. (write + 1) + (-read) = Wrap * d + (Count + 1)
    <2>1. \A x \in Int : write - read = x + Count
                           => (write + 1) + (-read) = x + (Count + 1)
      BY <1>1, SMT
    <2>2. Wrap * d \in Int
      BY Sizes, SMT
    <2>3. QED
      BY <1>3, <2>1, <2>2
  <1>5. (Succ(write) + (-read)) % Wrap = Count + 1
    <2>1. (Succ(write) + (-read)) % Wrap = ((write + 1) + (-read)) % Wrap
      BY <1>1, Sizes, ModOfSum DEF Succ
    <2>2. (Wrap * d + (Count + 1)) % Wrap = Count + 1
      BY <1>1, Sizes, ModUnique
    <2>3. QED
      BY <1>4, <2>1, <2>2
  <1>6. Succ(write) - read = Succ(write) + (-read)
    BY <1>1, <1>2, SMT
  <1>7. QED
    BY <1>2, <1>5, <1>6

\* Taking the head moves every other slot one nearer, and its own to the end.
LEMMA OneLess ==
    ASSUME TypeOK, Count > 0
    PROVE  /\ Succ(read) \in 0..(Wrap - 1)
           /\ (write - Succ(read)) % Wrap = Count - 1
           /\ \A s \in Slots :
                From(s, Succ(read)) = IF From(s, read) = 0 THEN Length - 1
                                      ELSE From(s, read) - 1
  <1>1. /\ read \in Int /\ write \in Int /\ Count \in Int
        /\ read + 1 \in Int /\ write - read \in Int
        /\ Count - 1 \in 0..(Wrap - 1)
        /\ write - (read + 1) \in Int
    <2>1. read \in Int /\ write \in Int /\ Count \in 0..(Wrap - 1)
      BY InRing
    <2>2. QED
      BY <2>1, Sizes, SMT
  <1>2. Succ(read) \in 0..(Wrap - 1)
    BY <1>1, Sizes, DivMod DEF Succ
  <1>3. PICK d \in Int : write - read = Wrap * d + Count
    BY <1>1, Sizes, DivMod DEF Count
  <1>4. write - (read + 1) = Wrap * d + (Count - 1)
    <2>1. \A x \in Int : write - read = x + Count
                           => write - (read + 1) = x + (Count - 1)
      BY <1>1, SMT
    <2>2. Wrap * d \in Int
      BY Sizes, SMT
    <2>3. QED
      BY <1>3, <2>1, <2>2
  <1>5. (write - Succ(read)) % Wrap = Count - 1
    <2>1. write % Wrap = write
      <3>1. write \in 0..(Wrap - 1)
        BY DEF TypeOK
      <3>2. -Wrap <= write /\ write < Wrap /\ ~(write < 0)
        BY <3>1, Sizes, SMT
      <3>3. QED
        BY <1>1, <3>2, Sizes, SmallMod
    <2>2. ((write % Wrap) - Succ(read)) % Wrap = (write - (read + 1)) % Wrap
      BY <1>1, Sizes, ModOfDifference DEF Succ
    <2>3. (write - (read + 1)) % Wrap = Count - 1
      BY <1>1, <1>4, Sizes, ModUnique
    <2>4. QED
      BY <2>1, <2>2, <2>3
  <1>6. ASSUME NEW s \in Slots
        PROVE  From(s, Succ(read)) = IF From(s, read) = 0 THEN Length - 1
                                     ELSE From(s, read) - 1
    <2> DEFINE o == From(s, read)
    <2>1. s \in Int /\ o \in 0..(Length - 1) /\ s - read \in Int /\ -1 \in Int
      BY <1>1, InRing, SMT DEF Slots
    <2>2. (s - (Succ(read) % Length)) % Length = (o + (-1)) % Length
      <3>1. Succ(read) % Length = (read + 1) % Length
        BY <1>1, SlotOfWrapped DEF Succ
      <3>2. ((s - read) + (-1)) = s - (read + 1) /\ s - (read + 1) \in Int
        BY <1>1, <2>1, SMT
      <3>3. (o + (-1)) % Length = (s - (read + 1)) % Length
        BY <2>1, <3>2, Sizes, ModOfSum DEF From
      <3>4. s % Length = s
        <4>1. s \in 0..(Length - 1)
          BY DEF Slots
        <4>2. -Length <= s /\ s < Length /\ ~(s < 0)
          BY <4>1, Sizes, SMT
        <4>3. QED
          BY <2>1, <4>2, Sizes, SmallMod
      <3>5. ((s % Length) - ((read + 1) % Length)) % Length
              = (s - (read + 1)) % Length
        BY <1>1, <2>1, Sizes, ModOfDifference
      <3>6. QED
        BY <3>1, <3>3, <3>4, <3>5
    <2>3. (s - Succ(read)) % Length = (s - (Succ(read) % Length)) % Length
      <3>1. Succ(read) \in Int
        BY <1>2, SMT
      <3>2. s % Length = s
        <4>1. s \in 0..(Length - 1)
          BY DEF Slots
        <4>2. -Length <= s /\ s < Length /\ ~(s < 0)
          BY <4>1, Sizes, SMT
        <4>3. QED
          BY <2>1, <4>2, Sizes, SmallMod
      <3>3. ((s % Length) - (Succ(read) % Length)) % Length
              = (s - Succ(read)) % Length
        BY <2>1, <3>1, Sizes, ModOfDifference
      <3>4. QED
        BY <3>2, <3>3
    <2> HIDE DEF o
    <2>4. o + (-1) \in Int /\ -Length <= o + (-1) /\ o + (-1) < Length
      BY <2>1, Sizes, SMT
    <2>5. (o + (-1)) % Length = IF o + (-1) < 0 THEN (o + (-1)) + Length ELSE o + (-1)
      BY <2>4, Sizes, SmallMod
    <2>6. (IF o + (-1) < 0 THEN (o + (-1)) + Length ELSE o + (-1))
            = IF o = 0 THEN Length - 1 ELSE o - 1
      BY <2>1, Sizes, SMT
    <2>7. QED
      BY <2>2, <2>3, <2>5, <2>6 DEF From, o
  <1>7. QED
    BY <1>2, <1>5, <1>6

-------------------------------------------------------------------------------
\* Where the event that slides into slot s comes from.
Src(s, k) == IF From(s, read) \in 1..k THEN (s - 1) % Length ELSE s

\* Closing the gap k behind the head moves what lies between by one slot.
LEMMA SlidFrom ==
    ASSUME TypeOK, NEW k \in Slots, NEW s \in Slots
    PROVE  /\ Src(s, k) \in Slots
           /\ \A f : Slid(f, k)[s] = f[Src(s, k)]
           /\ From(Src(s, k), read) = IF From(s, read) \in 1..k
                                      THEN From(s, read) - 1 ELSE From(s, read)
  <1>1. \A f : Slid(f, k)[s] = f[Src(s, k)]
    BY DEF Slid, Src, From
  <1>2. CASE From(s, read) \in 1..k
    <2> DEFINE o == From(s, read)
               z == (s - 1) % Length
    <2>1. s \in Int /\ read \in Int /\ o \in 0..(Length - 1)
      BY InRing DEF Slots
    <2>2. /\ s - 1 \in Int /\ -read \in Int /\ s - read \in Int /\ -1 \in Int
          /\ (s - 1) + (-read) = (s - read) + (-1)
      BY <2>1, SMT
    <2>3. z \in 0..(Length - 1) /\ z \in Int
      <3>1. z \in 0..(Length - 1)
        BY <2>2, Sizes, DivMod
      <3>2. QED
        BY <3>1, SMT
    <2>4. (z + (-read)) % Length = ((s - 1) + (-read)) % Length
      BY <2>2, Sizes, ModOfSum
    <2>5. (o + (-1)) % Length = ((s - read) + (-1)) % Length
      BY <2>2, Sizes, ModOfSum DEF From
    <2> HIDE DEF z
    <2>6. z + (-read) = z - read
      BY <2>1, <2>3, SMT
    <2>7. From(z, read) = (o + (-1)) % Length
      BY <2>2, <2>4, <2>5, <2>6 DEF From
    <2>8. (o + (-1)) % Length = o - 1
      <3> HIDE DEF o
      <3>1. o \in 1..k
        BY <1>2 DEF o
      <3>2. /\ o + (-1) \in Int /\ -Length <= o + (-1) /\ o + (-1) < Length
            /\ ~(o + (-1) < 0) /\ o + (-1) = o - 1
        BY <2>1, <3>1, Sizes, SMT
      <3>3. QED
        BY <3>2, Sizes, SmallMod
    <2>9. Src(s, k) = z
      BY <1>2 DEF Src, z
    <2>10. QED
      BY <1>1, <1>2, <2>3, <2>7, <2>8, <2>9 DEF Slots
  <1>3. CASE From(s, read) \notin 1..k
    BY <1>1, <1>3 DEF Src
  <1>4. QED
    BY <1>2, <1>3

\* The event at k leaves the ring: its sender is named no more, every other
\* name goes on with its event, and all of them are still between the counters.
LEMMA TakenOut ==
    ASSUME TypeOK, SendersWait, Windowed, NamedOnce,
           NEW k \in Slots, k < Count, Tidy(k),
           senders' = Slid([senders EXCEPT ![Slot(k)] = NoThread], k),
           events' = Slid(events, k), read' = Succ(read), write' = write
    PROVE  /\ senders' \in [Slots -> Senders \cup {NoThread}]
           /\ events' \in [Slots -> Senders \cup {NoThread}]
           /\ read' \in 0..(Wrap - 1)
           /\ Count' = Count - 1
           /\ Windowed'
           /\ \A s \in Slots : senders'[s] # NoThread =>
                /\ events'[s] = senders'[s]
                /\ \E z \in Slots : z # Slot(k) /\ senders[z] = senders'[s]
           /\ \A s, y \in Slots :
                senders'[s] # NoThread /\ senders'[s] = senders'[y] => s = y
           /\ \A z \in Slots : senders[z] # NoThread /\ z # Slot(k) =>
                \E s \in Slots : senders'[s] = senders[z]
  <1> DEFINE c == [senders EXCEPT ![Slot(k)] = NoThread]
  <1>1. /\ senders \in [Slots -> Senders \cup {NoThread}]
        /\ events \in [Slots -> Senders \cup {NoThread}]
    BY DEF TypeOK
  <1>2. /\ k \in 0..(Length - 1) /\ k \in Int /\ 0 \in Int /\ Length \in Nat
        /\ Count \in Nat /\ Count > 0
    <2>1. k \in 0..(Length - 1) /\ Count \in Nat /\ Length \in Nat
      BY InRing, Sizes DEF Slots
    <2>2. QED
      BY <2>1, SMT
  <1>3. /\ Slot(k) \in Slots /\ From(Slot(k), read) = k
        /\ Slot(0) \in Slots /\ From(Slot(0), read) = 0
    <2>1. k % Length = k /\ 0 % Length = 0
      <3>1. -Length <= k /\ k < Length /\ ~(k < 0) /\ -Length <= 0 /\ 0 < Length
        BY <1>2, SMT
      <3>2. ~(0 < 0)
        BY SMT
      <3>3. QED
        BY <1>2, <3>1, <3>2, Sizes, SmallMod
    <2>2. QED
      BY <1>2, <2>1, InRing
  <1>4. /\ c \in [Slots -> Senders \cup {NoThread}]
        /\ \A z \in Slots : c[z] = IF z = Slot(k) THEN NoThread ELSE senders[z]
    BY <1>1, <1>3
  <1> HIDE DEF c
  <1>5. senders' = Slid(c, k)
    BY DEF c
  <1>6. \A s \in Slots : /\ Src(s, k) \in Slots
                         /\ senders'[s] = c[Src(s, k)]
                         /\ events'[s] = events[Src(s, k)]
    BY <1>5, SlidFrom
  <1>7. /\ senders' \in [Slots -> Senders \cup {NoThread}]
        /\ events' \in [Slots -> Senders \cup {NoThread}]
    <2>1. DOMAIN senders' = Slots /\ DOMAIN events' = Slots
      BY <1>5 DEF Slid
    <2>2. /\ senders' = [s \in Slots |-> senders'[s]]
          /\ events' = [s \in Slots |-> events'[s]]
      BY <1>5 DEF Slid
    <2>3. \A s \in Slots : /\ senders'[s] \in Senders \cup {NoThread}
                           /\ events'[s] \in Senders \cup {NoThread}
      BY <1>1, <1>4, <1>6
    <2>4. QED
      BY <2>2, <2>3
  <1>8. read' \in 0..(Wrap - 1) /\ Count' = Count - 1
    BY <1>2, OneLess DEF Count
  \* A name that is left was not at k, and came from an occupied slot that is
  \* not the head, unless the head is where it stays.
  <1>9. ASSUME NEW s \in Slots, senders'[s] # NoThread
        PROVE  /\ Src(s, k) # Slot(k) /\ senders[Src(s, k)] = senders'[s]
               /\ From(s, read) \in 1..(Length - 1)
               /\ From(s, read) \in 1..k <=> From(Src(s, k), read) < k
               /\ From(Src(s, k), read) # 0
    <2> DEFINE o == From(s, read)
               z == Src(s, k)
               b == From(z, read)
    <2>1. z # Slot(k) /\ senders[z] = senders'[s] /\ z \in Slots
      BY <1>4, <1>6, <1>9
    <2>2. b # k
      BY <1>3, <2>1, InRing
    <2>3. b # 0
      <3>1. CASE k = 0
        BY <2>2, <3>1
      <3>2. CASE k # 0
        <4>1. senders[Slot(0)] = NoThread
          BY <3>2 DEF Tidy
        <4>2. z # Slot(0)
          BY <1>9, <2>1, <4>1
        <4>3. QED
          BY <1>3, <2>1, <4>2, InRing
      <3>3. QED
        BY <3>1, <3>2
    <2>4. o \in 0..(Length - 1) /\ b = IF o \in 1..k THEN o - 1 ELSE o
      BY InRing, SlidFrom DEF Slots
    <2> HIDE DEF o, b, z
    <2>5. o \in 1..(Length - 1) /\ (o \in 1..k <=> b < k)
      BY <1>2, <2>2, <2>3, <2>4, SMT
    <2>6. QED
      BY <2>1, <2>3, <2>5 DEF o, b, z
  <1>10. Windowed'
    <2> SUFFICES ASSUME NEW s \in Slots, senders'[s] # NoThread
                 PROVE  From(s, Succ(read)) < Count - 1
      BY <1>8 DEF Windowed, From, Slots
    <2> DEFINE o == From(s, read)
               b == From(Src(s, k), read)
    <2>1. /\ o \in 1..(Length - 1)
          /\ b = IF o \in 1..k THEN o - 1 ELSE o
          /\ b < Count
      BY <1>6, <1>9, SlidFrom DEF Windowed
    <2>2. From(s, Succ(read)) = IF o = 0 THEN Length - 1 ELSE o - 1
      BY <1>2, OneLess
    <2> HIDE DEF o, b
    <2>3. QED
      BY <1>2, <2>1, <2>2, SMT
  <1>11. ASSUME NEW s \in Slots, senders'[s] # NoThread
         PROVE  /\ events'[s] = senders'[s]
                /\ \E z \in Slots : z # Slot(k) /\ senders[z] = senders'[s]
    <2>1. /\ Src(s, k) # Slot(k) /\ senders[Src(s, k)] = senders'[s]
          /\ Src(s, k) \in Slots /\ events'[s] = events[Src(s, k)]
      BY <1>6, <1>9, <1>11
    <2>2. events[Src(s, k)] = senders[Src(s, k)]
      BY <1>11, <2>1 DEF SendersWait
    <2>3. QED
      BY <2>1, <2>2
  <1>12. ASSUME NEW s \in Slots, NEW y \in Slots,
                senders'[s] # NoThread, senders'[s] = senders'[y]
         PROVE  s = y
    <2>1. senders'[y] # NoThread
      BY <1>12
    <2>2. /\ senders[Src(s, k)] = senders'[s] /\ senders[Src(y, k)] = senders'[y]
          /\ Src(s, k) \in Slots /\ Src(y, k) \in Slots
      BY <1>6, <1>9, <1>12, <2>1
    <2>3. Src(s, k) = Src(y, k)
      BY <1>12, <2>2 DEF NamedOnce
    <2> DEFINE o == From(s, read)
               q == From(y, read)
               b == From(Src(s, k), read)
    <2>4. /\ o \in 1..(Length - 1) /\ b = (IF o \in 1..k THEN o - 1 ELSE o)
          /\ o \in 1..k <=> b < k
      BY <1>9, <1>12, SlidFrom
    <2>5. /\ q \in 1..(Length - 1) /\ b = (IF q \in 1..k THEN q - 1 ELSE q)
          /\ q \in 1..k <=> b < k
      <3>1. /\ q \in 1..(Length - 1)
            /\ q \in 1..k <=> From(Src(y, k), read) < k
        BY <1>9, <2>1
      <3>2. From(Src(y, k), read) = IF q \in 1..k THEN q - 1 ELSE q
        BY SlidFrom
      <3>3. QED
        BY <2>3, <3>1, <3>2
    <2> HIDE DEF o, q, b
    <2>6. o = q
      BY <1>2, <2>4, <2>5, SMT
    <2>7. QED
      BY <2>6, InRing DEF o, q
  <1>13. ASSUME NEW z \in Slots, senders[z] # NoThread, z # Slot(k)
         PROVE  \E s \in Slots : senders'[s] = senders[z]
    <2> DEFINE b == From(z, read)
               o == IF b < k THEN b + 1 ELSE b
    <2>1. b \in 0..(Length - 1) /\ b # k
      BY <1>3, <1>13, InRing DEF Slots
    <2>2. k # 0 => b # 0
      BY <1>3, <1>13, InRing DEF Tidy
    <2>3. /\ o \in 0..(Length - 1) /\ o \in Int
          /\ b = (IF o \in 1..k THEN o - 1 ELSE o)
          /\ -Length <= o /\ o < Length /\ ~(o < 0)
      <3> HIDE DEF b
      <3>1. QED
        BY <1>2, <2>1, <2>2, SMT
    <2> HIDE DEF o
    <2>4. Slot(o) \in Slots /\ From(Slot(o), read) = o
      <3>1. o % Length = o
        BY <2>3, Sizes, SmallMod
      <3>2. QED
        BY <2>3, <3>1, InRing
    <2>5. Src(Slot(o), k) \in Slots /\ From(Src(Slot(o), k), read) = b
      <3>1. /\ Src(Slot(o), k) \in Slots
            /\ From(Src(Slot(o), k), read)
                 = IF From(Slot(o), read) \in 1..k
                   THEN From(Slot(o), read) - 1 ELSE From(Slot(o), read)
        BY <2>4, SlidFrom
      <3>2. QED
        BY <2>3, <2>4, <3>1
    <2>6. Src(Slot(o), k) = z
      BY <2>5, InRing
    <2>7. senders'[Slot(o)] = senders[z]
      BY <1>4, <1>6, <1>13, <2>4, <2>6
    <2>8. QED
      BY <2>4, <2>7
  <1>14. QED
    BY <1>7, <1>8, <1>10, <1>11, <1>12, <1>13

-------------------------------------------------------------------------------
\* Release frees the threads it names and no others.
LEMMA Released ==
    ASSUME NEW f \in [Senders -> {"free", "blocked"}], NEW T
    PROVE  /\ Release(f, T) \in [Senders -> {"free", "blocked"}]
           /\ \A t \in Senders :
                Release(f, T)[t] = IF t \in T THEN "free" ELSE f[t]
  BY DEF Release

\* A queue just initialised satisfies the invariant.
LEMMA InitHolds == Init => IInv
  <1> SUFFICES ASSUME Init PROVE IInv
    OBVIOUS
  <1>1. 0 \in 0..(Wrap - 1) /\ 0 - 0 \in Int /\ 0 % Wrap = 0
    BY Sizes, SMT
  <1>2. TypeOK
    BY <1>1 DEF Init, TypeOK, Waits
  <1>3. \A s \in Slots : senders[s] = NoThread
    BY DEF Init
  <1>4. SendersWait /\ Windowed /\ NamedOnce
    BY <1>3 DEF Init, SendersWait, Windowed, NamedOnce
  <1>5. Registered /\ Answered
    BY DEF Init, Registered, Answered
  <1>6. Woken
    BY DEF Init, Woken
  <1>7. QED
    BY <1>2, <1>4, <1>5, <1>6 DEF IInv

\* An event is put into the ring, by a sender x that is not waiting or by
\* queue_post: the sender it may push out is let go, and nobody else is.
LEMMA PutIn ==
    ASSUME IInv, open, Count < MaxPending,
           NEW x \in Senders \cup {NoThread},
           x # NoThread => sender[x] = "free",
           write' = Succ(write),
           events' = [events EXCEPT ![WriteSlot] = x],
           senders' = [senders EXCEPT ![WriteSlot] = x],
           sender' \in [Senders -> {"free", "blocked"}],
           \A t \in Senders : sender'[t] = IF t = x THEN "blocked"
                                           ELSE IF t = senders[WriteSlot] THEN "free"
                                           ELSE sender[t],
           WakeOwner, overrun' = (overrun \/ Count = Length),
           UNCHANGED <<open, read, curr, wait>>
    PROVE  IInv'
  <1> USE DEF IInv
  <1>1. /\ senders \in [Slots -> Senders \cup {NoThread}]
        /\ events \in [Slots -> Senders \cup {NoThread}]
        /\ curr \in Senders \cup {NoThread}
        /\ owner \in {"busy", "blocked", "blocked_tmo", "running"}
        /\ queued \in BOOLEAN
    BY DEF TypeOK
  <1>2. /\ WriteSlot \in Slots /\ WriteSlot = Slot(Count) /\ Count \in Nat
        /\ Count \in Int
    <2>1. WriteSlot \in Slots /\ WriteSlot = Slot(Count) /\ Count \in Nat
      BY InRing
    <2>2. QED
      BY <2>1, SMT
  <1>3. \A s \in Slots : /\ senders'[s] = IF s = WriteSlot THEN x ELSE senders[s]
                         /\ events'[s] = IF s = WriteSlot THEN x ELSE events[s]
    BY <1>1
  <1>4. NoThread \notin Senders
    BY Sizes
  <1>5. write' \in 0..(Wrap - 1) /\ Count' = Count + 1
    BY OneMore DEF Count
  <1>6. TypeOK'
    <2>1. /\ senders' \in [Slots -> Senders \cup {NoThread}]
          /\ events' \in [Slots -> Senders \cup {NoThread}]
      BY <1>1, <1>2
    <2>2. /\ owner' \in {"busy", "blocked", "blocked_tmo", "running"}
          /\ queued' \in BOOLEAN
      BY <1>1 DEF WakeOwner
    <2>3. overrun' \in BOOLEAN
      OBVIOUS
    <2>4. QED
      BY <1>5, <2>1, <2>2, <2>3 DEF TypeOK, Slots, Waits
  <1>7. \A s \in Slots : x # NoThread => senders[s] # x
    BY DEF SendersWait
  <1>8. SendersWait'
    <2> SUFFICES ASSUME NEW s \in Slots, senders'[s] # NoThread
                 PROVE  sender'[senders'[s]] = "blocked" /\ events'[s] = senders'[s]
      BY DEF SendersWait, Slots
    <2>1. CASE s = WriteSlot
      BY <1>3, <1>4, <2>1
    <2>2. CASE s # WriteSlot
      <3>1. senders'[s] = senders[s] /\ events'[s] = events[s]
        BY <1>3, <2>2
      <3>2. sender[senders[s]] = "blocked" /\ events[s] = senders[s]
        BY <3>1 DEF SendersWait
      <3>3. senders[s] # senders[WriteSlot]
        BY <1>2, <2>2, <3>1 DEF NamedOnce
      <3>4. senders[s] \in Senders
        BY <1>1, <3>1
      <3>5. QED
        BY <3>1, <3>2, <3>3, <3>4
    <2>3. QED
      BY <2>1, <2>2
  <1>9. Windowed'
    <2>1. From(WriteSlot, read) <= Count
      <3>1. From(WriteSlot, read) = Count % Length
        BY <1>2, InRing
      <3>2. Count % Length <= Count
        <4>1. CASE Count < Length
          <5>1. -Length <= Count /\ ~(Count < 0)
            BY <1>2, Sizes, SMT
          <5>2. Count % Length = Count
            BY <1>2, <4>1, <5>1, Sizes, SmallMod
          <5>3. QED
            BY <1>2, <5>2, SMT
        <4>2. CASE ~(Count < Length)
          <5>1. Count % Length \in 0..(Length - 1)
            BY <1>2, Sizes, DivMod
          <5>2. QED
            BY <1>2, <4>2, <5>1, Sizes, SMT
        <4>3. QED
          BY <4>1, <4>2
      <3>3. QED
        BY <3>1, <3>2
    <2> SUFFICES ASSUME NEW s \in Slots, senders'[s] # NoThread
                 PROVE  From(s, read) < Count + 1
      BY <1>5 DEF Windowed, From, Slots
    <2>2. From(s, read) \in Int
      <3>1. From(s, read) \in 0..(Length - 1)
        BY InRing DEF Slots
      <3>2. QED
        BY <3>1, SMT
    <2>3. From(s, read) <= Count
      <3>1. CASE s = WriteSlot
        BY <2>1, <3>1
      <3>2. CASE s # WriteSlot
        <4>1. From(s, read) < Count
          BY <1>3, <3>2 DEF Windowed
        <4>2. QED
          BY <1>2, <2>2, <4>1, SMT
      <3>3. QED
        BY <3>1, <3>2
    <2>4. QED
      BY <1>2, <2>2, <2>3, SMT
  <1>10. NamedOnce'
    <2>1. ASSUME NEW s \in Slots, NEW z \in Slots,
                 senders'[s] # NoThread, senders'[s] = senders'[z]
          PROVE  s = z
      BY <1>3, <1>7, <2>1 DEF NamedOnce
    <2>2. ASSUME NEW s \in Slots, curr # NoThread
          PROVE  senders'[s] # curr
      <3>1. sender[curr] = "blocked"
        BY <2>2 DEF Registered
      <3>2. curr # x
        BY <2>2, <3>1
      <3>3. QED
        BY <1>3, <2>2, <3>2 DEF NamedOnce
    <2>3. QED
      BY <2>1, <2>2 DEF NamedOnce, Slots
  <1>11. Registered'
    <2>1. ASSUME curr # NoThread
          PROVE  sender'[curr] = "blocked"
      <3>1. sender[curr] = "blocked" /\ curr # senders[WriteSlot] /\ curr \in Senders
        BY <1>1, <1>2, <2>1 DEF Registered, NamedOnce
      <3>2. QED
        BY <3>1
    <2>2. ASSUME NEW t \in Senders, sender'[t] = "blocked"
          PROVE  curr = t \/ \E s \in Slots : senders'[s] = t
      <3>1. CASE t = x
        BY <1>2, <1>3, <3>1
      <3>2. CASE t # x
        <4>1. sender[t] = "blocked" /\ t # senders[WriteSlot]
          BY <2>2, <3>2
        <4>2. CASE curr = t
          BY <4>2
        <4>3. CASE curr # t
          <5>1. PICK s \in Slots : senders[s] = t
            BY <4>1, <4>3 DEF Registered
          <5>2. senders'[s] = t
            BY <1>3, <4>1, <5>1
          <5>3. QED
            BY <5>2
        <4>4. QED
          BY <4>2, <4>3
      <3>3. QED
        BY <3>1, <3>2
    <2>3. QED
      BY <2>1, <2>2 DEF Registered, Slots
  <1>12. Answered'
    BY DEF Answered, Woken, WakeOwner
  <1>13. Woken'
    BY <1>1 DEF Woken, WakeOwner
  <1>14. QED
    BY <1>6, <1>8, <1>9, <1>10, <1>11, <1>12, <1>13

\* queue_post keeps the invariant, by PutIn.
LEMMA PostStep == ASSUME IInv, Post PROVE IInv'
  <1>1. sender \in [Senders -> {"free", "blocked"}]
    BY DEF IInv, TypeOK
  <1>2. /\ sender' \in [Senders -> {"free", "blocked"}]
        /\ \A t \in Senders :
             sender'[t] = IF t = senders[WriteSlot] THEN "free" ELSE sender[t]
    <2>1. sender' = Release(sender, Bumped)
      BY DEF Post
    <2>2. QED
      BY <1>1, <2>1, Released DEF Bumped
  <1>3. NoThread \notin Senders
    BY Sizes
  <1>4. \A t \in Senders : sender'[t] = IF t = NoThread THEN "blocked"
                                        ELSE IF t = senders[WriteSlot] THEN "free"
                                        ELSE sender[t]
    BY <1>2, <1>3
  <1>5. QED
    BY <1>2, <1>4, PutIn DEF Post

\* queue_send keeps the invariant up to where its caller blocks, by PutIn.
LEMMA SendStep == ASSUME IInv, NEW x \in Senders, Send(x) PROVE IInv'
  <1>1. sender \in [Senders -> {"free", "blocked"}]
    BY DEF IInv, TypeOK
  <1> DEFINE r == Release(sender, Bumped)
  <1>2. /\ r \in [Senders -> {"free", "blocked"}]
        /\ \A t \in Senders :
             r[t] = IF t = senders[WriteSlot] THEN "free" ELSE sender[t]
    BY <1>1, Released DEF Bumped
  <1>3. sender' = [r EXCEPT ![x] = "blocked"]
    BY DEF Send
  <1> HIDE DEF r
  <1>4. /\ sender' \in [Senders -> {"free", "blocked"}]
        /\ \A t \in Senders : sender'[t] = IF t = x THEN "blocked"
                                        ELSE IF t = senders[WriteSlot] THEN "free"
                                        ELSE sender[t]
    BY <1>2, <1>3
  <1>5. QED
    BY <1>4, PutIn DEF Send

\* The event at k leaves the ring.  Either the owner takes it, and the sender
\* of the one it took before is let go, or its own sender is let go.
LEMMA PutOut ==
    ASSUME IInv, NEW k \in Slots, k < Count, Tidy(k),
           senders' = Slid([senders EXCEPT ![Slot(k)] = NoThread], k),
           events' = Slid(events, k), read' = Succ(read), write' = write,
           NEW r \in Senders \cup {NoThread},
           \/ curr' = senders[Slot(k)] /\ r = curr
           \/ curr' = curr /\ r = senders[Slot(k)],
           sender' \in [Senders -> {"free", "blocked"}],
           \A t \in Senders : sender'[t] = IF t = r THEN "free" ELSE sender[t],
           owner' = "busy" \/ (owner' = owner /\ curr' = curr),
           UNCHANGED <<open, overrun, queued>>, wait' \in Waits
    PROVE  IInv'
  <1> USE DEF IInv
  <1>1. /\ senders \in [Slots -> Senders \cup {NoThread}]
        /\ curr \in Senders \cup {NoThread}
        /\ NoThread \notin Senders
    BY Sizes DEF TypeOK
  <1>2. Slot(k) \in Slots
    <2>1. k \in Int
      <3>1. k \in 0..(Length - 1)
        BY DEF Slots
      <3>2. QED
        BY <3>1, SMT
    <2>2. QED
      BY <2>1, InRing
  <1>3. /\ senders' \in [Slots -> Senders \cup {NoThread}]
        /\ events' \in [Slots -> Senders \cup {NoThread}]
        /\ read' \in 0..(Wrap - 1)
        /\ Count' = Count - 1
        /\ Windowed'
        /\ \A s \in Slots : senders'[s] # NoThread =>
             /\ events'[s] = senders'[s]
             /\ \E z \in Slots : z # Slot(k) /\ senders[z] = senders'[s]
        /\ \A s, y \in Slots :
             senders'[s] # NoThread /\ senders'[s] = senders'[y] => s = y
        /\ \A z \in Slots : senders[z] # NoThread /\ z # Slot(k) =>
             \E s \in Slots : senders'[s] = senders[z]
    BY TakenOut
  <1> DEFINE g == senders[Slot(k)]
  <1>4. g \in Senders \cup {NoThread}
    BY <1>1, <1>2
  <1>5. TypeOK'
    <2>1. curr' \in Senders \cup {NoThread}
      BY <1>1, <1>4
    <2>2. owner' \in {"busy", "blocked", "blocked_tmo", "running"}
      BY DEF TypeOK
    <2>3. QED
      BY <1>3, <2>1, <2>2 DEF TypeOK, Slots, Waits
  \* Those who are let go are named no more.
  <1>6. ASSUME NEW s \in Slots, senders'[s] # NoThread
        PROVE  /\ senders'[s] # r /\ senders'[s] # curr' /\ senders'[s] \in Senders
               /\ sender[senders'[s]] = "blocked" /\ events'[s] = senders'[s]
    <2>1. PICK z \in Slots : z # Slot(k) /\ senders[z] = senders'[s]
      BY <1>3, <1>6
    <2>2. senders[z] # g
      BY <1>2, <1>6, <2>1 DEF NamedOnce
    <2>3. senders[z] # curr
      BY <1>6, <2>1 DEF NamedOnce
    <2>4. sender[senders[z]] = "blocked"
      BY <1>6, <2>1 DEF SendersWait
    <2>5. senders'[s] \in Senders /\ events'[s] = senders'[s]
      <3>1. senders'[s] \in Senders \cup {NoThread}
        BY <1>3
      <3>2. events'[s] = senders'[s]
        BY <1>3, <1>6
      <3>3. QED
        BY <1>6, <3>1, <3>2
    <2>6. QED
      BY <2>1, <2>2, <2>3, <2>4, <2>5
  <1>7. SendersWait'
    <2> SUFFICES ASSUME NEW s \in Slots, senders'[s] # NoThread
                 PROVE  sender'[senders'[s]] = "blocked" /\ events'[s] = senders'[s]
      BY DEF SendersWait, Slots
    <2>1. QED
      BY <1>6, ZenonT(30)
  <1>8. NamedOnce'
    BY <1>3, <1>6 DEF NamedOnce, Slots
  <1>9. g # NoThread => g # curr /\ sender[g] = "blocked"
    BY <1>2 DEF NamedOnce, SendersWait
  <1>10. Registered'
    <2>1. ASSUME curr' # NoThread
          PROVE  sender'[curr'] = "blocked"
      <3>1. curr' # r /\ curr' \in Senders
        <4>1. CASE curr' = g /\ r = curr
          BY <1>4, <1>9, <2>1, <4>1
        <4>2. CASE curr' = curr /\ r = g
          BY <1>1, <1>9, <2>1, <4>2
        <4>3. QED
          BY <4>1, <4>2
      <3>2. sender[curr'] = "blocked"
        BY <1>9, <2>1 DEF Registered
      <3>3. QED
        BY <3>1, <3>2
    <2>2. ASSUME NEW t \in Senders, sender'[t] = "blocked"
          PROVE  curr' = t \/ \E s \in Slots : senders'[s] = t
      <3>1. sender[t] = "blocked" /\ t # r /\ t # NoThread
        BY <1>1, <2>2
      <3>2. CASE curr = t
        BY <3>1, <3>2
      <3>3. CASE g = t
        BY <3>1, <3>3
      <3>4. CASE curr # t /\ g # t
        <4>1. PICK z \in Slots : senders[z] = t
          BY <3>1, <3>4 DEF Registered
        <4>2. z # Slot(k)
          BY <3>4, <4>1
        <4>3. QED
          BY <1>3, <3>1, <4>1, <4>2
      <3>5. QED
        BY <3>2, <3>3, <3>4
    <2>3. QED
      BY <2>1, <2>2 DEF Registered, Slots
  <1>11. Answered'
    BY DEF Answered
  <1>12. Woken'
    <2>1. ~queued /\ owner \notin {"blocked", "blocked_tmo"}
      <3>1. Count # 0
        <4>1. k \in 0..(Length - 1) /\ Count \in Nat
          BY InRing DEF Slots
        <4>2. QED
          BY <4>1, Sizes, SMT
      <3>2. queued => Count = 0
        BY DEF Woken
      <3>3. QED
        BY <3>1, <3>2 DEF Woken
    <2>2. QED
      BY <2>1 DEF Woken
  <1>13. QED
    BY <1>3, <1>5, <1>7, <1>8, <1>10, <1>11, <1>12

\* queue_peek_ex that removes a message keeps the invariant, by PutOut.
LEMMA DiscardStep ==
    ASSUME IInv, NEW k \in Slots, Tidy(k), Discard(k) PROVE IInv'
  <1> DEFINE g == senders[Slot(k)]
  <1>1. /\ sender \in [Senders -> {"free", "blocked"}] /\ wait \in Waits
        /\ g \in Senders \cup {NoThread}
    <2>1. k \in 0..(Length - 1)
      BY DEF Slots
    <2>2. k \in Int
      BY <2>1, SMT
    <2>3. QED
      BY <2>2, InRing DEF IInv, TypeOK
  <1>2. /\ sender' = Release(sender, {g})
        /\ senders' = Slid([senders EXCEPT ![Slot(k)] = NoThread], k)
        /\ events' = Slid(events, k) /\ read' = Succ(read) /\ write' = write
        /\ k < Count /\ curr' = curr /\ owner' = owner
        /\ UNCHANGED <<open, overrun, queued>> /\ wait' = wait
    BY DEF Discard, ownerVars
  <1> HIDE DEF g
  <1>3. /\ sender' \in [Senders -> {"free", "blocked"}]
        /\ \A t \in Senders : sender'[t] = IF t = g THEN "free" ELSE sender[t]
    BY <1>1, <1>2, Released
  <1>4. g = senders[Slot(k)]
    BY DEF g
  <1>5. QED
    BY <1>1, <1>2, <1>3, <1>4, PutOut

\* queue_peek_ex that takes a message keeps the invariant, by PutOut.
LEMMA PeekTakeStep ==
    ASSUME IInv, NEW k \in Slots, Tidy(k), PeekTake(k) PROVE IInv'
  <1>1. /\ sender \in [Senders -> {"free", "blocked"}] /\ wait \in Waits
        /\ curr \in Senders \cup {NoThread}
    BY DEF IInv, TypeOK
  <1>2. /\ sender' = Release(sender, {curr})
        /\ senders' = Slid([senders EXCEPT ![Slot(k)] = NoThread], k)
        /\ events' = Slid(events, k) /\ read' = Succ(read) /\ write' = write
        /\ k < Count /\ curr' = senders[Slot(k)] /\ owner' = "busy"
        /\ UNCHANGED <<open, overrun, queued>> /\ wait' = wait
    BY DEF PeekTake, ownerVars, AutoReply
  <1>3. /\ sender' \in [Senders -> {"free", "blocked"}]
        /\ \A t \in Senders : sender'[t] = IF t = curr THEN "free" ELSE sender[t]
    BY <1>1, <1>2, Released
  <1>4. QED
    BY <1>1, <1>2, <1>3, PutOut

\* The sender of the message the owner has taken is answered.
LEMMA AnswerStep ==
    ASSUME IInv, curr' = NoThread,
           sender' \in [Senders -> {"free", "blocked"}],
           \A t \in Senders : sender'[t] = IF t = curr THEN "free" ELSE sender[t],
           UNCHANGED <<open, overrun, read, write, events, senders>>,
           wait' \in Waits,
           \/ owner' = owner /\ queued' = queued
           \/ /\ owner' \in {"blocked", "blocked_tmo"} /\ queued' = TRUE
              /\ Count = 0
    PROVE  IInv'
  <1> USE DEF IInv
  <1>1. /\ senders \in [Slots -> Senders \cup {NoThread}]
        /\ NoThread \notin Senders
    BY Sizes DEF TypeOK
  <1>2. TypeOK'
    BY DEF TypeOK, Slots, Waits
  <1>3. Count' = Count
    BY DEF Count
  <1>4. SendersWait'
    <2> SUFFICES ASSUME NEW s \in Slots, senders[s] # NoThread
                 PROVE  sender'[senders[s]] = "blocked" /\ events[s] = senders[s]
      BY DEF SendersWait, Slots
    <2>1. /\ senders[s] # curr /\ senders[s] \in Senders
          /\ sender[senders[s]] = "blocked" /\ events[s] = senders[s]
      BY <1>1 DEF NamedOnce, SendersWait
    <2>2. QED
      BY <2>1
  <1>5. Windowed' /\ NamedOnce'
    BY <1>3 DEF Windowed, NamedOnce, From, Slots
  <1>6. Registered'
    BY <1>1 DEF Registered, Slots
  <1>7. Answered'
    BY DEF Answered
  <1>8. Woken'
    BY <1>3 DEF Woken
  <1>9. QED
    BY <1>2, <1>4, <1>5, <1>6, <1>7, <1>8

\* queue_reply keeps the invariant, by AnswerStep.
LEMMA ReplyStep == ASSUME IInv, Reply PROVE IInv'
  <1>1. sender \in [Senders -> {"free", "blocked"}] /\ wait \in Waits
    BY DEF IInv, TypeOK
  <1>2. /\ sender' = Release(sender, {curr}) /\ curr' = NoThread
        /\ UNCHANGED <<open, overrun, read, write, events, senders>>
        /\ wait' = wait /\ owner' = owner /\ queued' = queued
    BY DEF Reply, ownerVars
  <1>3. /\ sender' \in [Senders -> {"free", "blocked"}]
        /\ \A t \in Senders : sender'[t] = IF t = curr THEN "free" ELSE sender[t]
    BY <1>1, <1>2, Released
  <1>4. QED
    BY <1>1, <1>2, <1>3, AnswerStep

\* Taking the event at the head moves nothing.
LEMMA TakeHead ==
    ASSUME TypeOK, Count # 0
    PROVE  /\ 0 \in Slots /\ 0 < Count /\ Tidy(0)
           /\ Slid([senders EXCEPT ![Slot(0)] = NoThread], 0)
                = [senders EXCEPT ![Slot(0)] = NoThread]
           /\ Slid(events, 0) = events
           /\ senders[Slot(0)] \in Senders \cup {NoThread}
  <1>1. 0 \in Slots /\ 0 < Count /\ \A x \in Int : x \notin 1..0
    <2>1. Count \in Nat
      BY InRing
    <2>2. QED
      BY <2>1, Sizes, SMT DEF Slots
  <1>2. Slot(0) \in Slots
    <2>1. 0 \in Int
      BY SMT
    <2>2. QED
      BY <2>1, InRing
  <1>3. ASSUME NEW f \in [Slots -> Senders \cup {NoThread}]
        PROVE  Slid(f, 0) = f
    <2>1. \A s \in Slots : (s - read) % Length \notin 1..0
      BY SMT
    <2>2. Slid(f, 0) = [s \in Slots |-> f[s]]
      BY <2>1 DEF Slid
    <2>3. QED
      BY <1>3, <2>2
  <1>4. /\ [senders EXCEPT ![Slot(0)] = NoThread]
             \in [Slots -> Senders \cup {NoThread}]
        /\ events \in [Slots -> Senders \cup {NoThread}]
        /\ senders[Slot(0)] \in Senders \cup {NoThread}
    BY <1>2 DEF TypeOK
  <1>5. QED
    BY <1>1, <1>3, <1>4 DEF Tidy

\* queue_wait and queue_wait_w_tmo up to where they block, with the answer
\* that an owner who comes back owes the last sender.
LEMMA WaitBeginStep ==
    ASSUME IInv, NEW w \in Waits, NEW poll \in BOOLEAN, WaitBegin(w, poll)
    PROVE  IInv'
  <1>1. /\ sender \in [Senders -> {"free", "blocked"}]
        /\ curr \in Senders \cup {NoThread} /\ TypeOK
    BY DEF IInv, TypeOK
  <1>2. /\ sender' = Release(sender, {curr}) /\ wait' \in Waits
        /\ UNCHANGED <<open, overrun>> /\ owner = "busy"
    BY DEF WaitBegin, AutoReply
  <1>3. /\ sender' \in [Senders -> {"free", "blocked"}]
        /\ \A t \in Senders : sender'[t] = IF t = curr THEN "free" ELSE sender[t]
    BY <1>1, <1>2, Released
  <1>4. CASE Count # 0 /\ w.take
    <2>1. /\ read' = Succ(read) /\ write' = write /\ events' = events
          /\ senders' = [senders EXCEPT ![Slot(0)] = NoThread]
          /\ curr' = senders[Slot(0)]
          /\ owner' = "busy" /\ queued' = queued
      BY <1>2, <1>4 DEF WaitBegin, Fetch, FreeSlot
    <2>2. QED
      BY <1>1, <1>2, <1>3, <1>4, <2>1, TakeHead, PutOut
  <1>5. CASE Count # 0 /\ ~w.take
    <2>1. /\ UNCHANGED <<read, write, events, senders>> /\ curr' = NoThread
          /\ owner' = owner /\ queued' = queued
      BY <1>5 DEF WaitBegin, Fetch
    <2>2. QED
      BY <1>2, <1>3, <2>1, AnswerStep
  <1>6. CASE Count = 0
    <2>1. /\ UNCHANGED <<read, write, events, senders>> /\ curr' = NoThread
          /\ \/ owner' = owner /\ queued' = queued
             \/ owner' \in {"blocked", "blocked_tmo"} /\ queued' = TRUE
      BY <1>6 DEF WaitBegin
    <2>2. QED
      BY <1>2, <1>3, <1>6, <2>1, AnswerStep
  <1>7. QED
    BY <1>4, <1>5, <1>6

\* The end of the owner's time makes it runnable and moves nothing else.
LEMMA WaitExpireStep == ASSUME IInv, WaitExpire PROVE IInv'
  <1>1. /\ owner = "blocked_tmo" /\ owner' = "running"
        /\ UNCHANGED <<open, overrun, read, write, events, senders, curr>>
        /\ UNCHANGED <<sender, wait, queued>>
    BY DEF WaitExpire, ring
  <1>2. TypeOK' /\ Count' = Count
    BY <1>1 DEF IInv, TypeOK, Slots, Waits, Count
  <1>3. SendersWait' /\ Windowed' /\ NamedOnce' /\ Registered'
    BY <1>1, <1>2 DEF IInv, SendersWait, Windowed, NamedOnce, Registered,
                      From, Slots
  <1>4. Answered' /\ Woken'
    BY <1>1, <1>2 DEF IInv, Answered, Woken
  <1>5. QED
    BY <1>2, <1>3, <1>4 DEF IInv

\* The rest of queue_wait after the owner ran again.
LEMMA WaitResumeStep == ASSUME IInv, WaitResume PROVE IInv'
  <1>1. /\ sender \in [Senders -> {"free", "blocked"}] /\ wait \in Waits
        /\ curr = NoThread /\ TypeOK
    BY DEF IInv, TypeOK, WaitResume, Answered
  <1>2. /\ sender' = sender /\ wait' = wait /\ UNCHANGED <<open, overrun>>
        /\ owner = "running"
    BY DEF WaitResume
  <1>3. \A t \in Senders : sender'[t] = IF t = curr THEN "free" ELSE sender[t]
    BY <1>1, <1>2, Sizes
  <1>4. CASE Count # 0 /\ wait.take
    <2>1. /\ read' = Succ(read) /\ write' = write /\ events' = events
          /\ senders' = [senders EXCEPT ![Slot(0)] = NoThread]
          /\ curr' = senders[Slot(0)]
          /\ owner' = "busy" /\ queued' = queued
      BY <1>1, <1>4 DEF WaitResume, Fetch, FreeSlot
    <2>2. /\ 0 \in Slots /\ 0 < Count /\ Tidy(0)
          /\ senders' = Slid([senders EXCEPT ![Slot(0)] = NoThread], 0)
          /\ events' = Slid(events, 0)
      BY <1>1, <1>4, <2>1, TakeHead
    <2>3. /\ sender' \in [Senders -> {"free", "blocked"}] /\ wait' \in Waits
          /\ UNCHANGED <<open, overrun, queued>> /\ curr \in Senders \cup {NoThread}
      BY <1>1, <1>2, <2>1
    <2>4. QED
      BY <1>3, <2>1, <2>2, <2>3, PutOut
  <1>5. CASE ~(Count # 0 /\ wait.take)
    <2>1. /\ UNCHANGED <<read, write, events, senders>> /\ curr' = NoThread
      BY <1>1, <1>5 DEF WaitResume, Fetch, ring
    <2>2. \/ owner' = "busy" /\ queued' \in BOOLEAN /\ (queued' => Count # 0 /\ queued)
          \/ /\ owner' \in {"blocked", "blocked_tmo"} /\ queued' = TRUE
             /\ Count = 0
      BY <1>5 DEF WaitResume, StillQueued, IInv, TypeOK
    <2>3. TypeOK' /\ Count' = Count
      BY <1>1, <1>2, <2>1, <2>2 DEF TypeOK, Slots, Waits, Count
    <2>4. SendersWait' /\ Windowed' /\ NamedOnce' /\ Registered'
      BY <1>1, <1>2, <2>1, <2>3 DEF IInv, SendersWait, Windowed, NamedOnce,
                                    Registered, From, Slots
    <2>5. Answered' /\ Woken'
      BY <1>2, <2>1, <2>2, <2>3 DEF IInv, Answered, Woken
    <2>6. QED
      BY <2>3, <2>4, <2>5 DEF IInv
  <1>6. QED
    BY <1>4, <1>5

\* All the names between read and write are taken off: no other is left.
LEMMA NoneLeft ==
    ASSUME IInv
    PROVE  /\ Emptied = [s \in Slots |-> NoThread]
           /\ \A s \in Slots : senders[s] # NoThread => senders[s] \in InWindow
           /\ \A t \in InWindow : t = NoThread \/ \E s \in Slots : senders[s] = t
           /\ (write - write) % Wrap = 0
  <1> USE DEF IInv
  <1>1. ASSUME NEW s \in Slots, senders[s] # NoThread
        PROVE  \E k \in 0..(Count - 1) : s = Slot(k)
    <2> DEFINE k == From(s, read)
    <2>1. k \in 0..(Length - 1) /\ Slot(k) = s /\ Count \in Nat /\ k < Count
      BY <1>1, InRing DEF Slots, Windowed
    <2> HIDE DEF k
    <2>2. k \in 0..(Count - 1)
      BY <2>1, Sizes, SMT
    <2>3. QED
      BY <2>1, <2>2
  <1>2. Emptied = [s \in Slots |-> NoThread]
    <2>1. \A s \in Slots : (IF \E k \in 0..(Count - 1) : s = Slot(k) THEN NoThread
                                                       ELSE senders[s]) = NoThread
      BY <1>1
    <2>2. QED
      BY <2>1 DEF Emptied
  <1>3. \A s \in Slots : senders[s] # NoThread => senders[s] \in InWindow
    BY <1>1 DEF InWindow
  <1>4. \A t \in InWindow : t = NoThread \/ \E s \in Slots : senders[s] = t
    <2> SUFFICES ASSUME NEW k \in 0..(Count - 1)
                 PROVE  Slot(k) \in Slots
      BY DEF InWindow
    <2>1. Count \in Nat
      BY InRing
    <2>2. k \in Int
      BY <2>1, SMT
    <2>3. QED
      BY <2>2, InRing
  <1>5. (write - write) % Wrap = 0
    <2>1. write \in Int
      BY InRing
    <2>2. write - write = 0 /\ 0 % Wrap = 0
      BY <2>1, Sizes, SMT
    <2>3. QED
      BY <2>2
  <1>6. QED
    BY <1>2, <1>3, <1>4, <1>5

\* queue_clear answers all waiting messages and keeps the invariant.
LEMMA ClearStep == ASSUME IInv, Clear PROVE IInv'
  <1> USE DEF IInv
  <1>1. /\ sender \in [Senders -> {"free", "blocked"}]
        /\ curr \in Senders \cup {NoThread} /\ NoThread \notin Senders
    BY Sizes DEF TypeOK
  <1>2. /\ sender' = Release(sender, InWindow) /\ senders' = Emptied
        /\ read' = write /\ UNCHANGED <<open, overrun, write, events, curr>>
        /\ UNCHANGED <<owner, queued, wait>> /\ open
    BY DEF Clear, ownerVars
  <1>3. /\ sender' \in [Senders -> {"free", "blocked"}]
        /\ \A t \in Senders :
             sender'[t] = IF t \in InWindow THEN "free" ELSE sender[t]
    BY <1>1, <1>2, Released
  <1>4. Count' = 0 /\ senders' = [s \in Slots |-> NoThread]
    BY <1>2, NoneLeft DEF Count
  <1>5. TypeOK'
    BY <1>2, <1>3, <1>4 DEF TypeOK, Slots, Waits
  <1>6. \A s \in Slots : senders'[s] = NoThread
    BY <1>4
  <1>7. SendersWait' /\ Windowed' /\ NamedOnce'
    BY <1>2, <1>6 DEF SendersWait, Windowed, NamedOnce, Slots
  <1>8. Registered'
    <2>1. curr # NoThread => sender'[curr] = "blocked"
      <3>1. curr # NoThread => curr \notin InWindow
        BY NoneLeft DEF NamedOnce
      <3>2. QED
        BY <1>1, <1>3, <3>1 DEF Registered
    <2>2. \A t \in Senders : sender'[t] = "blocked" => curr = t
      BY <1>1, <1>3, NoneLeft DEF Registered
    <2>3. QED
      BY <1>2, <2>1, <2>2 DEF Registered
  <1>9. Answered' /\ Woken'
    BY <1>2, <1>4 DEF Answered, Woken
  <1>10. QED
    BY <1>5, <1>7, <1>8, <1>9

\* queue_delete answers all messages, the taken one too.
LEMMA DeleteStep == ASSUME IInv, Delete PROVE IInv'
  <1> USE DEF IInv
  <1>1. /\ sender \in [Senders -> {"free", "blocked"}] /\ NoThread \notin Senders
    BY Sizes DEF TypeOK
  <1>2. /\ sender' = Release(sender, InWindow \cup {curr}) /\ senders' = Emptied
        /\ read' = write /\ UNCHANGED <<overrun, write, events>>
        /\ curr' = NoThread /\ open' = FALSE
        /\ UNCHANGED <<owner, queued, wait>>
    BY DEF Delete, ownerVars
  <1>3. /\ sender' \in [Senders -> {"free", "blocked"}]
        /\ \A t \in Senders :
             sender'[t] = IF t \in InWindow \cup {curr} THEN "free" ELSE sender[t]
    BY <1>1, <1>2, Released
  <1>4. Count' = 0 /\ senders' = [s \in Slots |-> NoThread]
    BY <1>2, NoneLeft DEF Count
  <1>5. TypeOK'
    BY <1>2, <1>3, <1>4 DEF TypeOK, Slots, Waits
  <1>6. \A s \in Slots : senders'[s] = NoThread
    BY <1>4
  <1>7. SendersWait' /\ Windowed' /\ NamedOnce'
    BY <1>2, <1>6 DEF SendersWait, Windowed, NamedOnce, Slots
  <1>8. \A t \in Senders : sender'[t] = "free"
    <2> SUFFICES ASSUME NEW t \in Senders, sender'[t] # "free" PROVE FALSE
      OBVIOUS
    <2>1. t \notin InWindow /\ t # curr /\ sender[t] = "blocked" /\ t # NoThread
      BY <1>1, <1>3
    <2>2. PICK s \in Slots : senders[s] = t
      BY <2>1 DEF Registered
    <2>3. QED
      BY <2>1, <2>2, NoneLeft
  <1>9. Registered' /\ Answered' /\ Woken'
    BY <1>2, <1>4, <1>8 DEF Registered, Answered, Woken
  <1>10. QED
    BY <1>5, <1>7, <1>9

\* A queue initialised anew after its deletion.
LEMMA ReopenStep == ASSUME IInv, Reopen PROVE IInv'
  <1> USE DEF IInv
  <1>1. /\ senders' = [s \in Slots |-> NoThread] /\ open' = TRUE
        /\ read' = write /\ UNCHANGED <<overrun, write, events, sender>>
        /\ curr' = NoThread /\ UNCHANGED <<owner, queued, wait>>
    BY DEF Reopen, ownerVars
  <1>2. Count' = 0
    BY <1>1, NoneLeft DEF Count
  <1>3. \A t \in Senders : sender[t] = "free"
    BY DEF Reopen, Answered
  <1>4. TypeOK'
    BY <1>1 DEF TypeOK, Slots, Waits
  <1>5. \A s \in Slots : senders'[s] = NoThread
    BY <1>1
  <1>6. SendersWait' /\ Windowed' /\ NamedOnce'
    BY <1>1, <1>5 DEF SendersWait, Windowed, NamedOnce, Slots
  <1>7. Registered' /\ Answered' /\ Woken'
    BY <1>1, <1>2, <1>3 DEF Registered, Answered, Woken
  <1>8. QED
    BY <1>4, <1>6, <1>7

-------------------------------------------------------------------------------
\* The inductive invariant: the map of senders read by distance from the head,
\* each name once, and the owner in the wait list of an empty queue only.
THEOREM Invariance == Spec => []IInv
  <1>1. Init => IInv
    BY InitHolds
  <1>2. IInv /\ [Next]_vars => IInv'
    <2> SUFFICES ASSUME IInv, [Next]_vars PROVE IInv'
      OBVIOUS
    <2>1. CASE Post
      BY <2>1, PostStep
    <2>2. CASE Reply
      BY <2>2, ReplyStep
    <2>3. CASE \E w \in Waits, poll \in BOOLEAN : WaitBegin(w, poll)
      BY <2>3, WaitBeginStep
    <2>4. CASE WaitResume
      BY <2>4, WaitResumeStep
    <2>5. CASE WaitExpire
      BY <2>5, WaitExpireStep
    <2>6. CASE Clear
      BY <2>6, ClearStep
    <2>7. CASE Delete
      BY <2>7, DeleteStep
    <2>8. CASE Reopen
      BY <2>8, ReopenStep
    <2>9. CASE \E t \in Senders : Send(t)
      BY <2>9, SendStep
    <2>10. CASE \E k \in Slots : Tidy(k) /\ (Discard(k) \/ PeekTake(k))
      BY <2>10, DiscardStep, PeekTakeStep
    <2>11. CASE UNCHANGED vars
      <3>1. /\ UNCHANGED <<open, read, write, events, senders, curr>>
            /\ UNCHANGED <<sender, owner, wait, queued, overrun>>
        BY <2>11 DEF vars, ring, ownerVars
      <3>2. TypeOK' /\ Count' = Count
        BY <3>1 DEF IInv, TypeOK, Slots, Waits, Count
      <3>3. SendersWait' /\ Windowed' /\ NamedOnce' /\ Registered'
        BY <3>1, <3>2 DEF IInv, SendersWait, Windowed, NamedOnce, Registered,
                          From, Slots
      <3>4. Answered' /\ Woken'
        BY <3>1, <3>2 DEF IInv, Answered, Woken
      <3>5. QED
        BY <3>2, <3>3, <3>4 DEF IInv
    <2>12. QED
      BY <2>1, <2>2, <2>3, <2>4, <2>5, <2>6, <2>7, <2>8, <2>9, <2>10, <2>11
         DEF Next, Wait
  <1>3. QED
    BY <1>1, <1>2, PTL DEF Spec

\* The map of senders is sound in both directions: whoever is in it waits for
\* the event of that slot, which is still to be taken, and whoever waits is in
\* it exactly once or has been taken by the owner (queue.c, senders[] and
\* curr_sender), however often the ring wraps, and also when more is posted
\* than it holds.
THEOREM SendersAreSound == Spec => []SendersSound
  <1>1. IInv => SendersSound
    <2> SUFFICES ASSUME IInv PROVE SendersSound
      OBVIOUS
    <2> USE DEF IInv
    <2>1. TypeOK /\ NoThread \notin Senders
      BY Sizes
    <2>2. ASSUME NEW t \in Senders, sender[t] = "blocked"
          PROVE  Cardinality({s \in Slots : senders[s] = t})
                   = (IF curr = t THEN 0 ELSE 1)
      <3>1. t # NoThread
        BY <2>1
      <3>2. CASE curr = t
        <4>1. {s \in Slots : senders[s] = t} = {}
          BY <3>1, <3>2 DEF NamedOnce
        <4>2. QED
          BY <3>2, <4>1, FS_EmptySet
      <3>3. CASE curr # t
        <4>1. PICK s \in Slots : senders[s] = t
          BY <2>2, <3>3 DEF Registered
        <4>2. {z \in Slots : senders[z] = t} = {s}
          BY <3>1, <4>1 DEF NamedOnce
        <4>3. QED
          BY <3>3, <4>2, FS_Singleton
      <3>4. QED
        BY <3>2, <3>3
    <2>3. ASSUME NEW s \in Slots, senders[s] # NoThread
          PROVE  \E k \in 0..(Count - 1) : s = Slot(k)
      <3> DEFINE k == From(s, read)
      <3>1. k \in 0..(Length - 1) /\ Slot(k) = s /\ Count \in Nat /\ k < Count
        BY <2>3, InRing DEF Slots, Windowed
      <3> HIDE DEF k
      <3>2. k \in 0..(Count - 1)
        BY <3>1, Sizes, SMT
      <3>3. QED
        BY <3>1, <3>2
    <2>4. curr # NoThread => sender[curr] = "blocked"
      BY DEF Registered
    <2>5. WaitersRegistered
      BY <2>2, <2>3, <2>4 DEF WaitersRegistered
    <2>6. QED
      BY <2>1, <2>5 DEF SendersSound
  <1>2. QED
    BY <1>1, Invariance, PTL

\* No wakeup is lost: the owner blocks in queue_wait only while it is in the
\* wait list of an empty queue, and is in the list no more when the call
\* returns (queue.c, queue_wait, queue_wait_w_tmo and queue_wake_waiter).
THEOREM OwnerStaysAwake == Spec => []OwnerAwake
  <1>1. IInv => OwnerAwake
    BY DEF IInv, Woken, OwnerAwake
  <1>2. QED
    BY <1>1, Invariance, PTL

-------------------------------------------------------------------------------
\* Until the ring has overrun it holds no more events than it has slots, and
\* each of them has its own sender, or none, in the slot of the same number.
Paired == ~overrun =>
    /\ Count <= Length
    /\ \A s \in Slots : From(s, read) < Count => events[s] = senders[s]

\* Places less than Count from the head, one by one, while there is room.
LEMMA Places ==
    ASSUME TypeOK, Count <= Length
    PROVE  /\ \A k \in 0..(Count - 1) :
                /\ Slot(k) \in Slots /\ From(Slot(k), read) = k /\ k \in Int
           /\ Count < Length => From(WriteSlot, read) = Count
           /\ \A k \in 0..(Length - 1) : From(Slot(k), read) = k
  <1>1. Count \in Nat /\ Count \in Int
    <2>1. Count \in Nat
      BY InRing
    <2>2. QED
      BY <2>1, SMT
  <1>2. ASSUME NEW k \in Int, 0 <= k, k < Length
        PROVE  Slot(k) \in Slots /\ From(Slot(k), read) = k
    <2>1. -Length <= k /\ ~(k < 0)
      BY <1>2, Sizes, SMT
    <2>2. k % Length = k
      BY <1>2, <2>1, Sizes, SmallMod
    <2>3. QED
      BY <2>2, InRing
  <1>3. \A k \in 0..(Count - 1) : k \in Int /\ 0 <= k /\ k < Length
    BY <1>1, Sizes, SMT
  <1>4. Count < Length => From(WriteSlot, read) = Count
    <2> SUFFICES ASSUME Count < Length PROVE From(WriteSlot, read) = Count
      OBVIOUS
    <2>1. 0 <= Count
      BY <1>1, SMT
    <2>2. WriteSlot = Slot(Count)
      BY InRing
    <2>3. QED
      BY <1>1, <1>2, <2>1, <2>2
  <1>5. \A k \in 0..(Length - 1) : k \in Int /\ 0 <= k /\ k < Length
    BY Sizes, SMT
  <1>6. QED
    BY <1>2, <1>3, <1>4, <1>5

\* A message that comes in keeps events and senders paired.
LEMMA PutInPairs ==
    ASSUME IInv, Paired, Count < MaxPending, NEW x,
           write' = Succ(write), read' = read,
           events' = [events EXCEPT ![WriteSlot] = x],
           senders' = [senders EXCEPT ![WriteSlot] = x],
           overrun' = (overrun \/ Count = Length)
    PROVE  Paired'
  <1> SUFFICES ASSUME ~overrun'
               PROVE  /\ Count' <= Length
                      /\ \A s \in Slots : From(s, read) < Count' => events'[s] = senders'[s]
    BY DEF Paired, From, Slots
  <1>1. TypeOK
    BY DEF IInv
  <1>2. Count <= Length /\ Count # Length /\ Count \in Nat
    BY <1>1, InRing DEF Paired
  <1>3. Count < Length /\ Count + 1 <= Length
    BY <1>2, Sizes, SMT
  <1>4. Count' = Count + 1
    BY <1>1, OneMore DEF Count
  <1>5. ASSUME NEW s \in Slots, From(s, read) < Count + 1
        PROVE  events'[s] = senders'[s]
    <2>1. CASE s = WriteSlot
      BY <1>1, <2>1 DEF TypeOK
    <2>2. CASE s # WriteSlot
      <3>1. From(s, read) # Count
        <4>1. From(WriteSlot, read) = Count /\ WriteSlot \in Slots
          BY <1>1, <1>2, <1>3, Places, InRing
        <4>2. QED
          BY <1>1, <2>2, <4>1, InRing
      <3>2. From(s, read) \in 0..(Length - 1)
        BY <1>1, InRing DEF Slots
      <3>3. From(s, read) < Count
        BY <1>2, <1>5, <3>1, <3>2, Sizes, SMT
      <3>4. events[s] = senders[s]
        BY <3>3 DEF Paired
      <3>5. QED
        BY <1>1, <2>2, <3>4 DEF TypeOK
    <2>3. QED
      BY <2>1, <2>2
  <1>6. QED
    BY <1>3, <1>4, <1>5

\* What the event in place i comes from, once the one at k has left.
LEMMA PlaceOf ==
    ASSUME TypeOK, Count <= Length, NEW k \in Slots, k < Count,
           read' = Succ(read), NEW i \in 1..(Count - 1)
    PROVE  /\ Slot(i - 1)' = Slot(i) /\ Slot(i) \in Slots
           /\ From(Slot(i), read) = i
           /\ Src(Slot(i), k) = IF i < k + 1 THEN Slot(i - 1) ELSE Slot(i)
           /\ Src(Slot(i), k) # Slot(k)
  <1>1. /\ read \in Int /\ Count \in Nat /\ k \in 0..(Length - 1)
        /\ \A z \in Int : Slot(z) \in Slots
    BY InRing DEF Slots
  <1>2. /\ i \in Int /\ i - 1 \in Int /\ k \in Int /\ read + 1 \in Int
        /\ i \in 0..(Length - 1) /\ i - 1 \in 0..(Length - 1)
        /\ (read + 1) + (i - 1) = read + i /\ read + i \in Int
    BY <1>1, Sizes, SMT
  <1>3. Slot(i - 1)' = Slot(i)
    <2>1. ((Succ(read)) + (i - 1)) % Wrap = ((read + 1) + (i - 1)) % Wrap
      BY <1>2, Sizes, ModOfSum DEF Succ
    <2>2. QED
      BY <1>2, <2>1 DEF Slot
  <1>4. From(Slot(i), read) = i /\ From(Slot(i - 1), read) = i - 1
        /\ From(Slot(k), read) = k /\ Slot(i) \in Slots /\ Slot(i - 1) \in Slots
    BY <1>1, <1>2, Places
  <1>5. /\ Src(Slot(i), k) \in Slots
        /\ From(Src(Slot(i), k), read) = IF i \in 1..k THEN i - 1 ELSE i
    <2>1. /\ Src(Slot(i), k) \in Slots
          /\ From(Src(Slot(i), k), read)
               = IF From(Slot(i), read) \in 1..k
                 THEN From(Slot(i), read) - 1 ELSE From(Slot(i), read)
      BY <1>4, SlidFrom
    <2>2. QED
      BY <1>4, <2>1
  <1>6. i \in 1..k <=> i < k + 1
    BY <1>2, SMT
  <1>7. Src(Slot(i), k) = IF i < k + 1 THEN Slot(i - 1) ELSE Slot(i)
    BY <1>4, <1>5, <1>6, InRing
  <1>8. Src(Slot(i), k) # Slot(k)
    <2>1. (IF i \in 1..k THEN i - 1 ELSE i) # k
      BY <1>2, SMT
    <2>2. QED
      BY <1>4, <1>5, <2>1
  <1>9. QED
    BY <1>3, <1>4, <1>7, <1>8

\* A message that goes out keeps events and senders paired.
LEMMA PutOutPairs ==
    ASSUME IInv, Paired, NEW k \in Slots, k < Count, Tidy(k),
           senders' = Slid([senders EXCEPT ![Slot(k)] = NoThread], k),
           events' = Slid(events, k), read' = Succ(read), write' = write,
           overrun' = overrun
    PROVE  Paired'
  <1> SUFFICES ASSUME ~overrun
               PROVE  /\ Count' <= Length
                      /\ \A s \in Slots : From(s, Succ(read)) < Count'
                                            => events'[s] = senders'[s]
    BY DEF Paired, From, Slots
  <1>1. TypeOK
    BY DEF IInv
  <1>2. Count <= Length /\ Count \in Nat /\ k \in 0..(Length - 1)
    BY <1>1, InRing DEF Paired, Slots
  <1>3. Count > 0 /\ Count - 1 <= Length /\ Count \in Int
    BY <1>2, Sizes, SMT
  <1>4. Count' = Count - 1
    BY <1>1, <1>3, OneLess DEF Count
  <1>5. ASSUME NEW s \in Slots, From(s, Succ(read)) < Count - 1
        PROVE  events'[s] = senders'[s]
    <2> DEFINE o == From(s, read)
    <2>1. o \in 0..(Length - 1) /\ Slot(o) = s
      BY <1>1, InRing DEF Slots
    <2>2. (IF o = 0 THEN Length - 1 ELSE o - 1) < Count - 1
      BY <1>1, <1>3, <1>5, OneLess
    <2> HIDE DEF o
    <2>3. o \in 1..(Count - 1) /\ o - 1 \in 0..(Count - 1) /\ o \in 0..(Count - 1)
      BY <1>2, <1>3, <2>1, <2>2, Sizes, SMT
    <2> DEFINE z == Src(s, k)
    <2>4. z \in {Slot(o - 1), Slot(o)} /\ z # Slot(k) /\ z \in Slots
      <3>1. /\ Src(Slot(o), k) = IF o < k + 1 THEN Slot(o - 1) ELSE Slot(o)
            /\ Src(Slot(o), k) # Slot(k)
        BY <1>1, <1>2, <2>3, PlaceOf
      <3>2. z \in Slots
        BY <1>1, SlidFrom
      <3>3. QED
        BY <2>1, <3>1, <3>2
    <2>5. From(z, read) < Count
      <3>1. From(Slot(o - 1), read) = o - 1 /\ From(Slot(o), read) = o
        BY <1>1, <1>2, <2>3, Places
      <3>2. o - 1 < Count /\ o < Count
        BY <1>2, <2>3, SMT
      <3> HIDE DEF z
      <3>3. QED
        BY <2>4, <3>1, <3>2
    <2>6. events[z] = senders[z]
      BY <2>4, <2>5 DEF Paired
    <2>7. [senders EXCEPT ![Slot(k)] = NoThread][z] = senders[z]
      <3> HIDE DEF z
      <3>1. QED
        BY <1>1, <2>4 DEF TypeOK
    <2>8. /\ events'[s] = events[z]
          /\ senders'[s] = [senders EXCEPT ![Slot(k)] = NoThread][z]
      BY <1>1, SlidFrom
    <2>9. QED
      BY <2>6, <2>7, <2>8
  <1>6. QED
    BY <1>3, <1>4, <1>5

-------------------------------------------------------------------------------
\* Pending is the ring read from the head.
LEMMA PendingFacts ==
    ASSUME TypeOK, Count <= Length
    PROVE  /\ Pending \in Seq(Senders \cup {NoThread}) /\ Len(Pending) = Count
           /\ \A i \in 1..Count : /\ Pending[i] = events[Slot(i - 1)]
                                  /\ i - 1 \in 0..(Count - 1)
  <1>1. Count \in Nat
    BY InRing
  <1>2. \A i \in 1..Count : i - 1 \in 0..(Count - 1)
    BY <1>1, SMT
  <1>3. \A i \in 1..Count : events[Slot(i - 1)] \in Senders \cup {NoThread}
    BY <1>2, Places DEF TypeOK
  <1>4. Pending \in Seq(Senders \cup {NoThread}) /\ Len(Pending) = Count
    BY <1>1, <1>3, SMT DEF Pending
  <1>5. \A i \in 1..Count : Pending[i] = events[Slot(i - 1)]
    BY DEF Pending
  <1>6. QED
    BY <1>2, <1>4, <1>5

\* With room for it, a new event is the last message and pushes nobody out.
LEMMA PutInAppends ==
    ASSUME IInv, Paired, Count < MaxPending, NEW x \in Senders \cup {NoThread},
           write' = Succ(write), read' = read,
           events' = [events EXCEPT ![WriteSlot] = x],
           overrun' = (overrun \/ Count = Length), ~overrun'
    PROVE  Pending' = Append(Pending, x) /\ senders[WriteSlot] = NoThread
  <1>1. TypeOK
    BY DEF IInv
  <1>2. Count <= Length /\ Count # Length /\ Count \in Nat
    BY <1>1, InRing DEF Paired
  <1>3. Count < Length
    BY <1>2, Sizes, SMT
  <1>4. Count' = Count + 1
    BY <1>1, OneMore DEF Count
  <1>5. From(WriteSlot, read) = Count /\ WriteSlot \in Slots /\ WriteSlot = Slot(Count)
    BY <1>1, <1>2, <1>3, Places, InRing
  <1>6. senders[WriteSlot] = NoThread
    <2>1. ~(Count < Count)
      BY <1>2, SMT
    <2>2. QED
      BY <1>5, <2>1 DEF IInv, Windowed
  <1> DEFINE S == Senders \cup {NoThread}
             a == Append(Pending, x)
             n == Count
             P(i) == events'[Slot(i - 1)]
             b == [i \in 1..(n + 1) |-> P(i)]
  <1>7. Pending' = b
    BY <1>4 DEF Pending, Slot
  <1>8. /\ Pending \in Seq(S) /\ Len(Pending) = n
        /\ \A i \in 1..n : Pending[i] = events[Slot(i - 1)] /\ i - 1 \in 0..(n - 1)
    BY <1>1, <1>2, PendingFacts
  <1>9. /\ a \in Seq(S) /\ Len(a) = n + 1
        /\ \A i \in 1..n : a[i] = Pending[i]
        /\ a[n + 1] = x
    BY <1>8, AppendFacts
  <1>10. ASSUME NEW i \in 1..(n + 1)
         PROVE  P(i) = a[i]
    <2>1. CASE i = n + 1
      <3>1. i - 1 = n
        BY <1>2, <2>1, SMT
      <3>2. P(i) = x
        BY <1>1, <1>5, <3>1 DEF TypeOK
      <3>3. QED
        BY <1>9, <2>1, <3>2
    <2>2. CASE i # n + 1
      <3>1. i \in 1..n /\ i - 1 # n
        BY <1>2, <2>2, SMT
      <3>2. i - 1 \in 0..(n - 1)
        BY <1>8, <3>1
      <3>3. From(Slot(i - 1), read) = i - 1 /\ Slot(i - 1) \in Slots
        BY <1>1, <1>2, <3>2, Places
      <3>4. Slot(i - 1) # WriteSlot
        BY <1>5, <3>1, <3>3
      <3>5. P(i) = events[Slot(i - 1)]
        BY <1>1, <3>3, <3>4 DEF TypeOK
      <3>6. QED
        BY <1>8, <1>9, <3>1, <3>5
    <2>3. QED
      BY <2>1, <2>2
  <1>11. \A i \in 1..(n + 1) : a[i] \in S
    BY <1>9, ElementOfSeq
  <1>12. b \in Seq(S) /\ Len(b) = n + 1
    <2> HIDE DEF a, P
    <2>1. n + 1 \in Nat /\ \A i \in 1..(n + 1) : P(i) \in S
      BY <1>2, <1>10, <1>11, SMT
    <2>2. QED
      BY <2>1, SMT
  <1>13. b = a
    <2> HIDE DEF a, P
    <2>1. Len(b) = Len(a) /\ \A i \in 1..Len(b) : b[i] = a[i]
      BY <1>9, <1>10, <1>12
    <2> HIDE DEF b
    <2>2. QED
      BY <1>9, <1>12, <2>1, SeqEqual
  <1>14. QED
    BY <1>6, <1>7, <1>13

\* The event at k leaves, and the message k + 1 with it.
LEMMA PutOutRemoves ==
    ASSUME IInv, Paired, ~overrun, NEW k \in Slots, k < Count,
           events' = Slid(events, k), read' = Succ(read), write' = write
    PROVE  /\ k + 1 \in 1..Len(Pending) /\ Messages!Remove(k + 1)
           /\ Pending[k + 1] = senders[Slot(k)]
  <1>1. TypeOK
    BY DEF IInv
  <1>2. Count <= Length /\ Count \in Nat /\ k \in 0..(Length - 1)
    BY <1>1, InRing DEF Paired, Slots
  <1>3. Count > 0 /\ k + 1 \in 1..Count /\ (k + 1) - 1 = k /\ k \in 0..(Count - 1)
    BY <1>2, Sizes, SMT
  <1>4. Count' = Count - 1
    BY <1>1, <1>3, OneLess DEF Count
  <1>5. Len(Pending) = Count /\ \A i \in 1..Count : Pending[i] = events[Slot(i - 1)]
    BY <1>1, <1>2, PendingFacts
  <1>6. Pending[k + 1] = senders[Slot(k)]
    <2>1. Pending[k + 1] = events[Slot(k)]
      BY <1>3, <1>5
    <2>2. From(Slot(k), read) = k /\ Slot(k) \in Slots
      BY <1>1, <1>2, <1>3, Places
    <2>3. QED
      BY <2>1, <2>2 DEF Paired
  <1>7. ASSUME NEW i \in 1..(Count - 1)
        PROVE  events'[Slot(i - 1)'] = IF i < k + 1 THEN Pending[i] ELSE Pending[i + 1]
    <2>1. /\ Slot(i - 1)' = Slot(i) /\ Slot(i) \in Slots
          /\ Src(Slot(i), k) = IF i < k + 1 THEN Slot(i - 1) ELSE Slot(i)
      BY <1>1, <1>2, PlaceOf
    <2>2. events'[Slot(i)] = events[Src(Slot(i), k)]
      BY <1>1, <2>1, SlidFrom
    <2>3. i \in 1..Count /\ i + 1 \in 1..Count /\ (i + 1) - 1 = i
      BY <1>2, SMT
    <2>4. Pending[i] = events[Slot(i - 1)] /\ Pending[i + 1] = events[Slot(i)]
      BY <1>5, <2>3
    <2>5. QED
      BY <2>1, <2>2, <2>4
  <1>8. Pending' = [i \in 1..(Count - 1) |-> events'[Slot(i - 1)']]
    BY <1>4 DEF Pending
  <1>9. Pending' = [i \in 1..(Count - 1) |->
                      IF i < k + 1 THEN Pending[i] ELSE Pending[i + 1]]
    BY <1>7, <1>8
  <1>10. QED
    BY <1>3, <1>5, <1>6, <1>9 DEF Messages!Remove

\* One thread at most is let go.
LEMMA WaitingNext ==
    ASSUME sender \in [Senders -> {"free", "blocked"}], NEW T,
           \A t \in Senders : sender'[t] = IF t \in T THEN "free" ELSE sender[t]
    PROVE  Waiting' = Waiting \ T
  BY DEF Waiting

\* A step of the queue is one of the abstract queue, unless the ring overran.
Abstract == overrun' \/ Messages!Next \/ UNCHANGED Messages!mvars

\* queue_post is a message that nobody waits for, or an overflow.
LEMMA PostRefines ==
    ASSUME IInv, Paired, Post PROVE Paired' /\ Abstract
  <1>1. /\ Count < MaxPending /\ write' = Succ(write) /\ read' = read
        /\ events' = [events EXCEPT ![WriteSlot] = NoThread]
        /\ senders' = [senders EXCEPT ![WriteSlot] = NoThread]
        /\ overrun' = (overrun \/ Count = Length)
        /\ sender' = Release(sender, Bumped) /\ curr' = curr
    BY DEF Post
  <1>2. Paired'
    BY <1>1, PutInPairs
  <1>3. ASSUME ~overrun' PROVE Messages!Post
    <2>1. Pending' = Append(Pending, NoThread) /\ senders[WriteSlot] = NoThread
      BY <1>1, <1>3, PutInAppends
    <2>2. sender \in [Senders -> {"free", "blocked"}] /\ NoThread \notin Senders
      BY Sizes DEF IInv, TypeOK
    <2>3. \A t \in Senders : sender'[t] = IF t \in {} THEN "free" ELSE sender[t]
      BY <1>1, <2>1, <2>2, Released DEF Bumped
    <2>4. Waiting' = Waiting
      <3>1. Waiting' = Waiting \ {}
        BY <2>2, <2>3, WaitingNext
      <3>2. QED
        BY <3>1
    <2>5. QED
      BY <1>1, <2>1, <2>4 DEF Messages!Post
  <1>4. QED
    BY <1>2, <1>3 DEF Abstract, Messages!Next

\* queue_send is a message that its sender waits for, or an overflow.
LEMMA SendRefines ==
    ASSUME IInv, Paired, NEW t \in Senders, Send(t) PROVE Paired' /\ Abstract
  <1> DEFINE r == Release(sender, Bumped)
  <1>1. /\ Count < MaxPending /\ write' = Succ(write) /\ read' = read
        /\ events' = [events EXCEPT ![WriteSlot] = t]
        /\ senders' = [senders EXCEPT ![WriteSlot] = t]
        /\ overrun' = (overrun \/ Count = Length)
        /\ sender' = [r EXCEPT ![t] = "blocked"] /\ curr' = curr
        /\ sender[t] = "free"
    BY DEF Send
  <1>2. Paired'
    BY <1>1, PutInPairs
  <1>3. ASSUME ~overrun' PROVE Messages!Send(t)
    <2>1. Pending' = Append(Pending, t) /\ senders[WriteSlot] = NoThread
      BY <1>1, <1>3, PutInAppends
    <2>2. sender \in [Senders -> {"free", "blocked"}] /\ NoThread \notin Senders
      BY Sizes DEF IInv, TypeOK
    <2>3. /\ r \in [Senders -> {"free", "blocked"}]
          /\ \A u \in Senders : r[u] = sender[u]
      BY <2>1, <2>2, Released DEF Bumped
    <2> HIDE DEF r
    <2>4. \A u \in Senders : sender'[u] = IF u = t THEN "blocked" ELSE sender[u]
      BY <1>1, <2>3
    <2>5. Waiting' = Waiting \cup {t} /\ t \notin Waiting
      BY <1>1, <2>4 DEF Waiting
    <2>6. QED
      BY <1>1, <2>1, <2>5 DEF Messages!Send
  <1>4. QED
    BY <1>2, <1>3 DEF Abstract, Messages!Next

\* Taking a message removes it and answers the one before.
LEMMA TakeRefines ==
    ASSUME IInv, Paired, NEW k \in Slots, k < Count, Tidy(k),
           senders' = Slid([senders EXCEPT ![Slot(k)] = NoThread], k),
           events' = Slid(events, k), read' = Succ(read), write' = write,
           overrun' = overrun, curr' = senders[Slot(k)],
           \A t \in Senders : sender'[t] = IF t = curr THEN "free" ELSE sender[t]
    PROVE  Paired' /\ Abstract
  <1>1. Paired'
    BY PutOutPairs
  <1>2. ASSUME ~overrun PROVE Messages!Take(k + 1) /\ k + 1 \in 1..Len(Pending)
    <2>1. /\ k + 1 \in 1..Len(Pending) /\ Messages!Remove(k + 1)
          /\ Pending[k + 1] = senders[Slot(k)]
      BY <1>2, PutOutRemoves
    <2>2. sender \in [Senders -> {"free", "blocked"}]
      BY DEF IInv, TypeOK
    <2>3. Waiting' = Waiting \ {curr}
      BY <2>2, WaitingNext
    <2>4. QED
      BY <2>1, <2>3 DEF Messages!Take
  <1>3. QED
    BY <1>1, <1>2 DEF Abstract, Messages!Next

\* Removing a message unhandled answers it.
LEMMA DiscardRefines ==
    ASSUME IInv, Paired, NEW k \in Slots, Tidy(k), Discard(k)
    PROVE  Paired' /\ Abstract
  <1>1. /\ sender' = Release(sender, {senders[Slot(k)]})
        /\ senders' = Slid([senders EXCEPT ![Slot(k)] = NoThread], k)
        /\ events' = Slid(events, k) /\ read' = Succ(read) /\ write' = write
        /\ k < Count /\ curr' = curr /\ overrun' = overrun
    BY DEF Discard
  <1>2. Paired'
    BY <1>1, PutOutPairs
  <1>3. ASSUME ~overrun PROVE Messages!Drop(k + 1) /\ k + 1 \in 1..Len(Pending)
    <2>1. /\ k + 1 \in 1..Len(Pending) /\ Messages!Remove(k + 1)
          /\ Pending[k + 1] = senders[Slot(k)]
      BY <1>1, <1>3, PutOutRemoves
    <2>2. sender \in [Senders -> {"free", "blocked"}]
      BY DEF IInv, TypeOK
    <2>3. \A t \in Senders : sender'[t] = IF t \in {Pending[k + 1]}
                                          THEN "free" ELSE sender[t]
      BY <1>1, <2>1, <2>2, Released
    <2>4. Waiting' = Waiting \ {Pending[k + 1]}
      BY <2>2, <2>3, WaitingNext
    <2>5. QED
      BY <1>1, <2>1, <2>4 DEF Messages!Drop
  <1>4. QED
    BY <1>1, <1>2, <1>3 DEF Abstract, Messages!Next

\* Taking by queue_peek_ex, with or without a sender behind the message.
LEMMA PeekTakeRefines ==
    ASSUME IInv, Paired, NEW k \in Slots, Tidy(k), PeekTake(k)
    PROVE  Paired' /\ Abstract
  <1>1. /\ sender' = Release(sender, {curr})
        /\ senders' = Slid([senders EXCEPT ![Slot(k)] = NoThread], k)
        /\ events' = Slid(events, k) /\ read' = Succ(read) /\ write' = write
        /\ k < Count /\ curr' = senders[Slot(k)] /\ overrun' = overrun
    BY DEF PeekTake, AutoReply
  <1>2. sender \in [Senders -> {"free", "blocked"}]
    BY DEF IInv, TypeOK
  <1>3. \A t \in Senders : sender'[t] = IF t = curr THEN "free" ELSE sender[t]
    BY <1>1, <1>2, Released
  <1>4. QED
    BY <1>1, <1>3, TakeRefines

\* The places stay as they are and the message taken before is answered.
LEMMA AnswerRefines ==
    ASSUME IInv, Paired, UNCHANGED <<overrun, read, write, events, senders>>,
           curr' = NoThread,
           \A t \in Senders : sender'[t] = IF t = curr THEN "free" ELSE sender[t]
    PROVE  Paired' /\ Abstract
  <1>1. Count' = Count
    BY DEF Count
  <1>2. Paired'
    BY <1>1 DEF Paired, From, Slots
  <1>3. Pending' = Pending
    BY <1>1 DEF Pending, Slot
  <1>4. sender \in [Senders -> {"free", "blocked"}]
    BY DEF IInv, TypeOK
  <1>5. Waiting' = Waiting \ {curr}
    BY <1>4, WaitingNext
  <1>6. Messages!Answer
    BY <1>3, <1>5 DEF Messages!Answer
  <1>7. QED
    BY <1>2, <1>6 DEF Abstract, Messages!Next

\* Nothing changes for those outside.
LEMMA StutterRefines ==
    ASSUME Paired, UNCHANGED <<overrun, read, write, events, senders, curr, sender>>
    PROVE  Paired' /\ Abstract
  <1>1. Count' = Count
    BY DEF Count
  <1>2. Paired'
    BY <1>1 DEF Paired, From, Slots
  <1>3. Pending' = Pending /\ Waiting' = Waiting
    BY <1>1 DEF Pending, Waiting, Slot
  <1>4. QED
    BY <1>2, <1>3 DEF Abstract, Messages!mvars

\* Waiting answers the last message and may take the next.
LEMMA WaitBeginRefines ==
    ASSUME IInv, Paired, NEW w \in Waits, NEW poll \in BOOLEAN, WaitBegin(w, poll)
    PROVE  Paired' /\ Abstract
  <1>1. /\ TypeOK /\ sender' = Release(sender, {curr}) /\ overrun' = overrun
        /\ sender \in [Senders -> {"free", "blocked"}]
    BY DEF WaitBegin, AutoReply, IInv, TypeOK
  <1>2. \A t \in Senders : sender'[t] = IF t = curr THEN "free" ELSE sender[t]
    BY <1>1, Released
  <1>3. CASE Count # 0 /\ w.take
    <2>1. /\ read' = Succ(read) /\ write' = write /\ events' = events
          /\ senders' = [senders EXCEPT ![Slot(0)] = NoThread]
          /\ curr' = senders[Slot(0)]
      BY <1>3 DEF WaitBegin, Fetch, FreeSlot
    <2>2. QED
      BY <1>1, <1>2, <1>3, <2>1, TakeHead, TakeRefines
  <1>4. CASE ~(Count # 0 /\ w.take)
    <2>1. UNCHANGED <<read, write, events, senders>> /\ curr' = NoThread
      BY <1>4 DEF WaitBegin, Fetch
    <2>2. QED
      BY <1>1, <1>2, <2>1, AnswerRefines
  <1>5. QED
    BY <1>3, <1>4

\* The owner, woken, takes the head or finds nothing.
LEMMA WaitResumeRefines ==
    ASSUME IInv, Paired, WaitResume PROVE Paired' /\ Abstract
  <1>1. /\ TypeOK /\ sender' = sender /\ overrun' = overrun /\ curr = NoThread
        /\ NoThread \notin Senders
    BY Sizes DEF WaitResume, IInv, Answered
  <1>2. \A t \in Senders : sender'[t] = IF t = curr THEN "free" ELSE sender[t]
    BY <1>1
  <1>3. CASE Count # 0 /\ wait.take
    <2>1. /\ read' = Succ(read) /\ write' = write /\ events' = events
          /\ senders' = [senders EXCEPT ![Slot(0)] = NoThread]
          /\ curr' = senders[Slot(0)]
      BY <1>1, <1>3 DEF WaitResume, Fetch, FreeSlot
    <2>2. /\ 0 \in Slots /\ 0 < Count /\ Tidy(0)
          /\ senders' = Slid([senders EXCEPT ![Slot(0)] = NoThread], 0)
          /\ events' = Slid(events, 0)
      BY <1>1, <1>3, <2>1, TakeHead
    <2>3. QED
      BY <1>1, <1>2, <2>1, <2>2, TakeRefines
  <1>4. CASE ~(Count # 0 /\ wait.take)
    <2>1. UNCHANGED <<read, write, events, senders>> /\ curr' = curr
      BY <1>1, <1>4 DEF WaitResume, Fetch, ring
    <2>2. QED
      BY <1>1, <2>1, StutterRefines
  <1>5. QED
    BY <1>3, <1>4

\* The ring is emptied, by queue_clear, queue_delete or queue_init.
LEMMA EmptyRefines ==
    ASSUME IInv, Paired, write' = write, read' = write,
           \/ curr' = curr /\ Waiting' = Waiting \cap {curr}
           \/ curr' = NoThread /\ Waiting' = {}
    PROVE  Paired' /\ Abstract
  <1>1. Count' = 0
    BY NoneLeft DEF Count
  <1>2. Paired'
    <2> SUFFICES /\ 0 <= Length
                 /\ \A s \in Slots : ~(From(s, write) < 0)
      BY <1>1 DEF Paired, From, Slots
    <2>1. write \in Int
      BY InRing DEF IInv
    <2>2. ASSUME NEW s \in Slots PROVE ~(From(s, write) < 0)
      <3>1. s - write \in Int
        <4>1. s \in 0..(Length - 1)
          BY DEF Slots
        <4>2. QED
          BY <2>1, <4>1, SMT
      <3>2. From(s, write) \in 0..(Length - 1)
        BY <3>1, Sizes, DivMod DEF From
      <3>3. QED
        BY <3>2, SMT
    <2>3. QED
      BY <2>2, Sizes, SMT
  <1>3. Pending' = << >>
    <2> DEFINE P(i) == events'[Slot(i - 1)']
               b == [i \in 1..0 |-> P(i)]
    <2>1. Pending' = b
      BY <1>1 DEF Pending
    <2>2. 0 \in Nat /\ \A i \in 1..0 : P(i) \in {}
      BY SMT
    <2> HIDE DEF P
    <2>3. b \in Seq({}) /\ Len(b) = 0
      BY <2>2, SMT
    <2>4. b = << >>
      <3> HIDE DEF b
      <3>1. b # << >> => Len(b) \in Nat \ {0}
        BY <2>3, EmptySeq
      <3>2. QED
        BY <2>3, <3>1, SMT
    <2>5. QED
      BY <2>1, <2>4
  <1>4. Messages!DropAll
    BY <1>3 DEF Messages!DropAll
  <1>5. QED
    BY <1>2, <1>4 DEF Abstract, Messages!Next

\* queue_clear answers the waiting and keeps the message in hand.
LEMMA ClearRefines == ASSUME IInv, Paired, Clear PROVE Paired' /\ Abstract
  <1>1. /\ sender' = Release(sender, InWindow) /\ read' = write /\ write' = write
        /\ curr' = curr
        /\ sender \in [Senders -> {"free", "blocked"}] /\ NoThread \notin Senders
    BY Sizes DEF Clear, IInv, TypeOK
  <1>2. \A t \in Senders :
          sender'[t] = IF t \in InWindow THEN "free" ELSE sender[t]
    BY <1>1, Released
  <1>3. Waiting' = Waiting \ InWindow
    BY <1>1, <1>2, WaitingNext
  <1>4. Waiting' = Waiting \cap {curr}
    <2>1. ASSUME NEW t \in Waiting, t # curr PROVE t \in InWindow
      <3>1. t \in Senders /\ sender[t] = "blocked" /\ t # NoThread
        BY <1>1 DEF Waiting
      <3>2. PICK s \in Slots : senders[s] = t
        BY <2>1, <3>1 DEF IInv, Registered
      <3>3. QED
        BY <3>1, <3>2, NoneLeft
    <2>2. ASSUME curr # NoThread PROVE curr \notin InWindow
      BY <2>2, NoneLeft DEF IInv, NamedOnce
    <2>3. \A t \in Waiting : t # NoThread
      BY <1>1 DEF Waiting
    <2>4. QED
      BY <1>3, <2>1, <2>2, <2>3
  <1>5. QED
    BY <1>1, <1>4, EmptyRefines

\* queue_delete answers everybody.
LEMMA DeleteRefines == ASSUME IInv, Paired, Delete PROVE Paired' /\ Abstract
  <1>1. /\ sender' = Release(sender, InWindow \cup {curr}) /\ read' = write
        /\ write' = write /\ curr' = NoThread
        /\ sender \in [Senders -> {"free", "blocked"}] /\ NoThread \notin Senders
    BY Sizes DEF Delete, IInv, TypeOK
  <1>2. \A t \in Senders :
          sender'[t] = IF t \in InWindow \cup {curr} THEN "free" ELSE sender[t]
    BY <1>1, Released
  <1>3. Waiting' = Waiting \ (InWindow \cup {curr})
    BY <1>1, <1>2, WaitingNext
  <1>4. Waiting' = {}
    <2> SUFFICES ASSUME NEW t \in Waiting, t # curr PROVE t \in InWindow
      BY <1>3
    <2>1. t \in Senders /\ sender[t] = "blocked" /\ t # NoThread
      BY <1>1 DEF Waiting
    <2>2. PICK s \in Slots : senders[s] = t
      BY <2>1 DEF IInv, Registered
    <2>3. QED
      BY <2>1, <2>2, NoneLeft
  <1>5. QED
    BY <1>1, <1>4, EmptyRefines

\* A reopened queue is empty.
LEMMA ReopenRefines == ASSUME IInv, Paired, Reopen PROVE Paired' /\ Abstract
  <1>1. read' = write /\ write' = write /\ curr' = NoThread /\ sender' = sender
    BY DEF Reopen
  <1>2. Waiting' = {}
    BY <1>1 DEF Waiting, Reopen, IInv, Answered
  <1>3. QED
    BY <1>1, <1>2, EmptyRefines

\* queue.c is a message queue: until the ring is overrun, its counters that
\* wrap, its slots and its array of senders give out the messages in the order
\* they came in, keep the thread behind each one waiting until its own message
\* is answered or dropped, and let nobody else go.
THEOREM Implements == Spec => ImplementsMessageQueue
  <1>1. Init => Messages!Init /\ Paired
    <2> SUFFICES ASSUME Init PROVE Messages!Init /\ Paired
      OBVIOUS
    <2>1. /\ read = 0 /\ write = 0 /\ curr = NoThread /\ TypeOK
          /\ \A s \in Slots : events[s] = senders[s]
          /\ \A t \in Senders : sender[t] = "free"
      BY InitHolds DEF Init, IInv
    <2>2. Count = 0 /\ Count <= Length
      <3>1. 0 - 0 = 0 /\ 0 % Wrap = 0 /\ 0 <= Length
        BY Sizes, SMT
      <3>2. QED
        BY <2>1, <3>1 DEF Count
    <2>3. Pending = << >>
      <3>1. Pending \in Seq(Senders \cup {NoThread}) /\ Len(Pending) = 0
        BY <2>1, <2>2, PendingFacts
      <3>2. Pending # << >> => Len(Pending) \in Nat \ {0}
        BY <3>1, EmptySeq
      <3>3. QED
        BY <3>1, <3>2, SMT
    <2>4. Waiting = {}
      BY <2>1 DEF Waiting
    <2>5. QED
      BY <2>1, <2>2, <2>3, <2>4 DEF Messages!Init, Paired
  <1>2. IInv /\ Paired /\ [Next]_vars
          => Paired' /\ [overrun' \/ Messages!Next]_(Messages!mvars)
    <2> SUFFICES ASSUME IInv, Paired, [Next]_vars PROVE Paired' /\ Abstract
      BY DEF Abstract
    <2>1. CASE Post
      BY <2>1, PostRefines
    <2>2. CASE Reply
      <3>1. /\ sender' = Release(sender, {curr}) /\ curr' = NoThread
            /\ UNCHANGED <<overrun, read, write, events, senders>>
            /\ sender \in [Senders -> {"free", "blocked"}]
        BY <2>2 DEF Reply, IInv, TypeOK
      <3>2. \A t \in Senders : sender'[t] = IF t = curr THEN "free" ELSE sender[t]
        BY <3>1, Released
      <3>3. QED
        BY <3>1, <3>2, AnswerRefines
    <2>3. CASE \E w \in Waits, poll \in BOOLEAN : WaitBegin(w, poll)
      BY <2>3, WaitBeginRefines
    <2>4. CASE WaitResume
      BY <2>4, WaitResumeRefines
    <2>5. CASE WaitExpire
      <3>1. UNCHANGED <<overrun, read, write, events, senders, curr, sender>>
        BY <2>5 DEF WaitExpire, ring
      <3>2. QED
        BY <3>1, StutterRefines
    <2>6. CASE Clear
      BY <2>6, ClearRefines
    <2>7. CASE Delete
      BY <2>7, DeleteRefines
    <2>8. CASE Reopen
      BY <2>8, ReopenRefines
    <2>9. CASE \E t \in Senders : Send(t)
      BY <2>9, SendRefines
    <2>10. CASE \E k \in Slots : Tidy(k) /\ (Discard(k) \/ PeekTake(k))
      BY <2>10, DiscardRefines, PeekTakeRefines
    <2>11. CASE UNCHANGED vars
      <3>1. UNCHANGED <<overrun, read, write, events, senders, curr, sender>>
        BY <2>11 DEF vars, ring
      <3>2. QED
        BY <3>1, StutterRefines
    <2>12. QED
      BY <2>1, <2>2, <2>3, <2>4, <2>5, <2>6, <2>7, <2>8, <2>9, <2>10, <2>11
         DEF Next, Wait
  <1>3. QED
    BY <1>1, <1>2, Invariance, PTL DEF Spec, ImplementsMessageQueue
===============================================================================
