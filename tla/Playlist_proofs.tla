---------------------------- MODULE Playlist_proofs ----------------------------
(***************************************************************************)
(* That the control file of the playlist always gives the list again, that *)
(* the track which plays stays the current one, and that what is displayed *)
(* changes as asked, for lists of any length, any seeds and any number of  *)
(* steps.                                                                  *)
(*                                                                         *)
(* Restored is not inductive.  What makes it so is that indices and the    *)
(* mark of the last insertion stay within the list, that no two tracks     *)
(* have their names at the same place in the file, and that a list nobody  *)
(* has started yet begins at 0 and is in the order of the file.            *)
(***************************************************************************)
EXTENDS Playlist, Integers, Sequences, FiniteSets, SequencesExt,
        FiniteSetTheorems, SequenceTheorems, WellFoundedInduction, TLAPS

-------------------------------------------------------------------------------
\* Lists: what the operations on them do to what is in them.

\* RemoveAt of the library, place by place.
LEMMA RemoveAtFacts ==
    ASSUME NEW S, NEW s \in Seq(S), NEW k \in 1..Len(s)
    PROVE  /\ RemoveAt(s, k) \in Seq(S)
           /\ Len(s) \in Nat /\ Len(RemoveAt(s, k)) = Len(s) - 1
           /\ \A j \in 1..(Len(s) - 1) :
                RemoveAt(s, k)[j] = IF j < k THEN s[j] ELSE s[j + 1]
  <1> DEFINE a == SubSeq(s, 1, k - 1)
             b == SubSeq(s, k + 1, Len(s))
  <1>1. Len(s) \in Nat /\ \A j \in 1..Len(s) : s[j] \in S
    BY LenProperties, ElementOfSeq
  <1>2. /\ a \in Seq(S) /\ Len(a) = IF 1 <= k - 1 THEN (k - 1) - 1 + 1 ELSE 0
        /\ \A j \in 1..((k - 1) - 1 + 1) : a[j] = s[1 + j - 1]
    <2>1. \A j \in 1..(k - 1) : s[j] \in S
      BY <1>1, SMT
    <2>2. 1 \in Int /\ k - 1 \in Int
      BY SMT
    <2>3. QED
      BY <2>1, <2>2, SubSeqProperties
  <1>3. /\ b \in Seq(S)
        /\ Len(b) = IF k + 1 <= Len(s) THEN Len(s) - (k + 1) + 1 ELSE 0
        /\ \A j \in 1..(Len(s) - (k + 1) + 1) : b[j] = s[(k + 1) + j - 1]
    <2>1. \A j \in (k + 1)..Len(s) : s[j] \in S
      BY <1>1, SMT
    <2>2. k + 1 \in Int /\ Len(s) \in Int
      BY <1>1, SMT
    <2>3. QED
      BY <2>1, <2>2, SubSeqProperties
  <1>4. /\ a \o b \in Seq(S)
        /\ Len(a \o b) = Len(a) + Len(b)
        /\ \A j \in 1..(Len(a) + Len(b)) :
             (a \o b)[j] = IF j <= Len(a) THEN a[j] ELSE b[j - Len(a)]
    BY <1>2, <1>3, ConcatProperties
  <1>5. Len(a) = k - 1 /\ Len(b) = Len(s) - k
    BY <1>1, <1>2, <1>3, SMT
  <1> HIDE DEF a, b
  <1>6. ASSUME NEW j \in 1..(Len(s) - 1)
        PROVE  (a \o b)[j] = IF j < k THEN s[j] ELSE s[j + 1]
    <2>1. (a \o b)[j] = IF j <= k - 1 THEN a[j] ELSE b[j - (k - 1)]
      BY <1>1, <1>4, <1>5, SMT
    <2>2. CASE j < k
      BY <1>2, <2>1, <2>2, SMT
    <2>3. CASE ~(j < k)
      <3>1. j - (k - 1) \in 1..(Len(s) - (k + 1) + 1)
        BY <1>1, <2>3, SMT
      <3>2. b[j - (k - 1)] = s[(k + 1) + (j - (k - 1)) - 1]
        BY <1>3, <3>1
      <3>3. (k + 1) + (j - (k - 1)) - 1 = j + 1
        BY <1>1, SMT
      <3>4. QED
        BY <2>1, <2>3, <3>2, <3>3, SMT
    <2>4. QED
      BY <2>2, <2>3
  <1>7. Len(a \o b) = Len(s) - 1
    BY <1>1, <1>4, <1>5, SMT
  <1>8. QED
    BY <1>1, <1>4, <1>6, <1>7 DEF RemoveAt, a, b

\* No entry twice, place by place; IsInjective says so of the function.
LEMMA NoRepetition ==
    ASSUME NEW S, NEW s \in Seq(S)
    PROVE  /\ IsInjective(s) <=> \A i, j \in 1..Len(s) : s[i] = s[j] => i = j
           /\ \A x : x \in ToSet(s) <=> \E i \in 1..Len(s) : s[i] = x
           /\ DOMAIN s = 1..Len(s)
  BY LenProperties DEF IsInjective, ToSet

-------------------------------------------------------------------------------
\* Numbers.

\* A set of numbers with a member has a least one.
LEMMA SmallestOf ==
    ASSUME NEW S \in SUBSET Nat, S # {}
    PROVE  Min(S) \in S /\ \A x \in S : Min(S) <= x
  <1> DEFINE R == OpToRel(<, Nat)
  <1>1. IsWellFoundedOn(R, Nat)
    BY NatLessThanWellFounded
  <1> HIDE DEF R
  <1>2. PICK x \in S : \A y \in S : ~(<<y, x>> \in R)
    <2>1. \E x \in S : \A y \in S : ~(<<y, x>> \in R)
      BY <1>1, WFMin
    <2>2. QED
      BY <2>1
  <1>3. \A y \in S : x <= y
    <2>1. \A y \in Nat : y < x => <<y, x>> \in R
      BY DEF R, OpToRel
    <2>2. x \in Nat /\ \A y \in S : y \in Nat
      OBVIOUS
    <2>3. \A y \in S : ~(y < x)
      BY <1>2, <2>1, <2>2
    <2>4. QED
      BY <2>2, <2>3, SMT
  <1>4. QED
    BY <1>3 DEF Min

\* Quotient and remainder.
LEMMA DivMod ==
    ASSUME NEW n \in Nat \ {0}, NEW a \in Int
    PROVE  a % n \in 0..(n - 1) /\ a \div n \in Int /\ a = n * (a \div n) + (a % n)
  BY SMT

\* A remainder is found from any multiple it is added to.
LEMMA ModUnique ==
    ASSUME NEW n \in Nat \ {0}, NEW k \in Int, NEW r \in 0..(n - 1)
    PROVE  (n * k + r) % n = r
  BY SMT

\* Adding multiples of n keeps the remainder.
LEMMA ModPlus ==
    ASSUME NEW n \in Nat \ {0}, NEW a \in Int, NEW k \in Int
    PROVE  (a + n * k) % n = a % n
  <1>1. PICK q \in Int, r \in 0..(n - 1) : a = n * q + r /\ a % n = r
    BY DivMod
  <1>2. a + n * k = n * (q + k) + r /\ q + k \in Int
    BY <1>1, SMT
  <1>3. QED
    BY <1>1, <1>2, ModUnique

\* What is added to a wrapped number can be added before it wraps.
LEMMA ModOfSum ==
    ASSUME NEW n \in Nat \ {0}, NEW a \in Int, NEW b \in Int
    PROVE  ((a % n) + b) % n = (a + b) % n
  <1>1. PICK k \in Int : a = n * k + (a % n) /\ a % n \in Int
    <2>1. a \div n \in Int /\ a = n * (a \div n) + (a % n) /\ a % n \in 0..(n - 1)
      BY DivMod
    <2>2. a % n \in Int
      BY <2>1, SMT
    <2>3. QED
      BY <2>1, <2>2
  <1> DEFINE r == a % n
  <1>2. a = n * k + r /\ r \in Int
    BY <1>1
  <1> HIDE DEF r
  <1>3. a + b = (r + b) + n * k /\ r + b \in Int
    BY <1>2, SMT
  <1>4. (a + b) % n = (r + b) % n
    BY <1>3, ModPlus, ZenonT(30)
  <1>5. QED
    BY <1>4 DEF r

\* The remainder of a number that is close to zero.
LEMMA SmallMod ==
    ASSUME NEW n \in Nat \ {0}, NEW x \in Int, -n <= x, x < n
    PROVE  x % n = IF x < 0 THEN x + n ELSE x
  <1>1. CASE x < 0
    <2>1. x = n * (-1) + (x + n) /\ x + n \in 0..(n - 1) /\ -1 \in Int
      BY <1>1, SMT
    <2>2. (n * (-1) + (x + n)) % n = x + n
      BY <2>1, ModUnique
    <2>3. QED
      BY <1>1, <2>1, <2>2
  <1>2. CASE ~(x < 0)
    <2>1. x = n * 0 + x /\ x \in 0..(n - 1) /\ 0 \in Int
      BY <1>2, SMT
    <2>2. (n * 0 + x) % n = x
      BY <2>1, ModUnique
    <2>3. QED
      BY <1>2, <2>1, <2>2
  <1>3. QED
    BY <1>1, <1>2

-------------------------------------------------------------------------------

\* The calls keep the promises the code's comments ask of them.
Kept == Lapses = {}

Track == [seek : 1 .. MaxSeek, queued : BOOLEAN]
Distinct(s) == \A i, j \in 1 .. Len(s) : s[i].seek = s[j].seek => i = j

\* A list the player can have, and the places kept with it
GoodList(s) == s \in Seq(Track) /\ Distinct(s) /\ Len(s) <= MaxAmount
Placed(p) ==
    /\ GoodList(p.list)
    /\ p.first \in 0 .. Len(p.list) /\ p.last \in -1 .. Len(p.list) - 1

Lists == [list : Seq(Track), index : Int, first : Int, last : Int, started : BOOLEAN]
Files == [list : Seq(Track), first : Int, last : Int, sorted : BOOLEAN]

\* A list in memory, and one as the file gives it
GoodPlaylist(p) == p \in Lists /\ Placed(p) /\ p.index \in 0 .. Len(p.list) + 1
GoodFile(f) == f \in Files /\ Placed(f)

\* What the file gives is what is in memory.  Only remove_all_tracks logs
\* another last_insert_pos than it keeps, with the one track that is left.
InSync(p, f) ==
    /\ f.list = p.list /\ f.first = p.first
    /\ \/ f.last = p.last
       \/ f.last = 0 /\ p.last = -1 /\ p.index = 0 /\ Len(p.list) = 1
    /\ ~p.started => p.first = 0 /\ f.sorted

IInv ==
    /\ GoodPlaylist(playlist) /\ GoodFile(file) /\ GoodFile(disk)
    /\ InSync(playlist, file)

-------------------------------------------------------------------------------
(* Lists.                                                                    *)

\* InsertAt of the library, place by place.
LEMMA InsertAtFacts ==
    ASSUME NEW S, NEW s \in Seq(S), NEW k \in 1 .. Len(s) + 1, NEW e \in S
    PROVE  /\ InsertAt(s, k, e) \in Seq(S)
           /\ Len(s) \in Nat /\ Len(InsertAt(s, k, e)) = Len(s) + 1
           /\ \A j \in 1 .. Len(s) + 1 :
                InsertAt(s, k, e)[j] =
                   IF j < k THEN s[j] ELSE IF j = k THEN e ELSE s[j - 1]
  <1> DEFINE a == SubSeq(s, 1, k - 1)
             b == SubSeq(s, k, Len(s))
             m == a \o <<e>>
  <1>1. Len(s) \in Nat /\ \A j \in 1 .. Len(s) : s[j] \in S
    BY LenProperties, ElementOfSeq
  <1>2. /\ a \in Seq(S) /\ Len(a) = IF 1 <= k - 1 THEN (k - 1) - 1 + 1 ELSE 0
        /\ \A j \in 1 .. ((k - 1) - 1 + 1) : a[j] = s[1 + j - 1]
    <2>1. \A j \in 1 .. (k - 1) : s[j] \in S
      BY <1>1, SMT
    <2>2. 1 \in Int /\ k - 1 \in Int
      BY SMT
    <2>3. QED
      BY <2>1, <2>2, SubSeqProperties
  <1>3. /\ b \in Seq(S) /\ Len(b) = IF k <= Len(s) THEN Len(s) - k + 1 ELSE 0
        /\ \A j \in 1 .. (Len(s) - k + 1) : b[j] = s[k + j - 1]
    <2>1. \A j \in k .. Len(s) : s[j] \in S
      BY <1>1, SMT
    <2>2. k \in Int /\ Len(s) \in Int
      BY <1>1, SMT
    <2>3. QED
      BY <2>1, <2>2, SubSeqProperties
  <1>4. Len(a) = k - 1 /\ Len(b) = Len(s) - (k - 1)
    BY <1>1, <1>2, <1>3, SMT
  <1>5. <<e>> \in Seq(S) /\ Len(<<e>>) = 1 /\ <<e>>[1] = e
    BY SMT
  <1> HIDE DEF a, b
  <1>6. /\ m \in Seq(S) /\ Len(m) = Len(a) + Len(<<e>>)
        /\ \A j \in 1 .. (Len(a) + Len(<<e>>)) :
             m[j] = IF j <= Len(a) THEN a[j] ELSE <<e>>[j - Len(a)]
    BY <1>2, <1>5, ConcatProperties
  <1>7. Len(m) = k /\ \A j \in 1 .. k : m[j] = IF j < k THEN a[j] ELSE e
    BY <1>4, <1>5, <1>6, SMT
  <1> HIDE DEF m
  <1>8. /\ m \o b \in Seq(S) /\ Len(m \o b) = Len(m) + Len(b)
        /\ \A j \in 1 .. (Len(m) + Len(b)) :
             (m \o b)[j] = IF j <= Len(m) THEN m[j] ELSE b[j - Len(m)]
    <2>1. m \in Seq(S) /\ b \in Seq(S)
      BY <1>3, <1>6
    <2>2. QED
      BY <2>1, ConcatProperties
  <1> DEFINE r == m \o b
  <1> HIDE DEF r
  <1>9. r \in Seq(S) /\ Len(r) = Len(s) + 1
    BY <1>1, <1>4, <1>7, <1>8, SMT DEF r
  <1>10. ASSUME NEW j \in 1 .. Len(s) + 1
         PROVE  r[j] = IF j < k THEN s[j] ELSE IF j = k THEN e ELSE s[j - 1]
    <2>1. r[j] = IF j <= k THEN m[j] ELSE b[j - k]
      BY <1>1, <1>4, <1>7, <1>8, SMT DEF r
    <2>2. CASE j <= k
      BY <1>2, <1>7, <2>1, <2>2, SMT
    <2>3. CASE ~(j <= k)
      <3>1. j - k \in 1 .. (Len(s) - k + 1) /\ k + (j - k) - 1 = j - 1
        BY <1>1, <2>3, SMT
      <3>2. b[j - k] = s[j - 1]
        BY <1>3, <3>1
      <3>3. QED
        BY <2>1, <2>3, <3>2, SMT
    <2>4. QED
      BY <2>2, <2>3
  <1>11. QED
    BY <1>1, <1>9, <1>10 DEF InsertAt, a, b, m, r

\* What a list of tracks is made of.
LEMMA TrackFacts ==
    ASSUME NEW s \in Seq(Track)
    PROVE  /\ Len(s) \in Nat /\ DOMAIN s = 1 .. Len(s)
           /\ \A i \in 1 .. Len(s) : s[i] \in Track /\ s[i].seek \in Nat
           /\ \A x : x \in ToSet(s) <=> \E i \in 1 .. Len(s) : s[i] = x
  <1>1. \A t \in Track : t.seek \in 1 .. MaxSeek
    BY DEF Track
  <1>2. \A n \in 1 .. MaxSeek : n \in Nat
    BY PlaylistAssumption, SMT
  <1>3. QED
    BY <1>1, <1>2, LenProperties, ElementOfSeq, NoRepetition

\* A track taken out leaves a list without repetition.
LEMMA TakenOut ==
    ASSUME NEW s, GoodList(s), NEW k \in 1 .. Len(s)
    PROVE  /\ GoodList(RemoveAt(s, k))
           /\ Len(s) \in Nat /\ Len(RemoveAt(s, k)) = Len(s) - 1
           /\ \A j \in 1 .. (Len(s) - 1) :
                RemoveAt(s, k)[j] = IF j < k THEN s[j] ELSE s[j + 1]
  <1> DEFINE r == RemoveAt(s, k)
  <1>1. s \in Seq(Track) /\ Distinct(s) /\ Len(s) <= MaxAmount
    BY DEF GoodList
  <1>2. /\ r \in Seq(Track) /\ Len(s) \in Nat /\ Len(r) = Len(s) - 1
        /\ \A j \in 1 .. (Len(s) - 1) : r[j] = IF j < k THEN s[j] ELSE s[j + 1]
    BY <1>1, RemoveAtFacts
  <1> HIDE DEF r
  <1>3. Distinct(r)
    <2> SUFFICES ASSUME NEW i \in 1 .. Len(r), NEW j \in 1 .. Len(r),
                        r[i].seek = r[j].seek
                 PROVE  i = j
      BY DEF Distinct
    <2> DEFINE F(x) == IF x < k THEN x ELSE x + 1
    <2>1. F(i) \in 1 .. Len(s) /\ F(j) \in 1 .. Len(s) /\ (F(i) = F(j) => i = j)
      BY <1>2, SMT
    <2>2. r[i] = s[F(i)] /\ r[j] = s[F(j)]
      BY <1>2
    <2>3. F(i) = F(j)
      BY <1>1, <2>1, <2>2 DEF Distinct
    <2>4. QED
      BY <2>1, <2>3
  <1>4. Len(r) <= MaxAmount
    BY <1>1, <1>2, PlaylistAssumption, SMT
  <1>5. QED
    BY <1>2, <1>3, <1>4 DEF GoodList, r

\* Neither does a track put in whose name is at a new place.
LEMMA PutIn ==
    ASSUME NEW s, GoodList(s), Len(s) < MaxAmount, NEW k \in 1 .. Len(s) + 1,
           NEW e \in Track, \A i \in 1 .. Len(s) : s[i].seek # e.seek
    PROVE  /\ GoodList(InsertAt(s, k, e))
           /\ Len(s) \in Nat /\ Len(InsertAt(s, k, e)) = Len(s) + 1
  <1> DEFINE r == InsertAt(s, k, e)
  <1>1. s \in Seq(Track) /\ Distinct(s)
    BY DEF GoodList
  <1>2. /\ r \in Seq(Track) /\ Len(s) \in Nat /\ Len(r) = Len(s) + 1
        /\ \A j \in 1 .. Len(s) + 1 :
             r[j] = IF j < k THEN s[j] ELSE IF j = k THEN e ELSE s[j - 1]
    BY <1>1, InsertAtFacts
  <1> HIDE DEF r
  <1>3. Distinct(r)
    <2> SUFFICES ASSUME NEW i \in 1 .. Len(r), NEW j \in 1 .. Len(r),
                        r[i].seek = r[j].seek
                 PROVE  i = j
      BY DEF Distinct
    <2> DEFINE F(x) == IF x < k THEN x ELSE x - 1
    <2>1. /\ i # k => F(i) \in 1 .. Len(s)
          /\ j # k => F(j) \in 1 .. Len(s)
          /\ i # k /\ j # k /\ F(i) = F(j) => i = j
      BY <1>2, SMT
    <2>2. /\ r[i] = IF i = k THEN e ELSE s[F(i)]
          /\ r[j] = IF j = k THEN e ELSE s[F(j)]
      BY <1>2, SMT
    <2>3. CASE i = k \/ j = k
      BY <2>1, <2>2, <2>3
    <2>4. CASE i # k /\ j # k
      <3>1. F(i) \in 1 .. Len(s) /\ F(j) \in 1 .. Len(s)
        BY <2>1, <2>4
      <3>2. r[i] = s[F(i)] /\ r[j] = s[F(j)]
        BY <2>2, <2>4
      <3>3. \A x, y \in 1 .. Len(s) : s[x].seek = s[y].seek => x = y
        BY <1>1 DEF Distinct
      <3> HIDE DEF F
      <3>4. F(i) = F(j)
        BY <3>1, <3>2, <3>3
      <3>5. QED
        BY <2>1, <2>4, <3>4
    <2>5. QED
      BY <2>3, <2>4
  <1>4. Len(r) <= MaxAmount
    BY <1>2, PlaylistAssumption, SMT
  <1>5. QED
    BY <1>2, <1>3, <1>4 DEF GoodList, r

\* The same tracks in another order
Reordered(s, r) ==
    /\ GoodList(r) /\ Len(r) = Len(s)
    /\ \A i \in 1 .. Len(s) : \E j \in 1 .. Len(s) : r[j] = s[i]

\* A list given place by place
LEMMA Listed ==
    ASSUME NEW S, NEW n \in Nat, NEW f \in [1 .. n -> S]
    PROVE  f \in Seq(S) /\ Len(f) = n
  <1>1. f \in Seq(S)
    BY SeqDef
  <1>2. DOMAIN f = 1 .. n /\ DOMAIN f = 1 .. Len(f) /\ Len(f) \in Nat
    BY <1>1, LenProperties
  <1>3. QED
    BY <1>1, <1>2, SMT

\* Shuffling loses no track and has none twice.
LEMMA Shuffled ==
    ASSUME NEW s, GoodList(s), NEW seed \in Seeds
    PROVE  Reordered(s, Randomised(s, seed))
  <1> DEFINE n == Len(s)
             r == Randomised(s, seed)
             p == Perm[seed][n]
  <1>1. /\ s \in Seq(Track) /\ Distinct(s) /\ n <= MaxAmount /\ n \in Nat
        /\ DOMAIN s = 1 .. n /\ \A i \in 1 .. n : s[i] \in Track
    BY TrackFacts DEF GoodList
  <1>2. r = [i \in 1 .. n |-> s[p[i]]]
    BY <1>1 DEF Randomised
  <1>3. /\ \A i \in 1 .. n : p[i] \in 1 .. n
        /\ \A i, j \in 1 .. n : p[i] = p[j] => i = j
        /\ \A k \in 1 .. n : \E i \in 1 .. n : p[i] = k
    <2>1. CASE n = 0
      <3>1. 1 .. n = {}
        BY <2>1, SMT
      <3>2. QED
        BY <3>1
    <2>2. CASE n # 0
      <3>1. n \in 1 .. MaxAmount
        BY <1>1, <2>2, PlaylistAssumption, SMT
      <3>2. p \in [1 .. n -> 1 .. n] /\ IsInjective(p)
        BY <3>1, PlaylistAssumption
      <3> HIDE DEF p
      <3>3. p \in Injection(1 .. n, 1 .. n)
        BY <3>2 DEF Injection
      <3>4. IsFiniteSet(1 .. n)
        BY <1>1, FS_Interval, SMT
      <3>5. p \in Surjection(1 .. n, 1 .. n)
        BY <3>3, <3>4, FS_Injection
      <3>6. QED
        BY <3>2, <3>5 DEF IsInjective, Surjection
    <2>3. QED
      BY <2>1, <2>2
  <1> HIDE DEF n, p, r
  <1>4. r \in [1 .. n -> Track]
    BY <1>1, <1>2, <1>3
  <1>5. r \in Seq(Track) /\ Len(r) = n
    BY <1>1, <1>4, Listed
  <1>6. Distinct(r)
    <2>1. \A i, j \in 1 .. n : s[i].seek = s[j].seek => i = j
      BY <1>1 DEF Distinct, n
    <2>2. ASSUME NEW i \in 1 .. n, NEW j \in 1 .. n, r[i].seek = r[j].seek
          PROVE  i = j
      <3>1. r[i] = s[p[i]] /\ r[j] = s[p[j]]
        BY <1>2
      <3>2. p[i] = p[j]
        BY <1>3, <2>1, <2>2, <3>1
      <3>3. QED
        BY <1>3, <3>2
    <2>3. QED
      BY <1>5, <2>2 DEF Distinct
  <1>7. \A i \in 1 .. n : \E j \in 1 .. n : r[j] = s[i]
    <2> TAKE i \in 1 .. n
    <2>1. PICK j \in 1 .. n : p[j] = i
      BY <1>3
    <2>2. QED
      BY <1>2, <2>1
  <1>8. QED
    BY <1>1, <1>5, <1>6, <1>7 DEF Reordered, GoodList, r, n

\* So does sorting: each track's place is the number of those before it.
LEMMA Sorted ==
    ASSUME NEW s, GoodList(s)
    PROVE  Reordered(s, SortedList(s))
  <1> DEFINE n == Len(s)
             T == ToSet(s)
             R(e) == Cardinality(Earlier(s, e)) + 1
             r == SortedList(s)
  <1>1. /\ s \in Seq(Track) /\ n \in Nat /\ n <= MaxAmount
        /\ DOMAIN s = 1 .. n
        /\ \A i \in 1 .. n : s[i] \in Track /\ s[i].seek \in Nat
        /\ \A x : x \in T <=> \E i \in 1 .. n : s[i] = x
        /\ \A i, j \in 1 .. n : s[i].seek = s[j].seek => i = j
    BY TrackFacts DEF GoodList, Distinct
  <1>2. /\ \A e \in T : e \in Track /\ e.seek \in Nat
        /\ \A a, b \in T : a.seek = b.seek => a = b
    BY <1>1
  <1>3. r = [i \in 1 .. n |-> CHOOSE e \in T : Cardinality(Earlier(s, e)) = i - 1]
    BY <1>1 DEF SortedList
  <1> HIDE DEF n, r
  <1>4. IsFiniteSet(1 .. n) /\ Cardinality(1 .. n) = n
    BY <1>1, FS_Interval, SMT
  <1>5. IsFiniteSet(T) /\ Cardinality(T) = n
    <2> DEFINE f == [i \in 1 .. n |-> s[i]]
    <2>1. f \in [1 .. n -> T] /\ IsInjective(f) /\ \A x \in T : \E i \in 1 .. n : f[i] = x
      BY <1>1 DEF IsInjective
    <2>2. f \in Bijection(1 .. n, T)
      BY <2>1 DEF Bijection, Injection, Surjection
    <2>3. ExistsBijection(1 .. n, T)
      BY <2>2 DEF ExistsBijection
    <2>4. QED
      BY <1>4, <2>3, FS_Bijection
  <1> HIDE DEF T
  <1>6. ASSUME NEW e \in T
        PROVE  /\ Earlier(s, e) = {a \in T : a.seek < e.seek}
               /\ IsFiniteSet(Earlier(s, e)) /\ Cardinality(Earlier(s, e)) \in Nat
               /\ R(e) \in 1 .. n
    <2>1. Earlier(s, e) = {a \in T : a.seek < e.seek}
      BY DEF Earlier, T
    <2>2. Earlier(s, e) \subseteq T /\ e \notin Earlier(s, e)
      BY <1>2, <2>1, SMT
    <2>3. /\ IsFiniteSet(Earlier(s, e)) /\ Cardinality(Earlier(s, e)) \in Nat
          /\ Cardinality(Earlier(s, e)) <= n /\ Cardinality(Earlier(s, e)) # n
      BY <1>5, <2>2, FS_Subset, FS_CardinalityType
    <2>4. R(e) \in 1 .. n
      BY <1>1, <2>3, SMT
    <2>5. QED
      BY <2>1, <2>3, <2>4
  <1>7. ASSUME NEW a \in T, NEW b \in T, a.seek < b.seek
        PROVE  R(a) < R(b)
    <2>1. Earlier(s, a) \subseteq Earlier(s, b)
      BY <1>2, <1>6, <1>7, SMT
    <2>2. a \in Earlier(s, b) /\ a \notin Earlier(s, a)
      BY <1>2, <1>6, <1>7, SMT
    <2>3. /\ Cardinality(Earlier(s, a)) <= Cardinality(Earlier(s, b))
          /\ Cardinality(Earlier(s, a)) # Cardinality(Earlier(s, b))
      BY <1>6, <2>1, <2>2, FS_Subset
    <2>4. QED
      BY <1>6, <2>3, SMT
  <1>8. \A a, b \in T : R(a) = R(b) => a = b
    <2> SUFFICES ASSUME NEW a \in T, NEW b \in T, R(a) = R(b) PROVE a.seek = b.seek
      BY <1>2
    <2>1. ~(R(a) < R(b)) /\ ~(R(b) < R(a))
      BY <1>6, SMT
    <2>2. ~(a.seek < b.seek) /\ ~(b.seek < a.seek)
      BY <1>7, <2>1
    <2>3. QED
      BY <1>2, <2>2, SMT
  <1>9. \A i \in 1 .. n : \E e \in T : R(e) = i
    <2> DEFINE f == [e \in T |-> R(e)]
    <2>1. f \in [T -> 1 .. n]
      BY <1>6
    <2>2. IsInjective(f)
      BY <1>8 DEF IsInjective
    <2>3. f \in Injection(T, 1 .. n)
      BY <2>1, <2>2 DEF Injection
    <2>4. f \in Surjection(T, 1 .. n)
      BY <1>4, <1>5, <2>3, FS_Injection
    <2>5. QED
      BY <2>4 DEF Surjection
  <1>10. \A i \in 1 .. n : r[i] \in T /\ R(r[i]) = i
    <2> TAKE i \in 1 .. n
    <2>1. PICK e \in T : R(e) = i
      BY <1>9
    <2>2. Cardinality(Earlier(s, e)) = i - 1
      BY <1>6, <2>1, SMT
    <2>3. r[i] = CHOOSE x \in T : Cardinality(Earlier(s, x)) = i - 1
      BY <1>3
    <2>4. r[i] \in T /\ Cardinality(Earlier(s, r[i])) = i - 1
      BY <2>2, <2>3
    <2>5. QED
      BY <2>4, SMT
  <1>11. r \in [1 .. n -> Track]
    BY <1>2, <1>3, <1>10
  <1>12. r \in Seq(Track) /\ Len(r) = n
    BY <1>1, <1>11, Listed
  <1>13. ASSUME NEW i \in 1 .. n, NEW j \in 1 .. n, r[i].seek = r[j].seek
         PROVE  i = j
    <2>1. r[i] = r[j]
      BY <1>2, <1>10, <1>13
    <2>2. QED
      BY <1>10, <2>1
  <1>14. ASSUME NEW i \in 1 .. n PROVE \E j \in 1 .. n : r[j] = s[i]
    <2>1. s[i] \in T
      BY <1>1
    <2>2. R(s[i]) \in 1 .. n
      BY <1>6, <2>1
    <2>3. r[R(s[i])] = s[i]
      BY <1>8, <1>10, <2>1, <2>2
    <2>4. QED
      BY <2>2, <2>3
  <1>15. QED
    BY <1>1, <1>12, <1>13, <1>14 DEF Reordered, GoodList, Distinct, r, n

\* A set of numbers below a bound has a greatest one.
LEMMA LargestOf ==
    ASSUME NEW n \in Nat, NEW S \in SUBSET (0 .. n), S # {}
    PROVE  Max(S) \in S /\ \A x \in S : x <= Max(S)
  <1> DEFINE T == {n - x : x \in S}
  <1>1. \A x \in S : x \in Nat /\ x <= n /\ n - x \in Nat
    BY SMT
  <1>2. T \in SUBSET Nat /\ T # {}
    BY <1>1
  <1>3. PICK x \in S : Min(T) = n - x
    BY <1>2, SmallestOf
  <1>4. \A y \in S : n - x <= n - y
    BY <1>2, <1>3, SmallestOf
  <1>5. \A y \in S : x >= y
    BY <1>1, <1>4, SMT
  <1>6. /\ Max(S) \in S
        /\ \A y \in S : Max(S) >= y
    BY <1>5 DEF Max
  <1>7. QED
    BY <1>1, <1>6, SMT

\* The name of a new track is at a place of its own.
LEMMA FreshIsNew ==
    ASSUME IInv
    PROVE  /\ FreshSeek \in Nat \ {0}
           /\ \A p \in {playlist, file, disk} :
                 \A i \in 1 .. Len(p.list) : p.list[i].seek < FreshSeek
           /\ \A q \in BOOLEAN : FreshSeek <= MaxSeek => Fresh(q) \in Track
  <1> DEFINE E == Entries(playlist) \cup Entries(file) \cup Entries(disk)
             S == {0} \cup {e.seek : e \in E}
  <1>1. \A p \in {playlist, file, disk} : p.list \in Seq(Track)
    BY DEF IInv, GoodPlaylist, GoodFile, Placed, GoodList
  <1>2. \A p \in {playlist, file, disk} :
           /\ \A x \in Entries(p) : x \in Track
           /\ \A i \in 1 .. Len(p.list) : p.list[i] \in Entries(p)
    BY <1>1, TrackFacts DEF Entries
  <1>3. \A t \in Track : t.seek \in 1 .. MaxSeek
    BY DEF Track
  <1>4. \A k \in 1 .. MaxSeek : k \in 0 .. MaxSeek
    BY PlaylistAssumption, SMT
  <1>5. 0 \in 0 .. MaxSeek /\ MaxSeek \in Nat
    BY PlaylistAssumption, SMT
  <1>6. S \in SUBSET (0 .. MaxSeek) /\ S # {}
    BY <1>2, <1>3, <1>4, <1>5
  <1>7. /\ Max(S) \in 0 .. MaxSeek /\ \A x \in S : x <= Max(S)
        /\ FreshSeek = 1 + Max(S)
    BY <1>5, <1>6, LargestOf DEF FreshSeek
  <1>8. \A p \in {playlist, file, disk} :
           \A i \in 1 .. Len(p.list) : p.list[i].seek \in S
    BY <1>2
  <1> HIDE DEF S
  <1>9. FreshSeek \in Nat \ {0}
    BY <1>5, <1>7, SMT
  <1>10. \A x \in S : x < FreshSeek
    BY <1>5, <1>6, <1>7, SMT
  <1>11. ASSUME FreshSeek <= MaxSeek, NEW q \in BOOLEAN PROVE Fresh(q) \in Track
    <2>1. FreshSeek \in 1 .. MaxSeek
      BY <1>9, <1>11, PlaylistAssumption, SMT
    <2>2. QED
      BY <2>1 DEF Fresh, Track
  <1>12. QED
    BY <1>8, <1>9, <1>10, <1>11

-------------------------------------------------------------------------------
(* Commands and what they make of the file.                                  *)

\* The list playlist_resume adds to
Building(f) == [list |-> f.list, index |-> 0, first |-> f.first, last |-> f.last,
                started |-> TRUE]

\* Assignments to the members of a list keep its type and change no other.
Edited(p, l, x, a, b) == [p EXCEPT !.list = l, !.index = x, !.first = a, !.last = b]
HasMembers(q, p, l, x, a, b) ==
    /\ q \in Lists
    /\ q.list = l /\ q.index = x /\ q.first = a /\ q.last = b
    /\ q.started = p.started

\* The members of an edited list are those assigned.
LEMMA ListEdited ==
    ASSUME NEW p \in Lists, NEW l \in Seq(Track), NEW x \in Int, NEW a \in Int, NEW b \in Int
    PROVE  HasMembers(Edited(p, l, x, a, b), p, l, x, a, b)
  BY DEF Lists, Edited, HasMembers

\* The list playlist_resume builds on is a list.
LEMMA BuildingIsList ==
    ASSUME NEW f \in Files
    PROVE  /\ Building(f) \in Lists
           /\ Building(f).list = f.list /\ Building(f).index = 0
           /\ Building(f).first = f.first /\ Building(f).last = f.last
           /\ Building(f).started
  BY DEF Files, Lists, Building

\* remove_track_unlocked, member by member.
LEMMA RemoveTrackFields ==
    ASSUME NEW p \in Lists, NEW i \in Int, RemoveAt(p.list, i + 1) \in Seq(Track)
    PROVE  LET q == RemoveTrack(p, i)
           IN  /\ q \in Lists
               /\ q.list = RemoveAt(p.list, i + 1)
               /\ q.index = IF i < p.index THEN p.index - 1 ELSE p.index
               /\ q.first = IF i < p.first THEN p.first - 1 ELSE p.first
               /\ q.last = IF i <= p.last THEN p.last - 1 ELSE p.last
               /\ q.started = p.started
  <1> DEFINE l == RemoveAt(p.list, i + 1)
             x == IF i < p.index THEN p.index - 1 ELSE p.index
             a == IF i < p.first THEN p.first - 1 ELSE p.first
             b == IF i <= p.last THEN p.last - 1 ELSE p.last
  <1>1. p.index \in Int /\ p.first \in Int /\ p.last \in Int
    BY DEF Lists
  <1>2. x \in Int /\ a \in Int /\ b \in Int
    BY <1>1, SMT
  <1>3. RemoveTrack(p, i) = [p EXCEPT !.list = l, !.index = x, !.first = a, !.last = b]
    BY DEF RemoveTrack
  <1>4. l \in Seq(Track)
    OBVIOUS
  <1> DEFINE q == RemoveTrack(p, i)
  <1> HIDE DEF l, x, a, b, q
  <1>5. /\ q \in Lists
        /\ q.list = l /\ q.index = x /\ q.first = a /\ q.last = b
        /\ q.started = p.started
    BY <1>2, <1>3, <1>4 DEF Lists, q
  <1>6. QED
    BY <1>5 DEF l, x, a, b, q

\* A deletion replayed.
LEMMA DeleteReplayed ==
    ASSUME NEW f \in Files, NEW i \in Int, RemoveAt(f.list, i + 1) \in Seq(Track)
    PROVE  LET g == Apply(f, Deleted(i))
           IN  /\ g \in Files
               /\ g.list = RemoveAt(f.list, i + 1)
               /\ g.first = IF i < f.first THEN f.first - 1 ELSE f.first
               /\ g.last = IF i <= f.last THEN f.last - 1 ELSE f.last
               /\ g.sorted = f.sorted
  <1> DEFINE q == RemoveTrack(Building(f), i)
  <1>1. /\ q \in Lists /\ q.list = RemoveAt(f.list, i + 1)
        /\ q.first = IF i < f.first THEN f.first - 1 ELSE f.first
        /\ q.last = IF i <= f.last THEN f.last - 1 ELSE f.last
    BY BuildingIsList, RemoveTrackFields
  <1>2. Deleted(i).op = "delete" /\ Deleted(i).pos = i
    BY DEF Deleted
  <1> DEFINE c == Deleted(i)
  <1> HIDE DEF c
  <1>3. Apply(f, c) = [f EXCEPT !.list = RemoveTrack(Building(f), c.pos).list,
                                !.first = RemoveTrack(Building(f), c.pos).first,
                                !.last = RemoveTrack(Building(f), c.pos).last]
    BY <1>2 DEF Apply, Building, c
  <1>4. Apply(f, c) = [f EXCEPT !.list = q.list, !.first = q.first, !.last = q.last]
    BY <1>2, <1>3 DEF c
  <1>5. q.list \in Seq(Track) /\ q.first \in Int /\ q.last \in Int
    BY <1>1 DEF Lists
  <1> DEFINE g == Apply(f, c)
  <1> HIDE DEF q, g
  <1>6. /\ g \in Files
        /\ g.list = q.list /\ g.first = q.first /\ g.last = q.last
        /\ g.sorted = f.sorted
    BY <1>4, <1>5 DEF Files, g
  <1>7. QED
    BY <1>1, <1>6 DEF c, g

\* The command for a shuffle, and what it makes of the file
ShuffleCommand(seed, first) == [op |-> "shuffle", seed |-> seed, first |-> first]
ShuffledFile(f, seed, first) ==
    [list |-> Randomised(IF f.sorted THEN f.list ELSE SortedList(f.list), seed),
     first |-> first, last |-> -1, sorted |-> FALSE]

\* A shuffle replayed.
LEMMA ShuffleReplayed ==
    ASSUME NEW f \in Files, NEW seed, NEW first
    PROVE  Apply(f, ShuffleCommand(seed, first)) = ShuffledFile(f, seed, first)
  <1> DEFINE c == ShuffleCommand(seed, first)
  <1>1. c.op = "shuffle" /\ c.seed = seed /\ c.first = first
    BY DEF ShuffleCommand
  <1> HIDE DEF c
  <1>2. Apply(f, c) =
          [list |-> Randomised(IF f.sorted THEN f.list ELSE SortedList(f.list), c.seed),
           first |-> c.first, last |-> -1, sorted |-> FALSE]
    BY <1>1 DEF Apply
  <1>3. QED
    BY <1>1, <1>2 DEF c, ShuffledFile

\* The other commands.
LEMMA OthersReplayed ==
    ASSUME NEW f \in Files
    PROVE  /\ LET g == Apply(f, Reset)
              IN  /\ g \in Files /\ g.list = f.list /\ g.first = f.first
                  /\ g.last = -1 /\ g.sorted = f.sorted
           /\ Apply(f, [op |-> "unshuffle", first |-> 0]) =
                [list |-> SortedList(f.list), first |-> 0, last |-> -1, sorted |-> TRUE]
  <1>1. LET g == Apply(f, Reset)
        IN  /\ g \in Files /\ g.list = f.list /\ g.first = f.first
            /\ g.last = -1 /\ g.sorted = f.sorted
    <2> DEFINE c == Reset
               g == Apply(f, c)
    <2>1. c.op = "reset"
      BY DEF Reset
    <2> HIDE DEF c
    <2>2. g = [f EXCEPT !.last = -1]
      BY <2>1 DEF Apply
    <2> HIDE DEF g
    <2>3. /\ g \in Files /\ g.list = f.list /\ g.first = f.first
          /\ g.last = -1 /\ g.sorted = f.sorted
      BY <2>2 DEF Files
    <2>4. QED
      BY <2>3 DEF g, c
  <1>2. Apply(f, [op |-> "unshuffle", first |-> 0]) =
          [list |-> SortedList(f.list), first |-> 0, last |-> -1, sorted |-> TRUE]
    <2> DEFINE c == [op |-> "unshuffle", first |-> 0]
    <2>1. c.op = "unshuffle" /\ c.first = 0
      OBVIOUS
    <2> HIDE DEF c
    <2>2. Apply(f, c) = [list |-> SortedList(f.list), first |-> c.first, last |-> -1,
                         sorted |-> TRUE]
      BY <2>1 DEF Apply
    <2>3. QED
      BY <2>1, <2>2 DEF c
  <1>3. QED
    BY <1>1, <1>2

\* A track is removed from a list.
LEMMA Removed ==
    ASSUME NEW p, GoodPlaylist(p), NEW i \in 0 .. Len(p.list) - 1
    PROVE  LET q == RemoveTrack(p, i)
           IN  /\ GoodPlaylist(q)
               /\ q.list = RemoveAt(p.list, i + 1)
               /\ q.index = IF i < p.index THEN p.index - 1 ELSE p.index
               /\ q.first = IF i < p.first THEN p.first - 1 ELSE p.first
               /\ q.last = IF i <= p.last THEN p.last - 1 ELSE p.last
               /\ q.started = p.started
               /\ Len(q.list) = Len(p.list) - 1 /\ Len(p.list) \in Nat
               /\ \A j \in 1 .. (Len(p.list) - 1) :
                    q.list[j] = IF j < i + 1 THEN p.list[j] ELSE p.list[j + 1]
  <1> DEFINE q == RemoveTrack(p, i)
             n == Len(p.list)
             l == RemoveAt(p.list, i + 1)
  <1>1. p \in Lists /\ GoodList(p.list) /\ p.list \in Seq(Track) /\ n \in Nat
    BY TrackFacts DEF GoodPlaylist, Placed, GoodList
  <1>2. i + 1 \in 1 .. n /\ i \in Int
    BY <1>1, SMT
  <1>3. /\ GoodList(l) /\ Len(l) = n - 1 /\ l \in Seq(Track)
        /\ \A j \in 1 .. (n - 1) :
             l[j] = IF j < i + 1 THEN p.list[j] ELSE p.list[j + 1]
    BY <1>1, <1>2, TakenOut DEF GoodList
  <1>4. /\ q \in Lists /\ q.list = l
        /\ q.index = IF i < p.index THEN p.index - 1 ELSE p.index
        /\ q.first = IF i < p.first THEN p.first - 1 ELSE p.first
        /\ q.last = IF i <= p.last THEN p.last - 1 ELSE p.last
        /\ q.started = p.started
    BY <1>1, <1>2, <1>3, RemoveTrackFields
  <1>5. /\ p.index \in 0 .. n + 1 /\ p.first \in 0 .. n /\ p.last \in -1 .. n - 1
    BY DEF GoodPlaylist, Placed
  <1> HIDE DEF q, l
  <1>6. /\ q.index \in 0 .. (n - 1) + 1 /\ q.first \in 0 .. n - 1
        /\ q.last \in -1 .. (n - 1) - 1
    <2>1. /\ p.index \in Int /\ p.index >= 0 /\ p.index <= n + 1
          /\ p.first \in Int /\ p.first >= 0 /\ p.first <= n
          /\ p.last \in Int /\ p.last >= -1 /\ p.last <= n - 1
          /\ i \in Int /\ i >= 0 /\ i <= n - 1 /\ n \in Nat
      BY <1>1, <1>5, SMT
    <2>2. q.index \in 0 .. (n - 1) + 1
      BY <1>4, <2>1, SMT
    <2>3. q.first \in 0 .. n - 1
      BY <1>4, <2>1, SMT
    <2>4. q.last \in -1 .. (n - 1) - 1
      BY <1>4, <2>1, SMTT(30)
    <2>5. QED
      BY <2>2, <2>3, <2>4
  <1>7. GoodPlaylist(q)
    BY <1>3, <1>4, <1>6 DEF GoodPlaylist, Placed
  <1>8. QED
    BY <1>1, <1>3, <1>4, <1>7 DEF q, l

\* The file keeps in step.
LEMMA RemovedInSync ==
    ASSUME NEW p, GoodPlaylist(p), NEW f, GoodFile(f), InSync(p, f),
           NEW i \in 0 .. Len(p.list) - 1
    PROVE  /\ GoodFile(Apply(f, Deleted(i)))
           /\ InSync(RemoveTrack(p, i), Apply(f, Deleted(i)))
           /\ Apply(f, Deleted(i)).sorted = f.sorted
  <1> DEFINE g == Apply(f, Deleted(i))
             q == RemoveTrack(p, i)
  <1>1. /\ f \in Files /\ f.list = p.list /\ f.first = p.first
        /\ f.last = p.last \/ (f.last = 0 /\ p.last = -1 /\ Len(p.list) = 1)
        /\ ~p.started => p.first = 0 /\ f.sorted
    BY DEF GoodFile, InSync
  <1>2. /\ GoodPlaylist(q) /\ Len(q.list) = Len(p.list) - 1 /\ Len(p.list) \in Nat
        /\ q.list = RemoveAt(p.list, i + 1)
        /\ q.first = IF i < p.first THEN p.first - 1 ELSE p.first
        /\ q.last = IF i <= p.last THEN p.last - 1 ELSE p.last
        /\ q.started = p.started
    BY Removed
  <1>3. q.list \in Seq(Track) /\ i \in Int /\ q \in Lists
    BY <1>2, SMT DEF GoodPlaylist, Placed, GoodList
  <1>4. RemoveAt(f.list, i + 1) \in Seq(Track)
    BY <1>1, <1>2, <1>3
  <1>5. /\ g \in Files /\ g.list = q.list /\ g.first = q.first
        /\ g.last = IF i <= f.last THEN f.last - 1 ELSE f.last
        /\ g.sorted = f.sorted
    BY <1>1, <1>2, <1>3, <1>4, DeleteReplayed
  <1> HIDE DEF q, g
  <1>6. g.last = q.last
    <2>1. CASE f.last = p.last
      BY <1>2, <1>5, <2>1
    <2>2. CASE f.last = 0 /\ p.last = -1 /\ Len(p.list) = 1
      BY <1>2, <1>5, <2>2, SMT
    <2>3. QED
      BY <1>1, <2>1, <2>2
  <1>7. ~q.started => q.first = 0 /\ g.sorted
    <2>1. p.first = 0 => q.first = 0
      BY <1>2, SMT
    <2>2. QED
      BY <1>1, <1>2, <1>5, <2>1
  <1>8. QED
    BY <1>2, <1>5, <1>6, <1>7 DEF GoodPlaylist, GoodFile, Placed, InSync, q, g

\* Where a track goes whose place is chosen by rand()
RandomPlace(p, r) ==
    LET random == p.index + r + 1
    IN  IF ~p.started THEN r
        ELSE IF random >= Len(p.list) THEN random - Len(p.list) ELSE random

\* Where a new track goes, for each of the special positions.
LEMMA PositionFacts ==
    ASSUME NEW p, NEW orig \in Int, NEW r
    PROVE  /\ orig >= 0 => Position(p, orig, r) = orig
           /\ orig = PREPEND => Position(p, orig, r) = p.first
           /\ orig = INSERT_LAST_ROTATED => Position(p, orig, r) = p.first
           /\ orig = INSERT_LAST =>
                 Position(p, orig, r) = IF p.first <= 0 THEN Len(p.list) ELSE p.first
           /\ orig = INSERT_FIRST =>
                 Position(p, orig, r) = IF Len(p.list) > 0 THEN p.index + 1 ELSE 0
           /\ orig = INSERT =>
                 Position(p, orig, r) =
                    IF p.last \in 0 .. Len(p.list) - 1 THEN p.last + 1
                    ELSE IF Len(p.list) > 0 THEN p.index + 1 ELSE 0
           /\ orig = INSERT_SHUFFLED =>
                 Position(p, orig, r) = RandomPlace(p, r)
  <1> USE DEF Position, Amount, PREPEND, INSERT, INSERT_FIRST, INSERT_LAST,
              INSERT_LAST_ROTATED, INSERT_SHUFFLED
  <1>1. orig >= 0 => Position(p, orig, r) = orig
    BY SMT
  <1>2. orig = PREPEND => Position(p, orig, r) = p.first
    BY SMT
  <1>3. orig = INSERT_LAST_ROTATED => Position(p, orig, r) = p.first
    BY SMT
  <1>4. orig = INSERT_LAST =>
           Position(p, orig, r) = IF p.first <= 0 THEN Len(p.list) ELSE p.first
    BY SMT
  <1>5. orig = INSERT_FIRST =>
           Position(p, orig, r) = IF Len(p.list) > 0 THEN p.index + 1 ELSE 0
    BY SMT
  <1>6. orig = INSERT =>
           Position(p, orig, r) =
              IF p.last \in 0 .. Len(p.list) - 1 THEN p.last + 1
              ELSE IF Len(p.list) > 0 THEN p.index + 1 ELSE 0
    BY SMT
  <1>7. orig = INSERT_SHUFFLED =>
           Position(p, orig, r) =
              RandomPlace(p, r)
    <2>1. INSERT_SHUFFLED \notin {PREPEND, INSERT, INSERT_FIRST, INSERT_LAST,
                                  INSERT_LAST_ROTATED}
      BY SMT
    <2> HIDE DEF PREPEND, INSERT, INSERT_FIRST, INSERT_LAST, INSERT_LAST_ROTATED,
                 INSERT_SHUFFLED
    <2>2. ASSUME orig = INSERT_SHUFFLED
          PROVE  Position(p, orig, r) = CASE orig = INSERT_SHUFFLED -> RandomPlace(p, r)
                                          [] OTHER -> orig
      BY <2>1, <2>2 DEF RandomPlace
    <2>3. QED
      BY <2>2
  <1>8. QED
    BY <1>1, <1>2, <1>3, <1>4, <1>5, <1>6, <1>7

\* Lists that may also have the track no list has.
AnyTrack == Track \cup {New}
AnyLists == [list : Seq(AnyTrack), index : Int, first : Int, last : Int,
             started : BOOLEAN]

\* All lists are such lists.
LEMMA AnyIsMore ==
    /\ \A s \in Seq(Track) : s \in Seq(AnyTrack)
    /\ \A p \in Lists : p \in AnyLists
  <1>1. Track \subseteq AnyTrack
    BY DEF AnyTrack
  <1>2. ASSUME NEW s \in Seq(Track) PROVE s \in Seq(AnyTrack)
    <2>1. Len(s) \in Nat /\ s \in [1 .. Len(s) -> Track]
      BY LenProperties
    <2>2. s \in [1 .. Len(s) -> AnyTrack]
      BY <1>1, <2>1
    <2>3. QED
      BY <2>1, <2>2, SeqDef
  <1>3. QED
    BY <1>2 DEF Lists, AnyLists

\* add_track_to_playlist_unlocked, member by member.
IsPlaying(p) == p.started /\ Len(p.list) > 0
IndexAfter(p, orig, pos) ==
    IF IsPlaying(p) /\ orig < 0 /\ orig # INSERT_LAST_ROTATED /\ pos <= p.index
    THEN p.index + 1 ELSE p.index
FirstAfter(p, orig, pos) ==
    IF IsPlaying(p) /\ (\/ orig >= 0 /\ pos < p.first
                        \/ orig < 0 /\ orig # PREPEND /\ pos <= p.first)
    THEN p.first + 1 ELSE p.first
LastAfter(p, orig, pos) ==
    LET last == IF orig \in {INSERT, INSERT_FIRST, INSERT_LAST, INSERT_LAST_ROTATED}
                THEN pos ELSE p.last
    IN  IF pos < last THEN last + 1 ELSE last
LoggedAt(p, orig, pos) ==
    IF IsPlaying(p) THEN LoggedPosition(orig, pos, p.first) ELSE pos

\* The members of the list a track has been added to, and the command.
AddedTo(p, e, orig, r) ==
    LET pos == Position(p, orig, r)
        a == AddTrack(p, e, orig, r)
    IN  /\ a.list \in AnyLists
        /\ a.list.list = InsertAt(p.list, pos + 1, e)
        /\ a.list.index = IndexAfter(p, orig, pos)
        /\ a.list.first = FirstAfter(p, orig, pos)
        /\ a.list.last = LastAfter(p, orig, pos)
        /\ a.list.started = p.started
        /\ a.cmd = [op |-> "add", e |-> e, last |-> LastAfter(p, orig, pos),
                    pos |-> LoggedAt(p, orig, pos)]

\* They are so, whenever the place is one an entry can be put at.
LEMMA AddTrackFields ==
    ASSUME NEW p \in AnyLists, NEW e, NEW orig \in Int, NEW r,
           Position(p, orig, r) \in Int,
           InsertAt(p.list, Position(p, orig, r) + 1, e) \in Seq(AnyTrack)
    PROVE  AddedTo(p, e, orig, r)
  <1> DEFINE pos == Position(p, orig, r)
             l == InsertAt(p.list, pos + 1, e)
             x == IndexAfter(p, orig, pos)
             f == FirstAfter(p, orig, pos)
             b == LastAfter(p, orig, pos)
             a == AddTrack(p, e, orig, r)
             q == [p EXCEPT !.list = l, !.index = x, !.first = f, !.last = b]
  <1>1. p.index \in Int /\ p.first \in Int /\ p.last \in Int /\ pos \in Int
    BY DEF AnyLists
  <1>2. a = [list |-> q,
             cmd |-> [op |-> "add", e |-> e, last |-> q.last, pos |-> LoggedAt(p, orig, pos)]]
    BY DEF AddTrack, IsPlaying, LastAfter, FirstAfter, IndexAfter, LoggedAt, Amount
  <1>3. l \in Seq(AnyTrack)
    OBVIOUS
  <1> HIDE DEF pos
  <1>4. x \in Int /\ f \in Int /\ b \in Int
    BY <1>1, SMT DEF LastAfter, FirstAfter, IndexAfter
  <1> HIDE DEF l, x, f, b, a
  <1>5. /\ q \in AnyLists
        /\ q.list = l /\ q.index = x /\ q.first = f /\ q.last = b
        /\ q.started = p.started
    BY <1>3, <1>4 DEF AnyLists
  <1> HIDE DEF q
  <1>6. a.list = q /\ a.cmd = [op |-> "add", e |-> e, last |-> b,
                               pos |-> LoggedAt(p, orig, pos)]
    BY <1>2, <1>5
  <1>7. QED
    BY <1>5, <1>6 DEF l, x, f, b, a, pos, AddedTo

\* A track is added to the list and to the file.
LEMMA Added ==
    ASSUME NEW p, GoodPlaylist(p), Len(p.list) < MaxAmount,
           NEW e \in Track, \A i \in 1 .. Len(p.list) : p.list[i].seek # e.seek,
           NEW orig \in Int, NEW r, Position(p, orig, r) \in 0 .. Len(p.list)
    PROVE  /\ GoodPlaylist(AddTrack(p, e, orig, r).list)
           /\ Len(p.list) \in Nat
           /\ Len(AddTrack(p, e, orig, r).list.list) = Len(p.list) + 1
  <1> DEFINE n == Len(p.list)
             pos == Position(p, orig, r)
             l == InsertAt(p.list, pos + 1, e)
             q == AddTrack(p, e, orig, r).list
  <1>1. p \in Lists /\ GoodList(p.list) /\ p.list \in Seq(Track) /\ n \in Nat
    BY TrackFacts DEF GoodPlaylist, Placed, GoodList
  <1>2. pos \in Int /\ pos + 1 \in 1 .. n + 1 /\ pos \in 0 .. n
    BY <1>1, SMT
  <1>3. GoodList(l) /\ Len(l) = n + 1
    BY <1>1, <1>2, PutIn
  <1>4. l \in Seq(Track)
    BY <1>3 DEF GoodList
  <1>5. /\ p.index \in 0 .. n + 1 /\ p.first \in 0 .. n /\ p.last \in -1 .. n - 1
    BY DEF GoodPlaylist, Placed
  <1>6. /\ q \in Lists /\ q.list = l
        /\ q.index = IndexAfter(p, orig, pos) /\ q.first = FirstAfter(p, orig, pos)
        /\ q.last = LastAfter(p, orig, pos)
    <2>1. p \in AnyLists /\ l \in Seq(AnyTrack)
      BY <1>1, <1>4, AnyIsMore
    <2>2. /\ q \in AnyLists /\ q.list = l
          /\ q.index = IndexAfter(p, orig, pos) /\ q.first = FirstAfter(p, orig, pos)
          /\ q.last = LastAfter(p, orig, pos)
      <3>1. /\ Position(p, orig, r) \in Int
            /\ InsertAt(p.list, Position(p, orig, r) + 1, e) \in Seq(AnyTrack)
        BY <1>2, <2>1
      <3>2. AddedTo(p, e, orig, r)
        BY <2>1, <3>1, AddTrackFields
      <3>3. QED
        BY <3>2 DEF AddedTo
    <2> HIDE DEF q, l
    <2>3. QED
      BY <1>4, <2>2 DEF AnyLists, Lists
  <1> HIDE DEF q, l, pos, n
  <1>7. q.last \in -1 .. n
    BY <1>1, <1>2, <1>6, <1>5, SMTT(30) DEF LastAfter
  <1>8. /\ q.index = p.index \/ q.index = p.index + 1
        /\ q.first = p.first \/ q.first = p.first + 1
    BY <1>6 DEF IndexAfter, FirstAfter
  <1>9. q.index \in 0 .. n + 2 /\ q.first \in 0 .. n + 1
    BY <1>1, <1>5, <1>8, SMTT(30)
  <1>10. /\ q.index \in 0 .. Len(q.list) + 1 /\ q.first \in 0 .. Len(q.list)
         /\ q.last \in -1 .. Len(q.list) - 1
    BY <1>1, <1>3, <1>6, <1>7, <1>9, SMT
  <1>11. QED
    BY <1>1, <1>3, <1>6, <1>10 DEF GoodPlaylist, Placed, Lists, q, n

\* Applied again, a command puts the track where the call has put it, and moves
\* first_index alike.
LEMMA AddedInSync ==
    ASSUME NEW p, GoodPlaylist(p), Len(p.list) < MaxAmount,
           NEW e \in Track, \A i \in 1 .. Len(p.list) : p.list[i].seek # e.seek,
           NEW orig \in Int, NEW r, Position(p, orig, r) \in 0 .. Len(p.list),
           NEW f, GoodFile(f), f.list = p.list, f.first = p.first,
           ~p.started => p.first = 0 /\ f.sorted
    PROVE  /\ GoodFile(Apply(f, AddTrack(p, e, orig, r).cmd))
           /\ InSync(AddTrack(p, e, orig, r).list, Apply(f, AddTrack(p, e, orig, r).cmd))
           /\ Apply(f, AddTrack(p, e, orig, r).cmd).last = AddTrack(p, e, orig, r).list.last
  <1> DEFINE n == Len(p.list)
             pos == Position(p, orig, r)
             l == InsertAt(p.list, pos + 1, e)
             a == AddTrack(p, e, orig, r)
             q == a.list
             b == Building(f)
             logged == LoggedAt(p, orig, pos)
             g == Apply(f, a.cmd)
             v == AddTrack(b, e, logged, 0).list
  <1>1. /\ p \in AnyLists /\ p.list \in Seq(Track) /\ n \in Nat
        /\ p.first \in 0 .. n /\ f \in Files /\ p.started \in BOOLEAN
    <2>1. p \in Lists /\ p.list \in Seq(Track) /\ p.first \in 0 .. n /\ f \in Files
      BY DEF GoodPlaylist, GoodFile, Placed, GoodList
    <2>2. QED
      BY <2>1, TrackFacts, AnyIsMore DEF Lists
  <1>2. pos \in Int /\ pos \in 0 .. n
    BY <1>1, SMT
  <1>3. GoodPlaylist(q) /\ Len(q.list) = n + 1
    BY Added
  <1>4. l \in Seq(AnyTrack)
    <2>1. pos + 1 \in 1 .. n + 1
      BY <1>1, <1>2, SMT
    <2>2. l \in Seq(Track)
      BY <1>1, <2>1, InsertAtFacts
    <2>3. QED
      BY <2>2, AnyIsMore
  <1>5. AddedTo(p, e, orig, r)
    BY <1>1, <1>2, <1>4, AddTrackFields
  <1>6. /\ q.list = l /\ q.first = FirstAfter(p, orig, pos) /\ q.started = p.started
        /\ q.last = LastAfter(p, orig, pos)
        /\ a.cmd = [op |-> "add", e |-> e, last |-> q.last, pos |-> logged]
    BY <1>5 DEF AddedTo
  <1>7. /\ orig >= 0 => pos = orig
        /\ orig = PREPEND => pos = p.first
    BY PositionFacts
  <1>8. /\ b \in AnyLists /\ b.list = p.list /\ b.first = p.first /\ b.started
        /\ b.last = f.last
    BY <1>1, BuildingIsList, AnyIsMore
  <1> HIDE DEF pos, b, a
  \* What is logged is the place itself, or the special position for first_index.
  <1>9. \/ logged = INSERT_LAST_ROTATED /\ pos = p.first /\ IsPlaying(p)
             /\ orig < 0 /\ orig # PREPEND
        \/ logged = pos /\ (IsPlaying(p) /\ orig < 0 /\ orig # PREPEND => pos # p.first)
    BY DEF LoggedAt, LoggedPosition
  <1>10. logged \in Int
    BY <1>2, <1>9, SMT DEF INSERT_LAST_ROTATED
  <1> HIDE DEF logged
  <1>11. Position(b, logged, 0) = pos
    <2>1. /\ logged = INSERT_LAST_ROTATED => Position(b, logged, 0) = p.first
          /\ logged >= 0 => Position(b, logged, 0) = logged
      BY <1>8, <1>10, PositionFacts
    <2>2. pos >= 0
      BY <1>2, SMT
    <2>3. QED
      BY <1>9, <2>1, <2>2
  <1>12. v.list = l /\ v.first = FirstAfter(b, logged, pos)
    <2>1. AddedTo(b, e, logged, 0)
      BY <1>2, <1>4, <1>8, <1>10, <1>11, AddTrackFields
    <2>2. QED
      BY <1>8, <1>11, <2>1 DEF AddedTo
  <1>13. /\ IsPlaying(b) <=> n > 0
         /\ IsPlaying(p) <=> p.started /\ n > 0
    BY <1>8 DEF IsPlaying
  <1>14. FirstAfter(b, logged, pos) = FirstAfter(p, orig, pos)
    <2>1. FirstAfter(b, logged, pos) =
            IF n > 0 /\ (\/ logged >= 0 /\ pos < p.first
                         \/ logged < 0 /\ logged # PREPEND /\ pos <= p.first)
            THEN p.first + 1 ELSE p.first
      BY <1>8, <1>13 DEF FirstAfter
    <2>2. FirstAfter(p, orig, pos) =
            IF n > 0 /\ p.started /\ (\/ orig >= 0 /\ pos < p.first
                                      \/ orig < 0 /\ orig # PREPEND /\ pos <= p.first)
            THEN p.first + 1 ELSE p.first
      BY <1>13 DEF FirstAfter
    <2>3. p.first \in Int /\ 0 <= p.first /\ 0 <= pos /\ pos \in Int /\ n \in Nat
      BY <1>1, <1>2, SMT
    <2>4. CASE n = 0
      BY <2>1, <2>2, <2>4, SMT
    <2>5. CASE n > 0 /\ p.started
      <3>1. CASE logged = INSERT_LAST_ROTATED /\ pos = p.first /\ orig < 0 /\ orig # PREPEND
        <4>1. logged < 0 /\ logged # PREPEND
          BY <3>1, SMT DEF INSERT_LAST_ROTATED, PREPEND
        <4>2. pos <= p.first
          BY <2>3, <3>1, SMT
        <4>3. QED
          BY <2>1, <2>2, <2>5, <3>1, <4>1, <4>2
      <3>2. CASE logged = pos /\ ~(pos = p.first /\ orig < 0 /\ orig # PREPEND)
        <4>1. logged >= 0 /\ ~(logged < 0)
          BY <2>3, <3>2, SMT
        <4>2. (pos < p.first) <=> (\/ orig >= 0 /\ pos < p.first
                                   \/ orig < 0 /\ orig # PREPEND /\ pos <= p.first)
          <5>1. CASE orig >= 0
            BY <2>3, <5>1, SMT
          <5>2. CASE orig = PREPEND
            BY <1>7, <2>3, <5>2, SMT DEF PREPEND
          <5>3. CASE orig < 0 /\ orig # PREPEND
            BY <2>3, <3>2, <5>3, SMT
          <5>4. QED
            BY <5>1, <5>2, <5>3, SMT
        <4>3. QED
          BY <2>1, <2>2, <2>5, <4>1, <4>2
      <3>3. QED
        BY <1>9, <1>13, <2>5, <3>1, <3>2
    <2>6. CASE n > 0 /\ ~p.started
      <3>1. logged = pos /\ p.first = 0
        BY <1>9, <1>13, <2>6
      <3>2. ~(pos < p.first) /\ ~(logged < 0)
        BY <2>3, <3>1, SMT
      <3>3. QED
        BY <2>1, <2>2, <2>6, <3>2
    <2>7. QED
      BY <2>3, <2>4, <2>5, <2>6, SMT
  <1> HIDE DEF v
  <1>15. g = [f EXCEPT !.list = l, !.first = q.first, !.last = q.last]
    <2> DEFINE c == [op |-> "add", e |-> e, last |-> q.last, pos |-> logged]
    <2>1. c.op = "add" /\ c.e = e /\ c.last = q.last /\ c.pos = logged
      OBVIOUS
    <2> HIDE DEF c
    <2>2. Apply(f, c) =
            [[f EXCEPT !.list = AddTrack(Building(f), c.e, c.pos, 0).list.list,
                       !.first = AddTrack(Building(f), c.e, c.pos, 0).list.first,
                       !.last = AddTrack(Building(f), c.e, c.pos, 0).list.last]
               EXCEPT !.last = c.last]
      BY <2>1 DEF Apply, Building
    <2>3. g = [[f EXCEPT !.list = v.list, !.first = v.first, !.last = v.last]
                 EXCEPT !.last = q.last]
      BY <1>6, <2>1, <2>2 DEF c, v, b
    <2>4. [[f EXCEPT !.list = v.list, !.first = v.first, !.last = v.last]
              EXCEPT !.last = q.last] =
            [f EXCEPT !.list = v.list, !.first = v.first, !.last = q.last]
      BY <1>1 DEF Files
    <2>5. QED
      BY <1>6, <1>12, <1>14, <2>3, <2>4
  <1>16. q.list \in Seq(Track) /\ q.first \in Int /\ q.last \in Int
    BY <1>3 DEF GoodPlaylist, Lists
  <1> HIDE DEF g, l
  <1>17. /\ g \in Files /\ g.list = q.list /\ g.first = q.first /\ g.last = q.last
         /\ g.sorted = f.sorted
    BY <1>1, <1>6, <1>15, <1>16 DEF Files
  <1>18. ~q.started => q.first = 0 /\ g.sorted
    <2>1. ~p.started => FirstAfter(p, orig, pos) = p.first
      BY <1>13 DEF FirstAfter
    <2>2. QED
      BY <1>6, <1>17, <2>1
  <1>19. GoodFile(g) /\ InSync(q, g)
    BY <1>3, <1>17, <1>18 DEF GoodFile, GoodPlaylist, Placed, InSync
  <1>20. QED
    BY <1>17, <1>19 DEF g, a

-------------------------------------------------------------------------------
(* The list put in another order.                                            *)

\* A track that is in a list is at its place.
LEMMA PlaceFound ==
    ASSUME NEW s \in Seq(Track), NEW e, \E i \in 1 .. Len(s) : s[i] = e
    PROVE  PlaceOf(s, e) \in 1 .. Len(s) /\ s[PlaceOf(s, e)] = e
  BY TrackFacts DEF PlaceOf

\* find_and_set_playlist_index_unlocked finds the track that was the current one.
LEMMA Found ==
    ASSUME NEW p, GoodPlaylist(p), NEW l, Reordered(p.list, l), NEW c \in BOOLEAN
    PROVE  LET q == FindAndSet(p, l, c)
           IN  /\ GoodPlaylist(q) /\ q \in Lists
               /\ q.list = l /\ q.last = -1 /\ q.started = p.started
               /\ c /\ HasCurrent(p) =>
                     /\ q.first = q.index /\ q.index \in 0 .. Len(p.list) - 1
                     /\ Current(q) = Current(p) /\ HasCurrent(q)
               /\ ~(c /\ HasCurrent(p)) => q.first = p.first /\ q.index = p.index
  <1> DEFINE q == FindAndSet(p, l, c)
             n == Len(p.list)
             i == PlaceOf(l, Current(p)) - 1
  <1>1. /\ p \in Lists /\ p.list \in Seq(Track) /\ n \in Nat
        /\ p.index \in 0 .. n + 1 /\ p.first \in 0 .. n
    <2>1. p \in Lists /\ p.list \in Seq(Track) /\ p.index \in 0 .. n + 1 /\ p.first \in 0 .. n
      BY DEF GoodPlaylist, Placed, GoodList
    <2>2. QED
      BY <2>1, TrackFacts
  <1>2. /\ GoodList(l) /\ l \in Seq(Track) /\ Len(l) = n
        /\ \A k \in 1 .. n : \E j \in 1 .. n : l[j] = p.list[k]
    BY DEF Reordered, GoodList
  <1>3. CASE c /\ HasCurrent(p)
    <2>1. p.index \in 0 .. n - 1
      BY <1>3 DEF HasCurrent, Amount
    <2>2. p.index + 1 \in 1 .. n /\ Current(p) = p.list[p.index + 1]
      BY <1>1, <2>1, SMT DEF Current, At
    <2>3. PlaceOf(l, Current(p)) \in 1 .. n /\ l[PlaceOf(l, Current(p))] = Current(p)
      BY <1>2, <2>2, PlaceFound, ZenonT(30)
    <2>4. i \in 0 .. n - 1 /\ i \in Int /\ i + 1 = PlaceOf(l, Current(p)) /\ i \in 0 .. n
          /\ i \in 0 .. n + 1
      BY <1>1, <2>3, SMT
    <2>5. q = Edited(p, l, i, i, -1)
      BY <1>3 DEF FindAndSet, Edited
    <2> HIDE DEF i, q
    <2>6. /\ q \in Lists /\ q.list = l /\ q.index = i /\ q.first = i /\ q.last = -1
          /\ q.started = p.started
      <3>1. p \in Lists /\ l \in Seq(Track) /\ i \in Int
        BY <1>1, <1>2, <2>4
      <3>2. QED
        BY <2>5, <3>1, ListEdited DEF HasMembers
    <2>7. -1 \in -1 .. n - 1
      BY <1>1, SMT
    <2>8. GoodPlaylist(q)
      BY <1>2, <2>4, <2>6, <2>7 DEF GoodPlaylist, Placed
    <2>9. Current(q) = Current(p) /\ HasCurrent(q)
      BY <1>2, <2>3, <2>4, <2>6 DEF Current, At, HasCurrent, Amount
    <2>10. QED
      BY <1>3, <2>4, <2>6, <2>8, <2>9 DEF q
  <1>4. CASE ~(c /\ HasCurrent(p))
    <2>1. q = Edited(p, l, p.index, p.first, -1)
      <3>1. q = [p EXCEPT !.list = l, !.last = -1]
        BY <1>4 DEF FindAndSet
      <3>2. [p EXCEPT !.list = l, !.last = -1] = Edited(p, l, p.index, p.first, -1)
        BY <1>1 DEF Lists, Edited
      <3>3. QED
        BY <3>1, <3>2
    <2> HIDE DEF q
    <2>2. /\ q \in Lists /\ q.list = l /\ q.index = p.index /\ q.first = p.first
          /\ q.last = -1 /\ q.started = p.started
      <3>1. p \in Lists /\ l \in Seq(Track) /\ p.index \in Int /\ p.first \in Int
        BY <1>1, <1>2 DEF Lists
      <3>2. QED
        BY <2>1, <3>1, ListEdited DEF HasMembers
    <2>3. -1 \in -1 .. n - 1
      BY <1>1, SMT
    <2>4. GoodPlaylist(q)
      BY <1>1, <1>2, <2>2, <2>3 DEF GoodPlaylist, Placed
    <2>5. QED
      BY <1>4, <2>2, <2>4 DEF q
  <1>5. QED
    BY <1>3, <1>4

\* A shuffled or sorted list and the file after the command for it.
LEMMA OrderInSync ==
    ASSUME NEW q, GoodPlaylist(q), q.last = -1, NEW g,
           \E sorted \in BOOLEAN :
              /\ g = [list |-> q.list, first |-> q.first, last |-> -1, sorted |-> sorted]
              /\ ~q.started => q.first = 0 /\ sorted
    PROVE  GoodFile(g) /\ InSync(q, g)
  <1>1. PICK sorted \in BOOLEAN :
              /\ g = [list |-> q.list, first |-> q.first, last |-> -1, sorted |-> sorted]
              /\ ~q.started => q.first = 0 /\ sorted
    OBVIOUS
  <1>2. /\ q.list \in Seq(Track) /\ q.first \in Int /\ Placed(q)
    BY DEF GoodPlaylist, Lists
  <1>3. /\ g.list = q.list /\ g.first = q.first /\ g.last = -1 /\ g.sorted = sorted
    BY <1>1
  <1>4. g \in Files
    BY <1>1, <1>2 DEF Files
  <1>5. QED
    BY <1>1, <1>2, <1>3, <1>4 DEF GoodFile, Placed, InSync

-------------------------------------------------------------------------------
(* The calls keep the invariant.                                             *)

\* A new playlist and one with the current track alone.
LEMMA EmptyIsGood ==
    GoodPlaylist(Empty) /\ GoodFile(EmptyFile) /\ InSync(Empty, EmptyFile)
  <1>1. << >> \in Seq(Track) /\ Len(<< >>) = 0
    BY EmptySeq
  <1>2. GoodList(<< >>)
    <2>1. 0 <= MaxAmount /\ 1 .. 0 = {}
      BY PlaylistAssumption, SMT
    <2>2. QED
      BY <1>1, <2>1 DEF GoodList, Distinct
  <1>3. Empty \in Lists /\ EmptyFile \in Files
    BY <1>1, SMT DEF Empty, EmptyFile, Lists, Files
  <1>4. /\ Empty.list = << >> /\ Empty.index = 0 /\ Empty.first = 0 /\ Empty.last = -1
        /\ EmptyFile.list = << >> /\ EmptyFile.first = 0 /\ EmptyFile.last = -1
        /\ EmptyFile.sorted
    BY DEF Empty, EmptyFile
  <1>5. 0 \in 0 .. 0 /\ -1 \in -1 .. (0 - 1) /\ 0 \in 0 .. (0 + 1)
    BY SMT
  <1>6. QED
    BY <1>1, <1>2, <1>3, <1>4, <1>5 DEF GoodPlaylist, GoodFile, Placed, InSync

\* playlist_create.
LEMMA CreateStep == ASSUME Create PROVE IInv'
  BY EmptyIsGood DEF Create, IInv

\* playlist_remove_all_tracks.
LEMMA RemoveAllStep == ASSUME IInv, RemoveAll PROVE IInv'
  <1> DEFINE t == [seek |-> 1, queued |-> TRUE]
             one == << t >>
             b == IF playlist.last = 0 THEN -1 ELSE 0
  <1>1. t \in Track
    <2>1. 1 \in 1 .. MaxSeek
      BY PlaylistAssumption, SMT
    <2>2. QED
      BY <2>1 DEF Track
  <1> HIDE DEF t
  <1>2. one \in Seq(Track) /\ Len(one) = 1
    BY <1>1, SMT
  <1>3. playlist \in Lists
    BY DEF IInv, GoodPlaylist
  <1>4. /\ playlist' = [playlist EXCEPT !.list = one, !.index = 0, !.first = 0, !.last = b]
        /\ file' = [list |-> one, first |-> 0, last |-> 0, sorted |-> TRUE]
        /\ disk' = file'
    BY DEF RemoveAll, t
  <1> HIDE DEF one
  <1>5. b \in Int /\ b \in -1 .. 1 - 1 /\ 0 \in -1 .. 1 - 1 /\ 0 \in 0 .. 1 /\ 0 \in 0 .. 1 + 1
        /\ (b = 0 \/ b = -1)
    BY SMT
  <1> HIDE DEF b
  <1>6. /\ playlist' \in Lists /\ playlist'.list = one /\ playlist'.index = 0
        /\ playlist'.first = 0 /\ playlist'.last = b
    <2>1. one \in Seq(Track) /\ b \in Int
      BY <1>2, <1>5
    <2>2. playlist' = Edited(playlist, one, 0, 0, b)
      BY <1>4 DEF Edited
    <2>3. QED
      BY <1>3, <2>1, <2>2, ListEdited DEF HasMembers
  <1>7. /\ file' \in Files /\ file'.list = one /\ file'.first = 0 /\ file'.last = 0
        /\ file'.sorted
    BY <1>2, <1>4, SMT DEF Files
  <1>8. GoodList(one)
    <2>1. \A i, j \in 1 .. 1 : i = j
      BY SMT
    <2>2. 1 <= MaxAmount
      BY PlaylistAssumption, SMT
    <2>3. QED
      BY <1>2, <2>1, <2>2 DEF GoodList, Distinct
  <1>9. GoodPlaylist(playlist') /\ GoodFile(file') /\ GoodFile(disk')
    BY <1>2, <1>4, <1>5, <1>6, <1>7, <1>8 DEF GoodPlaylist, GoodFile, Placed
  <1>10. InSync(playlist', file')
    BY <1>2, <1>5, <1>6, <1>7 DEF InSync
  <1>11. QED
    BY <1>9, <1>10 DEF IInv

\* Types of a list's members, together.
LEMMA ListTypes ==
    ASSUME NEW p, GoodPlaylist(p)
    PROVE  /\ p \in Lists /\ p.list \in Seq(Track) /\ GoodList(p.list)
           /\ Len(p.list) \in Nat /\ Len(p.list) <= MaxAmount
           /\ p.index \in Int /\ p.index >= 0 /\ p.index <= Len(p.list) + 1
           /\ p.first \in Int /\ p.first >= 0 /\ p.first <= Len(p.list)
           /\ p.last \in Int /\ p.last >= -1 /\ p.last <= Len(p.list) - 1
           /\ p.started \in BOOLEAN
           /\ \A k \in 1 .. Len(p.list) : p.list[k] \in Track
  <1>1. /\ p \in Lists /\ p.list \in Seq(Track) /\ GoodList(p.list)
        /\ Len(p.list) <= MaxAmount
        /\ p.index \in 0 .. Len(p.list) + 1
        /\ p.first \in 0 .. Len(p.list) /\ p.last \in -1 .. Len(p.list) - 1
    BY DEF GoodPlaylist, Placed, GoodList
  <1>2. Len(p.list) \in Nat /\ \A k \in 1 .. Len(p.list) : p.list[k] \in Track
    BY <1>1, TrackFacts
  <1>3. p.started \in BOOLEAN
    BY <1>1 DEF Lists
  <1>4. /\ p.index \in Int /\ p.index >= 0 /\ p.index <= Len(p.list) + 1
        /\ p.first \in Int /\ p.first >= 0 /\ p.first <= Len(p.list)
        /\ p.last \in Int /\ p.last >= -1 /\ p.last <= Len(p.list) - 1
    BY <1>1, <1>2, SMT
  <1>5. QED
    BY <1>1, <1>2, <1>3, <1>4

\* The distance from first_index stays within the list.
LEMMA RotateFacts ==
    ASSUME NEW p, GoodPlaylist(p), NEW i \in 0 .. Len(p.list) - 1
    PROVE  Rotate(p, i) \in 0 .. Len(p.list) - 1
  <1>1. Len(p.list) \in Nat /\ p.first \in Int /\ p.first >= 0 /\ p.first <= Len(p.list)
    BY ListTypes
  <1>2. QED
    BY <1>1, SMT DEF Rotate, Amount

\* Where an insertion puts a track, it is at a place from 0 on.
LEMMA PlaceOfInsertion ==
    ASSUME NEW p, GoodPlaylist(p), NEW orig \in Positions,
           NEW r \in IF orig = INSERT_SHUFFLED THEN Offsets(p) ELSE {0}
    PROVE  Position(p, orig, r) \in Nat /\ orig \in Int /\ orig < 0 /\ orig # PREPEND
  <1>1. /\ Len(p.list) \in Nat /\ p.index \in Int /\ p.index >= 0
        /\ p.first \in Int /\ p.first >= 0 /\ p.last \in Int
    BY ListTypes
  <1>2. orig \in Int /\ orig < 0 /\ orig # PREPEND
    BY SMT DEF Positions, INSERT, INSERT_LAST, INSERT_FIRST, INSERT_SHUFFLED, PREPEND
  <1>3. CASE orig = INSERT_LAST
    BY <1>1, <1>2, <1>3, PositionFacts, SMT
  <1>4. CASE orig = INSERT_FIRST
    BY <1>1, <1>2, <1>4, PositionFacts, SMT
  <1>5. CASE orig = INSERT
    BY <1>1, <1>2, <1>5, PositionFacts, SMT
  <1>6. CASE orig = INSERT_SHUFFLED
    <2>1. Rotate(p, p.index) \in Int
      BY <1>1, SMT DEF Rotate, Amount
    <2>2. r \in Offsets(p)
      BY <1>6
    <2>3. r \in Nat
      BY <1>1, <2>1, <2>2, SMT DEF Offsets, Amount
    <2>4. RandomPlace(p, r) \in Nat
      BY <1>1, <2>3, SMT DEF RandomPlace
    <2>5. QED
      BY <1>2, <1>6, <2>4, PositionFacts
  <1>7. QED
    BY <1>2, <1>3, <1>4, <1>5, <1>6 DEF Positions

\* playlist_insert_track.
LEMMA InsertStep == ASSUME Kept, IInv, InsertAny PROVE IInv'
  <1> DEFINE p == playlist
             f == file
  <1>1. PICK orig \in Positions, queue \in BOOLEAN :
           \E r \in IF orig = INSERT_SHUFFLED THEN Offsets(playlist) ELSE {0} :
              Insert(orig, r, queue)
    BY DEF InsertAny
  <1>2. PICK r \in IF orig = INSERT_SHUFFLED THEN Offsets(playlist) ELSE {0} :
              Insert(orig, r, queue)
    BY <1>1
  <1> DEFINE e == Fresh(queue)
  <1>3. GoodPlaylist(p) /\ GoodFile(f) /\ InSync(p, f)
    BY DEF IInv
  <1>4. /\ Len(p.list) < MaxAmount /\ FreshSeek <= MaxSeek
        /\ Position(p, orig, r) <= Len(p.list)
    BY <1>2 DEF Insert, Room, Amount, Kept
  <1>5. Position(p, orig, r) \in Nat /\ orig \in Int
    BY <1>3, PlaceOfInsertion
  <1>6. Position(p, orig, r) \in 0 .. Len(p.list)
    BY <1>3, <1>4, <1>5, ListTypes, SMT
  <1>7. /\ e \in Track
        /\ \A k \in 1 .. Len(p.list) : p.list[k].seek # e.seek
    <2>1. /\ FreshSeek \in Nat /\ e \in Track
          /\ \A k \in 1 .. Len(p.list) : p.list[k].seek < FreshSeek
      BY <1>4, FreshIsNew
    <2>2. \A k \in 1 .. Len(p.list) : p.list[k].seek \in Nat
      BY <1>3, ListTypes, TrackFacts
    <2>3. e.seek = FreshSeek
      BY DEF Fresh
    <2>4. \A k \in 1 .. Len(p.list) : p.list[k].seek # FreshSeek
      BY <2>1, <2>2, SMT
    <2>5. QED
      BY <2>1, <2>3, <2>4
  <1>8. /\ playlist' = AddTrack(p, e, orig, r).list
        /\ file' = Apply(f, AddTrack(p, e, orig, r).cmd) /\ disk' = file'
    BY <1>2 DEF Insert, LogAndSync
  <1>9. f.list = p.list /\ f.first = p.first /\ (~p.started => p.first = 0 /\ f.sorted)
    BY <1>3 DEF InSync
  <1> HIDE DEF p, f, e
  <1>10. GoodPlaylist(playlist')
    BY <1>3, <1>4, <1>5, <1>6, <1>7, <1>8, Added
  <1>11. GoodFile(file') /\ InSync(playlist', file')
    BY <1>3, <1>4, <1>5, <1>6, <1>7, <1>8, <1>9, AddedInSync
  <1>12. QED
    BY <1>8, <1>10, <1>11 DEF IInv

\* playlist_delete.
LEMMA DeleteStep == ASSUME IInv, NEW i \in Places, Delete(i) PROVE IInv'
  <1>1. GoodPlaylist(playlist) /\ GoodFile(file) /\ InSync(playlist, file)
    BY DEF IInv
  <1>2. i \in 0 .. Len(playlist.list) - 1
    BY <1>1, ListTypes, PlaylistAssumption, SMT DEF Delete, Amount, Places
  <1>3. /\ playlist' = RemoveTrack(playlist, i)
        /\ file' = Apply(file, Deleted(i)) /\ disk' = file'
    BY DEF Delete, LogAndSync
  <1>4. GoodPlaylist(playlist')
    BY <1>1, <1>2, <1>3, Removed
  <1>5. GoodFile(file') /\ InSync(playlist', file')
    BY <1>1, <1>2, <1>3, RemovedInSync
  <1>6. QED
    BY <1>3, <1>4, <1>5 DEF IInv

\* playlist_start.
LEMMA StartStep == ASSUME IInv, NEW i \in Places, Start(i) PROVE IInv'
  <1> DEFINE p == playlist
             q == playlist'
  <1>1. GoodPlaylist(p) /\ GoodFile(file) /\ InSync(p, file)
    BY DEF IInv
  <1>2. i \in Int /\ 0 <= i /\ i < Len(p.list)
    BY PlaylistAssumption, SMT DEF Start, Amount, Places
  <1>3. q = [p EXCEPT !.index = i, !.started = TRUE] /\ disk' = file /\ file' = file
    BY DEF Start
  <1>4. p \in Lists /\ Len(p.list) \in Nat
    BY <1>1, ListTypes
  <1> HIDE DEF q
  <1>5. /\ q \in Lists /\ q.list = p.list /\ q.index = i /\ q.first = p.first
        /\ q.last = p.last /\ q.started
    BY <1>2, <1>3, <1>4 DEF Lists
  <1>6. i \in 0 .. Len(p.list) + 1 /\ (Len(p.list) = 1 => i = 0)
    <2>1. \A m \in Nat : i < m => i \in 0 .. m + 1 /\ (m = 1 => i = 0)
      BY <1>2, SMT
    <2>2. QED
      BY <1>2, <1>4, <2>1
  <1>7. GoodPlaylist(q) /\ InSync(q, file)
    BY <1>1, <1>5, <1>6 DEF GoodPlaylist, Placed, InSync
  <1>8. QED
    BY <1>1, <1>3, <1>7 DEF IInv, q

\* playlist_shuffle and playlist_start.
LEMMA ShuffleAndStartStep ==
    ASSUME IInv, NEW i \in Places, NEW seed \in Seeds, NEW c \in BOOLEAN,
           ShuffleAndStart(i, seed, c)
    PROVE  IInv'
  <1> DEFINE a == IF c THEN [playlist EXCEPT !.index = i, !.first = i] ELSE playlist
             l == Randomised(a.list, seed)
             q == FindAndSet(a, l, c)
  <1>1. GoodPlaylist(playlist) /\ GoodFile(file) /\ InSync(playlist, file)
    BY DEF IInv
  <1>2. i \in Int /\ 0 <= i /\ i < Len(playlist.list) /\ ~playlist.started
    BY PlaylistAssumption, SMT DEF ShuffleAndStart, Amount, Places
  <1>3. /\ playlist' = [q EXCEPT !.started = TRUE]
        /\ file' = Apply(file, ShuffleCommand(seed, q.first))
        /\ disk' = file'
    BY DEF ShuffleAndStart, LogAndSync, ShuffleCommand
  <1>4. GoodPlaylist(a) /\ a.list = playlist.list
    <2>1. CASE ~c
      BY <1>1, <2>1
    <2>2. CASE c
      <3>1. a = [playlist EXCEPT !.index = i, !.first = i]
        BY <2>2
      <3>2. playlist \in Lists /\ Len(playlist.list) \in Nat
        BY <1>1, ListTypes
      <3> HIDE DEF a
      <3>3. /\ a \in Lists /\ a.list = playlist.list /\ a.index = i /\ a.first = i
            /\ a.last = playlist.last
        BY <1>2, <3>1, <3>2 DEF Lists
      <3>4. i \in 0 .. Len(a.list) /\ i \in 0 .. Len(a.list) + 1
        BY <1>2, <3>2, <3>3, SMT
      <3>5. QED
        BY <1>1, <3>3, <3>4 DEF GoodPlaylist, Placed
    <2>3. QED
      BY <2>1, <2>2
  <1> HIDE DEF a
  <1>5. Reordered(a.list, l)
    BY <1>4, ListTypes, Shuffled
  <1> HIDE DEF l
  <1>6. GoodPlaylist(q) /\ q.list = l /\ q.last = -1 /\ q \in Lists
    BY <1>4, <1>5, Found
  <1> HIDE DEF q
  <1> DEFINE v == playlist'
  <1> HIDE DEF v
  <1>7. /\ v \in Lists /\ v.list = q.list /\ v.index = q.index /\ v.first = q.first
        /\ v.last = q.last /\ v.started
    BY <1>3, <1>6 DEF Lists, v
  <1>8. GoodPlaylist(v) /\ v.last = -1
    BY <1>6, <1>7 DEF GoodPlaylist, Placed
  <1>9. file' = [list |-> Randomised(file.list, seed), first |-> q.first, last |-> -1,
                 sorted |-> FALSE]
    <2>1. file \in Files /\ file.sorted
      BY <1>1, <1>2 DEF GoodFile, InSync
    <2>2. file' = ShuffledFile(file, seed, q.first)
      BY <1>3, <2>1, ShuffleReplayed
    <2>3. QED
      BY <2>1, <2>2 DEF ShuffledFile
  <1>10. Randomised(file.list, seed) = v.list
    BY <1>1, <1>4, <1>6, <1>7 DEF InSync, l
  <1>11. GoodFile(file') /\ InSync(v, file')
    BY <1>7, <1>8, <1>9, <1>10, OrderInSync
  <1>12. QED
    BY <1>3, <1>8, <1>11 DEF IInv, v

\* playlist_sort.
LEMMA SortStep == ASSUME IInv, Sort(TRUE) PROVE IInv'
  <1> DEFINE l == SortedList(playlist.list)
             q == FindAndSet(playlist, l, TRUE)
             v == playlist'
  <1>1. GoodPlaylist(playlist) /\ GoodFile(file) /\ GoodFile(disk) /\ InSync(playlist, file)
    BY DEF IInv
  <1>2. /\ v = [q EXCEPT !.first = 0]
        /\ file' = Apply(file, [op |-> "unshuffle", first |-> 0]) /\ disk' = disk
    BY DEF Sort, Log
  <1>3. Reordered(playlist.list, l)
    BY <1>1, ListTypes, Sorted
  <1> HIDE DEF l
  <1>4. GoodPlaylist(q) /\ q.list = l /\ q.last = -1 /\ q \in Lists
    <2>1. \A c \in BOOLEAN : LET u == FindAndSet(playlist, l, c)
                             IN  GoodPlaylist(u) /\ u.list = l /\ u.last = -1 /\ u \in Lists
      BY <1>1, <1>3, Found
    <2>2. QED
      BY <2>1, Zenon
  <1> HIDE DEF q, v
  <1>5. /\ v \in Lists /\ v.list = q.list /\ v.index = q.index /\ v.first = 0
        /\ v.last = q.last
    BY <1>2, <1>4 DEF Lists
  <1>6. 0 \in 0 .. Len(q.list)
    BY <1>4, ListTypes, SMT
  <1>7. GoodPlaylist(v) /\ v.last = -1
    BY <1>4, <1>5, <1>6 DEF GoodPlaylist, Placed
  <1>8. file' = [list |-> SortedList(file.list), first |-> 0, last |-> -1, sorted |-> TRUE]
    BY <1>1, <1>2, OthersReplayed DEF GoodFile
  <1>9. SortedList(file.list) = v.list
    BY <1>1, <1>4, <1>5 DEF InSync, l
  <1>10. GoodFile(file') /\ InSync(v, file')
    BY <1>5, <1>7, <1>8, <1>9, OrderInSync
  <1>11. QED
    BY <1>1, <1>2, <1>7, <1>10 DEF IInv, v

\* playlist_randomise.
LEMMA RandomiseStep ==
    ASSUME Kept, IInv, NEW seed \in Seeds, Randomise(seed) PROVE IInv'
  <1> DEFINE l == Randomised(playlist.list, seed)
             q == FindAndSet(playlist, l, TRUE)
  <1>1. GoodPlaylist(playlist) /\ GoodFile(file) /\ GoodFile(disk) /\ InSync(playlist, file)
    BY DEF IInv
  <1>2. /\ playlist.started /\ file.sorted /\ playlist' = q
        /\ file' = Apply(file, ShuffleCommand(seed, q.first))
        /\ disk' = disk
    BY DEF Randomise, Log, Kept, ShuffleCommand
  <1>3. Reordered(playlist.list, l)
    BY <1>1, ListTypes, Shuffled
  <1> HIDE DEF l
  <1>4. GoodPlaylist(q) /\ q.list = l /\ q.last = -1 /\ q.started = playlist.started
    <2>1. \A c \in BOOLEAN : LET u == FindAndSet(playlist, l, c)
                             IN  /\ GoodPlaylist(u) /\ u.list = l /\ u.last = -1
                                 /\ u.started = playlist.started
      BY <1>1, <1>3, Found
    <2>2. QED
      BY <2>1, Zenon
  <1> HIDE DEF q
  <1>5. file' = [list |-> Randomised(file.list, seed), first |-> q.first, last |-> -1,
                 sorted |-> FALSE]
    <2>1. file' = ShuffledFile(file, seed, q.first)
      BY <1>1, <1>2, ShuffleReplayed DEF GoodFile
    <2>2. QED
      BY <1>2, <2>1 DEF ShuffledFile
  <1>6. Randomised(file.list, seed) = q.list
    BY <1>1, <1>4 DEF InSync, l
  <1>7. GoodFile(file') /\ InSync(q, file')
    BY <1>2, <1>4, <1>5, <1>6, OrderInSync
  <1>8. QED
    BY <1>1, <1>2, <1>4, <1>7 DEF IInv

\* playlist_resume_track after the list has been built from a file.
LEMMA ResumedInSync ==
    ASSUME NEW f, GoodFile(f), NEW i \in 0 .. Len(f.list) + 1
    PROVE  GoodPlaylist(Resumed(f, i)) /\ InSync(Resumed(f, i), f)
  <1> DEFINE q == Resumed(f, i)
  <1>1. f \in Files /\ Placed(f) /\ f.list \in Seq(Track)
    BY DEF GoodFile, Placed, GoodList
  <1>2. /\ q.list = f.list /\ q.index = i /\ q.first = f.first /\ q.last = f.last
        /\ q.started
    BY DEF Resumed
  <1>3. i \in Int /\ f.first \in Int /\ f.last \in Int
    BY <1>1 DEF Files
  <1>4. q \in Lists
    BY <1>1, <1>3 DEF Resumed, Lists
  <1>5. QED
    BY <1>1, <1>2, <1>4 DEF GoodPlaylist, Placed, InSync

\* Switching off and on again.
LEMMA ShutdownStep == ASSUME IInv, Shutdown PROVE IInv'
  <1> DEFINE i == IF HasCurrent(playlist) /\ Current(playlist) \in Entries(file)
                  THEN PlaceOf(file.list, Current(playlist)) - 1 ELSE 0
  <1>1. /\ GoodFile(file) /\ file.list \in Seq(Track) /\ Len(file.list) \in Nat
    BY TrackFacts DEF IInv, GoodFile, Placed, GoodList
  <1>2. playlist' = Resumed(file, i) /\ disk' = file /\ file' = file
    BY DEF Shutdown
  <1>3. i \in 0 .. Len(file.list) + 1
    <2>1. CASE HasCurrent(playlist) /\ Current(playlist) \in Entries(file)
      <3>1. PlaceOf(file.list, Current(playlist)) \in 1 .. Len(file.list)
        BY <1>1, <2>1, TrackFacts, PlaceFound DEF Entries
      <3>2. i = PlaceOf(file.list, Current(playlist)) - 1
        BY <2>1
      <3>3. QED
        BY <1>1, <3>1, <3>2, SMT
    <2>2. CASE ~(HasCurrent(playlist) /\ Current(playlist) \in Entries(file))
      BY <1>1, <2>2, SMT
    <2>3. QED
      BY <2>1, <2>2
  <1> HIDE DEF i
  <1>4. QED
    BY <1>1, <1>2, <1>3, ResumedInSync DEF IInv

\* A loss of power.
LEMMA CrashStep == ASSUME IInv, Crash PROVE IInv'
  <1>1. GoodFile(disk) /\ disk.list \in Seq(Track)
    BY DEF IInv, GoodFile, Placed, GoodList
  <1>2. Len(disk.list) \in Nat
    BY <1>1, TrackFacts
  <1>3. PICK i \in 0 .. Len(disk.list) : playlist' = Resumed(disk, i)
    BY DEF Crash
  <1>4. i \in 0 .. Len(disk.list) + 1
    BY <1>2, SMT
  <1>5. file' = disk /\ disk' = disk
    BY DEF Crash
  <1>6. QED
    BY <1>1, <1>3, <1>4, <1>5, ResumedInSync DEF IInv

-------------------------------------------------------------------------------
(* playlist_move.                                                            *)

\* The parts of Moved: where the track goes in what is left of the list, how
\* that is told to add_track_to_playlist_unlocked, whether the index follows.
MovePlace(p, i, j) == (Rotate(p, j) + RemoveTrack(p, i).first) % Amount(RemoveTrack(p, i))
MoveAs(p, i, j) ==
    CASE Rotate(p, j) = 0 -> PREPEND
      [] Rotate(p, j) = Amount(RemoveTrack(p, i)) -> INSERT_LAST
      [] OTHER -> MovePlace(p, i, j)
MoveShifts(p, i, j) ==
    IF /\ MoveAs(p, i, j) >= 0 /\ MovePlace(p, i, j) < RemoveTrack(p, i).first
       /\ MovePlace(p, i, j) <= RemoveTrack(p, i).index
    THEN TRUE
    ELSE IF /\ MoveAs(p, i, j) >= 0 /\ MovePlace(p, i, j) >= RemoveTrack(p, i).first
            /\ RemoveTrack(p, i).index < RemoveTrack(p, i).first
    THEN FALSE
    ELSE Displaced(p, i, Rotate(p, i), Rotate(p, j), Rotate(p, p.index))
MoveIndex(p, i, j, list) ==
    IF i = p.index
    THEN CASE MoveAs(p, i, j) = PREPEND -> list.first
           [] MoveAs(p, i, j) = INSERT_LAST ->
                 (list.first - 1) % (Amount(RemoveTrack(p, i)) + 1)
           [] OTHER -> MovePlace(p, i, j)
    ELSE IF MoveShifts(p, i, j) /\ MoveAs(p, i, j) # PREPEND THEN list.index + 1
    ELSE list.index
Readded(p, i, j, e) == AddTrack(RemoveTrack(p, i), e, MoveAs(p, i, j), 0)

\* A move is a removal and an addition.
LEMMA MovedParts ==
    ASSUME NEW p, NEW i, NEW j, NEW e
    PROVE  LET a == Readded(p, i, j, e)
           IN  Moved(p, i, j, e) =
                 [list |-> [a.list EXCEPT !.index = MoveIndex(p, i, j, a.list)],
                  deleted |-> Deleted(i), added |-> a.cmd]
  BY DEF Moved, Readded, MovePlace, MoveAs, MoveShifts, MoveIndex

\* Its three cases: to the beginning, to the end, in between.
LEMMA MoveCases ==
    ASSUME NEW p, GoodPlaylist(p), NEW i \in 0 .. Len(p.list) - 1,
           NEW j \in 0 .. Len(p.list) - 1, i # j
    PROVE  LET q == RemoveTrack(p, i)
               n == Len(p.list) - 1
               r == Rotate(p, j)
               k == MovePlace(p, i, j)
               to == MoveAs(p, i, j)
           IN  /\ GoodPlaylist(q) /\ Len(q.list) = n /\ n \in Nat \ {0}
               /\ r \in 0 .. n /\ k \in 0 .. n - 1 /\ to \in Int
               /\ r < n => k = IF r + q.first < n THEN r + q.first ELSE r + q.first - n
               /\ \/ r = 0 /\ to = PREPEND /\ Position(q, to, 0) = q.first
                  \/ /\ r = n /\ to = INSERT_LAST
                     /\ Position(q, to, 0) = IF q.first <= 0 THEN n ELSE q.first
                  \/ r \in 1 .. n - 1 /\ to = k /\ to >= 0 /\ Position(q, to, 0) = k
               /\ Position(q, to, 0) \in 0 .. n
  <1> DEFINE q == RemoveTrack(p, i)
             n == Len(p.list) - 1
             r == Rotate(p, j)
             k == MovePlace(p, i, j)
             to == MoveAs(p, i, j)
  <1>1. GoodPlaylist(q) /\ Len(q.list) = n /\ Len(p.list) \in Nat
    BY Removed
  <1>2. n \in Nat \ {0}
    <2>1. ASSUME NEW m \in Nat, i \in 0 .. m - 1, j \in 0 .. m - 1 PROVE m - 1 \in Nat \ {0}
      BY <2>1, SMT
    <2>2. QED
      BY <1>1, <2>1
  <1>3. r \in 0 .. n
    BY RotateFacts
  <1>4. q.first \in Int /\ q.first >= 0 /\ q.first <= n
    BY <1>1, ListTypes
  <1>5. k = (r + q.first) % n
    BY <1>1 DEF MovePlace, Amount
  <1>6. to = CASE r = 0 -> PREPEND [] r = n -> INSERT_LAST [] OTHER -> k
    BY <1>1 DEF MoveAs, Amount
  <1> HIDE DEF q, n, r, k, to
  <1>7. k \in 0 .. n - 1
    <2>1. r + q.first \in Int
      BY <1>2, <1>3, <1>4, SMT
    <2>2. QED
      BY <1>2, <1>5, <2>1, DivMod
  <1>8. ASSUME r < n
        PROVE  k = IF r + q.first < n THEN r + q.first ELSE r + q.first - n
    <2>1. CASE r + q.first < n
      <3>1. r + q.first \in Int /\ -n <= r + q.first /\ 0 <= r + q.first
        BY <1>2, <1>3, <1>4, SMT
      <3>2. (r + q.first) % n = r + q.first
        BY <1>2, <2>1, <3>1, SmallMod, SMT
      <3>3. QED
        BY <1>5, <2>1, <3>2
    <2>2. CASE ~(r + q.first < n)
      <3>1. /\ r + q.first = n * 1 + (r + q.first - n) /\ 1 \in Int
            /\ r + q.first - n \in 0 .. n - 1
        BY <1>2, <1>3, <1>4, <1>8, <2>2, SMT
      <3>2. (n * 1 + (r + q.first - n)) % n = r + q.first - n
        BY <1>2, <3>1, ModUnique
      <3>3. QED
        BY <1>5, <2>2, <3>1, <3>2
    <2>3. QED
      BY <2>1, <2>2
  <1>9. \/ r = 0 /\ to = PREPEND
        \/ r = n /\ to = INSERT_LAST
        \/ r \in 1 .. n - 1 /\ to = k /\ to >= 0
    <2>1. CASE r = 0
      BY <1>6, <2>1
    <2>2. CASE r = n /\ r # 0
      BY <1>6, <2>2
    <2>3. CASE r # n /\ r # 0
      <3>1. to = k /\ r \in 1 .. n - 1 /\ k >= 0
        BY <1>2, <1>3, <1>6, <1>7, <2>3, SMT
      <3>2. QED
        BY <3>1
    <2>4. QED
      BY <2>1, <2>2, <2>3
  <1>10. to \in Int
    BY <1>2, <1>7, <1>9, SMT DEF PREPEND, INSERT_LAST
  <1>11. /\ to = PREPEND => Position(q, to, 0) = q.first
         /\ to = INSERT_LAST => Position(q, to, 0) = IF q.first <= 0 THEN n ELSE q.first
         /\ to >= 0 => Position(q, to, 0) = to
    BY <1>1, <1>10, PositionFacts
  <1>12. Position(q, to, 0) \in 0 .. n
    <2>1. q.first \in 0 .. n /\ n \in 0 .. n /\ k \in 0 .. n
      BY <1>2, <1>4, <1>7, SMT
    <2>2. QED
      BY <1>9, <1>11, <2>1
  <1>13. QED
    BY <1>1, <1>2, <1>3, <1>7, <1>8, <1>9, <1>10, <1>11, <1>12 DEF q, n, r, k, to

\* What a moved track leaves, and the list it has been added to again.
LEMMA ReaddedFacts ==
    ASSUME NEW p, GoodPlaylist(p), NEW i \in 0 .. Len(p.list) - 1,
           NEW j \in 0 .. Len(p.list) - 1, i # j,
           NEW e \in Track, \A k \in 1 .. Len(p.list) : p.list[k].seek # e.seek
    PROVE  LET q == RemoveTrack(p, i)
               a == Readded(p, i, j, e).list
           IN  /\ GoodPlaylist(q) /\ Len(q.list) < MaxAmount
               /\ \A k \in 1 .. Len(q.list) : q.list[k].seek # e.seek
               /\ GoodPlaylist(a) /\ Len(a.list) = Len(p.list)
  <1> DEFINE q == RemoveTrack(p, i)
             n == Len(p.list) - 1
             to == MoveAs(p, i, j)
  <1>1. /\ GoodPlaylist(q) /\ Len(q.list) = n /\ Len(p.list) \in Nat
        /\ \A k \in 1 .. n : q.list[k] = IF k < i + 1 THEN p.list[k] ELSE p.list[k + 1]
    BY Removed
  <1>2. n < MaxAmount /\ n + 1 = Len(p.list)
    BY <1>1, ListTypes, PlaylistAssumption, SMT
  <1>3. ASSUME NEW k \in 1 .. n PROVE q.list[k].seek # e.seek
    <2>1. k \in 1 .. Len(p.list) /\ k + 1 \in 1 .. Len(p.list)
      BY <1>1, SMT
    <2>2. q.list[k] = p.list[k] \/ q.list[k] = p.list[k + 1]
      BY <1>1
    <2>3. QED
      BY <2>1, <2>2
  <1>4. to \in Int /\ Position(q, to, 0) \in 0 .. Len(q.list)
    BY <1>1, MoveCases
  <1>5. /\ GoodPlaylist(AddTrack(q, e, to, 0).list)
        /\ Len(AddTrack(q, e, to, 0).list.list) = n + 1
    <2> HIDE DEF q, to, n
    <2>1. QED
      BY <1>1, <1>2, <1>3, <1>4, Added
  <1>6. QED
    BY <1>1, <1>2, <1>3, <1>5 DEF Readded

\* Where a move leaves the index, it is one the list can have.
LEMMA MoveIndexIsGood ==
    ASSUME NEW p, GoodPlaylist(p), NEW i \in 0 .. Len(p.list) - 1,
           NEW j \in 0 .. Len(p.list) - 1, i # j,
           NEW e \in Track, \A k \in 1 .. Len(p.list) : p.list[k].seek # e.seek
    PROVE  LET a == Readded(p, i, j, e).list
           IN  MoveIndex(p, i, j, a) \in 0 .. Len(a.list) + 1
  <1> DEFINE q == RemoveTrack(p, i)
             n == Len(p.list) - 1
             k == MovePlace(p, i, j)
             to == MoveAs(p, i, j)
             a == Readded(p, i, j, e).list
             x == MoveIndex(p, i, j, a)
  <1>1. GoodPlaylist(a) /\ GoodPlaylist(q) /\ Len(a.list) = Len(p.list)
    BY ReaddedFacts
  <1>2. /\ n \in Nat \ {0} /\ k \in 0 .. n - 1 /\ to \in Int /\ Amount(q) = n
        /\ Position(q, to, 0) \in 0 .. n
        /\ to = PREPEND \/ to = INSERT_LAST \/ (to = k /\ to >= 0)
    BY MoveCases DEF Amount
  <1>3. /\ a.first \in Int /\ a.first >= 0 /\ a.first <= n + 1 /\ Len(a.list) = n + 1
    BY <1>1, ListTypes, SMT
  <1>4. x = IF i = p.index
            THEN CASE to = PREPEND -> a.first
                   [] to = INSERT_LAST -> (a.first - 1) % (n + 1)
                   [] OTHER -> k
            ELSE IF MoveShifts(p, i, j) /\ to # PREPEND THEN a.index + 1 ELSE a.index
    BY <1>2 DEF MoveIndex
  <1>5. /\ q.index = IF i < p.index THEN p.index - 1 ELSE p.index
        /\ p.index \in Int /\ p.index >= 0 /\ p.index <= n + 2
    <2>1. q.index = IF i < p.index THEN p.index - 1 ELSE p.index
      BY Removed
    <2>2. p.index \in Int /\ p.index >= 0 /\ p.index <= Len(p.list) + 1 /\ Len(p.list) \in Nat
      BY ListTypes
    <2>3. p.index <= n + 2
      BY <2>2, SMT
    <2>4. QED
      BY <2>1, <2>2, <2>3
  <1>6. /\ a.index = q.index \/ a.index = q.index + 1
        /\ to >= 0 => a.index = q.index
    <2>1. AddedTo(q, e, to, 0)
      <3>1. q \in AnyLists /\ q.list \in Seq(Track) /\ Len(q.list) = n
        BY <1>1, ListTypes, AnyIsMore, MoveCases
      <3>2. Position(q, to, 0) \in Int /\ Position(q, to, 0) + 1 \in 1 .. Len(q.list) + 1
        BY <1>2, <3>1, SMTT(30)
      <3>3. InsertAt(q.list, Position(q, to, 0) + 1, e) \in Seq(AnyTrack)
        BY <3>1, <3>2, InsertAtFacts, AnyIsMore
      <3> HIDE DEF q, to
      <3>4. QED
        BY <1>2, <3>1, <3>2, <3>3, AddTrackFields
    <2>2. a.index = IndexAfter(q, to, Position(q, to, 0))
      BY <2>1 DEF AddedTo, Readded
    <2> HIDE DEF a, q, to
    <2>3. to >= 0 => ~(to < 0)
      BY <1>2, SMT
    <2>4. QED
      BY <2>2, <2>3 DEF IndexAfter
  <1>7. i \in Int /\ i >= 0 /\ i <= n
    BY ListTypes, SMT
  <1>8. a.index \in Int /\ a.index >= 0 /\ a.index <= Len(a.list) + 1
    BY <1>1, ListTypes
  <1> HIDE DEF a, q, to, k, n, x
  <1> SUFFICES x \in 0 .. Len(a.list) + 1
    BY DEF a, x
  <1>9. ASSUME x \in Int, x >= 0, x <= n + 2 PROVE x \in 0 .. Len(a.list) + 1
    BY <1>2, <1>3, <1>9, SMT
  <1>10. CASE i = p.index
    <2>1. CASE to = PREPEND
      <3>0. PREPEND # INSERT_LAST
        BY SMT DEF PREPEND, INSERT_LAST
      <3>1. x = a.first
        BY <1>4, <1>10, <2>1, <3>0
      <3>2. QED
        BY <1>2, <1>3, <1>9, <3>1, SMT
    <2>2. CASE to = INSERT_LAST /\ to # PREPEND
      <3>1. a.first - 1 \in Int /\ n + 1 \in Nat \ {0}
        BY <1>2, <1>3, SMTT(30)
      <3>2. x \in 0 .. (n + 1) - 1
        BY <1>4, <1>10, <2>2, <3>1, DivMod
      <3>3. x \in Int /\ x >= 0 /\ x <= n + 2
        BY <1>2, <3>2, SMT
      <3>4. QED
        BY <1>9, <3>3
    <2>3. CASE to # PREPEND /\ to # INSERT_LAST
      <3>1. x = k
        BY <1>4, <1>10, <2>3
      <3>2. x \in Int /\ x >= 0 /\ x <= n + 2
        BY <1>2, <3>1, SMT
      <3>3. QED
        BY <1>9, <3>2
    <2>4. QED
      BY <2>1, <2>2, <2>3
  <1>11. CASE i # p.index
    <2>1. x = a.index \/ (x = a.index + 1 /\ MoveShifts(p, i, j) /\ to # PREPEND)
      BY <1>4, <1>11
    <2>2. CASE x = a.index
      <3>1. x \in Int /\ x >= 0 /\ x <= n + 2
        BY <1>2, <1>3, <1>8, <2>2, SMT
      <3>2. QED
        BY <1>9, <3>1
    <2>3. CASE x = a.index + 1 /\ MoveShifts(p, i, j) /\ to # PREPEND
      <3>1. q.index \in Int /\ q.index >= 0 /\ q.index <= n + 1
        BY <1>2, <1>5, <1>7, SMT
      <3>2. CASE to >= 0
        <4>1. x = q.index + 1
          BY <1>6, <2>3, <3>2
        <4>2. x \in Int /\ x >= 0 /\ x <= n + 2
          BY <1>2, <3>1, <4>1, SMTT(30)
        <4>3. QED
          BY <1>9, <4>2
      <3>3. CASE to = INSERT_LAST
        <4>1. ~(to >= 0)
          BY <3>3, SMT DEF INSERT_LAST
        <4>2. HasCurrent(p)
          BY <2>3, <4>1 DEF MoveShifts, Displaced, to
        <4>3. p.index <= n
          <5>1. p.index \in 0 .. n
            BY <4>2 DEF HasCurrent, Amount, n
          <5>2. QED
            BY <1>2, <5>1, SMT
        <4>4. q.index <= n
          BY <1>2, <1>5, <1>7, <4>3, SMT
        <4>5. x \in Int /\ x >= 0 /\ x <= n + 2
          BY <1>2, <1>6, <2>3, <3>1, <4>4, SMTT(30)
        <4>6. QED
          BY <1>9, <4>5
      <3>4. QED
        BY <1>2, <2>3, <3>2, <3>3
    <2>4. QED
      BY <2>1, <2>2, <2>3
  <1>12. QED
    BY <1>10, <1>11

\* playlist_move.
LEMMA MoveStep == ASSUME IInv, NEW i \in Places, NEW j \in Places, Move(i, j) PROVE IInv'
  <1> DEFINE p == playlist
             e == Fresh(At(p, i).queued)
             q == RemoveTrack(p, i)
             g == Apply(file, Deleted(i))
             a == Readded(p, i, j, e)
             x == MoveIndex(p, i, j, a.list)
             to == MoveAs(p, i, j)
  <1>1. GoodPlaylist(p) /\ GoodFile(file) /\ InSync(p, file)
    BY DEF IInv
  <1>2. /\ i \in 0 .. Len(p.list) - 1 /\ j \in 0 .. Len(p.list) - 1 /\ i # j
        /\ FreshSeek <= MaxSeek
    <2>1. i < Len(p.list) /\ j < Len(p.list) /\ i # j /\ FreshSeek <= MaxSeek
      BY DEF Move, Amount
    <2>2. i \in Int /\ i >= 0 /\ j \in Int /\ j >= 0
      BY PlaylistAssumption, SMT DEF Places
    <2>3. Len(p.list) \in Nat
      BY <1>1, ListTypes
    <2>4. \A m \in Nat : (i < m => i \in 0 .. m - 1) /\ (j < m => j \in 0 .. m - 1)
      BY <2>2, SMT
    <2>5. QED
      BY <2>1, <2>3, <2>4
  <1>3. /\ e \in Track
        /\ \A k \in 1 .. Len(p.list) : p.list[k].seek # e.seek
    <2>1. i + 1 \in 1 .. Len(p.list)
      BY <1>1, <1>2, ListTypes, SMT
    <2>2. At(p, i) \in Track
      BY <1>1, <2>1, ListTypes DEF At
    <2>3. At(p, i).queued \in BOOLEAN
      BY <2>2 DEF Track
    <2>4. /\ FreshSeek \in Nat /\ e \in Track
          /\ \A k \in 1 .. Len(p.list) : p.list[k].seek < FreshSeek
      BY <1>2, <2>3, FreshIsNew
    <2>5. \A k \in 1 .. Len(p.list) : p.list[k].seek \in Nat
      BY <1>1, ListTypes, TrackFacts
    <2>6. e.seek = FreshSeek
      BY DEF Fresh
    <2>7. \A k \in 1 .. Len(p.list) : p.list[k].seek # FreshSeek
      BY <2>4, <2>5, SMT
    <2>8. QED
      BY <2>4, <2>6, <2>7
  <1>4. /\ playlist' = [a.list EXCEPT !.index = x] /\ disk' = g
        /\ file' = Apply(g, a.cmd)
    <2>1. PICK m \in {Moved(playlist, i, j, Fresh(At(playlist, i).queued))} :
             /\ playlist' = m.list
             /\ disk' = Apply(file, m.deleted)
             /\ file' = Apply(disk', m.added)
      BY DEF Move
    <2>2. m = [list |-> [a.list EXCEPT !.index = x], deleted |-> Deleted(i),
               added |-> a.cmd]
      BY <2>1, MovedParts
    <2> HIDE DEF a, x
    <2>3. QED
      BY <2>1, <2>2
  <1>5. GoodFile(g) /\ InSync(q, g)
    BY <1>1, <1>2, RemovedInSync
  <1> HIDE DEF e
  <1>6. /\ GoodPlaylist(q) /\ Len(q.list) < MaxAmount
        /\ \A k \in 1 .. Len(q.list) : q.list[k].seek # e.seek
        /\ GoodPlaylist(a.list) /\ Len(a.list.list) = Len(p.list)
        /\ x \in 0 .. Len(a.list.list) + 1
    BY <1>1, <1>2, <1>3, ReaddedFacts, MoveIndexIsGood
  <1>7. /\ to \in Int /\ Position(q, to, 0) \in 0 .. Len(q.list)
    BY <1>1, <1>2, MoveCases
  <1>8. /\ g.list = q.list /\ g.first = q.first
        /\ ~q.started => q.first = 0 /\ g.sorted
    BY <1>5 DEF InSync
  <1>9. a = AddTrack(q, e, to, 0)
    BY DEF Readded
  <1> HIDE DEF q, g, a, to, x
  <1>10. /\ GoodFile(Apply(g, a.cmd)) /\ InSync(a.list, Apply(g, a.cmd))
         /\ Apply(g, a.cmd).last = a.list.last
    BY <1>3, <1>5, <1>6, <1>7, <1>8, <1>9, AddedInSync
  <1> DEFINE v == playlist'
             u == a.list
  <1> HIDE DEF v, u
  <1>11. /\ v \in Lists /\ v.list = u.list /\ v.index = x /\ v.first = u.first
         /\ v.last = u.last /\ v.started = u.started
    <2>1. u \in Lists
      BY <1>6, ListTypes DEF u
    <2>2. x \in Int
      BY <1>6, ListTypes, SMT
    <2>3. v = [u EXCEPT !.index = x]
      BY <1>4 DEF u, v
    <2>4. QED
      BY <2>1, <2>2, <2>3 DEF Lists
  <1>12. GoodPlaylist(v)
    BY <1>6, <1>11 DEF GoodPlaylist, Placed, u
  <1>13. InSync(v, Apply(g, a.cmd))
    BY <1>10, <1>11 DEF InSync, u
  <1>14. QED
    BY <1>4, <1>5, <1>10, <1>12, <1>13 DEF IInv, v

\* Where playback goes on: nowhere, or at a place of the list.
LEMMA NextIndexFacts ==
    ASSUME NEW p, GoodPlaylist(p), NEW steps \in Int, NEW repeat
    PROVE  /\ GetNextIndex(p, steps, repeat) \in Int
           /\ GetNextIndex(p, steps, repeat) >= 0 =>
                 GetNextIndex(p, steps, repeat) \in 0 .. Len(p.list) - 1
  <1> DEFINE n == Len(p.list)
             next == Rotate(p, p.index) + steps
             wrapped == (p.index + steps) % n
             kept == {k \in 0 .. n - 1 : ~At(p, (wrapped + k) % n).queued}
             i == CASE repeat = "one" -> p.index
                    [] repeat = "off" \/ (repeat = "shuffle" /\ n > 1) ->
                          IF next \in 0 .. n - 1 THEN (next + p.first) % n ELSE -1
                    [] OTHER -> IF steps < n THEN wrapped
                                ELSE IF kept = {} THEN -1 ELSE (wrapped + Min(kept)) % n
             k == GetNextIndex(p, steps, repeat)
  <1>1. n \in Nat /\ p.index \in Int /\ p.first \in Int
    BY ListTypes
  <1>2. k = IF n = 0 \/ i >= n THEN -1 ELSE i
    BY DEF GetNextIndex, Amount
  <1>3. CASE n = 0
    BY <1>2, <1>3, SMT
  <1>4. CASE n # 0
    <2>1. n \in Nat \ {0}
      BY <1>1, <1>4
    <2>2. wrapped \in 0 .. n - 1
      <3>1. p.index + steps \in Int
        BY <1>1, SMT
      <3> HIDE DEF n
      <3>2. QED
        BY <2>1, <3>1, DivMod
    <2>3. next \in 0 .. n - 1 => (next + p.first) % n \in 0 .. n - 1
      <3> SUFFICES ASSUME next \in 0 .. n - 1 PROVE (next + p.first) % n \in 0 .. n - 1
        OBVIOUS
      <3> HIDE DEF next
      <3>1. next + p.first \in Int
        BY <1>1, SMT
      <3> HIDE DEF n
      <3>2. QED
        BY <2>1, <3>1, DivMod
    <2>4. kept # {} => (wrapped + Min(kept)) % n \in 0 .. n - 1
      <3> SUFFICES ASSUME kept # {} PROVE (wrapped + Min(kept)) % n \in 0 .. n - 1
        OBVIOUS
      <3> HIDE DEF wrapped
      <3>1. kept \in SUBSET Nat
        BY <1>1, SMT
      <3>2. Min(kept) \in kept
        BY <3>1, SmallestOf
      <3>3. Min(kept) \in Nat
        BY <3>1, <3>2
      <3> HIDE DEF kept
      <3>4. wrapped + Min(kept) \in Int
        BY <2>2, <3>3, SMT
      <3> HIDE DEF n
      <3>5. QED
        BY <2>1, <3>4, DivMod
    <2>5. i = p.index \/ i = -1 \/ i \in 0 .. n - 1
      <3> HIDE DEF n, next, wrapped, kept
      <3>1. CASE repeat = "one"
        BY <3>1
      <3>2. CASE repeat # "one" /\ (repeat = "off" \/ (repeat = "shuffle" /\ n > 1))
        <4>1. i = IF next \in 0 .. n - 1 THEN (next + p.first) % n ELSE -1
          BY <3>2
        <4>2. QED
          BY <2>3, <4>1
      <3>3. CASE repeat # "one" /\ ~(repeat = "off" \/ (repeat = "shuffle" /\ n > 1))
        <4>1. i = IF steps < n THEN wrapped
                  ELSE IF kept = {} THEN -1 ELSE (wrapped + Min(kept)) % n
          BY <3>3
        <4>2. QED
          BY <2>2, <2>4, <4>1
      <3>4. QED
        BY <3>1, <3>2, <3>3
    <2> HIDE DEF i, k, n
    <2>6. i \in Int
      BY <1>1, <2>5, SMT
    <2>7. k \in Int /\ (k >= 0 => k \in 0 .. n - 1)
      BY <1>1, <1>2, <2>6, SMT
    <2>8. QED
      BY <2>7 DEF k, n
  <1>5. QED
    BY <1>3, <1>4

\* The loop of playlist_next under way: list and file are in step.
Underway(acc, f) ==
    /\ GoodPlaylist(acc.list) /\ GoodFile(acc.file) /\ InSync(acc.list, acc.file)
    /\ acc.steps \in Int /\ acc.file.sorted = f.sorted

\* A round of the loop.
LEMMA DropQueuedFacts ==
    ASSUME NEW acc, NEW f, Underway(acc, f), NEW i \in Nat, NEW repeat
    PROVE  Underway(DropQueued(acc, i, repeat), f)
  <1> DEFINE k == GetNextIndex(acc.list, i, repeat)
             a == DropQueued(acc, i, repeat)
  <1>1. /\ GoodPlaylist(acc.list) /\ GoodFile(acc.file) /\ InSync(acc.list, acc.file)
        /\ acc.steps \in Int /\ acc.file.sorted = f.sorted
    BY DEF Underway
  <1>2. k >= 0 => k \in 0 .. Len(acc.list.list) - 1
    <2>1. i \in Int
      BY SMT
    <2>2. QED
      BY <1>1, <2>1, NextIndexFacts
  <1>3. CASE ~(k >= 0 /\ At(acc.list, k).queued)
    <2>1. a = acc
      BY <1>3 DEF DropQueued
    <2>2. QED
      BY <2>1
  <1>4. CASE k >= 0 /\ At(acc.list, k).queued
    <2>1. a = [list |-> RemoveTrack(acc.list, k), file |-> Apply(acc.file, Deleted(k)),
               steps |-> acc.steps - 1]
      BY <1>4 DEF DropQueued
    <2> HIDE DEF a, k
    <2>2. /\ a.list = RemoveTrack(acc.list, k) /\ a.file = Apply(acc.file, Deleted(k))
          /\ a.steps = acc.steps - 1
      BY <2>1
    <2>3. k \in 0 .. Len(acc.list.list) - 1
      BY <1>2, <1>4
    <2>4. GoodPlaylist(a.list)
      BY <1>1, <2>2, <2>3, Removed
    <2>5. /\ GoodFile(a.file) /\ InSync(a.list, a.file)
          /\ a.file.sorted = acc.file.sorted
      BY <1>1, <2>2, <2>3, RemovedInSync
    <2>6. a.steps \in Int
      BY <1>1, <2>2, SMT
    <2>7. Underway(a, f)
      BY <1>1, <2>4, <2>5, <2>6 DEF Underway
    <2>8. QED
      BY <2>7 DEF a
  <1>5. QED
    BY <1>3, <1>4

\* The rounds of the loop
Rounds(g, acc, n, repeat) ==
    g = [i \in 0 .. n |-> IF i = 0 THEN acc ELSE DropQueued(g[i - 1], i - 1, repeat)]

\* They can be gone through for every number of rounds.
LEMMA RoundsExist ==
    ASSUME NEW acc, NEW n \in Nat, NEW repeat
    PROVE  \E g : Rounds(g, acc, n, repeat)
  <1> DEFINE Missing == {m \in 0 .. n : ~\E g : Rounds(g, acc, m, repeat)}
  <1>1. SUFFICES Missing = {}
    <2>1. n \in 0 .. n
      BY SMT
    <2>2. QED
      BY <1>1, <2>1
  <1>2. SUFFICES ASSUME Missing # {} PROVE FALSE
    OBVIOUS
  <1>3. Missing \in SUBSET Nat
    BY SMT
  <1>4. Min(Missing) \in Missing /\ \A x \in Missing : Min(Missing) <= x
    BY <1>2, <1>3, SmallestOf
  <1> DEFINE m == Min(Missing)
  <1>5. m \in 0 .. n /\ m \in Nat /\ ~\E g : Rounds(g, acc, m, repeat)
    BY <1>3, <1>4
  <1>6. \A x \in 0 .. n : x < m => \E g : Rounds(g, acc, x, repeat)
    <2>1. \A x \in 0 .. n : x < m => ~(m <= x)
      BY <1>5, SMT
    <2>2. QED
      BY <1>4, <2>1
  <1> HIDE DEF Missing, m
  <1>7. CASE m = 0
    <2> DEFINE g == [i \in 0 .. 0 |-> acc]
    <2>1. \A i \in 0 .. 0 : i = 0
      BY SMT
    <2>2. g = [i \in 0 .. 0 |-> IF i = 0 THEN acc ELSE DropQueued(g[i - 1], i - 1, repeat)]
      BY <2>1
    <2>3. Rounds(g, acc, m, repeat)
      BY <1>7, <2>2 DEF Rounds
    <2>4. QED
      BY <1>5, <2>3
  <1>8. CASE m # 0
    <2>1. m - 1 \in 0 .. n /\ m - 1 < m
      BY <1>5, <1>8, SMT
    <2>2. PICK g : Rounds(g, acc, m - 1, repeat)
      BY <1>6, <2>1
    <2> DEFINE h == [i \in 0 .. m |-> IF i = 0 THEN acc
                                      ELSE DropQueued(g[i - 1], i - 1, repeat)]
    <2>3. \A i \in 0 .. m - 1 : i \in 0 .. m
      BY <1>5, SMT
    <2>4. g = [i \in 0 .. m - 1 |-> IF i = 0 THEN acc
                                    ELSE DropQueued(g[i - 1], i - 1, repeat)]
      BY <2>2 DEF Rounds
    <2>5. \A i \in 0 .. m - 1 : h[i] = g[i]
      BY <2>3, <2>4, Zenon
    <2>6. \A i \in 0 .. m : i = 0 \/ i - 1 \in 0 .. m - 1
      BY <1>5, SMT
    <2>7. \A i \in 0 .. m : i = 0 \/ h[i - 1] = g[i - 1]
      BY <2>5, <2>6
    <2>8. h = [i \in 0 .. m |-> IF i = 0 THEN acc
                                ELSE DropQueued(h[i - 1], i - 1, repeat)]
      BY <2>7, Zenon
    <2>9. Rounds(h, acc, m, repeat)
      BY <2>8 DEF Rounds
    <2>10. QED
      BY <1>5, <2>9
  <1>9. QED
    BY <1>7, <1>8

\* After the loop list and file are still in step.
LEMMA PassedFacts ==
    ASSUME NEW acc, NEW f, Underway(acc, f), NEW n \in Nat, NEW repeat
    PROVE  Underway(Passed(acc, n, repeat), f)
  <1> DEFINE g == CHOOSE g : Rounds(g, acc, n, repeat)
  <1>1. Rounds(g, acc, n, repeat)
    BY RoundsExist, Zenon
  <1>2. Passed(acc, n, repeat) = g[n]
    BY DEF Passed, Rounds
  <1> HIDE DEF g
  <1>3. \A i \in 0 .. n : g[i] = IF i = 0 THEN acc ELSE DropQueued(g[i - 1], i - 1, repeat)
    BY <1>1 DEF Rounds
  <1> DEFINE Bad == {i \in 0 .. n : ~Underway(g[i], f)}
  <1>4. SUFFICES Bad = {}
    <2>1. n \in 0 .. n
      BY SMT
    <2>2. QED
      BY <1>2, <1>4, <2>1
  <1>5. SUFFICES ASSUME Bad # {} PROVE FALSE
    OBVIOUS
  <1>6. Bad \in SUBSET Nat
    BY SMT
  <1>7. Min(Bad) \in Bad /\ \A x \in Bad : Min(Bad) <= x
    BY <1>5, <1>6, SmallestOf
  <1> DEFINE m == Min(Bad)
  <1>8. m \in 0 .. n /\ m \in Nat /\ ~Underway(g[m], f)
    BY <1>6, <1>7
  <1>9. m # 0
    BY <1>3, <1>8
  <1>10. m - 1 \in 0 .. n /\ m - 1 \in Nat
    BY <1>8, <1>9, SMT
  <1>11. Underway(g[m - 1], f)
    <2>1. ~(m <= m - 1)
      BY <1>8, SMT
    <2>2. m - 1 \notin Bad
      BY <1>7, <2>1
    <2>3. QED
      BY <1>10, <2>2
  <1> HIDE DEF m, Bad
  <1>12. Underway(g[m], f)
    BY <1>3, <1>8, <1>9, <1>10, <1>11, DropQueuedFacts
  <1>13. QED
    BY <1>8, <1>12

\* Where playlist_next goes: list and file are in step there, too.
LEMMA NextTrackFacts ==
    ASSUME NEW p, GoodPlaylist(p), NEW f, GoodFile(f), InSync(p, f),
           NEW steps \in Int, NEW global, NEW repeat
    PROVE  LET t == NextTrack(p, f, steps, global, repeat)
           IN  /\ GoodPlaylist(t.list) /\ GoodFile(t.file) /\ InSync(t.list, t.file)
               /\ t.file.sorted = f.sorted
  <1> DEFINE all == [list |-> p, file |-> f, steps |-> steps]
             acc == IF steps <= 0 \/ repeat = "one" THEN all ELSE Passed(all, steps, global)
             q == acc.list
             g == acc.file
             index == GetNextIndex(q, acc.steps, repeat)
             over == /\ index >= 0 /\ q.last >= 0 /\ acc.steps > 0
                     /\ Rotate(q, index) > Rotate(q, q.last)
             t == NextTrack(p, f, steps, global, repeat)
  <1>1. Underway(acc, f)
    <2>1. Underway(all, f)
      BY DEF Underway
    <2> HIDE DEF all
    <2>2. CASE steps <= 0 \/ repeat = "one"
      BY <2>1, <2>2
    <2>3. CASE ~(steps <= 0) /\ repeat # "one"
      <3>1. steps \in Nat
        BY <2>3, SMT
      <3>2. Underway(Passed(all, steps, global), f)
        BY <2>1, <3>1, PassedFacts
      <3>3. QED
        BY <2>3, <3>2
    <2>4. QED
      BY <2>2, <2>3
  <1>2. t = [index |-> index,
             list |-> IF index < 0 THEN q
                      ELSE [q EXCEPT !.index = index, !.last = IF over THEN -1 ELSE @],
             file |-> IF over THEN Apply(g, Reset) ELSE g]
    BY DEF NextTrack
  <1> HIDE DEF acc, t
  <1>3. /\ GoodPlaylist(q) /\ GoodFile(g) /\ InSync(q, g) /\ acc.steps \in Int
        /\ g.sorted = f.sorted
    BY <1>1 DEF Underway
  <1>4. index \in Int /\ (index >= 0 => index \in 0 .. Len(q.list) - 1)
    BY <1>3, NextIndexFacts
  <1>5. over => index >= 0
    OBVIOUS
  <1> HIDE DEF index, over, q, g
  <1>6. CASE index < 0
    <2>1. ~over
      BY <1>4, <1>5, <1>6, SMT
    <2>2. t.list = q /\ t.file = g
      BY <1>2, <1>6, <2>1
    <2>3. QED
      BY <1>3, <2>2 DEF t
  <1>7. CASE ~(index < 0)
    <2>1. index \in 0 .. Len(q.list) - 1
      BY <1>4, <1>7, SMT
    <2> DEFINE b == IF over THEN -1 ELSE q.last
               v == t.list
               u == t.file
    <2>2. v = [q EXCEPT !.index = index, !.last = b]
      BY <1>2, <1>7
    <2>3. u = IF over THEN Apply(g, Reset) ELSE g
      BY <1>2
    <2>4. /\ q \in Lists /\ q.list \in Seq(Track) /\ Len(q.list) \in Nat
          /\ q.last \in Int /\ q.last >= -1 /\ q.last <= Len(q.list) - 1
      BY <1>3, ListTypes
    <2>5. b \in Int /\ b \in -1 .. Len(q.list) - 1
      BY <2>4, SMT
    <2>6. index \in 0 .. Len(q.list) + 1 /\ (Len(q.list) = 1 => index = 0)
      <3>1. \A m \in Nat : index \in 0 .. m - 1 =>
               index \in 0 .. m + 1 /\ (m = 1 => index = 0)
        BY SMT
      <3>2. QED
        BY <2>1, <2>4, <3>1
    <2> HIDE DEF b, v, u
    <2>7. /\ v \in Lists /\ v.list = q.list /\ v.index = index /\ v.first = q.first
          /\ v.last = b /\ v.started = q.started
      BY <1>4, <2>2, <2>4, <2>5 DEF Lists
    <2>8. GoodPlaylist(v)
      BY <1>3, <2>5, <2>6, <2>7 DEF GoodPlaylist, Placed
    <2>9. /\ u \in Files /\ u.list = g.list /\ u.first = g.first /\ u.sorted = g.sorted
          /\ u.last = IF over THEN -1 ELSE g.last
      <3>1. g \in Files
        BY <1>3 DEF GoodFile
      <3>2. CASE over
        BY <2>3, <3>1, <3>2, OthersReplayed
      <3>3. CASE ~over
        BY <2>3, <3>1, <3>3
      <3>4. QED
        BY <3>2, <3>3
    <2>10. /\ g.list = q.list /\ g.first = q.first
           /\ \/ g.last = q.last
              \/ g.last = 0 /\ q.last = -1 /\ q.index = 0 /\ Len(q.list) = 1
           /\ ~q.started => q.first = 0 /\ g.sorted
      BY <1>3 DEF InSync
    <2>11. GoodFile(u)
      <3>1. Placed(g) /\ -1 \in -1 .. Len(g.list) - 1
        <4>1. -1 \in -1 .. Len(q.list) - 1
          BY <2>4, SMT
        <4>2. QED
          BY <1>3, <2>10, <4>1 DEF GoodFile
      <3>2. QED
        BY <2>9, <3>1 DEF GoodFile, Placed
    <2>12. \/ u.last = v.last
           \/ u.last = 0 /\ v.last = -1 /\ v.index = 0 /\ Len(v.list) = 1
      BY <2>6, <2>7, <2>9, <2>10 DEF b
    <2>13. InSync(v, u)
      BY <2>7, <2>9, <2>10, <2>12 DEF InSync
    <2>14. QED
      BY <1>3, <2>8, <2>9, <2>11, <2>13 DEF v, u, t
  <1>8. QED
    BY <1>6, <1>7

\* playlist_next.
LEMMA PlaylistNextStep ==
    ASSUME Kept, IInv, NEW s \in Steps, NEW m \in Repeats, PlaylistNext(s, m[1], m[2])
    PROVE  IInv'
  <1> DEFINE t == NextTrack(playlist, file, s, m[1], m[2])
             q == t.list
             g == t.file
  <1>1. /\ GoodPlaylist(playlist) /\ GoodFile(file) /\ GoodFile(disk)
        /\ InSync(playlist, file) /\ s \in Int
    BY PlaylistAssumption DEF IInv
  <1>2. GoodPlaylist(q) /\ GoodFile(g) /\ InSync(q, g) /\ g.sorted = file.sorted
    BY <1>1, NextTrackFacts, SMTT(30)
  <1>3. /\ disk' = IF g = file THEN disk ELSE g
        /\ \/ \E again \in {SortedList(q.list)}, seed \in Seeds :
                /\ q.list = again \/ ~file.sorted
                /\ playlist' = [q EXCEPT !.list = Randomised(again, seed),
                         !.index = 0, !.first = 0, !.last = -1, !.started = TRUE]
                /\ file' = Apply(g, [op |-> "shuffle", seed |-> seed, first |-> 0])
           \/ playlist' = q /\ file' = g
    BY DEF PlaylistNext, Kept
  <1> HIDE DEF t, q, g
  <1>4. GoodFile(disk')
    BY <1>1, <1>2, <1>3
  <1>5. CASE playlist' = q /\ file' = g
    BY <1>2, <1>4, <1>5 DEF IInv
  <1>6. CASE \E again \in {SortedList(q.list)}, seed \in Seeds :
                /\ q.list = again \/ ~file.sorted
                /\ playlist' = [q EXCEPT !.list = Randomised(again, seed),
                         !.index = 0, !.first = 0, !.last = -1, !.started = TRUE]
                /\ file' = Apply(g, [op |-> "shuffle", seed |-> seed, first |-> 0])
    <2> DEFINE again == SortedList(q.list)
    <2>1. PICK seed \in Seeds :
                /\ q.list = again \/ ~file.sorted
                /\ playlist' = [q EXCEPT !.list = Randomised(again, seed),
                         !.index = 0, !.first = 0, !.last = -1, !.started = TRUE]
                /\ file' = Apply(g, ShuffleCommand(seed, 0))
      BY <1>6 DEF ShuffleCommand
    <2>2. q \in Lists /\ GoodList(q.list) /\ Len(q.list) \in Nat
      BY <1>2, ListTypes
    <2>3. GoodList(again) /\ Len(again) = Len(q.list)
      BY <2>2, Sorted DEF Reordered
    <2> DEFINE l == Randomised(again, seed)
               v == playlist'
    <2> HIDE DEF again
    <2>4. GoodList(l) /\ l \in Seq(Track)
      BY <2>3, Shuffled DEF Reordered, GoodList
    <2>5. v = [q EXCEPT !.list = l, !.index = 0, !.first = 0, !.last = -1, !.started = TRUE]
      BY <2>1
    <2> HIDE DEF l, v
    <2>6. /\ v \in Lists /\ v.list = l /\ v.index = 0 /\ v.first = 0 /\ v.last = -1
          /\ v.started
      <3> DEFINE w == Edited(q, l, 0, 0, -1)
      <3>1. v = [w EXCEPT !.started = TRUE]
        BY <2>2, <2>5 DEF Lists, Edited
      <3>2. HasMembers(w, q, l, 0, 0, -1)
        BY <2>2, <2>4, ListEdited, SMT
      <3> HIDE DEF w
      <3>3. QED
        BY <3>1, <3>2 DEF Lists, HasMembers
    <2>7. GoodPlaylist(v)
      <3>1. Len(l) \in Nat
        BY <2>4, LenProperties
      <3>2. 0 \in 0 .. Len(l) + 1 /\ 0 \in 0 .. Len(l) /\ -1 \in -1 .. Len(l) - 1
        BY <3>1, SMT
      <3>3. QED
        BY <2>4, <2>6, <3>2 DEF GoodPlaylist, Placed
    <2>8. file' = [list |-> l, first |-> 0, last |-> -1, sorted |-> FALSE]
      <3>1. g \in Files /\ g.list = q.list /\ g.sorted = file.sorted
        BY <1>2 DEF GoodFile, InSync
      <3>2. file' = ShuffledFile(g, seed, 0)
        BY <2>1, <3>1, ShuffleReplayed
      <3>3. (IF g.sorted THEN g.list ELSE SortedList(g.list)) = again
        BY <2>1, <3>1 DEF again
      <3>4. QED
        BY <3>2, <3>3 DEF ShuffledFile, l
    <2>9. GoodFile(file') /\ InSync(v, file')
      BY <2>6, <2>7, <2>8, OrderInSync
    <2>10. QED
      BY <1>4, <2>7, <2>9 DEF IInv, v
  <1>7. QED
    BY <1>3, <1>5, <1>6

-------------------------------------------------------------------------------
(* The track that plays.                                                     *)

\* The current track of a list
PlaysNow(p, e) == HasCurrent(p) /\ Current(p) = e

\* Where the track that no list has comes to be, and where the others do.
LEMMA NewAdded ==
    ASSUME NEW q, GoodPlaylist(q), NEW orig \in Int, NEW r,
           Position(q, orig, r) \in 0 .. Len(q.list)
    PROVE  LET a == AddTrack(q, New, orig, r).list
               pos == Position(q, orig, r)
           IN  /\ a \in AnyLists /\ Len(a.list) = Len(q.list) + 1
               /\ a.list[pos + 1] = New
               /\ \A x \in 0 .. Len(q.list) - 1 :
                    /\ pos <= x => a.list[x + 2] = q.list[x + 1]
                    /\ ~(pos <= x) => a.list[x + 1] = q.list[x + 1]
               /\ a.index = IndexAfter(q, orig, pos) /\ a.first = FirstAfter(q, orig, pos)
  <1> DEFINE a == AddTrack(q, New, orig, r).list
             pos == Position(q, orig, r)
             n == Len(q.list)
             l == InsertAt(q.list, pos + 1, New)
  <1>1. q \in AnyLists /\ q.list \in Seq(AnyTrack) /\ n \in Nat
    BY ListTypes, AnyIsMore
  <1>2. pos \in Int /\ pos >= 0 /\ pos <= n /\ pos + 1 \in 1 .. n + 1
    BY <1>1, SMT
  <1>3. New \in AnyTrack
    BY DEF AnyTrack
  <1>4. /\ l \in Seq(AnyTrack) /\ Len(l) = n + 1
        /\ \A j \in 1 .. n + 1 :
             l[j] = IF j < pos + 1 THEN q.list[j]
                    ELSE IF j = pos + 1 THEN New ELSE q.list[j - 1]
    <2> DEFINE s == q.list
               e == New
               k == pos + 1
    <2>1. s \in Seq(AnyTrack) /\ k \in 1 .. Len(s) + 1 /\ e \in AnyTrack
      BY <1>1, <1>2, <1>3
    <2> HIDE DEF s, e, k
    <2>2. /\ InsertAt(s, k, e) \in Seq(AnyTrack)
          /\ Len(InsertAt(s, k, e)) = Len(s) + 1
          /\ \A j \in 1 .. Len(s) + 1 :
               InsertAt(s, k, e)[j] =
                  IF j < k THEN s[j] ELSE IF j = k THEN e ELSE s[j - 1]
      BY <2>1, InsertAtFacts
    <2>3. QED
      BY <2>2 DEF s, e, k
  <1>5. AddedTo(q, New, orig, r)
    BY <1>1, <1>2, <1>4, AddTrackFields
  <1>6. /\ a \in AnyLists /\ a.list = l
        /\ a.index = IndexAfter(q, orig, pos) /\ a.first = FirstAfter(q, orig, pos)
    BY <1>5 DEF AddedTo
  <1> HIDE DEF a, l, pos
  <1>7. l[pos + 1] = New
    <2>1. ~(pos + 1 < pos + 1)
      BY <1>2, SMT
    <2>2. QED
      BY <1>2, <1>4, <2>1
  <1>8. ASSUME NEW x \in 0 .. n - 1
        PROVE  /\ pos <= x => l[x + 2] = q.list[x + 1]
               /\ ~(pos <= x) => l[x + 1] = q.list[x + 1]
    <2>1. x \in Int /\ x >= 0 /\ x <= n - 1 /\ x + 2 - 1 = x + 1
          /\ x + 2 \in 1 .. n + 1 /\ x + 1 \in 1 .. n + 1
      BY <1>1, SMT
    <2>2. CASE pos <= x
      <3>1. ~(x + 2 < pos + 1) /\ x + 2 # pos + 1
        BY <1>2, <2>1, <2>2, SMT
      <3>2. QED
        BY <1>4, <2>1, <2>2, <3>1, SMTT(30)
    <2>3. CASE ~(pos <= x)
      <3>1. x + 1 < pos + 1
        BY <1>2, <2>1, <2>3, SMT
      <3>2. QED
        BY <1>4, <2>1, <2>3, <3>1
    <2>4. QED
      BY <2>2, <2>3
  <1>9. QED
    BY <1>4, <1>6, <1>7, <1>8 DEF a, pos, n

\* A new track is put in while another one plays.
LEMMA InsertedStays ==
    ASSUME NEW p, GoodPlaylist(p), p.started, HasCurrent(p),
           NEW orig \in Positions, NEW r \in Offsets(p)
    PROVE  PlaysNow(AddTrack(p, New, orig, r).list, Current(p))
  <1> DEFINE n == Len(p.list)
             x == p.index
             pos == Position(p, orig, r)
             a == AddTrack(p, New, orig, r).list
  <1>1. /\ n \in Nat /\ p.index \in Int /\ p.first \in Int /\ p.last \in Int
        /\ p.first >= 0 /\ p.first <= n
    BY ListTypes
  <1>2. x \in 0 .. n - 1 /\ x >= 0 /\ x <= n - 1 /\ n > 0 /\ Current(p) = p.list[x + 1]
    BY <1>1, SMT DEF HasCurrent, Amount, Current, At
  <1>3. orig \in Int /\ orig < 0 /\ orig # PREPEND /\ orig # INSERT_LAST_ROTATED
    BY SMT DEF Positions, INSERT, INSERT_LAST, INSERT_FIRST, INSERT_SHUFFLED, PREPEND,
               INSERT_LAST_ROTATED
  <1>4. pos \in 0 .. n
    <2>1. CASE orig = INSERT_LAST
      BY <1>1, <1>3, <2>1, PositionFacts, SMT
    <2>2. CASE orig = INSERT_FIRST
      BY <1>1, <1>2, <1>3, <2>2, PositionFacts, SMT
    <2>3. CASE orig = INSERT
      BY <1>1, <1>2, <1>3, <2>3, PositionFacts, SMT
    <2>4. CASE orig = INSERT_SHUFFLED
      <3>1. pos = RandomPlace(p, r)
        BY <1>3, <2>4, PositionFacts
      <3>2. Rotate(p, p.index) \in 0 .. n - 1
        BY <1>2, RotateFacts
      <3>3. r \in Int /\ r >= 0 /\ r <= n - 1
        BY <1>1, <3>2, SMT DEF Offsets, Amount
      <3>4. RandomPlace(p, r) \in 0 .. n
        BY <1>1, <1>2, <3>3, SMTT(30) DEF RandomPlace
      <3>5. QED
        BY <3>1, <3>4
    <2>5. QED
      BY <2>1, <2>2, <2>3, <2>4 DEF Positions
  <1>5. /\ Len(a.list) = n + 1
        /\ pos <= x => a.list[x + 2] = p.list[x + 1]
        /\ ~(pos <= x) => a.list[x + 1] = p.list[x + 1]
        /\ a.index = IndexAfter(p, orig, pos)
    <2>1. /\ Len(a.list) = n + 1 /\ a.index = IndexAfter(p, orig, pos)
          /\ \A y \in 0 .. n - 1 :
               /\ pos <= y => a.list[y + 2] = p.list[y + 1]
               /\ ~(pos <= y) => a.list[y + 1] = p.list[y + 1]
      BY <1>3, <1>4, NewAdded
    <2> HIDE DEF a, pos, n
    <2>2. QED
      BY <1>2, <2>1
  <1>6. a.index = IF pos <= x THEN x + 1 ELSE x
    BY <1>2, <1>3, <1>5 DEF IndexAfter, IsPlaying
  <1> HIDE DEF a, pos
  <1>7. a.index \in 0 .. n /\ a.index \in 0 .. Len(a.list) - 1
    BY <1>1, <1>2, <1>5, <1>6, SMTT(30)
  <1>8. a.list[a.index + 1] = p.list[x + 1]
    <2>1. (x + 1) + 1 = x + 2
      BY <1>1, SMT
    <2>2. QED
      BY <1>5, <1>6, <2>1
  <1>9. QED
    BY <1>2, <1>7, <1>8 DEF PlaysNow, HasCurrent, Current, At, Amount, a

\* Another one than the track that plays is removed.
LEMMA RemovedStays ==
    ASSUME NEW p, GoodPlaylist(p), HasCurrent(p), NEW i \in 0 .. Len(p.list) - 1, i # p.index
    PROVE  PlaysNow(RemoveTrack(p, i), Current(p))
  <1> DEFINE n == Len(p.list)
             x == p.index
             q == RemoveTrack(p, i)
  <1>1. n \in Nat /\ x \in Int /\ i \in Int /\ i >= 0 /\ i <= n - 1
    BY ListTypes, SMT
  <1>2. x >= 0 /\ x <= n - 1 /\ Current(p) = p.list[x + 1]
    BY <1>1, SMT DEF HasCurrent, Amount, Current, At
  <1>3. /\ q.index = IF i < x THEN x - 1 ELSE x
        /\ Len(q.list) = n - 1
        /\ \A j \in 1 .. (n - 1) :
             q.list[j] = IF j < i + 1 THEN p.list[j] ELSE p.list[j + 1]
    BY Removed
  <1> HIDE DEF q, n
  <1>4. CASE i < x
    <2>1. x \in 1 .. (n - 1) /\ ~(x < i + 1) /\ q.index + 1 = x /\ q.index \in 0 .. (n - 1) - 1
      BY <1>1, <1>2, <1>3, <1>4, SMTT(30)
    <2>2. q.list[q.index + 1] = p.list[x + 1]
      BY <1>3, <2>1
    <2>3. QED
      BY <1>2, <1>3, <2>1, <2>2 DEF PlaysNow, HasCurrent, Current, At, Amount, q
  <1>5. CASE ~(i < x)
    <2>1. /\ x + 1 \in 1 .. (n - 1) /\ x + 1 < i + 1 /\ q.index = x
          /\ q.index \in 0 .. (n - 1) - 1
      BY <1>1, <1>2, <1>3, <1>5, SMT
    <2>2. q.list[q.index + 1] = p.list[x + 1]
      BY <1>3, <2>1
    <2>3. QED
      BY <1>2, <1>3, <2>1, <2>2 DEF PlaysNow, HasCurrent, Current, At, Amount, q
  <1>6. QED
    BY <1>4, <1>5

\* Numbers only: y is the current place and x what it is after place i has been
\* removed, F and f are the first places before and after, r is the place to move
\* to as displayed and k the one in the array.
LEMMA ShiftAgrees ==
    ASSUME NEW n \in Nat \ {0}, NEW i \in 0 .. n, NEW y \in 0 .. n, i # y,
           NEW F \in 0 .. n + 1, NEW r \in 1 .. n - 1,
           NEW f \in Int, f = IF i < F THEN F - 1 ELSE F,
           NEW x \in Int, x = IF i < y THEN y - 1 ELSE y,
           NEW k \in Int, k = IF r + f < n THEN r + f ELSE r + f - n,
           NEW from \in Int, from = IF i < F THEN i - F + (n + 1) ELSE i - F,
           NEW cur \in Int, cur = IF y < F THEN y - F + (n + 1) ELSE y - F
    PROVE  /\ k >= f /\ x < f => ~(k <= x)
           /\ ~(k < f /\ k <= x) /\ ~(k >= f /\ x < f) =>
                 ((\/ from > cur /\ r <= cur
                   \/ from < cur /\ r < cur) <=> k <= x)
  BY SMT

\* The index follows a move exactly if the track is put in front of the current
\* one that was not there before.
LEMMA ShiftsRight ==
    ASSUME NEW p, GoodPlaylist(p), HasCurrent(p), NEW i \in 0 .. Len(p.list) - 1,
           NEW j \in 0 .. Len(p.list) - 1, i # j, i # p.index
    PROVE  /\ MoveAs(p, i, j) = INSERT_LAST => ~MoveShifts(p, i, j)
           /\ MoveAs(p, i, j) >= 0 =>
                 (MoveShifts(p, i, j) <=> MovePlace(p, i, j) <= RemoveTrack(p, i).index)
  <1> DEFINE n == Len(p.list) - 1
             q == RemoveTrack(p, i)
             y == p.index
             x == q.index
             f == q.first
             r == Rotate(p, j)
             k == MovePlace(p, i, j)
             to == MoveAs(p, i, j)
             from == Rotate(p, i)
             cur == Rotate(p, y)
  <1>1. /\ Len(p.list) \in Nat /\ y \in Int /\ p.first \in Int /\ p.first >= 0
        /\ p.first <= Len(p.list) /\ i \in Int
    BY ListTypes, SMT
  <1>2. y \in 0 .. n /\ i \in 0 .. n /\ n + 1 = Len(p.list) /\ p.first \in 0 .. n + 1
    BY <1>1, SMT DEF HasCurrent, Amount
  <1>3. /\ n \in Nat \ {0} /\ k \in 0 .. n - 1 /\ r \in 0 .. n
        /\ r < n => k = IF r + f < n THEN r + f ELSE r + f - n
        /\ \/ r = 0 /\ to = PREPEND
           \/ r = n /\ to = INSERT_LAST
           \/ r \in 1 .. n - 1 /\ to = k /\ to >= 0
    BY MoveCases
  <1>4. /\ x = IF i < y THEN y - 1 ELSE y
        /\ f = IF i < p.first THEN p.first - 1 ELSE p.first
    BY Removed
  <1>5. /\ from = IF i < p.first THEN i - p.first + (n + 1) ELSE i - p.first
        /\ cur = IF y < p.first THEN y - p.first + (n + 1) ELSE y - p.first
    BY <1>2 DEF Rotate, Amount
  <1>6. /\ MoveShifts(p, i, j) <=>
              IF to >= 0 /\ k < f /\ k <= x THEN TRUE
              ELSE IF to >= 0 /\ k >= f /\ x < f THEN FALSE
              ELSE (from > cur /\ r <= cur) \/ (from < cur /\ r < cur)
    BY DEF MoveShifts, Displaced
  <1>7. from \in 0 .. n /\ cur \in 0 .. n
    <2>1. y \in 0 .. Len(p.list) - 1
      BY <1>2
    <2>2. QED
      BY <2>1, RotateFacts
  <1> HIDE DEF n, q, r, k, to, from, cur, x, f, y
  <1>8. CASE to = INSERT_LAST
    <2>1. ~(to >= 0) /\ PREPEND # INSERT_LAST
      BY <1>8, SMT DEF INSERT_LAST, PREPEND
    <2>2. r = n
      BY <1>3, <1>8, <2>1
    <2>3. from \in Int /\ from <= n /\ cur \in Int /\ cur <= n
      BY <1>3, <1>7, SMT
    <2>4. ~(from > cur /\ n <= cur) /\ ~(from < cur /\ n < cur)
      BY <1>3, <2>3, SMT
    <2>5. ~MoveShifts(p, i, j)
      BY <1>6, <2>1, <2>2, <2>4
    <2>6. QED
      BY <1>8, <2>1, <2>5 DEF to
  <1>9. CASE to >= 0
    <2>1. r \in 1 .. n - 1 /\ to = k
      BY <1>3, <1>9, SMT DEF PREPEND, INSERT_LAST
    <2>2. k = IF r + f < n THEN r + f ELSE r + f - n
      BY <1>3, <2>1, SMT
    <2>3. f \in Int /\ x \in Int /\ k \in Int /\ from \in Int /\ cur \in Int
      <3>1. f \in Int /\ x \in Int
        BY <1>1, <1>4, SMT
      <3>2. QED
        BY <1>3, <1>7, <3>1, SMT
    <2>4. i # y
      BY DEF y
    <2>5. /\ k >= f /\ x < f => ~(k <= x)
          /\ ~(k < f /\ k <= x) /\ ~(k >= f /\ x < f) =>
                ((\/ from > cur /\ r <= cur
                  \/ from < cur /\ r < cur) <=> k <= x)
      <3> DEFINE F == p.first
      <3>1. /\ F \in 0 .. n + 1 /\ f = IF i < F THEN F - 1 ELSE F
            /\ from = IF i < F THEN i - F + (n + 1) ELSE i - F
            /\ cur = IF y < F THEN y - F + (n + 1) ELSE y - F
        BY <1>2, <1>4, <1>5
      <3>2. /\ n \in Nat \ {0} /\ i \in 0 .. n /\ y \in 0 .. n
            /\ x = IF i < y THEN y - 1 ELSE y
        BY <1>2, <1>3, <1>4
      <3> HIDE DEF F
      <3>3. QED
        BY <2>1, <2>2, <2>3, <2>4, <3>1, <3>2, ShiftAgrees
    <2>6. MoveShifts(p, i, j) <=> k <= x
      BY <1>6, <1>9, <2>5
    <2>7. to # INSERT_LAST
      BY <1>9, SMT DEF INSERT_LAST
    <2>8. QED
      BY <2>6, <2>7 DEF to, k, x, q
  <1>10. CASE to # INSERT_LAST /\ ~(to >= 0)
    BY <1>10 DEF to
  <1>11. QED
    BY <1>8, <1>9, <1>10

\* What a move makes of the list: that of the addition, with the index set.
LEMMA MovedList ==
    ASSUME NEW p, GoodPlaylist(p), NEW i \in 0 .. Len(p.list) - 1,
           NEW j \in 0 .. Len(p.list) - 1, i # j
    PROVE  LET q == RemoveTrack(p, i)
               n == Len(p.list) - 1
               to == MoveAs(p, i, j)
               pos == Position(q, to, 0)
               a == Readded(p, i, j, New).list
               m == Moved(p, i, j, New).list
           IN  /\ m.list = a.list /\ m.index = MoveIndex(p, i, j, a) /\ m.first = a.first
               /\ m \in AnyLists
               /\ Len(a.list) = n + 1 /\ pos \in 0 .. n
               /\ a.list[pos + 1] = New
               /\ \A x \in 0 .. n - 1 :
                    /\ pos <= x => a.list[x + 2] = q.list[x + 1]
                    /\ ~(pos <= x) => a.list[x + 1] = q.list[x + 1]
               /\ a.index = IndexAfter(q, to, pos) /\ a.first = FirstAfter(q, to, pos)
  <1> DEFINE q == RemoveTrack(p, i)
             n == Len(p.list) - 1
             to == MoveAs(p, i, j)
             pos == Position(q, to, 0)
             a == Readded(p, i, j, New).list
             m == Moved(p, i, j, New).list
             y == MoveIndex(p, i, j, a)
  <1>1. GoodPlaylist(q) /\ Len(q.list) = n /\ to \in Int /\ pos \in 0 .. n
    BY MoveCases
  <1>2. a = AddTrack(q, New, to, 0).list
    BY DEF Readded
  <1>3. m = [a EXCEPT !.index = y]
    BY MovedParts
  <1> HIDE DEF q, n, to, a, m, y
  <1>4. /\ a \in AnyLists /\ Len(a.list) = n + 1
        /\ a.list[pos + 1] = New
        /\ \A x \in 0 .. n - 1 :
             /\ pos <= x => a.list[x + 2] = q.list[x + 1]
             /\ ~(pos <= x) => a.list[x + 1] = q.list[x + 1]
        /\ a.index = IndexAfter(q, to, pos) /\ a.first = FirstAfter(q, to, pos)
    <2>1. pos \in 0 .. Len(q.list)
      BY <1>1
    <2> DEFINE b == AddTrack(q, New, to, 0).list
    <2>2. /\ b \in AnyLists /\ Len(b.list) = Len(q.list) + 1
          /\ b.list[pos + 1] = New
          /\ \A x \in 0 .. Len(q.list) - 1 :
               /\ pos <= x => b.list[x + 2] = q.list[x + 1]
               /\ ~(pos <= x) => b.list[x + 1] = q.list[x + 1]
          /\ b.index = IndexAfter(q, to, pos) /\ b.first = FirstAfter(q, to, pos)
      BY <1>1, <2>1, NewAdded
    <2> HIDE DEF b, pos
    <2>3. QED
      BY <1>1, <1>2, <2>2 DEF b
  <1>5. m.list = a.list /\ m.index = y /\ m.first = a.first
    BY <1>3, <1>4 DEF AnyLists
  <1>6. m \in AnyLists
    <2>1. a.index \in Int /\ a.first \in Int
      BY <1>4 DEF AnyLists
    <2>2. y \in Int
      <3>1. n \in Nat /\ MovePlace(p, i, j) \in Int
        BY MoveCases, SMT DEF n
      <3>2. (a.first - 1) % (n + 1) \in Int
        BY <2>1, <3>1, SMT
      <3>3. Amount(q) = n
        BY <1>1 DEF Amount
      <3>4. QED
        BY <2>1, <3>1, <3>2, <3>3 DEF MoveIndex, y, q
    <2>3. QED
      BY <1>3, <1>4, <2>2 DEF AnyLists
  <1>7. QED
    BY <1>1, <1>4, <1>5, <1>6 DEF q, n, to, a, m, y

\* Another one than the track that plays is moved.
LEMMA MovedStays ==
    ASSUME NEW p, GoodPlaylist(p), p.started, HasCurrent(p),
           NEW i \in 0 .. Len(p.list) - 1, NEW j \in 0 .. Len(p.list) - 1,
           i # j, i # p.index
    PROVE  PlaysNow(Moved(p, i, j, New).list, Current(p))
  <1> DEFINE q == RemoveTrack(p, i)
             n == Len(p.list) - 1
             to == MoveAs(p, i, j)
             pos == Position(q, to, 0)
             a == Readded(p, i, j, New).list
             m == Moved(p, i, j, New).list
             x == q.index
  <1>1. /\ m.list = a.list /\ m.index = MoveIndex(p, i, j, a)
        /\ Len(a.list) = n + 1 /\ pos \in 0 .. n
        /\ \A y \in 0 .. n - 1 :
             /\ pos <= y => a.list[y + 2] = q.list[y + 1]
             /\ ~(pos <= y) => a.list[y + 1] = q.list[y + 1]
        /\ a.index = IndexAfter(q, to, pos)
    BY MovedList, ZenonT(30)
  <1>2. /\ n \in Nat \ {0} /\ Len(q.list) = n
        /\ \/ to = PREPEND
           \/ to = INSERT_LAST
           \/ to = MovePlace(p, i, j) /\ to >= 0 /\ pos = MovePlace(p, i, j)
    BY MoveCases
  <1>3. PlaysNow(q, Current(p))
    BY RemovedStays
  <1>4. q.started
    <2>1. q.started = p.started
      BY Removed
    <2>2. QED
      BY <2>1
  <1>5. x \in 0 .. n - 1 /\ q.list[x + 1] = Current(p)
    BY <1>2, <1>3 DEF PlaysNow, HasCurrent, Current, At, Amount
  <1>6. /\ to = INSERT_LAST => ~MoveShifts(p, i, j)
        /\ to >= 0 => (MoveShifts(p, i, j) <=> MovePlace(p, i, j) <= x)
    BY ShiftsRight
  <1>7. m.index = IF MoveShifts(p, i, j) /\ to # PREPEND THEN a.index + 1 ELSE a.index
    BY <1>1 DEF MoveIndex
  <1> HIDE DEF q, n, to, pos, a, m, x
  <1>8. n > 0 /\ x \in Int /\ x >= 0 /\ x <= n - 1 /\ pos \in Int
    BY <1>1, <1>2, <1>5, SMT
  <1>9. m.index = IF pos <= x THEN x + 1 ELSE x
    <2>1. a.index = IF to < 0 /\ to # INSERT_LAST_ROTATED /\ pos <= x THEN x + 1 ELSE x
      BY <1>1, <1>2, <1>4, <1>8 DEF IndexAfter, IsPlaying, x
    <2>2. CASE to = PREPEND
      <3>1. to < 0 /\ to # INSERT_LAST_ROTATED
        BY <2>2, SMT DEF PREPEND, INSERT_LAST_ROTATED
      <3>2. QED
        BY <1>7, <2>1, <2>2, <3>1
    <2>3. CASE to = INSERT_LAST
      <3>1. to < 0 /\ to # INSERT_LAST_ROTATED
        BY <2>3, SMT DEF INSERT_LAST, INSERT_LAST_ROTATED
      <3>2. QED
        BY <1>6, <1>7, <2>1, <2>3, <3>1
    <2>4. CASE to = MovePlace(p, i, j) /\ to >= 0 /\ pos = MovePlace(p, i, j)
      <3>1. ~(to < 0) /\ to # PREPEND
        BY <1>1, <2>4, SMT DEF PREPEND
      <3>2. a.index = x
        BY <2>1, <3>1
      <3>3. QED
        BY <1>6, <1>7, <2>4, <3>1, <3>2
    <2>5. QED
      BY <1>2, <2>2, <2>3, <2>4
  <1>10. m.index \in 0 .. (n + 1) - 1 /\ (x + 1) + 1 = x + 2
    BY <1>2, <1>8, <1>9, SMT
  <1>11. m.list[m.index + 1] = Current(p)
    BY <1>1, <1>5, <1>9, <1>10
  <1>12. QED
    BY <1>1, <1>10, <1>11 DEF PlaysNow, HasCurrent, Current, At, Amount, m

\* The track that plays is moved itself.
LEMMA MovedGoes ==
    ASSUME NEW p, GoodPlaylist(p), p.started, HasCurrent(p),
           NEW j \in 0 .. Len(p.list) - 1, p.index # j
    PROVE  PlaysNow(Moved(p, p.index, j, New).list, New)
  <1> DEFINE i == p.index
             q == RemoveTrack(p, i)
             n == Len(p.list) - 1
             to == MoveAs(p, i, j)
             pos == Position(q, to, 0)
             a == Readded(p, i, j, New).list
             m == Moved(p, i, j, New).list
  <1>0. i \in 0 .. Len(p.list) - 1 /\ i # j
    BY DEF HasCurrent, Amount
  <1>1. /\ m.list = a.list /\ m.index = MoveIndex(p, i, j, a)
        /\ Len(a.list) = n + 1 /\ pos \in 0 .. n
        /\ a.list[pos + 1] = New
        /\ a.first = FirstAfter(q, to, pos)
    BY <1>0, MovedList, SMTT(30)
  <1>2. /\ n \in Nat \ {0} /\ Len(q.list) = n /\ GoodPlaylist(q)
        /\ \/ to = PREPEND /\ pos = q.first
           \/ to = INSERT_LAST /\ pos = IF q.first <= 0 THEN n ELSE q.first
           \/ to = MovePlace(p, i, j) /\ to >= 0 /\ pos = MovePlace(p, i, j)
    BY <1>0, MoveCases
  <1>3. q.started
    <2>1. q.started = p.started
      BY <1>0, Removed
    <2>2. QED
      BY <2>1
  <1>4. q.first \in Int /\ q.first >= 0 /\ q.first <= n /\ n > 0 /\ pos \in Int
    <2> HIDE DEF q, n, pos, to, a, m
    <2>1. q.first \in Int /\ q.first >= 0 /\ q.first <= n
      BY <1>2, ListTypes
    <2>2. n > 0 /\ pos \in Int
      BY <1>1, <1>2, SMT
    <2>3. QED
      BY <2>1, <2>2
  <1>5. m.index = CASE to = PREPEND -> a.first
                    [] to = INSERT_LAST -> (a.first - 1) % (n + 1)
                    [] OTHER -> MovePlace(p, i, j)
    BY <1>1, <1>2 DEF MoveIndex, Amount
  <1> HIDE DEF q, n, to, pos, a, m, i
  <1>6. a.first = IF \/ to >= 0 /\ pos < q.first
                     \/ to < 0 /\ to # PREPEND /\ pos <= q.first
                  THEN q.first + 1 ELSE q.first
    BY <1>1, <1>2, <1>3, <1>4 DEF FirstAfter, IsPlaying
  <1>7. m.index = pos
    <2>1. CASE to = PREPEND
      <3>1. ~(to >= 0) /\ PREPEND # INSERT_LAST /\ ~(PREPEND >= 0)
        BY <2>1, SMT DEF PREPEND, INSERT_LAST
      <3>2. QED
        BY <1>2, <1>5, <1>6, <2>1, <3>1
    <2>2. CASE to = INSERT_LAST
      <3>1. ~(to >= 0) /\ to < 0 /\ to # PREPEND
        BY <2>2, SMT DEF PREPEND, INSERT_LAST
      <3>2. pos = IF q.first <= 0 THEN n ELSE q.first
        BY <1>2, <2>2, <3>1
      <3>3. a.first = IF pos <= q.first THEN q.first + 1 ELSE q.first
        BY <1>6, <3>1
      <3>4. m.index = (a.first - 1) % (n + 1)
        BY <1>5, <2>2, <3>1
      <3>5. CASE q.first = 0
        <4>1. pos = n /\ a.first - 1 = -1 /\ n + 1 \in Nat \ {0}
          BY <1>2, <1>4, <3>2, <3>3, <3>5, SMT
        <4>2. (-1) % (n + 1) = n
          <5>1. n \in 0 .. (n + 1) - 1 /\ -1 \in Int /\ (n + 1) * (-1) + n = -1
            BY <1>2, SMT
          <5>2. ((n + 1) * (-1) + n) % (n + 1) = n
            BY <4>1, <5>1, ModUnique
          <5>3. QED
            BY <5>1, <5>2
        <4>3. QED
          BY <3>4, <4>1, <4>2
      <3>6. CASE q.first > 0
        <4>1. pos = q.first /\ a.first - 1 = pos /\ n + 1 \in Nat \ {0}
              /\ pos \in 0 .. (n + 1) - 1
          BY <1>2, <1>4, <3>2, <3>3, <3>6, SMT
        <4>2. pos % (n + 1) = pos
          <5>1. 0 \in Int /\ (n + 1) * 0 + pos = pos
            BY <1>2, <1>4, SMT
          <5>2. ((n + 1) * 0 + pos) % (n + 1) = pos
            BY <4>1, <5>1, ModUnique
          <5>3. QED
            BY <5>1, <5>2
        <4>3. QED
          BY <3>4, <4>1, <4>2
      <3>7. QED
        BY <1>4, <3>5, <3>6, SMT
    <2>3. CASE to = MovePlace(p, i, j) /\ to >= 0 /\ pos = MovePlace(p, i, j)
      <3>1. to # PREPEND /\ to # INSERT_LAST
        BY <2>3, SMT DEF PREPEND, INSERT_LAST
      <3>2. QED
        BY <1>5, <2>3, <3>1
    <2>4. QED
      BY <1>2, <2>1, <2>2, <2>3
  <1>8. m.index \in 0 .. (n + 1) - 1
    BY <1>1, <1>2, <1>7, SMT
  <1>9. QED
    BY <1>1, <1>7, <1>8 DEF PlaysNow, HasCurrent, Current, At, Amount, m, i

\* The list is sorted or shuffled.
LEMMA OrderedStays ==
    ASSUME NEW p, GoodPlaylist(p), HasCurrent(p), NEW l, Reordered(p.list, l)
    PROVE  PlaysNow(FindAndSet(p, l, TRUE), Current(p))
  <1>1. \A c \in BOOLEAN : c => PlaysNow(FindAndSet(p, l, c), Current(p))
    BY Found DEF PlaysNow
  <1>2. QED
    BY <1>1, Zenon

\* What the invariant says of the track that plays.
LEMMA InvariantKeepsCurrent == IInv => CurrentStays
  <1> DEFINE p == playlist
             n == Len(playlist.list)
             others == Indices \ {playlist.index}
             MovedFrom(i) == {Moved(playlist, i, j, New).list : j \in Indices \ {i}}
             orders == {SortedList(playlist.list)} \cup
                       {Randomised(playlist.list, s) : s \in Seeds}
             inserted == {Inserted(orig, r) : orig \in Positions, r \in Offsets(playlist)}
             removed == {RemoveTrack(playlist, i) : i \in others}
             moved == UNION {MovedFrom(i) : i \in others}
             ordered == {FindAndSet(playlist, list, TRUE) : list \in orders}
  <1>1. CurrentStays <=>
           (Playing =>
              /\ \A q \in inserted \cup removed \cup moved \cup ordered :
                    PlaysNow(q, Current(playlist))
              /\ \A q \in MovedFrom(playlist.index) : PlaysNow(q, New))
    BY DEF CurrentStays, PlaysNow
  <1> HIDE DEF MovedFrom, inserted, removed, moved, ordered
  <1> SUFFICES ASSUME IInv, Playing
               PROVE  /\ \A q \in inserted \cup removed \cup moved \cup ordered :
                            PlaysNow(q, Current(playlist))
                      /\ \A q \in MovedFrom(playlist.index) : PlaysNow(q, New)
    BY <1>1
  <1> USE DEF MovedFrom, inserted, removed, moved, ordered
  <1>2. GoodPlaylist(p) /\ p.started /\ HasCurrent(p)
    BY DEF IInv, Playing
  <1>3. Indices = 0 .. n - 1 /\ p.index \in Indices
    BY <1>2 DEF Indices, Amount, HasCurrent
  <1>4. ASSUME NEW orig \in Positions, NEW r \in Offsets(playlist)
        PROVE  PlaysNow(Inserted(orig, r), Current(p))
    BY <1>2, InsertedStays DEF Inserted
  <1>5. ASSUME NEW i \in others PROVE PlaysNow(RemoveTrack(p, i), Current(p))
    BY <1>2, <1>3, RemovedStays
  <1>6. ASSUME NEW i \in others, NEW j \in Indices \ {i}
        PROVE  PlaysNow(Moved(p, i, j, New).list, Current(p))
    BY <1>2, <1>3, MovedStays
  <1>7. ASSUME NEW j \in Indices \ {p.index}
        PROVE  PlaysNow(Moved(p, p.index, j, New).list, New)
    BY <1>2, <1>3, MovedGoes
  <1>8. ASSUME NEW l \in orders PROVE PlaysNow(FindAndSet(p, l, TRUE), Current(p))
    <2>1. Reordered(p.list, l)
      BY <1>2, ListTypes, Sorted, Shuffled
    <2>2. QED
      BY <1>2, <2>1, OrderedStays
  <1> HIDE DEF n, others, orders
  <1>9. \A q \in inserted : PlaysNow(q, Current(playlist))
    BY <1>4
  <1>10. \A q \in removed : PlaysNow(q, Current(playlist))
    BY <1>5
  <1>11. \A q \in moved : PlaysNow(q, Current(playlist))
    BY <1>6
  <1>12. \A q \in ordered : PlaysNow(q, Current(playlist))
    BY <1>8
  <1>13. \A q \in MovedFrom(playlist.index) : PlaysNow(q, New)
    BY <1>7
  <1> HIDE DEF inserted, removed, moved, ordered, MovedFrom
  <1>14. QED
    BY <1>9, <1>10, <1>11, <1>12, <1>13

-------------------------------------------------------------------------------
(* The list as displayed.                                                    *)

\* Where an array of n that begins at f has what is displayed at k, counted from 1
Turned(f, n, k) == IF f + k <= n THEN f + k ELSE f + k - n
Shown(p, k) == Turned(p.first, Len(p.list), k)

\* What is displayed is the array, begun at first_index.
LEMMA DisplayedFacts ==
    ASSUME NEW p \in AnyLists, p.first \in 0 .. Len(p.list)
    PROVE  /\ Displayed(p) \in Seq(AnyTrack) /\ Len(p.list) \in Nat
           /\ Len(Displayed(p)) = Len(p.list)
           /\ \A k \in 1 .. Len(p.list) :
                Shown(p, k) \in 1 .. Len(p.list) /\ Displayed(p)[k] = p.list[Shown(p, k)]
  <1> DEFINE n == Len(p.list)
             f == p.first
             d == Displayed(p)
  <1>1. /\ p.list \in Seq(AnyTrack) /\ n \in Nat
        /\ \A k \in 1 .. n : p.list[k] \in AnyTrack
    BY LenProperties, ElementOfSeq DEF AnyLists
  <1>2. d = [k \in 1 .. n |-> p.list[((f + k - 1) % n) + 1]]
    BY DEF Displayed, Amount, At
  <1> HIDE DEF d
  <1>3. ASSUME NEW k \in 1 .. n
        PROVE  Shown(p, k) \in 1 .. n /\ d[k] = p.list[Shown(p, k)]
    <2>1. n \in Nat \ {0}
      BY <1>1, SMT
    <2>2. ((f + k - 1) % n) + 1 = Shown(p, k) /\ Shown(p, k) \in 1 .. n
      <3> HIDE DEF n, f
      <3>1. Shown(p, k) = IF f + k <= n THEN f + k ELSE f + k - n
        BY DEF Shown, Turned, f, n
      <3>2. f \in Int /\ f >= 0 /\ f <= n
        BY <1>1, SMT DEF f, n
      <3>3. CASE f + k <= n
        <4>1. f + k - 1 = n * 0 + (f + k - 1) /\ f + k - 1 \in 0 .. n - 1 /\ 0 \in Int
          BY <2>1, <3>2, <3>3, SMT
        <4>2. (n * 0 + (f + k - 1)) % n = f + k - 1
          BY <2>1, <4>1, ModUnique
        <4>3. f + k - 1 + 1 = f + k /\ f + k \in 1 .. n
          BY <3>2, <3>3, SMT
        <4>4. QED
          BY <3>1, <3>3, <4>1, <4>2, <4>3
      <3>4. CASE ~(f + k <= n)
        <4>1. /\ f + k - 1 = n * 1 + (f + k - 1 - n) /\ f + k - 1 - n \in 0 .. n - 1
              /\ 1 \in Int
          BY <2>1, <3>2, <3>4, SMT
        <4>2. (n * 1 + (f + k - 1 - n)) % n = f + k - 1 - n
          BY <2>1, <4>1, ModUnique
        <4>3. f + k - 1 - n + 1 = f + k - n /\ f + k - n \in 1 .. n
          BY <2>1, <3>2, <3>4, SMT
        <4>4. QED
          BY <3>1, <3>4, <4>1, <4>2, <4>3
      <3>5. QED
        BY <3>3, <3>4
    <2>3. QED
      BY <1>2, <2>2
  <1>4. d \in [1 .. n -> AnyTrack]
    BY <1>1, <1>2, <1>3
  <1>5. d \in Seq(AnyTrack) /\ Len(d) = n
    BY <1>1, <1>4, Listed
  <1>6. QED
    BY <1>1, <1>3, <1>5 DEF d

\* Numbers only: where the array has what is displayed at j, after something has
\* been put in at place pos, that is, as the d-th displayed.  The array began at f
\* and begins at g then.
PutInPlaces(n, f, g, pos, d) ==
    /\ d \in 0 .. n /\ g \in 0 .. n + 1
    /\ Turned(g, n + 1, d + 1) = pos + 1
    /\ \A j \in 1 .. d :
         /\ Turned(f, n, j) - 1 \in 0 .. n - 1 /\ j \in 1 .. n
         /\ Turned(g, n + 1, j) = IF pos <= Turned(f, n, j) - 1
                                  THEN Turned(f, n, j) + 1 ELSE Turned(f, n, j)
    /\ \A j \in d + 2 .. n + 1 :
         /\ Turned(f, n, j - 1) - 1 \in 0 .. n - 1 /\ j - 1 \in 1 .. n
         /\ Turned(g, n + 1, j) = IF pos <= Turned(f, n, j - 1) - 1
                                  THEN Turned(f, n, j - 1) + 1 ELSE Turned(f, n, j - 1)

LEMMA InsertPlaces ==
    ASSUME NEW n \in Nat, NEW f \in 0 .. n, NEW g \in Int, NEW pos \in 0 .. n, NEW d \in Int,
           \/ g = f + 1 /\ pos <= f /\ d = pos - f + n
           \/ g = f /\ pos >= f /\ d = pos - f
    PROVE  PutInPlaces(n, f, g, pos, d)
  <1>1. CASE g = f + 1 /\ pos <= f /\ d = pos - f + n
    BY <1>1, SMT DEF Turned, PutInPlaces
  <1>2. CASE g = f /\ pos >= f /\ d = pos - f
    BY <1>2, SMT DEF Turned, PutInPlaces
  <1>3. QED
    BY <1>1, <1>2

\* InsertAt once more, in a word
PutAt(S, s, k, e) ==
    /\ InsertAt(s, k, e) \in Seq(S) /\ Len(InsertAt(s, k, e)) = Len(s) + 1
    /\ \A j \in 1 .. Len(s) + 1 :
         InsertAt(s, k, e)[j] = IF j < k THEN s[j] ELSE IF j = k THEN e ELSE s[j - 1]
LEMMA PutAtFacts ==
    ASSUME NEW S, NEW s \in Seq(S), NEW k \in 1 .. Len(s) + 1, NEW e \in S
    PROVE  PutAt(S, s, k, e)
  <1>1. /\ InsertAt(s, k, e) \in Seq(S) /\ Len(InsertAt(s, k, e)) = Len(s) + 1
        /\ \A j \in 1 .. Len(s) + 1 :
             InsertAt(s, k, e)[j] =
                IF j < k THEN s[j] ELSE IF j = k THEN e ELSE s[j - 1]
    BY InsertAtFacts
  <1>2. QED
    BY <1>1 DEF PutAt

\* A track that is put in is displayed as the d-th, and the order of the others
\* stays.
LEMMA InsertShown ==
    ASSUME NEW p \in Lists, p.first \in 0 .. Len(p.list),
           NEW a \in AnyLists, Len(a.list) = Len(p.list) + 1,
           NEW pos \in 0 .. Len(p.list), a.list[pos + 1] = New,
           \A x \in 0 .. Len(p.list) - 1 :
              /\ pos <= x => a.list[x + 2] = p.list[x + 1]
              /\ ~(pos <= x) => a.list[x + 1] = p.list[x + 1],
           NEW d \in Int,
           \/ a.first = p.first + 1 /\ pos <= p.first /\ d = pos - p.first + Len(p.list)
           \/ a.first = p.first /\ pos >= p.first /\ d = pos - p.first
    PROVE  /\ d \in 0 .. Len(p.list)
           /\ Displayed(a) = InsertAt(Displayed(p), d + 1, New)
  <1> DEFINE n == Len(p.list)
             f == p.first
             g == a.first
             s == Displayed(p)
             t == Displayed(a)
             u == InsertAt(s, d + 1, New)
  <1>1. /\ p \in AnyLists /\ s \in Seq(AnyTrack) /\ n \in Nat /\ Len(s) = n
        /\ \A k \in 1 .. n : Turned(f, n, k) \in 1 .. n /\ s[k] = p.list[Turned(f, n, k)]
    BY AnyIsMore, DisplayedFacts DEF Shown
  <1>2. /\ d \in 0 .. n /\ g \in 0 .. n + 1
        /\ Turned(g, n + 1, d + 1) = pos + 1
        /\ \A j \in 1 .. d :
             /\ Turned(f, n, j) - 1 \in 0 .. n - 1 /\ j \in 1 .. n
             /\ Turned(g, n + 1, j) = IF pos <= Turned(f, n, j) - 1
                                      THEN Turned(f, n, j) + 1 ELSE Turned(f, n, j)
        /\ \A j \in d + 2 .. n + 1 :
             /\ Turned(f, n, j - 1) - 1 \in 0 .. n - 1 /\ j - 1 \in 1 .. n
             /\ Turned(g, n + 1, j) = IF pos <= Turned(f, n, j - 1) - 1
                                      THEN Turned(f, n, j - 1) + 1 ELSE Turned(f, n, j - 1)
    <2>1. g \in Int
      BY DEF AnyLists
    <2>2. /\ n \in Nat /\ f \in 0 .. n /\ pos \in 0 .. n
          /\ \/ g = f + 1 /\ pos <= f /\ d = pos - f + n
             \/ g = f /\ pos >= f /\ d = pos - f
      BY <1>1
    <2> HIDE DEF n, f, g
    <2>3. PutInPlaces(n, f, g, pos, d)
      BY <2>1, <2>2, InsertPlaces
    <2>4. QED
      BY <2>3 DEF PutInPlaces
  <1>3. /\ t \in Seq(AnyTrack) /\ Len(t) = n + 1
        /\ \A k \in 1 .. n + 1 : t[k] = a.list[Turned(g, n + 1, k)]
    <2>1. a.first \in 0 .. Len(a.list) /\ Len(a.list) = n + 1
      BY <1>2
    <2>2. /\ t \in Seq(AnyTrack) /\ Len(t) = Len(a.list)
          /\ \A k \in 1 .. Len(a.list) : t[k] = a.list[Shown(a, k)]
      BY <2>1, DisplayedFacts
    <2>3. \A k : Shown(a, k) = Turned(g, n + 1, k)
      BY <2>1 DEF Shown
    <2> HIDE DEF t, n, g
    <2>4. QED
      BY <2>1, <2>2, <2>3
  <1>4. New \in AnyTrack
    BY DEF AnyTrack
  <1>5. /\ u \in Seq(AnyTrack) /\ Len(u) = n + 1
        /\ \A j \in 1 .. n + 1 :
             u[j] = IF j < d + 1 THEN s[j] ELSE IF j = d + 1 THEN New ELSE s[j - 1]
    <2> DEFINE k == d + 1
               e == New
    <2>1. k \in 1 .. Len(s) + 1 /\ e \in AnyTrack /\ s \in Seq(AnyTrack)
      BY <1>1, <1>2, <1>4, SMT
    <2> HIDE DEF s, k, e
    <2>2. PutAt(AnyTrack, s, k, e)
      BY <2>1, PutAtFacts
    <2>3. QED
      BY <1>1, <2>2 DEF PutAt, k, e
  <1>6. \A x \in 0 .. n - 1 :
           /\ pos <= x => a.list[x + 2] = p.list[x + 1]
           /\ ~(pos <= x) => a.list[x + 1] = p.list[x + 1]
    OBVIOUS
  <1> HIDE DEF n, f, g, s, t, u
  <1>7. ASSUME NEW x \in Int, x - 1 \in 0 .. n - 1
        PROVE  a.list[IF pos <= x - 1 THEN x + 1 ELSE x] = p.list[x]
    <2>1. (x - 1) + 2 = x + 1 /\ (x - 1) + 1 = x
      BY <1>7, SMTT(30)
    <2>2. QED
      BY <1>6, <1>7, <2>1
  <1>8. ASSUME NEW j \in 1 .. n + 1 PROVE t[j] = u[j]
    <2>1. CASE j < d + 1
      <3>1. j \in 1 .. d
        BY <1>2, <2>1, SMT
      <3> DEFINE x == Turned(f, n, j)
      <3>2. /\ x - 1 \in 0 .. n - 1 /\ j \in 1 .. n
            /\ Turned(g, n + 1, j) = IF pos <= x - 1 THEN x + 1 ELSE x
        BY <1>2, <3>1
      <3>3. x \in 1 .. n /\ s[j] = p.list[x]
        BY <1>1, <3>2
      <3> HIDE DEF x
      <3>4. x \in Int
        BY <3>3, SMT
      <3>5. a.list[IF pos <= x - 1 THEN x + 1 ELSE x] = p.list[x]
        BY <1>7, <3>2, <3>4
      <3>6. QED
        BY <1>3, <1>5, <2>1, <3>2, <3>3, <3>5
    <2>2. CASE j = d + 1
      <3>1. ~(d + 1 < d + 1)
        BY <1>2, SMT
      <3>2. QED
        BY <1>2, <1>3, <1>5, <2>2, <3>1
    <2>3. CASE ~(j < d + 1) /\ j # d + 1
      <3>1. j \in d + 2 .. n + 1
        BY <1>1, <1>2, <2>3, SMT
      <3> DEFINE x == Turned(f, n, j - 1)
      <3>2. /\ x - 1 \in 0 .. n - 1 /\ j - 1 \in 1 .. n
            /\ Turned(g, n + 1, j) = IF pos <= x - 1 THEN x + 1 ELSE x
        BY <1>2, <3>1
      <3>3. x \in 1 .. n /\ s[j - 1] = p.list[x]
        BY <1>1, <3>2
      <3> HIDE DEF x
      <3>4. x \in Int
        BY <3>3, SMT
      <3>5. a.list[IF pos <= x - 1 THEN x + 1 ELSE x] = p.list[x]
        BY <1>7, <3>2, <3>4
      <3>6. QED
        BY <1>3, <1>5, <2>3, <3>2, <3>3, <3>5
    <2>4. QED
      BY <2>1, <2>2, <2>3
  <1>9. t = u
    BY <1>3, <1>5, <1>8, SeqEqual
  <1>10. QED
    BY <1>2, <1>9 DEF t, u, s, n

\* Numbers only: where the array has what is displayed at j, after the track at
\* place i has been taken out, that is, the one displayed behind d others.
TakenOutPlaces(n, f, g, i, d) ==
    /\ d \in 0 .. n - 1 /\ g \in 0 .. n - 1 /\ Turned(f, n, d + 1) = i + 1
    /\ \A j \in 1 .. n - 1 :
         \E x \in Int :
            /\ x = Turned(f, n, IF j < d + 1 THEN j ELSE j + 1) /\ x # i + 1
            /\ Turned(g, n - 1, j) = IF x < i + 1 THEN x ELSE x - 1

LEMMA RemovePlaces ==
    ASSUME NEW n \in Nat \ {0}, NEW f \in 0 .. n, NEW i \in 0 .. n - 1,
           NEW g \in Int, g = IF i < f THEN f - 1 ELSE f,
           NEW d \in Int, d = IF i < f THEN i - f + n ELSE i - f
    PROVE  TakenOutPlaces(n, f, g, i, d)
  <1>1. /\ d \in 0 .. n - 1 /\ g \in 0 .. n - 1 /\ Turned(f, n, d + 1) = i + 1
    BY SMT DEF Turned
  <1>2. ASSUME NEW j \in 1 .. n - 1, NEW x, x = Turned(f, n, IF j < d + 1 THEN j ELSE j + 1)
        PROVE  /\ x \in Int /\ x # i + 1
               /\ Turned(g, n - 1, j) = IF x < i + 1 THEN x ELSE x - 1
    <2>1. CASE i < f
      BY <1>2, <2>1, SMT DEF Turned
    <2>2. CASE ~(i < f)
      BY <1>2, <2>2, SMT DEF Turned
    <2>3. QED
      BY <2>1, <2>2
  <1>3. QED
    BY <1>1, <1>2 DEF TakenOutPlaces

\* A track that is taken out goes from where it is displayed, and the order of the
\* others stays.
LEMMA RemoveShown ==
    ASSUME NEW p, GoodPlaylist(p), NEW i \in 0 .. Len(p.list) - 1
    PROVE  Displayed(RemoveTrack(p, i)) = RemoveAt(Displayed(p), Rotate(p, i) + 1)
  <1> DEFINE n == Len(p.list)
             f == p.first
             q == RemoveTrack(p, i)
             g == q.first
             d == Rotate(p, i)
             s == Displayed(p)
             t == Displayed(q)
             u == RemoveAt(s, d + 1)
  <1>1. /\ n \in Nat /\ n \in Nat \ {0} /\ p \in AnyLists /\ f \in 0 .. n
        /\ f \in Int /\ i \in 0 .. n - 1
    BY ListTypes, AnyIsMore, SMT
  <1>2. /\ s \in Seq(AnyTrack) /\ Len(s) = n
        /\ \A k \in 1 .. n : Turned(f, n, k) \in 1 .. n /\ s[k] = p.list[Turned(f, n, k)]
    BY <1>1, DisplayedFacts DEF Shown
  <1>3. /\ GoodPlaylist(q) /\ Len(q.list) = n - 1
        /\ \A j \in 1 .. (n - 1) :
             q.list[j] = IF j < i + 1 THEN p.list[j] ELSE p.list[j + 1]
        /\ g = IF i < f THEN f - 1 ELSE f
    BY Removed
  <1>4. d = IF i < f THEN i - f + n ELSE i - f
    BY DEF Rotate, Amount
  <1>5. q \in AnyLists /\ g \in 0 .. Len(q.list) /\ g \in Int
    BY <1>3, ListTypes, AnyIsMore, SMTT(30)
  <1>6. /\ t \in Seq(AnyTrack) /\ Len(t) = n - 1
        /\ \A k \in 1 .. n - 1 :
             Turned(g, n - 1, k) \in 1 .. n - 1 /\ t[k] = q.list[Turned(g, n - 1, k)]
    <2> DEFINE m == Len(q.list)
    <2>1. /\ t \in Seq(AnyTrack) /\ Len(t) = m
          /\ \A k \in 1 .. m : Turned(g, m, k) \in 1 .. m /\ t[k] = q.list[Turned(g, m, k)]
      BY <1>5, DisplayedFacts DEF Shown
    <2>2. m = n - 1
      BY <1>3
    <2> HIDE DEF m, t, g, q
    <2>3. QED
      BY <2>1, <2>2
  <1> HIDE DEF n, f, g, q, d, s, t, u
  <1>7. d \in Int
    BY <1>1, <1>4, SMT
  <1>8. /\ d \in 0 .. n - 1
        /\ \A j \in 1 .. n - 1 :
             \E x \in Int :
                /\ x = Turned(f, n, IF j < d + 1 THEN j ELSE j + 1) /\ x # i + 1
                /\ Turned(g, n - 1, j) = IF x < i + 1 THEN x ELSE x - 1
    <2>1. g = IF i < f THEN f - 1 ELSE f
      BY <1>3
    <2>2. TakenOutPlaces(n, f, g, i, d)
      BY <1>1, <1>4, <1>5, <1>7, <2>1, RemovePlaces
    <2>3. QED
      BY <2>2 DEF TakenOutPlaces
  <1>9. /\ u \in Seq(AnyTrack) /\ Len(u) = n - 1
        /\ \A j \in 1 .. n - 1 : u[j] = IF j < d + 1 THEN s[j] ELSE s[j + 1]
    <2> DEFINE k == d + 1
    <2>1. k \in 1 .. Len(s)
      <3>1. d \in 0 .. n - 1 /\ Len(s) = n
        BY <1>2, <1>8
      <3>2. QED
        BY <1>1, <3>1, SMT
    <2> HIDE DEF k
    <2>2. /\ RemoveAt(s, k) \in Seq(AnyTrack) /\ Len(RemoveAt(s, k)) = Len(s) - 1
          /\ \A j \in 1 .. (Len(s) - 1) :
               RemoveAt(s, k)[j] = IF j < k THEN s[j] ELSE s[j + 1]
      BY <1>2, <2>1, RemoveAtFacts, ZenonT(30)
    <2>3. QED
      BY <1>2, <2>2 DEF k, u
  <1>10. ASSUME NEW j \in 1 .. n - 1 PROVE t[j] = u[j]
    <2> DEFINE y == IF j < d + 1 THEN j ELSE j + 1
               z == Turned(g, n - 1, j)
    <2>1. PICK x \in Int : /\ x = Turned(f, n, y) /\ x # i + 1
                           /\ z = IF x < i + 1 THEN x ELSE x - 1
      BY <1>8
    <2>2. y \in 1 .. n /\ u[j] = s[y]
      BY <1>1, <1>8, <1>9, SMT
    <2>3. z \in 1 .. n - 1 /\ t[j] = q.list[z]
      BY <1>6
    <2> HIDE DEF y, z
    <2>4. u[j] = p.list[x]
      BY <1>2, <2>1, <2>2
    <2>5. q.list[z] = IF z < i + 1 THEN p.list[z] ELSE p.list[z + 1]
      BY <1>3, <2>3
    <2>6. (z < i + 1 /\ z = x) \/ (~(z < i + 1) /\ z + 1 = x)
      BY <1>1, <2>1, <2>3, SMT
    <2>7. QED
      BY <2>3, <2>4, <2>5, <2>6
  <1>11. t = u
    BY <1>6, <1>9, <1>10, SeqEqual
  <1>12. QED
    BY <1>11 DEF t, u, s, q, d

\* Where a track of the list is displayed.
LEMMA PlaceShown ==
    ASSUME NEW p, GoodPlaylist(p), NEW x \in 0 .. Len(p.list) - 1
    PROVE  /\ Rotate(p, x) \in 0 .. Len(p.list) - 1
           /\ PlaceOf(Displayed(p), At(p, x)) = Rotate(p, x) + 1
           /\ Displayed(p)[Rotate(p, x) + 1] = At(p, x)
  <1> DEFINE n == Len(p.list)
             f == p.first
             d == Rotate(p, x)
             s == Displayed(p)
  <1>1. /\ n \in Nat /\ n \in Nat \ {0} /\ p \in AnyLists /\ f \in 0 .. n
        /\ f \in Int /\ x \in 0 .. n - 1
        /\ \A k \in 1 .. n : p.list[k] \in Track
        /\ \A k, l \in 1 .. n : p.list[k].seek = p.list[l].seek => k = l
    BY ListTypes, AnyIsMore, SMT DEF GoodList, Distinct
  <1>2. /\ s \in Seq(AnyTrack) /\ Len(s) = n
        /\ \A k \in 1 .. n : Turned(f, n, k) \in 1 .. n /\ s[k] = p.list[Turned(f, n, k)]
    BY <1>1, DisplayedFacts DEF Shown
  <1>3. d = IF x < f THEN x - f + n ELSE x - f
    BY DEF Rotate, Amount
  <1>4. d \in 0 .. n - 1
    BY RotateFacts
  <1> HIDE DEF n, f, d, s
  <1>5. d \in Int /\ d + 1 \in 1 .. n /\ Turned(f, n, d + 1) = x + 1
    BY <1>1, <1>3, <1>4, SMT DEF Turned
  <1>6. s[d + 1] = At(p, x)
    BY <1>2, <1>5 DEF At
  <1>7. ASSUME NEW k \in 1 .. n, s[k] = At(p, x) PROVE k = d + 1
    <2>1. Turned(f, n, k) = Turned(f, n, d + 1)
      <3>1. p.list[Turned(f, n, k)] = p.list[Turned(f, n, d + 1)]
        BY <1>2, <1>5, <1>6, <1>7
      <3>2. QED
        BY <1>1, <1>2, <1>5, <3>1
    <2>2. QED
      BY <1>1, <1>5, <2>1, SMT DEF Turned
  <1>8. DOMAIN s = 1 .. n
    BY <1>2, LenProperties
  <1>9. PlaceOf(s, At(p, x)) = d + 1
    BY <1>5, <1>6, <1>7, <1>8 DEF PlaceOf
  <1>10. QED
    BY <1>4, <1>6, <1>9 DEF n, d, s

\* A new track is put in while another one plays: it is displayed behind d others.
LEMMA AddedShown ==
    ASSUME NEW p, GoodPlaylist(p), p.started, HasCurrent(p), NEW orig \in Positions, NEW r,
           Position(p, orig, r) \in 0 .. Len(p.list)
    PROVE  LET pos == Position(p, orig, r)
               d == IF pos <= p.first THEN pos - p.first + Len(p.list) ELSE pos - p.first
           IN  Displayed(AddTrack(p, New, orig, r).list) = InsertAt(Displayed(p), d + 1, New)
  <1> DEFINE n == Len(p.list)
             pos == Position(p, orig, r)
             a == AddTrack(p, New, orig, r).list
             d == IF pos <= p.first THEN pos - p.first + n ELSE pos - p.first
  <1>1. /\ n \in Nat /\ p.first \in Int /\ p.first >= 0 /\ p.first <= n /\ p \in Lists
        /\ p.first \in 0 .. n
    BY ListTypes, SMT
  <1>2. n > 0
    BY <1>1, SMT DEF HasCurrent, Amount
  <1>3. orig \in Int /\ orig < 0 /\ orig # PREPEND
    BY SMT DEF Positions, INSERT, INSERT_LAST, INSERT_FIRST, INSERT_SHUFFLED, PREPEND
  <1>4. /\ a \in AnyLists /\ Len(a.list) = n + 1
        /\ a.list[pos + 1] = New
        /\ \A x \in 0 .. n - 1 :
             /\ pos <= x => a.list[x + 2] = p.list[x + 1]
             /\ ~(pos <= x) => a.list[x + 1] = p.list[x + 1]
        /\ a.first = FirstAfter(p, orig, pos)
    BY <1>3, NewAdded
  <1>5. a.first = IF pos <= p.first THEN p.first + 1 ELSE p.first
    BY <1>2, <1>3, <1>4 DEF FirstAfter, IsPlaying
  <1>6. pos \in 0 .. n /\ pos \in Int
    BY <1>1, SMT
  <1>7. /\ d \in Int
        /\ \/ a.first = p.first + 1 /\ pos <= p.first /\ d = pos - p.first + n
           \/ a.first = p.first /\ pos >= p.first /\ d = pos - p.first
    BY <1>1, <1>5, <1>6, SMT
  <1> HIDE DEF a, pos, d
  <1>8. Displayed(a) = InsertAt(Displayed(p), d + 1, New)
    BY <1>1, <1>4, <1>6, <1>7, InsertShown
  <1>9. QED
    BY <1>8 DEF a, d, pos, n

\* A track is moved: it is displayed where it was moved to.
LEMMA MovedShown ==
    ASSUME NEW p, GoodPlaylist(p), p.started,
           NEW i \in 0 .. Len(p.list) - 1, NEW j \in 0 .. Len(p.list) - 1, i # j
    PROVE  Displayed(Moved(p, i, j, New).list) =
              InsertAt(Displayed(RemoveTrack(p, i)), Rotate(p, j) + 1, New)
  <1> DEFINE q == RemoveTrack(p, i)
             n == Len(p.list) - 1
             r == Rotate(p, j)
             k == MovePlace(p, i, j)
             to == MoveAs(p, i, j)
             pos == Position(q, to, 0)
             m == Moved(p, i, j, New).list
  <1>1. /\ GoodPlaylist(q) /\ Len(q.list) = n /\ n \in Nat \ {0}
        /\ r \in 0 .. n /\ k \in 0 .. n - 1 /\ to \in Int
        /\ r < n => k = IF r + q.first < n THEN r + q.first ELSE r + q.first - n
        /\ \/ r = 0 /\ to = PREPEND /\ pos = q.first
           \/ r = n /\ to = INSERT_LAST /\ pos = IF q.first <= 0 THEN n ELSE q.first
           \/ r \in 1 .. n - 1 /\ to = k /\ to >= 0 /\ pos = k
        /\ pos \in 0 .. n
    BY MoveCases
  <1>2. q.started
    BY Removed
  <1>3. /\ m.list[pos + 1] = New /\ Len(m.list) = n + 1
        /\ \A x \in 0 .. n - 1 :
             /\ pos <= x => m.list[x + 2] = q.list[x + 1]
             /\ ~(pos <= x) => m.list[x + 1] = q.list[x + 1]
        /\ m.first = FirstAfter(q, to, pos)
        /\ m \in AnyLists
    <2> DEFINE a == Readded(p, i, j, New).list
    <2>1. /\ m.list = a.list /\ m.first = a.first /\ m \in AnyLists
          /\ Len(a.list) = n + 1 /\ a.list[pos + 1] = New
          /\ \A x \in 0 .. n - 1 :
               /\ pos <= x => a.list[x + 2] = q.list[x + 1]
               /\ ~(pos <= x) => a.list[x + 1] = q.list[x + 1]
          /\ a.first = FirstAfter(q, to, pos)
      BY MovedList
    <2> HIDE DEF m, a, q, n, to, pos
    <2>2. QED
      BY <2>1
  <1> HIDE DEF q, n, r, k, to, pos, m
  <1>4. /\ q \in Lists /\ q.first \in Int /\ q.first >= 0 /\ q.first <= n
    BY <1>1, ListTypes
  <1>5. /\ q.first \in 0 .. Len(q.list) /\ pos \in Int /\ r \in Int /\ k \in Int
        /\ n \in Int /\ n > 0
    BY <1>1, <1>4, SMT
  <1>6. \/ m.first = q.first + 1 /\ pos <= q.first /\ r = pos - q.first + n
        \/ m.first = q.first /\ pos >= q.first /\ r = pos - q.first
    <2>1. IsPlaying(q)
      BY <1>1, <1>2, <1>5 DEF IsPlaying
    <2>2. CASE r = 0 /\ to = PREPEND /\ pos = q.first
      <3>1. m.first = q.first
        BY <1>3, <2>2 DEF FirstAfter, PREPEND
      <3>2. QED
        BY <1>4, <2>2, <3>1, SMT
    <2>3. CASE r = n /\ to = INSERT_LAST /\ pos = IF q.first <= 0 THEN n ELSE q.first
      <3>1. m.first = IF pos <= q.first THEN q.first + 1 ELSE q.first
        BY <1>3, <2>1, <2>3, SMT DEF FirstAfter, PREPEND, INSERT_LAST
      <3>2. QED
        BY <1>4, <1>5, <2>3, <3>1, SMT
    <2>4. CASE r \in 1 .. n - 1 /\ to = k /\ to >= 0 /\ pos = k
      <3>1. m.first = IF k < q.first THEN q.first + 1 ELSE q.first
        BY <1>3, <1>5, <2>1, <2>4, SMT DEF FirstAfter
      <3>2. /\ r >= 1 /\ r <= n - 1
            /\ k = IF r + q.first < n THEN r + q.first ELSE r + q.first - n
        BY <1>1, <1>5, <2>4, SMT
      <3>3. CASE k < q.first
        <4>1. r + q.first - n = k
          BY <1>4, <1>5, <3>2, <3>3, SMT
        <4>2. m.first = q.first + 1 /\ pos <= q.first /\ r = pos - q.first + n
          BY <1>4, <1>5, <2>4, <3>1, <3>3, <4>1, SMT
        <4>3. QED
          BY <4>2
      <3>4. CASE ~(k < q.first)
        <4>1. r + q.first = k
          BY <1>4, <1>5, <3>2, <3>4, SMT
        <4>2. m.first = q.first /\ pos >= q.first /\ r = pos - q.first
          BY <1>4, <1>5, <2>4, <3>1, <3>4, <4>1, SMT
        <4>3. QED
          BY <4>2
      <3>5. QED
        BY <3>3, <3>4
    <2>5. QED
      BY <1>1, <2>2, <2>3, <2>4
  <1>7. Displayed(m) = InsertAt(Displayed(q), r + 1, New)
    <2>1. pos \in 0 .. Len(q.list) /\ Len(m.list) = Len(q.list) + 1
      BY <1>1, <1>3
    <2>2. \A x \in 0 .. Len(q.list) - 1 :
             /\ pos <= x => m.list[x + 2] = q.list[x + 1]
             /\ ~(pos <= x) => m.list[x + 1] = q.list[x + 1]
      BY <1>1, <1>3
    <2>3. \/ m.first = q.first + 1 /\ pos <= q.first /\ r = pos - q.first + Len(q.list)
          \/ m.first = q.first /\ pos >= q.first /\ r = pos - q.first
      BY <1>1, <1>6
    <2>4. QED
      BY <1>3, <1>4, <1>5, <2>1, <2>2, <2>3, InsertShown
  <1>8. QED
    BY <1>7 DEF m, q, r

\* What is put in behind all others is appended.
LEMMA InsertAtEnd ==
    ASSUME NEW S, NEW s \in Seq(S), NEW e \in S
    PROVE  InsertAt(s, Len(s) + 1, e) = Append(s, e)
  <1> DEFINE n == Len(s)
             u == InsertAt(s, n + 1, e)
             v == Append(s, e)
  <1>1. n \in Nat /\ n + 1 \in 1 .. n + 1
    BY LenProperties, SMT
  <1>2. /\ u \in Seq(S) /\ Len(u) = n + 1
        /\ \A j \in 1 .. n + 1 :
             u[j] = IF j < n + 1 THEN s[j] ELSE IF j = n + 1 THEN e ELSE s[j - 1]
    <2> DEFINE k == n + 1
    <2>1. k \in 1 .. Len(s) + 1 /\ s \in Seq(S) /\ e \in S
      BY <1>1
    <2> HIDE DEF k
    <2>2. PutAt(S, s, k, e)
      BY <2>1, PutAtFacts
    <2>3. QED
      BY <2>2 DEF PutAt, k
  <1>3. /\ v \in Seq(S) /\ Len(v) = n + 1
        /\ \A j \in 1 .. n : v[j] = s[j]
        /\ v[n + 1] = e
    BY AppendProperties
  <1> HIDE DEF u, v, n
  <1>4. ASSUME NEW j \in 1 .. n + 1 PROVE u[j] = v[j]
    <2>1. CASE j = n + 1
      <3>1. ~(n + 1 < n + 1)
        BY <1>1, SMT
      <3>2. QED
        BY <1>1, <1>2, <1>3, <2>1, <3>1
    <2>2. CASE j # n + 1
      <3>1. j \in 1 .. n /\ j < n + 1
        BY <1>1, <2>2, SMT
      <3>2. QED
        BY <1>2, <1>3, <3>1
    <2>3. QED
      BY <2>1, <2>2
  <1>5. u = v
    BY <1>2, <1>3, <1>4, SeqEqual
  <1>6. QED
    BY <1>5 DEF u, v, n

\* PLAYLIST_INSERT_LAST
LEMMA LastShown ==
    ASSUME NEW p, GoodPlaylist(p), p.started, HasCurrent(p)
    PROVE  Displayed(AddTrack(p, New, INSERT_LAST, 0).list) = Append(Displayed(p), New)
  <1> DEFINE n == Len(p.list)
             s == Displayed(p)
             pos == Position(p, INSERT_LAST, 0)
             d == IF pos <= p.first THEN pos - p.first + n ELSE pos - p.first
  <1>1. /\ n \in Nat /\ p.first \in Int /\ p.first >= 0 /\ p.first <= n
        /\ p.first \in 0 .. n /\ p \in AnyLists
    BY ListTypes, AnyIsMore, SMT
  <1>2. n > 0
    BY <1>1, SMT DEF HasCurrent, Amount
  <1>3. INSERT_LAST \in Positions /\ INSERT_LAST \in Int
    BY SMT DEF Positions, INSERT_LAST
  <1>4. pos = IF p.first <= 0 THEN n ELSE p.first
    BY <1>3, PositionFacts
  <1>5. s \in Seq(AnyTrack) /\ Len(s) = n /\ New \in AnyTrack
    BY <1>1, DisplayedFacts DEF AnyTrack
  <1> HIDE DEF pos, s
  <1>6. pos \in 0 .. n /\ d = n
    BY <1>1, <1>2, <1>4, SMT
  <1>7. Displayed(AddTrack(p, New, INSERT_LAST, 0).list) = InsertAt(s, d + 1, New)
    BY <1>3, <1>6, AddedShown DEF pos, s
  <1> HIDE DEF d
  <1>8. InsertAt(s, d + 1, New) = Append(s, New)
    BY <1>5, <1>6, InsertAtEnd
  <1>9. QED
    BY <1>7, <1>8 DEF s

\* An insertion behind the track at place y of the array
LEMMA FollowingShown ==
    ASSUME NEW p, GoodPlaylist(p), p.started, HasCurrent(p), NEW orig \in Positions, NEW r,
           NEW y \in 0 .. Len(p.list) - 1, Position(p, orig, r) = y + 1
    PROVE  Displayed(AddTrack(p, New, orig, r).list) =
              InsertAt(Displayed(p), PlaceOf(Displayed(p), At(p, y)) + 1, New)
  <1> DEFINE n == Len(p.list)
             pos == Position(p, orig, r)
             d == IF pos <= p.first THEN pos - p.first + n ELSE pos - p.first
  <1>1. /\ n \in Nat /\ p.first \in Int /\ p.first >= 0 /\ p.first <= n
        /\ y \in Int /\ y >= 0 /\ y <= n - 1
    BY ListTypes, SMT
  <1>2. PlaceOf(Displayed(p), At(p, y)) = Rotate(p, y) + 1
    BY PlaceShown
  <1>3. pos = y + 1 /\ pos \in 0 .. n
    BY <1>1, SMT
  <1>4. Displayed(AddTrack(p, New, orig, r).list) = InsertAt(Displayed(p), d + 1, New)
    BY <1>3, AddedShown
  <1> HIDE DEF pos
  <1>5. d = Rotate(p, y) + 1
    BY <1>1, <1>3, SMTT(30) DEF Rotate, Amount
  <1> HIDE DEF d
  <1>6. QED
    BY <1>2, <1>4, <1>5

\* PLAYLIST_INSERT_SHUFFLED
LEMMA RandomShown ==
    ASSUME NEW p, GoodPlaylist(p), p.started, HasCurrent(p), p.first < Amount(p),
           NEW r \in Offsets(p)
    PROVE  \E k \in PlaceOf(Displayed(p), Current(p)) .. Len(Displayed(p)) :
              Displayed(AddTrack(p, New, INSERT_SHUFFLED, r).list) =
                 InsertAt(Displayed(p), k + 1, New)
  <1> DEFINE n == Len(p.list)
             x == p.index
             c == Rotate(p, x)
             orig == INSERT_SHUFFLED
             pos == Position(p, orig, r)
             d == IF pos <= p.first THEN pos - p.first + n ELSE pos - p.first
  <1>1. /\ n \in Nat /\ p.first \in Int /\ p.first >= 0 /\ p.first <= n
        /\ p.first < n /\ p.first \in 0 .. n /\ p \in AnyLists
    BY ListTypes, AnyIsMore, SMT DEF Amount
  <1>2. x \in 0 .. n - 1 /\ x \in Int /\ x >= 0 /\ x <= n - 1 /\ Current(p) = At(p, x)
    BY <1>1, SMT DEF HasCurrent, Amount, Current
  <1>3. orig \in Positions /\ orig \in Int
    BY SMT DEF Positions, INSERT_SHUFFLED
  <1>4. pos = IF x + r + 1 >= n THEN (x + r + 1) - n ELSE x + r + 1
    <2>1. pos = RandomPlace(p, r)
      BY <1>3, PositionFacts
    <2>2. QED
      BY <2>1 DEF RandomPlace
  <1>5. PlaceOf(Displayed(p), At(p, x)) = c + 1 /\ c \in 0 .. n - 1
    BY <1>2, PlaceShown
  <1>6. Len(Displayed(p)) = n
    BY <1>1, DisplayedFacts
  <1>7. c = IF x < p.first THEN x - p.first + n ELSE x - p.first
    BY DEF Rotate, Amount
  <1>8. Offsets(p) = IF n - c > 0 THEN 0 .. n - c - 1 ELSE {0}
    BY DEF Offsets, Amount
  <1> HIDE DEF n, x, c, pos, orig
  <1>9. r \in Int /\ r >= 0 /\ r <= n - c - 1 /\ c \in Int /\ c >= 0 /\ c <= n - 1
    BY <1>1, <1>5, <1>8, SMT
  <1>10. pos \in 0 .. n /\ d = c + r + 1
    BY <1>1, <1>2, <1>4, <1>7, <1>9, SMT
  <1>11. Displayed(AddTrack(p, New, orig, r).list) = InsertAt(Displayed(p), d + 1, New)
    BY <1>3, <1>10, AddedShown DEF pos, n
  <1> HIDE DEF d
  <1>12. d \in c + 1 .. n
    BY <1>1, <1>9, <1>10, SMT
  <1>13. QED
    BY <1>2, <1>5, <1>6, <1>11, <1>12 DEF orig

\* PLAYLIST_INSERT and PLAYLIST_INSERT_FIRST
LEMMA InsertionsShown ==
    ASSUME NEW p, GoodPlaylist(p), p.started, HasCurrent(p)
    PROVE  LET s == Displayed(p)
               y == IF p.last \in 0 .. Amount(p) - 1 THEN p.last ELSE p.index
           IN  /\ Displayed(AddTrack(p, New, INSERT_FIRST, 0).list) =
                     InsertAt(s, PlaceOf(s, Current(p)) + 1, New)
               /\ Displayed(AddTrack(p, New, INSERT, 0).list) =
                     InsertAt(s, PlaceOf(s, At(p, y)) + 1, New)
  <1> DEFINE n == Len(p.list)
             y == IF p.last \in 0 .. Amount(p) - 1 THEN p.last ELSE p.index
  <1>1. /\ n \in Nat /\ p.index \in 0 .. n - 1 /\ p.last \in Int /\ n > 0
        /\ Current(p) = At(p, p.index)
    BY ListTypes, SMT DEF HasCurrent, Amount, Current
  <1>2. /\ INSERT_FIRST \in Positions /\ INSERT \in Positions
        /\ INSERT_FIRST \in Int /\ INSERT \in Int
    BY SMT DEF Positions, INSERT_FIRST, INSERT
  <1>3. Position(p, INSERT_FIRST, 0) = p.index + 1
    BY <1>1, <1>2, PositionFacts
  <1>4. y \in 0 .. n - 1 /\ Position(p, INSERT, 0) = y + 1
    BY <1>1, <1>2, PositionFacts DEF Amount
  <1> HIDE DEF y
  <1>5. Displayed(AddTrack(p, New, INSERT_FIRST, 0).list) =
           InsertAt(Displayed(p), PlaceOf(Displayed(p), At(p, p.index)) + 1, New)
    BY <1>1, <1>2, <1>3, FollowingShown
  <1>6. Displayed(AddTrack(p, New, INSERT, 0).list) =
           InsertAt(Displayed(p), PlaceOf(Displayed(p), At(p, y)) + 1, New)
    BY <1>2, <1>4, FollowingShown
  <1>7. QED
    BY <1>1, <1>5, <1>6 DEF y

\* playlist_delete and playlist_move
LEMMA RemovalsShown ==
    ASSUME NEW p, GoodPlaylist(p), p.started, NEW i \in 0 .. Len(p.list) - 1
    PROVE  LET s == Displayed(p)
               rest == RemoveAt(s, PlaceOf(s, At(p, i)))
           IN  /\ Displayed(RemoveTrack(p, i)) = rest
               /\ \A j \in (0 .. Len(p.list) - 1) \ {i} :
                     Displayed(Moved(p, i, j, New).list) =
                        InsertAt(rest, PlaceOf(s, At(p, j)), New)
  <1>1. \A x \in 0 .. Len(p.list) - 1 : PlaceOf(Displayed(p), At(p, x)) = Rotate(p, x) + 1
    BY PlaceShown
  <1>2. Displayed(RemoveTrack(p, i)) = RemoveAt(Displayed(p), PlaceOf(Displayed(p), At(p, i)))
    BY <1>1, RemoveShown
  <1>3. ASSUME NEW j \in (0 .. Len(p.list) - 1) \ {i}
        PROVE  Displayed(Moved(p, i, j, New).list) =
                  InsertAt(Displayed(RemoveTrack(p, i)), PlaceOf(Displayed(p), At(p, j)), New)
    BY <1>1, MovedShown
  <1>4. QED
    BY <1>2, <1>3

\* What the invariant says of the list as displayed, whatever is done to it.
LEMMA InvariantKeepsOrder == ASSUME IInv, Playing PROVE OrderKept
  <1> DEFINE p == playlist
             s == Displayed(playlist)
             After(e) == InsertAt(s, PlaceOf(s, e) + 1, New)
  <1>1. GoodPlaylist(p) /\ p.started /\ HasCurrent(p)
    BY DEF IInv, Playing
  <1>2. Indices = 0 .. Len(p.list) - 1
    BY DEF Indices, Amount
  <1>3. \A q \in {Inserted(INSERT_LAST, 0)} : Displayed(q) = Append(s, New)
    BY <1>1, LastShown DEF Inserted
  <1>4. \A q \in {Inserted(INSERT_FIRST, 0)} : Displayed(q) = After(Current(p))
    BY <1>1, InsertionsShown DEF Inserted
  <1>5. \A q \in {Inserted(INSERT, 0)} : Displayed(q) = After(At(p, InsertAfter(p)))
    BY <1>1, InsertionsShown DEF Inserted, InsertAfter
  <1>6. p.first < Amount(p) =>
           \A q \in {Inserted(INSERT_SHUFFLED, r) : r \in Offsets(p)} :
              \E k \in PlaceOf(s, Current(p)) .. Len(s) : Displayed(q) = InsertAt(s, k + 1, New)
    BY <1>1, RandomShown DEF Inserted
  <1>7. ASSUME NEW i \in Indices
        PROVE  \A q \in {RemoveTrack(p, i)} : \A rest \in {RemoveAt(s, PlaceOf(s, At(p, i)))} :
                  /\ Displayed(q) = rest
                  /\ \A j \in Indices \ {i} : \A t \in {Moved(p, i, j, New).list} :
                        Displayed(t) = InsertAt(rest, PlaceOf(s, At(p, j)), New)
    BY <1>1, <1>2, RemovalsShown
  <1> HIDE DEF s
  <1>8. QED
    BY <1>3, <1>4, <1>5, <1>6, <1>7 DEF OrderKept, s

-------------------------------------------------------------------------------
(* Where playback goes on.                                                   *)

\* Without repeating it ends at the end, with it goes round.
LEMMA NextFound ==
    ASSUME NEW p, GoodPlaylist(p), Len(p.list) # 0, NEW steps \in Int
    PROVE  LET n == Len(p.list)
               next == Rotate(p, p.index) + steps
           IN  /\ GetNextIndex(p, steps, "off") =
                     IF next \in 0 .. n - 1 THEN (next + p.first) % n ELSE -1
               /\ steps < n => GetNextIndex(p, steps, "all") = (p.index + steps) % n
               /\ next \in Int /\ (next + p.first) % n \in 0 .. n - 1
               /\ (p.index + steps) % n \in 0 .. n - 1
  <1> DEFINE n == Len(p.list)
             next == Rotate(p, p.index) + steps
             wrapped == (p.index + steps) % n
             I(repeat) ==
                LET kept == {k \in 0 .. n - 1 : ~At(p, (wrapped + k) % n).queued}
                IN  CASE repeat = "one" -> p.index
                      [] repeat = "off" \/ (repeat = "shuffle" /\ n > 1) ->
                            IF next \in 0 .. n - 1 THEN (next + p.first) % n ELSE -1
                      [] OTHER -> IF steps < n THEN wrapped
                                  ELSE IF kept = {} THEN -1 ELSE (wrapped + Min(kept)) % n
  <1>1. n \in Nat \ {0} /\ p.index \in Int /\ p.first \in Int
    BY ListTypes
  <1>2. next \in Int
    BY <1>1, SMT DEF Rotate, Amount
  <1>3. \A repeat : GetNextIndex(p, steps, repeat) =
                       IF n = 0 \/ I(repeat) >= n THEN -1 ELSE I(repeat)
    BY DEF GetNextIndex, Amount
  <1>4. "off" # "one" /\ "off" # "shuffle" /\ "all" # "one" /\ "all" # "off" /\ "all" # "shuffle"
    OBVIOUS
  <1> HIDE DEF n, next
  <1>5. (next + p.first) % n \in 0 .. n - 1 /\ wrapped \in 0 .. n - 1
    <2>1. next + p.first \in Int /\ p.index + steps \in Int
      BY <1>1, <1>2, SMT
    <2>2. QED
      BY <1>1, <2>1, DivMod
  <1> HIDE DEF wrapped
  <1>6. I("off") = IF next \in 0 .. n - 1 THEN (next + p.first) % n ELSE -1
    BY <1>4
  <1>7. steps < n => I("all") = wrapped
    BY <1>4
  <1> HIDE DEF I
  <1>8. ~(I("off") >= n)
    <2>1. \A z \in 0 .. n - 1 : ~(z >= n)
      BY <1>1, SMT
    <2>2. ~(-1 >= n)
      BY <1>1, SMT
    <2>3. QED
      BY <1>5, <1>6, <2>1, <2>2
  <1>9. steps < n => ~(I("all") >= n)
    BY <1>1, <1>5, <1>7, SMT
  <1>10. QED
    BY <1>1, <1>2, <1>3, <1>5, <1>6, <1>7, <1>8, <1>9 DEF n, next, wrapped

\* What is displayed at a place, and what at a place beyond the end, counted on
\* from the beginning.
LEMMA DisplayedAt ==
    ASSUME NEW p, GoodPlaylist(p), Len(p.list) # 0
    PROVE  LET n == Len(p.list)
           IN  /\ \A k \in 1 .. n : Displayed(p)[k] = At(p, (p.first + k - 1) % n)
               /\ \A k \in Int : Displayed(p)[(k % n) + 1] = At(p, (p.first + k) % n)
  <1> DEFINE n == Len(p.list)
  <1>1. n \in Nat \ {0} /\ p.first \in Int
    BY ListTypes
  <1>2. \A k \in 1 .. n : Displayed(p)[k] = At(p, (p.first + k - 1) % n)
    BY DEF Displayed, Amount
  <1> HIDE DEF n
  <1>3. ASSUME NEW k \in Int PROVE Displayed(p)[(k % n) + 1] = At(p, (p.first + k) % n)
    <2> DEFINE y == k % n
    <2>1. y \in 0 .. n - 1
      BY <1>1, DivMod
    <2>2. (y + p.first) % n = (k + p.first) % n
      BY <1>1, ModOfSum
    <2> HIDE DEF y
    <2>3. /\ y + 1 \in 1 .. n /\ p.first + (y + 1) - 1 = y + p.first
          /\ k + p.first = p.first + k
      BY <1>1, <2>1, SMT
    <2>4. QED
      BY <1>2, <2>2, <2>3 DEF y
  <1>4. QED
    BY <1>2, <1>3 DEF n

\* The place that plays, counted from first_index
LEMMA CurrentShown ==
    ASSUME NEW p, GoodPlaylist(p), HasCurrent(p), NEW s \in Int
    PROVE  (p.first + Rotate(p, p.index) + s) % Len(p.list) = (p.index + s) % Len(p.list)
  <1> DEFINE n == Len(p.list)
             x == p.index
             f == p.first
             a == f + Rotate(p, x) + s
  <1>1. n \in Nat /\ x \in Int /\ f \in Int
    BY ListTypes
  <1>2. n \in Nat \ {0}
    BY <1>1, SMT DEF HasCurrent, Amount
  <1>3. Rotate(p, x) = IF x < f THEN x - f + n ELSE x - f
    BY DEF Rotate, Amount
  <1> HIDE DEF n, x, f
  <1>4. a = (x + s) + n * 1 \/ a = x + s
    BY <1>1, <1>3, SMT
  <1>5. x + s \in Int /\ 1 \in Int
    BY <1>1, SMT
  <1>6. ((x + s) + n * 1) % n = (x + s) % n
    BY <1>2, <1>5, ModPlus
  <1> HIDE DEF a
  <1>7. a % n = (x + s) % n
    BY <1>4, <1>6
  <1>8. QED
    BY <1>7 DEF a, n, x, f

\* playlist_next has gone to a track.
GoesTo(t, e) == t.index >= 0 /\ Current(t.list) = e

\* It goes where get_next_index says, of the list that is left.
LEMMA NextTrackGoes ==
    ASSUME NEW p, NEW f, NEW steps, NEW global, NEW repeat, NEW acc,
           acc = IF steps <= 0 \/ repeat = "one" THEN [list |-> p, file |-> f, steps |-> steps]
                 ELSE Passed([list |-> p, file |-> f, steps |-> steps], steps, global),
           GoodPlaylist(acc.list),
           GetNextIndex(acc.list, acc.steps, repeat) \in 0 .. Len(acc.list.list) - 1
    PROVE  GoesTo(NextTrack(p, f, steps, global, repeat),
                  At(acc.list, GetNextIndex(acc.list, acc.steps, repeat)))
  <1> DEFINE q == acc.list
             index == GetNextIndex(q, acc.steps, repeat)
             over == /\ index >= 0 /\ q.last >= 0 /\ acc.steps > 0
                     /\ Rotate(q, index) > Rotate(q, q.last)
             t == NextTrack(p, f, steps, global, repeat)
             b == IF over THEN -1 ELSE q.last
  <1>1. t = [index |-> index,
             list |-> IF index < 0 THEN q
                      ELSE [q EXCEPT !.index = index, !.last = IF over THEN -1 ELSE @],
             file |-> IF over THEN Apply(acc.file, Reset) ELSE acc.file]
    BY Zenon DEF NextTrack
  <1> HIDE DEF t, over
  <1>2. q \in Lists
    BY ListTypes
  <1>3. index >= 0 /\ ~(index < 0) /\ index \in Int
    <2>1. Len(q.list) \in Nat
      BY ListTypes
    <2>2. index \in 0 .. Len(q.list) - 1
      OBVIOUS
    <2> HIDE DEF index, q
    <2>3. QED
      BY <2>1, <2>2, SMT
  <1> HIDE DEF index, q
  <1>4. t.index = index /\ t.list = [q EXCEPT !.index = index, !.last = b]
    BY <1>1, <1>3
  <1> HIDE DEF b
  <1>5. t.list.list = q.list /\ t.list.index = index
    BY <1>2, <1>4 DEF Lists
  <1>6. QED
    BY <1>3, <1>4, <1>5 DEF GoesTo, Current, At, t, index, q

\* With nothing to drop the loop does nothing.
LEMMA NothingPassed ==
    ASSUME NEW acc, NEW n \in Nat, NEW repeat,
           \A i \in Nat : DropQueued(acc, i, repeat) = acc
    PROVE  Passed(acc, n, repeat) = acc
  <1> DEFINE g == CHOOSE g : Rounds(g, acc, n, repeat)
  <1>1. Rounds(g, acc, n, repeat)
    BY RoundsExist, Zenon
  <1>2. Passed(acc, n, repeat) = g[n]
    BY DEF Passed, Rounds
  <1> HIDE DEF g
  <1>3. \A i \in 0 .. n : g[i] = IF i = 0 THEN acc ELSE DropQueued(g[i - 1], i - 1, repeat)
    BY <1>1 DEF Rounds
  <1> DEFINE Bad == {i \in 0 .. n : g[i] # acc}
  <1>4. SUFFICES Bad = {}
    <2>1. n \in 0 .. n
      BY SMT
    <2>2. QED
      BY <1>2, <1>4, <2>1
  <1>5. SUFFICES ASSUME Bad # {} PROVE FALSE
    OBVIOUS
  <1>6. Bad \in SUBSET Nat
    BY SMT
  <1>7. Min(Bad) \in Bad /\ \A x \in Bad : Min(Bad) <= x
    BY <1>5, <1>6, SmallestOf
  <1> DEFINE m == Min(Bad)
  <1>8. m \in 0 .. n /\ m \in Nat /\ g[m] # acc
    BY <1>6, <1>7
  <1>9. m # 0
    BY <1>3, <1>8
  <1>10. m - 1 \in 0 .. n /\ m - 1 \in Nat /\ ~(m <= m - 1)
    BY <1>8, <1>9, SMT
  <1>11. g[m - 1] = acc
    BY <1>7, <1>10
  <1> HIDE DEF m, Bad
  <1>12. g[m] = acc
    BY <1>3, <1>8, <1>9, <1>10, <1>11
  <1>13. QED
    BY <1>8, <1>12

\* One step is one round.
LEMMA OnePassed ==
    ASSUME NEW acc, NEW repeat
    PROVE  Passed(acc, 1, repeat) = DropQueued(acc, 0, repeat)
  <1> DEFINE g == CHOOSE g : Rounds(g, acc, 1, repeat)
  <1>1. 1 \in Nat /\ 1 \in 0 .. 1 /\ 0 \in 0 .. 1 /\ 1 - 1 = 0 /\ 1 # 0
    BY SMT
  <1>2. Rounds(g, acc, 1, repeat)
    BY <1>1, RoundsExist, Zenon
  <1>3. Passed(acc, 1, repeat) = g[1]
    BY DEF Passed, Rounds
  <1> HIDE DEF g
  <1>4. \A i \in 0 .. 1 : g[i] = IF i = 0 THEN acc ELSE DropQueued(g[i - 1], i - 1, repeat)
    BY <1>2 DEF Rounds
  <1>5. QED
    BY <1>1, <1>3, <1>4

\* As long as nothing is dropped: the k-th displayed is gone to, the place of the
\* current one and the steps added.
LEMMA PlainNext ==
    ASSUME NEW p, GoodPlaylist(p), HasCurrent(p), NEW f, NEW s \in Int,
           NEW repeat \in {"off", "all"},
           NEW acc, acc = [list |-> p, file |-> f, steps |-> s],
           acc = IF s <= 0 \/ repeat = "one" THEN acc ELSE Passed(acc, s, repeat)
    PROVE  LET n == Len(p.list)
               k == Rotate(p, p.index) + 1 + s
               t == NextTrack(p, f, s, repeat, repeat)
           IN  /\ repeat = "off" /\ k \in 1 .. n => GoesTo(t, Displayed(p)[k])
               /\ repeat = "all" /\ s < n => GoesTo(t, Displayed(p)[((k - 1) % n) + 1])
  <1> DEFINE n == Len(p.list)
             c == Rotate(p, p.index)
             k == c + 1 + s
             t == NextTrack(p, f, s, repeat, repeat)
             index == GetNextIndex(p, s, repeat)
  <1>1. n \in Nat /\ p.index \in Int /\ p.first \in Int
    BY ListTypes
  <1>2. n # 0 /\ n \in Nat \ {0}
    BY <1>1, SMT DEF HasCurrent, Amount
  <1>3. c \in Int
    BY <1>1, SMT DEF Rotate, Amount
  <1>4. acc.list = p /\ acc.steps = s
    OBVIOUS
  <1>5. ASSUME index \in 0 .. n - 1 PROVE GoesTo(t, At(p, index))
    BY <1>4, <1>5, NextTrackGoes
  <1>6. ASSUME repeat = "off", k \in 1 .. n PROVE GoesTo(t, Displayed(p)[k])
    <2>1. c + s \in 0 .. n - 1 /\ p.first + k - 1 = (c + s) + p.first
      BY <1>1, <1>3, <1>6, SMTT(30)
    <2>2. index = ((c + s) + p.first) % n /\ index \in 0 .. n - 1
      BY <1>2, <1>6, <2>1, NextFound
    <2>3. Displayed(p)[k] = At(p, (p.first + k - 1) % n)
      BY <1>2, <1>6, DisplayedAt
    <2> HIDE DEF index, t, k
    <2>4. QED
      BY <1>5, <2>1, <2>2, <2>3
  <1>7. ASSUME repeat = "all", s < n PROVE GoesTo(t, Displayed(p)[((k - 1) % n) + 1])
    <2>1. index = (p.index + s) % n /\ index \in 0 .. n - 1
      BY <1>2, <1>7, NextFound
    <2>2. (p.first + c + s) % n = (p.index + s) % n
      BY CurrentShown
    <2>3. k - 1 \in Int /\ p.first + (k - 1) = p.first + c + s
      BY <1>1, <1>3, SMT
    <2>4. Displayed(p)[((k - 1) % n) + 1] = At(p, (p.first + (k - 1)) % n)
      BY <1>2, <2>3, DisplayedAt
    <2> HIDE DEF index, t, k
    <2>5. QED
      BY <1>5, <2>1, <2>2, <2>3, <2>4
  <1>8. QED
    BY <1>6, <1>7

\* No step at all stays at the current track.
LEMMA NoStep ==
    ASSUME NEW p, GoodPlaylist(p), HasCurrent(p), NEW repeat \in {"off", "all"}
    PROVE  GetNextIndex(p, 0, repeat) = p.index
  <1> DEFINE n == Len(p.list)
             c == Rotate(p, p.index)
             x == p.index
  <1>1. n \in Nat /\ x \in Int /\ p.first \in Int
    BY ListTypes
  <1>2. n # 0 /\ n \in Nat \ {0} /\ x \in 0 .. n - 1 /\ 0 < n
    BY <1>1, SMT DEF HasCurrent, Amount
  <1>3. c \in 0 .. n - 1 /\ c \in Int /\ c + 0 = c
    <2>1. c \in 0 .. n - 1
      BY <1>2, RotateFacts
    <2> HIDE DEF c
    <2>2. QED
      BY <1>1, <2>1, SMT
  <1>4. (x + 0) % n = x
    <2> HIDE DEF n, x
    <2>1. n * 0 + x = x + 0 /\ 0 \in Int
      BY <1>1, SMT
    <2>2. (n * 0 + x) % n = x
      BY <1>2, <2>1, ModUnique
    <2>3. QED
      BY <2>1, <2>2
  <1>5. (p.first + c + 0) % n = x
    BY <1>4, CurrentShown
  <1>6. p.first + c + 0 = (c + 0) + p.first
    BY <1>1, <1>3, SMT
  <1>7. CASE repeat = "off"
    <2>1. GetNextIndex(p, 0, "off") = ((c + 0) + p.first) % n
      BY <1>2, <1>3, NextFound
    <2>2. QED
      BY <1>5, <1>6, <1>7, <2>1
  <1>8. CASE repeat = "all"
    <2>1. GetNextIndex(p, 0, "all") = (x + 0) % n
      BY <1>2, NextFound
    <2>2. QED
      BY <1>4, <1>8, <2>1
  <1>9. QED
    BY <1>7, <1>8

\* Numbers only: x is the place of the current track and c how it is displayed,
\* behind how many others; f and g are where the list begins with and without it.
DroppedPlaces(n, f, x, c, g) ==
    /\ c \in 0 .. n - 1
    /\ c + 1 < n => /\ c = IF x < g THEN x - g + (n - 1) ELSE x - g
                    /\ g + c = x \/ g + c = x + (n - 1) * 1
    /\ ~(c + 1 < n) => x = g \/ x = g + (n - 1) * 1
LEMMA DropPlaces ==
    ASSUME NEW n \in Nat, n > 1, NEW f \in 0 .. n, NEW x \in 0 .. n - 1,
           NEW c \in Int, c = IF x < f THEN x - f + n ELSE x - f,
           NEW g \in Int, g = IF x < f THEN f - 1 ELSE f
    PROVE  DroppedPlaces(n, f, x, c, g)
  BY SMT DEF DroppedPlaces

\* The current track is dropped on the way: the one displayed behind it is gone to.
LEMMA DroppedNext ==
    ASSUME NEW p, GoodPlaylist(p), HasCurrent(p), NEW f, NEW repeat \in {"off", "all"},
           Current(p).queued
    PROVE  LET n == Len(p.list)
               k == Rotate(p, p.index) + 1 + 1
               t == NextTrack(p, f, 1, repeat, repeat)
           IN  /\ repeat = "off" /\ k \in 1 .. n => GoesTo(t, Displayed(p)[k])
               /\ repeat = "all" /\ 1 < n => GoesTo(t, Displayed(p)[((k - 1) % n) + 1])
  <1> DEFINE n == Len(p.list)
             x == p.index
             c == Rotate(p, x)
             k == c + 1 + 1
             t == NextTrack(p, f, 1, repeat, repeat)
             all == [list |-> p, file |-> f, steps |-> 1]
             q == RemoveTrack(p, x)
             m == n - 1
             acc == [list |-> q, file |-> Apply(f, Deleted(x)), steps |-> 0]
             index == GetNextIndex(q, 0, repeat)
             s == Displayed(p)
             u == Displayed(q)
  <1>1. /\ n \in Nat /\ x \in Int /\ p.first \in Int /\ p.first \in 0 .. n
        /\ p \in AnyLists
    BY ListTypes, AnyIsMore, SMT
  <1>2. x \in 0 .. n - 1 /\ x >= 0 /\ n > 0 /\ Current(p) = At(p, x)
    BY <1>1, SMT DEF HasCurrent, Amount, Current
  <1>3. acc = IF 1 <= 0 \/ repeat = "one" THEN all ELSE Passed(all, 1, repeat)
    <2>1. Passed(all, 1, repeat) = DropQueued(all, 0, repeat)
      BY OnePassed
    <2>2. GetNextIndex(all.list, 0, repeat) = x
      BY NoStep
    <2>3. /\ all.list = p /\ all.file = f /\ all.steps - 1 = 0 /\ ~(1 <= 0)
      BY SMT
    <2>4. repeat # "one"
      OBVIOUS
    <2> HIDE DEF all
    <2>5. DropQueued(all, 0, repeat) = acc
      BY <1>2, <2>2, <2>3 DEF DropQueued
    <2>6. QED
      BY <2>1, <2>3, <2>4, <2>5
  <1>4. /\ GoodPlaylist(q) /\ q.index = x /\ Len(q.list) = m
        /\ q.first = IF x < p.first THEN p.first - 1 ELSE p.first
    <2>1. ~(x < x)
      BY <1>1, SMT
    <2>2. QED
      BY <1>2, <2>1, Removed
  <1>5. c = IF x < p.first THEN x - p.first + n ELSE x - p.first
    BY DEF Rotate, Amount
  <1>6. Rotate(q, q.index) = IF x < q.first THEN x - q.first + m ELSE x - q.first
    BY <1>4 DEF Rotate, Amount
  <1>7. q.first \in Int
    BY <1>4, ListTypes
  <1>8. s \in Seq(AnyTrack) /\ Len(s) = n
    BY <1>1, DisplayedFacts
  <1>9. u = RemoveAt(s, c + 1)
    BY <1>2, RemoveShown
  <1>10. ASSUME index \in 0 .. m - 1 PROVE GoesTo(t, At(q, index))
    <2>1. acc.list = q /\ acc.steps = 0
      OBVIOUS
    <2> HIDE DEF acc, q, m, n, x
    <2>2. index \in 0 .. Len(acc.list.list) - 1 /\ GoodPlaylist(acc.list)
          /\ GetNextIndex(acc.list, acc.steps, repeat) = index
      BY <1>4, <1>10, <2>1
    <2>3. QED
      BY <1>3, <2>1, <2>2, NextTrackGoes
  <1> HIDE DEF index, t, all, acc, q, s, u, x, n, c
  <1>11. ASSUME n > 1
         PROVE  /\ c \in 0 .. n - 1
                /\ c + 1 < n => /\ c = Rotate(q, q.index)
                                /\ q.first + c = x \/ q.first + c = x + m * 1
                /\ ~(c + 1 < n) => x = q.first \/ x = q.first + m * 1
    <2>1. c \in Int
      BY <1>1, <1>5, SMT
    <2>2. DroppedPlaces(n, p.first, x, c, q.first)
      BY <1>1, <1>2, <1>4, <1>5, <1>7, <1>11, <2>1, DropPlaces
    <2>3. QED
      BY <1>6, <2>2 DEF DroppedPlaces
  <1>12. ASSUME n > 1
         PROVE  /\ m \in Nat \ {0} /\ Len(q.list) # 0
                /\ c + 1 < n => u[c + 1] = s[c + 2] /\ c + 1 \in 1 .. m
                /\ ~(c + 1 < n) => u[1] = s[1] /\ 1 \in 1 .. m /\ c + 1 = n
    <2>1. c + 1 \in 1 .. Len(s) /\ m \in Nat \ {0} /\ c \in Int /\ c <= n - 1 /\ c >= 0
      BY <1>1, <1>8, <1>11, <1>12, SMT
    <2> DEFINE d == c + 1
    <2> HIDE DEF d
    <2>2. \A j \in 1 .. (Len(s) - 1) : RemoveAt(s, d)[j] = IF j < d THEN s[j] ELSE s[j + 1]
      BY <1>8, <2>1, RemoveAtFacts DEF d
    <2>3. \A j \in 1 .. m : u[j] = IF j < c + 1 THEN s[j] ELSE s[j + 1]
      BY <1>8, <1>9, <2>2 DEF d
    <2>4. ASSUME c + 1 < n PROVE u[c + 1] = s[c + 2] /\ c + 1 \in 1 .. m
      <3>1. c + 1 \in 1 .. m /\ ~(c + 1 < c + 1) /\ c + 1 + 1 = c + 2
        BY <1>1, <2>1, <2>4, SMT
      <3>2. QED
        BY <2>3, <3>1
    <2>5. ASSUME ~(c + 1 < n) PROVE u[1] = s[1] /\ 1 \in 1 .. m /\ c + 1 = n
      <3>1. 1 \in 1 .. m /\ 1 < c + 1 /\ c + 1 = n
        BY <1>1, <1>12, <2>1, <2>5, SMT
      <3>2. QED
        BY <2>3, <3>1
    <2>6. QED
      BY <1>4, <2>1, <2>4, <2>5
  <1> HIDE DEF m
  <1>13. ASSUME repeat = "off", k \in 1 .. n PROVE GoesTo(t, s[k])
    <2>1. n > 1 /\ c + 1 < n /\ k = c + 2
      <3>1. c \in Int
        BY <1>1, <1>5, SMT
      <3>2. c >= 0
        BY <1>1, <1>2, <1>5, SMT
      <3>3. QED
        BY <1>1, <1>13, <3>1, <3>2, SMT
    <2>2. /\ c \in 0 .. n - 1 /\ c = Rotate(q, q.index) /\ m \in Nat \ {0}
          /\ Len(q.list) # 0 /\ u[c + 1] = s[c + 2] /\ c + 1 \in 1 .. m
      BY <1>11, <1>12, <2>1
    <2>3. /\ c + 0 \in 0 .. m - 1 /\ q.first + (c + 1) - 1 = (c + 0) + q.first
      BY <1>1, <1>7, <2>2, SMT
    <2>4. index = ((c + 0) + q.first) % m /\ index \in 0 .. m - 1
      <3>1. 0 \in Int
        BY SMT
      <3>2. QED
        BY <1>4, <1>13, <2>2, <2>3, <3>1, NextFound DEF index
    <2>5. u[c + 1] = At(q, (q.first + (c + 1) - 1) % m)
      BY <1>4, <2>2, DisplayedAt DEF u
    <2>6. QED
      BY <1>10, <2>1, <2>2, <2>3, <2>4, <2>5
  <1>14. ASSUME repeat = "all", 1 < n PROVE GoesTo(t, s[((k - 1) % n) + 1])
    <2>1. n > 1
      BY <1>1, <1>14, SMT
    <2>2. c \in 0 .. n - 1 /\ m \in Nat \ {0} /\ Len(q.list) # 0 /\ c \in Int
      <3>1. c \in 0 .. n - 1 /\ m \in Nat \ {0} /\ Len(q.list) # 0
        BY <1>11, <1>12, <2>1
      <3>2. QED
        BY <1>1, <3>1, SMT
    <2>3. index = (x + 0) % m /\ index \in 0 .. m - 1
      <3>1. 0 < m /\ 0 \in Int
        BY <2>2, SMT
      <3>2. QED
        BY <1>4, <1>14, <2>2, <3>1, NextFound DEF index
    <2>4. x + 0 = x /\ k - 1 = c + 1
      BY <1>1, <2>2, SMT
    <2>5. CASE c + 1 < n
      <3>1. /\ u[c + 1] = s[c + 2] /\ c + 1 \in 1 .. m
            /\ q.first + c = x \/ q.first + c = x + m * 1
        BY <1>11, <1>12, <2>1, <2>5
      <3>2. (c + 1) % n = c + 1
        <4>1. c + 1 \in 0 .. n - 1 /\ n * 0 + (c + 1) = c + 1 /\ n \in Nat \ {0} /\ 0 \in Int
          BY <1>1, <2>2, <2>5, SMT
        <4>2. (n * 0 + (c + 1)) % n = c + 1
          BY <4>1, ModUnique
        <4>3. QED
          BY <4>1, <4>2
      <3>3. c + 1 + 1 = c + 2 /\ q.first + (c + 1) - 1 = q.first + c /\ 1 \in Int
        BY <1>7, <2>2, SMT
      <3>4. (x + m * 1) % m = x % m
        BY <1>1, <2>2, <3>3, ModPlus
      <3>5. (q.first + c) % m = x % m
        BY <3>1, <3>4
      <3>6. u[c + 1] = At(q, (q.first + (c + 1) - 1) % m)
        BY <1>4, <2>2, <3>1, DisplayedAt DEF u
      <3>7. QED
        BY <1>10, <2>3, <2>4, <3>1, <3>2, <3>3, <3>5, <3>6
    <2>6. CASE ~(c + 1 < n)
      <3>1. /\ u[1] = s[1] /\ 1 \in 1 .. m /\ c + 1 = n
            /\ x = q.first \/ x = q.first + m * 1
        BY <1>11, <1>12, <2>1, <2>6
      <3>2. n % n = 0
        <4>1. 0 \in 0 .. n - 1 /\ n * 1 + 0 = n /\ n \in Nat \ {0} /\ 1 \in Int
          BY <1>1, <2>1, SMT
        <4>2. (n * 1 + 0) % n = 0
          BY <4>1, ModUnique
        <4>3. QED
          BY <4>1, <4>2
      <3>3. 0 + 1 = 1 /\ q.first + 1 - 1 = q.first /\ 1 \in Int
        BY <1>7, SMT
      <3>4. (q.first + m * 1) % m = q.first % m
        BY <1>7, <2>2, <3>3, ModPlus
      <3>5. x % m = q.first % m
        BY <3>1, <3>4
      <3>6. u[1] = At(q, (q.first + 1 - 1) % m)
        BY <1>4, <2>2, <3>1, DisplayedAt DEF u
      <3>7. QED
        BY <1>10, <2>3, <2>4, <3>1, <3>2, <3>3, <3>5, <3>6
    <2>7. QED
      BY <2>5, <2>6
  <1>15. QED
    BY <1>13, <1>14 DEF n, x, c, t, s

\* If no track is queued, none is dropped.
LEMMA NoneDropped ==
    ASSUME NEW p, GoodPlaylist(p), \A e \in Entries(p) : ~e.queued, NEW f, NEW s,
           NEW i \in Nat, NEW repeat
    PROVE  DropQueued([list |-> p, file |-> f, steps |-> s], i, repeat) =
              [list |-> p, file |-> f, steps |-> s]
  <1> DEFINE all == [list |-> p, file |-> f, steps |-> s]
             k == GetNextIndex(p, i, repeat)
  <1>1. k >= 0 => k \in 0 .. Len(p.list) - 1
    <2>1. i \in Int
      BY SMT
    <2>2. QED
      BY <2>1, NextIndexFacts
  <1>2. ASSUME k >= 0 PROVE ~At(p, k).queued
    <2>1. p.list \in Seq(Track) /\ Len(p.list) \in Nat
      BY ListTypes
    <2>2. k \in 0 .. Len(p.list) - 1
      BY <1>1, <1>2
    <2> HIDE DEF k
    <2>3. k + 1 \in 1 .. Len(p.list)
      BY <2>1, <2>2, SMT
    <2>4. p.list[k + 1] \in ToSet(p.list)
      BY <2>1, <2>3, TrackFacts
    <2>5. QED
      BY <2>4 DEF At, Entries
  <1>3. all.list = p
    OBVIOUS
  <1> HIDE DEF all
  <1>4. DropQueued(all, i, repeat) = all
    BY <1>2, <1>3 DEF DropQueued
  <1>5. QED
    BY <1>4 DEF all

\* Where playlist_next goes, in all the cases that are promised.
LEMMA NextShown ==
    ASSUME NEW p, GoodPlaylist(p), HasCurrent(p), NEW f, NEW s \in Int,
           NEW repeat \in {"off", "all"},
           s < 2 \/ \A e \in Entries(p) : ~e.queued
    PROVE  LET n == Len(p.list)
               k == Rotate(p, p.index) + 1 + s
               t == NextTrack(p, f, s, repeat, repeat)
           IN  /\ repeat = "off" /\ k \in 1 .. n => GoesTo(t, Displayed(p)[k])
               /\ repeat = "all" /\ s < n => GoesTo(t, Displayed(p)[((k - 1) % n) + 1])
  <1> DEFINE all == [list |-> p, file |-> f, steps |-> s]
  <1>1. CASE all = IF s <= 0 \/ repeat = "one" THEN all ELSE Passed(all, s, repeat)
    <2> HIDE DEF all
    <2>1. all = [list |-> p, file |-> f, steps |-> s]
      BY DEF all
    <2>2. QED
      BY <1>1, <2>1, PlainNext
  <1>2. CASE all # IF s <= 0 \/ repeat = "one" THEN all ELSE Passed(all, s, repeat)
    <2>1. s > 0 /\ s \in Nat /\ Passed(all, s, repeat) # all
      <3> HIDE DEF all
      <3>1. ~(s <= 0) /\ Passed(all, s, repeat) # all
        BY <1>2
      <3>2. QED
        BY <3>1, SMT
    <2>2. ~\A i \in Nat : DropQueued(all, i, repeat) = all
      <3> HIDE DEF all
      <3>1. QED
        BY <2>1, NothingPassed
    <2>3. s < 2
      BY <2>2, NoneDropped
    <2>4. s = 1
      BY <2>1, <2>3, SMT
    <2>5. DropQueued(all, 0, repeat) # all
      <3> HIDE DEF all
      <3>1. QED
        BY <2>1, <2>4, OnePassed
    <2>6. Current(p).queued
      <3>1. all.list = p
        OBVIOUS
      <3> HIDE DEF all
      <3>2. GetNextIndex(all.list, 0, repeat) = p.index
        BY <3>1, NoStep
      <3>3. QED
        BY <2>5, <3>1, <3>2 DEF DropQueued, Current
    <2>7. QED
      BY <2>4, <2>6, DroppedNext
  <1>3. QED
    BY <1>1, <1>2

\* What the invariant says of going on.
LEMMA InvariantKeepsNext == ASSUME IInv, Playing PROVE NextFollows
  <1> DEFINE p == playlist
             n == Len(p.list)
             old == Displayed(p)
             T(s, repeat) == NextTrack(p, file, s, repeat, repeat)
  <1>1. GoodPlaylist(p) /\ HasCurrent(p) /\ p \in AnyLists /\ p.first \in 0 .. n
    <2>1. GoodPlaylist(p) /\ HasCurrent(p)
      BY DEF IInv, Playing
    <2>2. QED
      BY <2>1, ListTypes, AnyIsMore DEF GoodPlaylist, Placed
  <1>2. Len(old) = n /\ DOMAIN old = 1 .. n
    <2>1. old \in Seq(AnyTrack) /\ Len(old) = n
      BY <1>1, DisplayedFacts
    <2>2. QED
      BY <2>1, LenProperties
  <1>3. PlaceOf(old, Current(p)) = Rotate(p, p.index) + 1
    <2>1. p.index \in 0 .. n - 1
      BY <1>1 DEF HasCurrent, Amount
    <2>2. QED
      BY <1>1, <2>1, PlaceShown DEF Current
  <1>4. ASSUME NEW s \in Steps, s < 2 \/ \A e \in Entries(p) : ~e.queued,
               NEW k, k = PlaceOf(old, Current(p)) + s
        PROVE  /\ k \in DOMAIN old => GoesTo(T(s, "off"), old[k])
               /\ s < Len(old) => GoesTo(T(s, "all"), old[((k - 1) % Len(old)) + 1])
    <2>1. s \in Int
      BY PlaylistAssumption
    <2>2. k = Rotate(p, p.index) + 1 + s
      BY <1>3, <1>4
    <2>3. "off" \in {"off", "all"} /\ "all" \in {"off", "all"}
      OBVIOUS
    <2>4. \A repeat \in {"off", "all"} :
             /\ repeat = "off" /\ k \in 1 .. n => GoesTo(T(s, repeat), old[k])
             /\ repeat = "all" /\ s < n => GoesTo(T(s, repeat), old[((k - 1) % n) + 1])
      BY <1>1, <1>4, <2>1, <2>2, NextShown
    <2> HIDE DEF T, old, n
    <2>5. QED
      BY <1>2, <2>3, <2>4
  <1> HIDE DEF n, old
  <1>5. QED
    BY <1>4 DEF NextFollows, GoesTo, old

\* What it says of what is displayed.
LEMMA InvariantDisplays == IInv => AsDisplayed
  BY InvariantKeepsOrder, InvariantKeepsNext DEF AsDisplayed

-------------------------------------------------------------------------------
(* The theorems.                                                             *)

\* The lists, in memory and in the file, are good ones, and what the control
\* file gives is what is in memory, after every call.
THEOREM Invariance == ASSUME Kept PROVE Spec => []IInv
  <1>1. Init => IInv
    BY EmptyIsGood DEF Init, IInv
  <1>2. IInv /\ [Next]_vars => IInv'
    <2> SUFFICES ASSUME IInv, [Next]_vars PROVE IInv'
      OBVIOUS
    <2>1. CASE Create
      BY <2>1, CreateStep
    <2>2. CASE RemoveAll
      BY <2>2, RemoveAllStep
    <2>3. CASE InsertAny
      BY <2>3, InsertStep
    <2>4. CASE Shutdown
      BY <2>4, ShutdownStep
    <2>5. CASE Crash
      BY <2>5, CrashStep
    <2>6. CASE \E i \in Places : Delete(i) \/ Start(i)
      BY <2>6, DeleteStep, StartStep
    <2>7. CASE \E i, j \in Places : Move(i, j)
      BY <2>7, MoveStep
    <2>8. CASE \E s \in Steps, m \in Repeats : PlaylistNext(s, m[1], m[2])
      BY <2>8, PlaylistNextStep
    <2>9. CASE \E i \in Places, seed \in Seeds, c \in BOOLEAN : ShuffleAndStart(i, seed, c)
      BY <2>9, ShuffleAndStartStep
    <2>10. CASE Sort(TRUE)
      BY <2>10, SortStep
    <2>11. CASE \E seed \in Seeds : Randomise(seed)
      BY <2>11, RandomiseStep
    <2>12. CASE UNCHANGED vars
      BY <2>12 DEF vars, IInv
    <2>13. QED
      BY <2>1, <2>2, <2>3, <2>4, <2>5, <2>6, <2>7, <2>8, <2>9, <2>10, <2>11, <2>12 DEF Next
  <1>3. QED
    BY <1>1, <1>2, PTL DEF Spec

\* What the invariant says of a restart.
LEMMA InvariantRestores == IInv => Restored
  <1> SUFFICES ASSUME IInv PROVE Restored
    OBVIOUS
  <1> DEFINE p == playlist
             f == file
             n == Len(playlist.list)
  <1>1. GoodPlaylist(p) /\ GoodFile(f) /\ GoodFile(disk) /\ InSync(p, f)
    BY DEF IInv
  <1>2. ASSUME NEW q \in {playlist, file, disk}
        PROVE  /\ Amount(q) <= MaxAmount /\ IsInjective(q.list)
               /\ q.first \in 0 .. Amount(q) /\ q.last \in -1 .. MaxAmount
               /\ \A e \in Entries(q) : e.seek \in 1 .. MaxSeek /\ e.queued \in BOOLEAN
    <2>1. Placed(q)
      BY <1>1 DEF GoodPlaylist, GoodFile
    <2>2. /\ q.list \in Seq(Track) /\ Distinct(q.list) /\ Len(q.list) <= MaxAmount
          /\ q.first \in 0 .. Len(q.list) /\ q.last \in -1 .. Len(q.list) - 1
      BY <2>1 DEF Placed, GoodList
    <2>3. IsInjective(q.list)
      BY <2>2, NoRepetition DEF Distinct
    <2>4. Len(q.list) \in Nat /\ \A e \in Entries(q) : e \in Track
      BY <2>2, TrackFacts DEF Entries
    <2>5. \A e \in Entries(q) : e.seek \in 1 .. MaxSeek /\ e.queued \in BOOLEAN
      BY <2>4 DEF Track
    <2>6. q.last \in -1 .. MaxAmount
      BY <2>2, <2>4, PlaylistAssumption, SMT
    <2>7. QED
      BY <2>2, <2>3, <2>5, <2>6 DEF Amount
  <1>3. TypeOK
    BY <1>1, <1>2 DEF TypeOK, GoodPlaylist, Amount
  <1>4. /\ f.list = p.list /\ f.first = p.first
        /\ f.last = p.last \/ (f.last = 0 /\ p.last = -1 /\ p.index = 0 /\ n = 1)
    BY <1>1 DEF InSync
  <1>5. /\ InsertAfter(p) = IF p.last \in 0 .. n - 1 THEN p.last ELSE p.index
        /\ InsertAfter(f) = IF f.last \in 0 .. n - 1 THEN f.last ELSE p.index
    BY <1>4 DEF InsertAfter, Amount
  <1>6. InsertAfter(f) = InsertAfter(p)
    <2>1. CASE f.last = p.last
      BY <1>5, <2>1
    <2>2. CASE f.last = 0 /\ p.last = -1 /\ p.index = 0 /\ n = 1
      <3>1. 0 \in 0 .. 1 - 1 /\ -1 \notin 0 .. 1 - 1
        BY SMT
      <3>2. QED
        BY <1>5, <2>2, <3>1
    <2>3. QED
      BY <1>4, <2>1, <2>2
  <1>7. QED
    BY <1>3, <1>4, <1>6 DEF Restored

\* The control file always gives the list as it is, its first track, and the
\* place where insertions go on.
THEOREM RestoredAlways == ASSUME Kept PROVE Spec => []Restored
  <1>1. IInv => Restored
    BY InvariantRestores
  <1>2. Spec => []IInv
    BY Invariance
  <1>3. QED
    BY <1>1, <1>2, PTL

\* Whatever is put in, taken out, moved, shuffled or sorted around it, the track
\* that plays stays the current one.
THEOREM CurrentStaysAlways == ASSUME Kept PROVE Spec => []CurrentStays
  <1>1. IInv => CurrentStays
    BY InvariantKeepsCurrent
  <1>2. Spec => []IInv
    BY Invariance
  <1>3. QED
    BY <1>1, <1>2, PTL

\* What is displayed changes as asked, wherever in the array the list begins, and
\* playback goes on with the track displayed next.
THEOREM AsDisplayedAlways == ASSUME Kept PROVE Spec => []AsDisplayed
  <1>1. IInv => AsDisplayed
    BY InvariantDisplays
  <1>2. Spec => []IInv
    BY Invariance
  <1>3. QED
    BY <1>1, <1>2, PTL
===============================================================================
