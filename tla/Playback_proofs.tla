--------------------------- MODULE Playback_proofs ---------------------------
(***************************************************************************)
(* Machine-checked proofs about Playback, for any tracks and directories,  *)
(* any room in the buffer, any tracks that cannot be read, are too big or  *)
(* fail to decode, any formats and any commands.                           *)
(*                                                                         *)
(* The list of tracks is a stretch of the playlist, counted along what is  *)
(* left of the current directory: it ends where the loading of tracks      *)
(* stands, and its current track is where the playlist's index is, or one  *)
(* step on when the codec has ended a track that is still heard.  Every    *)
(* handler is an operator from states to states, so the proofs say of one  *)
(* after the other that it takes a state at work, or at rest, to one for   *)
(* which the invariant Holds.  Seek mode needs a count of its own: it is   *)
(* owed its end by a held key, a seek on its way or the codec.             *)
(***************************************************************************)
EXTENDS Playback, FiniteSetTheorems, SequenceTheorems, WellFoundedInduction, TLAPS

-------------------------------------------------------------------------------
(* The invariant.                                                            *)

\* The tracks of the directory that are still to be played, and how many of
\* them are in front of t.
Left(a) == Directory(a.pl) \ a.skipped
InFront(D, t) == Cardinality({u \in D : u < t})

\* t is the track k steps on from the index.
StepsOn(a, t, k) ==
    t \in Left(a) /\ InFront(Left(a), t) = InFront(Left(a), a.pl) + k

\* The list is a stretch of the playlist that ends where the loading stands,
\* and its current track is off steps on from the index.  Without a list the
\* loading stands in front of that track, or the playlist ends there.
Along(a, off) ==
    /\ \A i \in DOMAIN a.list : StepsOn(a, a.list[i].track, a.peek - Len(a.list) + i)
    /\ a.list # <<>> => a.peek - Len(a.list) + a.cur = off
    /\ a.list # <<>> /\ a.peek - Len(a.list) + 1 < 0 => a.pl \in Left(a)
    /\ a.list = <<>> => /\ a.peek >= -1
                        /\ a.peek + 1 = off \/ \A t \in Tracks : ~StepsOn(a, t, a.peek + 1)
Off(a) == IF a.skip = "auto" THEN 1 ELSE 0

\* The list is well formed, and a track is being loaded at its end only.
Entries == [track : Tracks, id : Nat \ {0}, meta : BOOLEAN, ready : BOOLEAN]
Listed(a) ==
    /\ a.list \in Seq(Entries) /\ a.loading \in Nat
    /\ a.cur \in 0 .. Len(a.list) /\ (a.cur = 0 <=> a.list = <<>>)
    /\ \A i, j \in DOMAIN a.list : a.list[i].id = a.list[j].id => i = j
    /\ a.loading # 0 => a.list # <<>> /\ a.list[Len(a.list)].id = a.loading
    /\ \A i \in DOMAIN a.list : a.list[i].id = a.loading => ~a.list[i].ready

\* A track is the current one while it loads only if it is alone, and one for
\* which there is no room stays without room.
TooBigYet(a) ==
    LET last == a.list[Len(a.list)]
    IN  last.meta /\ last.track \notin Unreadable /\ last.track \in TooBig /\ Len(a.list) > 1
Loading(a) ==
    a.loading # 0 => /\ a.cur = Len(a.list) => a.cur = 1
                     /\ a.filling = "full" => TooBigYet(a)

MessageTypes == {"complete", "seeked", "changed", "low", "rebuffer", "fill", "loaded",
    "play", "stop", "pause", "skip", "dirskip", "preseek", "seek", "flush"}
Mail == [type : MessageTypes, arg : Nat]

HasSeek(q) == \E i \in DOMAIN q : q[i].type = "seek"
Owed(q) == \E i \in DOMAIN q : /\ q[i].type = "preseek"
                               /\ \A j \in DOMAIN q : j > i => q[j].type # "seek"

AudioFields == {"pl", "skipped", "peek", "list", "cur", "loading", "filling", "skip",
    "status", "stat", "queue", "next", "wait", "res", "then", "delta", "unpause",
    "cskip", "seeking", "ffrw", "shown"}
UserFields == {"left", "skip", "hold", "over", "lost"}
Places == {"idle", "unload", "load", "loaded", "went", "stop2", "stop3", "stop4",
    "play2", "restart2", "skip2", "dir2", "seek2"}
Stopping == {"stop2", "stop3", "stop4"}
Halting == Stopping \cup {"play2", "restart2", "skip2", "dir2", "seek2"}

Basic(a) ==
    /\ DOMAIN a = AudioFields
    /\ a.pl \in Int /\ a.skipped \subseteq Tracks /\ a.peek \in Int /\ a.delta \in Int
    /\ a.skip \in {"none", "auto", "newlist", "end"}
    /\ a.queue \in Seq(Mail)
Typed(a) == Basic(a) /\ Listed(a)
Shape(s) == DOMAIN s = {"a", "p", "c", "u"} /\ DOMAIN s.u = UserFields

\* Seek mode is on only while a key is held, a seek is on its way or done.
Calm(s) == s.a.ffrw /\ ~s.u.hold /\ ~HasSeek(s.a.queue) => s.a.seeking

Sound(s) ==
    /\ Shape(s) /\ Typed(s.a) /\ Loading(s.a) /\ s.u.skip \in Int
    /\ Owed(s.a.queue) => s.u.hold
Holds(s) ==
    /\ Sound(s)
    /\ s.a.next \in Places
    /\ s.a.status = "stopped" =>
         s.a.next = "idle" /\ ~s.a.ffrw /\ s.a.list = <<>> /\ s.a.skip = "none"
    /\ s.a.filling = "off" => s.a.status = "stopped" \/ s.a.next \in Stopping
    /\ s.a.next \notin Halting => Calm(s)
    /\ s.a.status # "stopped" /\ s.a.next \notin Stopping => Along(s.a, Off(s.a))
IInv == Holds(State)

\* A set of numbers with a member has a least one.
LEMMA SmallestOf ==
    ASSUME NEW S \in SUBSET Nat, S # {}
    PROVE  Min(S) \in S /\ \A x \in S : Min(S) <= x
  <1> DEFINE R == OpToRel(<, Nat)
  <1>1. IsWellFoundedOn(R, Nat)
    BY NatLessThanWellFounded
  <1> HIDE DEF R
  <1>2. PICK x \in S : \A y \in S : ~(<<y, x>> \in R)
    <2>1. \E x \in S : \A y \in S : ~(<<y, x>> \in R)
      BY <1>1, WFMin
    <2>2. QED
      BY <2>1
  <1>3. \A y \in S : x <= y
    <2>1. \A y \in Nat : y < x => <<y, x>> \in R
      BY DEF R, OpToRel
    <2>2. x \in Nat /\ \A y \in S : y \in Nat
      OBVIOUS
    <2>3. \A y \in S : ~(y < x)
      BY <1>2, <2>1, <2>2
    <2>4. QED
      BY <2>2, <2>3, SMT
  <1>4. QED
    BY <1>3 DEF Min

-------------------------------------------------------------------------------
\* Where a track is in its directory.

\* The tracks are finitely many positive numbers, and so are those of any directory.
LEMMA TracksFinite ==
    /\ IsFiniteSet(Tracks) /\ Tracks \in SUBSET (Nat \ {0})
    /\ \A D \in SUBSET Tracks : IsFiniteSet(D) /\ D \in SUBSET Int
  <1>1. IsFiniteSet(Tracks) /\ Tracks = 1 .. Cardinality(Tracks)
    BY TrackListAssumption
  <1>2. Cardinality(Tracks) \in Nat
    BY <1>1, FS_CardinalityType
  <1>3. \A n \in Nat : 1 .. n \subseteq Nat \ {0} /\ 1 .. n \subseteq Int
    BY SMT
  <1>4. Tracks \subseteq Nat \ {0} /\ Tracks \subseteq Int
    BY <1>1, <1>2, <1>3
  <1>5. QED
    BY <1>1, <1>4, FS_Subset

\* Those in front of t are fewer than those in front of what comes after it.
LEMMA InFrontFacts ==
    ASSUME NEW D \in SUBSET Tracks, NEW t \in Int, NEW v \in Int
    PROVE  /\ InFront(D, t) \in Nat
           /\ t <= v => InFront(D, t) <= InFront(D, v)
           /\ t < v /\ t \in D => InFront(D, t) < InFront(D, v)
           /\ t \in D /\ v \in D /\ InFront(D, t) = InFront(D, v) => t = v
  <1> DEFINE F(x) == {u \in D : u < x}
  <1>1. IsFiniteSet(D) /\ D \in SUBSET Int
    BY TracksFinite
  <1>2. ASSUME NEW x \in Int PROVE IsFiniteSet(F(x)) /\ Cardinality(F(x)) \in Nat
    <2>1. F(x) \in SUBSET D
      OBVIOUS
    <2>2. QED
      BY <1>1, <2>1, FS_Subset, FS_CardinalityType
  <1>3. ASSUME NEW x \in Int, NEW y \in Int, x <= y
        PROVE  /\ Cardinality(F(x)) <= Cardinality(F(y))
               /\ x < y /\ x \in D => Cardinality(F(x)) < Cardinality(F(y))
    <2>1. F(x) \in SUBSET F(y)
      <3>1. \A u \in D : u < x => u < y
        BY <1>1, <1>3, SMT
      <3>2. QED
        BY <3>1
    <2>2. Cardinality(F(x)) <= Cardinality(F(y))
          /\ (Cardinality(F(y)) = Cardinality(F(x)) => F(x) = F(y))
      BY <1>2, <2>1, FS_Subset
    <2>3. x < y /\ x \in D => x \in F(y) /\ x \notin F(x)
      <3>1. ~(x < x)
        BY SMT
      <3>2. QED
        BY <3>1
    <2>4. x < y /\ x \in D => Cardinality(F(y)) # Cardinality(F(x))
      BY <2>2, <2>3
    <2>5. Cardinality(F(x)) \in Nat /\ Cardinality(F(y)) \in Nat
      BY <1>2
    <2> HIDE DEF F
    <2>6. QED
      BY <2>2, <2>4, <2>5, SMT
  <1>4. InFront(D, t) = Cardinality(F(t)) /\ InFront(D, v) = Cardinality(F(v))
    BY DEF InFront
  <1> HIDE DEF F
  <1>5. Cardinality(F(t)) \in Nat /\ Cardinality(F(v)) \in Nat
    BY <1>2
  <1>6. t < v => t <= v /\ Cardinality(F(t)) <= Cardinality(F(v))
                 /\ (t \in D => Cardinality(F(t)) < Cardinality(F(v)))
    BY <1>3, SMT
  <1>7. v < t => v <= t /\ Cardinality(F(v)) <= Cardinality(F(t))
                 /\ (v \in D => Cardinality(F(v)) < Cardinality(F(t)))
    BY <1>3, SMT
  <1>8. t < v \/ t = v \/ v < t
    BY SMT
  <1>9. QED
    BY <1>4, <1>5, <1>6, <1>7, <1>8, SMT

\* A set of tracks is split at any place.
LEMMA SplitAt ==
    ASSUME NEW D \in SUBSET Tracks, NEW t \in Int, NEW v \in Int, t <= v
    PROVE  InFront(D, v) = InFront(D, t) + Cardinality({u \in D : t <= u /\ u < v})
           /\ Cardinality({u \in D : t <= u /\ u < v}) \in Nat
  <1> DEFINE F == {u \in D : u < t}
             G == {u \in D : t <= u /\ u < v}
             H == {u \in D : u < v}
  <1>1. IsFiniteSet(D) /\ D \in SUBSET Int
    BY TracksFinite
  <1>2. \A u \in D : (u < v <=> u < t \/ (t <= u /\ u < v)) /\ ~(u < t /\ t <= u)
    BY <1>1, SMT
  <1>3. H = F \cup G /\ F \cap G = {}
    BY <1>2
  <1>4. /\ IsFiniteSet(F) /\ IsFiniteSet(G)
        /\ Cardinality(F) \in Nat /\ Cardinality(G) \in Nat
    BY <1>1, FS_Subset, FS_CardinalityType
  <1>5. Cardinality(H) = Cardinality(F) + Cardinality(G) - Cardinality(F \cap G)
    BY <1>3, <1>4, FS_Union
  <1>6. Cardinality(F \cap G) = 0
    BY <1>3, FS_EmptySet
  <1>7. Cardinality(H) = Cardinality(F) + Cardinality(G)
    BY <1>4, <1>5, <1>6, SMT
  <1>8. QED
    BY <1>4, <1>7 DEF InFront

-------------------------------------------------------------------------------
(* Messages.                                                                 *)

\* Between q and r no seek has been lost and none has become owed.
Adds(q, r) == q \in Seq(Mail) => /\ r \in Seq(Mail)
                                 /\ HasSeek(q) => HasSeek(r)
                                 /\ Owed(r) => Owed(q)

\* What is added to the queue in two goes is added.
LEMMA AddsMore ==
    ASSUME NEW q, NEW r, NEW x, Adds(q, r), Adds(r, x)
    PROVE  Adds(q, x)
  BY DEF Adds

\* A queue that stays as it is has nothing added to it.
LEMMA AddsNothing == \A q : Adds(q, q)
  BY DEF Adds

\* A message is posted.
LEMMA Posted ==
    ASSUME NEW q \in Seq(Mail), NEW m \in Mail
    PROVE  /\ Append(q, m) \in Seq(Mail)
           /\ HasSeek(q) \/ m.type = "seek" => HasSeek(Append(q, m))
           /\ m.type # "preseek" => (Owed(Append(q, m)) => Owed(q))
           /\ m.type = "seek" => ~Owed(Append(q, m))
  <1> DEFINE r == Append(q, m)
             n == Len(q)
  <1>1. n \in Nat /\ DOMAIN q = 1 .. n /\ r \in Seq(Mail) /\ DOMAIN r = 1 .. n + 1
    OBVIOUS
  <1>2. (\A i \in 1 .. n : r[i] = q[i]) /\ r[n + 1] = m
    OBVIOUS
  <1> HIDE DEF r, n
  <1>3. \A i : i \in 1 .. n + 1 <=> i \in 1 .. n \/ i = n + 1
    BY <1>1, SMT
  <1>4. \A i \in 1 .. n : i < n + 1
    BY <1>1, SMT
  <1>5. HasSeek(q) \/ m.type = "seek" => HasSeek(r)
    BY <1>1, <1>2, <1>3 DEF HasSeek
  <1>6. m.type = "seek" => ~Owed(r)
    BY <1>1, <1>2, <1>3, <1>4 DEF Owed
  <1>7. ASSUME m.type # "preseek", Owed(r) PROVE Owed(q)
    <2>1. PICK i \in DOMAIN r : /\ r[i].type = "preseek"
                                /\ \A j \in DOMAIN r : j > i => r[j].type # "seek"
      BY <1>7 DEF Owed
    <2>2. i \in 1 .. n
      BY <1>1, <1>2, <1>3, <1>7, <2>1
    <2>3. q[i].type = "preseek" /\ \A j \in 1 .. n : j > i => q[j].type # "seek"
      BY <1>1, <1>2, <1>3, <2>1, <2>2
    <2>4. QED
      BY <1>1, <2>2, <2>3 DEF Owed
  <1>8. QED
    BY <1>1, <1>5, <1>6, <1>7 DEF r

\* The first message is taken.
LEMMA Popped ==
    ASSUME NEW q \in Seq(Mail), q # <<>>
    PROVE  /\ Head(q) \in Mail /\ Tail(q) \in Seq(Mail)
           /\ Owed(Tail(q)) => Owed(q)
           /\ HasSeek(q) => HasSeek(Tail(q)) \/ Head(q).type = "seek"
           /\ Head(q).type = "preseek" => HasSeek(Tail(q)) \/ Owed(q)
  <1> DEFINE r == Tail(q)
             n == Len(q)
  <1>1. n \in Nat /\ n > 0 /\ DOMAIN q = 1 .. n /\ r \in Seq(Mail) /\ DOMAIN r = 1 .. n - 1
        /\ Head(q) = q[1] /\ Head(q) \in Mail
    OBVIOUS
  <1>2. \A i \in 1 .. n - 1 : r[i] = q[i + 1]
    OBVIOUS
  <1> HIDE DEF r, n
  <1>3. \A i \in 1 .. n - 1 : i + 1 \in 1 .. n /\ i + 1 > 1
    BY <1>1, SMT
  <1>4. \A i \in 1 .. n : i = 1 \/ (i - 1 \in 1 .. n - 1 /\ i - 1 + 1 = i)
    BY <1>1, SMT
  <1>5. \A i \in 1 .. n : i = 1 \/ (i - 1 \in 1 .. n - 1 /\ r[i - 1] = q[i])
    BY <1>2, <1>4
  <1>6. 1 \in 1 .. n
    BY <1>1, SMT
  <1>7. HasSeek(q) => HasSeek(r) \/ q[1].type = "seek"
    BY <1>1, <1>5 DEF HasSeek
  <1>8. ASSUME Owed(r) PROVE Owed(q)
    <2>1. PICK i \in DOMAIN r : /\ r[i].type = "preseek"
                                /\ \A j \in DOMAIN r : j > i => r[j].type # "seek"
      BY <1>8 DEF Owed
    <2>2. i + 1 \in 1 .. n /\ q[i + 1].type = "preseek"
      BY <1>1, <1>2, <1>3, <2>1
    <2>3. \A j \in 1 .. n : j > i + 1 => j # 1 /\ j - 1 > i
      BY <1>1, <2>1, SMT
    <2>4. \A j \in 1 .. n : j > i + 1 => q[j].type # "seek"
      BY <1>1, <1>5, <2>1, <2>3
    <2>5. QED
      BY <1>1, <2>2, <2>4 DEF Owed
  <1>9. ASSUME q[1].type = "preseek", ~HasSeek(r) PROVE Owed(q)
    <2>1. \A j \in 1 .. n : j > 1 => q[j].type # "seek"
      <3>1. \A j \in 1 .. n : j > 1 => j # 1
        BY SMT
      <3>2. QED
        BY <1>1, <1>5, <1>9, <3>1 DEF HasSeek
    <2>2. QED
      BY <1>1, <1>6, <1>9, <2>1 DEF Owed
  <1>10. QED
    BY <1>1, <1>7, <1>8, <1>9 DEF r

-------------------------------------------------------------------------------
\* Dropping the notifications about the track.

\* The messages have been looked through up to any place.
KeptTo(g, q, n) == g = [i \in 0 .. n |-> IF i = 0 THEN <<>>
                                         ELSE IF q[i].type \in Stale THEN g[i - 1]
                                         ELSE Append(g[i - 1], q[i])]

\* The messages of the first n places that are not stale can be counted off one by one.
LEMMA KeptExists ==
    ASSUME NEW q, NEW n \in Nat
    PROVE  \E g : KeptTo(g, q, n)
  <1> DEFINE Missing == {m \in 0 .. n : ~\E g : KeptTo(g, q, m)}
  <1>1. SUFFICES Missing = {}
    <2>1. n \in 0 .. n
      BY SMT
    <2>2. QED
      BY <1>1, <2>1
  <1>2. SUFFICES ASSUME Missing # {} PROVE FALSE
    OBVIOUS
  <1>3. Missing \in SUBSET Nat
    BY SMT
  <1>4. Min(Missing) \in Missing /\ \A x \in Missing : Min(Missing) <= x
    BY <1>2, <1>3, SmallestOf
  <1> DEFINE m == Min(Missing)
  <1>5. m \in 0 .. n /\ m \in Nat /\ ~\E g : KeptTo(g, q, m)
    BY <1>3, <1>4
  <1>6. \A x \in 0 .. n : x < m => \E g : KeptTo(g, q, x)
    <2>1. \A x \in 0 .. n : x < m => ~(m <= x)
      BY <1>5, SMT
    <2>2. QED
      BY <1>4, <2>1
  <1> HIDE DEF Missing, m
  <1>7. CASE m = 0
    <2> DEFINE g == [i \in 0 .. 0 |-> <<>>]
    <2>1. \A i \in 0 .. 0 : i = 0
      BY SMT
    <2>2. g = [i \in 0 .. 0 |-> IF i = 0 THEN <<>>
                                ELSE IF q[i].type \in Stale THEN g[i - 1]
                                ELSE Append(g[i - 1], q[i])]
      BY <2>1
    <2>3. KeptTo(g, q, m)
      BY <1>7, <2>2 DEF KeptTo
    <2>4. QED
      BY <1>5, <2>3
  <1>8. CASE m # 0
    <2>1. m - 1 \in 0 .. n /\ m - 1 < m
      BY <1>5, <1>8, SMT
    <2>2. PICK g : KeptTo(g, q, m - 1)
      BY <1>6, <2>1
    <2> DEFINE on(f, i) == IF i = 0 THEN <<>>
                           ELSE IF q[i].type \in Stale THEN f[i - 1]
                           ELSE Append(f[i - 1], q[i])
               h == [i \in 0 .. m |-> on(g, i)]
    <2>3. \A i \in 0 .. m - 1 : i \in 0 .. m
      BY <1>5, SMT
    <2>4. g = [i \in 0 .. m - 1 |-> on(g, i)]
      BY <2>2 DEF KeptTo
    <2> HIDE DEF on
    <2>5. \A i \in 0 .. m - 1 : h[i] = g[i]
      BY <2>3, <2>4, Zenon
    <2> HIDE DEF h
    <2>6. \A i \in 0 .. m : i = 0 \/ i - 1 \in 0 .. m - 1
      BY <1>5, SMT
    <2>7. \A i \in 0 .. m : on(h, i) = on(g, i)
      BY <2>5, <2>6 DEF on
    <2>8. h = [i \in 0 .. m |-> on(h, i)]
      BY <2>7, Zenon DEF h
    <2>9. KeptTo(h, q, m)
      BY <2>8 DEF KeptTo, on
    <2>10. QED
      BY <1>5, <2>9
  <1>9. QED
    BY <1>7, <1>8

\* Clearing stale notifications takes no other message out of the queue and adds none.
LEMMA NotStaleFacts ==
    ASSUME NEW q \in Seq(Mail)
    PROVE  NotStale(q) \in Seq(Mail) /\ Adds(q, NotStale(q))
  <1> DEFINE n == Len(q)
             g == CHOOSE g : KeptTo(g, q, n)
  <1>0. n \in Nat /\ DOMAIN q = 1 .. n
    OBVIOUS
  <1>1. KeptTo(g, q, n)
    BY <1>0, KeptExists, Zenon
  <1>2. NotStale(q) = g[n]
    BY DEF NotStale, KeptTo
  <1> HIDE DEF g
  <1>3. \A i \in 0 .. n : g[i] = IF i = 0 THEN <<>>
                                 ELSE IF q[i].type \in Stale THEN g[i - 1]
                                 ELSE Append(g[i - 1], q[i])
    BY <1>1 DEF KeptTo
  <1> DEFINE Good(i) ==
               /\ g[i] \in Seq(Mail)
               /\ (\E j \in 1 .. i : q[j].type = "seek") => HasSeek(g[i])
               /\ Owed(g[i]) => \E j \in 1 .. i : /\ q[j].type = "preseek"
                                                  /\ \A k \in 1 .. i : k > j => q[k].type # "seek"
             Bad == {i \in 0 .. n : ~Good(i)}
  <1> HIDE DEF n
  <1>4. SUFFICES Bad = {}
    <2>1. n \in 0 .. n
      BY <1>0, SMT
    <2>2. Good(n)
      BY <1>4, <2>1
    <2>3. QED
      BY <1>0, <1>2, <2>2, SMTT(30) DEF Adds, HasSeek, Owed
  <1> HIDE DEF Good
  <1>5. SUFFICES ASSUME Bad # {} PROVE FALSE
    OBVIOUS
  <1>6. Bad \in SUBSET Nat
    BY SMT
  <1>7. Min(Bad) \in Bad /\ \A x \in Bad : Min(Bad) <= x
    BY <1>5, <1>6, SmallestOf
  <1> DEFINE m == Min(Bad)
  <1>8. m \in 0 .. n /\ m \in Nat /\ ~Good(m)
    BY <1>6, <1>7
  <1>9. m # 0
    <2>1. ASSUME m = 0 PROVE FALSE
      <3>1. g[0] = <<>> /\ 0 \in 0 .. n
        BY <1>0, <1>3, SMT
      <3>2. \A j : j \notin 1 .. 0
        BY SMT
      <3>3. <<>> \in Seq(Mail) /\ DOMAIN <<>> = 1 .. 0
        OBVIOUS
      <3>4. ~Owed(<<>>)
        BY <3>2, <3>3, Zenon DEF Owed
      <3>5. Good(0)
        BY <3>1, <3>2, <3>3, <3>4 DEF Good
      <3>6. QED
        BY <1>8, <2>1, <3>5
    <2>2. QED
      BY <2>1
  <1>10. m - 1 \in 0 .. n /\ m - 1 \in Nat /\ m \in 1 .. n
    BY <1>0, <1>8, <1>9, SMT
  <1>11. Good(m - 1)
    <2>1. ~(m <= m - 1)
      BY <1>8, SMT
    <2>2. m - 1 \notin Bad
      BY <1>7, <2>1
    <2>3. QED
      BY <1>10, <2>2
  <1> HIDE DEF m, Bad
  <1>12. g[m] = IF q[m].type \in Stale THEN g[m - 1] ELSE Append(g[m - 1], q[m])
    BY <1>3, <1>8, <1>9
  <1>13. q[m] \in Mail
    BY <1>0, <1>10
  <1>14. \A j : j \in 1 .. m <=> j \in 1 .. m - 1 \/ j = m
    BY <1>8, <1>9, SMT
  <1>15. \A j \in 1 .. m - 1 : m > j /\ ~(j > m)
    BY <1>8, SMT
  <1>16. ~(m > m)
    BY <1>8, SMT
  <1>20. g[m - 1] \in Seq(Mail)
    BY <1>11 DEF Good
  <1>17. g[m] \in Seq(Mail)
    BY <1>12, <1>13, <1>20, Posted
  <1>18. ASSUME NEW j \in 1 .. m, q[j].type = "seek" PROVE HasSeek(g[m])
    <2>1. HasSeek(g[m - 1]) \/ j = m
      BY <1>11, <1>14, <1>18 DEF Good
    <2>2. q[m].type \notin Stale => HasSeek(g[m])
      BY <1>12, <1>13, <1>18, <1>20, <2>1, Posted
    <2>3. q[m].type \in Stale => HasSeek(g[m])
      BY <1>12, <1>18, <2>1 DEF Stale
    <2>4. QED
      BY <2>2, <2>3
  <1>19. ASSUME Owed(g[m])
         PROVE  \E j \in 1 .. m : /\ q[j].type = "preseek"
                                  /\ \A k \in 1 .. m : k > j => q[k].type # "seek"
    <2>1. CASE q[m].type = "preseek"
      BY <1>14, <1>15, <1>16, <2>1
    <2>2. CASE q[m].type # "preseek"
      <3>1. q[m].type # "seek"
        <4>1. q[m].type = "seek" => q[m].type \notin Stale
          BY DEF Stale
        <4>2. QED
          BY <1>12, <1>13, <1>19, <1>20, <4>1, Posted
      <3>2. Owed(g[m - 1])
        BY <1>12, <1>13, <1>19, <1>20, <2>2, Posted
      <3>3. PICK j \in 1 .. m - 1 : /\ q[j].type = "preseek"
                                    /\ \A k \in 1 .. m - 1 : k > j => q[k].type # "seek"
        BY <1>11, <3>2 DEF Good
      <3>4. QED
        BY <1>14, <3>1, <3>3
    <2>3. QED
      BY <2>1, <2>2
  <1>21. Good(m)
    BY <1>17, <1>18, <1>19 DEF Good
  <1>22. QED
    BY <1>8, <1>21

-------------------------------------------------------------------------------
(* What leaves the tracks alone.                                             *)

\* The fields that the invariant speaks of are the same; the queue has not
\* lost a seek.
Alike(a, b) ==
    /\ DOMAIN b = AudioFields
    /\ b.pl = a.pl /\ b.skipped = a.skipped /\ b.peek = a.peek /\ b.list = a.list
    /\ b.cur = a.cur /\ b.loading = a.loading /\ b.filling = a.filling
    /\ b.skip = a.skip /\ b.status = a.status /\ b.stat = a.stat
    /\ b.delta = a.delta /\ b.ffrw = a.ffrw
    /\ Adds(a.queue, b.queue)
Formed(s) == Shape(s) /\ DOMAIN s.a = AudioFields
Quiet(s, r) == Formed(r) /\ Alike(s.a, r.a) /\ r.u = s.u
Steady(s, r) == Quiet(s, r) /\ r.a.seeking = s.a.seeking
\* The handler is through, or goes on when the codec has answered.
Handled(s, r) == Steady(s, r) /\ r.a.next \in Places \ Halting

\* What leaves the tracks alone may follow one that does.
LEMMA SteadyMore ==
    ASSUME NEW s, NEW r, NEW x, Steady(s, r)
    PROVE  /\ Steady(r, x) => Steady(s, x)
           /\ Handled(r, x) => Handled(s, x)
  <1>1. ASSUME Steady(r, x) PROVE Steady(s, x)
    BY <1>1, AddsMore DEF Steady, Quiet, Alike
  <1>2. QED
    BY <1>1 DEF Handled

\* Nothing done leaves the tracks alone.
LEMMA SteadySelf == ASSUME NEW s, Formed(s) PROVE Steady(s, s)
  BY AddsNothing DEF Steady, Quiet, Alike, Formed

\* The end of a handler (unpausing) leaves the tracks alone.
LEMMA DoneKeeps ==
    ASSUME NEW s, Formed(s)
    PROVE  Handled(s, Done(s)) /\ Done(s).a.next = "idle"
  <1> DEFINE x == IF s.a.unpause /\ ~s.a.ffrw THEN PcmPause(s.p, FALSE) ELSE s.p
             b == [[s.a EXCEPT !.next = "idle"] EXCEPT !.unpause = FALSE]
  <1>1. /\ b.next = "idle" /\ b.seeking = s.a.seeking /\ Alike(s.a, b)
    BY AddsNothing DEF Formed, Alike, AudioFields
  <1>2. /\ DOMAIN Done(s) = DOMAIN s /\ Done(s).a = b /\ Done(s).u = s.u
    BY DEF Formed, Shape, Done
  <1> HIDE DEF b
  <1>3. QED
    BY <1>1, <1>2 DEF Formed, Shape, Handled, Steady, Quiet, Alike, Places, Halting, Stopping

\* Sending the codec thread a command leaves the tracks alone.
LEMMA SendKeeps ==
    ASSUME NEW s, Formed(s), NEW cmd, NEW next
    PROVE  Steady(s, Send(s, cmd, next)) /\ Send(s, cmd, next).a.next = next
  <1> DEFINE b == [[s.a EXCEPT !.next = next] EXCEPT !.wait = TRUE]
             r == Send(s, cmd, next)
  <1>1. /\ b.next = next /\ b.seeking = s.a.seeking /\ Alike(s.a, b)
    BY AddsNothing DEF Formed, Alike, AudioFields
  <1>2. /\ DOMAIN r = DOMAIN s /\ r.a = b /\ r.u = s.u
    BY DEF Formed, Shape, Send
  <1> HIDE DEF b, r
  <1>3. Steady(s, r) /\ r.a.next = next
    BY <1>1, <1>2 DEF Formed, Shape, Steady, Quiet, Alike
  <1>4. QED
    BY <1>3 DEF r

\* Posting a message that is no start of a seek leaves the tracks alone.
LEMMA PostToKeeps ==
    ASSUME NEW s, Formed(s), NEW type \in MessageTypes \ {"preseek"}, NEW arg \in Nat
    PROVE  /\ Steady(s, PostTo(s, type, arg))
           /\ PostTo(s, type, arg).a.next = s.a.next
           /\ PostTo(s, type, arg).a.cskip = s.a.cskip
  <1> DEFINE m == [type |-> type, arg |-> arg]
             b == [s.a EXCEPT !.queue = Append(@, m)]
             r == PostTo(s, type, arg)
  <1>1. m \in Mail /\ m.type # "preseek"
    BY DEF Mail
  <1> HIDE DEF m
  <1>2. Adds(s.a.queue, Append(s.a.queue, m))
    BY <1>1, Posted DEF Adds
  <1>3. /\ b.next = s.a.next /\ b.seeking = s.a.seeking /\ b.cskip = s.a.cskip
        /\ Alike(s.a, b)
    BY <1>2 DEF Formed, Alike, AudioFields
  <1>4. /\ DOMAIN r = DOMAIN s /\ r.a = b /\ r.u = s.u
    BY DEF Formed, Shape, PostTo, Post, m
  <1> HIDE DEF b, r
  <1>5. Steady(s, r) /\ r.a.next = s.a.next /\ r.a.cskip = s.a.cskip
    BY <1>3, <1>4 DEF Formed, Shape, Steady, Quiet, Alike
  <1>6. QED
    BY <1>5 DEF r

\* Only the notifications about the track, and what the PCM buffer has, change.
LEMMA ClearKeeps ==
    ASSUME NEW s, Formed(s)
    PROVE  Steady(s, ClearNotifications(s)) /\ ClearNotifications(s).a.next = s.a.next
  <1> DEFINE b == [s.a EXCEPT !.queue = NotStale(@)]
             r == ClearNotifications(s)
  <1>1. Adds(s.a.queue, NotStale(s.a.queue))
    BY NotStaleFacts DEF Adds
  <1>2. /\ b.next = s.a.next /\ b.seeking = s.a.seeking /\ Alike(s.a, b)
    BY <1>1 DEF Formed, Alike, AudioFields
  <1>3. /\ DOMAIN r = DOMAIN s /\ r.a = b /\ r.u = s.u
    BY DEF Formed, Shape, ClearNotifications
  <1> HIDE DEF b, r
  <1>4. Steady(s, r) /\ r.a.next = s.a.next
    BY <1>2, <1>3 DEF Formed, Shape, Steady, Quiet, Alike
  <1>5. QED
    BY <1>4 DEF r

\* Halting the codec leaves the tracks alone, and ends a seek.
LEMMA HaltedKeeps ==
    ASSUME NEW s, Formed(s)
    PROVE  Quiet(s, Halted(s)) /\ ~Halted(s).a.seeking
  <1> DEFINE t == ClearNotifications(s)
             b == [[t.a EXCEPT !.cskip = FALSE] EXCEPT !.seeking = FALSE]
             r == Halted(s)
  <1>1. Steady(s, t)
    BY ClearKeeps
  <1> HIDE DEF t
  <1>2. Formed(t) /\ Alike(s.a, t.a) /\ t.u = s.u
    BY <1>1 DEF Steady, Quiet
  <1>3. ~b.seeking /\ Alike(t.a, b)
    BY <1>2, AddsNothing DEF Formed, Alike, AudioFields
  <1>4. DOMAIN r = DOMAIN t /\ r.a = b /\ r.u = t.u
    BY <1>2 DEF Formed, Shape, Halted, t
  <1> HIDE DEF b, r
  <1>5. Formed(r) /\ Alike(t.a, r.a) /\ r.u = s.u /\ ~r.a.seeking
    BY <1>2, <1>3, <1>4 DEF Formed, Shape, Alike
  <1>6. Alike(s.a, r.a)
    BY <1>2, <1>5, AddsMore DEF Alike
  <1>7. QED
    BY <1>5, <1>6 DEF r, Quiet

\* A start that failed leaves the tracks alone.
LEMMA StartErrorKeeps ==
    ASSUME NEW s, Formed(s)
    PROVE  Handled(s, StartError(s))
  <1> DEFINE t == PostTo(s, "complete", 0)
  <1>1. Steady(s, t)
    BY PostToKeeps DEF MessageTypes
  <1> HIDE DEF t
  <1>2. Handled(t, Done(t))
    BY <1>1, DoneKeeps DEF Steady, Quiet
  <1>3. QED
    BY <1>1, <1>2, SteadyMore DEF StartError, t

\* A load that failed or did not leaves the tracks alone.
LEMMA HandleLoadStatusKeeps ==
    ASSUME NEW s, Formed(s)
    PROVE  Handled(s, HandleLoadStatus(s))
  BY StartErrorKeeps, DoneKeeps DEF HandleLoadStatus

\* Starting, loading and unloading a codec leaves the tracks alone.
LEMMA GoKeeps ==
    ASSUME NEW s, Formed(s)
    PROVE  Handled(s, Ready(s)) /\ Handled(s, LoadCodec(s)) /\ Handled(s, Unload(s))
  <1>1. ASSUME NEW r, DOMAIN r = DOMAIN s, r.a = s.a, r.u = s.u PROVE Steady(s, r)
    BY <1>1, AddsNothing DEF Formed, Shape, Steady, Quiet, Alike
  <1>2. ASSUME NEW r, Steady(s, r), NEW cmd, NEW next \in Places \ Halting
        PROVE  Handled(s, Send(r, cmd, next))
    <2>1. Steady(r, Send(r, cmd, next)) /\ Send(r, cmd, next).a.next = next
      BY <1>2, SendKeeps DEF Steady, Quiet
    <2>2. QED
      BY <1>2, <2>1, SteadyMore DEF Handled
  <1>3. {"went", "idle", "loaded", "load"} \subseteq Places \ Halting
    BY DEF Places, Halting, Stopping
  <1>4. Steady(s, s)
    BY SteadySelf
  <1>5. Handled(s, Go(s))
    <2> DEFINE r == [SetTrack(s) EXCEPT !.c.left = Units[Current(s.a).track]]
    <2>1. DOMAIN r = DOMAIN s /\ r.a = s.a /\ r.u = s.u
      BY DEF SetTrack, Formed, Shape
    <2> HIDE DEF r
    <2>2. QED
      BY <1>1, <1>2, <1>3, <2>1 DEF Go, r
  <1>6. Handled(s, SeekNow(s))
    <2> DEFINE r == SetTrack(s)
    <2>1. DOMAIN r = DOMAIN s /\ r.a = s.a /\ r.u = s.u
      BY DEF SetTrack, Formed, Shape
    <2> HIDE DEF r
    <2>2. QED
      BY <1>1, <1>2, <1>3, <2>1 DEF SeekNow, r
  <1>7. Handled(s, LoadCodec(s))
    <2> DEFINE r == [s EXCEPT !.c.want = Format[Current(s.a).track]]
    <2>1. DOMAIN r = DOMAIN s /\ r.a = s.a /\ r.u = s.u
      BY DEF Formed, Shape
    <2> HIDE DEF r
    <2>2. QED
      BY <1>1, <1>2, <1>3, <2>1 DEF LoadCodec, r
  <1>8. Handled(s, Unload(s))
    BY <1>2, <1>3, <1>4 DEF Unload
  <1>9. QED
    BY <1>5, <1>6, <1>7, <1>8 DEF Ready

\* Initialising a codec leaves the tracks alone.
LEMMA InitCodecKeeps ==
    ASSUME NEW s, Formed(s), NEW then
    PROVE  Handled(s, InitCodec(s, then))
  <1> DEFINE t == [s EXCEPT !.a.then = then]
             b == [s.a EXCEPT !.then = then]
  <1>1. b.seeking = s.a.seeking /\ Alike(s.a, b)
    BY AddsNothing DEF Formed, Alike, AudioFields
  <1>2. DOMAIN t = DOMAIN s /\ t.a = b /\ t.u = s.u
    BY DEF Formed, Shape
  <1> HIDE DEF b, t
  <1>3. Steady(s, t) /\ Formed(t)
    BY <1>1, <1>2 DEF Formed, Shape, Steady, Quiet, Alike
  <1>4. Handled(t, LoadCodec(t)) /\ Handled(t, Ready(t))
    BY <1>3, GoKeeps
  <1>5. Handled(t, Send(t, "stop", "unload"))
    <2>1. "unload" \in Places \ Halting
      BY DEF Places, Halting, Stopping
    <2>2. QED
      BY <1>3, <2>1, SendKeeps DEF Handled
  <1>6. QED
    BY <1>3, <1>4, <1>5, SteadyMore DEF InitCodec, t

\* The answers to loading a codec and to starting it leave the tracks alone.
LEMMA LoadedKeeps ==
    ASSUME NEW s, Formed(s)
    PROVE  Handled(s, Loaded(s)) /\ Handled(s, Went(s))
  <1>1. Handled(s, Loaded(s))
    BY GoKeeps, StartErrorKeeps DEF Loaded
  <1> DEFINE tag == TagOf(s.a, s.a.cur)
             t == [s EXCEPT !.a.shown = tag]
             b == [s.a EXCEPT !.shown = tag]
  <1>2. b.seeking = s.a.seeking /\ Alike(s.a, b)
    BY AddsNothing DEF Formed, Alike, AudioFields
  <1>3. DOMAIN t = DOMAIN s /\ t.a = b /\ t.u = s.u
    BY DEF Formed, Shape
  <1> HIDE DEF b, t
  <1>4. Steady(s, t) /\ Formed(t)
    BY <1>2, <1>3 DEF Formed, Shape, Steady, Quiet, Alike
  <1>5. Handled(t, Done(t)) /\ Handled(s, Done(s))
    BY <1>4, DoneKeeps
  <1>6. Handled(s, Went(s))
    BY <1>4, <1>5, SteadyMore DEF Went, t
  <1>7. QED
    BY <1>1, <1>6

\* A track change begins in the PCM buffer.
LEMMA StartTrackChangeKeeps ==
    ASSUME NEW s, Formed(s), NEW type \in {"pileup", "end", "auto", "manual"}
    PROVE  Steady(s, StartTrackChange(s, type))
  <1>1. ASSUME NEW r, DOMAIN r = DOMAIN s, r.a = s.a, r.u = s.u PROVE Steady(s, r)
    BY <1>1, AddsNothing DEF Formed, Shape, Steady, Quiet, Alike
  <1>2. ASSUME NEW r, Steady(s, r) PROVE Steady(s, Monitor(r))
    <2> DEFINE x == [r EXCEPT !.p.mark = 0]
               y == [r EXCEPT !.p = MarkTrackEnd(@)]
    <2>1. Formed(r)
      BY <1>2 DEF Steady, Quiet
    <2>2. /\ DOMAIN x = DOMAIN r /\ x.a = r.a /\ x.u = r.u
          /\ DOMAIN y = DOMAIN r /\ y.a = r.a /\ y.u = r.u
      BY <2>1 DEF Formed, Shape
    <2> HIDE DEF x, y
    <2>3. Steady(r, x) /\ Steady(r, y)
      BY <2>1, <2>2, AddsNothing DEF Formed, Shape, Steady, Quiet, Alike
    <2>4. Steady(x, PostTo(x, "changed", 0))
      <3>1. "changed" \in MessageTypes \ {"preseek"} /\ 0 \in Nat
        BY DEF MessageTypes
      <3>2. QED
        BY <2>3, <3>1, PostToKeeps DEF Steady, Quiet
    <2>5. Steady(s, y) /\ Steady(s, PostTo(x, "changed", 0))
      BY <1>2, <2>3, <2>4, SteadyMore
    <2>6. QED
      BY <2>5 DEF Monitor, x, y
  <1> DEFINE t == [s EXCEPT !.p = Committed(@)]
             u == [t EXCEPT !.p = StartPlayback(@, MayPlay(s.a))]
             v == [t EXCEPT !.p = PlayStop(@)]
  <1>3. /\ DOMAIN t = DOMAIN s /\ t.a = s.a /\ t.u = s.u
        /\ DOMAIN u = DOMAIN s /\ u.a = s.a /\ u.u = s.u
        /\ DOMAIN v = DOMAIN s /\ v.a = s.a /\ v.u = s.u
    BY DEF Formed, Shape
  <1> HIDE DEF t, u, v
  <1>4. Steady(s, t) /\ Steady(s, u) /\ Steady(s, v)
    BY <1>1, <1>3
  <1>5. Steady(s, Monitor(u)) /\ Steady(s, Monitor(t))
    BY <1>2, <1>4
  <1>6. StartTrackChange(s, type) = CASE type = "pileup" -> u
          [] type = "end" -> Monitor(u)
          [] type = "auto" -> Monitor(t)
          [] type = "manual" -> v
    BY DEF StartTrackChange, t, u, v
  <1>7. QED
    BY <1>4, <1>5, <1>6

-------------------------------------------------------------------------------
(* Steps in the playlist.                                                    *)

\* What is left of the playlist, and a directory, are tracks.
LEMMA LeftTracks ==
    ASSUME NEW a
    PROVE  Left(a) \in SUBSET Tracks /\ Directory(a.pl) \in SUBSET Tracks
  BY DEF Left, Directory

\* One that is there is in front of what comes after it.
LEMMA OneMore ==
    ASSUME NEW D \in SUBSET Tracks, NEW x \in D
    PROVE  x \in Int /\ InFront(D, x + 1) = InFront(D, x) + 1
  <1>1. x \in Int /\ D \in SUBSET Int
    BY TracksFinite
  <1>2. x <= x + 1 /\ x + 1 \in Int
    BY <1>1, SMT
  <1>3. {u \in D : x <= u /\ u < x + 1} = {x}
    <2>1. \A u \in D : x <= u /\ u < x + 1 <=> u = x
      BY <1>1, SMT
    <2>2. QED
      BY <2>1
  <1>4. Cardinality({x}) = 1
    BY FS_Singleton
  <1>5. QED
    BY <1>1, <1>2, <1>3, <1>4, SplitAt

\* The tracks from p to t, and back.
Onward(D, p, t) == Cardinality({u \in D : u >= p /\ u < t})
Behind(D, p, t) == Cardinality({u \in D : u <= p /\ u > t})

\* Steps forward, and steps back from a track that is still to be played.
LEMMA StepsCounted ==
    ASSUME NEW D \in SUBSET Tracks, NEW p \in Int, NEW k \in Int, NEW t \in D
    PROVE  /\ k >= 0 => (/\ t >= p
                         /\ Onward(D, p, t) = k
                         <=> InFront(D, t) = InFront(D, p) + k)
           /\ k < 0 /\ p \in D => (/\ t <= p
                                   /\ Behind(D, p, t) = -k
                                   <=> InFront(D, t) = InFront(D, p) + k)
  <1>1. t \in Int /\ D \in SUBSET Int
    BY TracksFinite
  <1>2. InFront(D, t) \in Nat /\ InFront(D, p) \in Nat
    BY <1>1, InFrontFacts
  <1>3. ASSUME k >= 0
        PROVE  /\ t >= p
               /\ Onward(D, p, t) = k
               <=> InFront(D, t) = InFront(D, p) + k
    <2>1. CASE t >= p
      <3>1. p <= t
        BY <1>1, <2>1, SMT
      <3>2. {u \in D : u >= p /\ u < t} = {u \in D : p <= u /\ u < t}
        <4>1. \A u \in D : u >= p <=> p <= u
          BY <1>1, SMT
        <4>2. QED
          BY <4>1
      <3>3. /\ InFront(D, t) = InFront(D, p) + Cardinality({u \in D : p <= u /\ u < t})
            /\ Cardinality({u \in D : p <= u /\ u < t}) \in Nat
        BY <1>1, <3>1, SplitAt
      <3> DEFINE c == Cardinality({u \in D : p <= u /\ u < t})
      <3>4. c \in Nat /\ InFront(D, t) = InFront(D, p) + c
        BY <3>3
      <3> HIDE DEF c
      <3>5. c = k <=> InFront(D, t) = InFront(D, p) + k
        BY <1>2, <3>4, SMT
      <3>6. QED
        BY <2>1, <3>2, <3>5 DEF c, Onward
    <2>2. CASE ~(t >= p)
      <3>1. t < p
        BY <1>1, <2>2, SMT
      <3>2. InFront(D, t) < InFront(D, p)
        BY <1>1, <3>1, InFrontFacts
      <3>3. InFront(D, t) # InFront(D, p) + k
        BY <1>2, <1>3, <3>2, SMT
      <3>4. QED
        BY <2>2, <3>3
    <2>3. QED
      BY <2>1, <2>2
  <1>4. ASSUME k < 0, p \in D
        PROVE  /\ t <= p
               /\ Behind(D, p, t) = -k
               <=> InFront(D, t) = InFront(D, p) + k
    <2>1. CASE t <= p
      <3>1. t + 1 <= p + 1 /\ t + 1 \in Int /\ p + 1 \in Int
        BY <1>1, <2>1, SMT
      <3>2. {u \in D : u <= p /\ u > t} = {u \in D : t + 1 <= u /\ u < p + 1}
        <4>1. \A u \in D : (u <= p /\ u > t) <=> (t + 1 <= u /\ u < p + 1)
          BY <1>1, SMT
        <4>2. QED
          BY <4>1
      <3> DEFINE c == Cardinality({u \in D : t + 1 <= u /\ u < p + 1})
      <3>3. c \in Nat /\ InFront(D, p + 1) = InFront(D, t + 1) + c
        BY <3>1, SplitAt
      <3>4. InFront(D, p + 1) = InFront(D, p) + 1 /\ InFront(D, t + 1) = InFront(D, t) + 1
        BY <1>4, OneMore
      <3> HIDE DEF c
      <3>5. c = -k <=> InFront(D, t) = InFront(D, p) + k
        BY <1>2, <3>3, <3>4, SMT
      <3>6. QED
        BY <2>1, <3>2, <3>5 DEF c, Behind
    <2>2. CASE ~(t <= p)
      <3>1. p < t
        BY <1>1, <2>2, SMT
      <3>2. InFront(D, p) < InFront(D, t)
        BY <1>1, <1>4, <3>1, InFrontFacts
      <3>3. InFront(D, t) # InFront(D, p) + k
        BY <1>2, <1>4, <3>2, SMT
      <3>4. QED
        BY <2>2, <3>3
    <2>3. QED
      BY <2>1, <2>2
  <1>5. QED
    BY <1>3, <1>4

\* playlist_peek finds the track so many steps on.
LEMMA PeekFacts ==
    ASSUME NEW a, a.pl \in Int, NEW k \in Int
    PROVE  /\ Peek(a, k) \in Tracks \cup {0}
           /\ k >= 0 \/ a.pl \in Left(a) =>
                /\ \A t : StepsOn(a, t, k) => Peek(a, k) = t
                /\ Peek(a, k) # 0 => StepsOn(a, Peek(a, k), k)
  <1> DEFINE D == Left(a)
             p == a.pl
             side == {t \in D : IF k < 0 THEN t <= p ELSE t >= p}
             steps(t) == Cardinality({u \in side : IF k < 0 THEN u > t ELSE u < t})
             there == {t \in side : steps(t) = IF k < 0 THEN -k ELSE k}
  <1>1. D \in SUBSET Tracks /\ p \in Int
    BY LeftTracks
  <1>2. Peek(a, k) = IF there = {} THEN 0 ELSE CHOOSE t \in there : TRUE
    BY DEF Peek, Left
  <1>3. there \subseteq D
    OBVIOUS
  <1>4. Peek(a, k) \in Tracks \cup {0}
    <2>1. there # {} => (CHOOSE t \in there : TRUE) \in there
      OBVIOUS
    <2> HIDE DEF there
    <2>2. QED
      BY <1>1, <1>2, <1>3, <2>1
  <1>5. ASSUME k >= 0 \/ p \in D PROVE \A t : t \in there <=> StepsOn(a, t, k)
    <2>1. CASE k >= 0
      <3>1. ~(k < 0)
        BY <2>1, SMT
      <3>2. ASSUME NEW t \in D
            PROVE  t \in there <=> /\ t >= p
                                   /\ Onward(D, p, t) = k
        <4>1. side = {u \in D : u >= p}
          BY <3>1
        <4> HIDE DEF side
        <4>2. {u \in side : u < t} = {u \in D : u >= p /\ u < t}
          BY <4>1
        <4>3. steps(t) = Onward(D, p, t)
          BY <3>1, <4>2 DEF Onward
        <4> HIDE DEF steps
        <4>4. QED
          BY <3>1, <4>1, <4>3
      <3> HIDE DEF there, D, p
      <3>3. ASSUME NEW t \in D PROVE t \in there <=> InFront(D, t) = InFront(D, p) + k
        <4>1. /\ t >= p
              /\ Onward(D, p, t) = k
              <=> InFront(D, t) = InFront(D, p) + k
          BY <1>1, <2>1, StepsCounted
        <4>2. QED
          BY <3>2, <4>1, Zenon
      <3>4. QED
        BY <1>3, <3>3 DEF StepsOn, D, p
    <2>2. CASE k < 0 /\ p \in D
      <3>2. ASSUME NEW t \in D
            PROVE  t \in there <=> /\ t <= p
                                   /\ Behind(D, p, t) = -k
        <4>1. side = {u \in D : u <= p}
          BY <2>2
        <4> HIDE DEF side
        <4>2. {u \in side : u > t} = {u \in D : u <= p /\ u > t}
          BY <4>1
        <4>3. steps(t) = Behind(D, p, t)
          BY <2>2, <4>2 DEF Behind
        <4> HIDE DEF steps
        <4>4. QED
          BY <2>2, <4>1, <4>3
      <3> HIDE DEF there, D, p
      <3>3. ASSUME NEW t \in D PROVE t \in there <=> InFront(D, t) = InFront(D, p) + k
        <4>1. /\ t <= p
              /\ Behind(D, p, t) = -k
              <=> InFront(D, t) = InFront(D, p) + k
          BY <1>1, <2>2, StepsCounted
        <4>2. QED
          BY <3>2, <4>1, Zenon
      <3>4. QED
        BY <1>3, <3>3 DEF StepsOn, D, p
    <2>3. k >= 0 \/ k < 0
      BY SMT
    <2>4. QED
      BY <1>5, <2>1, <2>2, <2>3
  <1> HIDE DEF there
  <1>6. ASSUME NEW t, StepsOn(a, t, k), NEW v, StepsOn(a, v, k) PROVE t = v
    <2>1. t \in D /\ v \in D /\ InFront(D, t) = InFront(D, v)
      BY <1>6 DEF StepsOn
    <2>2. t \in Int /\ v \in Int
      BY <1>1, <2>1, TracksFinite
    <2>3. QED
      BY <1>1, <2>1, <2>2, InFrontFacts
  <1>7. 0 \notin Tracks
    BY TracksFinite
  <1>8. ASSUME k >= 0 \/ p \in D, NEW t, StepsOn(a, t, k) PROVE Peek(a, k) = t
    <2>1. t \in there
      BY <1>5, <1>8
    <2>2. (CHOOSE x \in there : TRUE) \in there
      BY <2>1
    <2>3. StepsOn(a, CHOOSE x \in there : TRUE, k)
      BY <1>5, <1>8, <2>2
    <2>4. QED
      BY <1>2, <1>6, <1>8, <2>1, <2>3
  <1>9. ASSUME k >= 0 \/ p \in D, Peek(a, k) # 0 PROVE StepsOn(a, Peek(a, k), k)
    <2>1. there # {}
      BY <1>2, <1>9
    <2>2. Peek(a, k) \in there
      BY <1>2, <2>1
    <2>3. QED
      BY <1>5, <1>9, <2>2
  <1>10. QED
    BY <1>4, <1>8, <1>9

\* If anything is still to be played from the index on, something is there at
\* once.
LEMMA FirstStep ==
    ASSUME NEW a, a.pl \in Int, NEW k \in Nat, NEW t, StepsOn(a, t, k)
    PROVE  \E v \in Tracks : StepsOn(a, v, 0)
  <1> DEFINE D == Left(a)
             ahead == {u \in D : u >= a.pl}
  <1>1. D \in SUBSET Tracks /\ D \in SUBSET Int /\ D \in SUBSET Nat
    BY LeftTracks, TracksFinite
  <1>2. t \in D /\ t \in Int /\ InFront(D, t) = InFront(D, a.pl) + k
    BY <1>1 DEF StepsOn
  <1>3. t >= a.pl
    <2>1. k >= 0 /\ k \in Int
      BY SMT
    <2>2. QED
      BY <1>1, <1>2, <2>1, StepsCounted
  <1>4. ahead # {} /\ ahead \in SUBSET Nat
    BY <1>1, <1>2, <1>3
  <1>5. Min(ahead) \in ahead /\ \A x \in ahead : Min(ahead) <= x
    BY <1>4, SmallestOf
  <1> DEFINE v == Min(ahead)
  <1>6. v \in D /\ v \in Int /\ v >= a.pl /\ \A x \in D : x >= a.pl => v <= x
    BY <1>1, <1>5
  <1> HIDE DEF v, ahead
  <1>7. {u \in D : u >= a.pl /\ u < v} = {}
    <2>1. \A u \in D : ~(u >= a.pl /\ u < v)
      <3>1. \A u \in D : v <= u => ~(u < v)
        BY <1>1, <1>6, SMT
      <3>2. QED
        BY <1>6, <3>1
    <2>2. QED
      BY <2>1
  <1>8. Onward(D, a.pl, v) = 0
    BY <1>7, FS_EmptySet DEF Onward
  <1>9. InFront(D, v) = InFront(D, a.pl) + 0
    <2>1. 0 \in Int /\ 0 >= 0
      BY SMT
    <2>2. QED
      BY <1>1, <1>6, <1>8, <2>1, StepsCounted
  <1>10. QED
    BY <1>1, <1>6, <1>9 DEF StepsOn

\* A set of numbers below a bound has a greatest one.
LEMMA LargestOf ==
    ASSUME NEW n \in Nat, NEW S \in SUBSET (0 .. n), S # {}
    PROVE  Max(S) \in S /\ \A x \in S : x <= Max(S)
  <1> DEFINE T == {n - x : x \in S}
  <1>1. \A x \in S : x \in Nat /\ x <= n /\ n - x \in Nat
    BY SMT
  <1>2. T \in SUBSET Nat /\ T # {}
    BY <1>1
  <1>3. PICK x \in S : Min(T) = n - x
    BY <1>2, SmallestOf
  <1>4. \A y \in S : n - x <= n - y
    BY <1>2, <1>3, SmallestOf
  <1>5. \A y \in S : x >= y
    BY <1>1, <1>4, SMT
  <1>6. /\ Max(S) \in S
        /\ \A y \in S : Max(S) >= y
    BY <1>5 DEF Max
  <1>7. QED
    BY <1>1, <1>6, SMT

\* A sequence has no more values than places.
LEMMA ValuesOf ==
    ASSUME NEW n \in Nat, NEW f, f = [i \in 1 .. n |-> f[i]]
    PROVE  LET V == {f[i] : i \in 1 .. n}
           IN  IsFiniteSet(V) /\ Cardinality(V) \in Nat /\ Cardinality(V) <= n
  <1> DEFINE V == {f[i] : i \in 1 .. n}
  <1>1. IsFiniteSet(1 .. n) /\ Cardinality(1 .. n) = n
    BY FS_Interval, SMT
  <1>2. f \in Surjection(1 .. n, V)
    BY DEF Surjection
  <1>3. IsFiniteSet(V) /\ Cardinality(V) <= n
    BY <1>1, <1>2, FS_Surjection
  <1>4. QED
    BY <1>3, FS_CardinalityType

\* The handle of a new entry is one that no entry has.
LEMMA FreshIdFacts ==
    ASSUME NEW a, Typed(a)
    PROVE  /\ FreshId(a) \in Nat \ {0}
           /\ \A i \in DOMAIN a.list : a.list[i].id # FreshId(a)
  <1> DEFINE n == Len(a.list)
             k == Len(a.queue)
             ids == [i \in 1 .. n |-> a.list[i].id]
             args == [i \in 1 .. k |-> a.queue[i].arg]
             I == {ids[i] : i \in 1 .. n}
             A == {args[i] : i \in 1 .. k}
             S == 1 .. n + k + 1
             T == {e.id : e \in ToSet(a.list)} \cup
                    {m.arg : m \in {x \in ToSet(a.queue) : x.type = "loaded"}}
  <1>1. /\ n \in Nat /\ k \in Nat /\ DOMAIN a.list = 1 .. n /\ DOMAIN a.queue = 1 .. k
    BY DEF Typed, Basic, Listed
  <1>2. /\ IsFiniteSet(I) /\ Cardinality(I) \in Nat /\ Cardinality(I) <= n
        /\ IsFiniteSet(A) /\ Cardinality(A) \in Nat /\ Cardinality(A) <= k
    BY <1>1, ValuesOf
  <1>3. T \subseteq I \cup A
    BY <1>1 DEF ToSet
  <1>4. \A i \in 1 .. n : a.list[i].id \in T
    BY <1>1 DEF ToSet
  <1> HIDE DEF I, A, T, n, k
  <1>5. IsFiniteSet(S) /\ Cardinality(S) = n + k + 1
    BY <1>1, FS_Interval, SMT
  <1>6. S \ T # {}
    <2>1. ASSUME S \ T = {} PROVE FALSE
      <3>1. S \subseteq I \cup A
        BY <1>3, <2>1
      <3>2. /\ IsFiniteSet(I \cup A)
            /\ Cardinality(I \cup A) = Cardinality(I) + Cardinality(A) - Cardinality(I \cap A)
        BY <1>2, FS_Union
      <3>3. Cardinality(I \cap A) \in Nat
        BY <1>2, FS_Intersection, FS_CardinalityType
      <3>4. Cardinality(S) <= Cardinality(I \cup A)
        BY <3>1, <3>2, FS_Subset
      <3>5. QED
        BY <1>1, <1>2, <1>5, <3>2, <3>3, <3>4, SMT
    <2>2. QED
      BY <2>1
  <1>7. S \in SUBSET (Nat \ {0})
    BY <1>1, SMT
  <1>8. S \ T \in SUBSET Nat
    BY <1>7
  <1>9. Min(S \ T) \in S \ T
    BY <1>6, <1>8, SmallestOf
  <1>10. FreshId(a) = Min(S \ T)
    BY DEF FreshId, T, n, k
  <1>11. QED
    BY <1>1, <1>4, <1>7, <1>9, <1>10

-------------------------------------------------------------------------------
(* Moving the index.                                                         *)

\* The fields that neither loading nor moving changes are the same.
Loads(a, b) ==
    /\ b.status = a.status /\ b.skip = a.skip /\ b.delta = a.delta
    /\ b.ffrw = a.ffrw /\ b.seeking = a.seeking /\ b.next = a.next
    /\ Adds(a.queue, b.queue)
    /\ a.filling # "off" => b.filling # "off"
\* So are the list and how it is loaded.
Moves(a, b) ==
    /\ DOMAIN b = AudioFields /\ Loads(a, b) /\ b.queue = a.queue
    /\ b.list = a.list /\ b.cur = a.cur /\ b.loading = a.loading
    /\ b.filling = a.filling /\ b.peek = a.peek /\ b.stat = a.stat

\* All tracks of a directory are in the same one.
LEMMA DirectoryOf ==
    ASSUME NEW p, NEW t \in Directory(p)
    PROVE  Directory(t) = Directory(p)
  BY DEF Directory

\* The next directory starts at a track, if there is one.
LEMMA OtherDirFacts ==
    ASSUME NEW a, NEW direction, NEW last \in BOOLEAN
    PROVE  OtherDir(a, direction, last) \in Tracks \cup {0}
  <1> DEFINE side == {t \in Tracks \ Directory(a.pl) :
                        IF direction > 0 THEN t > a.pl ELSE t < a.pl}
             dir == IF direction > 0 THEN Directory(Min(side)) ELSE Directory(Max(side))
  <1>1. PICK n \in Nat : Tracks \in SUBSET (0 .. n)
    <2>1. Cardinality(Tracks) \in Nat /\ Tracks = 1 .. Cardinality(Tracks)
      BY TrackListAssumption, FS_CardinalityType
    <2>2. \A n \in Nat : 1 .. n \subseteq 0 .. n
      BY SMT
    <2>3. QED
      BY <2>1, <2>2
  <1>2. Tracks \in SUBSET Nat
    BY TracksFinite
  <1>3. ASSUME side # {} PROVE Min(dir) \in Tracks /\ Max(dir) \in Tracks
    <2>1. side \in SUBSET Nat /\ side \in SUBSET (0 .. n) /\ side \subseteq Tracks
      BY <1>1, <1>2
    <2> HIDE DEF side
    <2>2. Min(side) \in Tracks /\ Max(side) \in Tracks
      BY <1>3, <2>1, SmallestOf, LargestOf
    <2>3. \A t \in Tracks : t \in Directory(t) /\ Directory(t) \subseteq Tracks
      BY DEF Directory
    <2>4. dir # {} /\ dir \subseteq Tracks
      BY <2>2, <2>3
    <2> HIDE DEF dir
    <2>5. dir \in SUBSET Nat /\ dir \in SUBSET (0 .. n)
      BY <1>1, <1>2, <2>4
    <2>6. QED
      BY <2>4, <2>5, SmallestOf, LargestOf
  <1>4. OtherDir(a, direction, last) = IF side = {} THEN 0
        ELSE IF last /\ direction <= 0 THEN Max(dir) ELSE Min(dir)
    BY DEF OtherDir
  <1> HIDE DEF side, dir
  <1>5. QED
    BY <1>3, <1>4

\* Going to a track of the playlist moves its index there and nothing else.
LEMMA GoToFacts ==
    ASSUME NEW a, Basic(a), NEW index \in Tracks \cup {0}
    PROVE  LET b == GoTo(a, index)
           IN  /\ Basic(b) /\ Moves(a, b)
               /\ b.pl = IF index = 0 THEN a.pl ELSE index
               /\ index \in Directory(a.pl) => b.skipped = a.skipped
               /\ index = 0 => b = a
  <1> DEFINE b == GoTo(a, index)
             c == [[a EXCEPT !.pl = index] EXCEPT
                     !.skipped = IF index \in Directory(a.pl) THEN @ ELSE {}]
  <1>1. index \in Int
    BY TracksFinite
  <1>2. index = 0 => b = a
    BY DEF GoTo
  <1>3. index # 0 => b = c
    BY DEF GoTo
  <1>4. index \notin Directory(a.pl) \/ index # 0
    <2>1. Directory(a.pl) \subseteq Tracks /\ 0 \notin Tracks
      BY LeftTracks, TracksFinite
    <2>2. QED
      BY <2>1
  <1>5. /\ Basic(c) /\ Moves(a, c) /\ c.pl = index
        /\ index \in Directory(a.pl) => c.skipped = a.skipped
    BY <1>1, AddsNothing DEF Basic, Moves, Loads, AudioFields
  <1>6. Moves(a, a)
    BY AddsNothing DEF Basic, Moves, Loads
  <1> HIDE DEF b, c
  <1>7. QED
    BY <1>2, <1>3, <1>4, <1>5, <1>6 DEF b

\* playlist_next goes to the track so many steps on, if there is one.
LEMMA BasicNext ==
    ASSUME NEW a, Basic(a), NEW k \in Int
    PROVE  LET b == PlaylistNext(a, k)
           IN  /\ Basic(b) /\ Moves(a, b)
               /\ NextIndex(a, k) = 0 => b = a
               /\ k >= 0 \/ a.pl \in Left(a) =>
                    \A t : StepsOn(a, t, k) => b.pl = t /\ b.skipped = a.skipped
  <1>1. a.pl \in Int
    BY DEF Basic
  <1>2. NextIndex(a, k) \in Tracks \cup {0}
    BY <1>1, PeekFacts, OtherDirFacts DEF NextIndex
  <1>3. ASSUME k >= 0 \/ a.pl \in Left(a), NEW t, StepsOn(a, t, k)
        PROVE  NextIndex(a, k) = t /\ t \in Directory(a.pl) /\ t # 0
    <2>1. Peek(a, k) = t
      BY <1>1, <1>3, PeekFacts
    <2>2. t \in Directory(a.pl)
      BY <1>3 DEF StepsOn, Left
    <2>3. t # 0
      BY <2>2, LeftTracks, TracksFinite
    <2>4. QED
      BY <2>1, <2>2, <2>3 DEF NextIndex
  <1>4. QED
    BY <1>2, <1>3, GoToFacts DEF PlaylistNext

\* playlist_next moves the playlist by k steps, or stays where it is at its end.
LEMMA PlaylistNextFacts ==
    ASSUME NEW a, Typed(a), NEW k \in Int
    PROVE  LET b == PlaylistNext(a, k)
           IN  /\ Typed(b) /\ Moves(a, b)
               /\ NextIndex(a, k) = 0 => b = a
               /\ k >= 0 \/ a.pl \in Left(a) =>
                    \A t : StepsOn(a, t, k) => b.pl = t /\ b.skipped = a.skipped
  <1> DEFINE b == PlaylistNext(a, k)
  <1>1. /\ Basic(b) /\ Moves(a, b)
        /\ NextIndex(a, k) = 0 => b = a
        /\ k >= 0 \/ a.pl \in Left(a) =>
             \A t : StepsOn(a, t, k) => b.pl = t /\ b.skipped = a.skipped
    BY BasicNext DEF Typed
  <1> HIDE DEF b
  <1>2. Listed(b)
    BY <1>1 DEF Typed, Listed, Moves
  <1>3. QED
    BY <1>1, <1>2 DEF Typed, b

\* From there, the tracks are as many steps less on.
LEMMA StepsMoved ==
    ASSUME NEW a, a.pl \in Int, NEW k \in Int, NEW t, StepsOn(a, t, k),
           NEW b, b.pl = t, b.skipped = a.skipped
    PROVE  /\ b.pl \in Left(b)
           /\ \A x : \A j \in Int : StepsOn(b, x, j) <=> StepsOn(a, x, j + k)
  <1>1. t \in Directory(a.pl) /\ t \in Left(a)
    BY DEF StepsOn, Left
  <1>2. Directory(t) = Directory(a.pl)
    BY <1>1, DirectoryOf
  <1>3. Left(b) = Left(a)
    BY <1>2 DEF Left
  <1>4. Left(a) \in SUBSET Tracks /\ t \in Int
    BY <1>1, LeftTracks, TracksFinite
  <1>5. \A x \in Int : InFront(Left(a), x) \in Nat
    BY <1>4, InFrontFacts
  <1>6. InFront(Left(a), t) = InFront(Left(a), a.pl) + k
    BY DEF StepsOn
  <1>7. ASSUME NEW x \in Left(a), NEW j \in Int
        PROVE  InFront(Left(a), x) = InFront(Left(a), t) + j
               <=> InFront(Left(a), x) = InFront(Left(a), a.pl) + (j + k)
    <2>1. InFront(Left(a), x) \in Nat /\ InFront(Left(a), a.pl) \in Nat
      BY <1>4, <1>5, TracksFinite
    <2>2. QED
      BY <1>6, <2>1, SMT
  <1>8. QED
    BY <1>1, <1>3, <1>7 DEF StepsOn

-------------------------------------------------------------------------------
(* Loading tracks.                                                           *)

\* What a list and its place in the playlist depend on.
LEMMA AlongSame ==
    ASSUME NEW a, NEW b, NEW off, Along(a, off),
           b.pl = a.pl, b.skipped = a.skipped, b.list = a.list, b.cur = a.cur, b.peek = a.peek
    PROVE  Along(b, off)
  BY DEF Along, StepsOn, Left

\* A list in step with the index once moved to its current track, k steps on,
\* is at the index.
LEMMA AlongMoved ==
    ASSUME NEW a, Typed(a), NEW off \in Int, Along(a, off), a.list # <<>>,
           NEW to \in DOMAIN a.list, NEW k \in Int, k = off + to - a.cur,
           NEW b, b.pl = a.list[to].track, b.skipped = a.skipped, b.list = a.list,
           b.cur = to, b.peek = a.peek - k
    PROVE  Along(b, 0)
  <1> DEFINE n == Len(a.list)
             t == a.list[to].track
  <1>1. n \in Nat /\ DOMAIN a.list = 1 .. n /\ a.peek \in Int /\ a.cur \in Int /\ a.pl \in Int
    BY DEF Typed, Basic, Listed
  <1>2. a.peek - n + to = k /\ a.peek - n + a.cur = off
    <2>1. a.peek - n + a.cur = off
      BY DEF Along
    <2> HIDE DEF n
    <2>2. QED
      BY <1>1, <2>1, SMT
  <1>3. StepsOn(a, t, k)
    BY <1>2 DEF Along
  <1> HIDE DEF t
  <1>4. b.pl = t
    BY DEF t
  <1>5. b.pl \in Left(b) /\ \A x : \A j \in Int : StepsOn(b, x, j) <=> StepsOn(a, x, j + k)
    BY <1>1, <1>3, <1>4, StepsMoved, SMTT(30)
  <1>6. ASSUME NEW i \in DOMAIN b.list
        PROVE  StepsOn(b, b.list[i].track, b.peek - Len(b.list) + i)
    <2>1. i \in 1 .. n /\ StepsOn(a, a.list[i].track, a.peek - n + i)
      BY <1>1, <1>6 DEF Along
    <2>2. b.peek - n + i \in Int /\ b.peek - n + i + k = a.peek - n + i
      <3> HIDE DEF n
      <3>1. a.peek \in Int /\ n \in Int /\ i \in Int /\ b.peek = a.peek - k
        BY <1>1, <2>1, SMT
      <3>2. a.peek - k - n + i \in Int /\ a.peek - k - n + i + k = a.peek - n + i
        BY <3>1, SMT
      <3>3. QED
        BY <3>1, <3>2, Zenon
    <2>3. QED
      BY <1>5, <2>1, <2>2
  <1>7. b.peek - Len(b.list) + b.cur = 0
    <2>1. Len(b.list) = n
      OBVIOUS
    <2> HIDE DEF n
    <2>2. QED
      BY <1>1, <1>2, <2>1, SMTT(30)
  <1>8. QED
    BY <1>5, <1>6, <1>7 DEF Along

\* A part of a sequence
LEMMA PartOf ==
    ASSUME NEW E, NEW q \in Seq(E), NEW c \in Int, NEW m \in Nat,
           \A i \in 1 .. m : c + i - 1 \in 1 .. Len(q),
           NEW r, r = [i \in 1 .. m |-> q[c + i - 1]]
    PROVE  /\ r \in Seq(E) /\ Len(r) = m /\ DOMAIN r = 1 .. m
           /\ \A i \in 1 .. m : r[i] = q[c + i - 1] /\ r[i] \in E
  <1>1. \A i \in 1 .. m : q[c + i - 1] \in E
    BY SMTT(30)
  <1> DEFINE e(i) == q[c + i - 1]
  <1>2. \A i \in 1 .. m : e(i) \in E
    BY <1>1
  <1>3. r = [i \in 1 .. m |-> e(i)]
    OBVIOUS
  <1> HIDE DEF e
  <1>4. r \in [1 .. m -> E] /\ \A i \in 1 .. m : r[i] = e(i)
    BY <1>2, <1>3
  <1>5. r \in Seq(E) /\ Len(r) = m /\ DOMAIN r = 1 .. m
    BY <1>4, SMTT(30)
  <1>6. QED
    BY <1>2, <1>4, <1>5 DEF e

\* Clearing the list
Relists(a, b) ==
    /\ DOMAIN b = AudioFields /\ Loads(a, b) /\ b.queue = a.queue
    /\ b.pl = a.pl /\ b.skipped = a.skipped /\ b.peek = a.peek
    /\ b.filling = a.filling /\ b.stat = a.stat

\* What clearing the track list leaves: those kept, the first of them current.
LEMMA ClearedParts ==
    ASSUME NEW a, Typed(a), NEW action
    PROVE  LET left == LeftBy(a, action)
               b == Cleared(a, action)
           IN  /\ Relists(a, b) /\ b.list = left /\ b.cur = IF left = <<>> THEN 0 ELSE 1
               /\ b.loading = IF \E e \in ToSet(left) : e.id = a.loading THEN a.loading ELSE 0
  <1> DEFINE left == LeftBy(a, action)
             cur == IF left = <<>> THEN 0 ELSE 1
             load == IF \E e \in ToSet(left) : e.id = a.loading THEN a.loading ELSE 0
             b == Cleared(a, action)
  <1>1. b = [[[a EXCEPT !.list = left] EXCEPT !.cur = cur] EXCEPT !.loading = load]
    <2>1. b = [a EXCEPT !.list = left, !.cur = cur,
                        !.loading = IF \E e \in ToSet(left) : e.id = @ THEN @ ELSE 0]
      BY DEF Cleared
    <2> HIDE DEF left, cur, b
    <2>2. QED
      BY <2>1 DEF Typed, Basic, AudioFields
  <1> HIDE DEF left, cur, load, b
  <1>2. Relists(a, b) /\ b.list = left /\ b.cur = cur /\ b.loading = load
    BY <1>1, AddsNothing DEF Relists, Loads, Typed, Basic, AudioFields
  <1>3. QED
    BY <1>2 DEF left, cur, load, b

\* Clearing all of the track list leaves it empty.
LEMMA ClearedAll ==
    ASSUME NEW a, Typed(a)
    PROVE  LET b == Cleared(a, "all")
           IN  /\ Relists(a, b) /\ Typed(b)
               /\ b.list = <<>> /\ b.cur = 0 /\ b.loading = 0
  <1> DEFINE b == Cleared(a, "all")
             left == LeftBy(a, "all")
  <1>1. KeptBy(a, "all") = {}
    BY DEF KeptBy
  <1>2. left = <<>>
    <2>1. Cardinality({}) = 0 /\ \A i : i \notin 1 .. 0
      BY FS_EmptySet, SMT
    <2>2. 1 .. 0 = {}
      BY <2>1
    <2> DEFINE f(i) == a.list[Min({}) + i - 1]
    <2> HIDE DEF f
    <2>3. [i \in {} |-> f(i)] = <<>>
      BY SMT
    <2>4. QED
      BY <1>1, <2>1, <2>2, <2>3 DEF f, LeftBy
  <1>3. ToSet(<<>>) = {}
    BY DEF ToSet
  <1>4. /\ Relists(a, b) /\ b.list = left /\ b.cur = 0
        /\ b.loading = IF \E e \in ToSet(left) : e.id = a.loading THEN a.loading ELSE 0
    BY <1>2, ClearedParts
  <1> HIDE DEF b, left
  <1>5. b.list = <<>> /\ b.cur = 0 /\ b.loading = 0
    BY <1>2, <1>3, <1>4
  <1>6. Listed(b)
    BY <1>5 DEF Listed
  <1>7. Typed(b)
    BY <1>4, <1>6 DEF Typed, Basic, Relists, Loads
  <1>8. QED
    BY <1>4, <1>5, <1>7 DEF b

\* The current track is kept, alone or with those behind it.
LEMMA ClearedKeeps ==
    ASSUME NEW a, Typed(a), a.list # <<>>, NEW action \in {"keep_current", "keep_new"}
    PROVE  LET b == Cleared(a, action)
               last == IF action = "keep_current" THEN a.cur ELSE Len(a.list)
           IN  /\ Relists(a, b) /\ Typed(b) /\ b.list # <<>> /\ b.cur = 1
               /\ Len(b.list) = last - a.cur + 1
               /\ \A i \in DOMAIN b.list : /\ b.list[i] = a.list[a.cur + i - 1]
                                           /\ a.cur + i - 1 \in DOMAIN a.list
  <1> DEFINE b == Cleared(a, action)
             last == IF action = "keep_current" THEN a.cur ELSE Len(a.list)
             kept == KeptBy(a, action)
             left == LeftBy(a, action)
             n == Len(a.list)
             c == a.cur
             m == last - c + 1
  <1>1. /\ n \in Nat /\ DOMAIN a.list = 1 .. n /\ c \in 1 .. n /\ a.list \in Seq(Entries)
        /\ a.loading \in Nat
    <2>1. n \in Nat /\ DOMAIN a.list = 1 .. n /\ c \in 0 .. n /\ c # 0
      BY DEF Typed, Basic, Listed
    <2> HIDE DEF n, c
    <2>2. c \in 1 .. n
      BY <2>1, SMT
    <2>3. QED
      BY <2>1, <2>2 DEF Typed, Basic, Listed
  <1>2. /\ Relists(a, b) /\ b.list = left /\ b.cur = IF left = <<>> THEN 0 ELSE 1
        /\ b.loading = IF \E e \in ToSet(left) : e.id = a.loading THEN a.loading ELSE 0
    BY ClearedParts
  <1>3. last \in c .. n /\ last \in Int /\ m \in Nat \ {0} /\ n \in Int /\ c \in Int
    <2> HIDE DEF n, c
    <2>1. QED
      BY <1>1, SMT DEF n, c
  <1>4. kept = c .. last
    <2>1. ASSUME NEW i PROVE i \in kept <=> i \in c .. last
      <3>1. CASE action = "keep_current"
        <4>1. i \in kept <=> i = c
          BY <1>1, <3>1 DEF KeptBy
        <4>2. i \in c .. c <=> i = c
          BY <1>3, SMT
        <4>3. QED
          BY <3>1, <4>1, <4>2
      <3>2. CASE action = "keep_new"
        <4>1. i \in kept <=> i \in 1 .. n /\ i >= c
          BY <1>1, <3>2 DEF KeptBy
        <4> HIDE DEF kept, n, c
        <4>2. i \in c .. n <=> i \in 1 .. n /\ i >= c
          BY <1>1, SMT
        <4>3. QED
          BY <3>2, <4>1, <4>2 DEF n
      <3>3. QED
        BY <3>1, <3>2
    <2>2. QED
      BY <2>1
  <1> HIDE DEF kept, n, c, last
  <1>5. Cardinality(kept) = m
    BY <1>3, <1>4, FS_Interval, SMT
  <1>6. Min(kept) = c
    <2>1. kept \in SUBSET Nat /\ c \in kept /\ \A x \in kept : c <= x
      BY <1>1, <1>3, <1>4, SMT
    <2>2. Min(kept) \in kept /\ Min(kept) <= c
      BY <2>1, SmallestOf
    <2>3. Min(kept) \in Nat /\ c <= Min(kept)
      BY <2>1, <2>2
    <2>4. QED
      BY <1>3, <2>2, <2>3, SMT
  <1> HIDE DEF m
  <1>7. b.list = [i \in 1 .. m |-> a.list[c + i - 1]]
    BY <1>2, <1>5, <1>6 DEF LeftBy, kept, left
  <1>8. \A i \in 1 .. m : c + i - 1 \in 1 .. n /\ c + i - 1 <= last
    BY <1>1, <1>3, SMT DEF m
  <1>9. /\ b.list \in Seq(Entries) /\ Len(b.list) = m /\ DOMAIN b.list = 1 .. m
        /\ \A i \in 1 .. m : b.list[i] = a.list[c + i - 1] /\ b.list[i] \in Entries
    <2>1. m \in Nat /\ c \in Int
      BY <1>3
    <2>2. \A i \in 1 .. m : c + i - 1 \in 1 .. Len(a.list)
      BY <1>8 DEF n
    <2>3. QED
      BY <1>1, <1>7, <2>1, <2>2, PartOf
  <1>10. b.list # <<>>
    BY <1>3, <1>9
  <1>11. b.cur = 1
    BY <1>2, <1>10
  <1>12. left = b.list
    BY <1>2
  <1> HIDE DEF left, b
  <1>13. b.loading = IF \E e \in ToSet(b.list) : e.id = a.loading THEN a.loading ELSE 0
    BY <1>2, <1>12
  <1>14. \A i, j \in 1 .. n : a.list[i].id = a.list[j].id => i = j
    BY <1>1 DEF Typed, Basic, Listed
  <1>15. \A i, j \in 1 .. m : b.list[i].id = b.list[j].id => i = j
    <2>1. \A i, j \in 1 .. m : c + i - 1 = c + j - 1 => i = j
      BY <1>3, SMT
    <2>2. ASSUME NEW i \in 1 .. m, NEW j \in 1 .. m, b.list[i].id = b.list[j].id
          PROVE  c + i - 1 = c + j - 1
      <3>1. a.list[c + i - 1].id = a.list[c + j - 1].id
        BY <1>9, <2>2
      <3>2. c + i - 1 \in 1 .. n /\ c + j - 1 \in 1 .. n
        BY <1>8
      <3>3. QED
        BY <1>14, <3>1, <3>2, Zenon
    <2>3. QED
      BY <2>1, <2>2
  <1>16. b.loading # 0 => b.list[m].id = b.loading /\ b.loading = a.loading
    <2> SUFFICES ASSUME b.loading # 0 PROVE b.list[m].id = b.loading /\ b.loading = a.loading
      OBVIOUS
    <2>1. b.loading = a.loading /\ \E e \in ToSet(b.list) : e.id = a.loading
      BY <1>13
    <2>2. PICK i \in 1 .. m : b.list[i].id = a.loading
      BY <1>9, <2>1 DEF ToSet
    <2>3. a.list[n].id = a.loading /\ n \in 1 .. n
      <3>1. a.list[n].id = a.loading
        BY <2>1 DEF Typed, Basic, Listed, n
      <3>2. QED
        BY <1>1, <3>1, SMT
    <2>4. c + i - 1 = n
      BY <1>8, <1>9, <1>14, <2>2, <2>3
    <2>5. i = m
      <3>1. last <= n
        BY <1>3, SMT
      <3>2. c + i - 1 <= last
        BY <1>8
      <3>3. QED
        BY <1>1, <1>3, <2>4, <3>1, <3>2, SMT DEF m
    <2>6. QED
      BY <2>1, <2>2, <2>5
  <1>17. \A i \in 1 .. m : b.list[i].id = b.loading => ~b.list[i].ready
    <2>1. \A i \in 1 .. m : b.list[i].id \in Nat \ {0}
      BY <1>9 DEF Entries
    <2>2. \A i \in 1 .. m : b.list[i].id = b.loading => b.loading = a.loading
      BY <1>16, <2>1
    <2>3. \A i \in 1 .. n : a.list[i].id = a.loading => ~a.list[i].ready
      BY <1>1 DEF Typed, Basic, Listed
    <2>4. QED
      BY <1>8, <1>9, <2>2, <2>3
  <1>18. b.loading \in Nat /\ b.cur \in 0 .. Len(b.list) /\ b.cur # 0
    <2>1. 1 \in 0 .. m
      BY <1>3, SMT
    <2>2. QED
      BY <1>1, <1>9, <1>11, <1>13, <2>1
  <1>19. Listed(b)
    BY <1>9, <1>10, <1>15, <1>16, <1>17, <1>18 DEF Listed
  <1>20. Typed(b)
    BY <1>2, <1>19 DEF Typed, Basic, Relists, Loads
  <1>21. QED
    BY <1>1, <1>2, <1>8, <1>9, <1>10, <1>11, <1>20 DEF b, c, m, last, n

\* A track may be loading as the current one only if it is alone.
Alone(a) == a.loading # 0 /\ a.cur = Len(a.list) => a.cur = 1
Fits(a, off) == Typed(a) /\ Loading(a) /\ Along(a, off)

\* Loading tracks one after another is loading tracks.
LEMMA LoadsMore ==
    ASSUME NEW a, NEW b, NEW c, Loads(a, b), Loads(b, c)
    PROVE  Loads(a, c)
  BY AddsMore DEF Loads

\* One more element at the end of a sequence
LEMMA AppendFacts ==
    ASSUME NEW E, NEW q \in Seq(E), NEW e \in E, NEW r, r = Append(q, e)
    PROVE  /\ r \in Seq(E) /\ Len(r) = Len(q) + 1 /\ DOMAIN r = 1 .. Len(q) + 1
           /\ r[Len(q) + 1] = e /\ r # <<>>
           /\ \A i \in 1 .. Len(q) : r[i] = q[i]
  OBVIOUS

\* b has one more track than a, the one it is loading now.
Appends(a, b, entry) ==
    /\ a.loading = 0 /\ entry \in Entries /\ ~entry.ready
    /\ \A i \in DOMAIN a.list : a.list[i].id # entry.id
    /\ b.list = Append(a.list, entry) /\ b.loading = entry.id
    /\ a.cur = 0 => b.cur = 1
    /\ a.cur # 0 => b.cur = a.cur

\* One more entry at the end of the list
LEMMA Appended ==
    ASSUME NEW a, Typed(a), NEW b, NEW entry, Appends(a, b, entry)
    PROVE  /\ Listed(b) /\ b.list # <<>> /\ Alone(b)
           /\ Len(b.list) = Len(a.list) + 1 /\ DOMAIN b.list = 1 .. Len(a.list) + 1
           /\ b.list[Len(a.list) + 1] = entry
           /\ \A i \in DOMAIN a.list : b.list[i] = a.list[i]
  <1>0. /\ a.loading = 0 /\ entry \in Entries /\ ~entry.ready
        /\ \A i \in DOMAIN a.list : a.list[i].id # entry.id
        /\ b.list = Append(a.list, entry) /\ b.loading = entry.id
        /\ (a.cur = 0 => b.cur = 1) /\ (a.cur # 0 => b.cur = a.cur)
    BY DEF Appends
  <1> DEFINE n == Len(a.list)
  <1>1. /\ n \in Nat /\ DOMAIN a.list = 1 .. n /\ a.list \in Seq(Entries)
        /\ a.cur \in 0 .. n /\ (a.cur = 0 <=> a.list = <<>>) /\ (n = 0 <=> a.list = <<>>)
        /\ \A i, j \in 1 .. n : a.list[i].id = a.list[j].id => i = j
    BY DEF Typed, Basic, Listed
  <1>2. /\ b.list \in Seq(Entries) /\ Len(b.list) = n + 1 /\ DOMAIN b.list = 1 .. n + 1
        /\ b.list[n + 1] = entry /\ (\A i \in 1 .. n : b.list[i] = a.list[i])
        /\ b.list # <<>>
    <2>1. b.list = Append(a.list, entry) /\ entry \in Entries /\ a.list \in Seq(Entries)
      BY <1>0, <1>1
    <2>2. QED
      BY <1>1, <2>1, AppendFacts
  <1>3. entry.id \in Nat \ {0}
    BY <1>0 DEF Entries
  <1> HIDE DEF n
  <1>4. \A i : i \in 1 .. n + 1 <=> i \in 1 .. n \/ i = n + 1
    BY <1>1, SMT
  <1>5. ASSUME NEW i \in 1 .. n + 1, NEW j \in 1 .. n + 1, b.list[i].id = b.list[j].id
        PROVE  i = j
    <2>1. CASE i \in 1 .. n /\ j \in 1 .. n
      BY <1>0, <1>1, <1>2, <1>5, <2>1
    <2>2. CASE i = n + 1 /\ j \in 1 .. n
      BY <1>0, <1>1, <1>2, <1>5, <2>2
    <2>3. CASE i \in 1 .. n /\ j = n + 1
      BY <1>0, <1>1, <1>2, <1>5, <2>3
    <2>4. QED
      BY <1>4, <2>1, <2>2, <2>3
  <1>6. \A i \in 1 .. n + 1 : b.list[i].id = b.loading => ~b.list[i].ready
    BY <1>0, <1>1, <1>2, <1>4
  <1>7. /\ b.cur \in 0 .. n + 1 /\ b.cur # 0
        /\ b.cur = n + 1 => b.cur = 1
    <2>1. CASE a.cur = 0
      <3>1. b.cur = 1 /\ 1 \in 0 .. n + 1
        BY <1>0, <1>1, <2>1, SMT
      <3>2. QED
        BY <3>1
    <2>2. CASE a.cur # 0
      <3>1. b.cur = a.cur
        BY <1>0, <2>2
      <3>2. a.cur \in 0 .. n + 1 /\ a.cur # n + 1
        BY <1>1, SMT
      <3>3. QED
        BY <2>2, <3>1, <3>2
    <2>3. QED
      BY <2>1, <2>2
  <1>8. Listed(b)
    BY <1>0, <1>2, <1>3, <1>5, <1>6, <1>7 DEF Listed
  <1>9. QED
    BY <1>1, <1>2, <1>7, <1>8 DEF Alone, n

\* audio_load_track keeps the list a stretch of the playlist.
LEMMA LoadTrackFacts ==
    ASSUME NEW a, Typed(a), Alone(a), NEW off \in Int, Along(a, off)
    PROVE  LET b == LoadTrack(a)
           IN  /\ Fits(b, off) /\ Loads(a, b)
               /\ b.pl = a.pl /\ b.skipped = a.skipped
               /\ b.stat \in {"ok", "busy", "nomore"}
               /\ b.stat = "ok" => b.list # <<>>
               /\ b.stat = "busy" => a.loading # 0
               /\ b.stat = "nomore" => /\ b.list = a.list /\ b.peek = a.peek
                                       /\ \A t : ~StepsOn(a, t, a.peek + 1)
               /\ a.list = <<>> /\ Peek(a, a.peek + 1) # 0 => b.stat = "ok"
  <1> DEFINE b == LoadTrack(a)
             n == Len(a.list)
             next == Peek(a, a.peek + 1)
             entry == [track |-> next, id |-> FreshId(a), meta |-> FALSE, ready |-> FALSE]
  <1>1. /\ n \in Nat /\ DOMAIN a.list = 1 .. n /\ a.peek \in Int /\ a.pl \in Int
        /\ a.list \in Seq(Entries) /\ (n = 0 <=> a.list = <<>>)
        /\ a.loading \in Nat /\ (a.list = <<>> => a.loading = 0)
        /\ DOMAIN a = AudioFields
    BY DEF Typed, Basic, Listed
  <1>2. a.peek + 1 \in Int /\ (a.peek + 1 >= 0 \/ a.pl \in Left(a))
    <2>1. CASE a.list = <<>>
      <3>1. a.peek >= -1
        BY <2>1 DEF Along
      <3>2. QED
        BY <1>1, <3>1, SMT
    <2>2. CASE a.list # <<>>
      <3>1. a.peek - n + 1 < 0 => a.pl \in Left(a)
        BY <2>2 DEF Along
      <3> HIDE DEF n
      <3>2. a.peek - n + 1 < 0 \/ a.peek + 1 >= 0
        BY <1>1, SMT
      <3>3. a.peek + 1 \in Int
        BY <1>1, SMT
      <3>4. QED
        BY <3>1, <3>2, <3>3
    <2>3. QED
      BY <2>1, <2>2
  <1>3. /\ next \in Tracks \cup {0} /\ (next # 0 => StepsOn(a, next, a.peek + 1))
        /\ \A t : StepsOn(a, t, a.peek + 1) => next = t /\ next # 0
    <2>1. \A t : StepsOn(a, t, a.peek + 1) => t # 0
      BY LeftTracks, TracksFinite DEF StepsOn
    <2>2. QED
      BY <1>1, <1>2, <2>1, PeekFacts
  <1> HIDE DEF next, n
  \* Only how loading goes has changed.
  <1>4. ASSUME NEW c, DOMAIN c = AudioFields, Loads(a, c), c.queue \in Seq(Mail),
               c.pl = a.pl, c.skipped = a.skipped, c.list = a.list, c.cur = a.cur,
               c.peek = a.peek, c.loading = a.loading,
               a.loading = 0 \/ c.filling # "full"
        PROVE  Fits(c, off)
    <2>1. Typed(c)
      BY <1>4 DEF Typed, Basic, Loads, Listed
    <2>2. Loading(c)
      BY <1>4 DEF Loading, Alone
    <2>3. QED
      BY <1>4, <2>1, <2>2, AlongSame DEF Fits
  <1>5. CASE a.loading # 0
    <2>1. CASE a.filling = "filling"
      <3> DEFINE c == [a EXCEPT !.stat = "ok"]
      <3>1. b = c
        BY <1>5, <2>1 DEF LoadTrack
      <3>2. /\ DOMAIN c = AudioFields /\ Loads(a, c) /\ c.queue \in Seq(Mail)
            /\ c.pl = a.pl /\ c.skipped = a.skipped /\ c.list = a.list /\ c.cur = a.cur
            /\ c.peek = a.peek /\ c.loading = a.loading /\ c.filling # "full" /\ c.stat = "ok"
        BY <1>1, <2>1, AddsNothing DEF Typed, Basic, Loads, AudioFields
      <3> HIDE DEF b, c
      <3>3. QED
        BY <1>1, <1>4, <1>5, <3>1, <3>2 DEF b
    <2>2. CASE a.filling = "full"
      <3> DEFINE m == [type |-> "loaded", arg |-> a.loading]
                 c == [[[a EXCEPT !.filling = "filling"] EXCEPT !.stat = "ok"]
                          EXCEPT !.queue = Append(@, m)]
      <3>1. b = c
        BY <1>1, <1>5, <2>2 DEF LoadTrack, Post, AudioFields
      <3>2. m \in Mail /\ m.type \notin {"seek", "preseek"}
        BY <1>1 DEF Mail, MessageTypes
      <3> HIDE DEF m
      <3>3. Append(a.queue, m) \in Seq(Mail) /\ Adds(a.queue, Append(a.queue, m))
        BY <3>2, Posted DEF Typed, Basic, Adds
      <3>4. /\ DOMAIN c = AudioFields /\ Loads(a, c) /\ c.queue \in Seq(Mail)
            /\ c.pl = a.pl /\ c.skipped = a.skipped /\ c.list = a.list /\ c.cur = a.cur
            /\ c.peek = a.peek /\ c.loading = a.loading /\ c.filling # "full" /\ c.stat = "ok"
        BY <1>1, <3>3 DEF Loads, AudioFields
      <3> HIDE DEF b, c
      <3>5. QED
        BY <1>1, <1>4, <1>5, <3>1, <3>4 DEF b
    <2>3. CASE a.filling \notin {"filling", "full"}
      <3> DEFINE c == [a EXCEPT !.stat = "busy"]
      <3>1. b = c
        BY <1>5, <2>3 DEF LoadTrack
      <3>2. /\ DOMAIN c = AudioFields /\ Loads(a, c) /\ c.queue \in Seq(Mail)
            /\ c.pl = a.pl /\ c.skipped = a.skipped /\ c.list = a.list /\ c.cur = a.cur
            /\ c.peek = a.peek /\ c.loading = a.loading /\ c.filling # "full" /\ c.stat = "busy"
        BY <1>1, <2>3, AddsNothing DEF Typed, Basic, Loads, AudioFields
      <3> HIDE DEF b, c
      <3>3. QED
        BY <1>1, <1>4, <1>5, <3>1, <3>2 DEF b
    <2>4. QED
      BY <2>1, <2>2, <2>3
  <1>6. CASE a.loading = 0 /\ next = 0
    <2> DEFINE c == [[a EXCEPT !.filling = "eop"] EXCEPT !.stat = "nomore"]
    <2>1. b = c
      BY <1>1, <1>6 DEF LoadTrack, next, AudioFields
    <2>2. /\ DOMAIN c = AudioFields /\ Loads(a, c) /\ c.queue \in Seq(Mail)
          /\ c.pl = a.pl /\ c.skipped = a.skipped /\ c.list = a.list /\ c.cur = a.cur
          /\ c.peek = a.peek /\ c.loading = a.loading /\ c.stat = "nomore"
      BY <1>1, AddsNothing DEF Typed, Basic, Loads, AudioFields
    <2> HIDE DEF b, c
    <2>3. QED
      BY <1>1, <1>3, <1>4, <1>6, <2>1, <2>2 DEF b, next
  <1>7. CASE a.loading = 0 /\ next # 0 /\ n >= Room
    <2> DEFINE c == [[a EXCEPT !.filling = "full"] EXCEPT !.stat = "ok"]
    <2>1. b = c
      BY <1>1, <1>7 DEF LoadTrack, next, n, AudioFields
    <2>2. /\ DOMAIN c = AudioFields /\ Loads(a, c) /\ c.queue \in Seq(Mail)
          /\ c.pl = a.pl /\ c.skipped = a.skipped /\ c.list = a.list /\ c.cur = a.cur
          /\ c.peek = a.peek /\ c.loading = a.loading /\ c.stat = "ok"
      BY <1>1, AddsNothing DEF Typed, Basic, Loads, AudioFields
    <2>3. a.list # <<>>
      <3>1. n # 0
        BY <1>1, <1>7, TrackListAssumption, SMT
      <3>2. QED
        BY <1>1, <3>1
    <2> HIDE DEF b, c
    <2>4. QED
      BY <1>1, <1>4, <1>7, <2>1, <2>2, <2>3 DEF b
  <1>8. CASE a.loading = 0 /\ next # 0 /\ ~(n >= Room)
    <2> DEFINE cur == IF a.cur = 0 THEN 1 ELSE a.cur
               c == [[[[[[a EXCEPT !.filling = "filling"] EXCEPT !.stat = "ok"]
                      EXCEPT !.peek = @ + 1] EXCEPT !.list = Append(@, entry)]
                      EXCEPT !.loading = entry.id] EXCEPT !.cur = cur]
    <2>1. entry \in Entries /\ ~entry.ready /\ entry.track = next
          /\ \A i \in DOMAIN a.list : a.list[i].id # entry.id
      BY <1>3, <1>8, FreshIdFacts DEF Entries
    <2>2. b = c
      <3>1. b = [a EXCEPT !.filling = "filling", !.stat = "ok", !.peek = @ + 1,
                       !.list = Append(@, entry), !.loading = entry.id,
                       !.cur = IF @ = 0 THEN 1 ELSE @]
        BY <1>8 DEF LoadTrack, next, n
      <3> HIDE DEF entry, b
      <3>2. QED
        BY <1>1, <3>1 DEF AudioFields
    <2> HIDE DEF entry, b, cur
    <2>3. /\ DOMAIN c = AudioFields /\ Loads(a, c) /\ c.queue = a.queue
          /\ c.pl = a.pl /\ c.skipped = a.skipped /\ c.list = Append(a.list, entry)
          /\ c.cur = cur /\ c.filling = "filling"
          /\ c.peek = a.peek + 1 /\ c.loading = entry.id /\ c.stat = "ok"
      BY <1>1, AddsNothing DEF Loads, AudioFields
    <2> HIDE DEF c
    <2>4. /\ Listed(c) /\ c.list # <<>> /\ Alone(c)
          /\ Len(c.list) = n + 1 /\ DOMAIN c.list = 1 .. n + 1
          /\ c.list[n + 1] = entry
          /\ \A i \in DOMAIN a.list : c.list[i] = a.list[i]
      <3>1. Appends(a, c, entry)
        BY <1>8, <2>1, <2>3 DEF cur, Appends
      <3>2. /\ Listed(c) /\ c.list # <<>> /\ Alone(c)
            /\ Len(c.list) = Len(a.list) + 1 /\ DOMAIN c.list = 1 .. Len(a.list) + 1
            /\ c.list[Len(a.list) + 1] = entry
            /\ \A i \in DOMAIN a.list : c.list[i] = a.list[i]
        BY <3>1, Appended
      <3>3. QED
        BY <3>2, Zenon DEF n
    <2>5. Typed(c)
      <3>1. c.peek \in Int
        BY <1>1, <2>3, SMT
      <3>2. QED
        BY <2>3, <2>4, <3>1 DEF Typed, Basic, Loads
    <2>6. \A t, k : StepsOn(c, t, k) <=> StepsOn(a, t, k)
      BY <2>3 DEF StepsOn, Left
    <2>7. ASSUME NEW i \in DOMAIN c.list
          PROVE  StepsOn(c, c.list[i].track, c.peek - Len(c.list) + i)
      <3>1. CASE i = n + 1
        <4>1. c.peek - Len(c.list) + i = a.peek + 1
          BY <1>1, <2>3, <2>4, <3>1, SMT
        <4>2. c.list[i].track = next
          BY <2>1, <2>4, <3>1
        <4>3. QED
          BY <1>3, <1>8, <2>6, <4>1, <4>2
      <3>2. CASE i \in 1 .. n
        <4>1. c.peek - Len(c.list) + i = a.peek - n + i
          BY <1>1, <2>3, <2>4, <3>2, SMTT(30)
        <4>2. StepsOn(a, a.list[i].track, a.peek - n + i)
          BY <1>1, <3>2 DEF Along, n
        <4>3. c.list[i] = a.list[i]
          BY <1>1, <2>4, <3>2
        <4>4. QED
          BY <2>6, <4>1, <4>2, <4>3
      <3>3. i \in 1 .. n \/ i = n + 1
        BY <1>1, <2>4, <2>7, SMT
      <3>4. QED
        BY <3>1, <3>2, <3>3
    <2>8. c.peek - Len(c.list) + c.cur = off /\ c.cur \in Int
          /\ (c.peek - Len(c.list) + 1 < 0 => c.pl \in Left(c))
      <3>1. Left(c) = Left(a)
        BY <2>3 DEF Left
      <3>2. CASE a.list = <<>>
        <4>1. a.peek >= -1 /\ a.peek + 1 = off
          BY <1>3, <1>8, <3>2 DEF Along
        <4>2. n = 0 /\ c.cur = 1
          BY <1>1, <2>3, <3>2 DEF cur, Typed, Basic, Listed
        <4>3. QED
          BY <1>1, <2>3, <2>4, <4>1, <4>2, SMT
      <3>3. CASE a.list # <<>>
        <4>1. a.peek - n + a.cur = off /\ (a.peek - n + 1 < 0 => a.pl \in Left(a))
          BY <3>3 DEF Along, n
        <4>2. c.cur = a.cur /\ a.cur \in Int
          BY <1>1, <2>3, <3>3 DEF cur, Typed, Basic, Listed
        <4>3. c.peek - Len(c.list) = a.peek - n
          <5>1. c.peek = a.peek + 1 /\ Len(c.list) = n + 1 /\ a.peek \in Int /\ n \in Int
            BY <1>1, <2>3, <2>4
          <5>2. (a.peek + 1) - (n + 1) = a.peek - n
            BY <5>1, SMT
          <5>3. QED
            BY <5>1, <5>2, Zenon
        <4>4. QED
          BY <2>3, <3>1, <4>1, <4>2, <4>3
      <3>4. QED
        BY <3>2, <3>3
    <2>9. Along(c, off)
      BY <2>4, <2>7, <2>8 DEF Along
    <2>10. Loading(c)
      BY <2>3, <2>4 DEF Loading, Alone
    <2>11. QED
      BY <2>2, <2>3, <2>4, <2>5, <2>9, <2>10 DEF Fits, b
  <1>9. QED
    BY <1>5, <1>6, <1>7, <1>8

\* The buffer is filled: the list stays in step with the playlist.
LEMMA FillFacts ==
    ASSUME NEW a, Typed(a), Alone(a), NEW off \in Int, Along(a, off),
           a.status # "stopped", ~Ahead(a) => off = 0
    PROVE  LET b == FillFileBuffer(a)
           IN  /\ Fits(b, off) /\ Loads(a, b)
               /\ b.stat \in {"ok", "busy", "nomore"}
               /\ b.stat = "busy" => a.loading # 0
               /\ b.stat = "nomore" => /\ b.list = a.list /\ b.peek = a.peek
                                       /\ \A t : ~StepsOn(b, t, b.peek + 1)
               /\ a.list = <<>> /\ Peek(a, a.peek + 1) # 0 => b.stat = "ok"
  <1> DEFINE b == LoadTrack(a)
             c == FillFileBuffer(a)
  <1>1. /\ Fits(b, off) /\ Loads(a, b)
        /\ b.pl = a.pl /\ b.skipped = a.skipped
        /\ b.stat \in {"ok", "busy", "nomore"}
        /\ b.stat = "ok" => b.list # <<>>
        /\ b.stat = "busy" => a.loading # 0
        /\ b.stat = "nomore" => /\ b.list = a.list /\ b.peek = a.peek
                                /\ \A t : ~StepsOn(a, t, a.peek + 1)
        /\ a.list = <<>> /\ Peek(a, a.peek + 1) # 0 => b.stat = "ok"
    BY LoadTrackFacts
  <1>2. c = IF b.stat = "ok" /\ (~Ahead(b) \/ ~HasCurrent(b)) THEN PlaylistNext(b, 0) ELSE b
    BY DEF FillFileBuffer
  <1> HIDE DEF b, c
  <1>3. Ahead(b) <=> Ahead(a)
    BY <1>1 DEF Loads, Ahead
  <1>4. CASE c = b
    <2>1. \A t, k : StepsOn(b, t, k) <=> StepsOn(a, t, k)
      BY <1>1 DEF StepsOn, Left
    <2>2. QED
      BY <1>1, <1>4, <2>1 DEF c
  <1>5. CASE c # b
    <2>1. b.stat = "ok" /\ (~Ahead(b) \/ ~HasCurrent(b)) /\ c = PlaylistNext(b, 0)
      BY <1>2, <1>5
    <2>2. b.list # <<>> /\ Typed(b) /\ Along(b, off) /\ Loading(b)
      BY <1>1, <2>1 DEF Fits
    <2>3. /\ Len(b.list) \in Nat /\ DOMAIN b.list = 1 .. Len(b.list)
          /\ b.cur \in 0 .. Len(b.list) /\ b.cur # 0 /\ b.peek \in Int /\ b.pl \in Int
      BY <2>2 DEF Typed, Basic, Listed
    <2>4. b.cur \in DOMAIN b.list
      BY <2>3, SMT
    <2>5. off = 0
      BY <1>3, <2>1, <2>3 DEF HasCurrent
    <2>6. b.peek - Len(b.list) + b.cur = 0
      BY <2>2, <2>5 DEF Along
    <2> DEFINE t == b.list[b.cur].track
    <2>7. StepsOn(b, t, 0)
      BY <2>2, <2>4, <2>6 DEF Along
    <2>8. /\ Typed(c) /\ Moves(b, c) /\ c.pl = t /\ c.skipped = b.skipped
      <3>1. 0 \in Int /\ 0 >= 0
        BY SMT
      <3>2. QED
        BY <2>1, <2>2, <2>7, <3>1, PlaylistNextFacts
    <2>9. Along(c, off)
      <3>1. /\ c.list = b.list /\ c.cur = b.cur /\ c.peek = b.peek
        BY <2>8 DEF Moves
      <3>2. 0 \in Int /\ 0 = off + b.cur - b.cur /\ b.peek = b.peek - 0
        BY <2>3, <2>5, SMT
      <3>3. Along(c, 0)
        BY <2>2, <2>4, <2>8, <3>1, <3>2, AlongMoved
      <3>4. QED
        BY <2>5, <3>3
    <2>10. Loading(c) /\ Loads(a, c) /\ c.stat = "ok"
      <3>1. Loads(b, c)
        BY <2>8 DEF Moves
      <3>2. Loading(c)
        BY <2>2, <2>8 DEF Moves, Loading, TooBigYet
      <3>3. QED
        BY <1>1, <2>1, <2>8, <3>1, <3>2, LoadsMore DEF Moves
    <2>11. QED
      BY <2>8, <2>9, <2>10 DEF Fits, c
  <1>6. QED
    BY <1>4, <1>5

\* All is loaded anew.
LEMMA RebufferedAll ==
    ASSUME NEW a, Typed(a), NEW peek \in {-1, 0}, a.status # "stopped",
           ~Ahead(a) => peek = -1
    PROVE  LET b == Rebuffered(a, "all", peek)
           IN  /\ Fits(b, peek + 1) /\ Loads(a, b)
               /\ b.stat \in {"ok", "nomore"}
               /\ b.stat = "nomore" => /\ b.list = <<>> /\ b.peek = peek
                                       /\ \A t : ~StepsOn(b, t, peek + 1)
                                       /\ \A off : Along(b, off)
               /\ Peek(a, peek + 1) # 0 => b.stat = "ok"
  <1> DEFINE c == Cleared(a, "all")
             d == [c EXCEPT !.peek = peek]
             b == Rebuffered(a, "all", peek)
  <1>1. Relists(a, c) /\ Typed(c) /\ c.list = <<>> /\ c.cur = 0 /\ c.loading = 0
    BY ClearedAll
  <1>2. b = FillFileBuffer(d)
    BY DEF Rebuffered
  <1> HIDE DEF b, c
  <1>3. peek \in Int /\ peek >= -1 /\ peek + 1 \in Int
    BY SMT
  <1>4. /\ Typed(d) /\ Loads(a, d) /\ d.pl = a.pl /\ d.skipped = a.skipped
        /\ d.peek = peek /\ d.list = <<>> /\ d.loading = 0 /\ d.status = a.status
        /\ d.skip = a.skip
    BY <1>1, <1>3, AddsNothing DEF Relists, Typed, Basic, Listed, Loads, AudioFields
  <1> HIDE DEF d
  <1>5. Along(d, peek + 1) /\ Alone(d)
    <2>1. \A i : i \notin DOMAIN d.list
      BY <1>4
    <2>2. QED
      BY <1>3, <1>4, <2>1 DEF Along, Alone
  <1>6. ~Ahead(d) => peek + 1 = 0
    BY <1>4, SMT DEF Ahead
  <1>7. Peek(d, peek + 1) = Peek(a, peek + 1)
    BY <1>4 DEF Peek
  <1>8. /\ Fits(b, peek + 1) /\ Loads(d, b)
        /\ b.stat \in {"ok", "busy", "nomore"}
        /\ b.stat = "busy" => d.loading # 0
        /\ b.stat = "nomore" => /\ b.list = d.list /\ b.peek = d.peek
                                /\ \A t : ~StepsOn(b, t, b.peek + 1)
        /\ d.list = <<>> /\ Peek(d, d.peek + 1) # 0 => b.stat = "ok"
    BY <1>2, <1>3, <1>4, <1>5, <1>6, FillFacts
  <1>9. b.stat \in {"ok", "nomore"}
    BY <1>4, <1>8
  <1>10. ASSUME b.stat = "nomore", NEW off PROVE Along(b, off)
    <2>1. b.list = <<>> /\ b.peek = peek /\ \A t : ~StepsOn(b, t, peek + 1)
      BY <1>4, <1>8, <1>10
    <2>2. \A i : i \notin DOMAIN b.list
      BY <2>1
    <2>3. QED
      BY <1>3, <2>1, <2>2 DEF Along
  <1>11. Loads(a, b)
    BY <1>4, <1>8, LoadsMore
  <1>12. QED
    BY <1>4, <1>7, <1>8, <1>9, <1>10, <1>11 DEF b

\* A sum in another order, for the prover.
LEMMA Regrouped == \A x, y, z \in Int : x - y + z = (x - y + 1) + z - 1
  BY SMT

\* Some are kept: the current one, or those from it on.
LEMMA RebufferedKeeps ==
    ASSUME NEW a, Typed(a), NEW off \in Int, off >= 0, Along(a, off), a.list # <<>>,
           a.status # "stopped", ~Ahead(a) => off = 0,
           NEW action \in {"keep_current", "keep_new"}, NEW peek,
           peek = IF action = "keep_current" THEN off ELSE a.peek
    PROVE  LET b == FillFileBuffer([Cleared(a, action) EXCEPT !.peek = peek])
           IN  Fits(b, off) /\ Loads(a, b)
  <1> DEFINE c == Cleared(a, action)
             d == [c EXCEPT !.peek = peek]
             b == FillFileBuffer(d)
             last == IF action = "keep_current" THEN a.cur ELSE Len(a.list)
             n == Len(a.list)
             m == Len(c.list)
  <1>1. /\ Relists(a, c) /\ Typed(c) /\ c.list # <<>> /\ c.cur = 1
        /\ m = last - a.cur + 1
        /\ \A i \in DOMAIN c.list : /\ c.list[i] = a.list[a.cur + i - 1]
                                    /\ a.cur + i - 1 \in DOMAIN a.list
    BY ClearedKeeps
  <1>2. /\ n \in Int /\ a.cur \in Int /\ a.peek \in Int /\ peek \in Int /\ last \in Int
        /\ a.peek - n + a.cur = off
    <2>1. n \in Nat /\ a.cur \in 0 .. n /\ a.peek \in Int
      BY DEF Typed, Basic, Listed
    <2>2. a.peek - n + a.cur = off
      BY DEF Along
    <2> HIDE DEF n
    <2>3. n \in Int /\ a.cur \in Int
      BY <2>1, SMT
    <2>4. QED
      BY <2>1, <2>2, <2>3 DEF n
  <1>3. m \in Nat /\ DOMAIN c.list = 1 .. m
    BY <1>1 DEF Typed, Basic, Listed
  <1> HIDE DEF b, c, n, m
  <1>4. peek - m + 1 = off
    <2>1. CASE action = "keep_current"
      <3>1. last = a.cur /\ peek = off
        BY <2>1
      <3>2. m = 1
        BY <1>1, <1>2, <3>1, SMT
      <3>3. QED
        BY <3>1, <3>2, SMT
    <2>2. CASE action # "keep_current"
      <3>1. last = n /\ peek = a.peek
        BY <2>2 DEF n
      <3> HIDE DEF last
      <3>2. QED
        BY <1>1, <1>2, <3>1, SMTT(30)
    <2>3. QED
      BY <2>1, <2>2
  <1> HIDE DEF last
  <1>5. /\ Typed(d) /\ Loads(a, d) /\ d.pl = a.pl /\ d.skipped = a.skipped
        /\ d.peek = peek /\ d.list = c.list /\ d.cur = 1 /\ d.status = a.status
        /\ d.skip = a.skip
    BY <1>1, <1>2, AddsNothing DEF Relists, Typed, Basic, Listed, Loads, AudioFields
  <1> HIDE DEF d
  <1>6. \A t, k : StepsOn(d, t, k) <=> StepsOn(a, t, k)
    BY <1>5 DEF StepsOn, Left
  <1>7. ASSUME NEW i \in DOMAIN d.list
        PROVE  StepsOn(d, d.list[i].track, d.peek - Len(d.list) + i)
    <2>1. d.list[i] = a.list[a.cur + i - 1] /\ a.cur + i - 1 \in DOMAIN a.list
      BY <1>1, <1>5
    <2>2. StepsOn(a, d.list[i].track, a.peek - n + (a.cur + i - 1))
      BY <2>1 DEF Along, n
    <2>3. a.peek - n + (a.cur + i - 1) = peek - m + i
      <3>1. i \in Int
        BY <1>3, <1>5, <1>7, SMT
      <3>2. a.peek - n + (a.cur + i - 1) = off + i - 1
        BY <1>2, <3>1, SMT
      <3>3. peek - m + i = off + i - 1
        <4>1. m \in Int /\ peek \in Int
          BY <1>2, <1>3, SMT
        <4>2. peek - m + i = (peek - m + 1) + i - 1
          BY <3>1, <4>1, Regrouped, SMTT(30)
        <4>3. QED
          BY <1>4, <4>2
      <3>4. QED
        BY <3>2, <3>3
    <2>4. QED
      BY <1>5, <1>6, <2>2, <2>3 DEF m
  <1>8. Along(d, off)
    <2>1. d.peek - Len(d.list) + d.cur = off /\ ~(d.peek - Len(d.list) + 1 < 0)
      <3>1. ~(off < 0)
        BY SMT
      <3>2. QED
        BY <1>4, <1>5, <3>1 DEF m
    <2>2. d.list # <<>>
      BY <1>1, <1>5
    <2>3. QED
      BY <1>7, <2>1, <2>2 DEF Along
  <1>9. Alone(d)
    BY <1>5 DEF Alone
  <1>10. ~Ahead(d) => off = 0
    BY <1>5 DEF Ahead
  <1>11. Fits(b, off) /\ Loads(d, b)
    BY <1>5, <1>8, <1>9, <1>10, FillFacts DEF b
  <1>12. Loads(a, b)
    BY <1>5, <1>11, LoadsMore
  <1>13. QED
    BY <1>11, <1>12 DEF b, d, c

\* What is in front of a track that is taken out stays where it is.
LEMMA StepsWithout ==
    ASSUME NEW a, a.pl \in Int, NEW k \in Nat, NEW x, StepsOn(a, x, k),
           NEW c, c.pl = a.pl, c.skipped = a.skipped \cup {x}
    PROVE  /\ \A t : \A j \in Int : j < k /\ StepsOn(a, t, j) => StepsOn(c, t, j)
           /\ k > 0 /\ a.pl \in Left(a) => a.pl \in Left(c)
  <1> DEFINE D == Left(a)
             E == Left(c)
  <1>1. E = D \ {x} /\ D \in SUBSET Tracks /\ E \in SUBSET Tracks
    BY LeftTracks DEF Left
  <1>2. x \in D /\ x \in Int /\ InFront(D, x) = InFront(D, a.pl) + k
    BY <1>1, TracksFinite DEF StepsOn
  <1>3. \A y \in Int : InFront(D, y) \in Nat
    BY <1>1, InFrontFacts
  <1>4. ASSUME NEW y \in Int, y <= x PROVE InFront(E, y) = InFront(D, y)
    <2>1. ~(x < y)
      BY <1>2, <1>4, SMT
    <2>2. {u \in E : u < y} = {u \in D : u < y}
      BY <1>1, <2>1
    <2>3. QED
      BY <2>2 DEF InFront
  <1>5. a.pl <= x
    <2>1. x < a.pl => InFront(D, x) < InFront(D, a.pl)
      BY <1>1, <1>2, InFrontFacts
    <2>2. InFront(D, x) \in Nat /\ InFront(D, a.pl) \in Nat
      BY <1>2, <1>3
    <2>3. ~(InFront(D, x) < InFront(D, a.pl))
      BY <1>2, <2>2, SMT
    <2>4. QED
      BY <1>2, <2>1, <2>3, SMT
  <1>6. ASSUME NEW t, NEW j \in Int, j < k, StepsOn(a, t, j) PROVE StepsOn(c, t, j)
    <2>1. t \in D /\ t \in Int /\ InFront(D, t) = InFront(D, a.pl) + j
      BY <1>1, <1>6, TracksFinite DEF StepsOn
    <2>2. InFront(D, t) \in Nat /\ InFront(D, a.pl) \in Nat /\ InFront(D, x) \in Nat
      BY <1>2, <1>3, <2>1
    <2>3. InFront(D, t) < InFront(D, x)
      BY <1>2, <1>6, <2>1, <2>2, SMT
    <2>4. x <= t => InFront(D, x) <= InFront(D, t)
      BY <1>1, <1>2, <2>1, InFrontFacts
    <2>5. ~(x <= t)
      BY <2>2, <2>3, <2>4, SMT
    <2>6. t <= x /\ t # x
      BY <1>2, <2>1, <2>5, SMT
    <2>7. InFront(E, t) = InFront(D, t) /\ InFront(E, a.pl) = InFront(D, a.pl) /\ t \in E
      BY <1>1, <1>4, <1>5, <2>1, <2>6
    <2>8. QED
      BY <2>1, <2>7 DEF StepsOn
  <1>7. ASSUME k > 0 PROVE x # a.pl
    <2>1. InFront(D, a.pl) \in Nat
      BY <1>3
    <2>2. InFront(D, x) # InFront(D, a.pl)
      BY <1>2, <1>7, <2>1, SMT
    <2>3. QED
      BY <2>2
  <1>8. QED
    BY <1>1, <1>6, <1>7

\* The last element is taken off a sequence.
LEMMA FrontOf ==
    ASSUME NEW E, NEW q \in Seq(E), q # <<>>
    PROVE  LET r == SubSeq(q, 1, Len(q) - 1)
           IN  /\ r \in Seq(E) /\ Len(r) = Len(q) - 1 /\ DOMAIN r = 1 .. Len(q) - 1
               /\ \A i \in 1 .. Len(q) - 1 : r[i] = q[i]
               /\ (r = <<>> <=> Len(q) = 1)
  <1> DEFINE n == Len(q) - 1
             r == SubSeq(q, 1, n)
  <1>1. Len(q) \in Nat /\ Len(q) > 0 /\ n \in Nat /\ 1 .. n \subseteq DOMAIN q
    <2>1. Len(q) \in Nat /\ DOMAIN q = 1 .. Len(q) /\ Len(q) # 0
      OBVIOUS
    <2>2. QED
      BY <2>1, SMT
  <1>2. r = [i \in 1 .. n |-> q[i]]
    <2>1. \A i \in 1 .. n : 1 + i - 1 = i
      BY <1>1, SMT
    <2>2. SubSeq(q, 1, n) = [i \in 1 .. (1 + n - 1) |-> q[1 + i - 1]]
      BY <1>1
    <2>3. QED
      BY <1>1, <2>1, <2>2
  <1>3. \A i \in 1 .. n : q[i] \in E
    BY <1>1
  <1> HIDE DEF r
  <1>4. r \in Seq(E) /\ Len(r) = n
    BY <1>1, <1>2, <1>3, SMT
  <1>5. DOMAIN r = 1 .. n /\ \A i \in 1 .. n : r[i] = q[i]
    BY <1>2
  <1>6. r = <<>> <=> Len(q) = 1
    BY <1>1, <1>4, SMT
  <1>7. QED
    BY <1>4, <1>5, <1>6 DEF r

\* The index moves to the first track still to be played: the steps are the
\* same as before.
LEMMA StepsStay ==
    ASSUME NEW a, a.pl \in Int, NEW t, StepsOn(a, t, 0),
           NEW b, b.pl = t, b.skipped = a.skipped
    PROVE  b.pl \in Left(b) /\ \A x : \A j \in Int : StepsOn(b, x, j) <=> StepsOn(a, x, j)
  <1>1. 0 \in Int /\ \A j \in Int : j + 0 = j
    BY SMT
  <1>2. b.pl \in Left(b) /\ \A x : \A j \in Int : StepsOn(b, x, j) <=> StepsOn(a, x, j + 0)
    BY <1>1, StepsMoved
  <1>3. QED
    BY <1>1, <1>2

\* The place of the current track when the last is taken off.
LEMMA Trimmed ==
    ASSUME NEW cur \in Int, NEW n \in Int, cur > 0, cur <= n, cur = n => cur = 1,
           NEW c, c = IF cur > n - 1 THEN n - 1 ELSE cur
    PROVE  c \in 0 .. n - 1 /\ (c = 0 <=> n = 1)
  <1>1. CASE cur > n - 1
    BY <1>1, SMT
  <1>2. CASE ~(cur > n - 1)
    BY <1>2, SMT
  <1>3. QED
    BY <1>1, <1>2

\* The track that is loading cannot be used: it is skipped in the playlist, and
\* the index may move on with it.
LEMMA BadTrack ==
    ASSUME NEW a, NEW off \in Nat, Fits(a, off), a.list # <<>>,
           a.list[Len(a.list)].id = a.loading,
           NEW c, Basic(c), c.pl = a.pl, c.skipped = a.skipped \cup {Peek(a, a.peek)},
           c.peek = a.peek,
           NEW d, d = IF Peek(c, c.peek) # 0 THEN PlaylistNext(c, 0) ELSE c,
           NEW b, b.pl = d.pl, b.skipped = d.skipped, b.peek = a.peek - 1,
           b.list = SubSeq(a.list, 1, Len(a.list) - 1), b.loading = 0,
           b.cur = IF a.cur > Len(a.list) - 1 THEN Len(a.list) - 1 ELSE a.cur
    PROVE  Listed(b) /\ Along(b, off)
  <1> DEFINE n == Len(a.list)
             x == a.list[n].track
  <1>1. /\ n \in Nat /\ DOMAIN a.list = 1 .. n /\ a.list \in Seq(Entries) /\ n > 0
        /\ a.cur \in 0 .. n /\ a.cur # 0 /\ a.peek \in Int /\ a.pl \in Int
        /\ \A i, j \in 1 .. n : a.list[i].id = a.list[j].id => i = j
    BY SMTT(30) DEF Fits, Typed, Basic, Listed
  <1>2. /\ b.list \in Seq(Entries) /\ Len(b.list) = n - 1 /\ DOMAIN b.list = 1 .. n - 1
        /\ \A i \in 1 .. n - 1 : b.list[i] = a.list[i]
        /\ (b.list = <<>> <=> n = 1)
    BY <1>1, FrontOf
  <1>3. /\ \A i \in 1 .. n : StepsOn(a, a.list[i].track, a.peek - n + i)
        /\ a.peek - n + a.cur = off
        /\ a.peek - n + 1 < 0 => a.pl \in Left(a)
    BY <1>1 DEF Fits, Along
  <1>4. a.loading # 0 /\ (a.cur = n => a.cur = 1)
    <2>1. n \in 1 .. n
      BY <1>1, SMT
    <2>2. a.list[n] \in Entries
      BY <1>1, <2>1
    <2>3. a.loading # 0
      BY <2>2 DEF Entries
    <2>4. QED
      BY <2>3 DEF Fits, Loading
  <1> HIDE DEF n, x
  <1>5. off \in Int /\ a.cur \in Int /\ n \in Int /\ a.cur <= n /\ a.cur > 0
    BY <1>1, SMT
  <1>6. a.peek \in Nat /\ a.peek - n + n = a.peek /\ n \in 1 .. n
    BY <1>1, <1>3, <1>5, SMT
  <1>7. StepsOn(a, x, a.peek)
    BY <1>3, <1>6 DEF x
  <1>8. c.skipped = a.skipped \cup {x}
    <2>1. Peek(a, a.peek) = x
      BY <1>1, <1>6, <1>7, PeekFacts
    <2>2. QED
      BY <2>1
  <1>9. /\ \A t : \A j \in Int : j < a.peek /\ StepsOn(a, t, j) => StepsOn(c, t, j)
        /\ a.peek > 0 /\ a.pl \in Left(a) => a.pl \in Left(c)
    BY <1>1, <1>6, <1>7, <1>8, StepsWithout
  \* The index moves to a track still to be played, or stays.
  <1>10. \/ d = c
         \/ d.pl \in Left(d) /\ \A t : \A j \in Int : StepsOn(d, t, j) <=> StepsOn(c, t, j)
    <2>1. CASE Peek(c, c.peek) = 0
      BY <2>1
    <2>2. CASE Peek(c, c.peek) # 0
      <3>1. d = PlaylistNext(c, 0) /\ c.pl \in Int
        BY <2>2 DEF Basic
      <3>2. c.peek \in Int /\ c.peek \in Nat /\ (c.peek >= 0 \/ c.pl \in Left(c))
        BY <1>6, SMT
      <3>3. StepsOn(c, Peek(c, c.peek), c.peek)
        BY <2>2, <3>1, <3>2, PeekFacts
      <3>4. PICK v \in Tracks : StepsOn(c, v, 0)
        BY <3>1, <3>2, <3>3, FirstStep
      <3>5. 0 \in Int /\ (0 >= 0 \/ c.pl \in Left(c)) /\ \A j \in Int : j + 0 = j
        BY SMT
      <3>6. d.pl = v /\ d.skipped = c.skipped
        BY <3>1, <3>4, <3>5, BasicNext, SMTT(30)
      <3>7. QED
        BY <3>1, <3>4, <3>6, StepsStay
    <2>3. QED
      BY <2>1, <2>2
  <1>11. /\ \A t, j : StepsOn(b, t, j) <=> StepsOn(d, t, j)
         /\ Left(b) = Left(d)
    BY DEF StepsOn, Left
  <1>12. b.cur \in 0 .. n - 1 /\ (b.cur = 0 <=> n = 1)
    <2>1. b.cur = IF a.cur > n - 1 THEN n - 1 ELSE a.cur
      BY DEF n
    <2>2. a.cur = n => a.cur = 1
      BY <1>4
    <2>3. QED
      BY <1>5, <2>1, <2>2, Trimmed, ZenonT(40)
  <1>13. Listed(b)
    <2>1. \A i : i \in 1 .. n - 1 => i \in 1 .. n
      BY <1>1, SMT
    <2>2. \A i \in 1 .. n - 1 : b.list[i].id # 0
      <3>1. \A i \in 1 .. n - 1 : b.list[i] \in Entries
        BY <1>2
      <3>2. QED
        BY <3>1 DEF Entries
    <2>3. \A i, j \in 1 .. n - 1 : b.list[i].id = b.list[j].id => i = j
      BY <1>1, <1>2, <2>1
    <2>4. 0 \in Nat
      BY SMT
    <2>5. QED
      BY <1>2, <1>12, <2>2, <2>3, <2>4 DEF Listed
  <1>14. CASE n = 1
    <2>1. b.list = <<>> /\ (\A i : i \notin DOMAIN b.list)
      <3>1. \A i : i \notin 1 .. 1 - 1
        BY SMT
      <3>2. QED
        BY <1>2, <1>14, <3>1
    <2>2. b.peek >= -1 /\ b.peek + 1 = off
      <3>1. a.cur = 1
        BY <1>1, <1>14, SMT
      <3>2. a.peek = off
        BY <1>1, <1>3, <1>5, <1>14, <3>1, SMT
      <3>3. a.peek - 1 >= -1 /\ a.peek - 1 + 1 = a.peek
        BY <1>6, SMT
      <3>4. QED
        BY <3>2, <3>3
    <2>3. QED
      BY <1>13, <2>1, <2>2 DEF Along
  <1>15. CASE n # 1
    <2>1. /\ a.cur <= n - 1 /\ ~(a.cur > n - 1) /\ a.peek > 0
      BY <1>1, <1>3, <1>4, <1>5, <1>15, SMTT(30)
    <2>2. b.cur = a.cur
      BY <2>1 DEF n
    <2>3. b.peek - Len(b.list) = a.peek - n
      <3>1. a.peek - 1 - (n - 1) = a.peek - n
        BY <1>1, SMT
      <3>2. b.peek = a.peek - 1
        OBVIOUS
      <3>3. QED
        BY <1>2, <3>1, <3>2
    <2>4. ASSUME NEW i \in 1 .. n - 1
          PROVE  StepsOn(b, b.list[i].track, a.peek - n + i)
      <3>1. a.peek - n + i \in Int /\ a.peek - n + i < a.peek /\ i \in 1 .. n
        BY <1>1, <1>5, SMT
      <3>2. StepsOn(c, b.list[i].track, a.peek - n + i)
        BY <1>2, <1>3, <1>9, <3>1
      <3>3. StepsOn(d, b.list[i].track, a.peek - n + i)
        BY <1>10, <3>1, <3>2
      <3>4. QED
        BY <1>11, <3>3
    <2>5. b.peek - Len(b.list) + 1 < 0 => b.pl \in Left(b)
      <3>1. a.peek - n + 1 < 0 => c.pl \in Left(c)
        BY <1>3, <1>9, <2>1
      <3>2. QED
        BY <1>10, <1>11, <2>3, <3>1
    <2>6. b.list # <<>> /\ b.peek - Len(b.list) + b.cur = off
      BY <1>2, <1>3, <1>15, <2>2, <2>3
    <2>7. QED
      BY <1>2, <1>13, <2>3, <2>4, <2>5, <2>6 DEF Along
  <1>16. QED
    BY <1>14, <1>15

\* The audio thread asks itself, at the end of a step that loads, to load more.
LEMMA LoadsPost ==
    ASSUME NEW a, NEW b, DOMAIN b = AudioFields, b.queue \in Seq(Mail), Loads(a, b),
           NEW r, r = Post(b, "fill", 0)
    PROVE  /\ DOMAIN r = AudioFields /\ r.queue \in Seq(Mail) /\ Loads(a, r)
           /\ r.pl = b.pl /\ r.skipped = b.skipped /\ r.list = b.list /\ r.cur = b.cur
           /\ r.peek = b.peek /\ r.loading = b.loading /\ r.filling = b.filling
           /\ r.stat = b.stat
  <1> DEFINE m == [type |-> "fill", arg |-> 0]
             x == [b EXCEPT !.queue = Append(@, m)]
  <1>1. m \in Mail /\ m.type # "preseek"
    BY DEF Mail, MessageTypes
  <1>2. x = r
    BY DEF Post
  <1> HIDE DEF m
  <1>3. Append(b.queue, m) \in Seq(Mail) /\ Adds(b.queue, Append(b.queue, m))
    BY <1>1, Posted DEF Adds
  <1>4. Adds(a.queue, Append(b.queue, m))
    BY <1>3, AddsMore DEF Loads
  <1>5. /\ DOMAIN x = AudioFields /\ x.queue \in Seq(Mail) /\ Loads(a, x)
        /\ x.pl = b.pl /\ x.skipped = b.skipped /\ x.list = b.list /\ x.cur = b.cur
        /\ x.peek = b.peek /\ x.loading = b.loading /\ x.filling = b.filling
        /\ x.stat = b.stat
    BY <1>3, <1>4 DEF Loads, AudioFields
  <1> HIDE DEF x
  <1>6. QED
    BY <1>2, <1>5

\* The loading of the last track is finished: it is ready, taken out or put off.
LEMMA FinishFacts ==
    ASSUME NEW a, NEW off \in Nat, Fits(a, off), a.list # <<>>
    PROVE  LET r == FinishLoadTrack(a)
           IN  Fits(r, off) /\ Loads(a, r)
  <1> DEFINE n == Len(a.list)
             last == a.list[n]
             bad == ~last.meta \/ last.track \in Unreadable
             full == ~bad /\ last.track \in TooBig /\ n > 1
             r == FinishLoadTrack(a)
  <1>1. /\ n \in Nat /\ DOMAIN a.list = 1 .. n /\ a.list \in Seq(Entries)
        /\ n \in 1 .. n /\ n # 0
        /\ a.loading \in Nat /\ a.queue \in Seq(Mail) /\ a.peek \in Int
        /\ DOMAIN a = AudioFields
    <2>1. /\ n \in Nat /\ DOMAIN a.list = 1 .. n /\ a.list \in Seq(Entries) /\ n # 0
          /\ a.loading \in Nat /\ a.queue \in Seq(Mail) /\ a.peek \in Int
          /\ DOMAIN a = AudioFields
      BY DEF Fits, Typed, Basic, Listed
    <2>2. n \in 1 .. n
      BY <2>1, SMT
    <2>3. QED
      BY <2>1, <2>2
  <1>2. last \in Entries
    BY <1>1
  <1>3. a.filling = "full" /\ last.id = a.loading => full
    <2>1. last.id # 0
      BY <1>2 DEF Entries
    <2>2. QED
      BY <2>1 DEF Fits, Loading, TooBigYet
  <1> HIDE DEF n, last
  \* Only how loading goes has changed.
  <1>4. ASSUME NEW c, DOMAIN c = AudioFields, Loads(a, c), c.queue \in Seq(Mail),
               c.pl = a.pl, c.skipped = a.skipped, c.list = a.list, c.cur = a.cur,
               c.peek = a.peek, c.loading = a.loading,
               c.filling = a.filling \/ full
        PROVE  Fits(c, off)
    <2>1. Typed(c)
      BY <1>4 DEF Fits, Typed, Basic, Loads, Listed
    <2>2. Loading(c)
      <3>1. TooBigYet(a) => TooBigYet(c)
        BY <1>4 DEF TooBigYet
      <3>2. full => TooBigYet(c)
        BY <1>4 DEF TooBigYet, last, n
      <3>3. QED
        BY <1>4, <3>1, <3>2 DEF Fits, Loading
    <2>3. QED
      BY <1>4, <2>1, <2>2, AlongSame DEF Fits
  <1>5. CASE last.id # a.loading
    <2> DEFINE c == [a EXCEPT !.stat = "busy"]
    <2>1. r = c
      BY <1>5 DEF FinishLoadTrack, last, n
    <2>2. /\ DOMAIN c = AudioFields /\ Loads(a, c) /\ c.queue \in Seq(Mail)
          /\ c.pl = a.pl /\ c.skipped = a.skipped /\ c.list = a.list /\ c.cur = a.cur
          /\ c.peek = a.peek /\ c.loading = a.loading /\ c.filling = a.filling
      BY <1>1, AddsNothing DEF Loads, AudioFields
    <2> HIDE DEF r, c
    <2>3. QED
      BY <1>4, <2>1, <2>2 DEF r
  <1>6. CASE last.id = a.loading /\ full
    <2> DEFINE b == [a EXCEPT !.filling = "full"]
               c == [b EXCEPT !.stat = "full"]
    <2>1. r = c
      BY <1>1, <1>6 DEF FinishLoadTrack, last, n, AudioFields
    <2>2. /\ DOMAIN c = AudioFields /\ Loads(a, c) /\ c.queue \in Seq(Mail)
          /\ c.pl = a.pl /\ c.skipped = a.skipped /\ c.list = a.list /\ c.cur = a.cur
          /\ c.peek = a.peek /\ c.loading = a.loading
      BY <1>1, AddsNothing DEF Loads, AudioFields
    <2> HIDE DEF r, c
    <2>3. QED
      BY <1>4, <1>6, <2>1, <2>2, SMTT(30) DEF r
  <1>7. CASE last.id = a.loading /\ ~bad /\ ~full
    <2> DEFINE stat == IF n = a.cur THEN "ready" ELSE "ok"
               e == [last EXCEPT !.ready = TRUE]
               list == [a.list EXCEPT ![n] = e]
               b == [[a EXCEPT !.list = list] EXCEPT !.stat = stat]
               c == [b EXCEPT !.loading = 0]
    <2>1. r = Post(c, "fill", 0)
      <3>1. r = Post([[a EXCEPT !.list[n].ready = TRUE, !.stat = IF n = a.cur THEN "ready" ELSE "ok"]
                        EXCEPT !.loading = 0], "fill", 0)
        BY <1>1, <1>3, <1>7 DEF FinishLoadTrack, last, n, AudioFields
      <3>2. [a EXCEPT !.list[n].ready = TRUE, !.stat = IF n = a.cur THEN "ready" ELSE "ok"] = b
        BY <1>1 DEF AudioFields, last
      <3> HIDE DEF b, r
      <3>3. QED
        BY <3>1, <3>2
    <2>2. /\ e \in Entries /\ e.id = last.id /\ e.track = last.track
      BY <1>2 DEF Entries
    <2> HIDE DEF e
    <2>3. /\ list \in Seq(Entries) /\ Len(list) = n /\ DOMAIN list = 1 .. n
          /\ \A i \in 1 .. n : list[i].id = a.list[i].id /\ list[i].track = a.list[i].track
      <3>1. /\ list \in Seq(Entries) /\ Len(list) = n /\ DOMAIN list = 1 .. n
            /\ list[n] = e /\ \A i \in 1 .. n : i # n => list[i] = a.list[i]
        BY <1>1, <2>2 DEF n
      <3>2. QED
        BY <2>2, <3>1 DEF last
    <2> HIDE DEF list, stat
    <2>4. /\ DOMAIN c = AudioFields /\ Loads(a, c) /\ c.queue \in Seq(Mail)
          /\ c.pl = a.pl /\ c.skipped = a.skipped /\ c.list = list /\ c.cur = a.cur
          /\ c.peek = a.peek /\ c.loading = 0
      BY <1>1, AddsNothing DEF Loads, AudioFields
    <2> HIDE DEF c, r
    <2>5. /\ DOMAIN r = AudioFields /\ Loads(a, r) /\ r.queue \in Seq(Mail)
          /\ r.pl = a.pl /\ r.skipped = a.skipped /\ r.list = list /\ r.cur = a.cur
          /\ r.peek = a.peek /\ r.loading = 0
      BY <2>1, <2>4, LoadsPost
    <2>6. Listed(r)
      <3>1. list # <<>>
        <4>1. Len(<<>>) = 0
          OBVIOUS
        <4>2. QED
          BY <1>1, <2>3, <4>1
      <3>2. /\ a.cur \in 0 .. n /\ a.cur # 0
            /\ \A i, j \in 1 .. n : a.list[i].id = a.list[j].id => i = j
        BY <1>1 DEF Fits, Typed, Listed, n
      <3>3. \A i \in 1 .. n : list[i].id # 0
        <4>1. \A i \in 1 .. n : list[i] \in Entries
          BY <2>3
        <4>2. QED
          BY <4>1 DEF Entries
      <3>4. 0 \in Nat
        OBVIOUS
      <3>5. \A i, j \in 1 .. n : list[i].id = list[j].id => i = j
        BY <2>3, <3>2
      <3>6. QED
        BY <2>3, <2>5, <3>1, <3>2, <3>3, <3>4, <3>5 DEF Listed
    <2>7. Typed(r)
      BY <2>5, <2>6 DEF Fits, Typed, Basic, Loads
    <2>8. Along(r, off)
      <3>1. \A t, k : StepsOn(r, t, k) <=> StepsOn(a, t, k)
        BY <2>5 DEF StepsOn, Left
      <3>2. /\ \A i \in 1 .. n : StepsOn(a, a.list[i].track, a.peek - n + i)
            /\ a.peek - n + a.cur = off
            /\ a.peek - n + 1 < 0 => a.pl \in Left(a)
        BY <1>1 DEF Fits, Along, n
      <3>3. Left(r) = Left(a)
        BY <2>5 DEF Left
      <3>4. r.list # <<>>
        BY <2>6, <2>5, <1>1, <2>3
      <3>5. QED
        BY <2>3, <2>5, <3>1, <3>2, <3>3, <3>4 DEF Along
    <2>9. Loading(r)
      BY <2>5 DEF Loading
    <2>10. QED
      BY <2>5, <2>7, <2>8, <2>9 DEF Fits, r
  <1>8. CASE last.id = a.loading /\ bad
    <2> DEFINE lost == a.skipped \cup {Peek(a, a.peek)}
               a1 == [a EXCEPT !.skipped = lost]
               list == SubSeq(a.list, 1, n - 1)
               cur == IF a.cur > n - 1 THEN n - 1 ELSE a.cur
               c == [[a1 EXCEPT !.list = list] EXCEPT !.cur = cur]
               d == IF Peek(c, c.peek) # 0 THEN PlaylistNext(c, 0) ELSE c
               peek == d.peek - 1
               e == [[d EXCEPT !.peek = peek] EXCEPT !.stat = "failed"]
               f == [e EXCEPT !.loading = 0]
    <2>1. c = FreeLast([a EXCEPT !.skipped = @ \cup {Peek(a, a.peek)}])
      <3> DEFINE x == [a EXCEPT !.skipped = @ \cup {Peek(a, a.peek)}]
      <3>1. x = a1
        BY <1>1 DEF AudioFields
      <3>2. x.list = a.list /\ x.cur = a.cur /\ DOMAIN x = AudioFields
        BY <1>1 DEF AudioFields
      <3> HIDE DEF x, a1, lost
      <3>3. FreeLast(x) = [x EXCEPT !.list = SubSeq(@, 1, Len(x.list) - 1),
                                    !.cur = IF @ > Len(x.list) - 1 THEN Len(x.list) - 1 ELSE @]
        BY DEF FreeLast
      <3>4. FreeLast(x) = [x EXCEPT !.list = list, !.cur = cur]
        BY <3>2, <3>3 DEF n
      <3> HIDE DEF list, cur
      <3>5. QED
        BY <3>1, <3>2, <3>4 DEF x, AudioFields
    <2>2. /\ DOMAIN c = AudioFields /\ Loads(a, c) /\ c.queue = a.queue
          /\ c.pl = a.pl /\ c.skipped = lost /\ c.list = list /\ c.cur = cur
          /\ c.peek = a.peek /\ c.loading = a.loading /\ c.filling = a.filling
      <3> HIDE DEF list, cur, lost
      <3>1. QED
        BY <1>1, AddsNothing DEF Loads, AudioFields
    <2>3. Basic(c)
      <3>1. lost \subseteq Tracks
        <4>1. Peek(a, a.peek) \in Tracks
          <5>1. StepsOn(a, last.track, a.peek)
            <6>1. StepsOn(a, last.track, a.peek - n + n)
              BY <1>1 DEF Fits, Along, last, n
            <6>2. a.peek - n + n = a.peek
              BY <1>1, SMT
            <6>3. QED
              BY <6>1, <6>2
          <5>2. a.peek >= 0
            <6>1. a.cur \in 0 .. n /\ a.peek - n + a.cur = off
              BY DEF Fits, Along, Typed, Listed, n
            <6>2. QED
              BY <1>1, <6>1, SMT
          <5>3. Peek(a, a.peek) = last.track
            BY <1>1, <5>1, <5>2, PeekFacts DEF Fits, Typed, Basic
          <5>4. QED
            BY <1>2, <5>3 DEF Entries
        <4>2. a.skipped \subseteq Tracks
          BY DEF Fits, Typed, Basic
        <4>3. QED
          BY <4>1, <4>2
      <3> HIDE DEF c, lost, list, cur
      <3>2. QED
        BY <2>2, <3>1 DEF Fits, Typed, Basic, Loads
    <2>4. Basic(d) /\ Moves(c, d)
      <3>1. Moves(c, c)
        <4> HIDE DEF c
        <4>1. QED
          BY <2>2, AddsNothing DEF Moves, Loads
      <3>2. 0 \in Int
        OBVIOUS
      <3> HIDE DEF c
      <3>3. QED
        BY <2>3, <3>1, <3>2, BasicNext DEF d
    <2>5. peek = a.peek - 1 /\ d.filling = a.filling
      <3> HIDE DEF c, d
      <3>1. QED
        BY <2>2, <2>4 DEF Moves
    <2>6. /\ DOMAIN f = AudioFields /\ Loads(d, f) /\ f.queue = a.queue
          /\ f.pl = d.pl /\ f.skipped = d.skipped /\ f.list = list /\ f.cur = cur
          /\ f.peek = peek /\ f.loading = 0
      <3> HIDE DEF c, d, list, cur, lost, peek
      <3>1. DOMAIN d = AudioFields /\ d.queue = a.queue /\ d.list = list /\ d.cur = cur
        BY <2>2, <2>4 DEF Moves
      <3>2. QED
        BY <3>1, AddsNothing DEF Loads, AudioFields
    <2>7. r = Post(f, "fill", 0)
      <3>1. a.filling # "full"
        BY <1>3, <1>8
      <3>2. e = [d EXCEPT !.peek = @ - 1, !.stat = "failed"] /\ e.filling = a.filling
        <4> HIDE DEF c, d
        <4>1. DOMAIN d = AudioFields
          BY <2>4, SMTT(30) DEF Moves
        <4>2. QED
          BY <4>1, <2>5 DEF AudioFields
      <3> HIDE DEF c, d, e
      <3>3. r = IF e.filling = "full" THEN [e EXCEPT !.stat = "full"] ELSE Post(f, "fill", 0)
        BY <1>8, <2>1, <3>2 DEF FinishLoadTrack, last, n, d
      <3>4. QED
        BY <3>1, <3>2, <3>3
    <2> HIDE DEF lost, list, c, d, f, e, r, peek
    <2>8. Loads(a, f)
      BY <2>2, <2>4, <2>6, LoadsMore DEF Moves
    <2>9. /\ DOMAIN r = AudioFields /\ Loads(a, r) /\ r.queue \in Seq(Mail)
          /\ r.pl = d.pl /\ r.skipped = d.skipped /\ r.list = list /\ r.cur = cur
          /\ r.peek = a.peek - 1 /\ r.loading = 0
      <3>1. f.queue \in Seq(Mail)
        BY <1>1, <2>6
      <3>2. QED
        BY <2>5, <2>6, <2>7, <2>8, <3>1, LoadsPost
    <2>10. Listed(r) /\ Along(r, off)
      <3>1. a.list[Len(a.list)].id = a.loading
        BY <1>8 DEF last, n
      <3>2. c.pl = a.pl /\ c.skipped = a.skipped \cup {Peek(a, a.peek)} /\ c.peek = a.peek
        BY <2>2 DEF lost
      <3>3. d = IF Peek(c, c.peek) # 0 THEN PlaylistNext(c, 0) ELSE c
        BY DEF d
      <3>4. /\ r.list = SubSeq(a.list, 1, Len(a.list) - 1)
            /\ r.cur = IF a.cur > Len(a.list) - 1 THEN Len(a.list) - 1 ELSE a.cur
        BY <2>9 DEF list, cur, n
      <3>5. QED
        BY <2>3, <2>9, <3>1, <3>2, <3>3, <3>4, BadTrack
    <2>11. Typed(r)
      BY <1>1, <2>4, <2>9, <2>10, SMTT(30) DEF Fits, Typed, Basic, Loads
    <2>12. Loading(r)
      BY <2>9 DEF Loading
    <2>13. QED
      BY <2>9, <2>10, <2>11, <2>12 DEF Fits, r
  <1>9. QED
    BY <1>5, <1>6, <1>7, <1>8

-------------------------------------------------------------------------------
(* The audio thread's record as a whole.                                     *)

\* A track is played or paused, and loading goes on.
Running(s) == Sound(s) /\ s.a.status # "stopped" /\ s.a.filling # "off"
AtWork(s) == Running(s) /\ Along(s.a, Off(s.a))
Fit(s) == AtWork(s) /\ Calm(s)

\* Nothing is played.
AtRest(s) == /\ Sound(s) /\ s.a.status = "stopped" /\ ~s.a.ffrw
             /\ s.a.list = <<>> /\ s.a.skip = "none"

\* The playlist is at the current track, or a step behind it.
LEMMA OffFacts ==
    ASSUME NEW a
    PROVE  /\ Off(a) \in {0, 1} /\ Off(a) \in Int /\ Off(a) \in Nat /\ Off(a) >= 0
           /\ ~Ahead(a) => Off(a) = 0
  BY DEF Off, Ahead

\* Seek mode is still owed its end when no more of it has begun.
LEMMA CalmMore ==
    ASSUME NEW s, NEW r, Calm(s), s.a.queue \in Seq(Mail), Adds(s.a.queue, r.a.queue),
           r.u.hold = s.u.hold, r.a.ffrw => s.a.ffrw /\ (s.a.seeking => r.a.seeking)
    PROVE  Calm(r)
  BY DEF Calm, Adds

\* A handler has brought the list and the playlist on.
LEMMA Refitted ==
    ASSUME NEW s, Sound(s), NEW r, Shape(r), r.u.hold = s.u.hold, r.u.skip \in Int,
           Adds(s.a.queue, r.a.queue), Fits(r.a, Off(r.a)),
           r.a.status # "stopped", r.a.filling # "off"
    PROVE  /\ AtWork(r)
           /\ Calm(s) /\ (r.a.ffrw => s.a.ffrw /\ (s.a.seeking => r.a.seeking)) => Fit(r)
  <1>1. s.a.queue \in Seq(Mail)
    BY DEF Sound, Typed, Basic
  <1>2. Owed(r.a.queue) => r.u.hold
    BY <1>1 DEF Sound, Adds
  <1>3. AtWork(r)
    BY <1>2 DEF AtWork, Running, Sound, Fits
  <1>4. QED
    BY <1>1, <1>3, CalmMore DEF Fit

\* What is alike is as good.
LEMMA AlikeSound ==
    ASSUME NEW s, Sound(s), NEW r, Shape(r), Alike(s.a, r.a), r.u = s.u
    PROVE  Sound(r) /\ Off(r.a) = Off(s.a)
  <1>1. s.a.queue \in Seq(Mail) /\ r.a.queue \in Seq(Mail)
    BY DEF Sound, Typed, Basic, Alike, Adds
  <1>2. Typed(r.a)
    BY <1>1 DEF Sound, Typed, Basic, Listed, Alike
  <1>3. Loading(r.a)
    <2>1. TooBigYet(s.a) => TooBigYet(r.a)
      BY DEF Alike, TooBigYet
    <2>2. QED
      BY <2>1 DEF Sound, Loading, Alike
  <1>4. Owed(r.a.queue) => r.u.hold
    BY <1>1 DEF Sound, Alike, Adds
  <1>5. QED
    BY <1>2, <1>3, <1>4 DEF Sound, Off, Alike

\* What leaves the tracks alone leaves their account right.
LEMMA QuietKeeps ==
    ASSUME NEW s, NEW r, Quiet(s, r)
    PROVE  /\ Sound(s) => Sound(r)
           /\ Running(s) => Running(r)
           /\ AtWork(s) => AtWork(r)
  <1>1. Shape(r) /\ Alike(s.a, r.a) /\ r.u = s.u
    BY DEF Quiet, Formed
  <1>2. Sound(s) => Sound(r) /\ Off(r.a) = Off(s.a)
    BY <1>1, AlikeSound
  <1>3. Running(s) => Running(r)
    BY <1>1, <1>2 DEF Running, Alike
  <1>4. AtWork(s) => AtWork(r)
    <2>1. ASSUME AtWork(s) PROVE Along(r.a, Off(s.a))
      BY <1>1, <2>1, AlongSame DEF AtWork, Alike
    <2>2. QED
      BY <1>2, <1>3, <2>1 DEF AtWork, Running
  <1>5. QED
    BY <1>2, <1>3, <1>4

\* What leaves the tracks and the seeks alone leaves every account right.
LEMMA SteadyKeeps ==
    ASSUME NEW s, NEW r, Steady(s, r)
    PROVE  /\ Sound(s) => Sound(r)
           /\ Running(s) => Running(r)
           /\ AtWork(s) => AtWork(r)
           /\ Sound(s) /\ Calm(s) => Calm(r)
           /\ Fit(s) => Fit(r)
           /\ AtRest(s) => AtRest(r)
  <1>1. Quiet(s, r) /\ r.a.seeking = s.a.seeking /\ Alike(s.a, r.a) /\ r.u = s.u
    BY DEF Steady, Quiet
  <1>2. /\ Sound(s) => Sound(r)
        /\ Running(s) => Running(r)
        /\ AtWork(s) => AtWork(r)
    BY <1>1, QuietKeeps
  <1>3. Sound(s) /\ Calm(s) => Calm(r)
    <2>1. ASSUME Sound(s), Calm(s) PROVE Calm(r)
      <3>1. s.a.queue \in Seq(Mail)
        BY <2>1 DEF Sound, Typed, Basic
      <3>2. Adds(s.a.queue, r.a.queue) /\ r.a.ffrw = s.a.ffrw /\ r.u.hold = s.u.hold
        BY <1>1 DEF Alike
      <3>3. QED
        BY <1>1, <2>1, <3>1, <3>2, CalmMore
    <2>2. QED
      BY <2>1
  <1>4. AtRest(s) => AtRest(r)
    BY <1>1, <1>2 DEF AtRest, Alike
  <1>5. Fit(s) => Fit(r)
    BY <1>2, <1>3 DEF Fit, AtWork, Running
  <1>6. QED
    BY <1>2, <1>3, <1>4, <1>5

\* When the invariant holds.
LEMMA WhenHolds ==
    ASSUME NEW s
    PROVE  /\ Fit(s) /\ s.a.next \in Places \ Stopping => Holds(s)
           /\ AtWork(s) /\ s.a.next \in Halting => Holds(s)
           /\ Sound(s) /\ s.a.status # "stopped" /\ s.a.next \in Stopping => Holds(s)
           /\ AtRest(s) /\ s.a.next = "idle" => Holds(s)
  <1>1. /\ Halting \subseteq Places /\ Stopping \subseteq Halting
        /\ "idle" \in Places \ Halting
    BY DEF Halting, Places, Stopping
  <1>2. Fit(s) /\ s.a.next \in Places \ Stopping => Holds(s)
    BY <1>1 DEF Fit, AtWork, Running, Holds
  <1>3. AtWork(s) /\ s.a.next \in Halting => Holds(s)
    BY <1>1 DEF AtWork, Running, Holds
  <1>4. Sound(s) /\ s.a.status # "stopped" /\ s.a.next \in Stopping => Holds(s)
    BY <1>1 DEF Holds
  <1>5. AtRest(s) /\ s.a.next = "idle" => Holds(s)
    BY <1>1 DEF AtRest, Holds, Calm
  <1>6. QED
    BY <1>2, <1>3, <1>4, <1>5

\* A handler that has brought all in order is through, or waits for the codec.
LEMMA HandledHolds ==
    ASSUME NEW s, NEW r, Handled(s, r)
    PROVE  /\ Fit(s) => Holds(r)
           /\ AtRest(s) /\ r.a.next = "idle" => Holds(r)
  <1>1. Steady(s, r) /\ r.a.next \in Places \ Stopping
    BY DEF Handled, Halting
  <1>2. QED
    BY <1>1, SteadyKeeps, WhenHolds

\* The codec is halted.
LEMMA HaltHolds ==
    ASSUME NEW s, NEW cmd, NEW next
    PROVE  /\ AtWork(s) /\ next \in Halting => Holds(Send(s, cmd, next))
           /\ Sound(s) /\ s.a.status # "stopped" /\ next \in Stopping => Holds(Send(s, cmd, next))
  <1> DEFINE r == Send(s, cmd, next)
  <1>1. ASSUME Sound(s) PROVE Steady(s, r) /\ r.a.next = next
    <2>1. Formed(s)
      BY <1>1 DEF Formed, Sound, Typed, Basic
    <2>2. QED
      BY <2>1, SendKeeps
  <1> HIDE DEF r
  <1>2. AtWork(s) /\ next \in Halting => Holds(r)
    BY <1>1, SteadyKeeps, WhenHolds DEF AtWork, Running
  <1>3. Sound(s) /\ s.a.status # "stopped" /\ next \in Stopping => Holds(r)
    BY <1>1, SteadyKeeps, WhenHolds DEF Steady, Quiet, Alike
  <1>4. QED
    BY <1>2, <1>3 DEF r

\* A state with a sound list has the shape the helpers need.
LEMMA FormedSound == \A s : Sound(s) => Formed(s)
  BY DEF Formed, Sound, Typed, Basic

\* The invariant is kept by what leaves the tracks alone.
LEMMA SteadyHolds ==
    ASSUME NEW s, Holds(s), NEW r, Steady(s, r), r.a.next = s.a.next
    PROVE  Holds(r)
  <1>1. Sound(s) /\ Sound(r) /\ (Calm(s) => Calm(r)) /\ Alike(s.a, r.a)
    BY SteadyKeeps DEF Holds, Steady, Quiet
  <1>2. Off(r.a) = Off(s.a)
    BY <1>1 DEF Off, Alike
  <1>3. Along(s.a, Off(s.a)) => Along(r.a, Off(s.a))
    BY <1>1, AlongSame DEF Alike
  <1>4. QED
    BY <1>1, <1>2, <1>3 DEF Holds, Alike

-------------------------------------------------------------------------------
(* Track changes.                                                            *)

\* The record of the audio thread alone is another.
LEMMA Replaced ==
    ASSUME NEW s, Shape(s), NEW b, NEW r, r = [s EXCEPT !.a = b]
    PROVE  Shape(r) /\ r.a = b /\ r.u = s.u
  BY DEF Shape

\* Without a change pending, one that begins leaves the list alone.
LEMMA BeginKeeps ==
    ASSUME NEW s, Formed(s), NEW type \in {"auto", "manual"},
           type = "manual" => s.a.skip = "none"
    PROVE  Handled(s, BeginTrackChange(s, type))
  <1> DEFINE t == StartTrackChange(s, type)
             u == IF type = "manual" THEN Finalise(t) ELSE t
             r == BeginTrackChange(s, type)
  <1>1. Steady(s, t)
    BY StartTrackChangeKeeps
  <1>2. r = IF u.a.stat # "ok" THEN HandleLoadStatus(u)
            ELSE IF ~HasCurrent(u.a) THEN StartError(u)
            ELSE IF ~Current(u.a).ready THEN Done(u)
            ELSE InitCodec(u, "go")
    BY DEF BeginTrackChange
  <1> HIDE DEF t, r
  <1>3. Formed(t) /\ Alike(s.a, t.a)
    BY <1>1 DEF Steady, Quiet
  <1>4. Steady(t, u) /\ Formed(u)
    <2>1. CASE type = "auto"
      <3>1. u = t
        BY <2>1
      <3>2. QED
        BY <1>3, <3>1, SteadySelf
    <2>2. CASE type = "manual"
      <3> DEFINE tag == TagOf(t.a, t.a.cur)
                 b == [[t.a EXCEPT !.shown = tag] EXCEPT !.skip = "none"]
                 x == [t EXCEPT !.a.shown = tag, !.a.skip = "none"]
      <3>1. t.a.skip = "none"
        BY <1>3, <2>2 DEF Alike
      <3>2. u = Done(x)
        BY <2>2, <3>1 DEF Finalise
      <3> HIDE DEF tag, u
      <3>3. Alike(t.a, b) /\ b.seeking = t.a.seeking
        BY <1>3, <3>1, AddsNothing DEF Alike, AudioFields
      <3>4. DOMAIN x = DOMAIN t /\ x.a = b /\ x.u = t.u
        BY <1>3 DEF Formed, Shape
      <3> HIDE DEF x, b
      <3>5. Steady(t, x) /\ Formed(x)
        BY <1>3, <3>3, <3>4 DEF Formed, Shape, Steady, Quiet, Alike
      <3>6. Steady(x, u)
        BY <3>2, <3>5, DoneKeeps DEF Handled
      <3>7. QED
        BY <3>5, <3>6, SteadyMore DEF Steady, Quiet
    <2>3. QED
      BY <2>1, <2>2
  <1> HIDE DEF u
  <1>5. Handled(u, r)
    BY <1>2, <1>4, HandleLoadStatusKeeps, StartErrorKeeps, DoneKeeps, InitCodecKeeps
  <1>6. Handled(s, r)
    BY <1>1, <1>4, <1>5, SteadyMore
  <1>7. QED
    BY <1>6 DEF r

\* The end of the playlist is awaited.
LEMMA MonitorEndHolds ==
    ASSUME NEW s, Running(s), Calm(s), Along(s.a, 0)
    PROVE  Holds(MonitorEnd(s))
  <1> DEFINE b == [[s.a EXCEPT !.skip = "end"] EXCEPT !.filling = "ending"]
             x == [s EXCEPT !.a.skip = "end", !.a.filling = "ending"]
             y == StartTrackChange(x, "end")
             r == MonitorEnd(s)
  <1>1. r = Done(y)
    BY DEF MonitorEnd
  <1>2. Shape(s) /\ DOMAIN s.a = AudioFields /\ s.a.queue \in Seq(Mail)
    BY DEF Running, Sound, Typed, Basic
  <1>3. /\ DOMAIN b = AudioFields /\ b.pl = s.a.pl /\ b.skipped = s.a.skipped
        /\ b.peek = s.a.peek /\ b.list = s.a.list /\ b.cur = s.a.cur
        /\ b.loading = s.a.loading /\ b.filling = "ending" /\ b.skip = "end"
        /\ b.status = s.a.status /\ b.delta = s.a.delta /\ b.ffrw = s.a.ffrw
        /\ b.seeking = s.a.seeking /\ b.queue = s.a.queue
    BY <1>2 DEF AudioFields
  <1>4. DOMAIN x = DOMAIN s /\ x.a = b /\ x.u = s.u
    BY <1>2 DEF Shape
  <1> HIDE DEF b, x
  <1>5. Fits(b, 0) /\ Off(b) = 0
    <2>1. Typed(b)
      BY <1>3 DEF Running, Sound, Typed, Basic, Listed
    <2>2. Loading(b)
      BY <1>3 DEF Running, Sound, Loading
    <2>3. QED
      BY <1>3, <2>1, <2>2, AlongSame DEF Fits, Off
  <1>6. Fit(x)
    <2>1. Sound(s) /\ s.a.status # "stopped" /\ s.u.skip \in Int
      BY DEF Running, Sound
    <2>2. Adds(s.a.queue, x.a.queue)
      BY <1>3, <1>4, AddsNothing
    <2>3. Shape(x)
      BY <1>2, <1>4 DEF Shape
    <2>4. Fits(x.a, Off(x.a)) /\ x.a.status # "stopped" /\ x.a.filling # "off"
      BY <1>3, <1>4, <1>5, <2>1
    <2>5. QED
      BY <1>3, <1>4, <2>1, <2>2, <2>3, <2>4, Refitted
  <1>7. Steady(x, y)
    <2>1. Formed(x)
      BY <1>6, FormedSound DEF Fit, AtWork, Running
    <2>2. QED
      BY <2>1, StartTrackChangeKeeps
  <1> HIDE DEF y, r
  <1>8. Handled(y, r)
    BY <1>1, <1>7, DoneKeeps DEF Steady, Quiet
  <1>9. Holds(r)
    BY <1>6, <1>7, <1>8, SteadyMore, HandledHolds
  <1>10. QED
    BY <1>9 DEF r

\* One step on.
LEMMA StepsOnce ==
    ASSUME NEW a, a.pl \in Int, NEW t, StepsOn(a, t, 1),
           NEW b, b.pl = t, b.skipped = a.skipped
    PROVE  \A x : \A j \in Int : StepsOn(b, x, j) <=> StepsOn(a, x, j + 1)
  <1>1. 1 \in Int
    OBVIOUS
  <1>2. QED
    BY <1>1, StepsMoved

\* The same without a list.
LEMMA CaughtUpEmpty ==
    ASSUME NEW a, a.pl \in Int, a.peek \in Int, a.list = <<>>, Along(a, 1),
           NEW t, StepsOn(a, t, 1),
           NEW b, b.pl = t, b.skipped = a.skipped, b.list = <<>>, b.peek = a.peek - 1
    PROVE  Along(b, 0)
  <1>1. a.peek >= -1 /\ (a.peek + 1 = 1 \/ \A u \in Tracks : ~StepsOn(a, u, a.peek + 1))
    BY DEF Along
  <1>2. a.peek >= 0
    <2>1. CASE a.peek + 1 = 1
      BY <2>1, SMT
    <2>2. CASE \A u \in Tracks : ~StepsOn(a, u, a.peek + 1)
      <3>1. PICK v \in Tracks : StepsOn(a, v, 0)
        <4>1. 1 \in Nat
          OBVIOUS
        <4>2. QED
          BY <4>1, FirstStep
      <3>2. a.peek + 1 # 0
        BY <2>2, <3>1
      <3>3. QED
        BY <1>1, <3>2, SMT
    <2>3. QED
      BY <1>1, <2>1, <2>2
  <1>3. b.peek >= -1 /\ b.peek + 1 = a.peek
    BY <1>2, SMT
  <1>4. a.peek = 0 \/ \A u \in Tracks : ~StepsOn(b, u, a.peek)
    <2>1. a.peek + 1 = 1 => a.peek = 0
      BY SMT
    <2>2. \A x : \A j \in Int : StepsOn(b, x, j) <=> StepsOn(a, x, j + 1)
      BY StepsOnce
    <2>3. QED
      BY <1>1, <2>1, <2>2
  <1>5. \A i : i \notin DOMAIN b.list
    OBVIOUS
  <1>6. QED
    BY <1>3, <1>4, <1>5 DEF Along

\* The change is heard: the index catches up with the list.
LEMMA CaughtUp ==
    ASSUME NEW a, Typed(a), Loading(a), Along(a, 1), Peek(a, 1) # 0,
           NEW b, b = [PlaylistNext(a, 1) EXCEPT !.peek = @ - 1]
    PROVE  /\ Fits(b, 0) /\ Loads(a, b) /\ b.queue = a.queue /\ DOMAIN b = AudioFields
           /\ b.list = a.list /\ b.cur = a.cur
  <1> DEFINE d == PlaylistNext(a, 1)
  <1>1. /\ Typed(d) /\ Moves(a, d)
        /\ \A t : StepsOn(a, t, 1) => d.pl = t /\ d.skipped = a.skipped
    <2>1. 1 \in Int /\ 1 >= 0
      BY SMT
    <2>2. QED
      BY <2>1, PlaylistNextFacts
  <1> HIDE DEF d
  <1>2. b = [d EXCEPT !.peek = @ - 1]
    BY DEF d
  <1>3. /\ a.peek \in Int /\ a.pl \in Int /\ Len(a.list) \in Nat /\ a.cur \in 0 .. Len(a.list)
        /\ (a.cur = 0 <=> a.list = <<>>) /\ DOMAIN a.list = 1 .. Len(a.list)
    BY DEF Typed, Basic, Listed
  <1>4. /\ DOMAIN b = AudioFields /\ Loads(a, b) /\ b.queue = a.queue
        /\ b.pl = d.pl /\ b.skipped = d.skipped /\ b.list = a.list /\ b.cur = a.cur
        /\ b.loading = a.loading /\ b.filling = a.filling /\ b.peek = a.peek - 1
    BY <1>1, <1>2 DEF Moves, Loads, AudioFields
  <1>5. Typed(b)
    <2>1. b.peek \in Int
      BY <1>3, <1>4, SMT
    <2>2. b.pl \in Int /\ b.skipped \subseteq Tracks
      BY <1>1, <1>4 DEF Typed, Basic
    <2>3. Basic(b)
      BY <1>4, <2>1, <2>2 DEF Typed, Basic, Loads
    <2>4. Listed(b)
      BY <1>4 DEF Typed, Listed
    <2>5. QED
      BY <2>3, <2>4 DEF Typed
  <1>6. Loading(b)
    BY <1>4 DEF Loading, TooBigYet
  <1>7. StepsOn(a, Peek(a, 1), 1) /\ d.pl = Peek(a, 1) /\ d.skipped = a.skipped
    <2>1. 1 \in Int /\ 1 >= 0 /\ 1 \in Nat
      BY SMT
    <2>2. StepsOn(a, Peek(a, 1), 1)
      BY <1>3, <2>1, PeekFacts
    <2>3. QED
      BY <1>1, <2>2
  <1>8. CASE a.list # <<>>
    <2>1. a.cur \in DOMAIN a.list /\ 1 = 1 + a.cur - a.cur /\ 1 \in Int
      BY <1>3, <1>8, SMT
    <2>2. StepsOn(a, a.list[a.cur].track, 1)
      <3>1. a.peek - Len(a.list) + a.cur = 1
        BY <1>8 DEF Along
      <3>2. QED
        BY <2>1, <3>1 DEF Along
    <2>3. d.pl = a.list[a.cur].track
      BY <1>1, <2>2
    <2>4. Along(b, 0)
      BY <1>4, <1>7, <1>8, <2>1, <2>3, AlongMoved, ZenonT(40)
    <2>5. QED
      BY <1>4, <1>5, <1>6, <2>4 DEF Fits
  <1>9. CASE a.list = <<>>
    <2>1. Along(b, 0)
      BY <1>3, <1>4, <1>7, <1>9, CaughtUpEmpty
    <2>2. QED
      BY <1>4, <1>5, <1>6, <2>1 DEF Fits
  <1>10. QED
    BY <1>8, <1>9

\* The list is brought on; nothing else is.
Brings(a, b) ==
    /\ DOMAIN b = AudioFields /\ b.status = a.status /\ b.ffrw = a.ffrw
    /\ b.seeking = a.seeking /\ Adds(a.queue, b.queue)
    /\ a.filling # "off" => b.filling # "off"
\* No change is pending any more.
Settles(a, b) ==
    /\ Brings(a, b) /\ b.skip = "none" /\ b.delta = a.delta
    /\ b.pl = a.pl /\ b.skipped = a.skipped /\ b.peek = a.peek /\ b.list = a.list
    /\ b.cur = a.cur /\ b.loading = a.loading /\ b.filling = a.filling /\ b.next = a.next

\* Bringing the list on twice is bringing it on.
LEMMA BringsMore ==
    ASSUME NEW a, NEW b, NEW c, Brings(a, b), Brings(b, c)
    PROVE  Brings(a, c)
  BY AddsMore DEF Brings

\* The engine is at work after its list was brought on.
LEMMA Brought ==
    ASSUME NEW s, Running(s), NEW r, Shape(r), r.u = s.u,
           Brings(s.a, r.a), Fits(r.a, Off(r.a))
    PROVE  AtWork(r) /\ Formed(r) /\ (Calm(s) => Fit(r))
  <1>1. Sound(s) /\ s.a.status # "stopped" /\ s.a.filling # "off" /\ s.u.skip \in Int
    BY DEF Running, Sound
  <1>2. Formed(r)
    BY DEF Formed, Brings
  <1>3. AtWork(r) /\ (Calm(s) => Fit(r))
    BY <1>1, Refitted DEF Brings
  <1>4. QED
    BY <1>2, <1>3

\* The engine is at work after a skip has settled.
LEMMA SettledFits ==
    ASSUME NEW s, Running(s), NEW a, Brings(s.a, a), Fits(a, 0),
           NEW r, Shape(r), r.u = s.u, Settles(a, r.a)
    PROVE  AtWork(r) /\ Formed(r) /\ (Calm(s) => Fit(r))
  <1>1. Brings(s.a, r.a)
    BY BringsMore DEF Settles
  <1>2. r.a.queue \in Seq(Mail)
    BY DEF Settles, Brings, Adds, Fits, Typed, Basic
  <1>3. Typed(r.a)
    BY <1>2 DEF Fits, Typed, Basic, Listed, Settles, Brings
  <1>4. Loading(r.a)
    BY DEF Fits, Loading, TooBigYet, Settles
  <1>5. Along(r.a, 0) /\ Off(r.a) = 0
    BY AlongSame DEF Fits, Settles, Off
  <1>6. QED
    BY <1>1, <1>3, <1>4, <1>5, Brought DEF Fits

\* A change is heard.
LEMMA FinaliseFacts ==
    ASSUME NEW s, Fit(s)
    PROVE  LET r == Finalise(s)
           IN  \/ Fit(r) /\ r.a.next = "idle" /\ r.a.skip = "none"
               \/ Holds(r) /\ r.a.next = "stop2"
  <1> DEFINE r == Finalise(s)
             a == s.a
  <1>1. /\ Running(s) /\ Calm(s) /\ Shape(s) /\ DOMAIN a = AudioFields /\ Typed(a)
        /\ Loading(a) /\ Along(a, Off(a)) /\ a.status # "stopped" /\ a.pl \in Int
        /\ a.peek \in Int /\ a.skip \in {"none", "auto", "newlist", "end"}
    BY DEF Fit, AtWork, Running, Sound, Typed, Basic
  \* It is shown, or it is rejected.
  <1>2. ASSUME NEW x, Fit(x), x.a.skip = "none"
        PROVE  Fit(Done(x)) /\ Done(x).a.next = "idle" /\ Done(x).a.skip = "none"
               /\ Fit(StartError(x)) /\ StartError(x).a.next = "idle"
               /\ StartError(x).a.skip = "none"
    <2>1. Formed(x)
      BY <1>2, FormedSound DEF Fit, AtWork, Running
    <2>2. Steady(x, Done(x)) /\ Done(x).a.next = "idle" /\ Steady(x, StartError(x))
      BY <2>1, DoneKeeps, StartErrorKeeps DEF Handled
    <2>3. StartError(x).a.next = "idle"
      <3> DEFINE y == PostTo(x, "complete", 0)
      <3>1. Formed(y)
        BY <2>1, PostToKeeps DEF MessageTypes, Steady, Quiet
      <3> HIDE DEF y
      <3>2. Done(y).a.next = "idle"
        BY <3>1, DoneKeeps
      <3>3. QED
        BY <3>2 DEF StartError, y
    <2>4. QED
      BY <1>2, <2>2, <2>3, SteadyKeeps DEF Steady, Quiet, Alike
  <1>3. ASSUME NEW t, Shape(t), t.u = s.u, Brings(a, t.a), Fits(t.a, 0)
        PROVE  LET x == [t EXCEPT !.a.shown = TagOf(t.a, t.a.cur), !.a.skip = "none"]
               IN  Fit(Done(x)) /\ Done(x).a.next = "idle" /\ Done(x).a.skip = "none"
    <2> DEFINE tag == TagOf(t.a, t.a.cur)
               x == [t EXCEPT !.a.shown = tag, !.a.skip = "none"]
               b == [[t.a EXCEPT !.shown = tag] EXCEPT !.skip = "none"]
    <2> HIDE DEF tag
    <2>1. Settles(t.a, b)
      BY <1>3, AddsNothing DEF Brings, Settles, AudioFields
    <2>2. Shape(x) /\ x.a = b /\ x.u = t.u
      BY <1>3 DEF Shape
    <2> HIDE DEF x, b
    <2>3. Fit(x) /\ x.a.skip = "none"
      BY <1>1, <1>3, <2>1, <2>2, SettledFits DEF Settles
    <2>4. QED
      BY <1>2, <2>3 DEF x, tag
  <1>4. ASSUME Along(a, 0)
        PROVE  LET x == [s EXCEPT !.a.skip = "none"]
               IN  Fit(StartError(x)) /\ StartError(x).a.next = "idle"
                   /\ StartError(x).a.skip = "none"
    <2> DEFINE x == [s EXCEPT !.a.skip = "none"]
               b == [a EXCEPT !.skip = "none"]
    <2>1. Settles(a, b) /\ Brings(a, a)
      BY <1>1, AddsNothing DEF Brings, Settles, AudioFields
    <2>2. Shape(x) /\ x.a = b /\ x.u = s.u
      BY <1>1 DEF Shape
    <2> HIDE DEF x, b
    <2>3. Fit(x) /\ x.a.skip = "none"
      BY <1>1, <1>4, <2>1, <2>2, SettledFits DEF Settles, Fits
    <2>4. QED
      BY <1>2, <2>3 DEF x
  <1>5. Brings(a, a) /\ (Along(a, 0) => Fits(a, 0))
    BY <1>1, AddsNothing DEF Brings, Fits
  <1>6. CASE a.skip \in {"none", "newlist"}
    <2>1. Along(a, 0)
      BY <1>1, <1>6 DEF Off
    <2> DEFINE x == [s EXCEPT !.a.shown = TagOf(s.a, s.a.cur), !.a.skip = "none"]
               y == [s EXCEPT !.a.skip = "none"]
    <2>2. Fit(Done(x)) /\ Done(x).a.next = "idle" /\ Done(x).a.skip = "none"
      BY <1>1, <1>3, <1>5, <2>1
    <2>3. Fit(StartError(y)) /\ StartError(y).a.next = "idle" /\ StartError(y).a.skip = "none"
      BY <1>4, <2>1
    <2>4. r = Done(x) \/ r = StartError(y)
      BY <1>6 DEF Finalise
    <2> HIDE DEF x, y, r
    <2>5. QED
      BY <2>2, <2>3, <2>4 DEF r
  <1>7. CASE a.skip = "auto"
    <2>1. Along(a, 1)
      BY <1>1, <1>7 DEF Off
    <2>2. CASE Peek(a, 1) = 0
      <3>1. Along(a, 0)
        <4>1. \A t : ~StepsOn(a, t, 1)
          <5>1. 1 \in Int /\ 1 >= 0
            BY SMT
          <5>2. \A t : StepsOn(a, t, 1) => t = 0
            BY <1>1, <2>2, <5>1, PeekFacts
          <5>3. \A t : StepsOn(a, t, 1) => t # 0
            BY LeftTracks, TracksFinite DEF StepsOn
          <5>4. QED
            BY <5>2, <5>3
        <4>2. a.list = <<>>
          <5>1. ASSUME a.list # <<>> PROVE FALSE
            <6>1. /\ Len(a.list) \in Nat /\ a.cur \in 0 .. Len(a.list) /\ a.cur # 0
                  /\ DOMAIN a.list = 1 .. Len(a.list)
              BY <1>1, <5>1 DEF Typed, Listed
            <6>2. a.cur \in DOMAIN a.list
              BY <6>1, SMT
            <6>3. a.peek - Len(a.list) + a.cur = 1
              BY <2>1, <5>1 DEF Along
            <6>4. StepsOn(a, a.list[a.cur].track, 1)
              BY <2>1, <6>2, <6>3 DEF Along
            <6>5. QED
              BY <4>1, <6>4
          <5>2. QED
            BY <5>1
        <4>3. QED
          BY <2>1, <4>1, <4>2 DEF Along
      <3> DEFINE y == [s EXCEPT !.a.skip = "none"]
      <3>2. Fit(StartError(y)) /\ StartError(y).a.next = "idle" /\ StartError(y).a.skip = "none"
        BY <1>4, <3>1
      <3>3. r = StartError(y)
        BY <1>7, <2>2 DEF Finalise
      <3> HIDE DEF y, r
      <3>4. QED
        BY <3>2, <3>3 DEF r
    <2>3. CASE Peek(a, 1) # 0
      <3> DEFINE b == [PlaylistNext(a, 1) EXCEPT !.peek = @ - 1]
                 t == [s EXCEPT !.a = [PlaylistNext(s.a, 1) EXCEPT !.peek = @ - 1]]
                 x == [t EXCEPT !.a.shown = TagOf(t.a, t.a.cur), !.a.skip = "none"]
      <3>1. Fits(b, 0) /\ Loads(a, b) /\ DOMAIN b = AudioFields
        BY <1>1, <2>1, <2>3, CaughtUp
      <3>2. Shape(t) /\ t.a = b /\ t.u = s.u
        <4>1. t = [s EXCEPT !.a = b]
          OBVIOUS
        <4> HIDE DEF t, b
        <4>2. QED
          BY <1>1, <4>1, Replaced
      <3> HIDE DEF b
      <3>3. r = Done(x)
        BY <1>7, <2>3 DEF Finalise
      <3> HIDE DEF t
      <3>4. Brings(a, t.a)
        BY <3>1, <3>2 DEF Loads, Brings
      <3>5. Fit(Done(x)) /\ Done(x).a.next = "idle" /\ Done(x).a.skip = "none"
        BY <1>3, <3>1, <3>2, <3>4
      <3> HIDE DEF x, r
      <3>6. QED
        BY <3>3, <3>5 DEF r
    <2>4. QED
      BY <2>2, <2>3
  <1>8. CASE a.skip = "end"
    <2>1. r = Send(s, "stop", "stop2")
      BY <1>1, <1>8 DEF Finalise, StopPlayback, Halt
    <2>2. "stop2" \in Stopping
      BY DEF Stopping
    <2>3. Formed(s)
      BY <1>1, FormedSound DEF Running
    <2>4. Holds(r) /\ r.a.next = "stop2"
      BY <1>1, <2>1, <2>2, <2>3, HaltHolds, SendKeeps DEF Running
    <2> HIDE DEF r
    <2>5. QED
      BY <2>4 DEF r
  <1>9. QED
    BY <1>1, <1>6, <1>7, <1>8

\* For lack of a next track the playlist is to lead on.
LEMMA NewPlaylistFacts ==
    ASSUME NEW a, Typed(a)
    PROVE  LET b == NewPlaylist(a)
           IN  /\ Typed(b) /\ Brings(a, b) /\ b.skip = "newlist"
               /\ b.list = a.list /\ b.cur = a.cur /\ b.loading = a.loading
               /\ b.filling = a.filling /\ b.peek = a.peek
               /\ NextIndex(a, 1) = 0 => b.pl = a.pl /\ b.skipped = a.skipped
  <1> DEFINE x == [a EXCEPT !.skip = "newlist"]
             b == NewPlaylist(a)
  <1>1. /\ DOMAIN x = AudioFields /\ x.skip = "newlist" /\ x.pl = a.pl
        /\ x.skipped = a.skipped /\ x.list = a.list /\ x.cur = a.cur
        /\ x.loading = a.loading /\ x.filling = a.filling /\ x.peek = a.peek
        /\ x.queue = a.queue /\ x.status = a.status /\ x.ffrw = a.ffrw
        /\ x.seeking = a.seeking /\ x.delta = a.delta
    BY DEF Typed, Basic, AudioFields
  <1>2. b = PlaylistNext(x, 1)
    BY DEF NewPlaylist
  <1> HIDE DEF x, b
  <1>3. Typed(x)
    <2>1. Basic(x)
      BY <1>1 DEF Typed, Basic
    <2>2. Listed(x)
      BY <1>1 DEF Typed, Listed
    <2>3. QED
      BY <2>1, <2>2 DEF Typed
  <1>4. NextIndex(x, 1) = NextIndex(a, 1)
    BY <1>1 DEF NextIndex, Peek, OtherDir
  <1>5. 1 \in Int
    OBVIOUS
  <1>6. Typed(b) /\ Moves(x, b) /\ (NextIndex(x, 1) = 0 => b = x)
    BY <1>2, <1>3, <1>5, PlaylistNextFacts
  <1>7. /\ Typed(b) /\ Brings(a, b) /\ b.skip = "newlist"
        /\ b.list = a.list /\ b.cur = a.cur /\ b.loading = a.loading
        /\ b.filling = a.filling /\ b.peek = a.peek
        /\ NextIndex(a, 1) = 0 => b.pl = a.pl /\ b.skipped = a.skipped
    BY <1>1, <1>4, <1>6 DEF Moves, Loads, Brings
  <1>8. QED
    BY <1>7 DEF b

\* Decoding goes on in the list's next track.
LEMMA NextInList ==
    ASSUME NEW a, Typed(a), Along(a, 0), a.cur < Len(a.list),
           NEW c, c = [a EXCEPT !.cur = @ + 1]
    PROVE  /\ Typed(c) /\ Along(c, 1) /\ Loads(a, c) /\ DOMAIN c = AudioFields
           /\ c.list # <<>> /\ c.skip = a.skip /\ c.status = a.status
           /\ Current(c).ready => Alone(c)
           /\ c.list = a.list /\ c.loading = a.loading /\ c.filling = a.filling
  <1> DEFINE n == Len(a.list)
  <1>1. n \in Nat /\ a.cur \in 0 .. n /\ a.peek \in Int /\ DOMAIN a = AudioFields
        /\ DOMAIN a.list = 1 .. n
    BY DEF Typed, Basic, Listed
  <1>2. /\ DOMAIN c = AudioFields /\ c.cur = a.cur + 1 /\ c.pl = a.pl /\ c.skipped = a.skipped
        /\ c.peek = a.peek /\ c.list = a.list /\ c.loading = a.loading /\ c.filling = a.filling
        /\ c.queue = a.queue /\ Loads(a, c) /\ c.skip = a.skip /\ c.status = a.status
        /\ c.delta = a.delta
    BY <1>1, AddsNothing DEF Loads, AudioFields
  <1>3. a.cur < n
    BY DEF n
  <1> HIDE DEF n
  <1>4. /\ a.cur + 1 \in 0 .. n /\ a.cur + 1 # 0 /\ a.cur \in Int /\ n \in Int /\ n # 0
        /\ n \in 1 .. n
    BY <1>1, <1>3, SMT
  <1>5. a.list # <<>>
    <2>1. Len(<<>>) = 0
      OBVIOUS
    <2>2. QED
      BY <1>4, <2>1 DEF n
  <1>6. Basic(c)
    BY <1>2 DEF Typed, Basic
  <1>7. Listed(c)
    <2>1. c.cur \in 0 .. Len(c.list) /\ (c.cur = 0 <=> c.list = <<>>)
      BY <1>2, <1>4, <1>5 DEF n
    <2>2. QED
      BY <1>2, <2>1 DEF Typed, Listed
  <1>8. Along(c, 1)
    <2>1. a.peek - n + a.cur = 0
      BY <1>5 DEF Along, n
    <2>2. a.peek - n + (a.cur + 1) = 1
      BY <1>1, <1>4, <2>1, SMT
    <2>3. \A t, k : StepsOn(c, t, k) <=> StepsOn(a, t, k)
      BY <1>2 DEF StepsOn, Left
    <2>4. Left(c) = Left(a)
      BY <1>2 DEF Left
    <2>5. /\ \A i \in DOMAIN a.list : StepsOn(a, a.list[i].track, a.peek - n + i)
          /\ a.peek - n + 1 < 0 => a.pl \in Left(a)
      BY <1>5 DEF Along, n
    <2>6. QED
      BY <1>2, <1>5, <2>2, <2>3, <2>4, <2>5 DEF Along, n
  <1>9. Current(c).ready => Alone(c)
    <2>1. ASSUME Current(c).ready, c.loading # 0, c.cur = Len(c.list) PROVE FALSE
      <3>1. a.list[n].id = a.loading /\ ~a.list[n].ready
        BY <1>1, <1>2, <1>4, <2>1 DEF Typed, Listed, n
      <3>2. Current(c) = a.list[n]
        BY <1>2, <2>1 DEF Current, n
      <3>3. QED
        BY <2>1, <3>1, <3>2
    <2>2. QED
      BY <2>1 DEF Alone
  <1>10. QED
    BY <1>2, <1>5, <1>6, <1>7, <1>8, <1>9 DEF Typed

\* Decoding goes on in another track.
LEMMA BegunHolds ==
    ASSUME NEW s, Running(s), Calm(s), NEW b, Brings(s.a, b), Fits(b, Off(b)),
           NEW type \in {"auto", "manual"}, type = "manual" => b.skip = "none"
    PROVE  Holds(BeginTrackChange([s EXCEPT !.a = b], type))
  <1> DEFINE x == [s EXCEPT !.a = b]
  <1>1. Shape(x) /\ x.a = b /\ x.u = s.u
    BY Replaced DEF Running, Sound
  <1> HIDE DEF x
  <1>2. Fit(x) /\ Formed(x)
    BY <1>1, Brought
  <1>3. Handled(x, BeginTrackChange(x, type))
    BY <1>1, <1>2, BeginKeeps
  <1>4. Holds(BeginTrackChange(x, type))
    BY <1>2, <1>3, HandledHolds
  <1>5. QED
    BY <1>4 DEF x

\* The end of playback with the list at its last track keeps the invariant.
LEMMA EndsHold ==
    ASSUME NEW s, Running(s), Calm(s), NEW b, Brings(s.a, b), Typed(b), Loading(b), Along(b, 0),
           b.skip # "auto"
    PROVE  Holds(MonitorEnd([s EXCEPT !.a = b]))
  <1> DEFINE x == [s EXCEPT !.a = b]
  <1>1. Shape(x) /\ x.a = b /\ x.u = s.u
    BY Replaced DEF Running, Sound
  <1> HIDE DEF x
  <1>2. Fit(x)
    <2>1. Fits(b, Off(b))
      BY DEF Fits, Off
    <2>2. QED
      BY <1>1, <2>1, Brought
  <1>3. Holds(MonitorEnd(x))
    BY <1>1, <1>2, MonitorEndHolds DEF Fit, AtWork
  <1>4. QED
    BY <1>3 DEF x

\* The codec is done with a track, and a change begins.
LEMMA ChangeTrackHolds ==
    ASSUME NEW s, Running(s), Calm(s), s.a.skip = "auto", Along(s.a, 0)
    PROVE  Holds(ChangeTrack(s))
  <1> DEFINE a == s.a
             r == ChangeTrack(s)
             have == a.cur < Len(a.list)
             there == [a EXCEPT !.cur = IF have THEN @ + 1 ELSE @]
             atEnd == Peek(a, 1) = 0
             from == IF atEnd THEN NewPlaylist(a) ELSE a
             peek == IF atEnd THEN -1 ELSE 0
             anew == Rebuffered(from, "all", peek)
             begin(b) == BeginTrackChange([s EXCEPT !.a = b], "auto")
             ends(b) == MonitorEnd([s EXCEPT !.a = b])
  <1>1. r = IF have /\ Current(there).ready THEN begin(there)
            ELSE IF have
            THEN begin([Rebuffered(there, "keep_current", 1) EXCEPT !.stat = "ok"])
            ELSE IF atEnd /\ NextIndex(a, 1) = 0 THEN ends(from)
            ELSE IF anew.stat # "nomore" THEN begin(anew)
            ELSE IF NextIndex(anew, 1) = 0 THEN ends(NewPlaylist(anew))
            ELSE begin(NewPlaylist(anew))
    BY DEF ChangeTrack
  <1>2. Typed(a) /\ Loading(a) /\ a.status # "stopped" /\ Along(a, 0) /\ a.skip = "auto"
        /\ a.peek \in Int /\ a.pl \in Int /\ DOMAIN a = AudioFields
    BY DEF Running, Sound, Typed, Basic
  <1>3. ASSUME NEW b, Brings(a, b), Fits(b, Off(b)) PROVE Holds(begin(b))
    BY <1>3, BegunHolds
  <1>4. ASSUME NEW b, Brings(a, b), Typed(b), Loading(b), Along(b, 0), b.skip # "auto"
        PROVE  Holds(ends(b))
    BY <1>4, EndsHold
  <1> HIDE DEF begin, ends, r, a
  <1>5. CASE have
    <2> DEFINE c == [a EXCEPT !.cur = @ + 1]
    <2>1. there = c
      BY <1>5
    <2> HIDE DEF there
    <2>2. /\ Typed(c) /\ Along(c, 1) /\ Loads(a, c) /\ DOMAIN c = AudioFields
          /\ c.list # <<>> /\ c.skip = "auto" /\ c.status # "stopped"
          /\ Current(c).ready => Alone(c)
          /\ c.list = a.list /\ c.loading = a.loading /\ c.filling = a.filling
      BY <1>2, <1>5, NextInList
    <2> HIDE DEF c
    <2>3. CASE Current(c).ready
      <3>1. Loading(c)
        <4>1. TooBigYet(a) => TooBigYet(c)
          BY <2>2 DEF TooBigYet
        <4>2. QED
          BY <1>2, <2>2, <2>3, <4>1 DEF Loading, Alone
      <3>2. Fits(c, Off(c)) /\ Brings(a, c)
        BY <2>2, <3>1 DEF Fits, Off, Loads, Brings
      <3>3. r = begin(c)
        BY <1>1, <1>5, <2>1, <2>3
      <3>4. QED
        BY <1>3, <3>2, <3>3 DEF r
    <2>4. CASE ~Current(c).ready
      <3> DEFINE d == Rebuffered(c, "keep_current", 1)
                 e == [d EXCEPT !.stat = "ok"]
      <3>1. Fits(d, 1) /\ Loads(c, d)
        <4>1. "keep_current" \in {"keep_current", "keep_new"} /\ 1 \in Int /\ 1 >= 0
              /\ Ahead(c)
          BY <2>2, SMT DEF Ahead
        <4>2. d = FillFileBuffer([Cleared(c, "keep_current") EXCEPT !.peek = 1])
          BY DEF Rebuffered
        <4> HIDE DEF d
        <4>3. QED
          BY <2>2, <4>1, <4>2, RebufferedKeeps
      <3> HIDE DEF d
      <3>2. /\ Loads(d, e) /\ DOMAIN e = AudioFields /\ e.pl = d.pl /\ e.skipped = d.skipped
            /\ e.peek = d.peek /\ e.list = d.list /\ e.cur = d.cur /\ e.loading = d.loading
            /\ e.filling = d.filling /\ e.queue = d.queue
        BY <3>1, AddsNothing DEF Fits, Typed, Basic, Loads, AudioFields
      <3>3. r = begin(e)
        BY <1>1, <1>5, <2>1, <2>4 DEF d
      <3> HIDE DEF e
      <3>4. Typed(e)
        <4>1. Basic(e)
          BY <3>1, <3>2 DEF Fits, Typed, Basic, Loads
        <4>2. Listed(e)
          BY <3>1, <3>2 DEF Fits, Typed, Listed
        <4>3. QED
          BY <4>1, <4>2 DEF Typed
      <3>5. Loading(e)
        BY <3>1, <3>2 DEF Fits, Loading, TooBigYet
      <3>6. Along(e, 1)
        BY <3>1, <3>2, AlongSame DEF Fits
      <3>7. Loads(a, e)
        BY <2>2, <3>1, <3>2, LoadsMore
      <3>8. Fits(e, Off(e)) /\ Brings(a, e)
        BY <1>2, <3>2, <3>4, <3>5, <3>6, <3>7 DEF Fits, Off, Loads, Brings
      <3>9. QED
        BY <1>3, <3>3, <3>8 DEF r
    <2>5. QED
      BY <2>3, <2>4
  <1>6. CASE ~have
    <2> HIDE DEF have, there
    <2>1. /\ Typed(from) /\ Brings(a, from)
          /\ from.list = a.list /\ from.cur = a.cur /\ from.loading = a.loading
          /\ from.filling = a.filling /\ from.peek = a.peek
          /\ from.skip = IF atEnd THEN "newlist" ELSE "auto"
          /\ atEnd /\ NextIndex(a, 1) = 0 => from.pl = a.pl /\ from.skipped = a.skipped
      <3>1. CASE atEnd
        BY <1>2, <3>1, NewPlaylistFacts
      <3>2. CASE ~atEnd
        BY <1>2, <3>2, AddsNothing DEF Brings
      <3>3. QED
        BY <3>1, <3>2
    <2> HIDE DEF from
    <2>2. CASE atEnd /\ NextIndex(a, 1) = 0
      <3>1. Loading(from)
        BY <1>2, <2>1 DEF Loading, TooBigYet
      <3>2. Along(from, 0)
        BY <1>2, <2>1, <2>2, AlongSame
      <3>3. r = ends(from)
        BY <1>1, <1>6, <2>2
      <3>4. QED
        BY <1>4, <2>1, <2>2, <3>1, <3>2, <3>3 DEF r
    <2>3. CASE ~(atEnd /\ NextIndex(a, 1) = 0)
      <3>1. /\ Fits(anew, peek + 1) /\ Loads(from, anew)
            /\ anew.stat \in {"ok", "nomore"}
            /\ anew.stat = "nomore" => /\ anew.list = <<>> /\ anew.peek = peek
                                       /\ \A off : Along(anew, off)
            /\ Peek(from, peek + 1) # 0 => anew.stat = "ok"
        <4>1. peek \in {-1, 0} /\ Ahead(from) /\ from.status # "stopped"
          BY <1>2, <2>1 DEF Ahead, Brings
        <4> HIDE DEF peek
        <4>2. QED
          BY <2>1, <4>1, RebufferedAll
      <3> HIDE DEF anew
      <3>2. Brings(a, anew) /\ anew.skip = from.skip
        <4>1. DOMAIN anew = AudioFields
          BY <3>1 DEF Fits, Typed, Basic
        <4>2. Brings(from, anew) /\ anew.skip = from.skip
          BY <3>1, <4>1 DEF Loads, Brings
        <4>3. QED
          BY <2>1, <4>2, BringsMore
      <3>3. peek + 1 = Off(anew)
        <4>1. -1 + 1 = 0 /\ 0 + 1 = 1
          BY SMT
        <4>2. QED
          BY <2>1, <3>2, <4>1 DEF Off
      <3>4. CASE anew.stat # "nomore"
        <4>1. r = begin(anew)
          BY <1>1, <1>6, <2>3, <3>4
        <4>2. QED
          BY <1>3, <3>1, <3>2, <3>3, <4>1 DEF r
      <3>5. CASE anew.stat = "nomore"
        <4> DEFINE b == NewPlaylist(anew)
        <4>1. atEnd
          <5>1. ASSUME ~atEnd PROVE FALSE
            <6>1. from = a /\ peek + 1 = 1
              BY <5>1, SMT DEF from
            <6>2. Peek(from, peek + 1) # 0
              BY <5>1, <6>1
            <6>3. QED
              BY <3>1, <3>5, <6>2
          <5>2. QED
            BY <5>1
        <4>2. Typed(anew) /\ Loading(anew)
          BY <3>1 DEF Fits
        <4>3. /\ Typed(b) /\ Brings(anew, b) /\ b.skip = "newlist"
              /\ b.list = anew.list /\ b.cur = anew.cur /\ b.loading = anew.loading
              /\ b.filling = anew.filling /\ b.peek = anew.peek
          BY <4>2, NewPlaylistFacts
        <4> HIDE DEF b
        <4>4. b.list = <<>> /\ b.peek = -1
          BY <3>1, <3>5, <4>1, <4>3
        <4>5. Along(b, 0) /\ Loading(b)
          <5>1. \A i : i \notin DOMAIN b.list
            BY <4>4
          <5>2. b.peek >= -1 /\ b.peek + 1 = 0
            BY <4>4, SMT
          <5>3. Along(b, 0)
            BY <4>4, <5>1, <5>2 DEF Along
          <5>4. Loading(b)
            BY <4>2, <4>3 DEF Loading, TooBigYet
          <5>5. QED
            BY <5>3, <5>4
        <4>6. Brings(a, b) /\ Fits(b, Off(b))
          BY <3>2, <4>3, <4>5, BringsMore DEF Fits, Off
        <4>7. Holds(begin(b)) /\ Holds(ends(b))
          BY <1>3, <1>4, <4>3, <4>5, <4>6
        <4>8. r = begin(b) \/ r = ends(b)
          BY <1>1, <1>6, <2>3, <3>5 DEF b
        <4>9. QED
          BY <4>7, <4>8 DEF r
      <3>6. QED
        BY <3>4, <3>5
    <2>4. QED
      BY <2>2, <2>3
  <1>7. QED
    BY <1>5, <1>6

-------------------------------------------------------------------------------
(* Messages of the codec thread and of the PCM buffer.                       *)

\* The tracks, their list and the queue are the same.
Retains(a, b) ==
    /\ DOMAIN b = AudioFields
    /\ b.pl = a.pl /\ b.skipped = a.skipped /\ b.peek = a.peek /\ b.list = a.list
    /\ b.cur = a.cur /\ b.loading = a.loading /\ b.filling = a.filling
    /\ b.skip = a.skip /\ b.delta = a.delta /\ b.queue = a.queue

\* What retains the list keeps what is said of it.
LEMMA Retained ==
    ASSUME NEW s, Sound(s), NEW r, Shape(r), r.u.hold = s.u.hold, r.u.skip \in Int,
           Retains(s.a, r.a)
    PROVE  /\ Sound(r) /\ Formed(r)
           /\ Running(s) /\ r.a.status # "stopped" => Running(r)
           /\ AtWork(s) /\ r.a.status # "stopped" => AtWork(r)
           /\ Calm(s) /\ (r.a.ffrw => s.a.ffrw /\ (s.a.seeking => r.a.seeking)) => Calm(r)
  <1>1. s.a.queue \in Seq(Mail) /\ r.a.queue = s.a.queue /\ Typed(s.a)
    BY DEF Sound, Typed, Basic, Retains
  <1>2. Typed(r.a)
    <2>1. Basic(r.a)
      BY <1>1 DEF Typed, Basic, Retains
    <2>2. Listed(r.a)
      BY <1>1 DEF Typed, Listed, Retains
    <2>3. QED
      BY <2>1, <2>2 DEF Typed
  <1>3. Loading(r.a)
    BY DEF Sound, Loading, TooBigYet, Retains
  <1>4. Sound(r) /\ Formed(r)
    BY <1>1, <1>2, <1>3 DEF Sound, Formed, Retains
  <1>5. Running(s) /\ r.a.status # "stopped" => Running(r)
    BY <1>4 DEF Running, Retains
  <1>6. AtWork(s) /\ r.a.status # "stopped" => AtWork(r)
    <2>1. Off(r.a) = Off(s.a)
      BY DEF Off, Retains
    <2>2. Along(s.a, Off(s.a)) => Along(r.a, Off(s.a))
      BY AlongSame DEF Retains
    <2>3. QED
      BY <1>5, <2>1, <2>2 DEF AtWork
  <1>7. Calm(s) /\ (r.a.ffrw => s.a.ffrw /\ (s.a.seeking => r.a.seeking)) => Calm(r)
    <2>1. Adds(s.a.queue, r.a.queue)
      BY <1>1, AddsNothing
    <2>2. QED
      BY <1>1, <2>1, CalmMore
  <1>8. QED
    BY <1>4, <1>5, <1>6, <1>7

\* Seek mode ends.
LEMMA EndSeekFacts ==
    ASSUME NEW s, Sound(s)
    PROVE  LET r == EndSeekMode(s)
           IN  /\ Shape(r) /\ r.u = s.u /\ Retains(s.a, r.a) /\ ~r.a.ffrw
               /\ r.a.status = s.a.status /\ r.a.seeking = s.a.seeking
               /\ Calm(r) /\ (AtWork(s) => Fit(r))
  <1> DEFINE p == IF s.a.seeking THEN PlayStop(s.p) ELSE s.p
             q == IF s.a.status # "paused" THEN PcmPause(p, FALSE) ELSE p
             b == [s.a EXCEPT !.ffrw = FALSE]
             x == [s EXCEPT !.a.ffrw = FALSE, !.p = q]
             r == EndSeekMode(s)
  <1>1. Shape(s) /\ DOMAIN s.a = AudioFields /\ s.u.skip \in Int
    BY DEF Sound, Typed, Basic
  <1>2. r = IF ~s.a.ffrw THEN s ELSE x
    BY DEF EndSeekMode
  <1> HIDE DEF p, q, r
  <1>3. /\ Retains(s.a, b) /\ ~b.ffrw /\ b.status = s.a.status /\ b.seeking = s.a.seeking
        /\ Retains(s.a, s.a)
    BY <1>1 DEF Retains, AudioFields
  <1>4. Shape(x) /\ x.a = b /\ x.u = s.u
    BY <1>1 DEF Shape
  <1> HIDE DEF b, x
  <1>5. /\ Shape(r) /\ r.u = s.u /\ Retains(s.a, r.a) /\ ~r.a.ffrw
        /\ r.a.status = s.a.status /\ r.a.seeking = s.a.seeking
    BY <1>1, <1>2, <1>3, <1>4
  <1>6. Calm(r) /\ (AtWork(s) => Fit(r))
    <2>1. Calm(r)
      BY <1>5 DEF Calm
    <2>2. AtWork(s) => AtWork(r)
      BY <1>1, <1>5, Retained DEF AtWork, Running
    <2>3. QED
      BY <2>1, <2>2 DEF Fit
  <1>7. QED
    BY <1>5, <1>6 DEF r

\* The end of a seek retains the list, and the mode if it was on.
LEMMA CompleteSeekFacts ==
    ASSUME NEW s, Sound(s)
    PROVE  LET r == CompleteSeek(s)
           IN  /\ Shape(r) /\ r.u = s.u /\ Retains(s.a, r.a)
               /\ r.a.status = s.a.status
               /\ Fit(s) => Fit(r)
               /\ AtRest(s) => AtRest(r)
  <1> DEFINE t == EndSeekMode(s)
             b == [t.a EXCEPT !.seeking = FALSE]
             x == [t EXCEPT !.a.seeking = FALSE]
             r == CompleteSeek(s)
  <1>1. /\ Shape(t) /\ t.u = s.u /\ Retains(s.a, t.a) /\ ~t.a.ffrw
        /\ t.a.status = s.a.status
    BY EndSeekFacts
  <1>2. r = IF s.a.seeking THEN x ELSE s
    BY DEF CompleteSeek
  <1> HIDE DEF t, r
  <1>3. /\ Retains(s.a, b) /\ ~b.ffrw /\ b.status = s.a.status
    BY <1>1 DEF Retains, AudioFields
  <1>4. Shape(x) /\ x.a = b /\ x.u = s.u
    BY <1>1 DEF Shape
  <1> HIDE DEF b, x
  <1>5. Shape(s) /\ Retains(s.a, s.a) /\ s.u.skip \in Int
    BY DEF Sound, Typed, Basic, Retains
  <1>6. Shape(r) /\ r.u = s.u /\ Retains(s.a, r.a) /\ r.a.status = s.a.status
    BY <1>2, <1>3, <1>4, <1>5
  <1>7. r = s \/ ~r.a.ffrw
    BY <1>2, <1>3, <1>4
  <1>8. /\ Sound(r)
        /\ AtWork(s) /\ r.a.status # "stopped" => AtWork(r)
        /\ Calm(s) /\ (r.a.ffrw => s.a.ffrw /\ (s.a.seeking => r.a.seeking)) => Calm(r)
    BY <1>5, <1>6, Retained
  <1>9. Fit(s) => Fit(r)
    BY <1>6, <1>7, <1>8 DEF Fit, AtWork, Running
  <1>10. AtRest(s) => AtRest(r)
    BY <1>6, <1>7, <1>8 DEF AtRest, Retains
  <1>11. QED
    BY <1>6, <1>9, <1>10 DEF r

\* audio_on_codec_complete
LEMMA OnCompleteHolds ==
    ASSUME NEW s
    PROVE  /\ Fit(s) => Holds(OnComplete(s))
           /\ AtRest(s) => Holds(OnComplete(s))
  <1> DEFINE t == CompleteSeek(s)
             r == OnComplete(s)
             x == [t EXCEPT !.a.cskip = TRUE]
             y == [t EXCEPT !.a.cskip = FALSE, !.a.skip = "auto", !.a.stat = "ok"]
             waits == t.a.status = "paused" \/ t.a.skip # "none"
  <1>1. r = IF s.a.status = "stopped" THEN Done(s)
            ELSE IF waits THEN Done(StartTrackChange(x, "pileup")) ELSE ChangeTrack(y)
    BY DEF OnComplete
  <1> HIDE DEF r
  <1>2. ASSUME AtRest(s) PROVE Holds(r)
    <2>1. Formed(s) /\ r = Done(s)
      BY <1>1, <1>2, FormedSound DEF AtRest
    <2>2. QED
      BY <1>2, <2>1, DoneKeeps, HandledHolds
  <1>3. ASSUME Fit(s) PROVE Holds(r)
    <2>1. /\ Shape(t) /\ t.u = s.u /\ Retains(s.a, t.a) /\ t.a.status = s.a.status
          /\ Fit(t)
      BY <1>3, CompleteSeekFacts DEF Fit, AtWork, Running
    <2> HIDE DEF t
    <2>2. Sound(t) /\ Running(t) /\ Formed(t) /\ DOMAIN t.a = AudioFields /\ t.u.skip \in Int
      BY <2>1, FormedSound DEF Fit, AtWork, Running, Sound, Typed, Basic
    <2>3. s.a.status # "stopped"
      BY <1>3 DEF Fit, AtWork, Running
    <2>4. CASE waits
      <3> DEFINE b == [t.a EXCEPT !.cskip = TRUE]
                 z == StartTrackChange(x, "pileup")
      <3>1. Alike(t.a, b) /\ b.seeking = t.a.seeking
        BY <2>2, AddsNothing DEF Alike, AudioFields
      <3>2. DOMAIN x = DOMAIN t /\ x.a = b /\ x.u = t.u
        BY <2>1 DEF Shape
      <3> HIDE DEF x, b
      <3>3. Steady(t, x) /\ Formed(x)
        BY <2>1, <3>1, <3>2 DEF Formed, Shape, Steady, Quiet, Alike
      <3>4. Steady(x, z)
        BY <3>3, StartTrackChangeKeeps
      <3> HIDE DEF z
      <3>5. Handled(z, Done(z))
        BY <3>4, DoneKeeps DEF Steady, Quiet
      <3>6. Handled(t, Done(z))
        BY <3>3, <3>4, <3>5, SteadyMore
      <3>7. r = Done(z)
        BY <1>1, <2>3, <2>4 DEF z
      <3>8. QED
        BY <2>1, <3>6, <3>7, HandledHolds
    <2>5. CASE ~waits
      <3> DEFINE b == [[[t.a EXCEPT !.cskip = FALSE] EXCEPT !.skip = "auto"] EXCEPT !.stat = "ok"]
      <3>1. t.a.skip = "none"
        BY <2>5
      <3>2. /\ DOMAIN b = AudioFields /\ b.pl = t.a.pl /\ b.skipped = t.a.skipped
            /\ b.peek = t.a.peek /\ b.list = t.a.list /\ b.cur = t.a.cur
            /\ b.loading = t.a.loading /\ b.filling = t.a.filling /\ b.skip = "auto"
            /\ b.delta = t.a.delta /\ b.queue = t.a.queue /\ b.status = t.a.status
            /\ b.ffrw = t.a.ffrw /\ b.seeking = t.a.seeking
        BY <2>2 DEF AudioFields
      <3>3. Shape(y) /\ y.a = b /\ y.u = t.u
        BY <2>1 DEF Shape
      <3> HIDE DEF y, b
      <3>4. Running(y) /\ Along(y.a, 0)
        <4>1. Basic(b)
          BY <2>2, <3>2 DEF Sound, Typed, Basic
        <4>2. Listed(b)
          BY <2>2, <3>2 DEF Sound, Typed, Listed
        <4>3. Loading(b)
          BY <2>2, <3>2 DEF Sound, Loading, TooBigYet
        <4>4. Along(b, 0)
          <5>1. Along(t.a, 0)
            BY <2>1, <3>1 DEF Fit, AtWork, Off
          <5>2. QED
            BY <3>2, <5>1, AlongSame
        <4>5. QED
          BY <2>2, <3>2, <3>3, <4>1, <4>2, <4>3, <4>4 DEF Running, Sound, Typed
      <3>5. Calm(y)
        BY <2>1, <3>2, <3>3 DEF Fit, Calm
      <3>6. Holds(ChangeTrack(y))
        BY <3>2, <3>3, <3>4, <3>5, ChangeTrackHolds
      <3>7. r = ChangeTrack(y)
        BY <1>1, <2>3, <2>5
      <3>8. QED
        BY <3>6, <3>7
    <2>6. QED
      BY <2>4, <2>5
  <1>4. QED
    BY <1>2, <1>3 DEF r

\* audio_on_codec_seek_complete
LEMMA OnSeekedHolds ==
    ASSUME NEW s
    PROVE  /\ Fit(s) => Holds(OnSeeked(s))
           /\ AtRest(s) => Holds(OnSeeked(s))
  <1> DEFINE t == CompleteSeek(s)
             r == OnSeeked(s)
  <1>1. r = Send(t, "go", "idle")
    BY DEF OnSeeked
  <1> HIDE DEF r
  <1>2. ASSUME Sound(s) PROVE Steady(t, r) /\ r.a.next = "idle"
    <2>1. Shape(t) /\ Retains(s.a, t.a)
      BY <1>2, CompleteSeekFacts
    <2>2. Formed(t)
      BY <2>1 DEF Formed, Retains
    <2> HIDE DEF t
    <2>3. QED
      BY <1>1, <2>2, SendKeeps
  <1>3. "idle" \in Places \ Halting
    BY DEF Places, Halting, Stopping
  <1>4. Fit(s) => Sound(s) /\ Fit(t)
    BY CompleteSeekFacts DEF Fit, AtWork, Running
  <1>5. AtRest(s) => Sound(s) /\ AtRest(t)
    BY CompleteSeekFacts DEF AtRest
  <1> HIDE DEF t
  <1>6. (Fit(s) => Holds(r)) /\ (AtRest(s) => Holds(r))
    BY <1>2, <1>3, <1>4, <1>5, HandledHolds DEF Handled
  <1>7. QED
    BY <1>6 DEF r

\* Nothing is played, and nothing will be.
LEMMA RestRetained ==
    ASSUME NEW s, AtRest(s), NEW r, Shape(r), r.u.hold = s.u.hold, r.u.skip \in Int,
           Retains(s.a, r.a), r.a.status = "stopped", ~r.a.ffrw
    PROVE  AtRest(r) /\ Formed(r)
  <1>1. Sound(r) /\ Formed(r)
    BY Retained DEF AtRest
  <1>2. QED
    BY <1>1 DEF AtRest, Retains

\* A handler that is through leaves the invariant, at work or at rest.
LEMMA DoneHolds ==
    ASSUME NEW s
    PROVE  /\ Fit(s) => Holds(Done(s))
           /\ AtRest(s) => Holds(Done(s))
  <1>1. Sound(s) => Formed(s)
    BY FormedSound
  <1>2. Sound(s) => Handled(s, Done(s)) /\ Done(s).a.next = "idle"
    BY <1>1, DoneKeeps
  <1>3. QED
    BY <1>2, HandledHolds DEF Fit, AtWork, Running, AtRest

\* audio_on_track_changed
LEMMA OnChangedHolds ==
    ASSUME NEW s
    PROVE  /\ Fit(s) => Holds(OnChanged(s))
           /\ AtRest(s) => Holds(OnChanged(s))
  <1> DEFINE t == Finalise(s)
             x == [t EXCEPT !.a.cskip = FALSE]
             b == [t.a EXCEPT !.cskip = FALSE]
             r == OnChanged(s)
  <1>1. r = IF t.a.next = "idle" /\ t.a.cskip THEN OnComplete(x) ELSE t
    BY DEF OnChanged
  <1> HIDE DEF r
  <1>2. ASSUME Fit(s) PROVE Holds(r)
    <2>1. \/ Fit(t) /\ t.a.next = "idle" /\ t.a.skip = "none"
          \/ Holds(t) /\ t.a.next = "stop2"
      BY <1>2, FinaliseFacts
    <2> HIDE DEF t
    <2>2. CASE Holds(t) /\ t.a.next = "stop2"
      BY <1>1, <2>2
    <2>3. CASE Fit(t) /\ t.a.next = "idle"
      <3>1. Formed(t)
        BY <2>3, FormedSound DEF Fit, AtWork, Running
      <3>2. Alike(t.a, b) /\ b.seeking = t.a.seeking
        BY <3>1, AddsNothing DEF Formed, Alike, AudioFields
      <3>3. DOMAIN x = DOMAIN t /\ x.a = b /\ x.u = t.u
        BY <3>1 DEF Formed, Shape
      <3> HIDE DEF x, b
      <3>4. Steady(t, x)
        BY <3>1, <3>2, <3>3 DEF Formed, Shape, Steady, Quiet, Alike
      <3>5. Holds(OnComplete(x))
        BY <2>3, <3>4, SteadyKeeps, OnCompleteHolds
      <3>6. Holds(t)
        <4>1. "idle" \in Places \ Stopping
          BY DEF Places, Stopping
        <4>2. QED
          BY <2>3, <4>1, WhenHolds
      <3>7. QED
        BY <1>1, <3>5, <3>6
    <2>4. QED
      BY <2>1, <2>2, <2>3
  <1>3. ASSUME AtRest(s) PROVE Holds(r)
    <2> DEFINE tag == TagOf(s.a, s.a.cur)
               y == [s EXCEPT !.a.shown = tag, !.a.skip = "none"]
               c == [[s.a EXCEPT !.shown = tag] EXCEPT !.skip = "none"]
    <2>1. t = Done(y) /\ s.a.skip = "none" /\ s.a.status = "stopped" /\ ~s.a.ffrw
      BY <1>3 DEF Finalise, AtRest
    <2>2. Shape(s) /\ DOMAIN s.a = AudioFields /\ s.u.skip \in Int /\ Formed(s)
      BY <1>3, FormedSound DEF AtRest, Sound, Typed, Basic
    <2> HIDE DEF tag, t
    <2>3. Retains(s.a, c) /\ c.status = s.a.status /\ c.ffrw = s.a.ffrw
      BY <2>1, <2>2 DEF Retains, AudioFields
    <2>4. Shape(y) /\ y.a = c /\ y.u = s.u
      BY <2>2 DEF Shape
    <2> HIDE DEF y, c
    <2>5. AtRest(y) /\ Formed(y)
      BY <1>3, <2>1, <2>2, <2>3, <2>4, RestRetained
    <2>6. AtRest(t) /\ t.a.next = "idle" /\ Formed(t)
      BY <2>1, <2>5, DoneKeeps, SteadyKeeps DEF Handled, Steady, Quiet
    <2>7. Alike(t.a, b) /\ b.seeking = t.a.seeking
      BY <2>6, AddsNothing DEF Formed, Alike, AudioFields
    <2>8. DOMAIN x = DOMAIN t /\ x.a = b /\ x.u = t.u
      BY <2>6 DEF Formed, Shape
    <2> HIDE DEF x, b
    <2>9. Steady(t, x)
      BY <2>6, <2>7, <2>8 DEF Formed, Shape, Steady, Quiet, Alike
    <2>10. Holds(OnComplete(x)) /\ Holds(t)
      BY <2>6, <2>9, SteadyKeeps, OnCompleteHolds, WhenHolds
    <2>11. QED
      BY <1>1, <2>10
  <1>4. QED
    BY <1>2, <1>3 DEF r

-------------------------------------------------------------------------------
(* Messages of the buffering thread, and those about loading tracks.         *)

\* The list is brought on, and the handler goes on with what leaves it alone.
LEMMA BroughtHolds ==
    ASSUME NEW s, Fit(s), NEW b, Loads(s.a, b), Fits(b, Off(s.a)),
           NEW x, x = [s EXCEPT !.a = b]
    PROVE  Fit(x) /\ Formed(x)
  <1>1. Shape(x) /\ x.a = b /\ x.u = s.u
    BY Replaced DEF Fit, AtWork, Running, Sound
  <1>2. Brings(s.a, b) /\ Off(b) = Off(s.a)
    BY DEF Loads, Brings, Fits, Typed, Basic, Off
  <1>3. QED
    BY <1>1, <1>2, Brought DEF Fit, AtWork

\* audio_on_buffering, for either reason
LEMMA OnLowHolds ==
    ASSUME NEW s
    PROVE  /\ Fit(s) => Holds(OnLow(s)) /\ Holds(OnRebuffer(s))
           /\ AtRest(s) => Holds(OnLow(s)) /\ Holds(OnRebuffer(s))
  <1>1. ASSUME AtRest(s) PROVE Holds(OnLow(s)) /\ Holds(OnRebuffer(s))
    <2>1. OnLow(s) = Done(s) /\ OnRebuffer(s) = Done(s)
      BY <1>1 DEF AtRest, OnLow, OnRebuffer
    <2>2. QED
      BY <1>1, <2>1, DoneHolds
  <1>2. ASSUME Fit(s) PROVE Holds(OnLow(s)) /\ Holds(OnRebuffer(s))
    <2> DEFINE a == s.a
               off == Off(a)
               peek == IF a.skip = "auto" THEN 1 ELSE 0
               low == Rebuffered(a, "keep_new", a.peek)
               re == Rebuffered(a, "keep_current", peek)
               x == [s EXCEPT !.a = low]
               y == [s EXCEPT !.a = re]
    <2>1. CASE s.a.list = <<>>
      <3>1. OnLow(s) = Done(s) /\ OnRebuffer(s) = Done(s)
        BY <2>1 DEF OnLow, OnRebuffer
      <3>2. QED
        BY <1>2, <3>1, DoneHolds
    <2>2. CASE s.a.list # <<>>
      <3>1. Typed(a) /\ Along(a, off) /\ a.list # <<>> /\ a.status # "stopped"
        BY <1>2, <2>2 DEF Fit, AtWork, Running, Sound
      <3>2. off \in Int /\ off >= 0 /\ (~Ahead(a) => off = 0) /\ peek = off
        BY OffFacts DEF Off
      <3>3. OnLow(s) = Done(s) \/ OnLow(s) = Done(x)
        BY DEF OnLow
      <3>4. OnRebuffer(s) = Done(s) \/ OnRebuffer(s) = Done(y)
        BY DEF OnRebuffer
      <3> HIDE DEF off, peek
      <3>5. low = FillFileBuffer([Cleared(a, "keep_new") EXCEPT !.peek = a.peek])
        BY DEF Rebuffered
      <3>6. re = FillFileBuffer([Cleared(a, "keep_current") EXCEPT !.peek = peek])
        BY DEF Rebuffered
      <3> HIDE DEF low, re
      <3>7. Fits(low, off) /\ Loads(a, low)
        <4>1. "keep_new" \in {"keep_current", "keep_new"} /\ "keep_new" # "keep_current"
          OBVIOUS
        <4>2. QED
          BY <3>1, <3>2, <3>5, <4>1, RebufferedKeeps
      <3>8. Fits(re, off) /\ Loads(a, re)
        <4>1. "keep_current" \in {"keep_current", "keep_new"}
          OBVIOUS
        <4>2. QED
          BY <3>1, <3>2, <3>6, <4>1, RebufferedKeeps
      <3>9. Fit(x) /\ Fit(y)
        BY <1>2, <3>7, <3>8, BroughtHolds DEF off
      <3> HIDE DEF x, y
      <3>10. QED
        BY <1>2, <3>3, <3>4, <3>9, DoneHolds
    <2>3. QED
      BY <2>1, <2>2
  <1>3. QED
    BY <1>1, <1>2

\* audio_on_fill_buffer
LEMMA OnFillHolds ==
    ASSUME NEW s
    PROVE  /\ Fit(s) => Holds(OnFill(s))
           /\ AtRest(s) => Holds(OnFill(s))
  <1> DEFINE b == FillFileBuffer(s.a)
             x == [s EXCEPT !.a = b]
             r == OnFill(s)
  <1>1. r = HandleLoadStatus(x)
    BY DEF OnFill
  <1> HIDE DEF r
  <1>2. ASSUME Fit(s) PROVE Holds(r)
    <2>1. /\ Typed(s.a) /\ Along(s.a, Off(s.a)) /\ s.a.status # "stopped" /\ Loading(s.a)
      BY <1>2 DEF Fit, AtWork, Running, Sound
    <2>2. Fits(b, Off(s.a)) /\ Loads(s.a, b)
      <3>1. Off(s.a) \in Int /\ (~Ahead(s.a) => Off(s.a) = 0) /\ Alone(s.a)
        BY <2>1, OffFacts DEF Loading, Alone
      <3>2. QED
        BY <2>1, <3>1, FillFacts
    <2> HIDE DEF b
    <2>3. Fit(x) /\ Formed(x)
      BY <1>2, <2>2, BroughtHolds
    <2> HIDE DEF x
    <2>4. QED
      BY <1>1, <2>3, HandleLoadStatusKeeps, HandledHolds
  <1>3. ASSUME AtRest(s) PROVE Holds(r)
    <2> DEFINE c == [s.a EXCEPT !.stat = "failed"]
    <2>1. b = c
      BY <1>3 DEF AtRest, FillFileBuffer
    <2>2. Shape(s) /\ DOMAIN s.a = AudioFields /\ s.u.skip \in Int /\ s.a.status = "stopped"
          /\ ~s.a.ffrw
      BY <1>3 DEF AtRest, Sound, Typed, Basic
    <2>3. Retains(s.a, c) /\ c.status = s.a.status /\ c.ffrw = s.a.ffrw /\ c.stat = "failed"
      BY <2>2 DEF Retains, AudioFields
    <2> HIDE DEF b, c
    <2>4. Shape(x) /\ x.a = c /\ x.u = s.u
      BY <2>1, <2>2, Replaced
    <2> HIDE DEF x
    <2>5. AtRest(x)
      BY <1>3, <2>2, <2>3, <2>4, RestRetained
    <2>6. r = Done(x)
      BY <1>1, <2>3, <2>4 DEF HandleLoadStatus
    <2>7. QED
      BY <2>5, <2>6, DoneHolds
  <1>4. QED
    BY <1>2, <1>3 DEF r

\* audio_on_finish_load_track
LEMMA OnLoadedHolds ==
    ASSUME NEW s, NEW id
    PROVE  /\ Fit(s) => Holds(OnLoaded(s, id))
           /\ AtRest(s) => Holds(OnLoaded(s, id))
  <1> DEFINE b == FinishLoadTrack(s.a)
             x == [s EXCEPT !.a = b]
             r == OnLoaded(s, id)
             gone == \A e \in ToSet(s.a.list) : e.id # id
  <1>1. r = IF gone THEN Done(s)
            ELSE IF x.a.stat # "ready" THEN Done(x) ELSE InitCodec(x, "go")
    BY DEF OnLoaded
  <1>2. s.a.list = <<>> => gone
    BY DEF ToSet
  <1> HIDE DEF r, gone
  <1>3. ASSUME AtRest(s) PROVE Holds(r)
    BY <1>1, <1>2, <1>3, DoneHolds DEF AtRest
  <1>4. ASSUME Fit(s) PROVE Holds(r)
    <2>1. CASE gone
      BY <1>1, <1>4, <2>1, DoneHolds
    <2>2. CASE ~gone
      <3>1. Fits(s.a, Off(s.a)) /\ s.a.list # <<>> /\ Off(s.a) \in Nat
        BY <1>2, <1>4, <2>2, OffFacts DEF Fit, AtWork, Running, Sound, Fits
      <3>2. Fits(b, Off(s.a)) /\ Loads(s.a, b)
        BY <3>1, FinishFacts
      <3> HIDE DEF b
      <3>3. Fit(x) /\ Formed(x)
        BY <1>4, <3>2, BroughtHolds
      <3> HIDE DEF x
      <3>4. Holds(Done(x)) /\ Holds(InitCodec(x, "go"))
        BY <3>3, DoneHolds, InitCodecKeeps, HandledHolds
      <3>5. QED
        BY <1>1, <2>2, <3>4
    <2>3. QED
      BY <2>1, <2>2
  <1>5. QED
    BY <1>3, <1>4 DEF r

-------------------------------------------------------------------------------
(* Playing from the start, stopping and pausing.                             *)

\* Nothing is loaded any more, and no change or seek is pending.
Empties(a, b) ==
    /\ DOMAIN b = AudioFields /\ b.pl = a.pl /\ b.skipped = a.skipped /\ b.peek = a.peek
    /\ b.list = <<>> /\ b.cur = 0 /\ b.loading = 0 /\ b.skip = "none" /\ ~b.ffrw
    /\ b.delta = a.delta /\ b.queue = a.queue

\* With an empty list nothing is owed.
LEMMA Emptied ==
    ASSUME NEW s, Sound(s), NEW r, Shape(r), r.u = s.u, Empties(s.a, r.a)
    PROVE  Sound(r) /\ Calm(r) /\ Formed(r)
  <1>1. Basic(r.a)
    BY DEF Sound, Typed, Basic, Empties
  <1>2. Listed(r.a)
    <2>1. <<>> \in Seq(Entries) /\ Len(<<>>) = 0 /\ 0 \in Nat /\ 0 \in 0 .. 0
      BY SMT
    <2>2. \A i : i \notin DOMAIN r.a.list
      BY DEF Empties
    <2>3. QED
      BY <2>1, <2>2 DEF Empties, Listed
  <1>3. Loading(r.a)
    BY DEF Loading, Empties
  <1>4. Owed(r.a.queue) => r.u.hold
    BY DEF Sound, Empties
  <1>5. QED
    BY <1>1, <1>2, <1>3, <1>4 DEF Sound, Calm, Empties, Typed, Formed

\* Stopping clears the list, the skip and seek mode.
LEMMA ClearedEmpties ==
    ASSUME NEW s, Sound(s), NEW tag
    PROVE  LET c == Cleared(s.a, "all")
               b == [[c EXCEPT !.ffrw = FALSE] EXCEPT !.skip = "none"]
               d == [b EXCEPT !.shown = tag]
           IN  /\ Empties(s.a, b) /\ b.status = s.a.status /\ b.filling = s.a.filling
               /\ Empties(s.a, d) /\ d.status = s.a.status /\ d.filling = s.a.filling
               /\ DOMAIN c = AudioFields /\ c.filling = s.a.filling
  <1> DEFINE c == Cleared(s.a, "all")
             b == [[c EXCEPT !.ffrw = FALSE] EXCEPT !.skip = "none"]
             d == [b EXCEPT !.shown = tag]
  <1>1. Relists(s.a, c) /\ c.list = <<>> /\ c.cur = 0 /\ c.loading = 0
    BY ClearedAll DEF Sound
  <1> HIDE DEF c
  <1>2. /\ Empties(s.a, b) /\ b.status = s.a.status /\ b.filling = s.a.filling
        /\ Empties(s.a, d) /\ d.status = s.a.status /\ d.filling = s.a.filling
        /\ DOMAIN c = AudioFields /\ c.filling = s.a.filling
    BY <1>1 DEF Relists, Loads, Empties, AudioFields
  <1>3. QED
    BY <1>2 DEF c

\* audio_start_playback
LEMMA BeginHolds ==
    ASSUME NEW s, Running(s), Calm(s), s.a.list = <<>>, s.a.skip = "none"
    PROVE  Holds(Begin(s))
  <1> DEFINE c == [s.a EXCEPT !.peek = -1]
             b == FillFileBuffer(c)
             tag == IF b.stat = "ok" THEN TagOf(b, b.cur) ELSE b.shown
             d == [b EXCEPT !.shown = tag]
             t == [s EXCEPT !.a = d]
             r == Begin(s)
  <1>1. Sound(s) /\ Typed(s.a) /\ Basic(s.a) /\ Loading(s.a) /\ s.a.status # "stopped"
        /\ DOMAIN s.a = AudioFields /\ Shape(s)
    BY DEF Running, Sound, Typed, Basic
  <1>2. r = IF b.stat = "ok" THEN Done(t) ELSE HandleLoadStatus(t)
    BY DEF Begin
  <1> HIDE DEF r
  <1>3. /\ DOMAIN c = AudioFields /\ c.pl = s.a.pl /\ c.skipped = s.a.skipped
        /\ c.peek = -1 /\ c.list = <<>> /\ c.cur = s.a.cur
        /\ c.loading = s.a.loading /\ c.filling = s.a.filling /\ c.skip = "none"
        /\ c.delta = s.a.delta /\ c.queue = s.a.queue /\ c.status = s.a.status
        /\ Loads(s.a, c)
    BY <1>1, AddsNothing DEF Loads, AudioFields
  <1> HIDE DEF c
  <1>4. Typed(c)
    <2>1. -1 \in Int
      BY SMT
    <2>2. Basic(c)
      BY <1>1, <1>3, <2>1 DEF Basic
    <2>3. Listed(c)
      BY <1>1, <1>3 DEF Typed, Listed
    <2>4. QED
      BY <2>2, <2>3 DEF Typed
  <1>5. Along(c, 0) /\ Alone(c)
    <2>1. \A i : i \notin DOMAIN c.list
      BY <1>3
    <2>2. c.peek >= -1 /\ c.peek + 1 = 0
      BY <1>3, SMT
    <2>3. c.loading = 0
      BY <1>3, <1>4 DEF Typed, Listed
    <2>4. QED
      BY <1>3, <2>1, <2>2, <2>3 DEF Along, Alone
  <1>6. Fits(b, 0) /\ Loads(c, b)
    <2>1. 0 \in Int
      OBVIOUS
    <2>2. QED
      BY <1>1, <1>3, <1>4, <1>5, <2>1, FillFacts
  <1> HIDE DEF b
  <1>7. Loads(s.a, b) /\ DOMAIN b = AudioFields
    BY <1>3, <1>6, LoadsMore DEF Fits, Typed, Basic
  <1> HIDE DEF tag
  <1>8. /\ Settles(b, d) /\ Brings(s.a, b)
    BY <1>1, <1>3, <1>6, <1>7, AddsNothing DEF Loads, Brings, Settles, AudioFields
  <1> HIDE DEF d
  <1>9. Shape(t) /\ t.a = d /\ t.u = s.u
    BY <1>1, Replaced
  <1> HIDE DEF t
  <1>10. Fit(t) /\ Formed(t)
    BY <1>6, <1>8, <1>9, SettledFits
  <1>11. Holds(r)
    BY <1>2, <1>10, DoneHolds, HandleLoadStatusKeeps, HandledHolds
  <1>12. QED
    BY <1>11 DEF r

\* audio_on_play
LEMMA OnPlayHolds ==
    ASSUME NEW s
    PROVE  /\ Fit(s) => Holds(OnPlay(s))
           /\ AtRest(s) => Holds(OnPlay(s))
  <1> DEFINE r == OnPlay(s)
             x == [s EXCEPT !.a.status = "playing", !.a.filling = "idle"]
             b == [[s.a EXCEPT !.status = "playing"] EXCEPT !.filling = "idle"]
  <1>1. r = IF s.a.status # "stopped" THEN Send(s, "stop", "play2") ELSE Begin(x)
    BY DEF OnPlay, Halt
  <1> HIDE DEF r
  <1>2. ASSUME Fit(s) PROVE Holds(r)
    <2>1. "play2" \in Halting
      BY DEF Halting
    <2>2. AtWork(s) /\ s.a.status # "stopped"
      BY <1>2 DEF Fit, AtWork, Running
    <2>3. QED
      BY <1>1, <2>1, <2>2, HaltHolds
  <1>3. ASSUME AtRest(s) PROVE Holds(r)
    <2>1. /\ Sound(s) /\ s.a.status = "stopped" /\ ~s.a.ffrw /\ s.a.list = <<>>
          /\ s.a.skip = "none" /\ DOMAIN s.a = AudioFields /\ Shape(s)
      BY <1>3 DEF AtRest, Sound, Typed, Basic
    <2>2. /\ DOMAIN b = AudioFields /\ b.pl = s.a.pl /\ b.skipped = s.a.skipped
          /\ b.peek = s.a.peek /\ b.list = s.a.list /\ b.cur = s.a.cur
          /\ b.loading = s.a.loading /\ b.filling = "idle" /\ b.skip = s.a.skip
          /\ b.delta = s.a.delta /\ b.queue = s.a.queue /\ b.status = "playing"
          /\ b.ffrw = s.a.ffrw
      BY <2>1 DEF AudioFields
    <2>3. Shape(x) /\ x.a = b /\ x.u = s.u
      BY <2>1 DEF Shape
    <2> HIDE DEF x, b
    <2>4. Basic(b)
      BY <2>1, <2>2 DEF Sound, Typed, Basic
    <2>5. Listed(b)
      BY <2>1, <2>2 DEF Sound, Typed, Listed
    <2>6. Loading(b)
      BY <2>1, <2>2, <2>5 DEF Loading, Listed
    <2>7. Running(x) /\ Calm(x)
      BY <2>1, <2>2, <2>3, <2>4, <2>5, <2>6 DEF Running, Sound, Typed, Calm
    <2>8. Holds(Begin(x))
      BY <2>1, <2>2, <2>3, <2>7, BeginHolds
    <2>9. QED
      BY <1>1, <2>1, <2>8
  <1>4. QED
    BY <1>2, <1>3 DEF r

\* What follows when the codec has stopped.
LEMMA PlayAgainHolds ==
    ASSUME NEW s, AtWork(s)
    PROVE  Holds(Play2(s)) /\ Holds(Restart2(s))
  <1> DEFINE h == Halted(s)
             t == StartTrackChange(h, "manual")
             x == [t EXCEPT !.a = [Cleared(t.a, "all") EXCEPT
                                     !.ffrw = FALSE, !.skip = "none", !.shown = 0]]
             y == [h EXCEPT !.p = PlayStop(@),
                            !.a = [Cleared(h.a, "all") EXCEPT !.ffrw = FALSE, !.skip = "none"]]
  <1>1. Play2(s) = Begin(x)
    BY DEF Play2
  <1>2. Restart2(s) = Begin(y)
    BY DEF Restart2
  <1>3. Quiet(s, h) /\ Formed(s)
    BY HaltedKeeps, FormedSound DEF AtWork, Running
  <1> HIDE DEF h
  <1>4. Running(h) /\ Formed(h)
    BY <1>3, QuietKeeps DEF AtWork, Quiet
  <1>5. Steady(h, t)
    BY <1>4, StartTrackChangeKeeps
  <1> HIDE DEF t
  <1>6. Running(t) /\ Formed(t)
    BY <1>4, <1>5, SteadyKeeps DEF Steady, Quiet
  <1>7. ASSUME NEW z, NEW w, Running(z), Shape(w), w.u = z.u, Empties(z.a, w.a),
               w.a.status = z.a.status, w.a.filling = z.a.filling
        PROVE  Holds(Begin(w))
    <2>1. Running(w) /\ Calm(w)
      BY <1>7, Emptied DEF Running
    <2>2. QED
      BY <1>7, <2>1, BeginHolds DEF Empties
  <1>8. Holds(Begin(x))
    <2> DEFINE c == Cleared(t.a, "all")
               b == [[c EXCEPT !.ffrw = FALSE] EXCEPT !.skip = "none"]
               d == [b EXCEPT !.shown = 0]
    <2>1. Empties(t.a, d) /\ d.status = t.a.status /\ d.filling = t.a.filling
          /\ DOMAIN c = AudioFields
      BY <1>6, ClearedEmpties DEF Running
    <2> HIDE DEF c
    <2>2. Shape(x) /\ x.a = d /\ x.u = t.u
      <3>1. Shape(t)
        BY <1>6 DEF Formed
      <3>2. [c EXCEPT !.ffrw = FALSE, !.skip = "none", !.shown = 0] = d
        BY <2>1 DEF AudioFields
      <3> HIDE DEF d
      <3>3. x = [t EXCEPT !.a = d]
        BY <3>2, SMTT(30) DEF c
      <3> HIDE DEF x
      <3>4. QED
        BY <3>1, <3>3, Replaced
    <2> HIDE DEF d, x
    <2>3. QED
      BY <1>6, <1>7, <2>1, <2>2, SMTT(30)
  <1>9. Holds(Begin(y))
    <2> DEFINE c == Cleared(h.a, "all")
               b == [[c EXCEPT !.ffrw = FALSE] EXCEPT !.skip = "none"]
    <2>1. Empties(h.a, b) /\ b.status = h.a.status /\ b.filling = h.a.filling
          /\ DOMAIN c = AudioFields
      BY <1>4, ClearedEmpties DEF Running
    <2> HIDE DEF c
    <2>2. Shape(y) /\ y.a = b /\ y.u = h.u
      <3>1. Shape(h)
        BY <1>4 DEF Formed
      <3>2. [c EXCEPT !.ffrw = FALSE, !.skip = "none"] = b
        BY <2>1 DEF AudioFields
      <3> HIDE DEF b
      <3>3. y = [h EXCEPT !.p = PlayStop(@), !.a = b]
        BY <3>2 DEF c
      <3> HIDE DEF y
      <3>4. QED
        BY <3>1, <3>3 DEF Shape
    <2> HIDE DEF b, y
    <2>3. QED
      BY <1>4, <1>7, <2>1, <2>2
  <1>10. QED
    BY <1>1, <1>2, <1>8, <1>9

\* audio_stop_playback, from the user's word on
LEMMA StopHolds ==
    ASSUME NEW s
    PROVE  /\ Fit(s) => Holds(StopPlayback([s EXCEPT !.a.filling = "off"]))
           /\ AtRest(s) => Holds(StopPlayback([s EXCEPT !.a.filling = "off"]))
  <1> DEFINE x == [s EXCEPT !.a.filling = "off"]
             b == [s.a EXCEPT !.filling = "off"]
  <1>1. ASSUME Sound(s)
        PROVE  /\ Sound(x) /\ Calm(s) => Calm(x)
               /\ Sound(x) /\ x.a.status = s.a.status
               /\ AtRest(s) => AtRest(x)
    <2>1. DOMAIN s.a = AudioFields /\ Shape(s)
      BY <1>1 DEF Sound, Typed, Basic
    <2>2. /\ DOMAIN b = AudioFields /\ b.pl = s.a.pl /\ b.skipped = s.a.skipped
          /\ b.peek = s.a.peek /\ b.list = s.a.list /\ b.cur = s.a.cur
          /\ b.loading = s.a.loading /\ b.filling = "off" /\ b.skip = s.a.skip
          /\ b.delta = s.a.delta /\ b.queue = s.a.queue /\ b.status = s.a.status
          /\ b.ffrw = s.a.ffrw /\ b.seeking = s.a.seeking
      BY <2>1 DEF AudioFields
    <2>3. Shape(x) /\ x.a = b /\ x.u = s.u
      BY <2>1 DEF Shape
    <2> HIDE DEF x, b
    <2>4. Basic(b)
      BY <1>1, <2>2 DEF Sound, Typed, Basic
    <2>5. Listed(b)
      BY <1>1, <2>2 DEF Sound, Typed, Listed
    <2>6. Loading(b)
      BY <1>1, <2>2 DEF Sound, Loading
    <2>7. Sound(x)
      BY <1>1, <2>2, <2>3, <2>4, <2>5, <2>6 DEF Sound, Typed
    <2>8. QED
      BY <2>2, <2>3, <2>7 DEF Calm, AtRest
  <1> HIDE DEF x
  <1>2. ASSUME Fit(s) PROVE Holds(StopPlayback(x))
    <2>1. Sound(s) /\ s.a.status # "stopped"
      BY <1>2 DEF Fit, AtWork, Running
    <2>2. "stop2" \in Stopping /\ StopPlayback(x) = Send(x, "stop", "stop2")
      BY <1>1, <2>1 DEF Stopping, StopPlayback, Halt
    <2>3. QED
      BY <1>1, <2>1, <2>2, HaltHolds
  <1>3. ASSUME AtRest(s) PROVE Holds(StopPlayback(x))
    <2>1. Sound(s) /\ s.a.status = "stopped"
      BY <1>3 DEF AtRest
    <2>2. AtRest(x) /\ StopPlayback(x) = Done(x)
      BY <1>1, <1>3, <2>1 DEF StopPlayback
    <2>3. QED
      BY <2>2, DoneHolds
  <1>4. QED
    BY <1>2, <1>3 DEF x

\* Every stage of stopping keeps the invariant.
LEMMA StoppingHolds ==
    ASSUME NEW s, Sound(s), s.a.status # "stopped"
    PROVE  Holds(Stop2(s)) /\ Holds(Stop3(s)) /\ Holds(Stop4(s))
  <1>1. Shape(s) /\ DOMAIN s.a = AudioFields /\ Formed(s)
    BY FormedSound DEF Sound, Typed, Basic
  <1>2. Holds(Stop2(s))
    <2> DEFINE t == Halted(s)
               x == [t EXCEPT !.p = PlayStop(@)]
    <2>1. Quiet(s, t)
      BY <1>1, HaltedKeeps
    <2> HIDE DEF t
    <2>2. Sound(t) /\ t.a.status # "stopped" /\ Formed(t)
      BY <2>1, QuietKeeps DEF Quiet, Alike
    <2>3. Shape(x) /\ x.a = t.a /\ x.u = t.u
      BY <2>2 DEF Formed, Shape
    <2>4. "stop3" \in Stopping /\ Stop2(s) = Send(x, "stop", "stop3")
      BY DEF Stopping, Stop2, t
    <2> HIDE DEF x
    <2>5. Sound(x) /\ x.a.status # "stopped"
      BY <2>2, <2>3 DEF Sound
    <2>6. QED
      BY <2>4, <2>5, HaltHolds
  <1>3. Holds(Stop3(s))
    BY HaltHolds DEF Stopping, Stop3
  <1>4. Holds(Stop4(s))
    <2> DEFINE c == Cleared(s.a, "all")
               fill == IF c.filling = "off" THEN "off" ELSE "idle"
               b == [[c EXCEPT !.ffrw = FALSE] EXCEPT !.skip = "none"]
               d == [[[b EXCEPT !.status = "stopped"] EXCEPT !.shown = 0] EXCEPT !.filling = fill]
               x == [s EXCEPT !.a = [Cleared(s.a, "all") EXCEPT
                        !.skip = "none", !.ffrw = FALSE, !.status = "stopped", !.shown = 0,
                        !.filling = IF @ = "off" THEN "off" ELSE "idle"]]
    <2>1. Empties(s.a, b) /\ DOMAIN c = AudioFields
      BY ClearedEmpties
    <2> HIDE DEF c, fill
    <2>2. Empties(s.a, d) /\ d.status = "stopped"
      <3> HIDE DEF b
      <3>1. QED
        BY <2>1 DEF Empties, AudioFields
    <2>3. Stop4(s) = Done(x)
      BY DEF Stop4
    <2>4. Shape(x) /\ x.a = d /\ x.u = s.u
      <3>1. [c EXCEPT !.skip = "none", !.ffrw = FALSE, !.status = "stopped", !.shown = 0,
                      !.filling = IF @ = "off" THEN "off" ELSE "idle"] = d
        BY <2>1 DEF AudioFields, fill
      <3> HIDE DEF d
      <3>2. x = [s EXCEPT !.a = d]
        BY <3>1 DEF c
      <3> HIDE DEF x
      <3>3. QED
        BY <1>1, <3>2, Replaced
    <2> HIDE DEF d, x
    <2>5. AtRest(x)
      BY <2>2, <2>4, Emptied DEF Empties, AtRest
    <2>6. QED
      BY <2>3, <2>5, DoneHolds, SMTT(30)
  <1>5. QED
    BY <1>2, <1>3, <1>4

\* audio_on_pause
LEMMA OnPauseHolds ==
    ASSUME NEW s, NEW pause \in BOOLEAN
    PROVE  /\ Fit(s) => Holds(OnPause(s, pause))
           /\ AtRest(s) => Holds(OnPause(s, pause))
  <1> DEFINE status == IF pause THEN "paused" ELSE "playing"
             t == [s EXCEPT !.a.status = IF pause THEN "paused" ELSE "playing"]
             x == [t EXCEPT !.a.unpause = TRUE]
             y == IF s.a.ffrw THEN t ELSE [t EXCEPT !.p = PcmPause(@, pause)]
             b == [s.a EXCEPT !.status = status]
             c == [b EXCEPT !.unpause = TRUE]
             r == OnPause(s, pause)
  <1>1. r = IF s.a.status = "stopped" \/ pause = (s.a.status = "paused") THEN Done(s)
            ELSE IF ~pause /\ s.a.cskip THEN OnComplete(x) ELSE Done(y)
    BY DEF OnPause
  <1> HIDE DEF r
  <1>2. ASSUME AtRest(s) PROVE Holds(r)
    <2>1. r = Done(s)
      BY <1>1, <1>2 DEF AtRest
    <2>2. QED
      BY <1>2, <2>1, DoneHolds
  <1>3. ASSUME Fit(s) PROVE Holds(r)
    <2>1. Sound(s) /\ Shape(s) /\ DOMAIN s.a = AudioFields /\ s.u.skip \in Int
      BY <1>3 DEF Fit, AtWork, Running, Sound, Typed, Basic
    <2>2. status # "stopped"
      OBVIOUS
    <2> HIDE DEF status
    <2>3. /\ Retains(s.a, b) /\ b.status = status /\ b.ffrw = s.a.ffrw /\ b.seeking = s.a.seeking
          /\ Retains(s.a, c) /\ c.status = status /\ c.ffrw = s.a.ffrw /\ c.seeking = s.a.seeking
      BY <2>1 DEF Retains, AudioFields
    <2>4. Shape(t) /\ t.a = b /\ t.u = s.u
      BY <2>1 DEF Shape, status
    <2> HIDE DEF t
    <2>5. Shape(x) /\ x.a = c /\ x.u = s.u
      BY <2>4 DEF Shape
    <2>6. Shape(y) /\ y.a = b /\ y.u = s.u
      BY <2>4 DEF Shape
    <2> HIDE DEF b, c, x, y
    <2>7. ASSUME NEW w, Shape(w), w.u = s.u, Retains(s.a, w.a), w.a.status = status,
                 w.a.ffrw = s.a.ffrw, w.a.seeking = s.a.seeking
          PROVE  Fit(w)
      BY <1>3, <2>1, <2>2, <2>7, Retained DEF Fit
    <2>8. Fit(x) /\ Fit(y)
      BY <2>3, <2>5, <2>6, <2>7
    <2>9. QED
      BY <1>1, <1>3, <2>8, DoneHolds, OnCompleteHolds
  <1>4. QED
    BY <1>2, <1>3 DEF r

-------------------------------------------------------------------------------
(* Skips.                                                                    *)

\* audio_on_audio_flush
LEMMA OnFlushHolds ==
    ASSUME NEW s
    PROVE  /\ Fit(s) => Holds(OnFlush(s))
           /\ AtRest(s) => Holds(OnFlush(s))
  <1> DEFINE b == FillFileBuffer([Cleared(s.a, "keep_current") EXCEPT !.peek = 0])
             x == [s EXCEPT !.a = b]
             t == Done(x)
             w == [t EXCEPT !.a.skip = "none"]
             c == [t.a EXCEPT !.skip = "none"]
             r == OnFlush(s)
  <1>1. r = IF s.a.list = <<>> THEN Done(s)
            ELSE IF Ahead(s.a) THEN Send(s, "stop", "restart2")
            ELSE IF s.a.skip = "none" THEN t
            ELSE StartError(ClearNotifications(w))
    BY DEF OnFlush, Halt
  <1> HIDE DEF r
  <1>2. ASSUME AtRest(s) PROVE Holds(r)
    BY <1>1, <1>2, DoneHolds DEF AtRest
  <1>3. ASSUME Fit(s), s.a.list # <<>>, ~Ahead(s.a)
        PROVE  Holds(t) /\ Holds(StartError(ClearNotifications(w)))
    <2>1. /\ Typed(s.a) /\ Along(s.a, 0) /\ s.a.status # "stopped" /\ Off(s.a) = 0
      BY <1>3, OffFacts DEF Fit, AtWork, Running, Sound
    <2>2. Fits(b, 0) /\ Loads(s.a, b)
      <3>1. "keep_current" \in {"keep_current", "keep_new"} /\ 0 \in Int /\ 0 >= 0
        BY SMT
      <3>2. QED
        BY <1>3, <2>1, <3>1, RebufferedKeeps
    <2> HIDE DEF b
    <2>3. Fit(x) /\ Formed(x) /\ ~Ahead(x.a)
      <3>1. Fit(x) /\ Formed(x)
        BY <1>3, <2>1, <2>2, BroughtHolds
      <3>2. x.a = b
        BY <1>3, Replaced DEF Fit, AtWork, Running, Sound
      <3>3. QED
        BY <1>3, <2>2, <3>1, <3>2 DEF Loads, Ahead
    <2> HIDE DEF x
    <2>4. Fit(t) /\ Formed(t) /\ ~Ahead(t.a) /\ Holds(t)
      <3>1. Handled(x, t)
        BY <2>3, DoneKeeps
      <3>2. Steady(x, t) /\ Formed(t) /\ Alike(x.a, t.a)
        BY <3>1 DEF Handled, Steady, Quiet
      <3>3. QED
        BY <2>3, <3>1, <3>2, SteadyKeeps, HandledHolds DEF Alike, Ahead
    <2> HIDE DEF t
    <2>5. Shape(t) /\ DOMAIN t.a = AudioFields
      BY <2>4 DEF Formed
    <2>6. Settles(t.a, c) /\ Brings(t.a, t.a)
      BY <2>5, AddsNothing DEF Brings, Settles, AudioFields
    <2>7. Shape(w) /\ w.a = c /\ w.u = t.u
      BY <2>5 DEF Shape
    <2> HIDE DEF w, c
    <2>8. Fit(w) /\ Formed(w)
      <3>1. Running(t) /\ Calm(t) /\ Fits(t.a, 0)
        BY <2>4, OffFacts DEF Fit, AtWork, Running, Sound, Fits
      <3>2. QED
        BY <2>6, <2>7, <3>1, SettledFits
    <2>9. Steady(w, ClearNotifications(w)) /\ Formed(ClearNotifications(w))
      BY <2>8, ClearKeeps DEF Steady, Quiet
    <2>10. Holds(StartError(ClearNotifications(w)))
      BY <2>8, <2>9, SteadyKeeps, StartErrorKeeps, HandledHolds
    <2>11. QED
      BY <2>4, <2>10
  <1>4. ASSUME Fit(s) PROVE Holds(r)
    <2>1. Holds(Done(s))
      BY <1>4, DoneHolds
    <2>2. Holds(Send(s, "stop", "restart2"))
      BY <1>4, HaltHolds DEF Fit, Halting
    <2> HIDE DEF t, w
    <2>3. QED
      BY <1>1, <1>3, <1>4, <2>1, <2>2 DEF t, w
  <1>5. QED
    BY <1>2, <1>4 DEF r

\* The playlist has gone k steps, and the list to another place.
MovedTo(m, c, k, place) ==
    /\ DOMAIN c = AudioFields /\ c.pl = m.pl /\ c.skipped = m.skipped /\ c.list = m.list
    /\ c.loading = m.loading /\ c.filling = m.filling /\ c.queue = m.queue
    /\ c.status = m.status /\ c.ffrw = m.ffrw /\ c.seeking = m.seeking /\ c.delta = m.delta
    /\ c.skip = "none" /\ c.peek = m.peek - k /\ c.cur = place

\* A skip within the list keeps its type and brings it on.
LEMMA MovedTyped ==
    ASSUME NEW a, Typed(a), NEW k \in Int, NEW c, NEW place,
           MovedTo(PlaylistNext(a, k), c, k, place),
           place \in DOMAIN a.list \/ place = a.cur
    PROVE  Typed(c) /\ Brings(a, c)
  <1> DEFINE m == PlaylistNext(a, k)
  <1>1. Typed(m) /\ Moves(a, m)
    BY PlaylistNextFacts
  <1> HIDE DEF m
  <1>2. MovedTo(m, c, k, place)
    BY DEF m
  <1>3. Basic(c)
    <2>1. m.peek - k \in Int
      BY <1>1, SMT DEF Typed, Basic
    <2>2. QED
      BY <1>1, <1>2, <2>1 DEF MovedTo, Typed, Basic
  <1>4. place \in 0 .. Len(a.list) /\ (place = 0 <=> a.list = <<>>)
    <2>1. a.cur \in 0 .. Len(a.list) /\ (a.cur = 0 <=> a.list = <<>>)
          /\ DOMAIN a.list = 1 .. Len(a.list) /\ Len(a.list) \in Nat
      BY DEF Typed, Listed
    <2>2. CASE place \in DOMAIN a.list
      <3>1. place \in 0 .. Len(a.list) /\ place # 0
        BY <2>1, <2>2, SMT
      <3>2. a.list # <<>>
        BY <2>2
      <3>3. QED
        BY <3>1, <3>2
    <2>3. QED
      BY <2>1, <2>2
  <1>5. Listed(c)
    BY <1>1, <1>2, <1>4 DEF MovedTo, Moves, Typed, Listed
  <1>6. QED
    BY <1>1, <1>2, <1>3, <1>5 DEF Typed, MovedTo, Moves, Loads, Brings

\* A track of the list is skipped to: the playlist arrives at the same track.
LEMMA SkippedTo ==
    ASSUME NEW a, Typed(a), Loading(a), NEW off \in Int, Along(a, off),
           NEW k \in Int, NEW to \in DOMAIN a.list, k = off + to - a.cur,
           a.list[to].ready, NEW c, MovedTo(PlaylistNext(a, k), c, k, to)
    PROVE  Fits(c, 0)
  <1> DEFINE m == PlaylistNext(a, k)
             n == Len(a.list)
  <1>1. Typed(c)
    BY MovedTyped
  <1>2. /\ n \in Nat /\ a.cur \in 0 .. n /\ a.peek \in Int /\ a.pl \in Int
        /\ DOMAIN a.list = 1 .. n /\ a.list # <<>> /\ to \in 1 .. n /\ to \in Int
    <2>1. /\ n \in Nat /\ a.cur \in 0 .. n /\ a.peek \in Int /\ a.pl \in Int
          /\ DOMAIN a.list = 1 .. n
      BY DEF Typed, Basic, Listed
    <2>2. to \in Int
      BY <2>1, SMT
    <2>3. QED
      BY <2>1, <2>2
  <1>3. /\ a.peek - n + a.cur = off /\ (a.peek - n + 1 < 0 => a.pl \in Left(a))
        /\ StepsOn(a, a.list[to].track, a.peek - n + to)
    BY <1>2 DEF Along
  <1> HIDE DEF n
  <1>4. a.peek - n + to = k /\ (k >= 0 \/ a.peek - n + 1 < 0)
    BY <1>2, <1>3, SMTT(30)
  <1>5. m.pl = a.list[to].track /\ m.skipped = a.skipped /\ Moves(a, m)
    BY <1>3, <1>4, PlaylistNextFacts
  <1> HIDE DEF m
  <1>6. /\ c.pl = a.list[to].track /\ c.skipped = a.skipped /\ c.list = a.list
        /\ c.loading = a.loading /\ c.filling = a.filling /\ c.cur = to /\ c.peek = a.peek - k
    BY <1>5 DEF MovedTo, Moves, m
  <1>7. Along(c, 0)
    BY <1>2, <1>6, AlongMoved
  <1>8. Loading(c)
    <2>1. ASSUME c.loading # 0, c.cur = Len(c.list) PROVE FALSE
      <3>1. a.loading # 0 /\ to = n
        BY <1>6, <2>1 DEF n
      <3>2. a.list[n].id = a.loading
        BY <3>1 DEF Typed, Listed, n
      <3>3. ~a.list[to].ready
        BY <3>1, <3>2 DEF Typed, Listed
      <3>4. QED
        BY <3>3
    <2>2. a.loading # 0 /\ a.filling = "full" => TooBigYet(c)
      BY <1>6 DEF Loading, TooBigYet
    <2>3. QED
      BY <1>6, <2>1, <2>2 DEF Loading
  <1>9. QED
    BY <1>1, <1>7, <1>8 DEF Fits

\* audio_on_skip, when the codec has stopped
LEMMA Skip2Holds ==
    ASSUME NEW s, AtWork(s)
    PROVE  Holds(Skip2(s))
  <1> DEFINE h == Halted(s)
             t == [h EXCEPT !.a.ffrw = FALSE]
             a == t.a
             by == PlaylistDelta(a, a.delta)
             d == IF a.delta < 0 THEN 1 ELSE -1
             tries == 0 .. Cardinality(Tracks) + 1
             inRange == {n \in tries : NextIndex(a, by + n * d) # 0}
             back == Min(inRange)
             ends == inRange = {} \/ \E n \in 0 .. back - 1 : by + n * d = d
             fatal == LastOf # {} /\ NextIndex(a, by) = 0
             k == by + back * d
             moved == PlaylistNext(a, k)
             to == a.cur + ListDelta(a, a.delta) + back * d
             b == [moved EXCEPT !.skip = "none", !.stat = "ok", !.peek = @ - k]
             there == HasCurrent(a) /\ to \in DOMAIN a.list /\ a.list[to].ready
             listed == IF HasCurrent(a) /\ to \in DOMAIN a.list THEN to ELSE a.cur
             c == [b EXCEPT !.cur = listed]
             e == IF there THEN c ELSE Rebuffered(c, "all", -1)
             stop == [t EXCEPT !.a.skip = "none"]
             r == Skip2(s)
  <1>1. r = IF fatal \/ ends THEN StopPlayback(stop)
            ELSE BeginTrackChange([t EXCEPT !.a = e], "manual")
    BY DEF Skip2
  <1> HIDE DEF r
  <1>2. AtWork(t) /\ Calm(t) /\ DOMAIN a = AudioFields
    <2>1. Quiet(s, h)
      BY HaltedKeeps, FormedSound DEF AtWork, Running
    <2> HIDE DEF h
    <2>2. AtWork(h) /\ Shape(h) /\ DOMAIN h.a = AudioFields /\ Sound(h) /\ h.u.skip \in Int
      BY <2>1, QuietKeeps DEF Quiet, Formed, AtWork, Running, Sound
    <2> DEFINE x == [h.a EXCEPT !.ffrw = FALSE]
    <2>3. Retains(h.a, x) /\ ~x.ffrw /\ x.status = h.a.status
      BY <2>2 DEF Retains, AudioFields
    <2>4. Shape(t) /\ t.a = x /\ t.u = h.u
      BY <2>2 DEF Shape
    <2> HIDE DEF t, x
    <2>5. AtWork(t) /\ Calm(t)
      <3>1. Calm(t)
        BY <2>3, <2>4 DEF Calm
      <3>2. h.a.status # "stopped"
        BY <2>2 DEF AtWork, Running
      <3>3. AtWork(t)
        BY <2>2, <2>3, <2>4, <3>2, Retained
      <3>4. QED
        BY <3>1, <3>3
    <2>6. QED
      BY <2>3, <2>4, <2>5 DEF Retains
  <1> HIDE DEF h, t
  <1>3. /\ Typed(a) /\ Loading(a) /\ Along(a, Off(a)) /\ a.status # "stopped" /\ Shape(t)
        /\ a.delta \in Int /\ a.filling # "off" /\ a.cur \in Int
        /\ (a.cur # 0 => a.list # <<>>)
    <2>1. /\ Typed(a) /\ Loading(a) /\ Along(a, Off(a)) /\ a.status # "stopped" /\ Shape(t)
          /\ a.delta \in Int /\ a.filling # "off" /\ a.cur \in 0 .. Len(a.list)
          /\ Len(a.list) \in Nat /\ (a.cur # 0 => a.list # <<>>)
      BY <1>2 DEF AtWork, Running, Sound, Typed, Basic, Listed
    <2>2. a.cur \in Int
      BY <2>1, SMT
    <2>3. QED
      BY <2>1, <2>2
  <1> HIDE DEF a
  <1>4. CASE fatal \/ ends
    <2> DEFINE x == [t.a EXCEPT !.skip = "none"]
    <2>1. /\ DOMAIN x = AudioFields /\ x.pl = a.pl /\ x.skipped = a.skipped /\ x.peek = a.peek
          /\ x.list = a.list /\ x.cur = a.cur /\ x.loading = a.loading
          /\ x.filling = a.filling /\ x.skip = "none" /\ x.delta = a.delta
          /\ x.queue = a.queue /\ x.status = a.status
      BY <1>2 DEF AudioFields, a
    <2>2. Shape(stop) /\ stop.a = x /\ stop.u = t.u
      BY <1>3 DEF Shape
    <2> HIDE DEF stop, x
    <2>3. Sound(stop) /\ stop.a.status # "stopped"
      <3>1. Basic(x)
        BY <1>3, <2>1 DEF Typed, Basic
      <3>2. Listed(x)
        BY <1>3, <2>1 DEF Typed, Listed
      <3>3. Loading(x)
        BY <1>3, <2>1 DEF Loading, TooBigYet
      <3>4. Sound(t)
        BY <1>2 DEF AtWork, Running
      <3>5. QED
        BY <1>3, <2>1, <2>2, <3>1, <3>2, <3>3, <3>4 DEF Sound, Typed, a
    <2>4. "stop2" \in Stopping /\ StopPlayback(stop) = Send(stop, "stop", "stop2")
      BY <2>3 DEF Stopping, StopPlayback, Halt
    <2>5. r = StopPlayback(stop)
      BY <1>1, <1>4
    <2>6. QED
      BY <2>3, <2>4, <2>5, HaltHolds DEF r
  <1>5. CASE ~(fatal \/ ends)
    <2>1. by \in Int /\ d \in Int /\ ListDelta(a, a.delta) \in Int
          /\ by = ListDelta(a, a.delta) + Off(a)
      <3>1. by = IF a.skip = "newlist" THEN a.delta - 1 ELSE a.delta
        BY DEF PlaylistDelta
      <3>2. ListDelta(a, a.delta) = IF a.skip \in {"auto", "newlist"} THEN a.delta - 1 ELSE a.delta
        BY DEF ListDelta, Ahead
      <3>3. Off(a) = IF a.skip = "auto" THEN 1 ELSE 0
        BY DEF Off
      <3> HIDE DEF by, d
      <3>4. CASE a.skip = "newlist"
        BY <1>3, <3>1, <3>2, <3>3, <3>4, SMT DEF d
      <3>5. CASE a.skip = "auto"
        BY <1>3, <3>1, <3>2, <3>3, <3>5, SMT DEF d
      <3>6. CASE a.skip \notin {"auto", "newlist"}
        BY <1>3, <3>1, <3>2, <3>3, <3>6, SMT DEF d
      <3>7. QED
        BY <3>4, <3>5, <3>6
    <2>2. back \in Int
      <3>1. inRange # {}
        BY <1>5
      <3>2. back = Min(inRange)
        OBVIOUS
      <3>3. inRange \in SUBSET Nat
        <4> DEFINE up == Cardinality(Tracks) + 1
                   fits(n) == NextIndex(a, by + n * d) # 0
        <4>1. inRange = {n \in 0 .. up : fits(n)}
          OBVIOUS
        <4> HIDE DEF fits, inRange, up
        <4>2. \A n \in 0 .. up : n \in Nat
          OBVIOUS
        <4>3. QED
          BY <4>1, <4>2
      <3> HIDE DEF inRange, back
      <3>4. Min(inRange) \in inRange
        BY <3>1, <3>3, SmallestOf
      <3>5. back \in Nat
        BY <3>2, <3>3, <3>4
      <3>6. QED
        BY <3>5, SMT
    <2> HIDE DEF by, d, back, inRange
    <2> DEFINE x == back * d
    <2>3. x \in Int
      BY <2>1, <2>2, SMT
    <2>4. k = by + x /\ to = a.cur + ListDelta(a, a.delta) + x
      OBVIOUS
    <2> HIDE DEF x
    <2>5. Off(a) \in Int
      BY OffFacts
    <2>6. k \in Int /\ to \in Int /\ k = Off(a) + to - a.cur
      <3> HIDE DEF k, to
      <3> DEFINE l == ListDelta(a, a.delta)
                 o == Off(a)
                 u == a.cur
      <3>1. l \in Int /\ o \in Int /\ u \in Int /\ by = l + o /\ k = by + x /\ to = u + l + x
        BY <1>3, <2>1, <2>4, <2>5
      <3> HIDE DEF l, o, u
      <3>2. k \in Int /\ to \in Int /\ k = o + to - u
        BY <2>3, <3>1, SMT
      <3>3. QED
        BY <3>2 DEF o, u
    <2> HIDE DEF k, to
    <2>7. DOMAIN moved = AudioFields
      BY <1>3, <2>6, PlaylistNextFacts DEF Moves
    <2> HIDE DEF moved, listed
    <2>8. MovedTo(moved, c, k, listed)
      <3>1. b = [[[moved EXCEPT !.skip = "none"] EXCEPT !.stat = "ok"] EXCEPT !.peek = @ - k]
        BY <2>7 DEF AudioFields
      <3> DEFINE y == [[[moved EXCEPT !.skip = "none"] EXCEPT !.stat = "ok"] EXCEPT !.peek = @ - k]
      <3>2. /\ DOMAIN y = AudioFields /\ y.pl = moved.pl /\ y.skipped = moved.skipped
            /\ y.list = moved.list /\ y.loading = moved.loading /\ y.filling = moved.filling
            /\ y.queue = moved.queue /\ y.status = moved.status /\ y.ffrw = moved.ffrw
            /\ y.seeking = moved.seeking /\ y.delta = moved.delta
            /\ y.skip = "none" /\ y.peek = moved.peek - k
        BY <2>7 DEF AudioFields
      <3> HIDE DEF y, b
      <3>3. b = y
        BY <3>1 DEF y
      <3>4. QED
        BY <3>2, <3>3 DEF MovedTo, AudioFields
    <2> HIDE DEF b, c
    <2>9. Typed(c) /\ Brings(a, c) /\ c.skip = "none"
      <3>1. listed \in DOMAIN a.list \/ listed = a.cur
        BY DEF listed
      <3>2. Typed(c) /\ Brings(a, c)
        BY <1>3, <2>6, <2>8, <3>1, MovedTyped DEF moved
      <3>3. QED
        BY <2>8, <3>2 DEF MovedTo
    <2>10. Fits(e, 0) /\ Brings(a, e) /\ e.skip = "none"
      <3>1. CASE there
        <4>1. listed = to /\ to \in DOMAIN a.list /\ a.list[to].ready /\ e = c
          BY <3>1 DEF listed
        <4>2. Fits(c, 0)
          BY <1>3, <2>5, <2>6, <2>8, <4>1, SkippedTo DEF moved
        <4>3. QED
          BY <2>9, <4>1, <4>2
      <3>2. CASE ~there
        <4> DEFINE y == Rebuffered(c, "all", -1)
        <4>1. e = y
          BY <3>2
        <4>2. Fits(y, 0) /\ Loads(c, y)
          <5>1. -1 \in {-1, 0} /\ -1 + 1 = 0 /\ c.status # "stopped"
            BY <1>3, <2>9, SMT DEF Brings
          <5>2. Fits(y, -1 + 1) /\ Loads(c, y)
            BY <2>9, <5>1, RebufferedAll
          <5> HIDE DEF y
          <5>3. QED
            BY <5>1, <5>2
        <4> HIDE DEF y, e
        <4>3. Brings(c, y) /\ y.skip = "none"
          BY <2>9, <4>2 DEF Loads, Brings, Fits, Typed, Basic
        <4>4. QED
          BY <2>9, <4>1, <4>2, <4>3, BringsMore
      <3>3. QED
        BY <3>1, <3>2
    <2> HIDE DEF e, there
    <2>11. Holds(BeginTrackChange([t EXCEPT !.a = e], "manual"))
      <3>1. Fits(e, Off(e)) /\ Running(t) /\ Calm(t)
        BY <1>2, <2>10 DEF Off, AtWork
      <3>2. QED
        BY <2>10, <3>1, BegunHolds DEF a
    <2>12. r = BeginTrackChange([t EXCEPT !.a = e], "manual")
      BY <1>1, <1>5
    <2>13. QED
      BY <2>11, <2>12 DEF r
  <1>6. QED
    BY <1>4, <1>5

\* The number of tracks to skip does not matter to the list.
LEMMA DeltaTyped ==
    ASSUME NEW a, Typed(a), Loading(a), NEW x,
           DOMAIN x = AudioFields, x.pl = a.pl, x.skipped = a.skipped, x.peek = a.peek,
           x.list = a.list, x.cur = a.cur, x.loading = a.loading, x.filling = a.filling,
           x.skip = a.skip, x.delta \in Int, x.queue = a.queue
    PROVE  Typed(x) /\ Loading(x)
  <1>1. Basic(x)
    BY DEF Typed, Basic
  <1>2. Listed(x)
    BY DEF Typed, Listed
  <1>3. Loading(x)
    BY DEF Loading, TooBigYet
  <1>4. QED
    BY <1>1, <1>2, <1>3 DEF Typed

\* The skip asked for is taken from skip_offset.
LEMMA SkipTaken ==
    ASSUME NEW s, Sound(s)
    PROVE  LET t == [s EXCEPT !.a.delta = s.u.skip, !.u.skip = 0]
           IN  /\ AtWork(s) => AtWork(t)
               /\ AtRest(s) => AtRest(t)
  <1> DEFINE t == [s EXCEPT !.a.delta = s.u.skip, !.u.skip = 0]
             x == [s.a EXCEPT !.delta = s.u.skip]
             v == [s.u EXCEPT !.skip = 0]
  <1>1. /\ Shape(s) /\ DOMAIN s.a = AudioFields /\ DOMAIN s.u = UserFields /\ Typed(s.a)
        /\ s.u.skip \in Int /\ Loading(s.a) /\ (Owed(s.a.queue) => s.u.hold)
    BY DEF Sound, Typed, Basic, Shape
  <1>2. /\ DOMAIN x = AudioFields /\ x.pl = s.a.pl /\ x.skipped = s.a.skipped
        /\ x.peek = s.a.peek /\ x.list = s.a.list /\ x.cur = s.a.cur
        /\ x.loading = s.a.loading /\ x.filling = s.a.filling /\ x.skip = s.a.skip
        /\ x.delta = s.u.skip /\ x.queue = s.a.queue /\ x.status = s.a.status
        /\ x.ffrw = s.a.ffrw
    BY <1>1 DEF AudioFields
  <1>3. DOMAIN v = UserFields /\ v.skip = 0 /\ v.hold = s.u.hold
    BY <1>1 DEF UserFields
  <1>4. DOMAIN t = {"a", "p", "c", "u"} /\ t.a = x /\ t.u = v
    BY <1>1 DEF Shape
  <1> HIDE DEF x, v, t
  <1>5. Shape(t)
    BY <1>3, <1>4 DEF Shape
  <1>6. Typed(x) /\ Loading(x)
    <2>1. x.delta \in Int
      BY <1>1, <1>2
    <2>2. QED
      BY <1>1, <1>2, <2>1, DeltaTyped
  <1>9. 0 \in Int
    BY SMT
  <1>10. Sound(t)
    BY <1>1, <1>2, <1>3, <1>4, <1>5, <1>6, <1>9 DEF Sound
  <1>11. ASSUME AtWork(s) PROVE AtWork(t)
    <2>1. Along(x, Off(s.a)) /\ Off(x) = Off(s.a)
      BY <1>2, <1>11, AlongSame DEF AtWork, Off
    <2>2. QED
      BY <1>2, <1>4, <1>10, <1>11, <2>1 DEF AtWork, Running
  <1>12. ASSUME AtRest(s) PROVE AtRest(t)
    BY <1>2, <1>4, <1>10, <1>12 DEF AtRest
  <1>13. QED
    BY <1>11, <1>12 DEF t

\* audio_on_skip
LEMMA OnSkipHolds ==
    ASSUME NEW s
    PROVE  /\ Fit(s) => Holds(OnSkip(s))
           /\ AtRest(s) => Holds(OnSkip(s))
  <1> DEFINE t == [s EXCEPT !.a.delta = s.u.skip, !.u.skip = 0]
  <1>1. OnSkip(s) = IF s.a.status = "stopped" THEN Done(t) ELSE Send(t, "stop", "skip2")
    BY DEF OnSkip, Halt
  <1> HIDE DEF t
  <1>2. ASSUME Fit(s) PROVE Holds(OnSkip(s))
    <2>1. Sound(s) /\ s.a.status # "stopped" /\ AtWork(s) /\ "skip2" \in Halting
      BY <1>2 DEF Fit, AtWork, Running, Halting
    <2>2. AtWork(t)
      BY <2>1, SkipTaken DEF t
    <2>3. QED
      BY <1>1, <2>1, <2>2, HaltHolds
  <1>3. ASSUME AtRest(s) PROVE Holds(OnSkip(s))
    <2>1. Sound(s) /\ s.a.status = "stopped"
      BY <1>3 DEF AtRest
    <2>2. AtRest(t)
      BY <1>3, <2>1, SkipTaken DEF t
    <2>3. QED
      BY <1>1, <2>1, <2>2, DoneHolds
  <1>4. QED
    BY <1>2, <1>3

\* audio_on_dir_skip
LEMMA OnDirSkipHolds ==
    ASSUME NEW s
    PROVE  /\ Fit(s) => Holds(OnDirSkip(s))
           /\ AtRest(s) => Holds(OnDirSkip(s))
  <1> DEFINE t == [s EXCEPT !.u.skip = 0]
             v == [s.u EXCEPT !.skip = 0]
  <1>1. OnDirSkip(s) = IF s.a.status = "stopped" THEN Done(t) ELSE Send(t, "stop", "dir2")
    BY DEF OnDirSkip, Halt
  <1>2. ASSUME Sound(s)
        PROVE  Shape(t) /\ t.a = s.a /\ t.u.hold = s.u.hold /\ t.u.skip \in Int
               /\ Retains(s.a, t.a)
    <2>1. Shape(s) /\ DOMAIN s.u = UserFields /\ DOMAIN s.a = AudioFields
      BY <1>2 DEF Sound, Shape, Typed, Basic
    <2>2. DOMAIN v = UserFields /\ v.skip = 0 /\ v.hold = s.u.hold
      BY <2>1 DEF UserFields
    <2>3. DOMAIN t = {"a", "p", "c", "u"} /\ t.a = s.a /\ t.u = v
      BY <2>1 DEF Shape
    <2> HIDE DEF t, v
    <2>4. 0 \in Int
      BY SMT
    <2>5. QED
      BY <2>1, <2>2, <2>3, <2>4 DEF Shape, Retains
  <1> HIDE DEF t
  <1>3. ASSUME Fit(s) PROVE Holds(OnDirSkip(s))
    <2>1. Sound(s) /\ s.a.status # "stopped" /\ AtWork(s) /\ "dir2" \in Halting
      BY <1>3 DEF Fit, AtWork, Running, Halting
    <2>2. AtWork(t)
      BY <1>2, <2>1, Retained
    <2>3. QED
      BY <1>1, <2>1, <2>2, HaltHolds
  <1>4. ASSUME AtRest(s) PROVE Holds(OnDirSkip(s))
    <2>1. Sound(s) /\ s.a.status = "stopped" /\ ~s.a.ffrw
      BY <1>4 DEF AtRest
    <2>2. AtRest(t)
      BY <1>2, <1>4, <2>1, RestRetained
    <2>3. QED
      BY <1>1, <2>1, <2>2, DoneHolds
  <1>5. QED
    BY <1>3, <1>4

\* What follows a skip to another directory when the codec has stopped.
LEMMA Dir2Holds ==
    ASSUME NEW s, AtWork(s)
    PROVE  Holds(Dir2(s))
  <1> DEFINE h == Halted(s)
             y == [h.a EXCEPT !.ffrw = FALSE]
             a == [h.a EXCEPT !.ffrw = FALSE, !.skip = "none"]
             g == IF LastOf = {} THEN a ELSE GoTo(a, OtherDir(a, 1, FALSE))
             b == Rebuffered(g, "all", -1)
             w == [h EXCEPT !.a.ffrw = FALSE]
             r == Dir2(s)
  <1>1. r = IF b.stat = "nomore" THEN MonitorEnd([h EXCEPT !.a = b])
            ELSE BeginTrackChange([h EXCEPT !.a = b], "manual")
    BY DEF Dir2
  <1> HIDE DEF r
  <1>2. Quiet(s, h)
    BY HaltedKeeps, FormedSound DEF AtWork, Running
  <1> HIDE DEF h
  <1>3. AtWork(h) /\ Shape(h) /\ DOMAIN h.a = AudioFields /\ Sound(h) /\ h.u.skip \in Int
        /\ h.a.status # "stopped"
    BY <1>2, QuietKeeps DEF Quiet, Formed, AtWork, Running, Sound
  <1>4. Retains(h.a, y) /\ ~y.ffrw /\ y.status = h.a.status /\ y.seeking = h.a.seeking
    BY <1>3 DEF Retains, AudioFields
  <1>5. Shape(w) /\ w.a = y /\ w.u = h.u
    BY <1>3 DEF Shape
  <1>6. a = [y EXCEPT !.skip = "none"]
    BY <1>3 DEF AudioFields
  <1> HIDE DEF y, a
  <1>7. /\ DOMAIN a = AudioFields /\ a.pl = y.pl /\ a.skipped = y.skipped
        /\ a.peek = y.peek /\ a.list = y.list /\ a.cur = y.cur /\ a.delta = y.delta
        /\ a.loading = y.loading /\ a.filling = y.filling /\ a.skip = "none"
        /\ a.queue = y.queue /\ a.status = y.status /\ a.ffrw = y.ffrw
        /\ a.seeking = y.seeking
    BY <1>4, <1>6 DEF Retains, AudioFields
  <1> HIDE DEF w
  <1>8. AtWork(w) /\ Calm(w) /\ Running(w) /\ Typed(y)
    <2>1. AtWork(w)
      BY <1>3, <1>4, <1>5, Retained
    <2>2. Calm(w)
      BY <1>4, <1>5 DEF Calm
    <2>3. QED
      BY <1>5, <2>1, <2>2 DEF AtWork, Running, Sound
  <1>9. Typed(a)
    <2>1. Basic(a)
      BY <1>7, <1>8 DEF Typed, Basic
    <2>2. Listed(a)
      BY <1>7, <1>8 DEF Typed, Listed
    <2>3. QED
      BY <2>1, <2>2 DEF Typed
  <1>10. Typed(g) /\ Moves(a, g)
    <2>1. CASE LastOf = {}
      <3>1. Moves(a, a)
        BY <1>7, AddsNothing DEF Moves, Loads
      <3>2. QED
        BY <1>9, <2>1, <3>1
    <2>2. CASE LastOf # {}
      <3> DEFINE o == OtherDir(a, 1, FALSE)
      <3>1. o \in Tracks \cup {0} /\ g = GoTo(a, o)
        BY <2>2, OtherDirFacts
      <3> HIDE DEF o, g
      <3>2. Basic(g) /\ Moves(a, g)
        BY <1>9, <3>1, GoToFacts DEF Typed
      <3>3. Listed(g)
        BY <1>9, <3>2 DEF Typed, Listed, Moves
      <3>4. QED
        BY <3>2, <3>3 DEF Typed
    <2>3. QED
      BY <2>1, <2>2
  <1> HIDE DEF g
  <1>11. g.status # "stopped" /\ ~Ahead(g) /\ g.skip = "none"
    BY <1>3, <1>4, <1>7, <1>10 DEF Moves, Loads, Ahead
  <1>12. /\ Fits(b, 0) /\ Loads(g, b) /\ b.stat \in {"ok", "nomore"}
         /\ b.stat = "nomore" => \A off : Along(b, off)
    <2>1. -1 \in {-1, 0} /\ -1 + 1 = 0
      BY SMT
    <2>2. /\ Fits(b, -1 + 1) /\ Loads(g, b) /\ b.stat \in {"ok", "nomore"}
          /\ b.stat = "nomore" => \A off : Along(b, off)
      BY <1>10, <1>11, <2>1, RebufferedAll
    <2> HIDE DEF b
    <2>3. QED
      BY <2>1, <2>2
  <1> HIDE DEF b
  <1>13. Brings(w.a, b) /\ b.skip = "none"
    <2>1. Brings(a, b) /\ b.skip = "none"
      BY <1>10, <1>11, <1>12, AddsMore DEF Moves, Loads, Brings, Fits, Typed, Basic
    <2>2. QED
      BY <1>5, <1>7, <2>1 DEF Brings
  <1>14. [h EXCEPT !.a = b] = [w EXCEPT !.a = b]
    BY <1>3, <1>5 DEF Shape, w
  <1>15. ASSUME b.stat = "nomore" PROVE Holds(r)
    <2>1. Typed(b) /\ Loading(b) /\ Along(b, 0) /\ b.skip # "auto"
      BY <1>12, <1>13, <1>15 DEF Fits
    <2>2. Holds(MonitorEnd([w EXCEPT !.a = b]))
      BY <1>8, <1>13, <2>1, EndsHold
    <2>3. QED
      BY <1>1, <1>14, <1>15, <2>2
  <1>16. ASSUME b.stat # "nomore" PROVE Holds(r)
    <2>1. Fits(b, Off(b)) /\ "manual" \in {"auto", "manual"}
      BY <1>12, <1>13 DEF Off
    <2>2. Holds(BeginTrackChange([w EXCEPT !.a = b], "manual"))
      BY <1>8, <1>13, <2>1, BegunHolds
    <2>3. QED
      BY <1>1, <1>14, <1>16, <2>2
  <1>17. QED
    BY <1>15, <1>16 DEF r

\* audio_on_pre_ff_rewind, with the key held or the seek on its way
LEMMA OnPreSeekHolds ==
    ASSUME NEW s, HasSeek(s.a.queue) \/ s.u.hold
    PROVE  /\ Fit(s) => Holds(OnPreSeek(s))
           /\ AtRest(s) => Holds(OnPreSeek(s))
  <1> DEFINE x == [s.a EXCEPT !.ffrw = TRUE]
             t == [s EXCEPT !.a.ffrw = TRUE]
             y == [t EXCEPT !.p = PcmPause(@, TRUE)]
             r == OnPreSeek(s)
  <1>1. r = Done(IF s.a.status = "stopped" \/ s.a.ffrw THEN s
                 ELSE IF s.a.status = "paused" THEN t ELSE y)
    BY DEF OnPreSeek
  <1> HIDE DEF r
  <1>2. ASSUME AtRest(s) PROVE Holds(r)
    BY <1>1, <1>2, DoneHolds DEF AtRest
  <1>3. ASSUME Fit(s) PROVE Fit(t) /\ Fit(y)
    <2>1. /\ Shape(s) /\ DOMAIN s.a = AudioFields /\ Sound(s) /\ AtWork(s)
          /\ s.u.skip \in Int /\ s.a.status # "stopped"
      BY <1>3 DEF Fit, AtWork, Running, Sound, Typed, Basic
    <2>2. Retains(s.a, x) /\ x.status = s.a.status /\ x.queue = s.a.queue
      BY <2>1 DEF Retains, AudioFields
    <2>3. /\ Shape(t) /\ t.a = x /\ t.u = s.u
          /\ Shape(y) /\ y.a = x /\ y.u = s.u
      BY <2>1 DEF Shape
    <2> HIDE DEF t, x, y
    <2>4. Calm(t) /\ Calm(y)
      BY <2>2, <2>3 DEF Calm
    <2>5. AtWork(t)
      BY <2>1, <2>2, <2>3, Retained
    <2>6. AtWork(y)
      BY <2>1, <2>2, <2>3, Retained
    <2>7. QED
      BY <2>4, <2>5, <2>6 DEF Fit
  <1> HIDE DEF t, y
  <1>4. ASSUME Fit(s) PROVE Holds(r)
    BY <1>1, <1>3, <1>4, DoneHolds
  <1>5. QED
    BY <1>2, <1>4 DEF r

\* audio_on_ff_rewind: seek mode may be on without a cause until it is done.
LEMMA OnSeekHolds ==
    ASSUME NEW s
    PROVE  /\ AtWork(s) => Holds(OnSeek(s))
           /\ AtRest(s) => Holds(OnSeek(s))
  <1> DEFINE e == EndSeekMode(s)
             r == OnSeek(s)
  <1>1. r = IF s.a.status = "stopped" THEN Done(s)
            ELSE IF s.a.skip = "newlist" THEN Done(e)
            ELSE Send(s, IF s.a.skip = "auto" THEN "stop" ELSE "pause", "seek2")
    BY DEF OnSeek, Halt
  <1> HIDE DEF r
  <1>2. ASSUME AtRest(s) PROVE Holds(r)
    BY <1>1, <1>2, DoneHolds DEF AtRest
  <1>3. ASSUME AtWork(s) PROVE Holds(r)
    <2>1. Sound(s) /\ s.a.status # "stopped" /\ "seek2" \in Halting
      BY <1>3 DEF AtWork, Running, Halting
    <2>2. Fit(e)
      BY <1>3, <2>1, EndSeekFacts
    <2> HIDE DEF e
    <2>3. Holds(Done(e))
      BY <2>2, DoneHolds
    <2>4. \A cmd : Holds(Send(s, cmd, "seek2"))
      BY <1>3, <2>1, HaltHolds
    <2>5. QED
      BY <1>1, <2>1, <2>3, <2>4
  <1>4. QED
    BY <1>2, <1>3 DEF r

\* The list goes back from the track that follows.
LEMMA BackOne ==
    ASSUME NEW a, Typed(a), Loading(a), Along(a, 1), a.cur > 1,
           NEW b, b = [a EXCEPT !.cur = @ - 1, !.stat = "ok"]
    PROVE  /\ Fits(b, 0) /\ Brings(a, b) /\ b.stat = "ok" /\ b.skip = a.skip
  <1>1. /\ DOMAIN a = AudioFields /\ a.list \in Seq(Entries) /\ Len(a.list) \in Nat
        /\ a.cur \in 0 .. Len(a.list) /\ a.peek \in Int /\ (a.cur = 0 <=> a.list = <<>>)
    BY DEF Typed, Basic, Listed
  <1>2. a.cur \in Int /\ a.cur - 1 \in 0 .. Len(a.list) /\ a.cur # 0 /\ a.cur - 1 # 0
        /\ a.cur - 1 # Len(a.list)
    BY <1>1, SMT
  <1>3. /\ DOMAIN b = AudioFields /\ b.pl = a.pl /\ b.skipped = a.skipped
        /\ b.peek = a.peek /\ b.list = a.list /\ b.cur = a.cur - 1
        /\ b.loading = a.loading /\ b.filling = a.filling /\ b.skip = a.skip
        /\ b.delta = a.delta /\ b.queue = a.queue /\ b.status = a.status
        /\ b.ffrw = a.ffrw /\ b.seeking = a.seeking /\ b.stat = "ok"
    BY <1>1 DEF AudioFields
  <1>4. Basic(b)
    BY <1>3 DEF Typed, Basic
  <1>5. Listed(b)
    BY <1>1, <1>2, <1>3 DEF Typed, Listed
  <1>6. Loading(b)
    BY <1>2, <1>3 DEF Loading, TooBigYet
  <1>7. Along(b, 0)
    <2>1. a.list # <<>> /\ a.peek - Len(a.list) + a.cur = 1
      BY <1>1, <1>2 DEF Along
    <2>2. a.peek - Len(a.list) + (a.cur - 1) = 0
      <3> DEFINE n == Len(a.list)
                 p == a.peek
                 u == a.cur
      <3>1. n \in Int /\ p \in Int /\ u \in Int /\ p - n + u = 1
        BY <1>1, <1>2, <2>1
      <3> HIDE DEF n, p, u
      <3>2. p - n + (u - 1) = 0
        BY <3>1, SMT
      <3>3. QED
        BY <3>2 DEF n, p, u
    <2>3. Left(b) = Left(a) /\ \A t : \A j : StepsOn(b, t, j) <=> StepsOn(a, t, j)
      BY <1>3 DEF Left, StepsOn
    <2>4. QED
      BY <1>3, <2>1, <2>2, <2>3 DEF Along
  <1>8. Brings(a, b)
    BY <1>3, AddsNothing DEF Brings
  <1>9. QED
    BY <1>3, <1>4, <1>5, <1>6, <1>7, <1>8 DEF Fits, Typed

\* The current track of the list becomes the one of the change heard.
LEMMA SettledAt ==
    ASSUME NEW s, Fit(s), NEW b, Brings(s.a, b), Fits(b, 0),
           NEW c, Settles(b, c), NEW x, x = [s EXCEPT !.a = c]
    PROVE  Fit(x) /\ Formed(x) /\ x.a = c /\ x.u = s.u
  <1>1. Running(s) /\ Calm(s) /\ Shape(s)
    BY DEF Fit, AtWork, Running, Sound
  <1>2. Shape(x) /\ x.a = c /\ x.u = s.u
    BY <1>1, Replaced
  <1>3. QED
    BY <1>1, <1>2, SettledFits

\* What a seek has lost or left over is only noted.
LEMMA NotedHolds ==
    ASSUME NEW s, Fit(s), NEW r, Shape(r), r.a = s.a, r.u.hold = s.u.hold, r.u.skip = s.u.skip
    PROVE  Fit(r) /\ Formed(r)
  <1>1. Sound(s) /\ r.u.skip \in Int /\ s.a.status # "stopped" /\ DOMAIN s.a = AudioFields
    BY DEF Fit, AtWork, Running, Sound, Typed, Basic
  <1>2. Retains(s.a, r.a)
    BY <1>1 DEF Retains
  <1>3. AtWork(r) /\ Formed(r)
    BY <1>1, <1>2, Retained DEF Fit
  <1>4. Calm(r)
    BY DEF Calm, Fit
  <1>5. QED
    BY <1>3, <1>4 DEF Fit

\* The seek begins.
LEMMA SeekBegins ==
    ASSUME NEW s, AtWork(s), NEW lost, NEW over
    PROVE  LET t == [Halted(s) EXCEPT !.a.seeking = TRUE, !.u.lost = @ \/ lost,
                                      !.u.over = @ \/ over]
           IN  Fit(t) /\ Formed(t)
  <1> DEFINE h == Halted(s)
             t == [h EXCEPT !.a.seeking = TRUE, !.u.lost = @ \/ lost, !.u.over = @ \/ over]
             x == [h.a EXCEPT !.seeking = TRUE]
             v == [[h.u EXCEPT !.lost = @ \/ lost] EXCEPT !.over = @ \/ over]
  <1>1. Quiet(s, h)
    BY HaltedKeeps, FormedSound DEF AtWork, Running
  <1> HIDE DEF h
  <1>2. AtWork(h) /\ Shape(h) /\ DOMAIN h.a = AudioFields /\ Sound(h) /\ h.u.skip \in Int
        /\ h.a.status # "stopped" /\ DOMAIN h.u = UserFields
    BY <1>1, QuietKeeps DEF Quiet, Formed, AtWork, Running, Sound, Shape
  <1>3. Retains(h.a, x) /\ x.seeking = TRUE /\ x.status = h.a.status
    BY <1>2 DEF Retains, AudioFields
  <1>4. DOMAIN v = UserFields /\ v.hold = h.u.hold /\ v.skip = h.u.skip
    BY <1>2 DEF UserFields
  <1>5. DOMAIN t = {"a", "p", "c", "u"} /\ t.a = x /\ t.u = v
    BY <1>2 DEF Shape
  <1> HIDE DEF t, x, v
  <1>6. Shape(t)
    BY <1>4, <1>5 DEF Shape
  <1>7. AtWork(t) /\ Formed(t)
    BY <1>2, <1>3, <1>4, <1>5, <1>6, Retained
  <1>8. Calm(t)
    BY <1>3, <1>5 DEF Calm
  <1>9. QED
    BY <1>7, <1>8 DEF Fit, t, h

\* What follows a seek when the codec has halted.
LEMMA Seek2Holds ==
    ASSUME NEW s, AtWork(s)
    PROVE  Holds(Seek2(s))
  <1> DEFINE backs == s.a.skip = "auto"
             h == Halted(s)
             beyond == ToSet(Append(h.p.chunks, h.p.waiting)) \ {0, s.a.shown}
             lost == s.c.fmt = 0
             over == backs /\ ~s.a.ffrw /\ beyond # {}
             t == [h EXCEPT !.a.seeking = TRUE, !.u.lost = @ \/ lost, !.u.over = @ \/ over]
             a == t.a
             b == IF ~backs THEN a
                  ELSE IF a.cur > 1 THEN [a EXCEPT !.cur = @ - 1, !.stat = "ok"]
                  ELSE Rebuffered(a, "all", -1)
             c == [b EXCEPT !.skip = "none"]
             shown == [c EXCEPT !.shown = TagOf(c, c.cur)]
             x == [t EXCEPT !.a = b]
             y == [t EXCEPT !.a = c]
             z == [t EXCEPT !.a = shown]
             w == [t EXCEPT !.a = shown, !.u.lost = TRUE]
             r == Seek2(s)
  <1>1. r = IF backs /\ b.stat # "ok" THEN StartError(x)
            ELSE IF ~HasCurrent(c) \/ ~Current(c).ready THEN Done(w)
            ELSE IF backs THEN InitCodec(y, "seek") ELSE Send(y, "seek", "idle")
    BY DEF Seek2
  <1> HIDE DEF r
  <1>2. a.skip = s.a.skip
    <2>1. Shape(h) /\ DOMAIN h.a = AudioFields /\ h.a.skip = s.a.skip /\ DOMAIN h.u = UserFields
      BY HaltedKeeps, FormedSound DEF AtWork, Running, Quiet, Formed, Alike, Shape
    <2> HIDE DEF h
    <2>2. a.skip = h.a.skip
      BY <2>1 DEF Shape, AudioFields
    <2>3. QED
      BY <2>1, <2>2
  <1>3. Fit(t) /\ Formed(t)
    BY SeekBegins
  <1> HIDE DEF t, over, lost, beyond
  <1>4. /\ Typed(a) /\ Loading(a) /\ Along(a, Off(a)) /\ a.status # "stopped" /\ Shape(t)
        /\ DOMAIN a = AudioFields /\ a.cur \in Int
        /\ DOMAIN t.u = UserFields
    <2>1. /\ Typed(a) /\ Loading(a) /\ Along(a, Off(a)) /\ a.status # "stopped" /\ Shape(t)
          /\ DOMAIN a = AudioFields /\ a.cur \in 0 .. Len(a.list) /\ Len(a.list) \in Nat
          /\ DOMAIN t.u = UserFields
      BY <1>3 DEF Fit, AtWork, Running, Sound, Typed, Basic, Listed, Shape
    <2>2. a.cur \in Int
      BY <2>1, SMT
    <2>3. QED
      BY <2>1, <2>2
  <1> HIDE DEF a
  <1>5. /\ Fits(b, 0) /\ Brings(a, b) /\ b.skip = a.skip
        /\ (backs /\ b.stat # "ok") => Along(b, 1)
    <2>1. CASE ~backs
      <3>1. Off(a) = 0
        BY <1>2, <2>1 DEF Off
      <3>2. Brings(a, a)
        BY <1>4, AddsNothing DEF Brings
      <3>3. QED
        BY <1>4, <2>1, <3>1, <3>2 DEF Fits
    <2>2. CASE backs /\ a.cur > 1
      <3> DEFINE d == [a EXCEPT !.cur = @ - 1, !.stat = "ok"]
      <3>1. Off(a) = 1
        BY <1>2, <2>2 DEF Off
      <3>2. Along(a, 1)
        BY <1>4, <3>1
      <3>3. Fits(d, 0) /\ Brings(a, d) /\ d.stat = "ok" /\ d.skip = a.skip
        BY <1>4, <2>2, <3>2, BackOne
      <3>4. b = d
        BY <2>2
      <3> HIDE DEF b, d
      <3>5. QED
        BY <3>3, <3>4
    <2>3. CASE backs /\ ~(a.cur > 1)
      <3> DEFINE d == Rebuffered(a, "all", -1)
      <3>1. b = d
        BY <2>3
      <3>2. -1 \in {-1, 0} /\ -1 + 1 = 0
        BY SMT
      <3>3. /\ Fits(d, -1 + 1) /\ Loads(a, d) /\ d.stat \in {"ok", "nomore"}
            /\ d.stat = "nomore" => \A off : Along(d, off)
        BY <1>4, <3>2, RebufferedAll
      <3> HIDE DEF d, b
      <3>4. Fits(d, 0)
        BY <3>2, <3>3
      <3>5. Brings(a, d) /\ d.skip = a.skip
        BY <3>3, <3>4 DEF Brings, Loads, Fits, Typed, Basic
      <3>6. QED
        BY <3>1, <3>3, <3>4, <3>5
    <2>4. QED
      BY <2>1, <2>2, <2>3
  <1> HIDE DEF b
  <1>6. Settles(b, c) /\ Settles(b, shown)
    <2>1. DOMAIN b = AudioFields
      BY <1>5 DEF Brings
    <2>2. QED
      BY <2>1, AddsNothing DEF Settles, Brings, AudioFields
  <1> HIDE DEF c, shown
  <1>7. Fit(y) /\ Formed(y) /\ Fit(z) /\ Formed(z) /\ z.a = shown /\ z.u = t.u
    <2>1. Fit(y) /\ Formed(y)
      BY <1>3, <1>5, <1>6, SettledAt DEF a
    <2>2. Fit(z) /\ Formed(z) /\ z.a = shown /\ z.u = t.u
      BY <1>3, <1>5, <1>6, SettledAt DEF a
    <2>3. QED
      BY <2>1, <2>2
  <1>8. Holds(InitCodec(y, "seek")) /\ Holds(Send(y, "seek", "idle"))
    <2> HIDE DEF y
    <2>1. Handled(y, InitCodec(y, "seek"))
      BY <1>7, InitCodecKeeps
    <2>2. Steady(y, Send(y, "seek", "idle")) /\ Send(y, "seek", "idle").a.next = "idle"
      BY <1>7, SendKeeps
    <2>3. "idle" \in Places \ Halting
      BY DEF Places, Halting, Stopping
    <2>4. Handled(y, Send(y, "seek", "idle"))
      BY <2>2, <2>3 DEF Handled
    <2>5. QED
      BY <1>7, <2>1, <2>4, HandledHolds
  <1>9. Holds(Done(w))
    <2> DEFINE v == [t.u EXCEPT !.lost = TRUE]
    <2>1. DOMAIN v = UserFields /\ v.hold = t.u.hold /\ v.skip = t.u.skip
      BY <1>4 DEF UserFields
    <2>2. DOMAIN w = {"a", "p", "c", "u"} /\ w.a = shown /\ w.u = v
      BY <1>4 DEF Shape
    <2> HIDE DEF v, w, z
    <2>3. Shape(w)
      BY <2>1, <2>2 DEF Shape
    <2>4. Fit(w)
      BY <1>7, <2>1, <2>2, <2>3, NotedHolds
    <2>5. QED
      BY <2>4, DoneHolds
  <1>10. ASSUME backs, b.stat # "ok" PROVE Holds(StartError(x))
    <2>1. Off(b) = 1 /\ Off(b) \in Int
      BY <1>2, <1>5, <1>10, OffFacts DEF Off
    <2>2. Along(b, Off(b)) /\ Shape(x) /\ x.a = b /\ x.u = t.u
      BY <1>4, <1>5, <1>10, <2>1, Replaced
    <2> HIDE DEF x
    <2>3. Fits(x.a, Off(x.a)) /\ Brings(t.a, x.a)
      BY <1>5, <2>2 DEF Fits, a
    <2>4. Fit(x) /\ Formed(x)
      BY <1>3, <2>2, <2>3, Brought DEF Fit, AtWork
    <2>5. Handled(x, StartError(x))
      BY <2>4, StartErrorKeeps
    <2>6. QED
      BY <2>4, <2>5, HandledHolds
  <1> HIDE DEF x, y, w
  <1>11. QED
    BY <1>1, <1>8, <1>9, <1>10 DEF r

\* Only the record of the audio thread and what the user has asked for matter.
LEMMA NotedOnly ==
    ASSUME NEW r, Holds(r), NEW x, Shape(x), x.a = r.a, x.u.hold = r.u.hold,
           x.u.skip \in Int
    PROVE  Holds(x)
  <1>1. Sound(x)
    BY DEF Holds, Sound
  <1>2. Calm(r) => Calm(x)
    BY DEF Calm
  <1>3. QED
    BY <1>1, <1>2 DEF Holds

\* A key is pressed or released: a message says so.
LEMMA KeyHolds ==
    ASSUME NEW s, Holds(s), NEW q \in Seq(Mail), NEW x, Shape(x),
           x.a = [s.a EXCEPT !.queue = q], x.u.skip \in Int,
           Owed(q) => x.u.hold, x.u.hold \/ HasSeek(q)
    PROVE  Holds(x)
  <1> DEFINE a == s.a
             b == [a EXCEPT !.queue = q]
  <1>1. Sound(s) /\ Typed(a) /\ Loading(a) /\ DOMAIN a = AudioFields
    BY DEF Holds, Sound, Typed, Basic
  <1>2. /\ DOMAIN b = AudioFields /\ b.pl = a.pl /\ b.skipped = a.skipped
        /\ b.peek = a.peek /\ b.list = a.list /\ b.cur = a.cur /\ b.delta = a.delta
        /\ b.loading = a.loading /\ b.filling = a.filling /\ b.skip = a.skip
        /\ b.queue = q /\ b.status = a.status /\ b.ffrw = a.ffrw /\ b.next = a.next
    BY <1>1 DEF AudioFields
  <1>3. x.a = b
    OBVIOUS
  <1> HIDE DEF b
  <1>4. Basic(b)
    BY <1>1, <1>2 DEF Typed, Basic
  <1>5. Listed(b)
    BY <1>1, <1>2 DEF Typed, Listed
  <1>6. Loading(b)
    BY <1>1, <1>2 DEF Loading, TooBigYet
  <1>7. Sound(x)
    BY <1>2, <1>3, <1>4, <1>5, <1>6 DEF Sound, Typed
  <1>8. Calm(x)
    BY <1>2, <1>3 DEF Calm
  <1>9. Off(b) = Off(a)
    BY <1>2 DEF Off
  <1>10. ASSUME a.status # "stopped", a.next \notin Stopping PROVE Along(b, Off(b))
    <2>1. Along(a, Off(a))
      BY <1>10 DEF Holds
    <2>2. QED
      BY <1>2, <1>9, <2>1, AlongSame
  <1>11. QED
    BY <1>2, <1>3, <1>7, <1>8, <1>9, <1>10 DEF Holds

\* With nothing to wait for, playback is stopped or all is well.
LEMMA IdleCases ==
    ASSUME NEW s, Holds(s)
    PROVE  /\ s.a.next = "idle" => AtRest(s) \/ Fit(s)
           /\ s.a.next \in {"unload", "load", "loaded", "went"} => Fit(s)
           /\ s.a.next \in Stopping => Sound(s) /\ s.a.status # "stopped"
           /\ s.a.next \in Halting \ Stopping => AtWork(s)
  <1>1. "idle" \notin Halting /\ {"unload", "load", "loaded", "went"} \cap Halting = {}
        /\ "idle" \notin Stopping /\ {"unload", "load", "loaded", "went"} \cap Stopping = {}
        /\ "idle" \notin {"unload", "load", "loaded", "went"}
    BY DEF Halting, Stopping
  <1>2. Sound(s)
    BY DEF Holds
  <1>3. s.a.status = "stopped" => s.a.next = "idle" /\ AtRest(s)
    BY <1>2 DEF Holds, AtRest
  <1>4. s.a.status # "stopped" /\ s.a.next \notin Stopping => AtWork(s)
    BY <1>2 DEF Holds, AtWork, Running
  <1>5. s.a.next \notin Halting => Calm(s)
    BY DEF Holds
  <1>6. QED
    BY <1>1, <1>2, <1>3, <1>4, <1>5 DEF Fit

\* A message is taken from the queue.
LEMMA TakenCases ==
    ASSUME NEW s, Holds(s), s.a.next = "idle", s.a.queue # <<>>,
           NEW r, r = [s EXCEPT !.a.queue = Tail(@)]
    PROVE  LET m == Head(s.a.queue)
           IN  /\ m \in Mail
               /\ AtRest(r) \/ AtWork(r)
               /\ m.type # "seek" => Calm(r)
               /\ m.type = "preseek" => HasSeek(r.a.queue) \/ r.u.hold
               /\ r.a.next = "idle" /\ r.a.filling = s.a.filling
  <1> DEFINE m == Head(s.a.queue)
             a == s.a
             q == Tail(s.a.queue)
             b == [a EXCEPT !.queue = q]
  <1>1. /\ Sound(s) /\ Typed(a) /\ Loading(a) /\ DOMAIN a = AudioFields /\ Shape(s)
        /\ a.queue \in Seq(Mail) /\ s.u.skip \in Int
        /\ (Owed(a.queue) => s.u.hold)
    BY DEF Holds, Sound, Typed, Basic
  <1>2. /\ DOMAIN b = AudioFields /\ b.pl = a.pl /\ b.skipped = a.skipped
        /\ b.peek = a.peek /\ b.list = a.list /\ b.cur = a.cur /\ b.delta = a.delta
        /\ b.loading = a.loading /\ b.filling = a.filling /\ b.skip = a.skip
        /\ b.queue = q /\ b.status = a.status /\ b.ffrw = a.ffrw /\ b.next = a.next
        /\ b.seeking = a.seeking
    BY <1>1 DEF AudioFields
  <1>3. DOMAIN r = {"a", "p", "c", "u"} /\ r.a = b /\ r.u = s.u
    BY <1>1 DEF Shape
  <1> HIDE DEF b
  <1>4. Shape(r) /\ r.a = b /\ r.u = s.u
    BY <1>1, <1>3 DEF Shape
  <1>5. /\ m \in Mail /\ q \in Seq(Mail) /\ (Owed(q) => Owed(a.queue))
        /\ (HasSeek(a.queue) => HasSeek(q) \/ m.type = "seek")
        /\ (m.type = "preseek" => HasSeek(q) \/ Owed(a.queue))
    BY <1>1, Popped
  <1> HIDE DEF m, q
  <1>6. Basic(b)
    BY <1>1, <1>2, <1>5 DEF Typed, Basic
  <1>7. Listed(b)
    BY <1>1, <1>2 DEF Typed, Listed
  <1>8. Loading(b)
    BY <1>1, <1>2 DEF Loading, TooBigYet
  <1>9. Sound(r)
    BY <1>1, <1>2, <1>4, <1>5, <1>6, <1>7, <1>8 DEF Sound, Typed
  <1>10. CASE AtRest(s)
    <2>1. AtRest(r)
      BY <1>2, <1>4, <1>9, <1>10 DEF AtRest
    <2>2. Calm(r)
      BY <2>1 DEF AtRest, Calm
    <2>3. QED
      BY <1>1, <1>2, <1>4, <1>5, <2>1, <2>2 DEF m
  <1>11. CASE Fit(s)
    <2>1. Along(b, Off(b))
      <3>1. Along(a, Off(a)) /\ Off(b) = Off(a)
        BY <1>2, <1>11 DEF Fit, AtWork, Off
      <3>2. QED
        BY <1>2, <3>1, AlongSame
    <2>2. AtWork(r)
      BY <1>2, <1>4, <1>9, <1>11, <2>1 DEF Fit, AtWork, Running
    <2>3. m.type # "seek" => Calm(r)
      BY <1>2, <1>4, <1>5, <1>11 DEF Fit, Calm
    <2>4. QED
      BY <1>1, <1>2, <1>4, <1>5, <2>2, <2>3 DEF m
  <1>12. QED
    BY <1>10, <1>11, IdleCases

\* Every message is answered.
LEMMA MessageHolds ==
    ASSUME NEW s, NEW m \in Mail, AtRest(s) \/ AtWork(s), m.type # "seek" => Calm(s),
           m.type = "preseek" => HasSeek(s.a.queue) \/ s.u.hold
    PROVE  Holds(OnMessage(s, m))
  <1> DEFINE r == OnMessage(s, m)
  <1>1. m.type \in MessageTypes
    BY DEF Mail
  <1>2. m.type # "seek" => AtRest(s) \/ Fit(s)
    BY DEF Fit
  <1>3. CASE m.type = "complete"
    <2>1. r = OnComplete(s)
      BY <1>3 DEF OnMessage
    <2>2. QED
      BY <1>2, <1>3, <2>1, OnCompleteHolds
  <1>4. CASE m.type = "seeked"
    <2>1. r = OnSeeked(s)
      BY <1>4 DEF OnMessage
    <2>2. QED
      BY <1>2, <1>4, <2>1, OnSeekedHolds
  <1>5. CASE m.type = "changed"
    <2>1. r = OnChanged(s)
      BY <1>5 DEF OnMessage
    <2>2. QED
      BY <1>2, <1>5, <2>1, OnChangedHolds
  <1>6. CASE m.type = "low"
    <2>1. r = OnLow(s)
      BY <1>6 DEF OnMessage
    <2>2. QED
      BY <1>2, <1>6, <2>1, OnLowHolds
  <1>7. CASE m.type = "rebuffer"
    <2>1. r = OnRebuffer(s)
      BY <1>7 DEF OnMessage
    <2>2. QED
      BY <1>2, <1>7, <2>1, OnLowHolds
  <1>8. CASE m.type = "fill"
    <2>1. r = OnFill(s)
      BY <1>8 DEF OnMessage
    <2>2. QED
      BY <1>2, <1>8, <2>1, OnFillHolds
  <1>9. CASE m.type = "loaded"
    <2>1. r = OnLoaded(s, m.arg)
      BY <1>9 DEF OnMessage
    <2>2. QED
      BY <1>2, <1>9, <2>1, OnLoadedHolds
  <1>10. CASE m.type = "play"
    <2>1. r = OnPlay(s)
      BY <1>10 DEF OnMessage
    <2>2. QED
      BY <1>2, <1>10, <2>1, OnPlayHolds
  <1>11. CASE m.type = "stop"
    <2>1. r = StopPlayback([s EXCEPT !.a.filling = "off"])
      BY <1>11 DEF OnMessage
    <2>2. QED
      BY <1>2, <1>11, <2>1, StopHolds
  <1>12. CASE m.type = "pause"
    <2> DEFINE pause == m.arg = 1
    <2>1. r = OnPause(s, pause)
      BY <1>12 DEF OnMessage
    <2>2. pause \in BOOLEAN
      OBVIOUS
    <2> HIDE DEF pause, r
    <2>3. Holds(r)
      BY <1>2, <1>12, <2>1, <2>2, OnPauseHolds
    <2>4. QED
      BY <2>3 DEF r
  <1>13. CASE m.type = "skip"
    <2>1. r = OnSkip(s)
      BY <1>13 DEF OnMessage
    <2>2. QED
      BY <1>2, <1>13, <2>1, OnSkipHolds
  <1>14. CASE m.type = "dirskip"
    <2>1. r = OnDirSkip(s)
      BY <1>14 DEF OnMessage
    <2>2. QED
      BY <1>2, <1>14, <2>1, OnDirSkipHolds
  <1>15. CASE m.type = "preseek"
    <2>1. r = OnPreSeek(s)
      BY <1>15 DEF OnMessage
    <2>2. QED
      BY <1>2, <1>15, <2>1, OnPreSeekHolds
  <1>16. CASE m.type = "seek"
    <2>1. r = OnSeek(s)
      BY <1>16 DEF OnMessage
    <2>2. QED
      BY <1>16, <2>1, OnSeekHolds
  <1>17. CASE m.type = "flush"
    <2>1. r = OnFlush(s)
      BY <1>17 DEF OnMessage
    <2>2. QED
      BY <1>2, <1>17, <2>1, OnFlushHolds
  <1>18. QED
    BY <1>1, <1>3, <1>4, <1>5, <1>6, <1>7, <1>8, <1>9, <1>10, <1>11, <1>12, <1>13, <1>14,
       <1>15, <1>16, <1>17 DEF MessageTypes

\* A handler that has been right leaves the variables right.
LEMMA BecomesHolds ==
    ASSUME NEW r, Holds(r), audio' = r.a, user' = r.u
    PROVE  IInv'
  <1>1. Shape(r) /\ r.u.skip \in Int
    BY DEF Holds, Sound
  <1> DEFINE x == [a |-> audio', p |-> pcm', c |-> codec', u |-> user']
  <1>2. x.a = r.a /\ x.u = r.u /\ DOMAIN x = {"a", "p", "c", "u"}
    OBVIOUS
  <1> HIDE DEF x
  <1>3. Shape(x)
    BY <1>1, <1>2 DEF Shape
  <1>4. Holds(x)
    BY <1>1, <1>2, <1>3, NotedOnly
  <1>5. QED
    BY <1>4 DEF x, IInv, State

\* The audio thread takes a message.
LEMMA HandleHolds == ASSUME IInv, Handle PROVE IInv'
  <1> DEFINE z == State
             m == Head(audio.queue)
             s == [z EXCEPT !.a.queue = Tail(@)]
             r == IF audio.filling = "off" /\ m.type # "play" THEN s ELSE OnMessage(s, m)
  <1>1. /\ audio.next = "idle" /\ audio.queue # <<>> /\ audio' = r.a /\ user' = r.u
    BY DEF Handle, Becomes
  <1>2. Holds(z) /\ z.a = audio /\ z.a.queue = audio.queue
    BY DEF IInv, State
  <1> HIDE DEF z
  <1>3. /\ m \in Mail /\ (AtRest(s) \/ AtWork(s)) /\ (m.type # "seek" => Calm(s))
        /\ (m.type = "preseek" => HasSeek(s.a.queue) \/ s.u.hold)
        /\ s.a.next = "idle" /\ s.a.filling = audio.filling
    BY <1>1, <1>2, TakenCases
  <1> HIDE DEF s, m
  <1>4. Holds(OnMessage(s, m))
    BY <1>3, MessageHolds
  <1>5. audio.filling = "off" => Holds(s)
    <2>1. audio.filling = "off" => ~AtWork(s)
      BY <1>3 DEF AtWork, Running
    <2>2. QED
      BY <1>3, <2>1, WhenHolds
  <1>6. Holds(r)
    BY <1>4, <1>5
  <1> HIDE DEF r
  <1>7. QED
    BY <1>1, <1>6, BecomesHolds

\* A track change the mixer has reported is taken in.
LEMMA ScanHolds == ASSUME IInv, Scan PROVE IInv'
  <1> DEFINE z == State
             s == [z EXCEPT !.p.posts = @ - 1]
             r == OnChanged(s)
  <1>1. audio.next = "idle" /\ audio' = r.a /\ user' = r.u
    BY DEF Scan, Becomes
  <1>2. Holds(z) /\ z.a = audio /\ Shape(z)
    BY DEF IInv, State, Holds, Sound
  <1>3. s.a = z.a /\ s.u = z.u /\ DOMAIN s = {"a", "p", "c", "u"}
    BY <1>2 DEF Shape
  <1> HIDE DEF s, z
  <1>4. Shape(s) /\ s.u.skip \in Int
    BY <1>2, <1>3 DEF Shape, Holds, Sound
  <1>5. Holds(s)
    BY <1>2, <1>3, <1>4, NotedOnly
  <1>6. Holds(r)
    BY <1>1, <1>2, <1>3, <1>5, IdleCases, OnChangedHolds
  <1> HIDE DEF r
  <1>7. QED
    BY <1>1, <1>6, BecomesHolds

\* The codec thread has answered.
LEMMA ContinueHolds == ASSUME IInv, Continue PROVE IInv'
  <1> DEFINE s == State
  <1>1. Holds(s) /\ s.a = audio /\ audio.next \in Places /\ audio.next # "idle"
    BY DEF IInv, State, Holds, Continue
  <1>2. /\ audio.next = "unload" => Becomes(Unload(s))
        /\ audio.next = "load" => Becomes(LoadCodec(s))
        /\ audio.next = "loaded" => Becomes(Loaded(s))
        /\ audio.next = "went" => Becomes(Went(s))
        /\ audio.next = "stop2" => Becomes(Stop2(s))
        /\ audio.next = "stop3" => Becomes(Stop3(s))
        /\ audio.next = "stop4" => Becomes(Stop4(s))
        /\ audio.next = "play2" => Becomes(Play2(s))
        /\ audio.next = "restart2" => Becomes(Restart2(s))
        /\ audio.next = "skip2" => Becomes(Skip2(s))
        /\ audio.next = "dir2" => Becomes(Dir2(s))
        /\ audio.next = "seek2" => Becomes(Seek2(s))
    BY DEF Continue
  <1> HIDE DEF s
  <1>3. ASSUME NEW r, Holds(r), Becomes(r) PROVE IInv'
    BY <1>3, BecomesHolds DEF Becomes
  <1>4. CASE audio.next \in {"unload", "load", "loaded", "went"}
    <2>1. Fit(s) /\ Formed(s)
      BY <1>1, <1>4, IdleCases, FormedSound DEF Fit, AtWork, Running
    <2>2. /\ Handled(s, Unload(s)) /\ Handled(s, LoadCodec(s))
          /\ Handled(s, Loaded(s)) /\ Handled(s, Went(s))
      BY <2>1, GoKeeps, LoadedKeeps
    <2>3. Holds(Unload(s)) /\ Holds(LoadCodec(s)) /\ Holds(Loaded(s)) /\ Holds(Went(s))
      BY <2>1, <2>2, HandledHolds
    <2>4. QED
      BY <1>2, <1>3, <1>4, <2>3
  <1>5. CASE audio.next \in Stopping
    <2>1. Sound(s) /\ s.a.status # "stopped"
      BY <1>1, <1>5, IdleCases
    <2>2. Holds(Stop2(s)) /\ Holds(Stop3(s)) /\ Holds(Stop4(s))
      BY <2>1, StoppingHolds
    <2>3. audio.next \in {"stop2", "stop3", "stop4"}
      BY <1>5 DEF Stopping
    <2>4. QED
      BY <1>2, <1>3, <2>2, <2>3
  <1>6. CASE audio.next \in {"play2", "restart2", "skip2", "dir2", "seek2"}
    <2>1. audio.next \in Halting \ Stopping
      BY <1>6 DEF Halting, Stopping
    <2>2. AtWork(s)
      BY <1>1, <2>1, IdleCases
    <2>3. /\ Holds(Play2(s)) /\ Holds(Restart2(s)) /\ Holds(Skip2(s)) /\ Holds(Dir2(s))
          /\ Holds(Seek2(s))
      BY <2>2, PlayAgainHolds, Skip2Holds, Dir2Holds, Seek2Holds
    <2>4. QED
      BY <1>2, <1>3, <1>6, <2>3
  <1>7. QED
    BY <1>1, <1>4, <1>5, <1>6 DEF Places, Stopping

-------------------------------------------------------------------------------
(* The codec thread, the buffering thread and the user.                      *)

\* What the variables are is well formed.
LEMMA StateFormed ==
    ASSUME IInv
    PROVE  /\ Holds(State) /\ Sound(State) /\ Formed(State) /\ State.a = audio
           /\ State.u = user /\ Typed(audio) /\ audio.queue \in Seq(Mail)
           /\ DOMAIN audio = AudioFields /\ DOMAIN user = UserFields /\ user.skip \in Int
           /\ (Owed(audio.queue) => user.hold)
  <1>1. State.a = audio /\ State.u = user
    BY DEF State
  <1>2. Holds(State) /\ Sound(State)
    BY DEF IInv, Holds
  <1>3. Formed(State)
    BY <1>2, FormedSound
  <1>4. QED
    BY <1>1, <1>2, <1>3 DEF Sound, Typed, Basic, Shape

\* The answer to a message, or none.
LEMMA ReplyKeeps ==
    ASSUME IInv, NEW ok, NEW b \in {audio, Reply(ok)}
    PROVE  LET r == [State EXCEPT !.a = b]
           IN  Holds(r) /\ Formed(r) /\ r.a = b /\ r.u = user
  <1> DEFINE z == State
             y == [audio EXCEPT !.wait = FALSE, !.res = ok]
             r == [z EXCEPT !.a = b]
  <1>1. Holds(z) /\ Formed(z) /\ z.a = audio /\ z.u = user /\ DOMAIN audio = AudioFields
    BY StateFormed
  <1> HIDE DEF z
  <1>2. Shape(r) /\ r.a = b /\ r.u = user
    BY <1>1, Replaced, SMTT(30) DEF Formed
  <1>3. DOMAIN y = AudioFields /\ Alike(audio, y) /\ y.seeking = audio.seeking
        /\ y.next = audio.next
    BY <1>1, AddsNothing DEF Alike, AudioFields
  <1>4. Alike(audio, audio)
    BY <1>1, AddsNothing DEF Alike
  <1>5. b = audio \/ b = y
    BY DEF Reply
  <1> HIDE DEF r, y
  <1>6. Steady(z, r) /\ r.a.next = z.a.next
    BY <1>1, <1>2, <1>3, <1>4, <1>5 DEF Steady, Quiet, Formed, Alike
  <1>7. Holds(r)
    BY <1>1, <1>6, SteadyHolds
  <1>8. QED
    BY <1>2, <1>6, <1>7 DEF Steady, Quiet, r, z

\* An answer of the codec thread that finds nothing to do keeps the invariant.
LEMMA ReplyHolds ==
    ASSUME IInv, NEW ok, audio' \in {audio, Reply(ok)}, user' = user
    PROVE  IInv'
  <1> DEFINE r == [State EXCEPT !.a = audio']
  <1>1. Holds(r) /\ r.a = audio' /\ r.u = user
    BY ReplyKeeps
  <1> HIDE DEF r
  <1>2. QED
    BY <1>1, BecomesHolds

\* A message is posted, with an answer or without one.
LEMMA PostedHolds ==
    ASSUME IInv, NEW ok, NEW b \in {audio, Reply(ok)},
           NEW type \in MessageTypes \ {"preseek"}, NEW arg \in Nat,
           audio' = Post(b, type, arg), user'.hold = user.hold, user'.skip \in Int,
           DOMAIN user' = UserFields
    PROVE  IInv'
  <1> DEFINE z == [State EXCEPT !.a = b]
             r == PostTo(z, type, arg)
             x == [a |-> audio', p |-> pcm', c |-> codec', u |-> user']
  <1>1. Holds(z) /\ Formed(z) /\ z.a = b /\ z.u = user
    BY ReplyKeeps
  <1> HIDE DEF z
  <1>2. Steady(z, r) /\ r.a.next = z.a.next
    BY <1>1, PostToKeeps
  <1>3. Holds(r)
    BY <1>1, <1>2, SteadyHolds
  <1>4. r.a = audio' /\ r.u = user
    BY <1>1, Replaced DEF PostTo, Formed
  <1> HIDE DEF r
  <1>5. x.a = r.a /\ x.u = user' /\ DOMAIN x = {"a", "p", "c", "u"}
    BY <1>4
  <1> HIDE DEF x
  <1>6. Shape(x)
    BY <1>5 DEF Shape
  <1>7. Holds(x)
    BY <1>3, <1>4, <1>5, <1>6, NotedOnly
  <1>8. QED
    BY <1>7 DEF x, IInv, State

\* The codec thread's messages, with nothing done by the user.
LEMMA SaidHolds ==
    ASSUME IInv, NEW ok, NEW b \in {audio, Reply(ok)}, user' = user,
           audio' = Post(b, "complete", 0) \/ audio' = Post(b, "seeked", 0)
    PROVE  IInv'
  <1>1. user'.hold = user.hold /\ user'.skip \in Int /\ DOMAIN user' = UserFields
    BY StateFormed
  <1>2. "complete" \in MessageTypes \ {"preseek"} /\ "seeked" \in MessageTypes \ {"preseek"}
        /\ 0 \in Nat
    BY DEF MessageTypes
  <1>3. CASE audio' = Post(b, "complete", 0)
    BY <1>1, <1>2, <1>3, PostedHolds
  <1>4. CASE audio' = Post(b, "seeked", 0)
    BY <1>1, <1>2, <1>4, PostedHolds
  <1>5. QED
    BY <1>3, <1>4

\* The codec thread's steps
LEMMA CodecHolds == ASSUME IInv, Codec PROVE IInv'
  <1>1. \A ok : audio \in {audio, Reply(ok)} /\ Reply(ok) \in {audio, Reply(ok)}
    OBVIOUS
  <1>2. CASE CodecEnds
    <2>1. user' = user /\ audio' = Post(audio, "complete", 0)
      BY <1>2 DEF CodecEnds
    <2>2. QED
      BY <1>1, <2>1, SaidHolds
  <1>3. CASE CodecMain
    <2>1. user' = user
      BY <1>3 DEF CodecMain
    <2>2. \/ \E ok : audio' \in {audio, Reply(ok)}
          \/ \E ok : \E b \in {audio, Reply(ok)} : audio' = Post(b, "seeked", 0)
      BY <1>3 DEF CodecMain, Answered
    <2>3. QED
      BY <2>1, <2>2, ReplyHolds, SaidHolds
  <1>4. CASE GetCommand
    <2>1. user' = user
      BY <1>4 DEF GetCommand
    <2>2. \E ok : audio' \in {audio, Reply(ok)}
      BY <1>4 DEF GetCommand, Answered
    <2>3. QED
      BY <2>1, <2>2, ReplyHolds
  <1>5. CASE Decode
    <2>1. user' = user /\ \E ok : audio' \in {audio, Reply(ok)}
      BY <1>5 DEF Decode
    <2>2. QED
      BY <2>1, ReplyHolds
  <1>6. CASE Seek
    <2>1. user' = user
      BY <1>6 DEF Seek
    <2>2. (\E ok : audio' \in {audio, Reply(ok)}) \/ audio' = Post(audio, "seeked", 0)
      BY <1>6 DEF Seek
    <2>3. QED
      BY <1>1, <2>1, <2>2, ReplyHolds, SaidHolds
  <1>7. CASE Seeked
    <2>1. user' = user
      BY <1>7 DEF Seeked
    <2>2. \E ok : audio' \in {audio, Reply(ok)}
      BY <1>7 DEF Seeked
    <2>3. QED
      BY <2>1, <2>2, ReplyHolds
  <1>8. QED
    BY <1>2, <1>3, <1>4, <1>5, <1>6, <1>7 DEF Codec

\* The mixer's interrupt
LEMMA PlayHolds == ASSUME IInv, Play PROVE IInv'
  <1>1. user' = user /\ \E ok : audio' \in {audio, Reply(ok)}
    BY DEF Play
  <1>2. QED
    BY <1>1, ReplyHolds

\* The user's messages: a skip is counted, a key is left as it is.
LEMMA AskedHolds ==
    ASSUME IInv, NEW type \in MessageTypes \ {"preseek"}, NEW arg \in Nat,
           audio' = Post(audio, type, arg), user' = Spend
    PROVE  IInv'
  <1>1. user'.hold = user.hold /\ user'.skip = user.skip /\ DOMAIN user' = UserFields
        /\ user.skip \in Int
    BY StateFormed DEF Spend, UserFields
  <1>2. \E ok : audio \in {audio, Reply(ok)}
    OBVIOUS
  <1>3. QED
    BY <1>1, <1>2, PostedHolds

\* The metadata of the track being loaded is read.
LEMMA MetadataHolds == ASSUME IInv, MetadataRead PROVE IInv'
  <1> DEFINE n == Len(audio.list)
             e == [audio.list[n] EXCEPT !.meta = TRUE]
             l == [audio.list EXCEPT ![n] = e]
             b == [audio EXCEPT !.list = l]
             z == State
             y == [z EXCEPT !.a = b]
             r == PostTo(y, "loaded", audio.loading)
  <1>1. /\ audio.loading # 0 /\ ~audio.list[n].meta /\ audio.list[n].id = audio.loading
        /\ user' = user /\ audio' = Post([audio EXCEPT !.list[n].meta = TRUE],
                                         "loaded", audio.loading)
    BY DEF MetadataRead
  <1>2. /\ Holds(z) /\ Formed(z) /\ z.a = audio /\ z.u = user /\ DOMAIN audio = AudioFields
        /\ Typed(audio) /\ Loading(audio)
    BY StateFormed DEF Sound
  <1>3. /\ audio.list \in Seq(Entries) /\ Len(audio.list) \in Nat
        /\ audio.list # <<>> /\ audio.loading \in Nat
    BY <1>1, <1>2 DEF Typed, Listed
  <1>4. n \in DOMAIN audio.list /\ audio.list[n] \in Entries /\ n \in Nat
    BY <1>3
  <1>5. /\ e \in Entries /\ e.track = audio.list[n].track /\ e.id = audio.list[n].id
        /\ e.ready = audio.list[n].ready
    BY <1>4 DEF Entries
  <1>6. [audio EXCEPT !.list[n].meta = TRUE] = b
    BY <1>2
  <1> HIDE DEF e
  <1>7. /\ l \in Seq(Entries) /\ Len(l) = n /\ DOMAIN l = DOMAIN audio.list /\ l # <<>>
        /\ l[n] = e /\ \A i \in DOMAIN audio.list : i # n => l[i] = audio.list[i]
    BY <1>3, <1>4, <1>5
  <1> HIDE DEF l
  <1>8. /\ DOMAIN b = AudioFields /\ b.pl = audio.pl /\ b.skipped = audio.skipped
        /\ b.peek = audio.peek /\ b.list = l /\ b.cur = audio.cur /\ b.delta = audio.delta
        /\ b.loading = audio.loading /\ b.filling = audio.filling /\ b.skip = audio.skip
        /\ b.queue = audio.queue /\ b.status = audio.status /\ b.ffrw = audio.ffrw
        /\ b.seeking = audio.seeking /\ b.next = audio.next
    BY <1>2 DEF AudioFields
  <1> HIDE DEF n, b
  <1>9. \A i \in DOMAIN audio.list : /\ l[i].track = audio.list[i].track
                                     /\ l[i].id = audio.list[i].id
                                     /\ l[i].ready = audio.list[i].ready
    BY <1>5, <1>7
  <1> HIDE DEF z
  <1>11. Basic(b)
    BY <1>2, <1>8 DEF Typed, Basic
  <1>12. Listed(b)
    <2>1. /\ b.list \in Seq(Entries) /\ b.loading \in Nat /\ Len(b.list) = Len(audio.list)
          /\ b.cur \in 0 .. Len(b.list) /\ (b.cur = 0 <=> b.list = <<>>)
      BY <1>2, <1>3, <1>7, <1>8 DEF Typed, Listed, n
    <2>2. \A i, j \in DOMAIN b.list : b.list[i].id = b.list[j].id => i = j
      BY <1>2, <1>7, <1>8, <1>9 DEF Typed, Listed
    <2>3. b.list[Len(b.list)].id = b.loading
      BY <1>1, <1>4, <1>7, <1>8, <1>9
    <2>4. \A i \in DOMAIN b.list : b.list[i].id = b.loading => ~b.list[i].ready
      BY <1>2, <1>7, <1>8, <1>9 DEF Typed, Listed
    <2>5. QED
      BY <1>7, <1>8, <2>1, <2>2, <2>3, <2>4 DEF Listed
  <1>13. Loading(b)
    <2>1. audio.filling # "full"
      BY <1>1, <1>2 DEF Loading, TooBigYet, n
    <2>2. Len(b.list) = Len(audio.list)
      BY <1>7, <1>8 DEF n
    <2>3. QED
      BY <1>1, <1>2, <1>8, <2>1, <2>2 DEF Loading
  <1>14. ASSUME NEW off, Along(audio, off) PROVE Along(b, off)
    <2>1. Left(b) = Left(audio) /\ \A t : \A j : StepsOn(b, t, j) <=> StepsOn(audio, t, j)
      BY <1>8 DEF Left, StepsOn
    <2>2. Len(b.list) = Len(audio.list) /\ DOMAIN b.list = DOMAIN audio.list
          /\ b.list # <<>>
      BY <1>7, <1>8 DEF n
    <2>3. QED
      BY <1>3, <1>8, <1>9, <1>14, <2>1, <2>2 DEF Along
  <1>15. Shape(y) /\ y.a = b /\ y.u = user
    BY <1>2, Replaced DEF Formed
  <1>16. Holds(y)
    <2>1. Sound(y)
      BY <1>2, <1>8, <1>11, <1>12, <1>13, <1>15 DEF Holds, Sound, Typed
    <2>2. Calm(z) => Calm(y)
      BY <1>2, <1>8, <1>15 DEF Calm
    <2>3. Off(b) = Off(audio)
      BY <1>8 DEF Off
    <2>4. audio.status # "stopped"
      BY <1>2, <1>3 DEF Holds
    <2>5. QED
      BY <1>2, <1>8, <1>14, <1>15, <2>1, <2>2, <2>3, <2>4 DEF Holds
  <1> HIDE DEF y
  <1>17. Formed(y) /\ "loaded" \in MessageTypes \ {"preseek"}
    BY <1>8, <1>15 DEF Formed, MessageTypes
  <1>18. Steady(y, r) /\ r.a.next = y.a.next
    BY <1>3, <1>17, PostToKeeps
  <1>19. Holds(r)
    BY <1>16, <1>18, SteadyHolds
  <1>20. r.a = audio' /\ r.u = user'
    <2>1. r.a = Post(b, "loaded", audio.loading) /\ r.u = user
      BY <1>15, Replaced DEF PostTo
    <2>2. audio' = Post(b, "loaded", audio.loading)
      BY <1>1, <1>6
    <2>3. QED
      BY <1>1, <2>1, <2>2
  <1> HIDE DEF r
  <1>21. QED
    BY <1>19, <1>20, BecomesHolds

\* audio_skip: a skip not begun yet gives way to the new message.
LEMMA SkipHolds ==
    ASSUME IInv, NEW cmd, NEW d \in Int, Skip(cmd, d)
    PROVE  IInv'
  <1> DEFINE q == audio.queue
             rest == IF q # <<>> /\ Head(q).type = "skip" THEN Tail(q) ELSE q
             b == [audio EXCEPT !.queue = rest]
             z == State
             y == [z EXCEPT !.a = b]
             r == PostTo(y, "skip", 0)
             x == [a |-> audio', p |-> pcm', c |-> codec', u |-> user']
  <1>1. audio' = Post(b, "skip", 0) /\ user' = [Spend EXCEPT !.skip = @ + d]
    BY DEF Skip
  <1>2. /\ Holds(z) /\ Formed(z) /\ z.a = audio /\ z.u = user /\ q \in Seq(Mail)
        /\ DOMAIN audio = AudioFields /\ DOMAIN user = UserFields /\ user.skip \in Int
    BY StateFormed
  <1> HIDE DEF z
  <1>3. DOMAIN user' = UserFields /\ user'.hold = user.hold /\ user'.skip = user.skip + d
    BY <1>1, <1>2 DEF Spend, UserFields
  <1>4. user'.skip \in Int
    BY <1>2, <1>3, SMT
  <1>5. Adds(q, rest)
    <2>1. CASE q # <<>> /\ Head(q).type = "skip"
      BY <1>2, <2>1, Popped DEF Adds
    <2>2. CASE ~(q # <<>> /\ Head(q).type = "skip")
      BY <2>2, AddsNothing
    <2>3. QED
      BY <2>1, <2>2
  <1> HIDE DEF rest
  <1>6. Alike(audio, b) /\ b.seeking = audio.seeking /\ b.next = audio.next
    BY <1>2, <1>5 DEF Alike, AudioFields
  <1>7. Shape(y) /\ y.a = b /\ y.u = user
    BY <1>2, Replaced DEF Formed
  <1> HIDE DEF y, b
  <1>8. Steady(z, y) /\ y.a.next = z.a.next /\ Formed(y)
    BY <1>2, <1>6, <1>7 DEF Steady, Quiet, Formed, Alike
  <1>9. Holds(y)
    BY <1>2, <1>8, SteadyHolds
  <1>10. "skip" \in MessageTypes \ {"preseek"} /\ 0 \in Nat
    BY DEF MessageTypes
  <1>11. Steady(y, r) /\ r.a.next = y.a.next
    BY <1>8, <1>10, PostToKeeps
  <1>12. Holds(r)
    BY <1>9, <1>11, SteadyHolds
  <1>13. r.a = audio' /\ r.u = user
    BY <1>1, <1>7, Replaced DEF PostTo
  <1> HIDE DEF r
  <1>14. x.a = r.a /\ x.u = user' /\ DOMAIN x = {"a", "p", "c", "u"}
    BY <1>13
  <1> HIDE DEF x
  <1>15. Shape(x)
    BY <1>3, <1>14 DEF Shape
  <1>16. Holds(x)
    BY <1>3, <1>4, <1>12, <1>13, <1>14, <1>15, NotedOnly
  <1>17. QED
    BY <1>16 DEF x, IInv, State

\* A seek key is pressed or let go.
LEMMA KeysHold ==
    ASSUME IInv, NEW type \in {"preseek", "seek"}, audio' = Post(audio, type, 0),
           DOMAIN user' = UserFields, user'.skip = user.skip,
           type = "preseek" => user'.hold = TRUE
    PROVE  IInv'
  <1> DEFINE m == [type |-> type, arg |-> 0]
             q == Append(audio.queue, m)
             z == State
             x == [a |-> audio', p |-> pcm', c |-> codec', u |-> user']
  <1>1. /\ Holds(z) /\ z.a = audio /\ audio.queue \in Seq(Mail)
        /\ DOMAIN audio = AudioFields /\ user.skip \in Int
    BY StateFormed
  <1> HIDE DEF z
  <1>2. m \in Mail /\ m.type = type
    BY DEF Mail, MessageTypes
  <1>3. audio' = [audio EXCEPT !.queue = q]
    BY <1>1 DEF Post, AudioFields
  <1> HIDE DEF m
  <1>4. /\ q \in Seq(Mail)
        /\ type = "seek" => HasSeek(q) /\ ~Owed(q)
    BY <1>1, <1>2, Posted
  <1>5. (Owed(q) => user'.hold) /\ (user'.hold \/ HasSeek(q))
    BY <1>4
  <1>6. x.a = audio' /\ x.u = user' /\ DOMAIN x = {"a", "p", "c", "u"}
    OBVIOUS
  <1> HIDE DEF x, q
  <1>7. Shape(x)
    BY <1>6 DEF Shape
  <1>8. Holds(x)
    <2>1. x.a = [z.a EXCEPT !.queue = q]
      BY <1>1, <1>3, <1>6
    <2>2. x.u.skip \in Int /\ (Owed(q) => x.u.hold) /\ (x.u.hold \/ HasSeek(q))
      BY <1>1, <1>5, <1>6
    <2>3. QED
      BY <1>1, <1>4, <1>7, <2>1, <2>2, KeyHolds
  <1>9. QED
    BY <1>8 DEF x, IInv, State

\* What the user does
LEMMA UserHolds == ASSUME IInv, User PROVE IInv'
  <1>1. DOMAIN user = UserFields
    BY StateFormed
  <1>2. {"seek", "pause", "flush", "dirskip", "stop", "play", "low", "rebuffer"}
          \subseteq MessageTypes \ {"preseek"} /\ 0 \in Nat
    BY DEF MessageTypes
  <1>3. CASE Skip("next", 1) \/ Skip("prev", -1)
    <2>1. 1 \in Int /\ -1 \in Int
      BY SMT
    <2>2. CASE Skip("next", 1)
      BY <2>1, <2>2, SkipHolds
    <2>3. CASE Skip("prev", -1)
      BY <2>1, <2>3, SkipHolds
    <2>4. QED
      BY <1>3, <2>2, <2>3
  <1>4. CASE SeekTo
    <2>1. user' = Spend /\ audio' = Post(audio, "seek", 0)
      BY <1>4 DEF SeekTo
    <2>2. QED
      BY <1>2, <2>1, AskedHolds
  <1>5. CASE HoldSeek
    <2>1. user' = [Spend EXCEPT !.hold = TRUE] /\ audio' = Post(audio, "preseek", 0)
      BY <1>5 DEF HoldSeek
    <2>2. DOMAIN user' = UserFields /\ user'.skip = user.skip /\ user'.hold = TRUE
      BY <1>1, <2>1 DEF Spend, UserFields
    <2>3. QED
      BY <2>1, <2>2, KeysHold
  <1>6. CASE ReleaseSeek
    <2>1. user' = [user EXCEPT !.hold = FALSE] /\ audio' = Post(audio, "seek", 0)
      BY <1>6 DEF ReleaseSeek
    <2>2. DOMAIN user' = UserFields /\ user'.skip = user.skip
      BY <1>1, <2>1 DEF UserFields
    <2>3. QED
      BY <2>1, <2>2, KeysHold
  <1>7. CASE Pause
    <2>1. user' = Spend /\ \E b \in Nat : audio' = Post(audio, "pause", b)
      BY <1>7 DEF Pause
    <2>2. QED
      BY <1>2, <2>1, AskedHolds
  <1>8. CASE \/ Simple("flush", "flush") \/ Simple("nextdir", "dirskip")
             \/ Simple("stop", "stop") \/ Simple("play", "play")
    <2>1. /\ user' = Spend
          /\ \E type \in {"flush", "dirskip", "stop", "play"} : audio' = Post(audio, type, 0)
      BY <1>8 DEF Simple
    <2>2. QED
      BY <1>2, <2>1, AskedHolds
  <1>9. QED
    BY <1>3, <1>4, <1>5, <1>6, <1>7, <1>8 DEF User

\* The buffering thread asks for more data or for room.
LEMMA PleaHolds == ASSUME IInv, NEW type \in {"low", "rebuffer"}, Plea(type) PROVE IInv'
  <1>1. user' = Spend /\ audio' = Post(audio, type, 0)
    BY DEF Plea
  <1>2. type \in MessageTypes \ {"preseek"} /\ 0 \in Nat
    BY DEF MessageTypes
  <1>3. QED
    BY <1>1, <1>2, AskedHolds

\* Every step keeps the invariant.
LEMMA StepHolds == IInv /\ [Next]_vars => IInv'
  <1> SUFFICES ASSUME IInv, [Next]_vars PROVE IInv'
    OBVIOUS
  <1>1. CASE Audio
    BY <1>1, HandleHolds, ScanHolds, ContinueHolds DEF Audio
  <1>2. CASE Codec
    BY <1>2, CodecHolds
  <1>3. CASE Play
    BY <1>3, PlayHolds
  <1>4. CASE MetadataRead
    BY <1>4, MetadataHolds
  <1>5. CASE Plea("low") \/ Plea("rebuffer")
    BY <1>5, PleaHolds
  <1>6. CASE User
    BY <1>6, UserHolds
  <1>7. CASE UNCHANGED vars
    BY <1>7 DEF vars, IInv, State
  <1>8. QED
    BY <1>1, <1>2, <1>3, <1>4, <1>5, <1>6, <1>7 DEF Next

\* Playback starts stopped, with the message that starts it in the queue.
LEMMA InitHolds == Init => IInv
  <1> SUFFICES ASSUME Init PROVE IInv
    OBVIOUS
  <1> DEFINE m == [type |-> "play", arg |-> 0]
             s == State
  <1>1. /\ s.a = audio /\ s.u = user /\ DOMAIN s = {"a", "p", "c", "u"}
    BY DEF State
  <1>2. /\ DOMAIN audio = AudioFields /\ audio.pl = 1 /\ audio.skipped = {}
        /\ audio.peek = -1 /\ audio.list = <<>> /\ audio.cur = 0 /\ audio.loading = 0
        /\ audio.filling = "off" /\ audio.skip = "none" /\ audio.status = "stopped"
        /\ audio.queue = <<m>> /\ audio.next = "idle" /\ audio.delta = 0
        /\ audio.ffrw = FALSE
    BY DEF Init, AudioFields
  <1>3. DOMAIN user = UserFields /\ user.skip = 0
    BY DEF Init, UserFields
  <1> HIDE DEF s
  <1>4. 1 \in Int /\ -1 \in Int /\ 0 \in Int /\ 0 \in Nat
    BY SMT
  <1>5. m \in Mail /\ m.type = "play"
    BY DEF Mail, MessageTypes
  <1> HIDE DEF m
  <1>6. <<m>> \in Seq(Mail) /\ ~Owed(<<m>>)
    BY <1>5 DEF Owed
  <1>7. Basic(audio)
    BY <1>2, <1>4, <1>6 DEF Basic
  <1>8. Listed(audio)
    <2>1. <<>> \in Seq(Entries) /\ Len(<<>>) = 0 /\ DOMAIN <<>> = {} /\ 0 \in 0 .. 0
      OBVIOUS
    <2>2. QED
      BY <1>2, <1>4, <2>1 DEF Listed
  <1>9. Loading(audio)
    BY <1>2 DEF Loading
  <1>10. Sound(s)
    BY <1>1, <1>2, <1>3, <1>4, <1>6, <1>7, <1>8, <1>9 DEF Sound, Shape, Typed
  <1>11. AtRest(s)
    BY <1>1, <1>2, <1>10 DEF AtRest
  <1>12. QED
    BY <1>1, <1>2, <1>11, WhenHolds DEF s, IInv

\* The current track is the one the playlist names.
LEMMA HoldsSkipLands == IInv => SkipLands
  <1> SUFFICES ASSUME IInv, Idle, HasCurrent(audio)
               PROVE  Current(audio).track = Peek(audio, IF audio.skip = "auto" THEN 1 ELSE 0)
    BY DEF SkipLands
  <1> DEFINE s == State
             i == audio.cur
             n == Len(audio.list)
             p == audio.peek
             k == Off(audio)
             t == audio.list[i].track
  <1>1. Holds(s) /\ s.a = audio /\ Typed(audio)
    BY StateFormed
  <1>2. audio.cur # 0 /\ audio.next = "idle"
    BY DEF Idle, HasCurrent
  <1>3. /\ audio.list # <<>> /\ audio.cur \in 0 .. n /\ n \in Nat /\ n = Len(audio.list)
        /\ audio.pl \in Int /\ p \in Int /\ DOMAIN audio.list = 1 .. n
    BY <1>1, <1>2 DEF Typed, Basic, Listed
  <1>4. AtWork(s)
    BY <1>1, <1>2, <1>3, IdleCases DEF AtRest, Fit
  <1>5. /\ \A j \in DOMAIN audio.list : StepsOn(audio, audio.list[j].track, p - n + j)
        /\ p - n + i = k
    BY <1>1, <1>3, <1>4 DEF AtWork, Along
  <1>6. i \in DOMAIN audio.list
    BY <1>2, <1>3
  <1>7. StepsOn(audio, t, k)
    BY <1>5, <1>6
  <1>8. k \in Int /\ k >= 0 /\ k = IF audio.skip = "auto" THEN 1 ELSE 0
    BY OffFacts DEF Off
  <1> HIDE DEF k, t
  <1>9. Peek(audio, k) = t
    BY <1>3, <1>7, <1>8, PeekFacts
  <1>10. QED
    BY <1>8, <1>9 DEF t, Current

\* Seek mode has a cause.
LEMMA HoldsSeekModeEnds == IInv => SeekModeEnds
  <1> SUFFICES ASSUME IInv, Idle, audio.ffrw, ~user.hold, Messages("seek") = {}
               PROVE  audio.seeking
    BY DEF SeekModeEnds
  <1>1. Holds(State) /\ State.a = audio /\ State.u = user
    BY StateFormed
  <1>2. audio.next \notin Halting
    BY DEF Idle, Halting, Stopping
  <1>3. Calm(State)
    BY <1>1, <1>2 DEF Holds
  <1>4. ~HasSeek(audio.queue)
    BY DEF HasSeek, Messages, ToSet
  <1>5. QED
    BY <1>1, <1>3, <1>4 DEF Calm

\* The engine's books are kept in every state that can be reached.
THEOREM IInvAlways == Spec => []IInv
  <1>1. QED
    BY InitHolds, StepHolds, PTL DEF Spec

\* SkipLands: whatever skips, pleas and failed loads come while a change is
\* pending, the track to decode is the one the playlist names, for any
\* playlist, directories, room in the buffer and tracks that cannot be read.
THEOREM SkipLandsAlways == Spec => []SkipLands
  <1>1. QED
    BY IInvAlways, HoldsSkipLands, PTL

\* SeekModeEnds: the output is silenced for a seek only while a key is held, a
\* seek is on its way or the codec seeks.
THEOREM SeekModeEndsAlways == Spec => []SeekModeEnds
  <1>1. QED
    BY IInvAlways, HoldsSeekModeEnds, PTL
===============================================================================
