-------------------------------- MODULE Playlist --------------------------------
(***************************************************************************)
(* The current playlist of apps/playlist.c and its control file.  Every    *)
(* change of the list appends a command to the file; playlist_resume       *)
(* builds the list again by applying the commands to an empty one.  The    *)
(* list is an array that begins, as seen by the user, at first_index.      *)
(*                                                                         *)
(* As playlist_resume takes the commands one by one, the file is modelled  *)
(* by what it would build from it: file is that of all the commands        *)
(* written, disk that of the commands before the last fsync, which is all  *)
(* that a loss of power leaves.                                            *)
(*                                                                         *)
(* The playlist is one that was made on the player (a directory, the       *)
(* database): it has no playlist file, and all tracks have come by A and Q *)
(* commands.  What the list keeps of a track is the place of its name in   *)
(* the control file (seek), and whether it is queued.                      *)
(*                                                                         *)
(* \E x \in {e} and \A x \in {e} give a value that is used often a name.   *)
(***************************************************************************)
EXTENDS Integers, Sequences, FiniteSets, SequencesExt

CONSTANTS
    MaxAmount,   \* max_playlist_size
    MaxSeek,     \* how many names the control file has room for
    Seeds,       \* seeds of srand
    Perm,        \* Perm[seed][n]: how n places are rearranged with that seed
    Steps,       \* by how many tracks playlist_next goes on
    Lapses       \* calls that break the promises: "gap", "reshuffle", "repeat",
                 \* "unstarted"; empty when the promises are checked

ASSUME PlaylistAssumption ==
    /\ MaxAmount \in Nat \ {0} /\ MaxSeek \in Nat \ {0} /\ Steps \subseteq Int
    /\ \A s \in Seeds, n \in 1 .. MaxAmount :
          Perm[s][n] \in [1 .. n -> 1 .. n] /\ IsInjective(Perm[s][n])

VARIABLES
    playlist,    \* current_playlist: list, index, first, last, started
    file, disk   \* what playlist_resume would build: list, first, last, sorted

vars == <<playlist, file, disk>>

\* The special positions of add_track_to_playlist_unlocked; places count from 0.
PREPEND == -1
INSERT == -2
INSERT_LAST == -3
INSERT_FIRST == -4
INSERT_SHUFFLED == -5
INSERT_LAST_ROTATED == -8

Entries(p) == ToSet(p.list)
Amount(p) == Len(p.list)
At(p, i) == p.list[i + 1]
HasCurrent(p) == p.index \in 0 .. Amount(p) - 1
Current(p) == At(p, p.index)
PlaceOf(s, e) == CHOOSE i \in DOMAIN s : s[i] = e

\* empty_playlist_unlocked
Empty == [list |-> <<>>, index |-> 0, first |-> 0, last |-> -1, started |-> FALSE]
EmptyFile == [list |-> <<>>, first |-> 0, last |-> -1, sorted |-> TRUE]

Init == playlist = Empty /\ file = EmptyFile /\ disk = EmptyFile

--------------------------------------------------------------------------------
(* Slips that the definitions below could have made; nothing uses them.      *)

PlainPosition(orig, p, first) == p
DisplacedAlways(p, i, from, to, cur) == to <= cur
RemoveAllAlike(p, i) ==
    [p EXCEPT !.list = RemoveAt(@, i + 1),
              !.index = IF i < @ THEN @ - 1 ELSE @,
              !.first = IF i <= @ THEN @ - 1 ELSE @,
              !.last = IF i <= @ THEN @ - 1 ELSE @]

--------------------------------------------------------------------------------
(* Operations on a list, in memory or while it is built from the file.       *)

\* rotate_index
Rotate(p, i) == IF i < p.first THEN i - p.first + Amount(p) ELSE i - p.first

\* Where a new track goes; r stands for what rand() chooses.
Position(p, orig, r) ==
    LET n == Amount(p)
        next == IF n > 0 THEN p.index + 1 ELSE 0
        random == p.index + r + 1
    IN  CASE orig = PREPEND -> p.first
          [] orig = INSERT -> IF p.last \in 0 .. n - 1 THEN p.last + 1 ELSE next
          [] orig = INSERT_FIRST -> next
          [] orig = INSERT_LAST -> IF p.first <= 0 THEN n ELSE p.first
          [] orig = INSERT_LAST_ROTATED -> p.first
          [] orig = INSERT_SHUFFLED ->
                IF ~p.started THEN r ELSE IF random >= n THEN random - n ELSE random
          [] OTHER -> orig

\* What rand() may choose.
Offsets(p) ==
    LET n == Amount(p) - Rotate(p, p.index)
    IN  IF ~p.started THEN 0 .. Amount(p) ELSE IF n > 0 THEN 0 .. n - 1 ELSE {0}

\* The position that is logged: a track put in at first_index to be the last
\* one must not become the first when the command is applied again.
LoggedPosition(orig, p, first) ==
    IF orig < 0 /\ orig # PREPEND /\ p = first THEN INSERT_LAST_ROTATED ELSE p

\* add_track_to_playlist_unlocked: the new list, and the command it logs
AddTrack(p, e, orig, r) ==
    LET pos == Position(p, orig, r)
        playing == p.started /\ Amount(p) > 0
        last == IF orig \in {INSERT, INSERT_FIRST, INSERT_LAST, INSERT_LAST_ROTATED}
                THEN pos ELSE p.last
        added == [p EXCEPT
            !.list = InsertAt(@, pos + 1, e),
            !.index = IF playing /\ orig < 0 /\ orig # INSERT_LAST_ROTATED /\ pos <= @
                      THEN @ + 1 ELSE @,
            !.first = IF playing /\ (\/ orig >= 0 /\ pos < @
                                     \/ orig < 0 /\ orig # PREPEND /\ pos <= @)
                      THEN @ + 1 ELSE @,
            !.last = IF pos < last THEN last + 1 ELSE last]
    IN  [list |-> added,
         cmd |-> [op |-> "add", e |-> e, last |-> added.last,
                  pos |-> IF playing THEN LoggedPosition(orig, pos, p.first) ELSE pos]]

\* remove_track_unlocked
RemoveTrack(p, i) ==
    [p EXCEPT !.list = RemoveAt(@, i + 1),
              !.index = IF i < @ THEN @ - 1 ELSE @,
              !.first = IF i < @ THEN @ - 1 ELSE @,
              !.last = IF i <= @ THEN @ - 1 ELSE @]

\* sort_compare_fn: tracks of the control file by the place of their names
Earlier(s, e) == {a \in ToSet(s) : a.seek < e.seek}
SortedList(s) ==
    [i \in DOMAIN s |-> CHOOSE e \in ToSet(s) : Cardinality(Earlier(s, e)) = i - 1]

\* randomise_playlist_unlocked's exchanges depend on seed and length alone.
Randomised(s, seed) == [i \in DOMAIN s |-> s[Perm[seed][Len(s)][i]]]

\* find_and_set_playlist_index_unlocked, if the call asks for it
FindAndSet(p, list, startCurrent) ==
    IF startCurrent /\ HasCurrent(p)
    THEN LET i == PlaceOf(list, Current(p)) - 1
         IN  [p EXCEPT !.list = list, !.index = i, !.first = i, !.last = -1]
    ELSE [p EXCEPT !.list = list, !.last = -1]

--------------------------------------------------------------------------------
(* The control file.                                                         *)

\* playlist_resume's handling of one command.  It builds the list as that of a
\* started playlist; the index it comes to is not used.
Apply(f, c) ==
    LET p == [list |-> f.list, index |-> 0, first |-> f.first, last |-> f.last,
              started |-> TRUE]
        Built(q) == [f EXCEPT !.list = q.list, !.first = q.first, !.last = q.last]
    IN  CASE c.op = "add" -> [Built(AddTrack(p, c.e, c.pos, 0).list) EXCEPT !.last = c.last]
          [] c.op = "delete" -> Built(RemoveTrack(p, c.pos))
          [] c.op = "shuffle" ->
                [list |-> Randomised(IF f.sorted THEN f.list ELSE SortedList(f.list), c.seed),
                 first |-> c.first, last |-> -1, sorted |-> FALSE]
          [] c.op = "unshuffle" ->
                [list |-> SortedList(f.list), first |-> c.first, last |-> -1, sorted |-> TRUE]
          [] c.op = "reset" -> [f EXCEPT !.last = -1]

\* update_control_unlocked, and sync_control_unlocked behind it or not
Log(cmd) == file' = Apply(file, cmd) /\ UNCHANGED disk
LogAndSync(cmd) == file' = Apply(file, cmd) /\ disk' = file'
Deleted(i) == [op |-> "delete", pos |-> i]
Reset == [op |-> "reset"]

\* Names are appended to the file: a new one is behind those still in use.
FreshSeek == 1 + Max({0} \cup {e.seek : e \in Entries(playlist) \cup Entries(file)
                                               \cup Entries(disk)})
Fresh(queued) == [seek |-> FreshSeek, queued |-> queued]
Room == Amount(playlist) < MaxAmount /\ FreshSeek <= MaxSeek

--------------------------------------------------------------------------------
(* The calls.                                                                *)

\* playlist_create without a playlist file; the header is synced.
Create == playlist' = Empty /\ file' = EmptyFile /\ disk' = EmptyFile

\* playlist_insert_track, or a round of an insert context, which syncs at its end
Insert(orig, r, queue) ==
    /\ Room
    /\ Position(playlist, orig, r) <= Amount(playlist) \/ "gap" \in Lapses
    /\ \E a \in {AddTrack(playlist, Fresh(queue), orig, r)} :
          playlist' = a.list /\ LogAndSync(a.cmd)

\* playlist_remove_all_tracks starts a new control file with the current track.
RemoveAll ==
    /\ HasCurrent(playlist)
    /\ LET one == <<[seek |-> 1, queued |-> TRUE]>>
       IN  /\ playlist' = [playlist EXCEPT !.list = one, !.index = 0, !.first = 0,
                                           !.last = IF @ = 0 THEN -1 ELSE 0]
           /\ file' = [list |-> one, first |-> 0, last |-> 0, sorted |-> TRUE]
           /\ disk' = file'

\* playlist_delete
Delete(i) ==
    /\ i < Amount(playlist)
    /\ playlist' = RemoveTrack(playlist, i)
    /\ LogAndSync(Deleted(i))

\* Does a move put something in front of the current track that was not there?
\* From, to and current are places as displayed.
Displaced(p, i, from, to, cur) ==
    /\ i # p.index /\ HasCurrent(p)
    /\ (from > cur /\ to <= cur) \/ (from < cur /\ to < cur)

\* playlist_move: the list, and the two commands that are logged
Moved(p, i, j, e) ==
    LET r == Rotate(p, j)
        rest == RemoveTrack(p, i)
        n == Amount(rest)
        k == (r + rest.first) % n
        to == CASE r = 0 -> PREPEND [] r = n -> INSERT_LAST [] OTHER -> k
        displaced ==
            IF to >= 0 /\ k < rest.first /\ k <= rest.index THEN TRUE
            ELSE IF to >= 0 /\ k >= rest.first /\ rest.index < rest.first THEN FALSE
            ELSE Displaced(p, i, Rotate(p, i), r, Rotate(p, p.index))
        a == AddTrack(rest, e, to, 0)
        index == IF i = p.index
                 THEN CASE to = PREPEND -> a.list.first
                        [] to = INSERT_LAST -> (a.list.first - 1) % (n + 1)
                        [] OTHER -> k
                 ELSE IF displaced /\ to # PREPEND THEN a.list.index + 1
                 ELSE a.list.index
    IN  [list |-> [a.list EXCEPT !.index = index], deleted |-> Deleted(i), added |-> a.cmd]

\* Its delete is synced, its add is not.
Move(i, j) ==
    /\ i < Amount(playlist) /\ j < Amount(playlist) /\ i # j /\ FreshSeek <= MaxSeek
    /\ \E m \in {Moved(playlist, i, j, Fresh(At(playlist, i).queued))} :
          /\ playlist' = m.list
          /\ disk' = Apply(file, m.deleted)
          /\ file' = Apply(disk', m.added)

\* get_next_index, or -1
GetNextIndex(p, steps, repeat) ==
    LET n == Amount(p)
        next == Rotate(p, p.index) + steps
        wrapped == (p.index + steps) % n
        kept == {k \in 0 .. n - 1 : ~At(p, (wrapped + k) % n).queued}
        i == CASE repeat = "one" -> p.index
               [] repeat = "off" \/ (repeat = "shuffle" /\ n > 1) ->
                     IF next \in 0 .. n - 1 THEN (next + p.first) % n ELSE -1
               [] OTHER -> IF steps < n THEN wrapped
                           ELSE IF kept = {} THEN -1 ELSE (wrapped + Min(kept)) % n
    IN  IF n = 0 \/ i >= n THEN -1 ELSE i

\* The loop of playlist_next that deletes the queued tracks it goes past, and
\* logs that: acc has the list, the file and the steps that are left.
DropQueued(acc, i, repeat) ==
    LET k == GetNextIndex(acc.list, i, repeat)
    IN  IF k >= 0 /\ At(acc.list, k).queued
        THEN [list |-> RemoveTrack(acc.list, k), file |-> Apply(acc.file, Deleted(k)),
              steps |-> acc.steps - 1]
        ELSE acc
Passed(acc, n, repeat) ==
    LET past[i \in 0 .. n] ==
            IF i = 0 THEN acc ELSE DropQueued(past[i - 1], i - 1, repeat)
    IN  past[n]

\* Where playlist_next goes; global is the setting, for which a manual skip
\* takes "one" as "all".
NextTrack(p, f, steps, global, repeat) ==
    LET all == [list |-> p, file |-> f, steps |-> steps]
        acc == IF steps <= 0 \/ repeat = "one" THEN all ELSE Passed(all, steps, global)
        q == acc.list
        index == GetNextIndex(q, acc.steps, repeat)
        over == /\ index >= 0 /\ q.last >= 0 /\ acc.steps > 0
                /\ Rotate(q, index) > Rotate(q, q.last)
    IN  [index |-> index,
         list |-> IF index < 0 THEN q
                  ELSE [q EXCEPT !.index = index, !.last = IF over THEN -1 ELSE @],
         file |-> IF over THEN Apply(acc.file, Reset) ELSE acc.file]

\* playlist_next: the list goes on, or ends, or is shuffled and begins anew.
\* What is logged before that is synced, the shuffle is not.  Each of those commands
\* changes the file.
PlaylistNext(steps, global, repeat) ==
    \E next \in {NextTrack(playlist, file, steps, global, repeat)} :
       LET shuffles == next.index < 0 /\ repeat = "shuffle" /\ Amount(next.list) > 1
       IN  /\ disk' = IF next.file = file THEN disk ELSE next.file
           /\ \/ /\ shuffles
                 /\ \E again \in {SortedList(next.list.list)}, seed \in Seeds :
                      /\ next.list.list = again \/ ~file.sorted \/ "repeat" \in Lapses
                      /\ playlist' = [next.list EXCEPT !.list = Randomised(again, seed),
                               !.index = 0, !.first = 0, !.last = -1, !.started = TRUE]
                      /\ file' = Apply(next.file,
                               [op |-> "shuffle", seed |-> seed, first |-> 0])
              \/ ~shuffles /\ playlist' = next.list /\ file' = next.file

\* playlist_start
Start(i) ==
    /\ i < Amount(playlist)
    /\ playlist' = [playlist EXCEPT !.index = i, !.started = TRUE]
    /\ disk' = file /\ UNCHANGED file

\* playlist_shuffle of a new playlist, then playlist_start
ShuffleAndStart(i, seed, startCurrent) ==
    /\ ~playlist.started /\ i < Amount(playlist)
    /\ LET p == IF startCurrent THEN [playlist EXCEPT !.index = i, !.first = i] ELSE playlist
           q == FindAndSet(p, Randomised(p.list, seed), startCurrent)
       IN  /\ playlist' = [q EXCEPT !.started = TRUE]
           /\ LogAndSync([op |-> "shuffle", seed |-> seed, first |-> q.first])

\* playlist_sort
Sort(startCurrent) ==
    /\ playlist' = [FindAndSet(playlist, SortedList(playlist.list), startCurrent)
                       EXCEPT !.first = 0]
    /\ Log([op |-> "unshuffle", first |-> 0])

\* playlist_randomise: of a sorted list, unless a caller does not see to that
Randomise(seed) ==
    /\ playlist.list # <<>>
    /\ playlist.started \/ "unstarted" \in Lapses
    /\ file.sorted \/ "reshuffle" \in Lapses
    /\ LET q == FindAndSet(playlist, Randomised(playlist.list, seed), TRUE)
       IN  /\ playlist' = q
           /\ Log([op |-> "shuffle", seed |-> seed, first |-> q.first])

--------------------------------------------------------------------------------
(* Restarts: the list is built from the file, playlist_resume_track looks    *)
(* for the track that was playing and starts there, or with the first.       *)

Resumed(f, i) ==
    [list |-> f.list, index |-> i, first |-> f.first, last |-> f.last, started |-> TRUE]

\* playlist_shutdown closes the file; the resume index is that of the track.
Shutdown ==
    /\ playlist' = Resumed(file,
          IF HasCurrent(playlist) /\ Current(playlist) \in Entries(file)
          THEN PlaceOf(file.list, Current(playlist)) - 1 ELSE 0)
    /\ disk' = file /\ UNCHANGED file

\* Power is lost: the file is that of the last fsync, the resume info is older.
Crash ==
    /\ \E i \in 0 .. Len(disk.list) : i <= Max({0, Len(disk.list) - 1})
                                      /\ playlist' = Resumed(disk, i)
    /\ file' = disk /\ UNCHANGED disk

--------------------------------------------------------------------------------
Places == 0 .. MaxAmount - 1
Positions == {INSERT, INSERT_LAST, INSERT_FIRST, INSERT_SHUFFLED}
Repeats == {<<"off", "off">>, <<"all", "all">>, <<"shuffle", "shuffle">>,
            <<"one", "one">>, <<"one", "all">>}

InsertAny == \E orig \in Positions, queue \in BOOLEAN :
    \E r \in IF orig = INSERT_SHUFFLED THEN Offsets(playlist) ELSE {0} :
        Insert(orig, r, queue)

Next ==
    \/ Create \/ RemoveAll \/ InsertAny \/ Shutdown \/ Crash
    \/ \E i \in Places : Delete(i) \/ Start(i)
    \/ \E i, j \in Places : Move(i, j)
    \/ \E s \in Steps, m \in Repeats : PlaylistNext(s, m[1], m[2])
    \/ \E i \in Places, seed \in Seeds, c \in BOOLEAN : ShuffleAndStart(i, seed, c)
    \/ Sort(TRUE)
    \/ \E seed \in Seeds : Randomise(seed)

Spec == Init /\ [][Next]_vars

--------------------------------------------------------------------------------
(* What must hold.                                                           *)

\* Types, and the places within what the code takes modulo the amount.
TypeOK ==
    /\ \A p \in {playlist, file, disk} :
          /\ Amount(p) <= MaxAmount /\ IsInjective(p.list)
          /\ p.first \in 0 .. Amount(p) /\ p.last \in -1 .. MaxAmount
          /\ \A e \in Entries(p) : e.seek \in 1 .. MaxSeek /\ e.queued \in BOOLEAN
    /\ playlist.index \in 0 .. Amount(playlist) + 1

\* After which track PLAYLIST_INSERT puts the next one.
InsertAfter(p) == IF p.last \in 0 .. Amount(p) - 1 THEN p.last ELSE playlist.index

\* "When resuming, all the commands in the control file will be reapplied so
\* that the playlist indices are exactly the same as before shutdown": the
\* order, the first track, and where insertions go on.
Restored ==
    /\ TypeOK
    /\ file.list = playlist.list
    /\ file.first = playlist.first
    /\ InsertAfter(file) = InsertAfter(playlist)

\* The list as the user sees it.
Displayed(p) == [k \in 1 .. Amount(p) |-> At(p, (p.first + k - 1) % Amount(p))]

\* A track that is not in the list, and what calls make of the list with it
New == [seek |-> MaxSeek + 1, queued |-> FALSE]
Inserted(orig, r) == AddTrack(playlist, New, orig, r).list
Playing == playlist.started /\ HasCurrent(playlist)
Indices == 0 .. Amount(playlist) - 1

\* The track that plays stays the current one while others are put in front of
\* it, taken away or moved past it, and while the list is shuffled or sorted;
\* moving it takes the mark along.
CurrentStays ==
    LET Plays(p, e) == HasCurrent(p) /\ Current(p) = e
        others == Indices \ {playlist.index}
        MovedFrom(i) == {Moved(playlist, i, j, New).list : j \in Indices \ {i}}
        orders == {SortedList(playlist.list)} \cup
                  {Randomised(playlist.list, s) : s \in Seeds}
    IN  Playing =>
          /\ \A p \in {Inserted(orig, r) : orig \in Positions, r \in Offsets(playlist)}
                 \cup {RemoveTrack(playlist, i) : i \in others}
                 \cup (UNION {MovedFrom(i) : i \in others})
                 \cup {FindAndSet(playlist, list, TRUE) : list \in orders} :
                Plays(p, Current(playlist))
          /\ \A p \in MovedFrom(playlist.index) : Plays(p, New)

\* What is displayed changes as asked, wherever in the array the list begins:
\* a track appended becomes the last, one inserted follows the current or the
\* last inserted, one at a random place comes behind the current track, a track
\* moved gets to the place it was moved to, and the order of all others stays.
\* (When the track the list began with was the array's last and has been removed,
\* first_index is one too many and a random place may be the first of all.)
OrderKept ==
    \A old \in {Displayed(playlist)} :
        LET After(e) == InsertAt(old, PlaceOf(old, e) + 1, New)
            current == PlaceOf(old, Current(playlist))
        IN  /\ \A p \in {Inserted(INSERT_LAST, 0)} : Displayed(p) = Append(old, New)
            /\ \A p \in {Inserted(INSERT_FIRST, 0)} : Displayed(p) = After(Current(playlist))
            /\ \A p \in {Inserted(INSERT, 0)} :
                  Displayed(p) = After(At(playlist, InsertAfter(playlist)))
            /\ playlist.first < Amount(playlist) =>
                  \A p \in {Inserted(INSERT_SHUFFLED, r) : r \in Offsets(playlist)} :
                     \E k \in current .. Len(old) : Displayed(p) = InsertAt(old, k + 1, New)
            /\ \A i \in Indices : \A p \in {RemoveTrack(playlist, i)} :
                  \A rest \in {RemoveAt(old, PlaceOf(old, At(playlist, i)))} :
                     /\ Displayed(p) = rest
                     /\ \A j \in Indices \ {i} : \A q \in {Moved(playlist, i, j, New).list} :
                           Displayed(q) =
                              InsertAt(rest, PlaceOf(old, At(playlist, j)), New)

\* Playback goes on with the track displayed next, although queued tracks that
\* have been played go from the list.  (Of two steps at once past a queued track
\* the code makes something else.)
NextFollows ==
    \A old \in {Displayed(playlist)} :
        LET Plays(s, repeat, k) ==
                \A next \in {NextTrack(playlist, file, s, repeat, repeat)} :
                    next.index >= 0 /\ Current(next.list) = old[k]
        IN  \A s \in Steps : s < 2 \/ (\A e \in Entries(playlist) : ~e.queued) =>
              \A k \in {PlaceOf(old, Current(playlist)) + s} :
                 /\ k \in DOMAIN old => Plays(s, "off", k)
                 /\ s < Len(old) => Plays(s, "all", ((k - 1) % Len(old)) + 1)

AsDisplayed == Playing => OrderKept /\ NextFollows
===============================================================================
