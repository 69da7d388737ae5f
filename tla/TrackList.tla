----------------------------- MODULE TrackList -----------------------------
(***************************************************************************)
(* What apps/playback.c knows of the tracks: the place in the playlist,    *)
(* the list of tracks loaded or being loaded, and how it is filled.  The   *)
(* operators take and return the audio thread's record `a', of which they  *)
(* use                                                                     *)
(*    pl       playlist->index                                             *)
(*    skipped  entries marked PLAYLIST_SKIPPED                             *)
(*    peek     playlist_peek_offset                                        *)
(*    list     track_list: [track, id, meta, ready]; meta: its metadata    *)
(*             has been read; ready: audio_hid >= 0                        *)
(*    cur      place of track_list.current_hid in it, 0 if it is empty     *)
(*    loading  track_list.in_progress_hid, 0 for none                      *)
(*    filling, skip (skip_pending), status (play_status)                   *)
(*    stat     what the last load returned                                 *)
(*    queue    audio_queue                                                 *)
(* Tracks are numbered through all directories; LastOf names the last one  *)
(* of each.  Repeat modes, queued tracks and shuffling are left out.       *)
(***************************************************************************)
EXTENDS Integers, Sequences, FiniteSets, SequencesExt, FiniteSetsExt

CONSTANTS Tracks,       \* 1 .. the number of tracks
          LastOf,       \* last tracks of directories, where next_folder leads on
          Room,         \* tracks the file buffer has room for
          Unreadable,   \* tracks without valid metadata
          TooBig        \* tracks whose audio is loaded only when alone

ASSUME TrackListAssumption ==
    /\ Tracks = 1 .. Cardinality(Tracks) /\ IsFiniteSet(Tracks)
    /\ LastOf \cup Unreadable \cup TooBig \subseteq Tracks
    /\ Room \in Nat \ {0}

Post(a, type, arg) == [a EXCEPT !.queue = Append(@, [type |-> type, arg |-> arg])]

-------------------------------------------------------------------------------
(* apps/playlist.c                                                           *)

Directory(t) == {u \in Tracks : \A e \in LastOf : t <= e <=> u <= e}

\* get_next_index, and so playlist_peek: the track k steps on, 0 if none.
Peek(a, k) ==
    LET side == {t \in Directory(a.pl) \ a.skipped :
                    IF k < 0 THEN t <= a.pl ELSE t >= a.pl}
        steps(t) == Cardinality({u \in side : IF k < 0 THEN u > t ELSE u < t})
        there == {t \in side : steps(t) = IF k < 0 THEN -k ELSE k}
    IN  IF there = {} THEN 0 ELSE CHOOSE t \in there : TRUE

\* create_and_play_dir: where another directory starts playing, 0 if none.
OtherDir(a, direction, playLast) ==
    LET side == {t \in Tracks \ Directory(a.pl) :
                    IF direction > 0 THEN t > a.pl ELSE t < a.pl}
        dir == IF direction > 0 THEN Directory(Min(side)) ELSE Directory(Max(side))
    IN  IF side = {} THEN 0
        ELSE IF playLast /\ direction <= 0 THEN Max(dir) ELSE Min(dir)

\* playlist_next: the index it leads to, 0 if it fails; and its effect.
NextIndex(a, k) == IF Peek(a, k) # 0 THEN Peek(a, k)
                   ELSE IF LastOf # {} THEN OtherDir(a, k, TRUE) ELSE 0
GoTo(a, index) ==
    IF index = 0 THEN a
    ELSE [a EXCEPT !.pl = index,
                   !.skipped = IF index \in Directory(a.pl) THEN @ ELSE {}]
PlaylistNext(a, k) == GoTo(a, NextIndex(a, k))

\* playlist_check
PlaylistCheck(a, k) == LastOf # {} \/ Peek(a, k) # 0

-------------------------------------------------------------------------------
(* The track list.                                                           *)

Current(a) == a.list[a.cur]
HasCurrent(a) == a.cur # 0

\* track_list_user_current: the list may be one ahead of what is heard.
Ahead(a) == a.skip \in {"auto", "newlist"}

\* The track of PLAYING_ID3 when it is written from entry i; 0 is no track.
TagOf(a, i) == IF i \in DOMAIN a.list /\ a.list[i].meta THEN a.list[i].track ELSE 0

\* track_list_clear: the places of the entries that stay, and the list of them
KeptBy(a, action) == {i \in DOMAIN a.list : \/ action = "keep_current" /\ i = a.cur
                                            \/ action = "keep_new" /\ i >= a.cur}
LeftBy(a, action) ==
    LET kept == KeptBy(a, action)
    IN  [i \in 1 .. Cardinality(kept) |-> a.list[Min(kept) + i - 1]]
Cleared(a, action) ==
    LET left == LeftBy(a, action)
    IN  [a EXCEPT !.list = left,
                  !.cur = IF left = <<>> THEN 0 ELSE 1,
                  !.loading = IF \E e \in ToSet(left) : e.id = @ THEN @ ELSE 0]

\* track_list_free_info of the last entry, which is the one being loaded
FreeLast(a) ==
    LET n == Len(a.list) - 1
    IN  [a EXCEPT !.list = SubSeq(@, 1, n), !.cur = IF @ > n THEN n ELSE @]

\* A handle no entry and no message has.
FreshId(a) ==
    Min((1 .. Len(a.list) + Len(a.queue) + 1) \
        ({e.id : e \in ToSet(a.list)} \cup
            {m.arg : m \in {x \in ToSet(a.queue) : x.type = "loaded"}}))

\* audio_load_track
LoadTrack(a) ==
    LET full == Len(a.list) >= Room
        next == Peek(a, a.peek + 1)
        entry == [track |-> next, id |-> FreshId(a), meta |-> FALSE, ready |-> FALSE]
    IN  IF a.loading # 0
        THEN CASE a.filling = "filling" -> [a EXCEPT !.stat = "ok"]
               [] a.filling = "full" ->
                    Post([a EXCEPT !.filling = "filling", !.stat = "ok"],
                         "loaded", a.loading)
               [] OTHER -> [a EXCEPT !.stat = "busy"]
        ELSE IF next = 0 THEN [a EXCEPT !.filling = "eop", !.stat = "nomore"]
        ELSE IF full THEN [a EXCEPT !.filling = "full", !.stat = "ok"]
        ELSE [a EXCEPT !.filling = "filling", !.stat = "ok", !.peek = @ + 1,
                       !.list = Append(@, entry), !.loading = entry.id,
                       !.cur = IF @ = 0 THEN 1 ELSE @]

\* audio_fill_file_buffer
FillFileBuffer(a) ==
    LET b == LoadTrack(a)
    IN  IF a.status = "stopped" THEN [a EXCEPT !.stat = "failed"]
        ELSE IF b.stat = "ok" /\ (~Ahead(b) \/ ~HasCurrent(b))
        THEN PlaylistNext(b, 0)
        ELSE b

\* audio_reset_and_rebuffer
Rebuffered(a, action, peek) ==
    FillFileBuffer([Cleared(a, action) EXCEPT !.peek = peek])

\* audio_finish_load_track for the last entry.  A track that cannot be used
\* is skipped in the playlist and gives way to the next.
FinishLoadTrack(a) ==
    LET n == Len(a.list)
        last == a.list[n]
        bad == ~last.meta \/ last.track \in Unreadable
        full == ~bad /\ last.track \in TooBig /\ n > 1
        b == CASE bad ->
                    LET c == FreeLast([a EXCEPT !.skipped = @ \cup {Peek(a, a.peek)}])
                        d == IF Peek(c, c.peek) # 0 THEN PlaylistNext(c, 0) ELSE c
                    IN  [d EXCEPT !.peek = @ - 1, !.stat = "failed"]
               [] full -> [a EXCEPT !.filling = "full"]
               [] OTHER -> [a EXCEPT !.list[n].ready = TRUE,
                                     !.stat = IF n = a.cur THEN "ready" ELSE "ok"]
    IN  IF last.id # a.loading THEN [a EXCEPT !.stat = "busy"]
        ELSE IF b.filling = "full" THEN [b EXCEPT !.stat = "full"]
        ELSE Post([b EXCEPT !.loading = 0], "fill", 0)
=============================================================================
