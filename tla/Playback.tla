------------------------------ MODULE Playback ------------------------------
(***************************************************************************)
(* The playback engine of apps/playback.c with the codec thread of         *)
(* apps/codec_thread.c: the audio thread answers messages of the user, of  *)
(* the codec, of the PCM buffer and of the buffering thread, and drives    *)
(* the codec thread by messages it waits for the answer of.                *)
(*                                                                         *)
(* Threads are cooperative, so the audio thread's work between two such    *)
(* waits is one step; the interrupt that plays a chunk comes at any time.  *)
(* The operators of a handler take and return a record s = [a, p, c, u] of *)
(* the four variables.                                                     *)
(***************************************************************************)
EXTENDS TrackList, PcmBuffer

CONSTANTS Units,        \* Units[t]: chunks that track t decodes to
          Format,       \* Format[t]: its codec; 0 if there is none
          Failing,      \* tracks whose codec may give up
          Commands,     \* what the user does
          MaxEvents     \* bound on commands and on pleas of the buffering thread

ASSUME PlaybackAssumption ==
    /\ Units \in [Tracks -> Nat] /\ Format \in [Tracks -> Nat]
    /\ Failing \subseteq Tracks /\ MaxEvents \in Nat
    /\ Commands \subseteq {"next", "prev", "seek", "restart", "pause", "flush",
                           "nextdir", "stop", "play"}

VARIABLES audio,    \* the audio thread: TrackList's fields and
                    \*   next     where it goes on, "idle" if with a message
                    \*   wait     it waits for the codec thread's answer
                    \*   res      whether that was not Q_NULL
                    \*   then     "go" or "seek": what a loaded codec is for
                    \*   delta    the skip being done
                    \*   unpause  PCM is to go on when the handler is through
                    \*   cskip, seeking, ffrw   codec_skip_pending,
                    \*            codec_seeking, ff_rw_mode
                    \*   shown    the track of PLAYING_ID3, 0 if not valid
          pcm,      \* the PCM buffer
          codec,    \* the codec thread: pc, fmt (codec_type), want (the type
                    \*   to load), track and id (ci.audio_hid), left (chunks
                    \*   to decode), queue (codec_queue)
          user      \* left (of MaxEvents), skip (skip_offset), hold (a seek key is
                    \* held), and what has happened:
                    \*   over     a seek without seek mode has left data of the next
                    \*            track to be heard
                    \*   lost     a seek has come with its track or codec not loaded
vars == <<audio, pcm, codec, user>>

Init ==
    /\ audio = [pl |-> 1, skipped |-> {}, peek |-> -1, list |-> <<>>, cur |-> 0,
                loading |-> 0, filling |-> "off", skip |-> "none",
                status |-> "stopped", stat |-> "ok",
                queue |-> <<[type |-> "play", arg |-> 0]>>,
                next |-> "idle", wait |-> FALSE, res |-> FALSE, then |-> "go",
                delta |-> 0, unpause |-> FALSE, cskip |-> FALSE, seeking |-> FALSE, ffrw |-> FALSE,
                shown |-> 0]
    /\ pcm = EmptyPcm
    /\ codec = [pc |-> "main", fmt |-> 0, want |-> 0, track |-> 0, id |-> 0,
                left |-> 0, queue |-> <<>>]
    /\ user = [left |-> MaxEvents, skip |-> 0, hold |-> FALSE, over |-> FALSE,
               lost |-> FALSE]

Spend == [user EXCEPT !.left = @ - 1]

Becomes(r) == \E s \in {r} :
    audio' = s.a /\ pcm' = s.p /\ codec' = s.c /\ user' = s.u
State == [a |-> audio, p |-> pcm, c |-> codec, u |-> user]

-------------------------------------------------------------------------------
(* Waiting for the codec thread.                                             *)

\* The handler is through; a resumption that had to wait for a track change
\* ends with pcmbuf_pause(false).
Done(s) == [s EXCEPT !.a.next = "idle", !.a.unpause = FALSE,
                     !.p = IF s.a.unpause /\ ~s.a.ffrw THEN PcmPause(@, FALSE) ELSE @]

\* codec_queue_send
Send(s, cmd, next) == [s EXCEPT !.c.queue = Append(@, cmd),
                                !.a.next = next, !.a.wait = TRUE]

\* A slip: the old track's end is still reported.
StaleButComplete == {"seeked", "changed"}

\* audio_clear_track_notifications
Stale == {"seeked", "complete", "changed"}
NotStale(q) ==
    LET f[i \in 0 .. Len(q)] == IF i = 0 THEN <<>>
                               ELSE IF q[i].type \in Stale THEN f[i - 1]
                               ELSE Append(f[i - 1], q[i])
    IN  f[Len(q)]
ClearNotifications(s) ==
    [s EXCEPT !.p = [CancelTrackChange(@) EXCEPT !.posts = 0],
              !.a.queue = NotStale(@)]

\* halt_decoding_track, before and after the codec's answer
Halt(s, stop, next) == Send(s, IF stop THEN "stop" ELSE "pause", next)
Halted(s) == [ClearNotifications(s) EXCEPT !.a.cskip = FALSE, !.a.seeking = FALSE]

PostTo(s, type, arg) == [s EXCEPT !.a = Post(@, type, arg)]
\* audio_handle_track_load_status(LOAD_TRACK_ERR_START_CODEC)
StartError(s) == Done(PostTo(s, "complete", 0))
HandleLoadStatus(s) ==
    IF s.a.stat = "nomore" /\ s.a.list = <<>> THEN StartError(s) ELSE Done(s)

\* audio_pcmbuf_may_play
MayPlay(a) == a.status = "playing" /\ ~a.ffrw

-------------------------------------------------------------------------------
(* Starting the codec on the current track.                                  *)

SetTrack(s) == [s EXCEPT !.c.track = Current(s.a).track, !.c.id = Current(s.a).id]
Go(s) == Send([SetTrack(s) EXCEPT !.c.left = Units[Current(s.a).track]], "go", "went")
SeekNow(s) == Send(SetTrack(s), "seek", "idle")
Ready(s) == IF s.a.then = "go" THEN Go(s) ELSE SeekNow(s)

\* audio_init_codec
LoadCodec(s) == Send([s EXCEPT !.c.want = Format[Current(s.a).track]], "load", "loaded")
InitCodec(s, then) ==
    LET t == [s EXCEPT !.a.then = then]
    IN  IF s.c.fmt = 0 THEN LoadCodec(t)
        ELSE IF s.c.fmt = Format[Current(s.a).track] THEN Ready(t)
        ELSE Send(t, "stop", "unload")
Unload(s) == Send(s, "unload", "load")
Loaded(s) == IF s.a.res THEN Ready(s) ELSE StartError(s)

\* audio_start_codec has sent Q_CODEC_RUN: its callers bring PLAYING_ID3 up to
\* date if this is the track the user hears.
Went(s) == Done(IF Ahead(s.a) THEN s
                ELSE [s EXCEPT !.a.shown = TagOf(s.a, s.a.cur)])

-------------------------------------------------------------------------------
(* Track changes.                                                            *)

\* pcmbuf_monitor_track_change(true)
Monitor(s) == IF TracksOver(s.p)
              THEN PostTo([s EXCEPT !.p.mark = 0], "changed", 0)
              ELSE [s EXCEPT !.p = MarkTrackEnd(@)]

\* pcmbuf_start_track_change
StartTrackChange(s, type) ==
    LET t == [s EXCEPT !.p = Committed(@)]
        u == [t EXCEPT !.p = StartPlayback(@, MayPlay(s.a))]
    IN  CASE type = "pileup" -> u
          [] type = "end" -> Monitor(u)
          [] type = "auto" -> Monitor(t)
          [] type = "manual" -> [t EXCEPT !.p = PlayStop(@)]

\* audio_stop_playback
StopPlayback(s) == IF s.a.status = "stopped" THEN Done(s) ELSE Halt(s, TRUE, "stop2")
Stop2(s) == LET t == Halted(s) IN Send([t EXCEPT !.p = PlayStop(@)], "stop", "stop3")
Stop3(s) == Send(s, "unload", "stop4")
Stop4(s) ==
    Done([s EXCEPT !.a = [Cleared(s.a, "all") EXCEPT
            !.skip = "none", !.ffrw = FALSE, !.status = "stopped", !.shown = 0,
            !.filling = IF @ = "off" THEN "off" ELSE "idle"]])

\* audio_finalise_track_change: the change is heard.
Finalise(s) ==
    LET shown(t) == Done([t EXCEPT !.a.shown = TagOf(t.a, t.a.cur),
                                   !.a.skip = "none"])
        rejected == StartError([s EXCEPT !.a.skip = "none"])
    IN  CASE s.a.skip = "none" -> shown(s)
          [] s.a.skip = "auto" ->
               IF Peek(s.a, 1) = 0 THEN rejected
               ELSE shown([s EXCEPT !.a = [PlaylistNext(s.a, 1) EXCEPT !.peek = @ - 1]])
          [] s.a.skip = "newlist" -> IF Peek(s.a, 0) = 0 THEN rejected ELSE shown(s)
          [] s.a.skip = "end" -> StopPlayback(s)

\* audio_begin_track_change
BeginTrackChange(s, type) ==
    LET t == StartTrackChange(s, type)
        u == IF type = "manual" THEN Finalise(t) ELSE t
    IN  IF u.a.stat # "ok" THEN HandleLoadStatus(u)
        ELSE IF ~HasCurrent(u.a) THEN StartError(u)
        ELSE IF ~Current(u.a).ready THEN Done(u)
        ELSE InitCodec(u, "go")

\* audio_monitor_end_of_playlist
MonitorEnd(s) ==
    Done(StartTrackChange([s EXCEPT !.a.skip = "end", !.a.filling = "ending"], "end"))

\* playlist_next(1) for lack of a next track, and what follows its result
NewPlaylist(a) == PlaylistNext([a EXCEPT !.skip = "newlist"], 1)

\* audio_can_change_track with what its caller does next: where decoding goes
\* on.  Without a next track in the list all is loaded anew, from the next
\* directory if the playlist ends here.
ChangeTrack(s) ==
    LET a == s.a
        have == a.cur < Len(a.list)
        there == [a EXCEPT !.cur = IF have THEN @ + 1 ELSE @]
        atEnd == Peek(a, 1) = 0
        from == IF atEnd THEN NewPlaylist(a) ELSE a
        anew == Rebuffered(from, "all", IF atEnd THEN -1 ELSE 0)
        begin(b) == BeginTrackChange([s EXCEPT !.a = b], "auto")
        ends(b) == MonitorEnd([s EXCEPT !.a = b])
    IN  IF have /\ Current(there).ready THEN begin(there)
        ELSE IF have
        THEN begin([Rebuffered(there, "keep_current", 1) EXCEPT !.stat = "ok"])
        ELSE IF atEnd /\ NextIndex(a, 1) = 0 THEN ends(from)
        ELSE IF anew.stat # "nomore" THEN begin(anew)
        ELSE IF NextIndex(anew, 1) = 0 THEN ends(NewPlaylist(anew))
        ELSE begin(NewPlaylist(anew))

-------------------------------------------------------------------------------
(* Messages of the codec thread and of the PCM buffer.                       *)

\* audio_complete_codec_seek with audio_ff_rewind_end
EndSeekMode(s) ==
    IF ~s.a.ffrw THEN s
    ELSE LET p == IF s.a.seeking THEN PlayStop(s.p) ELSE s.p
         IN  [s EXCEPT !.a.ffrw = FALSE,
                       !.p = IF s.a.status # "paused" THEN PcmPause(p, FALSE) ELSE p]
SeekModeKept(s) == [s EXCEPT !.a.seeking = FALSE]   \* a slip
CompleteSeek(s) ==
    IF s.a.seeking THEN [EndSeekMode(s) EXCEPT !.a.seeking = FALSE] ELSE s

\* audio_on_codec_complete
OnComplete(s) ==
    LET t == CompleteSeek(s)
        waits == t.a.status = "paused" \/ t.a.skip # "none"
    IN  IF s.a.status = "stopped" THEN Done(s)
        ELSE IF waits
        THEN Done(StartTrackChange([t EXCEPT !.a.cskip = TRUE], "pileup"))
        ELSE ChangeTrack([t EXCEPT !.a.cskip = FALSE, !.a.skip = "auto",
                                   !.a.stat = "ok"])

\* audio_on_codec_seek_complete
OnSeeked(s) == Send(CompleteSeek(s), "go", "idle")

\* A slip: what was put off is forgotten.
ChangedOnly(s) == Finalise(s)

\* audio_on_track_changed
OnChanged(s) ==
    LET t == Finalise(s)
    IN  IF t.a.next = "idle" /\ t.a.cskip
        THEN OnComplete([t EXCEPT !.a.cskip = FALSE]) ELSE t

-------------------------------------------------------------------------------
(* Messages of the buffering thread, and those about loading tracks.         *)

\* A slip: the track played is given up too.
ClearsAll(s) == Done([s EXCEPT !.a = Rebuffered(@, "all", s.a.peek)])

\* audio_on_buffering
OnLow(s) ==
    IF s.a.list = <<>> \/ s.a.filling \notin {"full", "eop"} \/ s.a.skip = "end"
    THEN Done(s)
    ELSE Done([s EXCEPT !.a = Rebuffered(@, "keep_new", s.a.peek)])
OnRebuffer(s) ==
    IF s.a.list = <<>> \/ s.a.skip = "end" THEN Done(s)
    ELSE Done([s EXCEPT !.a = Rebuffered(@, "keep_current",
                                         IF s.a.skip = "auto" THEN 1 ELSE 0)])

\* audio_on_fill_buffer
OnFill(s) == HandleLoadStatus([s EXCEPT !.a = FillFileBuffer(@)])

\* audio_on_finish_load_track: the codec starts if the track is to be decoded.
OnLoaded(s, id) ==
    LET t == [s EXCEPT !.a = FinishLoadTrack(@)]
    IN  IF \A e \in ToSet(s.a.list) : e.id # id THEN Done(s)
        ELSE IF t.a.stat # "ready" THEN Done(t) ELSE InitCodec(t, "go")

-------------------------------------------------------------------------------
(* Messages of the user.                                                     *)

\* audio_start_playback, before and after the codec has stopped: afresh, or
\* with AUDIO_START_RESTART
Begin(s) ==
    LET b == FillFileBuffer([s.a EXCEPT !.peek = -1])
        t == [s EXCEPT !.a = [b EXCEPT !.shown = IF b.stat = "ok"
                                                 THEN TagOf(b, b.cur) ELSE @]]
    IN  IF b.stat = "ok" THEN Done(t) ELSE HandleLoadStatus(t)
OnPlay(s) ==
    IF s.a.status # "stopped" THEN Halt(s, TRUE, "play2")
    ELSE Begin([s EXCEPT !.a.status = "playing", !.a.filling = "idle"])
Play2(s) ==
    LET t == StartTrackChange(Halted(s), "manual")
    IN  Begin([t EXCEPT !.a = [Cleared(@, "all") EXCEPT
                    !.ffrw = FALSE, !.skip = "none", !.shown = 0]])
Restart2(s) ==
    LET t == Halted(s)
    IN  Begin([t EXCEPT !.p = PlayStop(@),
                        !.a = [Cleared(@, "all") EXCEPT !.ffrw = FALSE,
                                                        !.skip = "none"]])

\* audio_on_pause
OnPause(s, pause) ==
    LET t == [s EXCEPT !.a.status = IF pause THEN "paused" ELSE "playing"]
    IN  IF s.a.status = "stopped" \/ pause = (s.a.status = "paused") THEN Done(s)
        ELSE IF ~pause /\ s.a.cskip THEN OnComplete([t EXCEPT !.a.unpause = TRUE])
        ELSE Done(IF s.a.ffrw THEN t ELSE [t EXCEPT !.p = PcmPause(@, pause)])

\* audio_on_skip.  A skip under way has moved the list, the playlist or both
\* ahead already.
ListDelta0(a, d) == d               \* a slip
ListDelta(a, d) == IF Ahead(a) THEN d - 1 ELSE d
PlaylistDelta(a, d) == IF a.skip = "newlist" THEN d - 1 ELSE d

OnSkip(s) ==
    LET t == [s EXCEPT !.a.delta = s.u.skip, !.u.skip = 0]
    IN  IF s.a.status = "stopped" THEN Done(t) ELSE Halt(t, TRUE, "skip2")

\* An index out of range is brought back; crossing zero is the end.
Skip2(s) ==
    LET t == [Halted(s) EXCEPT !.a.ffrw = FALSE]
        a == t.a
        by == PlaylistDelta(a, a.delta)
        d == IF a.delta < 0 THEN 1 ELSE -1
        tries == 0 .. Cardinality(Tracks) + 1
        inRange == {n \in tries : NextIndex(a, by + n * d) # 0}
        back == Min(inRange)
        ends == inRange = {} \/ \E n \in 0 .. back - 1 : by + n * d = d
        fatal == LastOf # {} /\ NextIndex(a, by) = 0
        moved == PlaylistNext(a, by + back * d)
        to == a.cur + ListDelta(a, a.delta) + back * d
        b == [moved EXCEPT !.skip = "none", !.stat = "ok",
                           !.peek = @ - (by + back * d)]
        there == HasCurrent(a) /\ to \in DOMAIN a.list /\ a.list[to].ready
        listed == IF HasCurrent(a) /\ to \in DOMAIN a.list THEN to ELSE a.cur
        c == [b EXCEPT !.cur = listed]
    IN  IF fatal \/ ends THEN StopPlayback([t EXCEPT !.a.skip = "none"])
        ELSE BeginTrackChange([t EXCEPT !.a =
                 IF there THEN c ELSE Rebuffered(c, "all", -1)], "manual")

\* audio_on_dir_skip
OnDirSkip(s) == IF s.a.status = "stopped" THEN Done([s EXCEPT !.u.skip = 0])
                ELSE Halt([s EXCEPT !.u.skip = 0], TRUE, "dir2")
Dir2(s) ==
    LET t == Halted(s)
        a == [t.a EXCEPT !.ffrw = FALSE, !.skip = "none"]
        b == Rebuffered(IF LastOf = {} THEN a ELSE GoTo(a, OtherDir(a, 1, FALSE)),
                        "all", -1)
    IN  IF b.stat = "nomore" THEN MonitorEnd([t EXCEPT !.a = b])
        ELSE BeginTrackChange([t EXCEPT !.a = b], "manual")

\* audio_on_pre_ff_rewind
OnPreSeek(s) ==
    LET t == [s EXCEPT !.a.ffrw = TRUE]
    IN  Done(IF s.a.status = "stopped" \/ s.a.ffrw THEN s
             ELSE IF s.a.status = "paused" THEN t
             ELSE [t EXCEPT !.p = PcmPause(@, TRUE)])

\* audio_on_ff_rewind.  If the codec is already on the next track it is
\* brought back; across directories that cannot be done.
OnSeek(s) ==
    IF s.a.status = "stopped" THEN Done(s)
    ELSE IF s.a.skip = "newlist" THEN Done(EndSeekMode(s))
    ELSE Halt(s, s.a.skip = "auto", "seek2")
Seek2(s) ==
    LET backs == s.a.skip = "auto"
        h == Halted(s)
        beyond == ToSet(Append(h.p.chunks, h.p.waiting)) \ {0, s.a.shown}
        t == [h EXCEPT !.a.seeking = TRUE, !.u.lost = @ \/ s.c.fmt = 0,
                       !.u.over = @ \/ (backs /\ ~s.a.ffrw /\ beyond # {})]
        a == t.a
        b == IF ~backs THEN a
             ELSE IF a.cur > 1 THEN [a EXCEPT !.cur = @ - 1, !.stat = "ok"]
             ELSE Rebuffered(a, "all", -1)
        c == [b EXCEPT !.skip = "none"]
        shown == [c EXCEPT !.shown = TagOf(c, c.cur)]
    IN  IF backs /\ b.stat # "ok" THEN StartError([t EXCEPT !.a = b])
        ELSE IF ~HasCurrent(c) \/ ~Current(c).ready
        THEN Done([t EXCEPT !.a = shown, !.u.lost = TRUE])
        ELSE IF backs THEN InitCodec([t EXCEPT !.a = c], "seek")
        ELSE Send([t EXCEPT !.a = c], "seek", "idle")

\* audio_on_audio_flush: only the current track is kept.
OnFlush(s) ==
    LET b == FillFileBuffer([Cleared(s.a, "keep_current") EXCEPT !.peek = 0])
        t == Done([s EXCEPT !.a = b])
    IN  IF s.a.list = <<>> THEN Done(s)
        ELSE IF Ahead(s.a) THEN Halt(s, TRUE, "restart2")
        ELSE IF s.a.skip = "none" THEN t
        ELSE StartError(ClearNotifications([t EXCEPT !.a.skip = "none"]))

-------------------------------------------------------------------------------
(* The audio thread.                                                         *)

OnMessage(s, m) ==
    CASE m.type = "complete" -> OnComplete(s)
      [] m.type = "seeked" -> OnSeeked(s)
      [] m.type = "changed" -> OnChanged(s)
      [] m.type = "low" -> OnLow(s)
      [] m.type = "rebuffer" -> OnRebuffer(s)
      [] m.type = "fill" -> OnFill(s)
      [] m.type = "loaded" -> OnLoaded(s, m.arg)
      [] m.type = "play" -> OnPlay(s)
      [] m.type = "stop" -> StopPlayback([s EXCEPT !.a.filling = "off"])
      [] m.type = "pause" -> OnPause(s, m.arg = 1)
      [] m.type = "skip" -> OnSkip(s)
      [] m.type = "dirskip" -> OnDirSkip(s)
      [] m.type = "preseek" -> OnPreSeek(s)
      [] m.type = "seek" -> OnSeek(s)
      [] m.type = "flush" -> OnFlush(s)

\* audio_playback_handler takes a message; audio_thread, in whose loop a stop
\* ends, heeds Q_AUDIO_PLAY only.
Handle ==
    LET m == Head(audio.queue)
        s == [State EXCEPT !.a.queue = Tail(@)]
    IN  /\ audio.next = "idle" /\ ~audio.wait /\ audio.queue # <<>>
        /\ Becomes(IF audio.filling = "off" /\ m.type # "play" THEN s
                   ELSE OnMessage(s, m))

\* audio_pcmbuf_track_change_scan
Scanning == pcm.posts > 0 /\ audio.filling \in {"filling", "full", "eop", "ending"}
Scan ==
    /\ audio.next = "idle" /\ ~audio.wait /\ Scanning
    /\ Becomes(OnChanged([State EXCEPT !.p.posts = @ - 1]))

\* The codec thread has answered.
Continue ==
    LET s == State
    IN  /\ audio.next # "idle" /\ ~audio.wait
        /\ Becomes(CASE audio.next = "unload" -> Unload(s)
                     [] audio.next = "load" -> LoadCodec(s)
                     [] audio.next = "loaded" -> Loaded(s)
                     [] audio.next = "went" -> Went(s)
                     [] audio.next = "stop2" -> Stop2(s)
                     [] audio.next = "stop3" -> Stop3(s)
                     [] audio.next = "stop4" -> Stop4(s)
                     [] audio.next = "play2" -> Play2(s)
                     [] audio.next = "restart2" -> Restart2(s)
                     [] audio.next = "skip2" -> Skip2(s)
                     [] audio.next = "dir2" -> Dir2(s)
                     [] audio.next = "seek2" -> Seek2(s))

\* buffer_event_finished_callback: the metadata of the last track is read.
MetadataRead ==
    LET n == Len(audio.list)
    IN  /\ audio.loading # 0 /\ audio.list[n].id = audio.loading
        /\ ~audio.list[n].meta
        /\ audio' = Post([audio EXCEPT !.list[n].meta = TRUE], "loaded", audio.loading)
        /\ UNCHANGED <<pcm, codec, user>>

\* The buffering thread runs low, or needs room for a seek in the current
\* track.
Plea(type) ==
    /\ user.left > 0 /\ codec.pc # "main"
    /\ type = "low" => audio.filling \in {"full", "eop"}
    /\ audio' = Post(audio, type, 0)
    /\ user' = Spend
    /\ UNCHANGED <<pcm, codec>>

-------------------------------------------------------------------------------
(* The codec thread.                                                         *)

\* queue_reply; a message it has sent to itself nobody waits for.
Reply(ok) == [audio EXCEPT !.wait = FALSE, !.res = ok]
Unanswered(cmd, ok) == audio        \* a slip
Answered(cmd, ok) == IF cmd = "reseek" THEN audio ELSE Reply(ok)
Took(c) == [c EXCEPT !.queue = Tail(@)]
AtHead(cmds) == codec.queue # <<>> /\ Head(codec.queue) \in cmds
Seeks == {"seek", "reseek"}

\* codec_thread: a codec that has ended tells the audio thread.
CodecEnds ==
    /\ codec.pc = "ended"
    /\ codec' = [codec EXCEPT !.pc = "main"]
    /\ audio' = Post(audio, "complete", 0)
    /\ UNCHANGED <<pcm, user>>

\* codec_thread without a codec running
CodecMain ==
    LET cmd == Head(codec.queue)
        c == Took(codec)
    IN  /\ codec.pc = "main" /\ codec.queue # <<>>
        /\ \/ /\ cmd = "load"
              /\ codec' = [c EXCEPT !.fmt = IF @ = 0 THEN c.want ELSE @]
              /\ audio' = Reply(codec.fmt = 0 /\ c.want # 0)
           \/ /\ cmd = "unload"
              /\ codec' = [c EXCEPT !.fmt = 0]
              /\ audio' = Reply(FALSE)
           \/ /\ cmd = "go"
              /\ codec' = IF c.fmt = 0 THEN c ELSE [c EXCEPT !.pc = "decode"]
              /\ audio' = Reply(c.fmt # 0)
           \/ /\ cmd \in Seeks /\ c.fmt # 0
              /\ codec' = [c EXCEPT !.queue = Append(@, "reseek"), !.pc = "decode"]
              /\ audio' = Answered(cmd, TRUE)
           \/ /\ cmd \in Seeks /\ c.fmt = 0
              /\ codec' = [c EXCEPT !.pc = "seeked"]
              /\ audio' = Post(Answered(cmd, TRUE), "seeked", 0)
           \/ /\ cmd \in {"stop", "pause"}
              /\ codec' = c
              /\ audio' = Reply(FALSE)
        /\ UNCHANGED <<pcm, user>>

\* codec_get_command_callback
GetCommand ==
    LET cmd == Head(codec.queue)
        c == Took(codec)
    IN  /\ codec.pc \in {"decode", "paused"} /\ codec.queue # <<>>
        /\ codec' = CASE cmd = "pause" -> [c EXCEPT !.pc = "paused"]
                      [] cmd \in Seeks -> [c EXCEPT !.pc = "seek"]
                      [] cmd = "stop" -> [codec EXCEPT !.pc = "ended"]
                      [] OTHER -> [c EXCEPT !.pc = "decode"]
        /\ audio' = CASE cmd = "stop" -> audio
                      [] cmd \in {"load", "unload"} -> Reply(FALSE)
                      [] OTHER -> Answered(cmd, TRUE)
        /\ UNCHANGED <<pcm, user>>

\* codec_pcmbuf_insert_callback.  With a message in the queue, GetCommand is
\* next; the data at hand is dropped.
Decode ==
    /\ codec.pc = "decode" /\ codec.queue = <<>>
    /\ \/ /\ codec.left = 0 \/ codec.track \in Failing
          /\ codec' = [codec EXCEPT !.pc = "ended"]
          /\ UNCHANGED pcm
       \/ /\ codec.left > 0 /\ HasSpace(pcm)
          /\ codec' = [codec EXCEPT !.left = @ - 1]
          /\ pcm' = Inserted(pcm, codec.track, MayPlay(audio))
    /\ UNCHANGED <<audio, user>>

\* The codec seeks; while the audio thread halts it this may fail, which is
\* an error that ends the codec.
Seek ==
    /\ codec.pc = "seek"
    /\ \/ /\ codec' = [codec EXCEPT !.pc = "seeked", !.left = Units[codec.track]]
          /\ audio' = Post(audio, "seeked", 0)
       \/ /\ AtHead({"stop", "pause"})
          /\ codec' = [codec EXCEPT !.pc = "ended"]
          /\ UNCHANGED audio
    /\ UNCHANGED <<pcm, user>>

\* codec_seek_complete_callback waits with codec_check_queue__have_msg.
Seeked ==
    LET cmd == Head(codec.queue)
        on == IF codec.fmt = 0 THEN "main" ELSE "decode"
    IN  /\ codec.pc = "seeked" /\ codec.queue # <<>>
        /\ \/ /\ cmd \in Seeks \cup {"pause", "stop"}
              /\ codec' = [codec EXCEPT !.pc = on]
              /\ UNCHANGED audio
           \/ /\ cmd \in {"go", "load", "unload"}
              /\ codec' = [Took(codec) EXCEPT !.pc = IF cmd = "go" THEN on ELSE @]
              /\ audio' = Reply(cmd = "go")
        /\ UNCHANGED <<pcm, user>>

Codec == CodecEnds \/ CodecMain \/ GetCommand \/ Decode \/ Seek \/ Seeked

-------------------------------------------------------------------------------
(* The mixer's interrupt and the user.                                       *)

Play ==
    /\ pcm.chan = "playing"
    /\ pcm' = PcmCallback(pcm)
    /\ UNCHANGED <<audio, codec, user>>

\* apps/gui/wps.c and others.  While a seek key is held, nothing else is done.
Command(cmd) == cmd \in Commands /\ user.left > 0 /\ ~user.hold
                /\ UNCHANGED <<pcm, codec>>
Playing == audio.status # "stopped"

\* audio_skip
Skip(cmd, d) ==
    LET rest == IF audio.queue # <<>> /\ Head(audio.queue).type = "skip"
                THEN Tail(audio.queue) ELSE audio.queue
    IN  /\ Command(cmd) /\ Playing /\ PlaylistCheck(audio, user.skip + d)
        /\ user' = [Spend EXCEPT !.skip = @ + d]
        /\ audio' = Post([audio EXCEPT !.queue = rest], "skip", 0)

\* audio_ff_rewind alone, or after audio_pre_ff_rewind with the key held
SeekTo == /\ Command("seek") /\ Playing
          /\ user' = Spend /\ audio' = Post(audio, "seek", 0)
HoldSeek == /\ Command("restart") /\ Playing
            /\ user' = [Spend EXCEPT !.hold = TRUE]
            /\ audio' = Post(audio, "preseek", 0)
ReleaseSeek == /\ user.hold
               /\ user' = [user EXCEPT !.hold = FALSE]
               /\ audio' = Post(audio, "seek", 0)
               /\ UNCHANGED <<pcm, codec>>
Pause == /\ Command("pause") /\ Playing
         /\ user' = Spend
         /\ \E b \in {0, 1} : audio' = Post(audio, "pause", b)
Simple(cmd, type) == Command(cmd) /\ user' = Spend /\ audio' = Post(audio, type, 0)

Audio == Handle \/ Scan \/ Continue
User == \/ Skip("next", 1) \/ Skip("prev", -1) \/ SeekTo \/ HoldSeek \/ ReleaseSeek
        \/ Pause \/ Simple("flush", "flush") \/ Simple("nextdir", "dirskip")
        \/ Simple("stop", "stop") \/ Simple("play", "play")

Next == Audio \/ Codec \/ Play \/ MetadataRead \/ Plea("low") \/ Plea("rebuffer") \/ User

\* WF_vars(Audio), with its ENABLED written out.
AudioReady ==
    ~audio.wait /\ (audio.next # "idle" \/ audio.queue # <<>> \/ Scanning)
AudioRuns == []<>~AudioReady \/ []<><<Audio>>_vars

Fairness == /\ AudioRuns /\ WF_vars(Codec) /\ WF_vars(Play)
            /\ WF_vars(MetadataRead) /\ WF_vars(ReleaseSeek)
Spec == Init /\ [][Next]_vars /\ Fairness

-------------------------------------------------------------------------------
(* What must hold.                                                           *)

Messages(type) == {m \in ToSet(audio.queue) : m.type = type}
Idle == audio.next = "idle" /\ ~audio.wait

\* The parts of each record fit together: what is loading is the last of the
\* list, no two tracks share a handle, the mark is on a chunk that is there.
TypeOK ==
    /\ audio.pl \in Tracks /\ audio.skipped \subseteq Tracks
    /\ audio.cur \in 0 .. Len(audio.list) /\ (audio.cur = 0 <=> audio.list = <<>>)
    /\ IsInjective([i \in DOMAIN audio.list |-> audio.list[i].id])
    /\ audio.loading # 0 => audio.list # <<>> /\ Last(audio.list).id = audio.loading
    /\ Len(pcm.chunks) <= PcmSize + 1 /\ pcm.mark \in 0 .. Len(pcm.chunks)
    /\ pcm.chan = "playing" => pcm.chunks # <<>>
    /\ codec.left \in Nat /\ Len(codec.queue) <= 2

\* What is heard is the track shown: between two messages, the chunk played is
\* of the track of PLAYING_ID3, or its change has been notified and the
\* audio thread has not heard of it yet, or the track shown is still loading.
HeardIsShown ==
    (Idle /\ pcm.chan = "playing") =>
        \/ Head(pcm.chunks) = audio.shown \/ user.over
        \/ audio.shown = 0 /\ HasCurrent(audio) /\ ~Current(audio).ready
        \/ audio.skip # "none" /\ (pcm.posts > 0 \/ Messages("changed") # {})

\* The list, the playlist and skip_pending keep step: whatever skips, pleas and
\* failed loads come while a change is pending, the track to decode is the one
\* the playlist names, one step ahead of it during an automatic change.
SkipLands ==
    (Idle /\ HasCurrent(audio)) =>
        Current(audio).track = Peek(audio, IF audio.skip = "auto" THEN 1 ELSE 0)

\* The codec reads from the handle of the current track, which is open: no
\* message closes or replaces a track under a codec that has not been halted.
DecodesCurrent ==
    codec.pc \in {"decode", "paused", "seek", "seeked"} /\ codec.fmt # 0 /\ Idle =>
        HasCurrent(audio) /\ Current(audio).id = codec.id /\ Current(audio).ready

\* Track list, PCM ring and codec each are well formed, and the codec is at
\* work on the list's current track.
DecoderSound == TypeOK /\ DecodesCurrent

\* What the audio thread finds in its queue about the codec is still so: a
\* track reported complete is not being decoded again, and a codec reported
\* to have sought waits for the word to go on.
ReportsAreTrue ==
    /\ Messages("complete") # {} => codec.pc \in {"main", "ended"}
    /\ Idle /\ Messages("seeked") # {} => codec.pc = "seeked"

\* Seek mode, which silences the output, is on only while a key is held, a
\* seek is on its way or the codec seeks: whatever comes in between.
SeekModeEnds ==
    (Idle /\ audio.ffrw /\ ~user.hold /\ Messages("seek") = {}) => audio.seeking

\* Every command is done with: the audio thread never waits for ever for an
\* answer of the codec thread, and never runs out of turns of its own.
AudioReturns == []<>Idle

\* Unless it is paused, playback comes to the end of the playlist: no message
\* is lost that drives it on, whatever the user did and whichever tracks fail.
\* Two kinds of seek are known to stop it: one in seek mode whose track is not
\* loaded yet leaves that mode on, and one on a track without a codec takes the
\* notification away that would lead to the next track.
Stuck == user.lost /\ (audio.ffrw \/ codec.fmt = 0)
PlaylistEnds == audio.status = "playing" ~> audio.status # "playing" \/ Stuck
=============================================================================
