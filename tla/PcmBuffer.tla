----------------------------- MODULE PcmBuffer -----------------------------
(***************************************************************************)
(* apps/pcmbuf.c: decoded chunks between the codec thread, that commits    *)
(* them, and the mixer's interrupt, that plays and frees them.  A buffer   *)
(* is a record                                                             *)
(*    chunks   the tracks of the committed chunks, chunk_ridx first        *)
(*    waiting  the track of the data not committed yet, 0 for none         *)
(*    mark     chunk_transidx, counted in chunks from the first; 0 if it   *)
(*             is INVALID_BUF_INDEX                                        *)
(*    chan     status of the mixer's channel                               *)
(*    posts    track_change.in - track_change.out of apps/playback.c       *)
(* Crossfade is off, which is the default, and so are low-latency mode and *)
(* fades; the data is left out.                                            *)
(***************************************************************************)
EXTENDS Naturals, Sequences

CONSTANTS PcmSize,      \* chunks the codec may fill
          LowData       \* chunks from which playback starts by itself

\* LOW_DATA is one second, and MIN_BUFFER_SIZE three.
ASSUME PcmAssumption == {PcmSize, LowData} \subseteq Nat /\ LowData + 1 < PcmSize

EmptyPcm == [chunks |-> <<>>, waiting |-> 0, mark |-> 0, chan |-> "stopped",
             posts |-> 0]

\* commit_chunks(COMMIT_ALL_DATA)
Committed(p) ==
    IF p.waiting = 0 THEN p
    ELSE [p EXCEPT !.chunks = Append(@, p.waiting), !.waiting = 0]

\* pcmbuf_play_start
PlayStart(p) == IF p.chan = "stopped" /\ p.chunks # <<>>
                THEN [p EXCEPT !.chan = "playing"] ELSE p

\* start_audio_playback
StartPlayback(p, mayPlay) == IF mayPlay THEN PlayStart(p) ELSE p

\* pcmbuf_play_stop with init_buffer_state
PlayStop(p) == [EmptyPcm EXCEPT !.posts = p.posts]

\* pcmbuf_pause
PcmPause(p, pause) ==
    IF p.chan # "stopped"
    THEN [p EXCEPT !.chan = IF pause THEN "paused" ELSE "playing"]
    ELSE IF pause THEN p ELSE PlayStart(p)

\* pcmbuf_monitor_track_change(true): the last chunk is marked.  Without one
\* the caller has to post the change at once: TracksOver.
TracksOver(p) == p.chunks = <<>>
MarkTrackEnd(p) == [p EXCEPT !.mark = Len(p.chunks)]

\* pcmbuf_monitor_track_change(false): what follows the mark is dropped.
CancelTrackChange(p) ==
    IF p.mark = 0 THEN p
    ELSE [p EXCEPT !.chunks = SubSeq(@, 1, p.mark), !.waiting = 0, !.mark = 0]

\* pcmbuf_request_buffer and pcmbuf_write_complete, for as much data as
\* completes a chunk and begins the next.
HasSpace(p) == Len(p.chunks) < PcmSize
Inserted(p, track, mayPlay) ==
    LET q == IF Len(p.chunks) >= LowData THEN StartPlayback(p, mayPlay) ELSE p
    IN  [Committed(q) EXCEPT !.waiting = track]

\* A slip: the notification is posted when the marked chunk begins to play.
EagerCallback(p) ==
    [p EXCEPT !.chunks = Tail(@),
              !.posts = @ + (IF p.mark = 2 THEN 1 ELSE 0),
              !.mark = IF @ \in {0, 2} THEN 0 ELSE @ - 1,
              !.chan = IF Len(p.chunks) = 1 THEN "stopped" ELSE @]

\* pcmbuf_pcm_callback: a chunk has been played.
PcmCallback(p) ==
    [p EXCEPT !.chunks = Tail(@),
              !.posts = @ + (IF p.mark = 1 THEN 1 ELSE 0),
              !.mark = IF @ = 0 THEN 0 ELSE @ - 1,
              !.chan = IF Len(p.chunks) = 1 THEN "stopped" ELSE @]
=============================================================================
