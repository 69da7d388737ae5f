------------------------------ MODULE Buffering ------------------------------
(***************************************************************************)
(* apps/buffering.c: a ring that holds the files of the tracks to come,    *)
(* each behind its handle's struct.  The buffering thread reads files,     *)
(* closes and moves handles; the audio thread opens handles and asks it to *)
(* close them; the codec thread reads, advances and seeks in the audio     *)
(* handle of the current track, and waits where data is missing.           *)
(*                                                                         *)
(* Threads are cooperative: another one runs only while the buffering      *)
(* thread waits for a message or for the disk, or yields after a read.     *)
(* llist_mutex is never held across such a point by the calls modelled.    *)
(***************************************************************************)
EXTENDS Ring, Sequences, FiniteSets, FiniteSetsExt, SequencesExt

CONSTANTS Handles,      \* handle ids; as many as BUF_MAX_HANDLES lets in
          NoHandle,     \* an id that is in no list
          Parts,        \* kinds of handle a track may have, in opening order
          Sizes,        \* Sizes[k]: sizes of files of kind k
          Chunk,        \* BUFFERING_DEFAULT_FILECHUNK
          Watermark,    \* BUF_WATERMARK
          GetSizes,     \* what a codec asks bufgetdata for
          SeekTo,       \* where a codec seeks
          MaxSeeks,     \* bound on the seeks in a run
          Failing,      \* kinds of file whose reads may fail
          Lapses        \* steps that may happen, of "pad": bufopen aligns data
                        \* past the room a partial allocation has left; and
                        \* "truncate": a file fails while a seek in it waits

ASSUME BufferingAssumption ==
    /\ IsFiniteSet(Handles) /\ Handles \subseteq Nat /\ NoHandle \notin Handles
    /\ \A i \in DOMAIN Parts : Parts[i] \subseteq {"info", "id3", "codec", "audio"}
    /\ Chunk \in Nat \ {0} /\ Lapses \subseteq {"pad", "truncate"}

VARIABLES
    order,      \* handle_list
    hd,         \* hd[h]: the fields of handle h; Closed if it is not listed
    ring,       \* the ring's memory: what each cell holds
    bq,         \* buffering_queue
    buf,        \* buffering_thread: its place and locals
    audio,      \* the audio thread: what it opens, closes or waits for
    codec,      \* the codec thread: its place, what it waits for or points to
    cur,        \* the current track's audio handle: base_handle_id, ci.audio_hid
    signaled,   \* cur's h->signaled
    asked       \* events in the audio thread's queue, each at most once
vars == <<order, hd, ring, bq, buf, audio, codec, cur, signaled, asked>>

Junk == <<NoHandle, 0>>
Closed == [kind |-> "closed", off |-> 0, data |-> 0, ridx |-> 0, widx |-> 0,
           start |-> 0, pos |-> 0, end |-> 0, fsize |-> 0, fpos |-> -1]

Listed == ToSet(order)
AllocAll(k) == k \in {"info", "id3"}        \* H_ALLOCALL
CanWrap(k) == k \in {"codec", "audio"}      \* H_CANWRAP
FirstOff == hd[Head(order)].off             \* HLIST_FIRST
Place(h) == CHOOSE i \in DOMAIN order : order[i] = h
IsLast(h) == h = Last(order)
Following(h) == IF IsLast(h) THEN NoHandle ELSE order[Place(h) + 1]
\* HLIST_NEXT(h) ?: HLIST_FIRST
NextOff(f, h) == f[order[(Place(h) % Len(order)) + 1]].off

\* The cells of handle h: its struct, and what it has read of its file.
StructCells(r) == r.off .. r.off + HandleSize - 1
DataCell(r, p) == RingAdd(r.data, p - r.start)
Held(r) == r.start .. Min({r.end, r.fsize}) - 1
Cells(r) == StructCells(r) \cup {DataCell(r, p) : p \in Held(r)}

\* Memory that no listed handle owns is of no interest.
Kept(m, f, o) ==
    LET owned == UNION {Cells(f[h]) : h \in ToSet(o)}
    IN  [i \in Offsets |-> IF i \in owned THEN m[i] ELSE Junk]

\* buffering_thread waits for a message.
Idle(fill) == [pc |-> "wait", h |-> NoHandle, left |-> 0, n |-> 0, to |-> 0,
               stop |-> FALSE, then |-> "tail", tmo |-> FALSE, filling |-> fill]

Init ==
    /\ order = <<>> /\ bq = <<>> /\ asked = <<>>
    /\ hd = [h \in Handles |-> Closed]
    /\ ring = [i \in Offsets |-> Junk]
    /\ buf = Idle(FALSE)
    /\ audio = [pc |-> "run", part |-> 1, full |-> FALSE, todo |-> <<>>,
                info |-> NoHandle, at |-> 0]
    /\ codec = [pc |-> "off", h |-> NoHandle, until |-> 0, at |-> 0, len |-> 0,
                seeks |-> 0]
    /\ cur = NoHandle /\ signaled = FALSE

-------------------------------------------------------------------------------
(* Slips that the definitions below could have made; nothing uses them.      *)

NeverPinned(h) == FALSE
NoPlea(e) == asked
UnsignaledHalt ==
    /\ buf.pc \in {"wait", "metadata", "read", "yield"}
    /\ audio.pc = "run" /\ codec.pc # "off"
    /\ audio' = [audio EXCEPT !.pc = "halting"]
    /\ UNCHANGED <<order, hd, ring, bq, buf, codec, cur, signaled, asked>>

-------------------------------------------------------------------------------
(* Handles: opening, closing, moving.                                        *)

\* add_handle's look at the last handle: where free space starts.
Reserve == LET r == hd[Last(order)] IN r.fsize - r.start
Free == IF order = <<>> THEN 0
        ELSE RingAdd(hd[Last(order)].data, Max({Reserve, 0}))
HasReserve ==
    (order # <<>> /\ Reserve > 0) =>
        CrossFull(hd[Last(order)].data, Reserve, FirstOff) <= 0

\* bufopen (and add_handle): where the handle of a file of that size goes.
Alignable(k) == k \in {"codec", "audio"}
Spot(k, size) ==
    Placement(Free, order # <<>>, IF order = <<>> THEN 0 ELSE FirstOff,
              IF Alignable(k) THEN StoragePad(size) ELSE size,
              CanWrap(k), AllocAll(k))
AlignPad(k, data) == IF Alignable(k) THEN StorageOverlap(-data) ELSE 0
DataStart(k, index) == LET d == RingAdd(index, HandleSize)
                       IN  RingAdd(d, AlignPad(k, d))
PadFits(k, index) ==
    LET d == RingAdd(index, HandleSize)
    IN  order # <<>> => CrossFull(d, AlignPad(k, d), FirstOff) <= 0

\* bufopen, and bufalloc for an "info": its data is there at once.
Opened(k, size, index) ==
    LET d == DataStart(k, index)
        got == IF k = "info" THEN size ELSE 0
    IN  [kind |-> k, off |-> index, data |-> d, ridx |-> d,
         widx |-> RingAdd(d, got), start |-> 0, pos |-> 0, end |-> got,
         fsize |-> size, fpos |-> -1]

\* H_PINNED: set while playback.c works with a track's info.
Pinned(h) == h = audio.info

\* shrink_handle on handle h of the state s = [hd, ring]
Shrunk(s, h) ==
    LET r == s.hd[h]
        size == IF r.kind = "audio" THEN 0 ELSE r.fsize - r.start
        room == IF r.kind = "audio" THEN SubEmpty(r.ridx, r.data)
                ELSE SubEmpty(NextOff(s.hd, h), r.data) - size
        d == MoveDelta(r.off, size, CanWrap(r.kind), room)
        moved == [r EXCEPT !.off = RingAdd(@, d), !.data = RingAdd(@, d)]
        stays == d = 0 \/ (r.kind # "audio" /\ (Pinned(h) \/ IsLast(h)))
    IN  IF stays THEN s
        ELSE [ring |-> Moved(s.ring, r.off, size, d),
              hd |-> [s.hd EXCEPT ![h] =
                        IF r.kind = "audio"
                        THEN [moved EXCEPT !.start = @ + d]
                        ELSE [moved EXCEPT !.ridx = RingAdd(@, d),
                                           !.widx = RingAdd(@, d)]]]

\* shrink_buffer goes from the last handle to the first, fill_buffer moves
\* the first one only.
ShrunkAll(s) == FoldRight(LAMBDA h, acc : Shrunk(acc, h), order, s)
ShrunkFirst(s) == Shrunk(s, Head(order))
Memory == [hd |-> hd, ring |-> ring]
Commit(s, o) == hd' = s.hd /\ ring' = Kept(s.ring, s.hd, o) /\ order' = o

\* update_data_counters
Remaining == MapThenSumSet(LAMBDA h : hd[h].fsize - hd[h].end, Listed)
Useful(f) ==
    LET from == IF cur \in Listed THEN Place(cur) ELSE 1
    IN  MapThenSumSet(LAMBDA h : f[h].end - f[h].pos,
                      {order[i] : i \in from .. Len(order)})

-------------------------------------------------------------------------------
(* The buffering thread.                                                     *)

Pass == UNCHANGED <<order, hd, ring>>
Clients == <<audio, codec, cur, signaled>>

\* queue_reply to the thread that sent the message at hand
ReplyTo(msg) ==
    IF msg.from = "audio"
    THEN audio' = [audio EXCEPT !.pc = "closing"] /\ UNCHANGED codec
    ELSE codec' = [codec EXCEPT !.pc = msg.reply] /\ UNCHANGED audio

\* buffer_event_buffer_low_callback and buffer_event_rebuffer_callback post
\* to the audio thread.  A second event of a kind would change nothing.
Asking(e) == IF e \in ToSet(asked) THEN asked ELSE Append(asked, e)

Call(h, left, then) ==
    buf' = [Idle(buf.filling) EXCEPT !.pc = "call", !.h = h, !.left = left,
                                     !.then = then]

Receive(type) == /\ buf.pc = "wait" /\ bq # <<>> /\ Head(bq).type = type
                 /\ bq' = Tail(bq) /\ UNCHANGED <<cur, signaled>>

\* Q_HANDLE_ADDED
HandleAdded ==
    /\ Receive("added")
    /\ buf' = [buf EXCEPT !.pc = "tail", !.filling = TRUE]
    /\ Pass /\ UNCHANGED <<audio, codec, asked>>

\* Q_CLOSE_HANDLE: close_handle
CloseHandle ==
    LET msg == Head(bq)
        left == SelectSeq(order, LAMBDA g : g # msg.h)
    IN  /\ Receive("close")
        /\ Commit([hd |-> [hd EXCEPT ![msg.h] = Closed], ring |-> ring], left)
        /\ ReplyTo(msg)
        /\ buf' = [buf EXCEPT !.pc = "tail"]
        /\ UNCHANGED asked

\* Q_START_FILL
StartFill ==
    /\ Receive("fill")
    /\ Commit(ShrunkAll(Memory), order)
    /\ ReplyTo(Head(bq))
    /\ Call(Head(bq).h, 0, "start")
    /\ UNCHANGED asked

\* Where rebuffer_handle and seek_handle put the read position.
ReadFrom(h, to) == [hd EXCEPT ![h].ridx = RingAdd(hd[h].data, to - hd[h].start),
                              ![h].pos = to]

\* Q_REBUFFER_HANDLE: rebuffer_handle up to its first read
Rebuffer ==
    LET msg == Head(bq)
        r == hd[msg.h]
        ahead == msg.pos - r.pos
        there == r.start <= msg.pos /\ msg.pos <= r.end
    IN  /\ Receive("rebuffer")
        /\ \/ /\ there
              /\ hd' = ReadFrom(msg.h, msg.pos)
              /\ ReplyTo(msg)
              /\ buf' = [buf EXCEPT !.pc = "tail"]
           \/ /\ ~there /\ ahead \in 1 .. Chunk
              /\ hd' = ReadFrom(msg.h, msg.pos)
              /\ buf' = [buf EXCEPT !.pc = "call", !.h = msg.h, !.to = msg.pos,
                                    !.left = ahead + 1, !.then = "short"]
              /\ UNCHANGED <<audio, codec>>
           \/ /\ ~there /\ ahead \notin 1 .. Chunk
              /\ buf' = [buf EXCEPT !.pc = "reset", !.h = msg.h, !.to = msg.pos]
              /\ UNCHANGED <<hd, audio, codec>>
        /\ UNCHANGED <<order, ring, asked>>

\* rebuffer_handle: the handle starts anew at the position sought.  If the
\* rest of the file does not fit before the next handle, the audio thread is
\* asked for room.
ResetAt(h, to) ==
    LET bare == RingAdd(hd[h].off, HandleSize)
        pad == StorageOverlap(to - bare)
        fits == CrossFull(bare, pad, NextOff(hd, h)) <= 0
        index == RingAdd(bare, IF fits THEN pad ELSE 0)
    IN  [hd[h] EXCEPT !.ridx = index, !.widx = index, !.data = index,
                      !.start = to, !.pos = to, !.end = to,
                      !.fpos = IF @ >= 0 THEN to ELSE @]
Reset ==
    LET r == ResetAt(buf.h, buf.to)
        plea == /\ ~IsLast(buf.h)
                /\ CrossFull(r.data, r.fsize - r.start, NextOff(hd, buf.h)) > 0
    IN  /\ buf.pc = "reset"
        /\ Commit([hd |-> [hd EXCEPT ![buf.h] = r], ring |-> ring], order)
        /\ asked' = IF plea THEN Asking("rebuffer") ELSE asked
        /\ codec' = [codec EXCEPT !.pc = "run"]
        /\ Call(buf.h, 0, "buffer")
        /\ UNCHANGED <<bq, audio, cur, signaled>>

\* rebuffer_handle: the file may have become shorter than the position sought.
NewPos(to, fsize) == Min({to, fsize})

\* buffer_handle returns: what its callers do next.
Return(more) ==
    \/ /\ buf.then = "buffer"
       /\ buf' = [buf EXCEPT !.pc = "tail"]
       /\ UNCHANGED <<codec, asked>>
    \/ /\ buf.then = "start"
       /\ buf' = [buf EXCEPT !.pc = "tail", !.filling = @ \/ more]
       /\ asked' = IF ~more /\ order # <<>> /\ Useful(hd') >= Watermark
                   THEN Asking("low") ELSE asked
       /\ UNCHANGED codec
    \/ /\ buf.then = "fill"
       /\ buf' = IF more THEN [buf EXCEPT !.pc = "fill", !.h = Following(@)]
                         ELSE Idle(FALSE)
       /\ UNCHANGED <<codec, asked>>
    \/ /\ buf.then = "short"
       /\ IF more /\ hd'[buf.h].end >= hd'[buf.h].pos
          THEN /\ Call(buf.h, 0, "buffer")
               /\ codec' = [codec EXCEPT !.pc = "run"]
          ELSE /\ buf' = [buf EXCEPT !.pc = "reset",
                                     !.to = NewPos(@, hd'[buf.h].fsize)]
               /\ UNCHANGED codec
       /\ UNCHANGED asked

\* A file that cannot be opened or read ends where reading stopped.
MayFail(h) ==
    /\ hd[h].kind \in Failing
    /\ "truncate" \notin Lapses => \A i \in DOMAIN bq : bq[i].type # "rebuffer"

\* buffer_handle up to its loop.  Only a file that had been read to its end
\* has been closed, or one not read at all: it is opened at h->start.
BufferHandle ==
    LET r == hd[buf.h]
        nothing == buf.h \notin Listed \/ r.end >= r.fsize
    IN  /\ buf.pc = "call"
        /\ \/ nothing /\ hd' = hd /\ Return(TRUE)
           \/ /\ ~nothing /\ r.fpos < 0 /\ MayFail(buf.h)
              /\ hd' = [hd EXCEPT ![buf.h].fsize = r.end]
              /\ Return(TRUE)
           \/ /\ ~nothing
              /\ hd' = [hd EXCEPT ![buf.h].fpos = IF @ < 0 THEN r.start ELSE @]
              /\ buf' = [buf EXCEPT !.pc = IF r.kind = "id3" THEN "metadata"
                                           ELSE "loop"]
              /\ UNCHANGED <<codec, asked>>
        /\ UNCHANGED <<order, ring, bq, audio, cur, signaled>>

\* The cells from widx on get the next bytes of the file.
Read(h, n) ==
    LET r == hd[h]
    IN  [i \in Offsets |-> IF r.widx <= i /\ i < r.widx + n
                           THEN <<h, r.fpos + (i - r.widx)>> ELSE ring[i]]

\* get_metadata_ex fills a handle of kind "id3" at once.
MetadataRead ==
    LET r == hd[buf.h]
        f == [hd EXCEPT ![buf.h].widx = RingAdd(r.data, r.fsize),
                        ![buf.h].end = r.fsize, ![buf.h].fpos = -1]
    IN  /\ buf.pc = "metadata"
        /\ Commit([hd |-> f, ring |-> Read(buf.h, r.fsize)], order)
        /\ Return(TRUE)
        /\ UNCHANGED <<bq, audio, cur, signaled>>

\* buffer_handle behind its loop
Finish == LET r == hd[buf.h]
          IN  hd' = [hd EXCEPT ![buf.h].fpos = IF r.end >= r.fsize THEN -1 ELSE @]

\* buffer_handle: the head of the loop.  The range to read is fixed here.
Loop ==
    LET r == hd[buf.h]
        want == Min({r.fsize - r.end, Chunk, BufLen - r.widx})
        overlap == CrossFull(r.widx, want, NextOff(hd, buf.h))
        n == want - Max({overlap, 0})
    IN  /\ buf.pc = "loop"
        /\ \/ /\ r.end >= r.fsize \/ buf.stop
              /\ Finish /\ Return(~buf.stop)
           \/ /\ r.end < r.fsize /\ ~buf.stop /\ n <= 0
              /\ hd' = hd /\ Return(FALSE)
           \/ /\ r.end < r.fsize /\ ~buf.stop /\ n > 0
              /\ buf' = [buf EXCEPT !.pc = "read", !.n = n, !.stop = overlap > 0]
              /\ UNCHANGED <<hd, codec, asked>>
        /\ UNCHANGED <<order, ring, bq, audio, cur, signaled>>

\* The read ends well; the thread yields.
ReadDone ==
    LET f == [hd EXCEPT ![buf.h].widx = RingAdd(@, buf.n),
                        ![buf.h].end = @ + buf.n, ![buf.h].fpos = @ + buf.n]
    IN  /\ buf.pc = "read"
        /\ Commit([hd |-> f, ring |-> Read(buf.h, buf.n)], order)
        /\ buf' = [buf EXCEPT !.pc = "yield"]
        /\ UNCHANGED <<bq, asked, Clients>>

\* The read fails: the file ends here, except a codec's.
ReadFails ==
    /\ buf.pc = "read" /\ MayFail(buf.h)
    /\ hd' = [hd EXCEPT ![buf.h].fsize = IF hd[buf.h].kind = "codec" THEN @
                                         ELSE hd[buf.h].end,
                        ![buf.h].fpos = IF hd[buf.h].kind = "codec" THEN @ ELSE -1]
    /\ Return(~buf.stop)
    /\ UNCHANGED <<order, ring, bq, audio, cur, signaled>>

\* After the yield: another read, unless this is all that was wanted or a
\* message waits.
AfterYield ==
    /\ buf.pc = "yield"
    /\ \/ /\ IF buf.left = 0 THEN bq # <<>> ELSE buf.left <= buf.n
          /\ Finish /\ Return(~buf.stop)
       \/ /\ IF buf.left = 0 THEN bq = <<>> ELSE buf.left > buf.n
          /\ buf' = [buf EXCEPT !.pc = "loop", !.n = 0,
                                !.left = IF @ = 0 THEN 0 ELSE @ - buf.n]
          /\ UNCHANGED <<hd, codec, asked>>
    /\ UNCHANGED <<order, ring, bq, audio, cur, signaled>>

\* queue_wait_w_tmo ends with SYS_TIMEOUT.
Timeout ==
    /\ buf.pc = "wait" /\ bq = <<>> /\ order # <<>>
    /\ buf' = [buf EXCEPT !.pc = "tail", !.tmo = TRUE]
    /\ Pass /\ UNCHANGED <<bq, asked, Clients>>

\* buffering_thread after the message, then fill_buffer up to its loop.
ThreadTail ==
    LET low == ~buf.filling /\ buf.tmo /\ Useful(hd) < Watermark
        fill == Remaining # 0 /\ (buf.filling \/ low)
        start(s) == /\ Commit(s, order)
                    /\ buf' = [Idle(FALSE) EXCEPT !.pc = "fill", !.h = Head(order)]
    IN  /\ buf.pc = "tail"
        /\ IF order = <<>> \/ bq # <<>>
           THEN /\ buf' = Idle(buf.filling /\ order # <<>>)
                /\ Pass /\ UNCHANGED asked
           ELSE /\ asked' = IF low THEN Asking("low") ELSE asked
                /\ IF fill
                   THEN start(ShrunkFirst(IF low THEN ShrunkAll(Memory) ELSE Memory))
                   ELSE buf' = Idle(FALSE) /\ Pass
        /\ UNCHANGED <<bq, Clients>>

\* fill_buffer's loop over the handles
Fill ==
    /\ buf.pc = "fill"
    /\ \/ /\ buf.h = NoHandle \/ bq # <<>>
          /\ buf' = Idle(buf.h # NoHandle)
       \/ /\ buf.h # NoHandle /\ bq = <<>>
          /\ IF hd[buf.h].end < hd[buf.h].fsize
             THEN Call(buf.h, 0, "fill")
             ELSE buf' = [buf EXCEPT !.h = Following(@)]
    /\ Pass /\ UNCHANGED <<bq, asked, Clients>>

-------------------------------------------------------------------------------
(* The audio thread, apps/playback.c, as far as it uses the ring.            *)

\* Other threads run.
Yielding == buf.pc \in {"wait", "metadata", "read", "yield"}

Send(msg) == bq' = Append(bq, msg)
Post == [type |-> "added", from |-> "audio"]
CloseMsg(h, from) == [type |-> "close", h |-> h, from |-> from, reply |-> "run"]

\* A track is an "info" handle and those opened after it, up to the next.
InfoOf(h) == order[Max({i \in 1 .. Place(h) : hd[order[i]].kind = "info"})]
TrackOf(info) == SelectSeq(order, LAMBDA h : InfoOf(h) = info)
Infos == SelectSeq(order, LAMBDA h : hd[h].kind = "info")
Audios == SelectSeq(order, LAMBDA h : hd[h].kind = "audio")

NextPart == (audio.part % Len(Parts)) + 1
\* The id3 of the track at hand has come: BUFFER_EVENT_FINISHED was sent.
MetadataThere == \A h \in Listed : hd[h].kind = "id3" => hd[h].end >= hd[h].fsize

\* bufopen or bufalloc with room for the handle
Open(k, size) ==
    LET h == Min(Handles \ Listed)
        spot == Spot(k, size)
        r == Opened(k, size, spot.index)
        at(i) == IF i \in StructCells(r) THEN <<h, r.off - i - 1>>
                 ELSE IF \E p \in Held(r) : DataCell(r, p) = i
                 THEN <<h, i - r.data>> ELSE ring[i]
    IN  /\ Listed # Handles /\ HasReserve /\ spot.fits
        /\ "pad" \notin Lapses => PadFits(k, spot.index)
        /\ Commit([hd |-> [hd EXCEPT ![h] = r], ring |-> [i \in Offsets |-> at(i)]],
                  Append(order, h))
        /\ IF k = "info" THEN UNCHANGED bq ELSE Send(Post)
        /\ audio' = [audio EXCEPT !.part = NextPart]

\* bufopen or bufalloc without: a track of which only the info is there is
\* given up, and opening stops (STATE_FULL).
OpenFails(k, size) ==
    /\ Listed = Handles \/ ~HasReserve \/ ~Spot(k, size).fits
    /\ audio' = IF k = "id3"
                THEN [audio EXCEPT !.full = TRUE, !.part = 1, !.pc = "closing",
                                   !.todo = <<Last(order)>>]
                ELSE [audio EXCEPT !.full = TRUE]
    /\ UNCHANGED <<order, hd, ring, bq>>

LoadPart ==
    \E k \in Parts[audio.part] :
       /\ Yielding /\ audio.pc = "run" /\ ~audio.full
       /\ k \in {"codec", "audio"} => MetadataThere
       /\ \E size \in Sizes[k] : Open(k, size) \/ OpenFails(k, size)
       /\ UNCHANGED <<buf, codec, cur, signaled, asked>>

\* audio_buffer_codec: the codec is loaded already, or is the track's own.
NeedsNoCodec ==
    /\ Yielding /\ audio.pc = "run" /\ ~audio.full /\ Parts[audio.part] = {"codec"}
    /\ audio' = [audio EXCEPT !.part = NextPart]
    /\ UNCHANGED <<order, hd, ring, bq, buf, codec, cur, signaled, asked>>

\* track_list_clear: the handles of each track are closed, its info last.
Closing(infos) ==
    FlattenSeq([i \in DOMAIN infos |->
        SelectSeq(TrackOf(infos[i]), LAMBDA h : h # infos[i]) \o <<infos[i]>>])
Clear(infos) ==
    audio' = [audio EXCEPT !.todo = Closing(infos), !.full = FALSE, !.pc = "closing",
                           !.part = IF Infos # <<>> /\ Last(Infos) \in ToSet(infos)
                                    THEN 1 ELSE @]
CurInfo == IF cur \in Listed THEN InfoOf(cur) ELSE NoHandle

TakeEvent(e) == /\ Yielding /\ audio.pc = "run" /\ asked # <<>>
                /\ Head(asked) = e /\ asked' = Tail(asked)

\* BUFFER_EVENT_BUFFER_LOW: what was played goes.
OnLow ==
    /\ TakeEvent("low")
    /\ IF audio.full
       THEN Clear(IF cur = NoHandle THEN Infos
                  ELSE SelectSeq(Infos, LAMBDA i : Place(i) < Place(CurInfo)))
       ELSE UNCHANGED audio
    /\ UNCHANGED <<order, hd, ring, bq, buf, codec, cur, signaled>>

\* BUFFER_EVENT_REBUFFER: all but the current track goes.
OnRebuffer ==
    /\ TakeEvent("rebuffer")
    /\ Clear(SelectSeq(Infos, LAMBDA i : i # CurInfo))
    /\ UNCHANGED <<order, hd, ring, bq, buf, codec, cur, signaled>>

\* track_list_free_buf_info: the track's info is pinned and used while its
\* handles are closed, one queue_send each.
CloseNext ==
    /\ Yielding /\ audio.pc = "closing"
    /\ IF audio.todo = <<>>
       THEN /\ audio' = [audio EXCEPT !.pc = "run", !.info = NoHandle, !.at = 0]
            /\ UNCHANGED bq
       ELSE LET h == Head(audio.todo)
                info == InfoOf(h)
            IN  /\ Send(CloseMsg(h, "audio"))
                /\ audio' = [audio EXCEPT
                      !.pc = "sent", !.todo = Tail(@),
                      !.info = IF h = info THEN NoHandle ELSE info,
                      !.at = IF h = info THEN 0
                             ELSE IF audio.info = info THEN @ ELSE hd[info].data]
    /\ UNCHANGED <<order, hd, ring, buf, codec, cur, signaled, asked>>

\* audio_start_codec on handle h: its codec is read from the ring first, if
\* it is there.
StartCodec(h) ==
    LET mine == {g \in ToSet(TrackOf(InfoOf(h))) : hd[g].kind = "codec"}
    IN  /\ cur' = h
        /\ codec' = IF mine = {} THEN [codec EXCEPT !.pc = "run"]
                    ELSE [codec EXCEPT !.pc = "load",
                                      !.h = CHOOSE g \in mine : TRUE]

\* The codec is done with the current track: on with the next one, or, if it
\* is not in the ring, with an empty ring.
After(h) == LET later == SelectSeq(Audios, LAMBDA g : h \notin Listed \/ Place(g) > Place(h))
            IN  IF later = <<>> THEN NoHandle ELSE Head(later)
NextTrack ==
    /\ Yielding /\ audio.pc = "run" /\ codec.pc = "off"
    /\ \/ After(cur) # NoHandle /\ StartCodec(After(cur)) /\ UNCHANGED audio
       \/ /\ After(cur) = NoHandle /\ audio.full
          /\ Clear(Infos) /\ cur' = NoHandle /\ UNCHANGED codec
    /\ UNCHANGED <<order, hd, ring, bq, buf, signaled, asked>>

\* halt_decoding_track, for a skip or a stop: it waits for the codec.
Halt ==
    /\ Yielding /\ audio.pc = "run" /\ codec.pc # "off"
    /\ audio' = [audio EXCEPT !.pc = "halting"] /\ signaled' = TRUE
    /\ UNCHANGED <<order, hd, ring, bq, buf, codec, cur, asked>>
Halted ==
    /\ Yielding /\ audio.pc = "halting" /\ codec.pc = "off"
    /\ signaled' = FALSE
    /\ \/ \E h \in ToSet(Audios) : /\ StartCodec(h)
                                   /\ audio' = [audio EXCEPT !.pc = "run"]
       \/ Clear(Infos) /\ cur' = NoHandle /\ UNCHANGED codec
    /\ UNCHANGED <<order, hd, ring, bq, buf, asked>>

-------------------------------------------------------------------------------
(* The codec thread, apps/codec_thread.c.                                    *)

CodecOnly == UNCHANGED <<order, ring, buf, audio, cur, signaled, asked>>

\* prep_bufdata for n of what handle h holds: it is there, or it is waited
\* for, and the buffering thread is told.
Ready == LET r == hd[codec.h] IN r.end >= codec.until \/ r.end >= r.fsize
Take(h, n) ==
    /\ Yielding
    /\ codec' = [codec EXCEPT !.pc = "prep", !.h = h,
                              !.until = Min({hd[h].pos + n, hd[h].fsize})]
    /\ UNCHANGED <<hd, bq>> /\ CodecOnly

\* codec_load_buf's bufread of the whole codec, and a codec's bufgetdata
LoadCodec == codec.pc = "load" /\ Take(codec.h, hd[codec.h].fsize)
Get(n) == /\ codec.pc = "run" /\ codec.len = 0 /\ hd[cur].pos < hd[cur].fsize
          /\ Take(cur, n)

\* The data is there.  A codec copied out of the ring is closed.
Got ==
    /\ Yielding /\ codec.pc \in {"prep", "wait"} /\ Ready
    /\ codec.pc = "wait" => ~(signaled /\ codec.h = cur)
    /\ IF codec.h = cur
       THEN /\ codec' = [codec EXCEPT !.pc = "run", !.h = NoHandle, !.until = 0,
                   !.at = hd[cur].ridx,
                   !.len = Max({0, Min({codec.until, hd[cur].fsize}) - hd[cur].pos})]
            /\ UNCHANGED bq
       ELSE /\ codec' = [codec EXCEPT !.pc = "sent", !.h = NoHandle, !.until = 0]
            /\ Send(CloseMsg(codec.h, "codec"))
    /\ UNCHANGED hd /\ CodecOnly

\* Q_START_FILL is sent before the first sleep and again now and then.
Ping ==
    /\ Yielding /\ codec.pc \in {"prep", "wait"} /\ ~Ready
    /\ codec.pc = "wait" => ~(signaled /\ codec.h = cur)
    /\ Send([type |-> "fill", h |-> codec.h, from |-> "codec", reply |-> "wait"])
    /\ codec' = [codec EXCEPT !.pc = "sent"]
    /\ UNCHANGED hd /\ CodecOnly

\* The wait is abandoned: buf_signal_handle.
Abandon ==
    /\ Yielding /\ codec.pc = "wait" /\ signaled /\ codec.h = cur
    /\ codec' = [codec EXCEPT !.pc = "run", !.h = NoHandle, !.until = 0]
    /\ UNCHANGED <<hd, bq>> /\ CodecOnly

\* seek_handle, for bufseek and bufadvance
SeekHandle(to, seeks) ==
    LET r == hd[cur]
        moved == [codec EXCEPT !.at = 0, !.len = 0, !.seeks = seeks]
    IN  /\ Yielding /\ codec.pc = "run" /\ to <= r.fsize
        /\ \/ /\ (to < r.start \/ to >= r.end) /\ (to < r.fsize \/ r.end < r.fsize)
              /\ Send([type |-> "rebuffer", h |-> cur, pos |-> to, from |-> "codec",
                       reply |-> "run"])
              /\ codec' = [moved EXCEPT !.pc = "sent"]
              /\ UNCHANGED hd
           \/ /\ (r.start <= to /\ to < r.end) \/ (to = r.fsize /\ r.end >= r.fsize)
              /\ hd' = ReadFrom(cur, to)
              /\ codec' = moved
              /\ UNCHANGED bq
        /\ CodecOnly
Advance == codec.len > 0 /\ SeekHandle(hd[cur].pos + codec.len, codec.seeks)
Seek(to) == /\ codec.len = 0 /\ codec.seeks < MaxSeeks
            /\ SeekHandle(to, codec.seeks + 1)

\* The file is played, or a command to stop is taken.
Decoded ==
    /\ Yielding /\ codec.pc = "run"
    /\ audio.pc = "halting" \/ hd[cur].pos >= hd[cur].fsize
    /\ codec' = [codec EXCEPT !.pc = "off", !.at = 0, !.len = 0]
    /\ UNCHANGED <<hd, bq>> /\ CodecOnly

-------------------------------------------------------------------------------
BufferingThread ==
    \/ HandleAdded \/ CloseHandle \/ StartFill \/ Rebuffer
    \/ Reset \/ BufferHandle \/ MetadataRead \/ Loop \/ ReadDone \/ ReadFails
    \/ AfterYield \/ ThreadTail \/ Fill
AudioAnswers == OnLow \/ OnRebuffer \/ CloseNext \/ Halted
CodecWaits == LoadCodec \/ Got \/ Ping \/ Abandon
Next == \/ BufferingThread \/ Timeout
        \/ AudioAnswers \/ LoadPart \/ NeedsNoCodec \/ NextTrack \/ Halt
        \/ CodecWaits \/ Advance \/ Decoded
        \/ \E n \in GetSizes : Get(n)
        \/ \E p \in SeekTo : Seek(p)

Spec == Init /\ [][Next]_vars

\* Weak fairness of BufferingThread, with its ENABLED written out.
BufferingRuns ==
    <>[](buf.pc # "wait" \/ bq # <<>>) => []<><<BufferingThread>>_vars
FairSpec == /\ Spec /\ BufferingRuns /\ SF_vars(Timeout)
            /\ SF_vars(AudioAnswers) /\ SF_vars(CodecWaits) /\ SF_vars(Decoded)

-------------------------------------------------------------------------------
(* What is checked.                                                          *)

(***************************************************************************)
(* Types, and the order of the positions that the code subtracts from each *)
(* other without a check: a handle's data starts no later than it ends,    *)
(* and ends within its file; what is played next is not before its start.  *)
(* buffer_handle takes the differences as amounts to read,                 *)
(* update_data_counters adds them up, seek_handle makes an index of them.  *)
(***************************************************************************)
TypeOK ==
    /\ Listed \subseteq Handles /\ IsInjective(order)
    /\ \A h \in Listed :
          LET r == hd[h]
          IN  /\ {r.off, r.data, r.ridx, r.widx} \subseteq Offsets
              /\ r.off % StructAlign = 0
              /\ 0 <= r.start /\ r.start <= r.end /\ r.end <= r.fsize
              /\ r.start <= r.pos /\ r.fpos \in {-1} \cup r.start .. r.fsize
    /\ \A h \in Handles \ Listed : hd[h] = Closed
    /\ ring \in [Offsets -> {<<h, n>> : h \in Handles \cup {NoHandle},
                                       n \in -HandleSize .. BufLen}]
    /\ \A i \in DOMAIN bq : bq[i].type \in {"added", "close", "fill", "rebuffer"}
    /\ buf.pc \in {"wait", "tail", "call", "loop", "read", "yield", "metadata",
                   "reset", "fill"}
    /\ audio.pc \in {"run", "closing", "sent", "halting"}
    /\ codec.pc \in {"off", "load", "run", "prep", "wait", "sent"}
    /\ cur \in Handles \cup {NoHandle} /\ signaled \in BOOLEAN
    /\ IsInjective(asked) /\ ToSet(asked) \subseteq {"low", "rebuffer"}

(***************************************************************************)
(* No two handles ever overlap: each struct is intact where its handle     *)
(* says it is, and whatever a handle holds of its file is that part of the *)
(* file, in order, wrapped at the ring's end or not.  It takes the guards  *)
(* of add_handle, the amounts buffer_handle computes before it waits for   *)
(* the disk, shrink_handle's moves over the old copy, and rebuffer_handle's*)
(* resets to agree about where the next handle begins.                     *)
(***************************************************************************)
RingHoldsFiles ==
    \A h \in Listed :
       LET r == hd[h]
       IN  /\ \A i \in StructCells(r) : i < BufLen /\ ring[i] = <<h, r.off - i - 1>>
           /\ \A p \in Held(r) : ring[DataCell(r, p)] = <<h, p>>

(***************************************************************************)
(* The handles' positions are in order and the ring holds what they say.   *)
(***************************************************************************)
RingSound == TypeOK /\ RingHoldsFiles

(***************************************************************************)
(* A pointer into the ring stays good while it is used: what bufgetdata    *)
(* gave the codec is not moved, reset or overwritten until the codec has   *)
(* advanced past it or seeks (what wraps is in the guard buffer, a copy);  *)
(* the info that track_list_free_buf_info works with while it sends one    *)
(* message after the other stays where it is.                              *)
(***************************************************************************)
PointersHold ==
    /\ \A k \in 0 .. codec.len - 1 :
          codec.at + k < BufLen => ring[codec.at + k] = <<cur, hd[cur].pos + k>>
    /\ audio.info # NoHandle => hd[audio.info].data = audio.at

(***************************************************************************)
(* A codec that waits in bufread, bufgetdata, bufseek or bufadvance comes  *)
(* back: whatever fills the ring behind its file is given up in time, by   *)
(* BUFFER_LOW or REBUFFER, by the buffering thread's own moves, or the     *)
(* wait is abandoned.                                                      *)
(***************************************************************************)
ReadReturns == codec.pc \in {"prep", "wait", "sent"} ~> codec.pc \in {"run", "off"}

(***************************************************************************)
(* A skip or a stop goes through: halt_decoding_track blocks the audio     *)
(* thread, the one thread that frees room, until the codec has left the    *)
(* wait in which it may need that room.                                    *)
(***************************************************************************)
HaltReturns == audio.pc = "halting" ~> audio.pc # "halting"
=============================================================================
