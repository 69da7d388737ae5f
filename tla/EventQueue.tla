------------------------------ MODULE EventQueue ------------------------------
(***************************************************************************)
(* The event queue of firmware/kernel/queue.c with synchronous sending     *)
(* enabled: a ring of events, an array that maps each slot of the ring to  *)
(* the thread that waits for its answer, one owner that waits for events,  *)
(* threads that send, and posts from threads and interrupt handlers.       *)
(* Every call runs with interrupts off up to the point where it switches.  *)
(***************************************************************************)
EXTENDS Integers, Sequences, FiniteSets

CONSTANTS Senders,      \* threads that call queue_send
          NoThread,     \* a NULL thread pointer
          Length,       \* QUEUE_LENGTH
          Wrap,         \* values of the counters read and write (2^32)
          MaxPending    \* bound on the events in the queue: Length, or more
                        \* where an overflow is let happen

ASSUME QueueAssumption ==
    /\ Length \in Nat \ {0} /\ Wrap \in Nat /\ Wrap % Length = 0
    /\ MaxPending \in Nat /\ MaxPending < Wrap
    /\ NoThread \notin Senders

VARIABLES
    open,       \* q->send is set: between queue_init and queue_delete
    read,       \* q->read
    write,      \* q->write
    events,     \* q->events[]: whose message it is (NoThread: posted)
    senders,    \* q->send->senders[]
    curr,       \* q->send->curr_sender
    sender,     \* sender[t]: "free" or "blocked" in queue_send
    owner,      \* the owner: "busy", "blocked", "blocked_tmo" or "running"
                \* (made runnable inside queue_wait or queue_wait_w_tmo)
    wait,       \* its call: [tmo |-> it has a timeout, take |-> ev # NULL]
    queued,     \* the owner is in q->queue
    overrun     \* history: the ring has held more events than it has slots

ring == <<read, write, events, senders, curr>>
ownerVars == <<owner, wait, queued>>
vars == <<open, ring, sender, ownerVars, overrun>>

Slots == 0..(Length - 1)
Count == (write - read) % Wrap
Slot(k) == ((read + k) % Wrap) % Length     \* of the k-th event, from 0
WriteSlot == write % Length

Init == /\ open = TRUE
        /\ read = 0 /\ write = 0
        /\ events = [s \in Slots |-> NoThread]
        /\ senders = [s \in Slots |-> NoThread]
        /\ curr = NoThread
        /\ sender = [t \in Senders |-> "free"]
        /\ owner = "busy" /\ queued = FALSE
        /\ wait = [tmo |-> FALSE, take |-> TRUE]
        /\ overrun = FALSE

\* Slips the definitions below could have made.
Bumped_Ignored == {}
WakeOwner_OnlyBlocked ==
    IF owner = "blocked" THEN owner' = "running" /\ queued' = FALSE
                         ELSE UNCHANGED <<owner, queued>>
AutoReply_Missing == {}
Slid_EventsOnly(f, k) ==
    [s \in Slots |->
       IF f = events /\ (s - read) % Length \in 1..k
       THEN f[(s - 1) % Length] ELSE f[s]]

\* A counter's next value: unsigned arithmetic wraps.
Succ(x) == (x + 1) % Wrap

\* queue_release_sender: those in T return from queue_send (wakeup_thread).
Release(s, T) == [t \in Senders |-> IF t \in T THEN "free" ELSE s[t]]

\* queue_do_auto_reply answers the message taken before.
AutoReply == {curr}

\* The thread that an event put into the slot at write pushes out, if any.
Bumped == {senders[WriteSlot]}

\* queue_wake_waiter
WakeOwner == IF queued THEN owner' = "running" /\ queued' = FALSE
                       ELSE UNCHANGED <<owner, queued>>

\* queue_do_fetch_sender and queue_do_unblock_sender clear the event's slot.
FreeSlot(k) == senders' = [senders EXCEPT ![Slot(k)] = NoThread]

\* The events before the k-th (from 0) move up to fill its place.
Slid(f, k) ==
    [s \in Slots |-> IF (s - read) % Length \in 1..k
                     THEN f[(s - 1) % Length] ELSE f[s]]

-------------------------------------------------------------------------------
\* queue_post, from a thread or an interrupt handler.
Post ==
    /\ open /\ Count < MaxPending
    /\ write' = Succ(write)
    /\ events' = [events EXCEPT ![WriteSlot] = NoThread]
    /\ senders' = [senders EXCEPT ![WriteSlot] = NoThread]
    /\ sender' = Release(sender, Bumped)
    /\ WakeOwner
    /\ overrun' = (overrun \/ Count = Length)
    /\ UNCHANGED <<open, read, curr, wait>>

\* queue_send: the sender takes the slot and blocks until it is released.
Send(t) ==
    /\ open /\ Count < MaxPending /\ sender[t] = "free"
    /\ write' = Succ(write)
    /\ events' = [events EXCEPT ![WriteSlot] = t]
    /\ senders' = [senders EXCEPT ![WriteSlot] = t]
    /\ sender' = [Release(sender, Bumped) EXCEPT ![t] = "blocked"]
    /\ WakeOwner
    /\ overrun' = (overrun \/ Count = Length)
    /\ UNCHANGED <<open, read, curr, wait>>

\* queue_reply
Reply ==
    /\ open /\ owner = "busy" /\ curr # NoThread
    /\ sender' = Release(sender, {curr})
    /\ curr' = NoThread
    /\ UNCHANGED <<open, overrun, read, write, events, senders, ownerVars>>

\* The owner takes the event at the head, or leaves it there (ev = NULL).
Fetch(take, replied) ==
    IF take
    THEN /\ read' = Succ(read)
         /\ FreeSlot(0)
         /\ curr' = IF senders[Slot(0)] # NoThread THEN senders[Slot(0)]
                                                   ELSE replied
         /\ UNCHANGED <<write, events>>
    ELSE curr' = replied /\ UNCHANGED <<read, write, events, senders>>

\* queue_wait and queue_wait_w_tmo up to the point where they block: the
\* auto-reply, then the event if there is one.  A timeout of 0 never blocks.
WaitBegin(w, poll) ==
    /\ open /\ owner = "busy"
    /\ poll => w.tmo
    /\ sender' = Release(sender, AutoReply)
    /\ wait' = w
    /\ IF Count # 0
       THEN Fetch(w.take, NoThread) /\ UNCHANGED <<owner, queued>>
       ELSE /\ curr' = NoThread
            /\ IF poll THEN UNCHANGED <<owner, queued>>
               ELSE /\ owner' = IF w.tmo THEN "blocked_tmo" ELSE "blocked"
                    /\ queued' = TRUE
            /\ UNCHANGED <<read, write, events, senders>>
    /\ UNCHANGED <<open, overrun>>

\* check_tmo_expired makes the owner runnable and leaves it in q->queue.
WaitExpire ==
    /\ owner = "blocked_tmo"
    /\ owner' = "running"
    /\ UNCHANGED <<open, overrun, ring, sender, wait, queued>>

\* After the switch: nobody took the owner from q->queue, its time is up.
StillQueued == queued

\* The loop of both calls, once the owner has the processor again.  A waking
\* event may be gone; what is left of the timeout may be nothing.
WaitResume ==
    /\ owner = "running"
    /\ \/ /\ Count # 0
          /\ Fetch(wait.take, curr)
          /\ owner' = "busy"
          /\ UNCHANGED queued
       \/ /\ Count = 0
          /\ \/ ~wait.tmo /\ owner' = "blocked" /\ queued' = TRUE
             \/ /\ wait.tmo /\ StillQueued
                /\ owner' = "busy" /\ queued' = FALSE
             \/ /\ wait.tmo /\ ~StillQueued
                /\ \/ owner' = "busy" /\ UNCHANGED queued
                   \/ owner' = "blocked_tmo" /\ queued' = TRUE
          /\ UNCHANGED ring
    /\ UNCHANGED <<open, overrun, sender, wait>>

\* queue_peek_ex with QPEEK_REMOVE_EVENTS and ev = NULL removes an event and
\* lets its sender go; queue_remove_from_head does so at the head, from any
\* thread.  k is the place of the event that passed the filters.
Discard(k) ==
    /\ open /\ k < Count
    /\ LET gone == senders[Slot(k)]
           cleared == [senders EXCEPT ![Slot(k)] = NoThread]
       IN /\ sender' = Release(sender, {gone})
          /\ senders' = Slid(cleared, k)
    /\ events' = Slid(events, k)
    /\ read' = Succ(read)
    /\ UNCHANGED <<open, overrun, write, curr, ownerVars>>

\* queue_peek_ex with QPEEK_REMOVE_EVENTS and ev: the owner takes the event.
PeekTake(k) ==
    /\ open /\ k < Count /\ owner = "busy"
    /\ sender' = Release(sender, AutoReply)
    /\ curr' = senders[Slot(k)]
    /\ senders' = Slid([senders EXCEPT ![Slot(k)] = NoThread], k)
    /\ events' = Slid(events, k)
    /\ read' = Succ(read)
    /\ UNCHANGED <<open, overrun, write, ownerVars>>

\* queue_release_all_senders: every sender between read and write.
InWindow == {senders[Slot(k)] : k \in 0..(Count - 1)}
Emptied == [s \in Slots |->
              IF \E k \in 0..(Count - 1) : s = Slot(k) THEN NoThread
                                                       ELSE senders[s]]

\* queue_clear: the message the owner has taken keeps its sender waiting.
Clear ==
    /\ open
    /\ sender' = Release(sender, InWindow)
    /\ senders' = Emptied
    /\ read' = write
    /\ UNCHANGED <<open, overrun, write, events, curr, ownerVars>>

\* queue_delete, not while the owner waits on the queue; and queue_init with
\* queue_enable_queue_send, which clears the senders.
Delete ==
    /\ open /\ owner = "busy"
    /\ sender' = Release(sender, InWindow \cup {curr})
    /\ senders' = Emptied /\ curr' = NoThread
    /\ read' = write
    /\ open' = FALSE
    /\ UNCHANGED <<overrun, write, events, ownerVars>>

Reopen ==
    /\ ~open
    /\ open' = TRUE
    /\ read' = write
    /\ senders' = [s \in Slots |-> NoThread] /\ curr' = NoThread
    /\ UNCHANGED <<overrun, write, events, sender, ownerVars>>

-------------------------------------------------------------------------------
Waits == [tmo : BOOLEAN, take : BOOLEAN]
Wait == \/ \E w \in Waits, poll \in BOOLEAN : WaitBegin(w, poll)
        \/ WaitResume

\* Removals that leave no sender behind in the slot at the head.
Tidy(k) == k = 0 \/ senders[Slot(0)] = NoThread

Next == \/ Post \/ Reply \/ Wait \/ WaitExpire \/ Clear \/ Delete \/ Reopen
        \/ \E t \in Senders : Send(t)
        \/ \E k \in Slots : Tidy(k) /\ (Discard(k) \/ PeekTake(k))

Spec == Init /\ [][Next]_vars

\* The same with removals anywhere in the queue.
RemovingNext == Next \/ \E k \in Slots : Discard(k) \/ PeekTake(k)
RemovingSpec == Init /\ [][RemovingNext]_vars

\* The owner keeps coming back for events and is run when it is runnable.
TakingWait == \E w \in Waits, poll \in BOOLEAN : w.take /\ WaitBegin(w, poll)
FairSpec == Spec /\ WF_vars(TakingWait) /\ WF_vars(WaitResume)

-------------------------------------------------------------------------------
TypeOK ==
    /\ open \in BOOLEAN
    /\ read \in 0..(Wrap - 1) /\ write \in 0..(Wrap - 1)
    /\ events \in [Slots -> Senders \cup {NoThread}]
    /\ senders \in [Slots -> Senders \cup {NoThread}]
    /\ curr \in Senders \cup {NoThread}
    /\ sender \in [Senders -> {"free", "blocked"}]
    /\ owner \in {"busy", "blocked", "blocked_tmo", "running"}
    /\ wait \in Waits /\ queued \in BOOLEAN /\ overrun \in BOOLEAN

\* "If non-NULL, there is a thread waiting for the corresponding event": a
\* thread named in senders[] is blocked in queue_send and its message is in
\* that slot.  A name left behind would make a later event in the slot wake
\* that thread wherever it is by then.
SendersWait ==
    \A s \in Slots : senders[s] # NoThread =>
        sender[senders[s]] = "blocked" /\ events[s] = senders[s]

\* A thread blocked in queue_send can always be released, and only once: it is
\* the sender of one event in the queue or of the one the owner has taken.
WaitersRegistered ==
    /\ curr # NoThread => sender[curr] = "blocked"
    /\ \A t \in Senders : sender[t] = "blocked" =>
         Cardinality({s \in Slots : senders[s] = t}) = (IF curr = t THEN 0 ELSE 1)
    /\ \A s \in Slots : senders[s] # NoThread =>
         \E k \in 0..(Count - 1) : s = Slot(k)

\* The sender map is sound in both directions: who is in it waits, for the
\* event in that slot, and who waits is in it or has been taken by the owner.
SendersSound == TypeOK /\ SendersWait /\ WaitersRegistered

\* No wakeup is lost: the owner blocks only on an empty queue, where the next
\* event finds it; and it leaves the wait list before it leaves the call.
OwnerAwake ==
    /\ owner \in {"blocked", "blocked_tmo"} => queued /\ Count = 0
    /\ owner = "busy" => ~queued

\* Until it holds more events than it has slots, the ring with its senders
\* array and wrapping counters behaves as a sequence of messages whose senders
\* wait for their answers.
Pending == [i \in 1..Count |-> events[Slot(i - 1)]]
Waiting == {t \in Senders : sender[t] = "blocked"}
Messages == INSTANCE MessageQueue WITH
    pending <- Pending, handled <- curr, waiting <- Waiting
ImplementsMessageQueue ==
    Messages!Init /\ [][overrun' \/ Messages!Next]_(Messages!mvars)

\* Every queue_send returns, as long as the owner keeps taking events, even
\* when it never replies: its next wait does.
SendReturns == \A t \in Senders : sender[t] = "blocked" ~> sender[t] = "free"
===============================================================================
