----------------------------- MODULE MessageQueue -----------------------------
(***************************************************************************)
(* What a message queue with synchronous senders promises: messages come   *)
(* out in the order they went in, and the thread behind a sent message     *)
(* waits exactly until its own message was answered or dropped.  EventQueue*)
(* implements it with a ring of events, an array of senders and two        *)
(* counters that wrap.                                                     *)
(***************************************************************************)
EXTENDS Naturals, Sequences

CONSTANTS Senders,   \* threads that send and wait for the answer
          NoThread   \* the sender of a message nobody waits for

VARIABLES pending,   \* the messages in the queue, named after their senders
          handled,   \* sender whose message the owner took and has not answered
          waiting    \* senders that wait

mvars == <<pending, handled, waiting>>

Init == pending = << >> /\ handled = NoThread /\ waiting = {}

Post == /\ pending' = Append(pending, NoThread)
        /\ UNCHANGED <<handled, waiting>>

Send(t) == /\ t \notin waiting
           /\ pending' = Append(pending, t)
           /\ waiting' = waiting \cup {t}
           /\ UNCHANGED handled

\* The k-th message leaves the queue.
Remove(k) == pending' = [i \in 1..(Len(pending) - 1) |->
                           IF i < k THEN pending[i] ELSE pending[i + 1]]

\* The owner takes a message, which answers the one it took before.
Take(k) == /\ Remove(k)
           /\ handled' = pending[k]
           /\ waiting' = waiting \ {handled}

Answer == /\ handled' = NoThread
          /\ waiting' = waiting \ {handled}
          /\ UNCHANGED pending

\* A message is dropped, or all of them, and those who wait for it let go.
Drop(k) == /\ Remove(k)
           /\ waiting' = waiting \ {pending[k]}
           /\ UNCHANGED handled

DropAll == /\ pending' = << >>
           /\ \/ waiting' = waiting \cap {handled} /\ UNCHANGED handled
              \/ waiting' = {} /\ handled' = NoThread

Next == \/ Post \/ Answer \/ DropAll
        \/ \E t \in Senders : Send(t)
        \/ \E k \in 1..Len(pending) : Take(k) \/ Drop(k)

Spec == Init /\ [][Next]_mvars

===============================================================================
