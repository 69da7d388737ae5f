---------------------------- MODULE ThreadTimeouts ----------------------------
(***************************************************************************)
(* Bounded waits of threads in firmware/kernel/thread.c: the list of       *)
(* threads with a timeout, from which a woken thread is not taken off; the *)
(* tick of the next check; and the check itself, which lets interrupts in  *)
(* between two threads of the list.  The tick counter wraps.               *)
(***************************************************************************)
EXTENDS Integers, Sequences, FiniteSets, FiniteSetsExt, SequencesExt

CONSTANTS Threads,
          NoThread,     \* a NULL thread pointer
          Wrap,         \* values of current_tick (2^32)
          MaxTicks,     \* the longest timeout
          Minute,       \* 60*HZ: the longest time between two checks
          Late          \* ticks that a due check, or one in progress, lasts

ASSUME TimeoutAssumption ==
    /\ Wrap \in Nat /\ MaxTicks \in Nat \ {0} /\ Minute \in Nat \ {0}
    /\ Late \in Nat /\ 2 * (MaxTicks + Minute + 2 * Late) < Wrap
    /\ NoThread \notin Threads

VARIABLES
    tick,       \* current_tick
    state,      \* thread->state: "killed", "running" (runnable), "blocked",
                \* "sleeping" or "blocked_tmo"
    expires,    \* thread->tmo_tick, 0 unless the thread waits for it
    tmo,        \* corep->tmo, from its head on
    check,      \* corep->next_tmo_check
    scan,       \* check_tmo_expired_inner's locals, and whether it is running:
                \* [on, thread, prev, tick, next]
    left        \* history: ticks until the wait may time out, 0 when it may,
                \* negative when it is overdue
vars == <<tick, state, expires, tmo, check, scan, left>>

Timed == {"sleeping", "blocked_tmo"}    \* state >= TIMEOUT_STATE_FIRST
Waiting == {t \in Threads : state[t] \in Timed}
Listed == ToSet(tmo)
NoScan == [on |-> FALSE, thread |-> NoThread, prev |-> NoThread,
           tick |-> 0, next |-> 0]

Init ==
    /\ tick \in 0..(Wrap - 1) /\ check = tick
    /\ state = [t \in Threads |-> "running"]
    /\ expires = [t \in Threads |-> 0]
    /\ tmo = <<>>
    /\ scan = NoScan
    /\ left = [t \in Threads |-> 0]

\* Slips the definitions below could have made.
Before_Unsigned(a, b) == a < b
Earlier_Ignored(a, b) == b
Delist_Forgotten(s, t) == s

\* TIME_BEFORE: the sign of the wrapped difference.
Before(a, b) == (a - b) % Wrap >= Wrap \div 2

\* next_tmo_check is only ever moved closer.
Earlier(a, b) == IF Before(a, b) THEN a ELSE b

\* tmo_queue_register: a thread still in the list stays where it is.
Enlist(t) == tmo' = IF t \in Listed THEN tmo ELSE Append(tmo, t)

\* tmo_queue_remove
Delist(s, t) == RemoveFirst(s, t)

\* The thread behind t in the list; the first one for NoThread.
After(t) ==
    LET i == IF t = NoThread THEN 1 ELSE 1 + CHOOSE j \in DOMAIN tmo : tmo[j] = t
    IN IF i <= Len(tmo) THEN tmo[i] ELSE NoThread

-------------------------------------------------------------------------------
\* prepare_block for n ticks, as sleep_thread (which adds one to what it is
\* asked for) and block_thread_ call it.
PrepareBlock(t, s, n) ==
    /\ ~scan.on /\ state[t] = "running"
    /\ state' = [state EXCEPT ![t] = s]
    /\ expires' = [expires EXCEPT ![t] = (tick + n) % Wrap]
    /\ check' = Earlier((tick + n) % Wrap, check)
    /\ Enlist(t)
    /\ left' = [left EXCEPT ![t] = n]
    /\ UNCHANGED <<tick, scan>>

\* prepare_block without a timeout: the thread may still be in the list.
BlockForever(t) ==
    /\ ~scan.on /\ state[t] = "running"
    /\ state' = [state EXCEPT ![t] = "blocked"]
    /\ UNCHANGED <<tick, expires, tmo, check, scan, left>>

\* wakeup_thread_, from a thread or an interrupt handler; a sleeper is only
\* woken by its timeout.
Wakeup(t) ==
    /\ state[t] \in {"blocked", "blocked_tmo"}
    /\ state' = [state EXCEPT ![t] = "running"]
    /\ expires' = [expires EXCEPT ![t] = 0]
    /\ left' = [left EXCEPT ![t] = 0]
    /\ UNCHANGED <<tick, tmo, check, scan>>

\* thread_exit, and create_thread in the slot it leaves.
Exit(t) ==
    /\ ~scan.on /\ state[t] = "running"
    /\ state' = [state EXCEPT ![t] = "killed"]
    /\ tmo' = Delist(tmo, t)
    /\ UNCHANGED <<tick, expires, check, scan, left>>

Create(t) ==
    /\ ~scan.on /\ state[t] = "killed"
    /\ state' = [state EXCEPT ![t] = "running"]
    /\ UNCHANGED <<tick, expires, tmo, check, scan, left>>

\* The tick interrupt.  The program comes to switch_thread, and through the
\* check, within Late ticks.
Tick ==
    /\ IF scan.on THEN (tick - scan.tick) % Wrap < Late
       ELSE Before(tick, check) \/ (tick - check) % Wrap < Late
    /\ tick' = (tick + 1) % Wrap
    /\ left' = [t \in Threads |-> IF t \in Waiting THEN left[t] - 1 ELSE left[t]]
    /\ UNCHANGED <<state, expires, tmo, check, scan>>

\* check_tmo_expired, in switch_thread.
CheckBegin ==
    /\ ~scan.on /\ ~Before(tick, check)
    /\ scan' = [on |-> TRUE, thread |-> After(NoThread), prev |-> NoThread,
                tick |-> tick, next |-> (tick + Minute) % Wrap]
    /\ UNCHANGED <<tick, state, expires, tmo, check, left>>

\* One thread of the list: it stays, or its wait is over, or it waits no more
\* and is taken off (tmo_queue_expire takes off what is behind prev).
CheckThread ==
    LET t == scan.thread
        pending == state[t] \in Timed /\ Before(scan.tick, expires[t])
    IN /\ scan.on /\ t # NoThread
       /\ IF pending
          THEN /\ scan' = [scan EXCEPT !.next = Earlier(expires[t], @),
                                       !.thread = After(t), !.prev = t]
               /\ UNCHANGED <<state, expires, left, tmo>>
          ELSE /\ scan' = [scan EXCEPT !.thread = After(t)]
               /\ tmo' = Delist(tmo, After(scan.prev))
               /\ state' = [state EXCEPT ![t] = IF @ \in Timed THEN "running" ELSE @]
               /\ expires' = [expires EXCEPT ![t] = 0]
               /\ left' = [left EXCEPT ![t] = 0]
       /\ UNCHANGED <<tick, check>>

CheckEnd ==
    /\ scan.on /\ scan.thread = NoThread
    /\ check' = scan.next
    /\ scan' = NoScan
    /\ UNCHANGED <<tick, state, expires, tmo, left>>

Check == CheckBegin \/ CheckThread \/ CheckEnd

Next ==
    \/ \E t \in Threads, s \in Timed, n \in 0..MaxTicks :
           (s = "sleeping" => n > 0) /\ PrepareBlock(t, s, n)
    \/ \E t \in Threads : BlockForever(t) \/ Wakeup(t) \/ Exit(t) \/ Create(t)
    \/ Tick \/ Check

Spec == Init /\ [][Next]_vars

-------------------------------------------------------------------------------
TypeOK ==
    /\ tick \in 0..(Wrap - 1) /\ check \in 0..(Wrap - 1)
    /\ state \in [Threads -> {"killed", "running", "blocked"} \cup Timed]
    /\ expires \in [Threads -> 0..(Wrap - 1)]
    /\ Listed \subseteq Threads /\ IsInjective(tmo)
    /\ scan.thread \in Threads \cup {NoThread}
    /\ scan.prev \in Threads \cup {NoThread}

\* As long as the scheduler sees no reason to check, nobody's time is up: the
\* tick of the next check is never after the first timeout, although woken
\* threads stay in the list and threads come and go while a check runs.
NobodyOverlooked ==
    ~scan.on /\ Before(tick, check) => \A t \in Waiting : left[t] > 0

\* A thread that waits with a timeout is in the list, once; a thread that is
\* gone is not, so that its slot can be used again.
ListedWhileWaiting ==
    /\ Waiting \subseteq Listed
    /\ \A t \in Threads : state[t] = "killed" => t \notin Listed

\* The timeout list is sound: linked once, complete, without dead threads.
ListSound == TypeOK /\ ListedWhileWaiting

\* "Sleeps a thread for at least a specified number of ticks": a sleeper goes
\* on only when its ticks have passed, whatever the counter's value.
NeverEarly ==
    [][\A t \in Threads :
        state[t] = "sleeping" /\ state'[t] # "sleeping" => left[t] <= 0]_vars

\* Every wait with a timeout ends soon after its time is up: the scheduler
\* may come to a check Late ticks after it is due, the check may last Late
\* ticks, and it goes by the tick at which it began.  No wait is overdue by more.
OverdueBounded == \A t \in Waiting : left[t] >= -2 * Late
===============================================================================
