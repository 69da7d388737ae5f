---------------------------- MODULE KernelTimeouts ----------------------------
(***************************************************************************)
(* Callbacks on the timer tick: the list of tick tasks (firmware/kernel/   *)
(* tick.c, include/tick.h) and the list of timeouts, which one of the tick *)
(* tasks walks (firmware/kernel/timeout.c).  Both are arrays of pointers   *)
(* that the interrupt walks by position, while a callback may take itself  *)
(* off and move up those behind it.  Threads and other handlers change the *)
(* lists only between two tick interrupts.                                 *)
(***************************************************************************)
EXTENDS Integers, Sequences, FiniteSets, SequencesExt

CONSTANTS Timeouts,     \* struct timeout objects
          Tasks,        \* tick tasks other than timeout_tick
          timeout_tick, \* the tick task that walks the list of timeouts
          MaxTimeouts,  \* MAX_NUM_TIMEOUTS
          MaxInterval   \* bound on the interval of a timeout

ASSUME KernelTimeoutAssumption ==
    /\ IsFiniteSet(Tasks) /\ timeout_tick \notin Tasks
    /\ MaxTimeouts \in Nat \ {0} /\ MaxInterval \in Nat \ {0}

VARIABLES
    tick_funcs, \* the tick tasks, in the order of the array
    tmo_list,   \* the active timeouts, in the order of the array
    due,        \* tmo->expires - current_tick
    place,      \* call_tick_tasks: place in tick_funcs, 0 between interrupts
    at,         \* timeout_tick: place in tmo_list, 0 outside
    missed      \* history: interrupts in a row that did not call a task
tick_vars == <<tick_funcs, tmo_list, due, place, at, missed>>

All == Tasks \cup {timeout_tick}
Active == ToSet(tmo_list)
Installed == ToSet(tick_funcs)

TickInit ==
    /\ tick_funcs = <<>> /\ tmo_list = <<>>
    /\ due = [t \in Timeouts |-> 0]
    /\ place = 0 /\ at = 0
    /\ missed = [f \in All |-> 0]

\* Slips the definitions below could have made.
Put_InFront(s, x) == IF x \in ToSet(s) THEN s ELSE <<x>> \o s
TasksAfterCancel_Kept(list) == tick_funcs

\* find_array_ptr, and the store into the place it finds.
Put(s, x) == IF x \in ToSet(s) THEN s ELSE Append(s, x)

\* remove_array_ptr: find_array_ptr, and the gap is closed.
Removed(s, x) == RemoveFirst(s, x)

\* tick_remove_task(timeout_tick) when the last timeout is gone.
TasksAfterCancel(list) ==
    IF list = <<>> THEN Removed(tick_funcs, timeout_tick) ELSE tick_funcs

Call(f) == missed' = [missed EXCEPT ![f] = 0]
Reset(before, after) ==     \* a task not installed, or newly, has missed nothing
    missed' = [f \in All |-> IF f \in ToSet(before) /\ f \in ToSet(after)
                             THEN missed[f] ELSE 0]

-------------------------------------------------------------------------------
\* timeout_register: a new timeout needs room, an active one is set again.
Register(t, n) ==
    /\ place = 0
    /\ \/ /\ t \in Active \/ Len(tmo_list) < MaxTimeouts
          /\ tick_funcs' = IF tmo_list = <<>> THEN Put(tick_funcs, timeout_tick)
                                              ELSE tick_funcs
          /\ tmo_list' = Put(tmo_list, t)
          /\ due' = [due EXCEPT ![t] = n]
          /\ Reset(tick_funcs, tick_funcs')
       \/ /\ t \notin Active /\ Len(tmo_list) = MaxTimeouts
          /\ UNCHANGED <<tick_funcs, tmo_list, due, missed>>
    /\ UNCHANGED <<place, at>>

\* timeout_cancel
Cancel(t) ==
    /\ place = 0 /\ t \in Active
    /\ tmo_list' = Removed(tmo_list, t)
    /\ tick_funcs' = TasksAfterCancel(tmo_list')
    /\ due' = [due EXCEPT ![t] = 0]
    /\ Reset(tick_funcs, tick_funcs')
    /\ UNCHANGED <<place, at>>

\* tick_add_task and tick_remove_task
AddTask(f) ==
    /\ place = 0
    /\ tick_funcs' = Put(tick_funcs, f)
    /\ Reset(tick_funcs, tick_funcs')
    /\ UNCHANGED <<tmo_list, due, place, at>>

RemoveTask(f) ==
    /\ place = 0
    /\ tick_funcs' = Removed(tick_funcs, f)
    /\ Reset(tick_funcs, tick_funcs')
    /\ UNCHANGED <<tmo_list, due, place, at>>

\* The timer interrupt: call_tick_tasks.
TickBegin ==
    /\ place = 0 /\ place' = 1
    /\ due' = [t \in Timeouts |-> IF t \in Active THEN due[t] - 1 ELSE 0]
    /\ missed' = [f \in All |-> IF f \in Installed THEN missed[f] + 1 ELSE 0]
    /\ UNCHANGED <<tick_funcs, tmo_list, at>>

\* A task returns, having taken itself off the list or not.
TickTask(f) ==
    /\ place \in DOMAIN tick_funcs /\ at = 0 /\ tick_funcs[place] = f
    /\ tick_funcs' \in {tick_funcs, Removed(tick_funcs, f)}
    /\ place' = place + 1
    /\ Call(f)
    /\ UNCHANGED <<tmo_list, due, at>>

TickEnd ==
    /\ place > Len(tick_funcs) /\ at = 0
    /\ place' = 0
    /\ UNCHANGED <<tick_funcs, tmo_list, due, at, missed>>

\* timeout_tick is called, and walks its list.
WalkBegin ==
    /\ place \in DOMAIN tick_funcs /\ at = 0 /\ tick_funcs[place] = timeout_tick
    /\ at' = 1
    /\ Call(timeout_tick)
    /\ UNCHANGED <<tick_funcs, tmo_list, due, place>>

WalkPending ==
    /\ at \in DOMAIN tmo_list /\ due[tmo_list[at]] > 0
    /\ at' = at + 1
    /\ UNCHANGED <<tick_funcs, tmo_list, due, place, missed>>

\* An expired timeout: its callback asks for another interval, or for none.
WalkExpired ==
    /\ at \in DOMAIN tmo_list /\ due[tmo_list[at]] <= 0
    /\ LET t == tmo_list[at]
       IN \/ /\ \E n \in 1..MaxInterval : due' = [due EXCEPT ![t] = n]
             /\ UNCHANGED <<tick_funcs, tmo_list>>
          \/ /\ tmo_list' = Removed(tmo_list, t)
             /\ tick_funcs' = TasksAfterCancel(tmo_list')
             /\ due' = [due EXCEPT ![t] = 0]
    /\ at' = at + 1
    /\ UNCHANGED <<place, missed>>

WalkEnd ==
    /\ at > Len(tmo_list)
    /\ at' = 0 /\ place' = place + 1
    /\ UNCHANGED <<tick_funcs, tmo_list, due, missed>>

Interrupt == \/ TickBegin \/ TickEnd \/ \E f \in Tasks : TickTask(f)
             \/ WalkBegin \/ WalkPending \/ WalkExpired \/ WalkEnd

TickNext ==
    \/ Interrupt
    \/ \E t \in Timeouts, n \in 1..MaxInterval : Register(t, n)
    \/ \E t \in Timeouts : Cancel(t)
    \/ \E f \in Tasks : AddTask(f) \/ RemoveTask(f)

TickSpec == TickInit /\ [][TickNext]_tick_vars

-------------------------------------------------------------------------------
TickTypeOK ==
    /\ Installed \subseteq All /\ IsInjective(tick_funcs)
    /\ Active \subseteq Timeouts /\ IsInjective(tmo_list)
    /\ Len(tmo_list) <= MaxTimeouts
    /\ due \in [Timeouts -> Int]
    /\ place \in 0..(Cardinality(All) + 1)
    /\ at \in 0..(MaxTimeouts + 1)

\* The tick calls timeout_tick as long as there is a timeout, and no longer,
\* whichever of threads and callbacks adds the first and takes off the last.
WalkedWhileNeeded == timeout_tick \in Installed <=> tmo_list # <<>>

\* Both arrays hold each entry once, within their length, and the one is
\* walked by the other exactly while it has entries.
ListsSound == TickTypeOK /\ WalkedWhileNeeded

\* A timeout whose turn is skipped, because the one before it or the task
\* before timeout_tick took itself off, gets it soon after: it is never late
\* by more ticks than there are others that could do so.
NeverLate ==
    \A t \in Active : -due[t] <= MaxTimeouts - 1 + Cardinality(Tasks)

\* Likewise no tick task is left out of more interrupts in a row than there
\* are others: those behind a task that takes itself off move up for good.
TaskCalled ==
    \A f \in Installed : place = 0 => missed[f] <= Cardinality(Tasks)

\* Neither timeouts nor tick tasks are left out for longer than others move up.
NobodyLeftOut == NeverLate /\ TaskCalled
===============================================================================
