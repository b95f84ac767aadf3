------------------------------ MODULE TimerList -----------------------------
(***************************************************************************)
(* The timers of the micro-controller: the sorted list of src/sched.c and  *)
(* the hardware timer that src/generic/timer_irq.c drives from it.         *)
(*                                                                         *)
(* Clocks are 32-bit in the code.  The model keeps full numbers and lets   *)
(* the code see them modulo ClockMod only.                                 *)
(***************************************************************************)
EXTENDS Integers, Sequences

CONSTANTS
    UserTimers,  \* the timers of steppers, end stops, outputs...
    WrapTimer,   \* the one that its shutdown handler adds again (wrap_timer), if any
    ClockMod,    \* clocks wrap around here: 2^32 in the code
    Period,      \* the period of periodic_timer: 100 ms in the code
    MaxAhead,    \* no timer is set further ahead than this
    Latency,     \* the longest time for which interrupts are disabled
    Defer,       \* TIMER_DEFER_REPEAT_TICKS
    PastLimit,   \* how late a timer may be before "Rescheduled timer in the past"
    MaxNow       \* bound of the model: when time stops

VARIABLES
    now,              \* timer_read_time(), as a full number
    timer_list,       \* the timers on the list, from the first to be run
    last_insert,      \* the timer that was rescheduled last
    waketime,         \* the time of a timer, as a full number
    alarm,            \* when the hardware timer interrupts
    shutdown_status   \* has the micro-controller been shut down?

vars == <<now, timer_list, last_insert, waketime, alarm, shutdown_status>>

Half == ClockMod \div 2

\* The timers of sched.c itself.
Periodic == "periodic"
Sentinel == "sentinel"
Deleted  == "deleted"
Timer    == UserTimers \union {Periodic, Sentinel, Deleted}

ASSUME TimerAssumption ==
    /\ {Periodic, Sentinel, Deleted} \cap UserTimers = {}

ASSUME ClockAssumption ==
    /\ ClockMod \in Nat /\ Half \in Nat /\ ClockMod = 2 * Half
    /\ Period \in Nat \ {0} /\ MaxAhead \in Nat /\ Latency \in Nat
    /\ Defer \in Nat /\ PastLimit \in Nat /\ MaxNow \in Nat
    /\ MaxAhead + Period + Latency + Defer + PastLimit < Half

On(t, l) == \E i \in 1..Len(l) : l[i] = t

-----------------------------------------------------------------------------
\* timer_is_before(): the sign of the 32-bit difference.
timer_is_before(a, b) == (a - b) % ClockMod >= Half

\* insert_timer(): the place of the first timer after `from` that is later than
\* w.  (Without one the code runs off the list, past the sentinel.)
InsertPos(l, from, w, wt) ==
    LET later == {j \in (from + 1)..Len(l) : timer_is_before(w, wt[l[j]])}
    IN  IF later = {} THEN Len(l) + 1
        ELSE CHOOSE j \in later : \A k \in later : j <= k

Inserted(l, j, t) == SubSeq(l, 1, j - 1) \o <<t>> \o SubSeq(l, j, Len(l))

Without(l, ts) == SelectSeq(l, LAMBDA t : t \notin ts)

\* Mutant: the early interrupt of timer_kick() finds t itself.
Front_NoDeleted(l, t) == <<t>> \o IF l[1] = Deleted THEN Tail(l) ELSE l

\* sched_add_timer() when t is before all others: deleted_timer is put in front
\* so that its (early) interrupt finds something harmless to run.
Front(l, t) == <<Deleted, t>> \o IF l[1] = Deleted THEN Tail(l) ELSE l

\* The list after sched_add_timer(), with the times in wt.
Added(l, t, wt) ==
    IF timer_is_before(wt[t], wt[l[1]])
    THEN Front(l, t)
    ELSE Inserted(l, InsertPos(l, 1, wt[t], wt), t)

\* The times after sched_add_timer().
AddedTimes(l, t, wt) ==
    IF timer_is_before(wt[t], wt[l[1]]) THEN [wt EXCEPT ![Deleted] = wt[t]] ELSE wt

\* run_shutdown(): sched_timer_reset(), and the shutdown handler of wrap_timer
\* adds it again with the time it has.  The list was old, the times are wt.
run_shutdown(old, wt) ==
    LET l == <<Deleted, Periodic, Sentinel>>
        t == [wt EXCEPT ![Deleted] = wt[Periodic]]
        wrap == On(WrapTimer, old)
    IN  /\ shutdown_status' = TRUE
        /\ timer_list' = IF wrap THEN Added(l, WrapTimer, t) ELSE l
        /\ waketime' = IF wrap THEN AddedTimes(l, WrapTimer, t) ELSE t
        /\ last_insert' = Periodic
        /\ alarm' = now
        /\ UNCHANGED now

-----------------------------------------------------------------------------
Init ==
    /\ now = 0
    /\ timer_list = <<Periodic, Sentinel>>
    /\ last_insert = Periodic
    /\ waketime = [t \in Timer |-> IF t = Sentinel THEN Half ELSE 0]
    /\ alarm = 0
    /\ shutdown_status = FALSE

\* sched_add_timer(): "Timer too close".
TooClose(t, w) ==
    timer_is_before(w, waketime[timer_list[1]]) /\ timer_is_before(w, now)

\* sched_add_timer(), called by a command: none runs after a shutdown.
sched_add_timer(t, w) ==
    LET wt == [waketime EXCEPT ![t] = w]
    IN  /\ ~shutdown_status
        /\ ~On(t, timer_list)
        /\ \/ TooClose(t, w) /\ run_shutdown(timer_list, wt)
           \/ /\ ~TooClose(t, w)
              /\ timer_list' = Added(timer_list, t, wt)
              /\ waketime' = AddedTimes(timer_list, t, wt)
              /\ alarm' = IF timer_is_before(w, waketime[timer_list[1]]) THEN now ELSE alarm
              /\ UNCHANGED <<now, last_insert, shutdown_status>>

\* sched_del_timer(): last_insert after the timers in ts were deleted.
LastInsertAfterDel(ts) == IF last_insert \in ts THEN Periodic ELSE last_insert

\* sched_del_timer(), called by a command.
sched_del_timer(t) ==
    /\ \/ /\ timer_list[1] = t
          /\ timer_list' = <<Deleted>> \o Tail(timer_list)
          /\ waketime' = [waketime EXCEPT ![Deleted] = waketime[t]]
       \/ /\ timer_list[1] # t
          /\ timer_list' = Without(timer_list, {t})
          /\ UNCHANGED waketime
    /\ last_insert' = LastInsertAfterDel({t})
    /\ UNCHANGED <<now, alarm, shutdown_status>>

-----------------------------------------------------------------------------
\* timer_dispatch_many() when a timer has run and left the list l, last_insert =
\* li and the times wt.  The next interrupt comes at the time of the next timer.
\* If that is not in the future it runs at once, or (when timers have been
\* running for too long) it is found to be too late, or put off for the tasks.
\* (Nothing but wrap_timer and the two fixed timers is left after a shutdown: the
\* processor is then assumed to be able to keep up with them.)
timer_dispatch_many(l, li, wt) ==
    LET next == wt[l[1]]
        tooLate == timer_is_before(next, now - PastLimit)
    IN  \/ /\ timer_list' = l
           /\ last_insert' = li
           /\ waketime' = wt
           /\ alarm' \in {next} \union IF timer_is_before(now, next) \/ tooLate THEN {}
                                       ELSE {now + Defer}
           /\ UNCHANGED <<now, shutdown_status>>
        \/ tooLate /\ ~shutdown_status /\ run_shutdown(l, wt)

\* Mutant: last_insert keeps pointing to a timer that is done.
LastInsertAfterDone_Stale(t, li, l) == li

\* sched_timer_dispatch(): last_insert after timer t, the first of l, is done.
LastInsertAfterDone(t, li, l) == IF li = t THEN l[2] ELSE li

\* sched_timer_dispatch() for a timer that returns SF_DONE: its callback left the
\* list l, on which t is still the first, last_insert = li and the times wt.
Done(t, l, li, wt) ==
    timer_dispatch_many(Tail(l), LastInsertAfterDone(t, li, l), wt)

\* Where sched_timer_dispatch() starts to look for the new place of the timer it
\* reschedules, as an index of the list without it (0 is the timer itself).
StartPos(t, rest, li, wt) ==
    IF timer_is_before(wt[t], wt[li]) THEN 1
    ELSE IF li = t THEN 0
    ELSE CHOOSE i \in 1..Len(rest) : rest[i] = li

\* sched_timer_dispatch() for a timer that returns SF_RESCHEDULE.
Rescheduled(t, l, li, wt) ==
    LET rest == Tail(l)
        pos == InsertPos(rest, StartPos(t, rest, li, wt), wt[t], wt)
    IN  IF timer_is_before(wt[t], wt[l[2]])
        THEN timer_dispatch_many(l, li, wt)
        ELSE timer_dispatch_many(Inserted(rest, pos, t), t, wt)

\* The hardware timer interrupts and deleted_event() is run.
deleted_event ==
    /\ alarm <= now
    /\ timer_list[1] = Deleted
    /\ Done(Deleted, timer_list, last_insert, waketime)

\* periodic_event(): the times it sets.
PeriodicTimes ==
    LET next == waketime[Periodic] + Period
    IN  [waketime EXCEPT ![Periodic] = next, ![Sentinel] = next + Half]

\* ... periodic_event() is run.
periodic_event ==
    /\ alarm <= now
    /\ timer_list[1] = Periodic
    /\ Rescheduled(Periodic, timer_list, last_insert, PeriodicTimes)

\* ... the callback of a timer of the user is run.  A trigger stops steppers:
\* that deletes the timers in `stopped`.  wrap_timer is set for the
\* next half of the hardware counter, the others to any time after their last.
user_event(t, stopped) ==
    LET l == Without(timer_list, stopped)
        li == LastInsertAfterDel(stopped)
    IN  /\ alarm <= now
        /\ timer_list[1] = t
        /\ t \notin stopped
        /\ \/ Done(t, l, li, waketime)
           \/ \E w \in (IF t = WrapTimer THEN now ELSE waketime[t]) + 1..now + MaxAhead :
                Rescheduled(t, l, li, [waketime EXCEPT ![t] = w])

\* A command, or the callback of a timer, shuts the micro-controller down.  It may
\* do so again later, when the timers are not behind.
sched_shutdown ==
    /\ shutdown_status => waketime[timer_list[1]] >= now - PastLimit
    /\ run_shutdown(timer_list, waketime)

\* Time passes, but an interrupt is late by Latency at most.
Tick ==
    /\ now < MaxNow
    /\ now < alarm + Latency
    /\ now' = now + 1
    /\ UNCHANGED <<timer_list, last_insert, waketime, alarm, shutdown_status>>

Next ==
    \/ Tick \/ deleted_event \/ periodic_event \/ sched_shutdown
    \/ \E t \in UserTimers :
          \/ \E w \in (now - 1)..(now + MaxAhead) : sched_add_timer(t, w)
          \/ sched_del_timer(t)
          \/ \E stopped \in SUBSET UserTimers : user_event(t, stopped)

Spec == Init /\ [][Next]_vars

-----------------------------------------------------------------------------
\* The types; no timer is linked into the list twice.
TypeOK ==
    /\ now \in Nat
    /\ timer_list \in Seq(Timer)
    /\ \A i, j \in 1..Len(timer_list) : timer_list[i] = timer_list[j] => i = j
    /\ last_insert \in Timer
    /\ waketime \in [Timer -> Int]
    /\ alarm \in Int
    /\ shutdown_status \in BOOLEAN

\* The list is sorted by the real times, although the code compares 32-bit
\* clocks that wrap around; periodic_timer is on it and the sentinel, which must
\* never run, is the last.
ListSorted ==
    LET n == Len(timer_list)
    IN  /\ \A i, j \in 1..n : i < j => waketime[timer_list[i]] <= waketime[timer_list[j]]
        /\ On(Periodic, timer_list)
        /\ timer_list[n] = Sentinel /\ n > 1

\* last_insert, from where sched_timer_dispatch() walks the list, is on the list.
LastInsertOnList == On(last_insert, timer_list) /\ last_insert # Sentinel

\* The hardware timer never misses the next timer: a timer runs late by no more
\* than the interrupt latency, the deferral for the tasks and the limit at which
\* the micro-controller shuts down.
NeverMissed ==
    ~shutdown_status => waketime[timer_list[1]] >= now - (Latency + Defer + PastLimit)

\* The list is what the interrupt relies on: sorted, with last_insert on it, and
\* never behind the clock.
ListKept == TypeOK /\ ListSorted /\ LastInsertOnList /\ NeverMissed

\* The timers of the user do what a set of alarm clocks does: none is lost,
\* revived, run before its time or before one that is due earlier.
Alarms == INSTANCE AlarmClock
    WITH Timers <- UserTimers,
         time   <- now,
         armed  <- {t \in UserTimers : On(t, timer_list)},
         at     <- [t \in UserTimers |-> waketime[t]]

ImplementsAlarms == Alarms!Spec
=============================================================================
