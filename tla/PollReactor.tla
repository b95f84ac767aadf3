------------------------------ MODULE PollReactor ---------------------------
(***************************************************************************)
(* The event loop of the host's C threads, klippy/chelper/pollreactor.c:   *)
(* timers in a fixed table, whose callbacks may change any of them, and    *)
(* file descriptors.                                                       *)
(***************************************************************************)
EXTENDS Naturals

CONSTANTS
    num_timers,
    Ms,          \* the clock's resolution: how many of its units are a millisecond
    MaxTimeout,  \* longest sleep in milliseconds: 1000 in the code
    Ahead,       \* bound of the model: how far ahead timers are set
    MaxNow       \* bound of the model: when time stops

VARIABLES
    now,         \* the time
    waketime, next_timer,
    phase,       \* pollreactor_run(): "check", "scan", "poll" or "exit"
    i,           \* the timer pollreactor_check_timers() looks at
    busy,
    until        \* when poll() returns at the latest

vars == <<now, waketime, next_timer, phase, i, busy, until>>

PollReactorAssumption ==
    /\ num_timers \in Nat \ {0} /\ Ms \in Nat \ {0}
    /\ MaxTimeout \in Nat \ {0} /\ {Ahead, MaxNow} \subseteq Nat

Timers == 1..num_timers
PR_NEVER == MaxNow + Ahead + Ms * MaxTimeout + 1

\* What callers ask for: a time in the past too, as PR_NOW is
Times == {0} \cup (now .. now + Ahead) \cup {PR_NEVER}

Earlier(t1, t2) == IF t1 < t2 THEN t1 ELSE t2

Init ==
    /\ now = 0
    /\ waketime = [t \in Timers |-> PR_NEVER]
    /\ next_timer = PR_NEVER
    /\ phase = "check" /\ i = 0 /\ busy = TRUE /\ until = 0

\* Mutant: the time of the next timer is kept if it is in the past.
NextAfterUpdate_New(t) == IF next_timer = PR_NEVER THEN t ELSE next_timer

\* pollreactor_update_timer(): next_timer afterwards
NextAfterUpdate(t) == Earlier(t, next_timer)

\* The milliseconds poll() sleeps when the next timer is d away: rounded up, at
\* least one and at most MaxTimeout.
SleepTime(d) ==
    LET timeout == (d + Ms - 1) \div Ms
    IN  IF timeout < 1 THEN 1 ELSE Earlier(timeout, MaxTimeout)

\* The end of pollreactor_check_timers()
Sleep(b) ==
    /\ phase' = "poll"
    /\ busy' = FALSE
    /\ until' = IF b THEN now ELSE now + Ms * SleepTime(IF next_timer' > now THEN next_timer' - now ELSE 0)

\* pollreactor_check_timers(): no timer is due, or they are looked at one by one.
pollreactor_check_timers ==
    /\ phase = "check"
    /\ \/ /\ now < next_timer
          /\ UNCHANGED next_timer
          /\ Sleep(busy)
          /\ UNCHANGED i
       \/ /\ now >= next_timer
          /\ next_timer' = PR_NEVER
          /\ phase' = "scan" /\ i' = 1
          /\ UNCHANGED <<busy, until>>
    /\ UNCHANGED <<now, waketime>>

\* A timer that is not due
skip_timer ==
    /\ phase = "scan" /\ i \in Timers
    /\ waketime[i] > now
    /\ next_timer' = NextAfterUpdate(waketime[i])
    /\ i' = i + 1
    /\ UNCHANGED <<now, waketime, phase, busy, until>>

\* The callback of a timer may set another one, and returns its own next time.
run_timer ==
    /\ phase = "scan" /\ i \in Timers
    /\ waketime[i] <= now
    /\ busy' = TRUE
    /\ \E other \in Timers, u, t \in Times :
          /\ waketime' = [waketime EXCEPT ![other] = u, ![i] = t]
          /\ next_timer' = Earlier(t, NextAfterUpdate(u))
    /\ i' = i + 1
    /\ UNCHANGED <<now, phase, until>>

end_scan ==
    /\ phase = "scan" /\ i \notin Timers
    /\ UNCHANGED <<now, waketime, next_timer, i>>
    /\ Sleep(busy)

\* poll() returns after its timeout.
poll_timeout ==
    /\ phase = "poll"
    /\ now' \in until .. MaxNow
    /\ phase' = "check"
    /\ UNCHANGED <<waketime, next_timer, i, busy, until>>

\* poll() returns with an event: its callback may set a timer.
poll_event ==
    /\ phase = "poll"
    /\ now' \in now .. MaxNow
    /\ busy' = TRUE
    /\ phase' = "check"
    /\ \E other \in Timers, u \in Times :
          /\ waketime' = [waketime EXCEPT ![other] = u]
          /\ next_timer' = NextAfterUpdate(u)
    /\ UNCHANGED <<i, until>>

\* pollreactor_do_exit(), called by a callback, or an error of poll()
pollreactor_do_exit ==
    /\ phase = "check"
    /\ phase' = "exit"
    /\ UNCHANGED <<now, waketime, next_timer, i, busy, until>>

Next ==
    \/ pollreactor_check_timers \/ skip_timer \/ run_timer \/ end_scan
    \/ poll_timeout \/ poll_event \/ pollreactor_do_exit

Spec == Init /\ [][Next]_vars

-----------------------------------------------------------------------------
\* next_timer is never later than a timer the scan will not look at by itself,
\* whatever the callbacks change meanwhile.
NoLostTimer ==
    \A t \in Timers : (phase = "scan" /\ t >= i) \/ next_timer <= waketime[t]

\* The loop sleeps less than a millisecond past any timer, and not at all when
\* a timer is due already: rounding the sleep up costs no more than that.
Punctual ==
    phase = "poll" => \A t \in Timers :
        until < waketime[t] + Ms \/ (waketime[t] <= now /\ until = now)
=============================================================================
