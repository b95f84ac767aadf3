----------------------------- MODULE AlarmClock -----------------------------
(***************************************************************************)
(* What the timers of the micro-controller promise: a timer that is armed  *)
(* stays armed, with its own time, until it is cancelled or runs; it never *)
(* runs before its time, nor while one that is due earlier waits.          *)
(***************************************************************************)
EXTENDS Integers

CONSTANT Timers

VARIABLES
    time,   \* the present
    armed,  \* the timers that are armed
    at      \* the time a timer is armed for

vars == <<time, armed, at>>

Init == time \in Nat /\ armed = {} /\ at \in [Timers -> Nat]

Tick ==
    /\ time' = time + 1
    /\ UNCHANGED <<armed, at>>

Arm(t) ==
    /\ t \notin armed
    /\ armed' = armed \union {t}
    /\ \A u \in armed : at'[u] = at[u]
    /\ UNCHANGED time

\* Timers are cancelled one at a time, by a running timer, or all but a few by
\* a shutdown.
Cancel ==
    /\ armed' \subseteq armed
    /\ \A u \in armed' : at'[u] = at[u]
    /\ UNCHANGED time

\* A running timer may cancel others and may arm itself again.
Run(t) ==
    /\ t \in armed
    /\ at[t] <= time
    /\ \A u \in armed : at[t] <= at[u]
    /\ armed' \subseteq armed
    /\ \A u \in armed' \ {t} : at'[u] = at[u]
    /\ UNCHANGED time

Next == Tick \/ Cancel \/ \E t \in Timers : Arm(t) \/ Run(t)
Spec == Init /\ [][Next]_vars
=============================================================================
