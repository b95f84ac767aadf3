-------------------------------- MODULE PwmOut ------------------------------
(***************************************************************************)
(* A hardware PWM output, src/pwmcmds.c.  Its timer runs when it is due    *)
(* (see TimerList), also in the middle of a command where interrupts are   *)
(* enabled.  Times wrap around as in the code.                             *)
(***************************************************************************)
EXTENDS Integers, Sequences

CONSTANTS
    ClockMod,      \* 2^32 in the code
    max_duration,
    Values, default_value,
    Ahead,         \* bound of the model: how far ahead updates are sent
    Moves,         \* bound of the model: length of the queue
    Start, MaxNow  \* bound of the model: when time starts and stops

VARIABLES
    now,           \* the time, which the code sees modulo ClockMod
    pin,           \* the duty cycle
    func,          \* the timer's function: "event" or "end"
    waketime,
    armed,         \* is the timer on the list?
    mq,            \* queued updates
    cmd,           \* <<m>> while command_queue_pwm_out() has queued m but not set the timer
    shutdown_status,
    last,          \* bound: the time of the last update sent (_last_clock)
    since          \* history: when the last update was applied

pVars == <<pin, func, waketime, armed, mq, cmd>>
vars == <<now, pVars, shutdown_status, last, since>>

PwmOutAssumption ==
    /\ {ClockMod, max_duration, Ahead, Moves, Start} \subseteq Nat
    /\ 2 * (max_duration + Ahead) < ClockMod
    /\ default_value \in Values

Clock(t) == t % ClockMod

\* timer_is_before(): the difference as a signed number of 32 bits is negative.
timer_is_before(t1, t2) == 2 * Clock(t1 - t2) >= ClockMod

Init ==
    /\ now = Start
    /\ pin = default_value
    /\ func = "event" /\ waketime = 0 /\ armed = FALSE
    /\ mq = <<>> /\ cmd = <<>>
    /\ shutdown_status = FALSE
    /\ last = Start /\ since = Start

\* pwm_shutdown(), and sched_timer_reset(), which drops the timer
run_shutdown ==
    /\ shutdown_status' = TRUE
    /\ pin' = default_value
    /\ func' = "event"
    /\ armed' = FALSE
    /\ mq' = <<>> /\ cmd' = <<>>
    /\ UNCHANGED waketime

\* pwm_end_event(): "Missed scheduling of next hard pwm event"
pwm_end_event ==
    /\ armed /\ func = "end" /\ waketime = Clock(now)
    /\ run_shutdown
    /\ UNCHANGED <<now, last, since>>

\* Does the value need a next update within max_duration?
Limited(value) == value # default_value /\ max_duration > 0

\* pwm_event()
pwm_event ==
    LET value == mq[1].value
        rest == Tail(mq)
        limit == Clock(waketime + max_duration)
        late == rest # <<>> /\ Limited(value) /\ timer_is_before(limit, rest[1].waketime)
    IN  /\ armed /\ func = "event" /\ waketime = Clock(now)
        /\ since' = now
        /\ \/ /\ ~late
              /\ pin' = value
              /\ mq' = rest
              /\ armed' = (rest # <<>> \/ Limited(value))
              /\ func' = IF rest = <<>> /\ Limited(value) THEN "end" ELSE "event"
              /\ waketime' = IF rest # <<>> THEN rest[1].waketime
                             ELSE IF Limited(value) THEN limit ELSE waketime
              /\ UNCHANGED <<cmd, shutdown_status>>
           \/ late /\ run_shutdown
        /\ UNCHANGED <<now, last>>

\* Mutant: the timer is set by every command.
NeedAddTimer_Always == TRUE

\* move_queue_push(): the queue was empty
NeedAddTimer == mq = <<>>

\* command_queue_pwm_out(), which the host sends ahead of its time and in order:
\* the update is queued ...
command_queue_pwm_out ==
    /\ ~shutdown_status
    /\ cmd = <<>> /\ Len(mq) < Moves
    /\ \E wake \in now + 1 .. now + Ahead, value \in Values :
          LET m == [waketime |-> Clock(wake), value |-> value]
          IN  /\ wake > last
              /\ last' = wake
              /\ mq' = Append(mq, m)
              /\ cmd' = IF NeedAddTimer THEN <<m>> ELSE <<>>
    /\ UNCHANGED <<now, pin, func, waketime, armed, shutdown_status, since>>

\* ... and, with interrupts enabled again, the timer set.
set_timer ==
    LET late == func = "end" /\ timer_is_before(waketime, cmd[1].waketime)
    IN  /\ cmd # <<>>
        /\ \/ late /\ run_shutdown
           \/ /\ ~late
              /\ func' = "event"
              /\ waketime' = cmd[1].waketime
              /\ armed' = TRUE
              /\ cmd' = <<>>
              /\ UNCHANGED <<pin, mq, shutdown_status>>
        /\ UNCHANGED <<now, last, since>>

\* The host clears a shutdown: sched_clear_shutdown()
sched_clear_shutdown ==
    /\ shutdown_status
    /\ shutdown_status' = FALSE
    /\ UNCHANGED <<now, pVars, last, since>>

\* Commands are executed before their time ("Timer too close" otherwise).
Tick ==
    /\ now < MaxNow
    /\ armed => waketime # Clock(now)
    /\ cmd # <<>> => cmd[1].waketime # Clock(now)
    /\ now' = now + 1
    /\ UNCHANGED <<pVars, shutdown_status, last, since>>

Next ==
    \/ pwm_event \/ pwm_end_event \/ command_queue_pwm_out \/ set_timer
    \/ sched_clear_shutdown \/ Tick

Spec == Init /\ [][Next]_vars

-----------------------------------------------------------------------------
\* The timer's function is called with what it expects: pwm_event() takes an update
\* from the queue without a look, and finds the one that is due.
EventHasUpdate ==
    armed /\ func = "event" => mq # <<>> /\ mq[1].waketime = waketime

\* The output is never away from its default value for longer than max_duration
\* after the last update.
MaxDuration ==
    max_duration > 0 /\ pin # default_value => now <= since + max_duration
=============================================================================
