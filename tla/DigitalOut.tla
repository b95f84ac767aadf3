------------------------------ MODULE DigitalOut ----------------------------
(***************************************************************************)
(* A digital output pin with software PWM, src/gpiocmds.c.  Its timer runs *)
(* when it is due (see TimerList).  Times wrap around as in the code.      *)
(***************************************************************************)
EXTENDS Integers, Sequences

CONSTANTS
    ClockMod,      \* 2^32 in the code
    cycle_time, max_duration, default_on,  \* arguments of the configuration
    OnTicks,       \* on_ticks the host sends
    Ahead,         \* bound of the model: how far ahead updates are sent
    Moves,         \* bound of the model: length of the queue
    Start, MaxNow  \* bound of the model: when time starts and stops

VARIABLES
    now,           \* the time, which the code sees modulo ClockMod
    pin,           \* the output
    flags,         \* DF_TOGGLING and DF_CHECK_END
    func, waketime,    \* the timer: "load", "toggle" or "none"
    on_duration, end_time,
    mq,            \* queued updates
    shutdown_status,
    last,          \* bound: the time of the last update sent (_last_clock)
    since,         \* history: when the last update was applied
    changed        \* history: when the pin changed

dVars == <<pin, flags, func, waketime, on_duration, end_time, mq>>
vars == <<now, dVars, shutdown_status, last, since, changed>>

DigitalOutAssumption ==
    /\ {ClockMod, cycle_time, max_duration, Ahead, Moves, Start} \subseteq Nat
    /\ OnTicks \subseteq Nat
    /\ 2 * (max_duration + cycle_time + Ahead) < ClockMod
    /\ default_on \in BOOLEAN

Clock(t) == t % ClockMod

\* timer_is_before(): the difference as a signed number of 32 bits is negative.
timer_is_before(t1, t2) == 2 * Clock(t1 - t2) >= ClockMod

Init ==
    /\ now = Start
    /\ pin = default_on
    /\ flags = {}
    /\ func = "none" /\ waketime = 0 /\ on_duration = 0 /\ end_time = 0
    /\ mq = <<>>
    /\ shutdown_status = FALSE
    /\ last = Start /\ since = Start /\ changed = Start

\* digital_out_shutdown(), and sched_timer_reset(), which drops the timer
run_shutdown ==
    /\ shutdown_status' = TRUE
    /\ pin' = default_on
    /\ flags' = {}
    /\ func' = "none"
    /\ mq' = <<>>
    /\ changed' = IF pin = default_on THEN changed ELSE now
    /\ UNCHANGED <<waketime, on_duration, end_time>>

Pulsing(on) == on > 0 /\ on < cycle_time

\* Does the new output need a next update within max_duration?
Limited(on) == max_duration > 0 /\ ((on > 0) # default_on \/ Pulsing(on))

\* "Scheduled digital out event will exceed max_duration"
TooLate(check, end, wake) == check /\ timer_is_before(end, wake)

\* digital_load_event(): the updated pin, with m as the rest of the queue
Load(on, m) ==
    LET limit == Clock(waketime + max_duration)
        end == IF m # <<>> THEN m[1].waketime ELSE IF Limited(on) THEN limit ELSE 0
        check == Limited(on) \/ m # <<>>
        fall == Clock(waketime + on)
        pulses == Pulsing(on) /\ ~(check /\ ~timer_is_before(fall, end))
    IN  /\ pin' = (on > 0)
        /\ changed' = now
        /\ mq' = m
        /\ end_time' = end
        /\ flags' = (IF Pulsing(on) THEN {"toggling"} ELSE {}) \cup (IF check THEN {"check_end"} ELSE {})
        /\ func' = IF pulses THEN "toggle" ELSE IF check THEN "load" ELSE "none"
        /\ waketime' = IF pulses THEN fall ELSE IF check THEN end ELSE waketime
        /\ on_duration' = IF pulses THEN on ELSE on_duration
        /\ UNCHANGED shutdown_status

digital_load_event ==
    LET rest == Tail(mq)
        late == rest # <<>> /\ TooLate(Limited(mq[1].on), Clock(waketime + max_duration),
                                       rest[1].waketime)
    IN  /\ func = "load" /\ waketime = Clock(now)
        /\ since' = now
        /\ \/ mq = <<>> /\ run_shutdown
           \/ mq # <<>> /\ late /\ run_shutdown
           \/ mq # <<>> /\ ~late /\ Load(mq[1].on, rest)
        /\ UNCHANGED <<now, last>>

\* How long the pin stays as it is: off_duration is cycle_time - on_duration.
Duration(on) == IF on THEN on_duration ELSE cycle_time - on_duration

\* digital_toggle_event()
digital_toggle_event ==
    LET next == Clock(waketime + Duration(~pin))
        ends == "check_end" \in flags /\ ~timer_is_before(next, end_time)
    IN  /\ func = "toggle" /\ waketime = Clock(now)
        /\ pin' = ~pin
        /\ changed' = now
        /\ func' = IF ends THEN "load" ELSE "toggle"
        /\ waketime' = IF ends THEN end_time ELSE next
        /\ UNCHANGED <<now, flags, on_duration, end_time, mq, shutdown_status, last, since>>

\* command_queue_digital_out(): a toggle event before that time will schedule it.
LeftToToggle(time) == "toggling" \in flags /\ timer_is_before(waketime, time)

\* command_queue_digital_out(), which the host sends ahead of its time and in order
command_queue_digital_out ==
    /\ ~shutdown_status
    /\ Len(mq) < Moves
    /\ \E wake \in now + 1 .. now + Ahead, on \in OnTicks :
          LET time == Clock(wake)
              m == [waketime |-> time, on |-> on]
          IN  /\ wake > last
              /\ last' = wake
              /\ \/ /\ mq # <<>>
                    /\ mq' = Append(mq, m)
                    /\ UNCHANGED <<pin, flags, func, waketime, on_duration, end_time,
                                   shutdown_status, changed>>
                 \/ /\ mq = <<>> /\ TooLate("check_end" \in flags, end_time, time)
                    /\ run_shutdown
                 \/ /\ mq = <<>> /\ ~TooLate("check_end" \in flags, end_time, time)
                    /\ mq' = <<m>>
                    /\ end_time' = time
                    /\ flags' = flags \cup {"check_end"}
                    /\ func' = IF LeftToToggle(time) THEN func ELSE "load"
                    /\ waketime' = IF LeftToToggle(time) THEN waketime ELSE time
                    /\ UNCHANGED <<pin, on_duration, shutdown_status, changed>>
    /\ UNCHANGED <<now, since>>

\* command_update_digital_out(), sent when the printer starts
command_update_digital_out ==
    /\ ~shutdown_status
    /\ \E on \in {0, cycle_time} :
          LET limited == (on > 0) # default_on /\ max_duration > 0
          IN  \/ mq # <<>> /\ run_shutdown
              \/ /\ mq = <<>>
                 /\ pin' = (on > 0)
                 /\ changed' = now
                 /\ flags' = IF limited THEN {"check_end"} ELSE {}
                 /\ end_time' = IF limited THEN Clock(now + max_duration) ELSE end_time
                 /\ waketime' = IF limited THEN Clock(now + max_duration) ELSE waketime
                 /\ func' = IF limited THEN "load" ELSE "none"
                 /\ UNCHANGED <<on_duration, mq, shutdown_status>>
    /\ since' = now
    /\ UNCHANGED <<now, last>>

\* The host clears a shutdown: sched_clear_shutdown()
sched_clear_shutdown ==
    /\ shutdown_status
    /\ shutdown_status' = FALSE
    /\ UNCHANGED <<now, dVars, last, since, changed>>

Tick ==
    /\ now < MaxNow
    /\ func # "none" => waketime # Clock(now)
    /\ now' = now + 1
    /\ UNCHANGED <<dVars, shutdown_status, last, since, changed>>

Next ==
    \/ digital_load_event \/ digital_toggle_event
    \/ command_queue_digital_out \/ command_update_digital_out
    \/ sched_clear_shutdown \/ Tick

Spec == Init /\ [][Next]_vars

-----------------------------------------------------------------------------
\* No update is late: while updates are queued the first one is still to come, and
\* a timer that is due before or at its time will load it.
QueueOnTime ==
    mq # <<>> => /\ func # "none"
                 /\ Clock(mq[1].waketime - now) <= Ahead
                 /\ Clock(waketime - now) <= Clock(mq[1].waketime - now)

\* The pin is never pulsing or away from its default value for longer than
\* max_duration after the last update.
MaxDuration ==
    max_duration > 0 /\ (pin # default_on \/ "toggling" \in flags) => now <= since + max_duration

\* A pulse is never longer than its on time, and neither is a pause than the rest
\* of the cycle.
PulseWidth ==
    func = "toggle" =>
        now <= changed + (IF pin THEN on_duration ELSE cycle_time - on_duration)
=============================================================================
