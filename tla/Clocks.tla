-------------------------------- MODULE Clocks ------------------------------
(***************************************************************************)
(* 32-bit clocks made longer: the high part that basecmd.c counts along    *)
(* with its statistics, and the extension of the clocks in responses by    *)
(* clocksync.py and, from an older sample, by the C code of the host.      *)
(*                                                                         *)
(* Time is counted in ticks of the micro-controller.  The estimate of its  *)
(* frequency is left out: which samples the regression refuses is a choice *)
(* bounded by the time it may refuse them for.                             *)
(***************************************************************************)
EXTENDS Integers, Sequences

CONSTANTS
    ClockMod,   \* 2^32
    SendTicks,  \* the least time between two reports of statistics: five seconds
    PassTicks,  \* the longest pass of run_tasks() and sleep before it
    Gap,        \* longest time a response is under way, or the last sample is old
    Offset,     \* how far the time an event response is about is from its sending
    Refused,    \* longest time for which samples are not used by the C code
    Cap,        \* bound of the model: responses under way
    MaxNow      \* bound of the model: when time stops

VARIABLES
    now,
    stats_send_time, stats_send_time_high,
    last_pass,      \* when run_tasks() last called stats_update()
    up,             \* responses under way, with the time they are about
    connected,
    last_clock,     \* of ClockSync
    ce_last_clock,  \* last_clock of struct clock_estimate
    result          \* the last clock that was extended, and the time it is about

vars == <<now, stats_send_time, stats_send_time_high, last_pass, up, connected,
          last_clock, ce_last_clock, result>>
mcu == <<stats_send_time, stats_send_time_high, last_pass>>

ClocksAssumption ==
    /\ ClockMod \in Nat \ {0} /\ SendTicks \in Nat /\ PassTicks \in Nat \ {0}
    /\ SendTicks + PassTicks < ClockMod \div 2
    /\ Gap \in Nat /\ Refused \in Nat /\ 2 * (Gap + Refused + Offset) < ClockMod /\ Offset \in Nat

timer_read_time == now % ClockMod

\* timer_is_before() of the micro-controller
timer_is_before(a, b) == 2 * ((a - b) % ClockMod) >= ClockMod

Init ==
    /\ now \in 0 .. ClockMod - 1
    /\ stats_send_time = 0 /\ stats_send_time_high = 0
    /\ now <= SendTicks /\ last_pass = now
    /\ up = <<>> /\ connected = FALSE
    /\ last_clock = 0 /\ ce_last_clock = 0 /\ result = [clock |-> 0, at |-> 0]

-----------------------------------------------------------------------------
\* stats_send_time_high when the statistics are sent
HighAfter(cur) == stats_send_time_high + (IF cur < stats_send_time THEN 1 ELSE 0)

\* stats_update(), at the end of a pass of run_tasks()
stats_update ==
    /\ last_pass' = now
    /\ IF timer_is_before(timer_read_time, (stats_send_time + SendTicks) % ClockMod)
       THEN UNCHANGED <<stats_send_time, stats_send_time_high>>
       ELSE /\ stats_send_time_high' = HighAfter(timer_read_time)
            /\ stats_send_time' = timer_read_time
    /\ UNCHANGED <<now, up, connected, last_clock, ce_last_clock, result>>

Send(kind, high, at) ==
    /\ Len(up) < Cap
    /\ up' = Append(up, [kind |-> kind, high |-> high, clock |-> at % ClockMod, at |-> at])
    /\ UNCHANGED <<now, mcu, connected, last_clock, ce_last_clock, result>>

\* get_uptime, which the host sends once
command_get_uptime ==
    /\ ~connected /\ up = <<>>
    /\ Send("uptime", stats_send_time_high + (IF timer_read_time < stats_send_time THEN 1 ELSE 0), now)

command_get_clock == connected /\ Send("clock", 0, now)

\* Any response with the clock of an event, which was before or is still to come
event_response ==
    /\ connected
    /\ \E at \in (now - Offset) .. (now + Offset) : at >= 0 /\ Send("event", 0, at)

-----------------------------------------------------------------------------
\* connect()
connect ==
    /\ up # <<>> /\ Head(up).kind = "uptime"
    /\ up' = Tail(up)
    /\ connected' = TRUE
    /\ last_clock' = Head(up).high * ClockMod + Head(up).clock
    /\ ce_last_clock' = last_clock'
    /\ result' = [clock |-> last_clock', at |-> Head(up).at]
    /\ UNCHANGED <<now, mcu>>

\* _handle_clock(): samples only move forward.
Extended(clock32) ==
    LET clock == (last_clock - (last_clock % ClockMod)) + clock32
    IN  IF clock < last_clock THEN clock + ClockMod ELSE clock

\* A sample may be refused before it reaches the C code: it was retransmitted,
\* or is an outlier.
_handle_clock ==
    /\ up # <<>> /\ Head(up).kind = "clock"
    /\ up' = Tail(up)
    /\ last_clock' = Extended(Head(up).clock)
    /\ \/ ce_last_clock' = last_clock'
       \/ /\ Head(up).at - ce_last_clock <= Refused
          /\ UNCHANGED ce_last_clock
    /\ result' = [clock |-> last_clock', at |-> Head(up).at]
    /\ UNCHANGED <<now, mcu, connected>>

\* Mutant: the difference is taken as unsigned.
FromClock32_Unsigned(last, clock32) == last + ((clock32 - last) % ClockMod)

\* clock32_to_clock64() and clock_from_clock32(): the clock nearest to the last
\* one that ends in these bits, before or after it
FromClock32(last, clock32) ==
    LET diff == (last - clock32) % ClockMod
    IN  IF 2 * diff >= ClockMod THEN last + ClockMod - diff ELSE last - diff

\* A response with the clock of an event is handled by Python or C code.
handle_event ==
    /\ up # <<>> /\ Head(up).kind = "event"
    /\ up' = Tail(up)
    /\ \E last \in {last_clock, ce_last_clock} :
          result' = [clock |-> FromClock32(last, Head(up).clock), at |-> Head(up).at]
    /\ UNCHANGED <<now, mcu, connected, last_clock, ce_last_clock>>

\* A response is lost.
lose ==
    /\ up # <<>>
    /\ up' = Tail(up)
    /\ UNCHANGED <<now, mcu, connected, last_clock, ce_last_clock, result>>

\* Time passes, but a pass of run_tasks() ends in time, and so do the answers to
\* get_clock come, or the host takes the connection for lost (is_active()).
Tick ==
    /\ now < MaxNow
    /\ now' = now + 1
    /\ now' - last_pass <= PassTicks
    /\ connected => now' - last_clock <= Gap
    /\ \A k \in 1..Len(up) : now' - up[k].at <= Gap
    /\ UNCHANGED <<mcu, up, connected, last_clock, ce_last_clock, result>>

Next ==
    \/ stats_update \/ command_get_uptime \/ command_get_clock \/ event_response
    \/ connect \/ _handle_clock \/ handle_event \/ lose
    \/ Tick

Spec == Init /\ [][Next]_vars

-----------------------------------------------------------------------------
\* The micro-controller can tell its time since it was started at any moment,
\* however many times its clock has wrapped around.
UptimeExact ==
    now = (stats_send_time_high + (IF timer_read_time < stats_send_time THEN 1 ELSE 0)) * ClockMod
          + timer_read_time

\* Whatever is delayed or lost, every clock the host extends is the time it was
\* taken at.
ExtensionExact == result.clock = result.at
=============================================================================
