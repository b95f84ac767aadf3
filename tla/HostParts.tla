------------------------------ MODULE HostParts -----------------------------
(***************************************************************************)
(* The parts of the host that there are proofs about, with constants and   *)
(* variables of their own: the event loop of the C threads, the extension  *)
(* of clocks, and the limits of the print heads.                           *)
(***************************************************************************)
EXTENDS Integers, Sequences

CONSTANTS
    \* PollReactor
    num_timers, Ms, MaxTimeout, p_Ahead, p_MaxNow,
    \* Clocks
    ClockMod, SendTicks, PassTicks, Gap, Offset, Refused, c_Cap, c_MaxNow,
    \* TwoHeads
    x_max, y_max, z_max, u_max, v_max, MaxCoord

VARIABLES
    \* PollReactor
    p_now, waketime, next_timer, p_phase, p_i, busy, until,
    \* Clocks
    c_now, stats_send_time, stats_send_time_high, last_pass, c_up, connected, last_clock,
    ce_last_clock, result,
    \* TwoHeads
    limits, pos, pc, todo, referenced

pollVars == <<p_now, waketime, next_timer, p_phase, p_i, busy, until>>
clockVars ==
    <<c_now, stats_send_time, stats_send_time_high, last_pass, c_up, connected, last_clock,
      ce_last_clock, result>>
headVars == <<limits, pos, pc, todo, referenced>>

Poll == INSTANCE PollReactor
    WITH Ahead <- p_Ahead, MaxNow <- p_MaxNow, now <- p_now, phase <- p_phase, i <- p_i

Clk == INSTANCE Clocks
    WITH Cap <- c_Cap, MaxNow <- c_MaxNow, now <- c_now, up <- c_up

Heads == INSTANCE TwoHeads

ASSUME HostPartsAssumption ==
    Poll!PollReactorAssumption /\ Clk!ClocksAssumption /\ Heads!TwoHeadsAssumption

-----------------------------------------------------------------------------
\* pollreactor.c: next_timer is never later than a timer the scan will not look at by
\* itself, whatever the callbacks change meanwhile, and the loop sleeps less than a
\* millisecond past any timer.
PollPunctual == Poll!NoLostTimer /\ Poll!Punctual

\* The uptime stats_update() keeps is exact however often the clock wraps around, and
\* every clock the host extends to 64 bits (clock32_to_clock64(),
\* clock_from_clock32()) is the time it was taken at.
ClocksExact == Clk!UptimeExact /\ Clk!ExtensionExact

\* check_move() accepts a move of the first head or of the bed only if the axis was
\* homed after the motors were last off, by homing that did not fail, and only to a
\* place between position_min and position_max.
FirstHeadVerified == Heads!FirstHeadVerified
=============================================================================
