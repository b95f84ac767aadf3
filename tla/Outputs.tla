------------------------------- MODULE Outputs ------------------------------
(***************************************************************************)
(* A digital output and a PWM output of the micro-controller, with         *)
(* constants and variables of their own.                                   *)
(***************************************************************************)
EXTENDS Integers, Sequences

CONSTANTS
    \* DigitalOut
    d_ClockMod, cycle_time, d_max_duration, default_on, OnTicks, d_Ahead, d_Moves, d_Start,
    d_MaxNow,
    \* PwmOut
    p_ClockMod, p_max_duration, Values, default_value, p_Ahead, p_Moves, p_Start, p_MaxNow

VARIABLES
    \* DigitalOut
    d_now, d_pin, flags, d_func, d_waketime, on_duration, end_time, d_mq, d_shutdown,
    d_last, d_since, changed,
    \* PwmOut
    p_now, p_pin, p_func, p_waketime, armed, p_mq, p_cmd, p_shutdown, p_last, p_since

digitalVars ==
    <<d_now, d_pin, flags, d_func, d_waketime, on_duration, end_time, d_mq, d_shutdown,
      d_last, d_since, changed>>
pwmVars ==
    <<p_now, p_pin, p_func, p_waketime, armed, p_mq, p_cmd, p_shutdown, p_last, p_since>>

Out == INSTANCE DigitalOut
    WITH ClockMod <- d_ClockMod, max_duration <- d_max_duration, Ahead <- d_Ahead,
         Moves <- d_Moves, Start <- d_Start, MaxNow <- d_MaxNow,
         now <- d_now, pin <- d_pin, func <- d_func, waketime <- d_waketime, mq <- d_mq,
         shutdown_status <- d_shutdown, last <- d_last, since <- d_since

Pwm == INSTANCE PwmOut
    WITH ClockMod <- p_ClockMod, max_duration <- p_max_duration, Ahead <- p_Ahead,
         Moves <- p_Moves, Start <- p_Start, MaxNow <- p_MaxNow,
         now <- p_now, pin <- p_pin, func <- p_func, waketime <- p_waketime, mq <- p_mq,
         cmd <- p_cmd, shutdown_status <- p_shutdown, last <- p_last, since <- p_since

ASSUME OutputsAssumption == Out!DigitalOutAssumption /\ Pwm!PwmOutAssumption

-----------------------------------------------------------------------------
\* Outputs change when they must.  A digital output takes every queued update before
\* its time and never makes a pulse or a pause too long; pwm_event() finds the update
\* that is due in the queue; and neither output is away from its default for longer
\* than max_duration after the last update.
OutputsOnTime ==
    /\ Out!QueueOnTime /\ Out!PulseWidth /\ Out!MaxDuration
    /\ Pwm!EventHasUpdate /\ Pwm!MaxDuration
=============================================================================
