------------------------- MODULE MotorsAndEndstops --------------------------
(***************************************************************************)
(* The steppers and an end stop of the micro-controller, with constants    *)
(* and variables of their own.                                             *)
(***************************************************************************)
EXTENDS Integers, Sequences

CONSTANTS
    \* Stepper
    Steppers, Modes, move_count, MaxCount, Bias, MaxSteps,
    \* Endstop
    sample_time, sample_count, rest_time, e_MaxNow, Rounds

VARIABLES
    \* Stepper
    mode, free, s_cmd, s_mq, count, position, last_dir, next_dir, need_reset, active,
    step_pin, dir_pin, s_shutdown, queued, taken,
    \* Endstop
    e_now, e_pin, e_func, e_waketime, nextwake, trigger_count, homing, triggered, answer,
    round, matched, e_since

stepperVars ==
    <<mode, free, s_cmd, s_mq, count, position, last_dir, next_dir, need_reset, active,
      step_pin, dir_pin, s_shutdown, queued, taken>>
endstopVars ==
    <<e_now, e_pin, e_func, e_waketime, nextwake, trigger_count, homing, triggered, answer,
      round, matched, e_since>>

Step == INSTANCE Stepper
    WITH cmd <- s_cmd, mq <- s_mq, shutdown_status <- s_shutdown

Stop == INSTANCE Endstop
    WITH MaxNow <- e_MaxNow,
         now <- e_now, pin <- e_pin, func <- e_func, waketime <- e_waketime, since <- e_since

ASSUME MotorsAssumption == Step!StepAssumption /\ Stop!EndstopAssumption

-----------------------------------------------------------------------------
\* The position stepper_get_position() reports is the number of steps the motor
\* has really taken, also after reversals and stops in the middle of a pulse.
PositionExact == Step!PositionExact

\* No move of the pool of basecmd.c is lost, queued twice or freed twice, and a
\* stepper's timer is on the timer list exactly while a move is under way, although
\* the step interrupt ends its last move while a command queues the next.
MovesAccounted == Step!TypeOK /\ Step!PoolConserved /\ Step!TimerMatchesCount

\* stepper_stop(): a stopped stepper stays where it is until its clock is reset,
\* whatever steps arrive.
StoppedStays == Step!StoppedStays

\* endstop_oversample_event(): only sample_count matching samples in a row,
\* sample_time apart, trigger; the trigger time home_wait() computes from next_clock
\* is the time of the first of them; and a switch that stays closed triggers within a
\* rest time and a series of samples.
TriggerExact ==
    Stop!TypeOK /\ Stop!DebouncedTrigger /\ Stop!TriggerTimeExact /\ Stop!NoticedInTime
=============================================================================
