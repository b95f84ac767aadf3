------------------------------- MODULE Endstop ------------------------------
(***************************************************************************)
(* Sampling of an end stop during a homing move, src/endstop.c, and the    *)
(* trigger time that home_wait() of klippy/mcu.py computes.  Timers run    *)
(* when they are due (see TimerList); the pin may change at any time.      *)
(***************************************************************************)
EXTENDS Integers, Sequences

CONSTANTS
    sample_time, sample_count, rest_time,  \* arguments of endstop_home
    MaxNow,    \* bound of the model: when time stops
    Rounds     \* bound of the model: homing moves

VARIABLES
    now,
    pin,            \* does the pin have the value that is waited for?
    func,           \* the timer's function: "event", "oversample" or "none"
    waketime, nextwake, trigger_count,
    homing,         \* ESF_HOMING
    triggered,      \* trsync_do_trigger() was called
    answer,         \* next_clock of the last endstop_state: <<>> or <<time>>
    round,
    matched,        \* history: times of the samples that matched without a break
    since           \* history: since when the pin is sampled and has its value

esVars == <<func, waketime, nextwake, trigger_count>>
vars == <<now, pin, esVars, homing, triggered, answer, round, matched, since>>

\* A series of samples ends before the next attempt is due.  (With klippy's 4 samples
\* 15 us apart that holds up to 22000 steps a second.  Beyond it an interrupted
\* series is followed by samples in quick succession.)
EndstopAssumption ==
    /\ {sample_time, sample_count, rest_time} \subseteq Nat \ {0}
    /\ sample_count < 256
    /\ (sample_count - 1) * sample_time <= rest_time

Init ==
    /\ now = 0
    /\ pin = FALSE
    /\ func = "none" /\ waketime = 0 /\ nextwake = 0 /\ trigger_count = 0
    /\ homing = FALSE /\ triggered = FALSE /\ answer = <<>> /\ round = 0
    /\ matched = <<>> /\ since = 0

\* Mutant: the series starts again with the samples it has already counted.
CountAfterMismatch_Keep == trigger_count

\* endstop_oversample_event(): all samples have to be taken again.
CountAfterMismatch == sample_count

\* ... from the time of the next attempt on.
WakeAfterMismatch(next) == next

\* nextwake is set by the sample that starts a series.
NextWake(old) == IF func = "event" THEN waketime + rest_time ELSE old

\* endstop_event() when the pin does not match
endstop_event ==
    /\ func = "event" /\ waketime <= now
    /\ ~pin
    /\ waketime' = waketime + rest_time
    /\ UNCHANGED <<now, pin, func, nextwake, trigger_count, homing, triggered, answer, round,
                   matched, since>>

\* endstop_oversample_event(), called by the timer or, when the pin matches, by
\* endstop_event().  The pin is read again: it may have changed in between.
endstop_oversample_event ==
    /\ func = "oversample" \/ (func = "event" /\ pin)
    /\ waketime <= now
    /\ nextwake' = NextWake(nextwake)
    /\ \/ /\ ~pin \/ func = "event"
          /\ func' = "event"
          /\ waketime' = WakeAfterMismatch(nextwake')
          /\ trigger_count' = CountAfterMismatch
          /\ pin' = FALSE
          /\ matched' = <<>>
          /\ UNCHANGED <<triggered, since>>
       \/ /\ pin
          /\ trigger_count # 1
          /\ func' = "oversample"
          /\ trigger_count' = (trigger_count - 1) % 256
          /\ waketime' = waketime + sample_time
          /\ matched' = Append(matched, now)
          /\ UNCHANGED <<pin, triggered, since>>
       \/ /\ pin
          /\ trigger_count = 1
          /\ func' = "none"
          /\ triggered' = TRUE
          /\ matched' = Append(matched, now)
          /\ UNCHANGED <<pin, trigger_count, waketime, since>>
    /\ UNCHANGED <<now, homing, answer, round>>

CountAtStart == sample_count

\* command_endstop_home()
command_endstop_home ==
    /\ round < Rounds
    /\ round' = round + 1
    /\ func' = "event"
    /\ waketime' \in {now, now + 1}
    /\ trigger_count' = CountAtStart
    /\ homing' = TRUE /\ triggered' = FALSE /\ matched' = <<>> /\ answer' = <<>>
    /\ since' = waketime'
    /\ UNCHANGED <<now, pin, nextwake>>

\* command_endstop_home() with sample_count 0
command_endstop_home_off ==
    /\ homing
    /\ func' = "none"
    /\ homing' = FALSE
    /\ UNCHANGED <<now, pin, waketime, nextwake, trigger_count, triggered, answer, round,
                   matched, since>>

\* command_endstop_query_state(): home_wait() asks when the end stop is disabled.
command_endstop_query_state ==
    /\ ~homing /\ answer = <<>>
    /\ answer' = <<nextwake>>
    /\ UNCHANGED <<now, pin, esVars, homing, triggered, round, matched, since>>

\* The switch opens, closes or bounces.
pin_changes ==
    /\ pin' = ~pin
    /\ since' = now
    /\ UNCHANGED <<now, esVars, homing, triggered, answer, round, matched>>

Tick ==
    /\ now < MaxNow
    /\ func = "none" \/ waketime > now
    /\ now' = now + 1
    /\ UNCHANGED <<pin, esVars, homing, triggered, answer, round, matched, since>>

Next ==
    \/ endstop_event \/ endstop_oversample_event
    \/ command_endstop_home \/ command_endstop_home_off \/ command_endstop_query_state
    \/ pin_changes \/ Tick

Spec == Init /\ [][Next]_vars

-----------------------------------------------------------------------------
TypeOK ==
    /\ func \in {"event", "oversample", "none"}
    /\ trigger_count \in 0..sample_count
    /\ homing \in BOOLEAN /\ triggered \in BOOLEAN

\* The end stop triggers only after sample_count samples in a row that matched,
\* sample_time apart.
DebouncedTrigger ==
    triggered => /\ Len(matched) = sample_count
                 /\ \A i \in 1 .. sample_count - 1 : matched[i + 1] - matched[i] = sample_time

\* The trigger time home_wait() computes from the answer to its query, next_clock
\* less rest_ticks, is the time of the first of these samples.
TriggerTimeExact ==
    triggered /\ answer # <<>> => answer[1] - rest_time = matched[1]

\* A switch that stays closed is noticed within one rest time, and triggers when
\* the series of samples that starts then is complete.
NoticedInTime ==
    func # "none" /\ pin => now <= since + rest_time + (sample_count - 1) * sample_time
=============================================================================
