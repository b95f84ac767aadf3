---------------------------- MODULE MotorProofs -----------------------------
(***************************************************************************)
(* Proofs about steppers and end stops, for every number of steppers,      *)
(* moves and samples.                                                      *)
(*                                                                         *)
(* An end stop is described by the times of the samples that matched.  A   *)
(* stepper is described by a relation between its variables and the steps  *)
(* its motor has taken that holds between any two of its events (Motion);  *)
(* the pool by the statement that each move is in one place, and in the    *)
(* lists once.                                                             *)
(***************************************************************************)
EXTENDS MotorsAndEndstops, NumbersAndSequences

\* Time limits of the provers: 30 seconds.
USE SMTT(30), ZenonT(30)

-----------------------------------------------------------------------------
\* End stops.

\* The samples of a series that has begun: sample_time apart, and nextwake is the time
\* of the next attempt, one rest time after the first.
Series(samples, next, n) ==
    /\ samples \in Seq(Nat) /\ Len(samples) = n
    /\ \A k \in 1..n : samples[k] = samples[1] + (k - 1) * sample_time
    /\ next = samples[1] + rest_time

\* Types.
StopTypes ==
    /\ e_now \in Nat /\ e_waketime \in Nat /\ nextwake \in Nat /\ e_since \in Nat
    /\ trigger_count \in 0..sample_count
    /\ e_func \in {"event", "oversample", "none"}
    /\ e_pin \in BOOLEAN /\ homing \in BOOLEAN /\ triggered \in BOOLEAN

\* The timer is not overdue.
NotOverdue == e_func # "none" => e_now <= e_waketime

\* Waiting for the first sample that matches.
Resting == 
    e_func = "event" => /\ trigger_count = sample_count /\ matched = <<>>
                        /\ e_waketime <= e_now + rest_time
                        /\ e_pin => e_waketime <= e_since + rest_time

\* In the middle of a series.
Sampling ==
    e_func = "oversample" =>
        /\ trigger_count >= 1 /\ trigger_count < sample_count
        /\ Series(matched, nextwake, sample_count - trigger_count)
        /\ e_waketime = matched[1] + (sample_count - trigger_count) * sample_time
        /\ matched[1] <= e_now /\ matched[1] <= e_since + rest_time

\* After the trigger, and after the end of the homing move.
Finished ==
    /\ triggered => e_func = "none" /\ Series(matched, nextwake, sample_count)
    /\ ~homing => e_func = "none"
    /\ answer = <<>> \/ (answer = <<nextwake>> /\ ~homing)

\* The inductive invariant.
StopInv == StopTypes /\ NotOverdue /\ Resting /\ Sampling /\ Finished

\* The numbers of the configuration.
LEMMA StopConstants ==
    /\ sample_time \in Nat \ {0} /\ sample_count \in Nat \ {0} /\ rest_time \in Nat \ {0}
    /\ sample_count < 256
BY ZenonT(30), MotorsAssumption DEF Stop!EndstopAssumption

\* A series is over before the next attempt.
LEMMA SeriesFits == (sample_count - 1) * sample_time <= rest_time
BY Zenon, MotorsAssumption DEF Stop!EndstopAssumption

\* Products of a sample count and the sample time.
LEMMA SeriesTime ==
    ASSUME NEW n \in Nat, NEW m \in Nat, NEW t \in Nat, n <= m
    PROVE  n * t \in Nat /\ n * t <= m * t /\ (n + 1) * t = n * t + t
OBVIOUS

\* An end stop that is not homing.
LEMMA StopInit == Stop!Init => StopInv
<1> SUFFICES ASSUME Stop!Init PROVE StopInv
  BY Zenon
<1>1. trigger_count \in 0..sample_count
  BY StopConstants DEF Stop!Init
<1>3. StopTypes
  BY Zenon, <1>1 DEF Stop!Init, StopTypes
<1>2. NotOverdue /\ Resting /\ Sampling /\ Finished
  BY Zenon DEF Stop!Init, NotOverdue, Resting, Sampling, Finished
<1> QED BY Zenon, <1>2, <1>3 DEF StopInv

\* A matching sample is the next one of its series.
LEMMA SeriesGrows ==
    ASSUME StopInv, e_func # "none", e_waketime <= e_now, matched' = Append(matched, e_now),
           nextwake' = Stop!NextWake(nextwake), e_pin
    PROVE  /\ Series(matched', nextwake', sample_count - trigger_count + 1)
           /\ matched'[1] <= e_now /\ matched'[1] <= e_since + rest_time
           /\ e_now = e_waketime
           /\ e_now + sample_time
                = matched'[1] + (sample_count - trigger_count + 1) * sample_time
<1> DEFINE n == sample_count - trigger_count
<1>1. /\ e_now \in Nat /\ e_waketime \in Nat /\ e_since \in Nat /\ sample_count \in Nat
      /\ trigger_count \in 0..sample_count /\ sample_time \in Nat /\ rest_time \in Nat
      /\ n \in Nat
  BY StopConstants DEF StopInv, StopTypes
<1>2. e_now = e_waketime
  BY <1>1 DEF StopInv, NotOverdue
<1>3. e_func = "event" \/ e_func = "oversample"
  BY Zenon DEF StopInv, StopTypes
<1>4. CASE e_func = "event"
  <2>1. trigger_count = sample_count /\ matched = <<>> /\ e_waketime <= e_since + rest_time
    BY Zenon, <1>4 DEF StopInv, Resting
  <2>2. matched' = <<e_now>> /\ n = 0
    BY <1>1, <2>1
  <2>3. nextwake' = e_now + rest_time
    BY Zenon, <1>2, <1>4 DEF Stop!NextWake
  <2>4. Series(matched', nextwake', n + 1)
    BY <1>1, <2>2, <2>3 DEF Series
  <2> QED BY <1>1, <1>2, <2>1, <2>2, <2>4
<1>5. CASE e_func = "oversample"
  <2>1. /\ Series(matched, nextwake, n) /\ n \in Nat \ {0} /\ e_waketime = matched[1] + n * sample_time
        /\ matched[1] <= e_now /\ matched[1] <= e_since + rest_time
    BY <1>1, <1>5 DEF StopInv, Sampling
  <2>2. nextwake' = nextwake
    BY Zenon, <1>5 DEF Stop!NextWake
  <2> HIDE DEF n
  <2>3. /\ matched \in Seq(Nat) /\ Len(matched) = n
        /\ \A k \in 1..n : matched[k] = matched[1] + (k - 1) * sample_time
        /\ nextwake = matched[1] + rest_time
    BY Zenon, <2>1 DEF Series
  <2>4. /\ matched' \in Seq(Nat) /\ Len(matched') = n + 1
        /\ \A k \in 1..n : matched'[k] = matched[k]
        /\ matched'[n + 1] = e_now
    BY <1>1, <2>3, SeqAppend
  <2>5. matched'[1] = matched[1] /\ matched[1] \in Nat
    BY <2>1, <2>3, <2>4
  <2>6. \A k \in 1..(n + 1) : matched'[k] = matched'[1] + (k - 1) * sample_time
    <3> SUFFICES ASSUME NEW k \in 1..(n + 1)
                 PROVE  matched'[k] = matched'[1] + (k - 1) * sample_time
      BY Zenon
    <3>1. CASE k \in 1..n
      BY Zenon, <2>3, <2>4, <2>5, <3>1
    <3>2. CASE k = n + 1
      <4>1. k - 1 = n
        BY <1>1, <3>2
      <4> QED BY Zenon, <1>2, <2>1, <2>4, <2>5, <3>2, <4>1
    <3>3. k \in 1..n \/ k = n + 1
      BY <1>1
    <3> QED BY Zenon, <3>1, <3>2, <3>3
  <2>7. Series(matched', nextwake', n + 1)
    BY Zenon, <2>2, <2>3, <2>4, <2>5, <2>6 DEF Series
  <2>8. (n + 1) * sample_time = n * sample_time + sample_time /\ n * sample_time \in Nat
    BY <1>1, SeriesTime
  <2>9. e_now + sample_time = matched'[1] + (n + 1) * sample_time
    BY <1>1, <1>2, <2>1, <2>5, <2>8
  <2> QED BY Zenon, <1>2, <2>1, <2>5, <2>7, <2>9 DEF n
<1> QED BY Zenon, <1>3, <1>4, <1>5

\* Every step keeps it.
LEMMA StopStep == StopInv /\ [Stop!Next]_(Stop!vars) => StopInv'
<1> SUFFICES ASSUME StopInv, [Stop!Next]_(Stop!vars) PROVE StopInv'
  BY Zenon
<1>1. /\ e_now \in Nat /\ e_waketime \in Nat /\ nextwake \in Nat /\ e_since \in Nat
      /\ trigger_count \in 0..sample_count /\ e_func \in {"event", "oversample", "none"}
      /\ e_pin \in BOOLEAN /\ homing \in BOOLEAN /\ triggered \in BOOLEAN
  BY Zenon DEF StopInv, StopTypes
<1>2. sample_time \in Nat \ {0} /\ sample_count \in Nat \ {0} /\ rest_time \in Nat \ {0}
  BY Zenon, StopConstants
<1>3. CASE Stop!endstop_event
  <2>1. /\ e_func = "event" /\ ~e_pin /\ e_waketime <= e_now
        /\ e_waketime' = e_waketime + rest_time
        /\ UNCHANGED <<e_now, e_pin, e_func, nextwake, trigger_count, homing, triggered,
                       answer, matched, e_since>>
    BY Zenon, <1>3 DEF Stop!endstop_event
  <2>2. e_now = e_waketime
    BY <1>1, <2>1 DEF StopInv, NotOverdue
  <2>3. StopTypes' /\ NotOverdue' /\ Resting'
    BY <1>1, <1>2, <2>1, <2>2 DEF StopInv, StopTypes, NotOverdue, Resting
  <2>4. Sampling' /\ Finished'
    BY Zenon, <2>1 DEF StopInv, Sampling, Finished
  <2> QED BY Zenon, <2>3, <2>4 DEF StopInv
<1>4. CASE Stop!endstop_oversample_event
  <2>0. /\ e_func # "none" /\ e_waketime <= e_now /\ nextwake' = Stop!NextWake(nextwake)
        /\ e_func = "oversample" \/ (e_func = "event" /\ e_pin)
        /\ UNCHANGED <<e_now, homing, answer, round, e_since>>
    BY Zenon, <1>4 DEF Stop!endstop_oversample_event
  <2>a. e_now = e_waketime
    BY <1>1, <2>0 DEF StopInv, NotOverdue
  <2>b. homing /\ answer = <<>> /\ ~triggered
    BY Zenon, <2>0 DEF StopInv, Finished
  <2>1. CASE /\ ~e_pin \/ e_func = "event"
             /\ e_func' = "event" /\ e_waketime' = nextwake' /\ trigger_count' = sample_count
             /\ e_pin' = FALSE /\ matched' = <<>> /\ triggered' = triggered
    <3>1. nextwake' \in Nat /\ e_now <= nextwake' /\ nextwake' <= e_now + rest_time
      <4>1. CASE e_func = "event"
        BY <1>1, <1>2, <2>0, <2>a, <4>1 DEF Stop!NextWake
      <4>2. CASE e_func = "oversample"
        <5> DEFINE n == sample_count - trigger_count
        <5>1. /\ Series(matched, nextwake, n) /\ n \in Nat \ {0} /\ n <= sample_count - 1
              /\ e_waketime = matched[1] + n * sample_time /\ matched[1] <= e_now
          BY <1>1, <1>2, <4>2 DEF StopInv, Sampling
        <5>2. nextwake' = nextwake
          BY Zenon, <2>0, <4>2 DEF Stop!NextWake
        <5> HIDE DEF n
        <5>3. nextwake = matched[1] + rest_time /\ matched[1] \in Nat
          BY <5>1 DEF Series
        <5>4. n * sample_time \in Nat /\ n * sample_time <= (sample_count - 1) * sample_time
              /\ (sample_count - 1) * sample_time \in Nat
          BY <1>2, <5>1, SeriesTime
        <5>5. n * sample_time <= rest_time
          BY <1>2, <5>4, SeriesFits
        <5> QED BY <1>1, <1>2, <2>a, <5>1, <5>2, <5>3, <5>4, <5>5
      <4> QED BY Zenon, <2>0, <4>1, <4>2
    <3>2. sample_count \in 0..sample_count
      BY <1>2
    <3>3. StopTypes' /\ NotOverdue' /\ Resting'
      BY Zenon, <1>1, <2>0, <2>1, <3>1, <3>2 DEF StopInv, StopTypes, NotOverdue, Resting
    <3>4. Sampling' /\ Finished'
      BY Zenon, <2>0, <2>1, <2>b DEF StopInv, Sampling, Finished
    <3> QED BY Zenon, <3>3, <3>4 DEF StopInv
  <2>2. CASE /\ e_pin /\ trigger_count # 1
             /\ e_func' = "oversample" /\ trigger_count' = (trigger_count - 1) % 256
             /\ e_waketime' = e_waketime + sample_time
             /\ matched' = Append(matched, e_now) /\ UNCHANGED <<e_pin, triggered>>
    <3>1. trigger_count \in 2..255
      <4>1. trigger_count >= 1
        BY <1>1, <1>2, <2>0 DEF StopInv, Resting, Sampling
      <4> QED BY <1>1, <2>2, <4>1, StopConstants
    <3>2. trigger_count' = trigger_count - 1
      BY <2>2, <3>1
    <3>3. sample_count - trigger_count + 1 = sample_count - trigger_count'
          /\ trigger_count' \in 0..sample_count /\ trigger_count' >= 1
          /\ trigger_count' < sample_count
      BY <1>1, <1>2, <3>1, <3>2
    <3>4. /\ Series(matched', nextwake', sample_count - trigger_count + 1)
          /\ matched'[1] <= e_now /\ matched'[1] <= e_since + rest_time
          /\ e_now + sample_time
               = matched'[1] + (sample_count - trigger_count + 1) * sample_time
      BY Zenon, <2>0, <2>2, SeriesGrows
    <3>5. Sampling'
      BY <2>0, <2>2, <2>a, <3>3, <3>4 DEF Sampling
    <3>6. nextwake' \in Nat
      BY <1>1, <1>2, <2>0 DEF Stop!NextWake
    <3>7. e_waketime' \in Nat /\ e_now' <= e_waketime'
      BY <1>1, <1>2, <2>0, <2>2, <2>a
    <3>8. StopTypes' /\ NotOverdue' /\ Resting'
      BY Zenon, <1>1, <2>0, <2>2, <3>3, <3>6, <3>7 DEF StopTypes, NotOverdue, Resting
    <3>9. Finished'
      BY Zenon, <2>0, <2>2, <2>b DEF Finished
    <3> QED BY Zenon, <3>5, <3>8, <3>9 DEF StopInv
  <2>3. CASE /\ e_pin /\ trigger_count = 1
             /\ e_func' = "none" /\ triggered' = TRUE
             /\ matched' = Append(matched, e_now)
             /\ UNCHANGED <<e_pin, trigger_count, e_waketime>>
    <3>1. Series(matched', nextwake', sample_count - trigger_count + 1)
      BY Zenon, <2>0, <2>3, SeriesGrows
    <3>2. sample_count - trigger_count + 1 = sample_count
      BY <1>2, <2>3
    <3>3. Finished'
      BY Zenon, <2>0, <2>3, <2>b, <3>1, <3>2 DEF Finished
    <3>4. nextwake' \in Nat
      BY <1>1, <1>2, <2>0 DEF Stop!NextWake
    <3>5. StopTypes' /\ NotOverdue' /\ Resting' /\ Sampling'
      BY Zenon, <1>1, <2>0, <2>3, <3>4 DEF StopTypes, NotOverdue, Resting, Sampling
    <3> QED BY Zenon, <3>3, <3>5 DEF StopInv
  <2> QED
    BY Zenon, <1>4, <2>0, <2>1, <2>2, <2>3
       DEF Stop!endstop_oversample_event, Stop!WakeAfterMismatch, Stop!CountAfterMismatch
<1>5. CASE Stop!command_endstop_home
  <2>1. /\ e_func' = "event" /\ e_waketime' \in {e_now, e_now + 1}
        /\ trigger_count' = sample_count
        /\ homing' = TRUE /\ triggered' = FALSE /\ matched' = <<>> /\ answer' = <<>>
        /\ e_since' = e_waketime'
        /\ UNCHANGED <<e_now, e_pin, nextwake>>
    BY Zenon, <1>5 DEF Stop!command_endstop_home, Stop!CountAtStart
  <2>2. sample_count \in 0..sample_count
    BY <1>2
  <2>3. /\ e_waketime' \in Nat /\ e_now <= e_waketime' /\ e_waketime' <= e_now + rest_time
        /\ e_waketime' <= e_since' + rest_time
    <3>1. e_waketime' = e_now \/ e_waketime' = e_now + 1
      BY Zenon, <2>1
    <3>2. e_waketime' \in Nat /\ e_now <= e_waketime' /\ e_waketime' <= e_now + rest_time
      BY <1>1, <1>2, <3>1
    <3>3. e_waketime' <= e_waketime' + rest_time
      BY <1>1, <1>2, <3>1
    <3> QED BY Zenon, <2>1, <3>2, <3>3
  <2>4. StopTypes' /\ NotOverdue' /\ Resting' /\ Sampling' /\ Finished'
    BY Zenon, <1>1, <2>1, <2>2, <2>3 DEF StopTypes, NotOverdue, Resting, Sampling, Finished
  <2> QED BY Zenon, <2>4 DEF StopInv
<1>6. CASE Stop!command_endstop_home_off
  <2>1. /\ e_func' = "none" /\ homing /\ homing' = FALSE
        /\ UNCHANGED <<e_now, e_pin, e_waketime, nextwake, trigger_count, triggered, answer,
                       matched, e_since>>
    BY Zenon, <1>6 DEF Stop!command_endstop_home_off
  <2>2. StopTypes' /\ NotOverdue' /\ Resting' /\ Sampling'
    BY Zenon, <1>1, <2>1 DEF StopTypes, NotOverdue, Resting, Sampling
  <2>3. Finished'
    BY Zenon, <2>1 DEF StopInv, Finished
  <2> QED BY Zenon, <2>2, <2>3 DEF StopInv
<1>7. CASE Stop!command_endstop_query_state
  <2>1. /\ ~homing /\ answer' = <<nextwake>>
        /\ UNCHANGED <<e_now, e_pin, Stop!esVars, homing, triggered, matched, e_since>>
    BY Zenon, <1>7 DEF Stop!command_endstop_query_state
  <2>2. StopTypes' /\ NotOverdue' /\ Resting' /\ Sampling' /\ Finished'
    BY Zenon, <2>1 DEF StopInv, StopTypes, NotOverdue, Resting, Sampling, Finished, Stop!esVars
  <2> QED BY Zenon, <2>2 DEF StopInv
<1>8. CASE Stop!pin_changes
  <2>1. /\ e_pin' = ~e_pin /\ e_since' = e_now
        /\ UNCHANGED <<e_now, Stop!esVars, homing, triggered, answer, matched>>
    BY Zenon, <1>8 DEF Stop!pin_changes
  <2>2. StopTypes' /\ NotOverdue' /\ Resting' /\ Finished'
    BY Zenon, <1>1, <2>1 DEF StopInv, StopTypes, NotOverdue, Resting, Finished, Stop!esVars
  <2>3. e_func = "oversample" => matched[1] <= e_now + rest_time
    <3> SUFFICES ASSUME e_func = "oversample" PROVE matched[1] <= e_now + rest_time
      BY Zenon
    <3>1. matched[1] <= e_now /\ matched[1] \in Nat
      <4>1. /\ Series(matched, nextwake, sample_count - trigger_count)
            /\ matched[1] <= e_now /\ trigger_count < sample_count
        BY Zenon DEF StopInv, Sampling
      <4>2. 1 \in 1..(sample_count - trigger_count)
        BY <1>1, <1>2, <4>1
      <4> QED BY <4>1, <4>2 DEF Series
    <3> QED BY <1>1, <1>2, <3>1
  <2>4. Sampling'
    BY Zenon, <2>1, <2>3 DEF StopInv, Sampling, Stop!esVars
  <2> QED BY Zenon, <2>2, <2>4 DEF StopInv
<1>9. CASE Stop!Tick
  <2>1. /\ e_func = "none" \/ e_waketime > e_now
        /\ e_now' = e_now + 1
        /\ UNCHANGED <<e_pin, Stop!esVars, homing, triggered, answer, matched, e_since>>
    BY Zenon, <1>9 DEF Stop!Tick
  <2>2. StopTypes' /\ NotOverdue' /\ Resting' /\ Finished'
    BY <1>1, <1>2, <2>1 DEF StopInv, StopTypes, NotOverdue, Resting, Finished, Stop!esVars
  <2>3. e_func = "oversample" => matched[1] <= e_now + 1
    <3> SUFFICES ASSUME e_func = "oversample" PROVE matched[1] <= e_now + 1
      BY Zenon
    <3>1. matched[1] <= e_now /\ matched[1] \in Nat
      <4>1. /\ Series(matched, nextwake, sample_count - trigger_count)
            /\ matched[1] <= e_now /\ trigger_count < sample_count
        BY Zenon DEF StopInv, Sampling
      <4>2. 1 \in 1..(sample_count - trigger_count)
        BY <1>1, <1>2, <4>1
      <4> QED BY <4>1, <4>2 DEF Series
    <3> QED BY <1>1, <1>2, <3>1
  <2>4. Sampling'
    BY Zenon, <2>1, <2>3 DEF StopInv, Sampling, Stop!esVars
  <2> QED BY Zenon, <2>2, <2>4 DEF StopInv
<1>10. CASE UNCHANGED Stop!vars
  BY Zenon, <1>10 DEF StopInv, StopTypes, NotOverdue, Resting, Sampling, Finished, Stop!vars, Stop!esVars
<1> QED
  BY Zenon, <1>3, <1>4, <1>5, <1>6, <1>7, <1>8, <1>9, <1>10 DEF Stop!Next

\* What the invariant says about the trigger.
LEMMA StopExact == StopInv => TriggerExact
<1> SUFFICES ASSUME StopInv PROVE TriggerExact
  BY Zenon
<1>1. Stop!TypeOK
  BY Zenon DEF StopInv, StopTypes, Stop!TypeOK
<1>2. sample_time \in Nat /\ sample_count \in Nat \ {0} /\ rest_time \in Nat \ {0}
  BY Zenon, StopConstants
<1>3. Stop!DebouncedTrigger
  <2> SUFFICES ASSUME triggered
               PROVE  /\ Len(matched) = sample_count
                      /\ \A k \in 1 .. sample_count - 1 :
                            matched[k + 1] - matched[k] = sample_time
    BY Zenon DEF Stop!DebouncedTrigger
  <2>1. Series(matched, nextwake, sample_count)
    BY Zenon DEF StopInv, Finished
  <2>2. ASSUME NEW k \in 1 .. sample_count - 1
        PROVE  matched[k + 1] - matched[k] = sample_time
    <3>1. k \in 1..sample_count /\ k + 1 \in 1..sample_count /\ (k + 1) - 1 = (k - 1) + 1
          /\ 1 \in 1..sample_count /\ k - 1 \in Nat
      BY <1>2
    <3>2. /\ matched[k] = matched[1] + (k - 1) * sample_time
          /\ matched[k + 1] = matched[1] + ((k + 1) - 1) * sample_time
          /\ matched[1] \in Nat
      BY <2>1, <3>1 DEF Series
    <3>3. ((k - 1) + 1) * sample_time = (k - 1) * sample_time + sample_time
          /\ (k - 1) * sample_time \in Nat
      BY <1>2, <3>1, SeriesTime
    <3> QED BY <1>2, <3>1, <3>2, <3>3
  <2> QED BY Zenon, <2>1, <2>2 DEF Series
<1>4. Stop!TriggerTimeExact
  <2> SUFFICES ASSUME triggered, answer # <<>> PROVE answer[1] - rest_time = matched[1]
    BY Zenon DEF Stop!TriggerTimeExact
  <2>1. Series(matched, nextwake, sample_count) /\ answer = <<nextwake>>
    BY Zenon DEF StopInv, Finished
  <2>2. nextwake = matched[1] + rest_time /\ matched[1] \in Nat
    BY <1>2, <2>1 DEF Series
  <2> QED BY <1>2, <2>1, <2>2
<1>5. Stop!NoticedInTime
  <2> DEFINE c == (sample_count - 1) * sample_time
  <2>0. /\ c \in Nat /\ e_now \in Nat /\ e_waketime \in Nat /\ e_since \in Nat
        /\ trigger_count \in 0..sample_count
        /\ e_func \in {"event", "oversample", "none"}
    BY <1>2, SeriesTime DEF StopInv, StopTypes
  <2> SUFFICES ASSUME e_func # "none", e_pin PROVE e_now <= e_since + rest_time + c
    BY Zenon DEF Stop!NoticedInTime
  <2>1. e_now <= e_waketime
    BY Zenon DEF StopInv, NotOverdue
  <2>2. CASE e_func = "event"
    <3>1. e_waketime <= e_since + rest_time
      BY Zenon, <2>2 DEF StopInv, Resting
    <3> HIDE DEF c
    <3> QED BY <1>2, <2>0, <2>1, <3>1
  <2>3. CASE e_func = "oversample"
    <3> DEFINE n == sample_count - trigger_count
    <3>1. /\ Series(matched, nextwake, n) /\ n \in Nat \ {0} /\ n <= sample_count - 1
          /\ e_waketime = matched[1] + n * sample_time /\ matched[1] <= e_since + rest_time
      BY <1>2, <2>0, <2>3 DEF StopInv, Sampling
    <3> HIDE DEF n
    <3>2. matched[1] \in Nat
      BY <3>1 DEF Series
    <3>3. n * sample_time \in Nat /\ n * sample_time <= c
      BY <1>2, <3>1, SeriesTime
    <3> HIDE DEF c
    <3> QED BY <1>2, <2>0, <2>1, <3>1, <3>2, <3>3
  <2> QED BY Zenon, <2>0, <2>2, <2>3
<1> QED BY Zenon, <1>1, <1>3, <1>4, <1>5 DEF TriggerExact

-----------------------------------------------------------------------------
\* Steppers.

\* The queue_step command that has its move.
Command == [oid : Steppers, node : Step!Node, count : 1..MaxCount]

\* Types.
StepTypes ==
    /\ mode \in [Steppers -> Modes] /\ mode \in [Steppers -> {"full", "edge", "avr"}]
    /\ free \in Seq(Step!Node)
    /\ s_cmd = <<>> \/ \E c \in Command : s_cmd = <<c>>
    /\ s_mq \in [Steppers -> Seq(Step!Move)]
    /\ count \in [Steppers -> Nat] /\ position \in [Steppers -> Nat]
    /\ last_dir \in [Steppers -> BOOLEAN] /\ next_dir \in [Steppers -> BOOLEAN]
    /\ need_reset \in [Steppers -> BOOLEAN] /\ active \in [Steppers -> BOOLEAN]
    /\ step_pin \in [Steppers -> BOOLEAN] /\ dir_pin \in [Steppers -> BOOLEAN]
    /\ s_shutdown \in BOOLEAN
    /\ queued \in Nat /\ queued <= MaxSteps
    /\ taken \in [Steppers -> Int]

\* The timer is on the list and moves are queued only while a move is under way, and
\* a stepper that was stopped has none.
TimerInv ==
    \A s \in Steppers :
        /\ active[s] <=> count[s] # 0
        /\ count[s] = 0 => s_mq[s] = <<>>
        /\ need_reset[s] => count[s] = 0
        /\ count[s] <= 2 * MaxCount

\* The counts of a queue add up to `total`: `rest` gives what is left after each move.
AddsUp(q, total) ==
    \E rest \in [0..Len(q) -> Nat] :
        /\ rest[0] = total /\ rest[Len(q)] = 0
        /\ \A k \in 1..Len(q) : rest[k - 1] = q[k].count + rest[k]

\* The steps that `count` stands for: each is two events in the full mode.
Left(md, ct) == IF md = "full" THEN ct \div 2 ELSE ct
Distance(tk) == IF tk < 0 THEN -tk ELSE tk

\* What is true of a stepper at every moment, of the values of its variables: mode md,
\* count ct, position ps, steps taken tk, step pin sp, direction pin dp, queue q, and cs
\* steps in the hands of a command, when qd steps were queued in all.  The step pin is
\* away from its idle level between a step event and its unstep event.  position counts
\* the steps of the current move already, and is negative while the stepper goes down.
\* The steps taken, left and queued were all asked for.
Motion(md, ct, ps, tk, sp, dp, q, cs, qd) ==
    /\ md = "full" => (sp <=> ct % 2 = 1)
    /\ md = "avr" => ~sp
    /\ ps = (IF dp THEN tk + Bias ELSE 4 * Bias - (tk + Bias)) + Left(md, ct)
    /\ \E total \in Nat : AddsUp(q, total) /\ Distance(tk) + Left(md, ct) + total + cs <= qd

\* The steps of s that a command is about to queue.
CommandSteps(s) == IF s_cmd # <<>> /\ s_cmd[1].oid = s THEN s_cmd[1].count ELSE 0

MotionOf(s) ==
    Motion(mode[s], count[s], position[s], taken[s], step_pin[s], dir_pin[s], s_mq[s],
           CommandSteps(s), queued)

MotionInv == \A s \in Steppers : MotionOf(s)

\* The nodes of a list of free moves, and of a queue; none is there twice.
Held(f) == {f[i] : i \in 1..Len(f)}
Once(f) == \A i, j \in 1..Len(f) : f[i] = f[j] => i = j
Waiting(q) == {q[i].node : i \in 1..Len(q)}
WaitOnce(q) == \A i, j \in 1..Len(q) : q[i].node = q[j].node => i = j

\* The node that a command has taken.
InHand == {s_cmd[i].node : i \in 1..Len(s_cmd)}

\* Every node of the pool is in exactly one place.
PoolInv ==
    /\ Once(free) /\ \A s \in Steppers : WaitOnce(s_mq[s])
    /\ \A s \in Steppers : Held(free) \cap Waiting(s_mq[s]) = {}
    /\ \A s, t \in Steppers : s # t => Waiting(s_mq[s]) \cap Waiting(s_mq[t]) = {}
    /\ InHand \cap Held(free) = {}
    /\ \A s \in Steppers : InHand \cap Waiting(s_mq[s]) = {}
    /\ \A n \in Step!Node :
          n \in Held(free) \/ n \in InHand \/ \E s \in Steppers : n \in Waiting(s_mq[s])

\* The inductive invariant.
StepInv == StepTypes /\ TimerInv /\ MotionInv /\ PoolInv

-----------------------------------------------------------------------------
\* Of the values of one stepper.

\* The numbers of the configuration.
LEMMA StepConstants ==
    /\ Bias \in Nat \ {0} /\ MaxSteps \in Nat /\ MaxSteps < Bias /\ MaxCount \in Nat
    /\ Step!PosMod = 4 * Bias
BY Zenon, MotorsAssumption DEF Step!StepAssumption, Step!PosMod

\* A step is two events in the full mode.
LEMMA Halves ==
    ASSUME NEW ct \in Nat
    PROVE  /\ ct \div 2 \in Nat /\ ct \div 2 <= ct
           /\ ct % 2 = 1 => ct > 0 /\ (ct - 1) \div 2 = ct \div 2 /\ (ct - 1) % 2 # 1
           /\ ct % 2 # 1 /\ ct > 0 => (ct - 1) \div 2 = ct \div 2 - 1 /\ (ct - 1) % 2 = 1
           /\ (2 * ct) \div 2 = ct /\ (2 * ct) % 2 # 1
OBVIOUS

\* An empty queue holds no steps.
LEMMA AddsUpEmpty == AddsUp(<<>>, 0)
<1> DEFINE f == [k \in 0..0 |-> 0]
<1>1. f \in [0..0 -> Nat] /\ f[0] = 0 /\ Len(<<>>) = 0
  OBVIOUS
<1> HIDE DEF f
<1>2. \A k \in 1..0 : f[k - 1] = <<>>[k].count + f[k]
  OBVIOUS
<1> QED BY Zenon, <1>1, <1>2 DEF AddsUp

\* move_queue_push() adds the steps of the move to those of the queue.
LEMMA AddsUpAppend ==
    ASSUME NEW q \in Seq(Step!Move), NEW m \in Step!Move, NEW total \in Nat, AddsUp(q, total)
    PROVE  AddsUp(Append(q, m), total + m.count) /\ total + m.count \in Nat
<1> DEFINE n == Len(q)
           r == Append(q, m)
<1>1. n \in Nat /\ Len(r) = n + 1 /\ (\A k \in 1..n : r[k] = q[k]) /\ r[n + 1] = m
  BY SeqAppend, SeqLen
<1>2. PICK rest \in [0..n -> Nat] :
        /\ rest[0] = total /\ rest[n] = 0 /\ \A k \in 1..n : rest[k - 1] = q[k].count + rest[k]
  BY Zenon DEF AddsUp
<1> DEFINE f == [k \in 0..(n + 1) |-> IF k <= n THEN rest[k] + m.count ELSE 0]
<1>3. m.count \in Nat
  BY StepConstants DEF Step!Move
<1>q. \A k \in 1..n : q[k].count \in Nat
  <2>1. \A k \in 1..n : q[k] \in Step!Move
    BY Zenon, SeqElement
  <2> QED BY <2>1, StepConstants DEF Step!Move
<1> HIDE DEF r, n
<1>4. f \in [0..(n + 1) -> Nat] /\ f[0] = total + m.count /\ f[n + 1] = 0 /\ f[n] = m.count
  BY <1>1, <1>2, <1>3
<1>5. ASSUME NEW k \in 1..(n + 1) PROVE f[k - 1] = r[k].count + f[k]
  <2>1. CASE k \in 1..n
    <3>1. k - 1 \in 0..n /\ k \in 0..n
      BY <1>1, <2>1
    <3>2. f[k] = rest[k] + m.count /\ f[k - 1] = rest[k - 1] + m.count
      BY <1>1, <3>1
    <3>3. rest[k] \in Nat /\ rest[k - 1] = q[k].count + rest[k] /\ q[k].count \in Nat
      BY Zenon, <1>2, <1>q, <2>1, <3>1
    <3>4. r[k] = q[k]
      BY Zenon, <1>1, <2>1
    <3> QED BY <1>3, <3>2, <3>3, <3>4
  <2>2. CASE k = n + 1
    BY <1>1, <1>3, <1>4, <2>2
  <2>3. k \in 1..n \/ k = n + 1
    BY <1>1
  <2> QED BY Zenon, <2>1, <2>2, <2>3
<1> HIDE DEF f
<1>6. AddsUp(r, total + m.count)
  BY Zenon, <1>1, <1>4, <1>5 DEF AddsUp
<1> QED BY <1>3, <1>6 DEF r

\* move_queue_pop() takes the steps of the first move from those of the queue.
LEMMA AddsUpTail ==
    ASSUME NEW q \in Seq(Step!Move), NEW total \in Nat, AddsUp(q, total), q # <<>>
    PROVE  total - Head(q).count \in Nat /\ AddsUp(Tail(q), total - Head(q).count)
<1> DEFINE n == Len(q)
           r == Tail(q)
           c == Head(q).count
<1>1. /\ n \in Nat \ {0} /\ Head(q) = q[1] /\ q[1] \in Step!Move
      /\ r \in Seq(Step!Move) /\ Len(r) = n - 1
      /\ \A k \in 1..(n - 1) : r[k] = q[k + 1]
  BY SeqHeadTail, SeqLen, SeqEmpty, FrontOfSeq
<1>2. PICK rest \in [0..n -> Nat] :
        /\ rest[0] = total /\ rest[n] = 0 /\ \A k \in 1..n : rest[k - 1] = q[k].count + rest[k]
  BY Zenon DEF AddsUp
<1>3. c \in Nat /\ q[1].count = c
  BY <1>1, StepConstants DEF Step!Move
<1> HIDE DEF r, n, c
<1>4. rest[1] \in Nat /\ rest[1] = total - c
  <2>1. 1 \in 1..n /\ 1 \in 0..n /\ 1 - 1 = 0
    BY <1>1
  <2>2. rest[1] \in Nat /\ rest[0] = c + rest[1]
    BY Zenon, <1>2, <1>3, <2>1
  <2> QED BY <1>2, <1>3, <2>2
<1> DEFINE f == [k \in 0..(n - 1) |-> rest[k + 1]]
<1>5. f \in [0..(n - 1) -> Nat] /\ f[0] = rest[1] /\ f[n - 1] = 0
  BY <1>1, <1>2
<1>6. ASSUME NEW k \in 1..(n - 1) PROVE f[k - 1] = r[k].count + f[k]
  <2>1. /\ k \in 0..(n - 1) /\ k - 1 \in 0..(n - 1) /\ k + 1 \in 1..n
        /\ (k + 1) - 1 = k /\ (k - 1) + 1 = k
    BY <1>1
  <2>2. f[k] = rest[k + 1] /\ f[k - 1] = rest[k]
    BY Zenon, <2>1
  <2>3. rest[k] = q[k + 1].count + rest[k + 1] /\ r[k] = q[k + 1]
    BY Zenon, <1>1, <1>2, <2>1
  <2> QED BY Zenon, <2>2, <2>3
<1> HIDE DEF f
<1>7. AddsUp(r, total - c)
  BY ZenonT(30), <1>1, <1>4, <1>5, <1>6 DEF AddsUp
<1> QED BY Zenon, <1>4, <1>7 DEF r, c

\* The numbers never reach the ends of their ranges.
LEMMA MotionBounds ==
    ASSUME NEW md \in {"full", "edge", "avr"}, NEW ct \in Nat, NEW ps, NEW tk \in Int,
           NEW sp, NEW dp, NEW q, NEW cs \in Nat,
           NEW qd \in Nat, qd <= MaxSteps,
           Motion(md, ct, ps, tk, sp, dp, q, cs, qd)
    PROVE  /\ Left(md, ct) \in Nat
           /\ -Bias < tk - Left(md, ct) /\ tk + Left(md, ct) < Bias
           /\ -Bias < tk /\ tk < Bias /\ ps \in 0..(4 * Bias - 1)
<1>1. Left(md, ct) \in Nat
  BY Zenon, Halves DEF Left
<1>2. PICK total \in Nat : Distance(tk) + Left(md, ct) + total + cs <= qd
  BY Zenon DEF Motion
<1>3. ps = (IF dp THEN tk + Bias ELSE 4 * Bias - (tk + Bias)) + Left(md, ct)
  BY Zenon DEF Motion
<1> DEFINE l == Left(md, ct)
<1>4. l \in Nat /\ Distance(tk) + l + total + cs <= qd
      /\ ps = (IF dp THEN tk + Bias ELSE 4 * Bias - (tk + Bias)) + l
  BY Zenon, <1>1, <1>2, <1>3
<1> HIDE DEF l
<1>5. -Bias < tk - l /\ tk + l < Bias /\ -Bias < tk /\ tk < Bias
  BY <1>4, StepConstants DEF Distance
<1>6. ps \in 0..(4 * Bias - 1)
  BY <1>4, <1>5, StepConstants
<1> QED BY Zenon, <1>4, <1>5, <1>6 DEF l

\* A step event, or an unstep event.
LEMMA MotionEvent ==
    ASSUME NEW md \in {"full", "edge", "avr"}, NEW ct \in Nat \ {0}, NEW ps, NEW tk \in Int,
           NEW sp, NEW dp, NEW q, NEW cs \in Nat, NEW qd \in Nat,
           Motion(md, ct, ps, tk, sp, dp, q, cs, qd)
    PROVE  Motion(md, ct - 1, ps,
                  IF md # "edge" /\ sp THEN tk ELSE IF dp THEN tk + 1 ELSE tk - 1,
                  IF md = "avr" THEN sp ELSE ~sp, dp, q, cs, qd)
<1> DEFINE sp2 == IF md = "avr" THEN sp ELSE ~sp
           tk2 == IF md # "edge" /\ sp THEN tk ELSE IF dp THEN tk + 1 ELSE tk - 1
           a == Left(md, ct)
           b == Left(md, ct - 1)
           d == IF md # "edge" /\ sp THEN 0 ELSE 1
<1>1. a \in Nat /\ b \in Nat /\ a = b + d
  <2>1. CASE md = "full"
    <3>1. sp <=> ct % 2 = 1
      BY Zenon, <2>1 DEF Motion
    <3>2. a = ct \div 2 /\ b = (ct - 1) \div 2
      BY Zenon, <2>1 DEF Left
    <3>3. ct \div 2 \in Nat /\ (ct - 1) \div 2 \in Nat
      BY Halves
    <3>4. d = IF sp THEN 0 ELSE 1
      BY Zenon, <2>1
    <3> HIDE DEF a, b, d
    <3>5. CASE sp
      BY <3>1, <3>2, <3>3, <3>4, <3>5, Halves
    <3>6. CASE ~sp
      BY <3>1, <3>2, <3>3, <3>4, <3>6, Halves
    <3> QED BY Zenon, <3>5, <3>6
  <2>2. CASE md # "full"
    <3>1. md = "avr" => ~sp
      BY Zenon DEF Motion
    <3> QED BY <2>2, <3>1 DEF Left
  <2> QED BY Zenon, <2>1, <2>2
<1>2. tk2 = (IF dp THEN tk + d ELSE tk - d) /\ tk2 \in Int
  OBVIOUS
<1>3. md = "full" => (sp2 <=> (ct - 1) % 2 = 1)
  <2> SUFFICES ASSUME md = "full" PROVE sp2 <=> (ct - 1) % 2 = 1
    BY Zenon
  <2>1. sp <=> ct % 2 = 1
    BY Zenon DEF Motion
  <2>2. sp2 <=> ~sp
    BY Zenon
  <2> QED BY <2>1, <2>2, Halves
<1>4. md = "avr" => ~sp2
  BY Zenon DEF Motion
<1>5. d \in {0, 1}
  BY Zenon
<1>6. ps = (IF dp THEN tk + Bias ELSE 4 * Bias - (tk + Bias)) + a
  BY Zenon DEF Motion
<1>7. PICK total \in Nat : AddsUp(q, total) /\ Distance(tk) + a + total + cs <= qd
  BY Zenon DEF Motion
<1> HIDE DEF a, b, d
<1>8. ps = (IF dp THEN tk2 + Bias ELSE 4 * Bias - (tk2 + Bias)) + b
  BY <1>1, <1>2, <1>5, <1>6, StepConstants
<1>9. Distance(tk2) + b + total + cs <= qd
  BY <1>1, <1>2, <1>5, <1>7 DEF Distance
<1> QED BY Zenon, <1>2, <1>3, <1>4, <1>7, <1>8, <1>9 DEF Motion, b

\* stepper_load_next()
LEMMA MotionLoad ==
    ASSUME NEW md \in {"full", "edge", "avr"}, NEW ps, NEW tk \in Int,
           NEW sp \in BOOLEAN, NEW dp \in BOOLEAN, NEW q \in Seq(Step!Move), NEW cs \in Nat,
           NEW qd \in Nat, qd <= MaxSteps, q # <<>>,
           Motion(md, 0, ps, tk, sp, dp, q, cs, qd), NEW m, m = Head(q)
    PROVE  Motion(md, IF md = "full" THEN 2 * m.count ELSE m.count, Step!Loaded(ps, m), tk,
                  sp, dp # m.dir, Tail(q), cs, qd)
<1> DEFINE c == m.count
           ct == IF md = "full" THEN 2 * c ELSE c
           dir == dp # m.dir
<1>1. m \in Step!Move
  BY FrontOfSeq
<1>2. c \in Nat /\ m.dir \in BOOLEAN
  BY <1>1, StepConstants DEF Step!Move
<1>3. PICK total \in Nat : AddsUp(q, total) /\ Distance(tk) + Left(md, 0) + total + cs <= qd
  BY Zenon DEF Motion
<1>4. total - c \in Nat /\ AddsUp(Tail(q), total - c)
  BY Zenon, <1>3, AddsUpTail
<1>5. Left(md, 0) = 0 /\ Left(md, ct) = c
  BY <1>2, Halves DEF Left
<1>6. ps = IF dp THEN tk + Bias ELSE 4 * Bias - (tk + Bias)
  <2>1. ps = (IF dp THEN tk + Bias ELSE 4 * Bias - (tk + Bias)) + 0
    BY Zenon, <1>5 DEF Motion
  <2> QED BY <2>1, StepConstants
<1>7. Step!Loaded(ps, m) = (IF m.dir THEN -ps + c ELSE ps + c) % (4 * Bias)
  BY Zenon, StepConstants DEF Step!Loaded
<1>8. md = "full" => ~sp /\ ct % 2 # 1
  <2>1. md = "full" => (sp <=> 0 % 2 = 1)
    BY Zenon DEF Motion
  <2> QED BY <1>2, <2>1, Halves
<1>9. md = "avr" => ~sp
  BY Zenon DEF Motion
<1>10. Distance(tk) + c + (total - c) + cs <= qd /\ Distance(tk) + c <= MaxSteps
       /\ Distance(tk) \in Nat
  <2> DEFINE far == Distance(tk)
  <2>1. far \in Nat
    BY DEF Distance
  <2>2. far + 0 + total + cs <= qd
    BY Zenon, <1>3, <1>5
  <2> HIDE DEF far, c
  <2>3. far + c + (total - c) + cs <= qd /\ far + c <= MaxSteps
    BY <1>2, <1>4, <2>1, <2>2, StepConstants
  <2> QED BY Zenon, <2>1, <2>3 DEF far
<1>11. -Bias < tk - c /\ tk + c < Bias
  <2> HIDE DEF c
  <2>1. PICK far \in Nat : far = Distance(tk)
    BY Zenon, <1>10
  <2>2. tk <= far /\ -tk <= far
    BY <2>1 DEF Distance
  <2>3. far + c <= MaxSteps
    BY Zenon, <1>10, <2>1
  <2> QED BY <1>2, <2>2, <2>3, StepConstants
<1>12. dir \in BOOLEAN /\ (dir <=> (dp # m.dir))
  BY Zenon
<1> HIDE DEF c, ct, dir
<1> DEFINE x == IF m.dir THEN -ps + c ELSE ps + c
<1>13. /\ x \in Int
       /\ ~m.dir /\ dp => x = tk + Bias + c
       /\ ~m.dir /\ ~dp => x = 4 * Bias - (tk + Bias) + c
       /\ m.dir /\ dp => x = c - (tk + Bias)
       /\ m.dir /\ ~dp => x = tk + Bias + c - 4 * Bias
  BY <1>2, <1>6, StepConstants
<1> HIDE DEF x
<1>14. -(4 * Bias) <= x /\ x < 4 * Bias /\ 4 * Bias \in Nat \ {0}
  BY <1>2, <1>11, <1>13, StepConstants
<1>15. x % (4 * Bias) = IF x < 0 THEN x + 4 * Bias ELSE x
  BY Zenon, <1>13, <1>14, ModWithin
<1>16. x % (4 * Bias) = (IF dir THEN tk + Bias ELSE 4 * Bias - (tk + Bias)) + c
  <2>1. CASE m.dir /\ dp
    <3>1. ~dir
      BY Zenon, <1>2, <1>12, <2>1
    <3>2. x = c - (tk + Bias)
      BY Zenon, <1>13, <2>1
    <3>3. x < 0
      BY <1>2, <1>11, <3>2, StepConstants
    <3> QED BY <1>2, <1>15, <3>1, <3>2, <3>3, StepConstants
  <2>2. CASE m.dir /\ ~dp
    <3>1. dir
      BY Zenon, <1>2, <1>12, <2>2
    <3>2. x = tk + Bias + c - 4 * Bias
      BY Zenon, <1>13, <2>2
    <3>3. x < 0
      BY <1>2, <1>11, <3>2, StepConstants
    <3> QED BY <1>2, <1>15, <3>1, <3>2, <3>3, StepConstants
  <2>3. CASE ~m.dir /\ dp
    <3>1. dir
      BY Zenon, <1>2, <1>12, <2>3
    <3>2. x = tk + Bias + c
      BY Zenon, <1>13, <2>3
    <3>3. ~(x < 0)
      BY <1>2, <1>11, <3>2, StepConstants
    <3> QED BY Zenon, <1>2, <1>15, <3>1, <3>2, <3>3, StepConstants
  <2>4. CASE ~m.dir /\ ~dp
    <3>1. ~dir
      BY Zenon, <1>2, <1>12, <2>4
    <3>2. x = 4 * Bias - (tk + Bias) + c
      BY Zenon, <1>13, <2>4
    <3>3. ~(x < 0)
      BY <1>2, <1>11, <3>2, StepConstants
    <3> QED BY Zenon, <1>2, <1>15, <3>1, <3>2, <3>3, StepConstants
  <2> QED BY Zenon, <2>1, <2>2, <2>3, <2>4
<1>17. Step!Loaded(ps, m) = (IF dir THEN tk + Bias ELSE 4 * Bias - (tk + Bias)) + Left(md, ct)
  BY Zenon, <1>5, <1>7, <1>16 DEF x
<1>18. Distance(tk) + Left(md, ct) + (total - c) + cs <= qd
  BY Zenon, <1>5, <1>10
<1>19. Motion(md, ct, Step!Loaded(ps, m), tk, sp, dir, Tail(q), cs, qd)
  BY Zenon, <1>4, <1>8, <1>9, <1>17, <1>18 DEF Motion
<1> QED BY Zenon, <1>19 DEF ct, c, dir

\* A move joins the queue: its steps were in the hands of the command.
LEMMA MotionAppend ==
    ASSUME NEW md \in {"full", "edge", "avr"}, NEW ct \in Nat, NEW ps, NEW tk \in Int,
           NEW sp, NEW dp, NEW q \in Seq(Step!Move), NEW qd \in Nat,
           NEW m \in Step!Move, Motion(md, ct, ps, tk, sp, dp, q, m.count, qd)
    PROVE  Motion(md, ct, ps, tk, sp, dp, Append(q, m), 0, qd)
<1> DEFINE l == Left(md, ct)
           far == Distance(tk)
<1>1. PICK total \in Nat : AddsUp(q, total) /\ far + l + total + m.count <= qd
  BY Zenon DEF Motion
<1>2. AddsUp(Append(q, m), total + m.count) /\ total + m.count \in Nat
  BY Zenon, <1>1, AddsUpAppend
<1>3. l \in Nat /\ far \in Nat /\ m.count \in Nat
  BY Halves, StepConstants DEF Left, Distance, Step!Move
<1> HIDE DEF l, far
<1>4. far + l + (total + m.count) + 0 <= qd
  BY <1>1, <1>3
<1> QED BY Zenon, <1>2, <1>4 DEF Motion, l, far

\* A command drops its steps.
LEMMA MotionDropped ==
    ASSUME NEW md \in {"full", "edge", "avr"}, NEW ct \in Nat, NEW ps, NEW tk \in Int,
           NEW sp, NEW dp, NEW q, NEW cs \in Nat, NEW qd \in Nat,
           Motion(md, ct, ps, tk, sp, dp, q, cs, qd)
    PROVE  Motion(md, ct, ps, tk, sp, dp, q, 0, qd)
<1> DEFINE l == Left(md, ct)
           far == Distance(tk)
<1>1. PICK total \in Nat : AddsUp(q, total) /\ far + l + total + cs <= qd
  BY Zenon DEF Motion
<1>2. l \in Nat /\ far \in Nat
  BY Halves DEF Left, Distance
<1> HIDE DEF l, far
<1>3. far + l + total + 0 <= qd
  BY <1>1, <1>2
<1> QED BY Zenon, <1>1, <1>3 DEF Motion, l, far

\* A command takes n steps, for this stepper (cs2 = cs + n) or for another one (cs2 = cs).
LEMMA MotionCommand ==
    ASSUME NEW md \in {"full", "edge", "avr"}, NEW ct \in Nat, NEW ps, NEW tk \in Int,
           NEW sp, NEW dp, NEW q, NEW cs \in Nat, NEW qd \in Nat,
           Motion(md, ct, ps, tk, sp, dp, q, cs, qd), NEW n \in Nat, NEW cs2, cs2 = cs \/ cs2 = cs + n
    PROVE  Motion(md, ct, ps, tk, sp, dp, q, cs2, qd + n)
<1> DEFINE l == Left(md, ct)
           far == Distance(tk)
<1>1. PICK total \in Nat : AddsUp(q, total) /\ far + l + total + cs <= qd
  BY Zenon DEF Motion
<1>2. l \in Nat /\ far \in Nat
  BY Halves DEF Left, Distance
<1> HIDE DEF l, far
<1>4. far + l + total + cs2 <= qd + n
  BY <1>1, <1>2
<1> QED BY Zenon, <1>1, <1>4 DEF Motion, l, far

\* stepper_get_position(): the negation undoes the direction, and nothing wraps around.
LEMMA MotionPlace ==
    ASSUME NEW md \in {"full", "edge", "avr"}, NEW ct \in Nat, NEW ps, NEW tk \in Int,
           NEW sp, NEW dp, NEW q, NEW cs \in Nat, NEW qd \in Nat,
           qd <= MaxSteps, Motion(md, ct, ps, tk, sp, dp, q, cs, qd), NEW p,
           p = (ps - Left(md, ct)) % (4 * Bias)
    PROVE  (IF p >= 2 * Bias THEN -p % (4 * Bias) ELSE p) = tk + Bias
<1> DEFINE l == Left(md, ct)
           b == 4 * Bias
<1>1. l \in Nat /\ -Bias < tk /\ tk < Bias
  BY Zenon, MotionBounds
<1>2. ps = (IF dp THEN tk + Bias ELSE b - (tk + Bias)) + l
  BY Zenon DEF Motion
<1>3. b = 4 * Bias /\ b \in Nat \ {0}
  BY StepConstants
<1> HIDE DEF l, b
<1>4. ps - l = IF dp THEN tk + Bias ELSE b - (tk + Bias)
  BY <1>1, <1>2, <1>3, StepConstants
<1>5. p = (ps - l) % b
  BY Zenon, <1>3 DEF l
<1>6. CASE dp
  <2>1. p = tk + Bias
    <3>1. tk + Bias \in Int /\ -b <= tk + Bias /\ tk + Bias < b /\ ~(tk + Bias < 0)
      BY <1>1, <1>3, StepConstants
    <3> QED BY Zenon, <1>3, <1>4, <1>5, <1>6, <3>1, ModWithin
  <2> QED BY <1>1, <1>3, <2>1, StepConstants
<1>7. CASE ~dp
  <2>1. p = b - (tk + Bias)
    <3> DEFINE y == b - (tk + Bias)
    <3>1. y \in Int /\ -b <= y /\ y < b /\ ~(y < 0)
      BY <1>1, <1>3, StepConstants
    <3>2. ps - l = y
      BY Zenon, <1>4, <1>7
    <3> HIDE DEF y
    <3>3. p = y
      BY Zenon, <1>3, <1>5, <3>1, <3>2, ModWithin
    <3> QED BY Zenon, <3>3 DEF y
  <2>2. p >= 2 * Bias /\ -p \in Int /\ -b <= -p /\ -p < 0
    BY <1>1, <1>3, <2>1, StepConstants
  <2>3. -p % b = -p + b
    BY <1>3, <2>2, ModWithin, StepConstants
  <2> QED BY <1>1, <1>3, <2>1, <2>2, <2>3, StepConstants
<1> QED BY Zenon, <1>6, <1>7

\* stepper_stop(): the stepper is where it was, and what is left of its moves is gone.
LEMMA MotionStop ==
    ASSUME NEW md \in {"full", "edge", "avr"}, NEW ct \in Nat, NEW ps, NEW tk \in Int,
           NEW sp, NEW dp, NEW q, NEW cs \in Nat, NEW qd \in Nat,
           qd <= MaxSteps, Motion(md, ct, ps, tk, sp, dp, q, cs, qd),
           NEW ps2, ps2 = -(tk + Bias) % (4 * Bias)
    PROVE  Motion(md, 0, ps2, tk, sp /\ md = "edge", FALSE, <<>>, cs, qd)
<1> DEFINE l == Left(md, ct)
           far == Distance(tk)
           b == 4 * Bias
<1>1. l \in Nat /\ -Bias < tk /\ tk < Bias
  BY Zenon, MotionBounds
<1>2. PICK total \in Nat : far + l + total + cs <= qd
  BY Zenon DEF Motion
<1>3. Left(md, 0) = 0 /\ far \in Nat
  BY Halves DEF Left, Distance
<1>4. b = 4 * Bias /\ b \in Nat \ {0}
  BY StepConstants
<1> HIDE DEF l, far, b
<1>5. ps2 = b - (tk + Bias)
  <2> DEFINE y == -(tk + Bias)
  <2>1. y \in Int /\ -b <= y /\ y < 0 /\ y + b = b - (tk + Bias) /\ ps2 = y % b
    BY <1>1, <1>4, StepConstants
  <2> HIDE DEF y
  <2>2. y % b = y + b
    BY <1>4, <2>1, ModWithin
  <2> QED BY Zenon, <2>1, <2>2
<1>6. far + 0 + 0 + cs <= qd
  BY <1>1, <1>2, <1>3
<1>7. ps2 = (IF FALSE THEN tk + Bias ELSE 4 * Bias - (tk + Bias)) + Left(md, 0)
  BY <1>3, <1>4, <1>5, StepConstants
<1>8. md = "full" => ((sp /\ md = "edge") <=> 0 % 2 = 1)
  OBVIOUS
<1>9. Distance(tk) + Left(md, 0) + 0 + cs <= qd
  BY Zenon, <1>3, <1>6 DEF far
<1> QED BY Zenon, <1>7, <1>8, <1>9, AddsUpEmpty DEF Motion

-----------------------------------------------------------------------------
\* The kinds of steps.

\* command_queue_step() takes a move from the pool.
TakeMove(s, c) ==
    /\ s_cmd = <<>> /\ free # <<>> /\ c > 0 /\ queued + c <= MaxSteps
    /\ s_cmd' = <<[oid |-> s, node |-> Head(free), count |-> c]>>
    /\ free' = Tail(free)
    /\ queued' = queued + c
    /\ UNCHANGED <<mode, s_mq, count, position, last_dir, next_dir, need_reset, active,
                   step_pin, dir_pin, s_shutdown, taken>>

\* A step event of one of the three kinds.
Event(s) ==
    /\ active[s]
    /\ step_pin' = [step_pin EXCEPT ![s] = IF mode[s] = "avr" THEN @ ELSE ~@]
    /\ taken' = [taken EXCEPT ![s] = IF mode[s] # "edge" /\ step_pin[s] THEN @
                                     ELSE IF dir_pin[s] THEN @ + 1 ELSE @ - 1]
    /\ Step!NextEvent(s)
    /\ UNCHANGED <<mode, s_cmd, last_dir, next_dir, need_reset, s_shutdown, queued>>

\* Steps that move nothing: a direction for the moves to come, a new clock for a stepper
\* that is idle, the end of a shutdown.
Quiet ==
    /\ next_dir' \in [Steppers -> BOOLEAN]
    /\ need_reset' \in [Steppers -> BOOLEAN] /\ \A s \in Steppers : need_reset'[s] => need_reset[s]
    /\ s_shutdown' \in BOOLEAN
    /\ UNCHANGED <<mode, free, s_cmd, s_mq, count, position, last_dir, active, step_pin,
                   dir_pin, queued, taken>>

\* The rest of command_queue_step(), of move m.
PushMove(s, m) ==
    /\ s_cmd # <<>>
    /\ s_cmd[1].oid = s /\ s_cmd[1].node = m.node /\ s_cmd[1].count = m.count
    /\ \/ /\ Step!Dropped(s)
          /\ free' = <<m.node>> \o free
          /\ UNCHANGED <<s_mq, count, position, last_dir, active, dir_pin>>
       \/ /\ count[s] # 0
          /\ s_mq' = [s_mq EXCEPT ![s] = Append(@, m)]
          /\ last_dir' \in [Steppers -> BOOLEAN]
          /\ UNCHANGED <<free, count, position, active, dir_pin>>
       \/ /\ count[s] = 0 /\ ~need_reset[s]
          /\ last_dir' \in [Steppers -> BOOLEAN]
          /\ Step!stepper_load_next(s, Append(s_mq[s], m))
          /\ active' = [active EXCEPT ![s] = TRUE]
    /\ s_cmd' = <<>>
    /\ UNCHANGED <<mode, next_dir, need_reset, step_pin, s_shutdown, queued, taken>>

\* The end of command_queue_step() starts the timer, queues the move or drops it.
LEMMA PushCases ==
    ASSUME StepTypes, Step!queue_step_push
    PROVE  \E s \in Steppers : \E m \in Step!Move : PushMove(s, m)
<1>1. s_cmd # <<>>
  BY Zenon DEF Step!queue_step_push, Step!None
<1>2. PICK c \in Command : s_cmd = <<c>>
  BY Zenon, <1>1 DEF StepTypes
<1>3. s_cmd[1] = c /\ c.oid \in Steppers /\ c.node \in Step!Node /\ c.count \in 1..MaxCount
  BY Zenon, <1>2 DEF Command
<1> DEFINE s == s_cmd[1].oid
           m == [node |-> s_cmd[1].node, count |-> s_cmd[1].count,
                 dir |-> last_dir[s] # next_dir[s]]
<1>4. s \in Steppers /\ m \in Step!Move
  BY Zenon, <1>3 DEF Step!Move
<1>5. [last_dir EXCEPT ![s] = next_dir[s]] \in [Steppers -> BOOLEAN]
  BY Zenon, <1>4 DEF StepTypes
<1>6. m.node = s_cmd[1].node /\ m.count = s_cmd[1].count
  BY Zenon
<1>7. /\ \/ /\ Step!Dropped(s)
            /\ free' = <<m.node>> \o free
            /\ UNCHANGED <<s_mq, count, position, last_dir, active, dir_pin>>
         \/ /\ ~Step!Dropped(s)
            /\ last_dir' = [last_dir EXCEPT ![s] = next_dir[s]]
            /\ \/ /\ count[s] # 0
                  /\ s_mq' = [s_mq EXCEPT ![s] = Append(@, m)]
                  /\ UNCHANGED <<free, count, position, active, dir_pin>>
               \/ /\ count[s] = 0
                  /\ Step!stepper_load_next(s, Append(s_mq[s], m))
                  /\ active' = [active EXCEPT ![s] = TRUE]
      /\ s_cmd' = <<>>
      /\ UNCHANGED <<mode, next_dir, need_reset, step_pin, s_shutdown, queued, taken>>
  BY Zenon DEF Step!queue_step_push, Step!None
<1>8. ~Step!Dropped(s) /\ count[s] = 0 => ~need_reset[s]
  BY Zenon DEF Step!Dropped
<1> HIDE DEF m
<1>9. PushMove(s, m)
  BY ZenonT(30), <1>1, <1>5, <1>6, <1>7, <1>8 DEF PushMove
<1> QED BY Zenon, <1>4, <1>9

\* Every step is of one of these kinds.
LEMMA StepCases ==
    ASSUME StepTypes, Step!Next
    PROVE  \/ Step!run_shutdown \/ Quiet
           \/ \E s \in Steppers : \E m \in Step!Move : PushMove(s, m)
           \/ \E s \in Steppers : \E c \in 0..MaxCount : TakeMove(s, c)
           \/ \E s \in Steppers : Step!stepper_stop(s)
           \/ \E s \in Steppers : Event(s)
<1>1. CASE Step!queue_step_push \/ Step!sched_shutdown
  BY Zenon, <1>1, PushCases DEF Step!sched_shutdown
<1>2. CASE Step!sched_clear_shutdown
  <2>1. Quiet
    BY Zenon, <1>2 DEF Step!sched_clear_shutdown, Quiet, StepTypes
  <2> QED BY Zenon, <2>1
<1>3. ASSUME NEW s \in Steppers, NEW c \in 0..MaxCount, Step!command_queue_step(s, c)
      PROVE  Step!run_shutdown \/ TakeMove(s, c)
  BY Zenon, <1>3 DEF Step!command_queue_step, TakeMove, Step!None
<1>4. ASSUME NEW s \in Steppers, NEW d \in BOOLEAN, Step!command_set_next_step_dir(s, d)
      PROVE  Quiet
  BY Zenon, <1>4 DEF Step!command_set_next_step_dir, Quiet, StepTypes
<1>5. ASSUME NEW s \in Steppers, Step!command_reset_step_clock(s)
      PROVE  Step!run_shutdown \/ Quiet
  BY Zenon, <1>5 DEF Step!command_reset_step_clock, Quiet, StepTypes
<1>6. ASSUME NEW s \in Steppers, Step!stepper_event_full(s) PROVE Event(s)
  BY Zenon, <1>6 DEF Step!stepper_event_full, Step!Stepped, Event, StepTypes
<1>7. ASSUME NEW s \in Steppers, Step!stepper_event_edge(s) PROVE Event(s)
  BY Zenon, <1>7 DEF Step!stepper_event_edge, Step!Stepped, Event, StepTypes
<1>8. ASSUME NEW s \in Steppers, Step!stepper_event_avr(s) PROVE Event(s)
  BY Zenon, <1>8 DEF Step!stepper_event_avr, Step!Stepped, Event, StepTypes
<1> QED BY ZenonT(30), <1>1, <1>2, <1>3, <1>4, <1>5, <1>6, <1>7, <1>8 DEF Step!Next

-----------------------------------------------------------------------------
\* The types are kept.

\* stepper_load_next() keeps the types.
LEMMA LoadTypes ==
    ASSUME StepTypes, NEW s \in Steppers, NEW q \in Seq(Step!Move), q # <<>>,
           Step!stepper_load_next(s, q)
    PROVE  /\ Head(q) \in Step!Move /\ Tail(q) \in Seq(Step!Move)
           /\ s_mq' \in [Steppers -> Seq(Step!Move)] /\ count' \in [Steppers -> Nat]
           /\ position' \in [Steppers -> Nat] /\ dir_pin' \in [Steppers -> BOOLEAN]
           /\ free' \in Seq(Step!Node)
<1> DEFINE m == Head(q)
           r == Tail(q)
<1>1. m \in Step!Move /\ r \in Seq(Step!Move)
  BY Zenon, SeqHeadTail, FrontOfSeq
<1>2. m.count \in Nat /\ m.dir \in BOOLEAN /\ m.node \in Step!Node
  BY <1>1, StepConstants DEF Step!Move
<1>3. Step!Loaded(position[s], m) \in Nat
  <2> DEFINE x == IF m.dir THEN -position[s] + m.count ELSE position[s] + m.count
             b == Step!PosMod
  <2>1. x \in Int
    BY <1>2 DEF StepTypes
  <2>2. b \in Nat \ {0}
    BY StepConstants
  <2> HIDE DEF x, b
  <2>3. x % b \in Nat
    BY <2>1, <2>2
  <2> QED BY Zenon, <2>3 DEF x, b, Step!Loaded
<1>4. <<m.node>> \o free \in Seq(Step!Node)
  BY <1>2, ConcatElements DEF StepTypes
<1>5. /\ s_mq' = [s_mq EXCEPT ![s] = r]
      /\ count' = [count EXCEPT ![s] = IF mode[s] = "full" THEN 2 * m.count ELSE m.count]
      /\ position' = [position EXCEPT ![s] = Step!Loaded(@, m)]
      /\ dir_pin' = [dir_pin EXCEPT ![s] = @ # m.dir]
      /\ free' = <<m.node>> \o free
  BY Zenon DEF Step!stepper_load_next
<1> HIDE DEF m, r
<1>6. s_mq' \in [Steppers -> Seq(Step!Move)]
  BY Zenon, <1>1, <1>5 DEF StepTypes
<1>7. count' \in [Steppers -> Nat]
  BY <1>2, <1>5 DEF StepTypes
<1>8. position' \in [Steppers -> Nat]
  BY Zenon, <1>3, <1>5 DEF StepTypes
<1>9. dir_pin' \in [Steppers -> BOOLEAN]
  BY Zenon, <1>2, <1>5 DEF StepTypes
<1> QED BY Zenon, <1>1, <1>4, <1>5, <1>6, <1>7, <1>8, <1>9 DEF m, r

\* stepper_stop() keeps the types.
LEMMA StopTypesKept ==
    ASSUME StepTypes, NEW ss, Step!Stop(ss)
    PROVE  /\ s_mq' \in [Steppers -> Seq(Step!Move)]
           /\ count' \in [Steppers -> Nat] /\ position' \in [Steppers -> Nat]
           /\ last_dir' \in [Steppers -> BOOLEAN] /\ next_dir' \in [Steppers -> BOOLEAN]
           /\ need_reset' \in [Steppers -> BOOLEAN] /\ active' \in [Steppers -> BOOLEAN]
           /\ step_pin' \in [Steppers -> BOOLEAN] /\ dir_pin' \in [Steppers -> BOOLEAN]
<1>1. \A s \in Steppers : Step!StoppedPosition(s) \in Nat
  <2> SUFFICES ASSUME NEW s \in Steppers PROVE Step!StoppedPosition(s) \in Nat
    BY Zenon
  <2> DEFINE b == Step!PosMod
             x == position[s] - Step!StepsLeft(s)
             p == x % b
             g == Step!stepper_get_position(s)
  <2>1. b \in Nat \ {0}
    BY StepConstants
  <2>2. Step!StepsLeft(s) \in Int
    BY Halves DEF Step!StepsLeft, StepTypes
  <2>3. x \in Int
    BY <2>2 DEF StepTypes
  <2>4. g = IF p >= 2 * Bias THEN -p % b ELSE p
    BY Zenon DEF Step!stepper_get_position
  <2>5. Step!StoppedPosition(s) = -g % b
    BY Zenon DEF Step!StoppedPosition
  <2> HIDE DEF b, x, g
  <2>6. p \in Nat
    BY <2>1, <2>3
  <2> HIDE DEF p
  <2>7. -p \in Int
    BY <2>6
  <2>8. -p % b \in Nat
    BY <2>1, <2>7
  <2>9. g \in Nat
    BY Zenon, <2>4, <2>6, <2>8
  <2>10. -g \in Int
    BY <2>9
  <2>11. -g % b \in Nat
    BY <2>1, <2>10
  <2> QED BY Zenon, <2>5, <2>11
<1>2. s_mq' \in [Steppers -> Seq(Step!Move)] /\ count' \in [Steppers -> Nat]
  BY DEF Step!Stop, StepTypes
<1>3. position' \in [Steppers -> Nat]
  BY Zenon, <1>1 DEF Step!Stop, StepTypes
<1>4. last_dir' \in [Steppers -> BOOLEAN] /\ next_dir' \in [Steppers -> BOOLEAN]
      /\ need_reset' \in [Steppers -> BOOLEAN]
  BY Zenon DEF Step!Stop, StepTypes
<1>5. active' \in [Steppers -> BOOLEAN] /\ step_pin' \in [Steppers -> BOOLEAN]
      /\ dir_pin' \in [Steppers -> BOOLEAN]
  BY Zenon DEF Step!Stop, Step!ActiveAfterStop, StepTypes
<1> QED BY Zenon, <1>2, <1>3, <1>4, <1>5

\* The nodes of a queue, last to first.
LEMMA FreedNodes ==
    ASSUME NEW q \in Seq(Step!Move)
    PROVE  /\ Step!Freed(q) \in Seq(Step!Node) /\ Len(Step!Freed(q)) = Len(q)
           /\ \A i \in 1..Len(q) :
                 Len(q) + 1 - i \in 1..Len(q) /\ Step!Freed(q)[i] = q[Len(q) + 1 - i].node
<1> DEFINE n == Len(q)
           f == [i \in 1..n |-> q[n + 1 - i].node]
<1>1. n \in Nat
  BY Zenon, SeqLen
<1>2. \A i \in 1..n : n + 1 - i \in 1..n
  BY <1>1
<1>3. \A i \in 1..n : q[i] \in Step!Move
  BY Zenon, SeqElement
<1>4. \A i \in 1..n : q[n + 1 - i].node \in Step!Node
  BY Zenon, <1>2, <1>3 DEF Step!Move
<1>5. f \in [1..n -> Step!Node]
  BY Zenon, <1>4
<1>6. f \in Seq(Step!Node) /\ Len(f) = n
  BY <1>1, <1>5, FunctionIsSeq
<1>7. Step!Freed(q) = f
  BY Zenon DEF Step!Freed
<1> QED BY Zenon, <1>2, <1>6, <1>7

\* The pool after move_reset() has every node once.
LEMMA PoolReset ==
    /\ Step!move_reset \in Seq(Step!Node) /\ Len(Step!move_reset) = move_count
    /\ \A i \in 1..move_count : Step!move_reset[i] = i
<1>1. move_count \in Nat
  BY Zenon, MotorsAssumption DEF Step!StepAssumption
<1>2. Step!move_reset \in [1..move_count -> Step!Node]
  BY Zenon DEF Step!move_reset, Step!Node
<1> QED BY Zenon, <1>1, <1>2, FunctionIsSeq DEF Step!move_reset, Step!Node

\* Every step keeps the types.
LEMMA TypesStep ==
    ASSUME StepTypes, Step!Next
    PROVE  StepTypes'
<1>1. CASE Step!run_shutdown
  <2>1. Step!Stop(Steppers) /\ free' = Step!move_reset /\ s_cmd' = <<>> /\ s_shutdown' = TRUE
        /\ UNCHANGED <<mode, queued, taken>>
    BY Zenon, <1>1 DEF Step!run_shutdown, Step!PoolAfterShutdown, Step!None
  <2> QED BY Zenon, <2>1, StopTypesKept, PoolReset DEF StepTypes
<1>2. CASE Quiet
  BY Zenon, <1>2 DEF Quiet, StepTypes
<1>3. ASSUME NEW s \in Steppers, NEW m \in Step!Move, PushMove(s, m)
      PROVE  StepTypes'
  <2>1. s_mq[s] \in Seq(Step!Move) /\ free \in Seq(Step!Node) /\ m.node \in Step!Node
    BY Zenon DEF StepTypes, Step!Move
  <2>2. Append(s_mq[s], m) \in Seq(Step!Move) /\ Append(s_mq[s], m) # <<>>
    BY <2>1, SeqAppend
  <2>3. /\ s_cmd' = <<>>
        /\ UNCHANGED <<mode, next_dir, need_reset, step_pin, s_shutdown, queued, taken>>
    BY Zenon, <1>3 DEF PushMove
  <2>4. CASE /\ free' = <<m.node>> \o free
             /\ UNCHANGED <<s_mq, count, position, last_dir, active, dir_pin>>
    <3>1. free' \in Seq(Step!Node)
      BY <2>1, <2>4, ConcatElements
    <3> QED BY Zenon, <2>3, <2>4, <3>1 DEF StepTypes
  <2>5. CASE /\ s_mq' = [s_mq EXCEPT ![s] = Append(@, m)]
             /\ last_dir' \in [Steppers -> BOOLEAN]
             /\ UNCHANGED <<free, count, position, active, dir_pin>>
    <3>1. s_mq' \in [Steppers -> Seq(Step!Move)]
      BY Zenon, <2>2, <2>5 DEF StepTypes
    <3> QED BY Zenon, <2>3, <2>5, <3>1 DEF StepTypes
  <2>6. CASE /\ last_dir' \in [Steppers -> BOOLEAN]
             /\ Step!stepper_load_next(s, Append(s_mq[s], m))
             /\ active' = [active EXCEPT ![s] = TRUE]
    <3>1. active' \in [Steppers -> BOOLEAN]
      BY Zenon, <2>6 DEF StepTypes
    <3>2. /\ s_mq' \in [Steppers -> Seq(Step!Move)] /\ count' \in [Steppers -> Nat]
          /\ position' \in [Steppers -> Nat] /\ dir_pin' \in [Steppers -> BOOLEAN]
          /\ free' \in Seq(Step!Node)
      BY Zenon, <2>2, <2>6, LoadTypes
    <3> QED BY Zenon, <2>3, <2>6, <3>1, <3>2 DEF StepTypes
  <2> QED BY Zenon, <1>3, <2>4, <2>5, <2>6 DEF PushMove
<1>4. ASSUME NEW s \in Steppers, NEW c \in 0..MaxCount, TakeMove(s, c)
      PROVE  StepTypes'
  <2>1. Head(free) \in Step!Node /\ Tail(free) \in Seq(Step!Node)
    BY Zenon, <1>4, SeqHeadTail, FrontOfSeq DEF TakeMove, StepTypes
  <2>2. c \in 1..MaxCount /\ queued + c \in Nat /\ queued + c <= MaxSteps
    BY <1>4, StepConstants DEF TakeMove, StepTypes
  <2>3. [oid |-> s, node |-> Head(free), count |-> c] \in Command
    BY Zenon, <2>1, <2>2 DEF Command
  <2> QED BY Zenon, <1>4, <2>1, <2>2, <2>3 DEF TakeMove, StepTypes
<1>5. ASSUME NEW s \in Steppers, Step!stepper_stop(s)
      PROVE  StepTypes'
  <2>1. Step!Stop({s}) /\ free' = Step!Freed(s_mq[s]) \o free
        /\ UNCHANGED <<mode, s_cmd, s_shutdown, queued, taken>>
    BY Zenon, <1>5 DEF Step!stepper_stop
  <2>2. s_mq[s] \in Seq(Step!Move) /\ free \in Seq(Step!Node)
    BY Zenon DEF StepTypes
  <2>3. Step!Freed(s_mq[s]) \in Seq(Step!Node)
    BY Zenon, <2>2, FreedNodes
  <2>4. free' \in Seq(Step!Node)
    BY Zenon, <2>1, <2>2, <2>3, ConcatElements
  <2> QED BY Zenon, <2>1, <2>4, StopTypesKept DEF StepTypes
<1>6. ASSUME NEW s \in Steppers, Event(s)
      PROVE  StepTypes'
  <2>1. step_pin' \in [Steppers -> BOOLEAN]
    BY Zenon, <1>6 DEF Event, StepTypes
  <2>2. taken' \in [Steppers -> Int]
    BY <1>6 DEF Event, StepTypes
  <2>3. UNCHANGED <<mode, s_cmd, last_dir, next_dir, need_reset, s_shutdown, queued>>
        /\ Step!NextEvent(s)
    BY Zenon, <1>6 DEF Event
  <2>4. CASE count[s] > 1 /\ count' = [count EXCEPT ![s] = @ - 1]
             /\ UNCHANGED <<free, s_mq, position, dir_pin, active>>
    <3>1. count' \in [Steppers -> Nat]
      BY <2>4 DEF StepTypes
    <3> QED BY Zenon, <2>1, <2>2, <2>3, <2>4, <3>1 DEF StepTypes
  <2>5. CASE s_mq[s] # <<>> /\ Step!stepper_load_next(s, s_mq[s]) /\ UNCHANGED active
    <3>1. s_mq[s] \in Seq(Step!Move)
      BY Zenon DEF StepTypes
    <3>2. /\ s_mq' \in [Steppers -> Seq(Step!Move)] /\ count' \in [Steppers -> Nat]
          /\ position' \in [Steppers -> Nat] /\ dir_pin' \in [Steppers -> BOOLEAN]
          /\ free' \in Seq(Step!Node)
      BY Zenon, <2>5, <3>1, LoadTypes
    <3> QED BY Zenon, <2>1, <2>2, <2>3, <2>5, <3>2 DEF StepTypes
  <2>6. CASE count' = [count EXCEPT ![s] = 0] /\ active' = [active EXCEPT ![s] = FALSE]
             /\ UNCHANGED <<free, s_mq, position, dir_pin>>
    <3>1. count' \in [Steppers -> Nat] /\ active' \in [Steppers -> BOOLEAN]
      BY Zenon, <2>6 DEF StepTypes
    <3> QED BY Zenon, <2>1, <2>2, <2>3, <2>6, <3>1 DEF StepTypes
  <2> QED BY Zenon, <2>3, <2>4, <2>5, <2>6 DEF Step!NextEvent
<1> QED BY Zenon, <1>1, <1>2, <1>3, <1>4, <1>5, <1>6, StepCases

\* Moves are queued, and the timer is on the list, only while a move is under way.
LEMMA TimerStep ==
    ASSUME StepTypes, StepTypes', TimerInv, Step!Next
    PROVE  TimerInv'
<1>0. MaxCount \in Nat
  BY Zenon, StepConstants
<1>1. ASSUME NEW ss, Step!Stop(ss)
      PROVE  TimerInv'
  BY <1>0, <1>1 DEF Step!Stop, Step!ActiveAfterStop, StepTypes, TimerInv
<1>2. CASE Step!run_shutdown \/ \E s \in Steppers : Step!stepper_stop(s)
  BY Zenon, <1>1, <1>2 DEF Step!run_shutdown, Step!stepper_stop
<1>3. CASE Quiet
  BY Zenon, <1>3 DEF Quiet, TimerInv
<1>4. ASSUME NEW s \in Steppers, NEW q \in Seq(Step!Move), q # <<>>,
             Step!stepper_load_next(s, q), UNCHANGED need_reset, ~need_reset[s],
             active' = [active EXCEPT ![s] = TRUE]
      PROVE  TimerInv'
  <2> DEFINE m == Head(q)
  <2>1. m \in Step!Move
    BY <1>4, FrontOfSeq
  <2>2. m.count \in 1..MaxCount
    BY Zenon, <2>1 DEF Step!Move
  <2>3. /\ s_mq' = [s_mq EXCEPT ![s] = Tail(q)]
        /\ count' = [count EXCEPT ![s] = IF mode[s] = "full" THEN 2 * m.count ELSE m.count]
    BY Zenon, <1>4 DEF Step!stepper_load_next
  <2> HIDE DEF m
  <2>4. count'[s] # 0 /\ count'[s] <= 2 * MaxCount
    <3>1. count'[s] = IF mode[s] = "full" THEN 2 * m.count ELSE m.count
      BY Zenon, <2>3 DEF StepTypes
    <3> QED BY <1>0, <2>2, <3>1
  <2> QED BY ZenonT(30), <1>4, <2>3, <2>4 DEF StepTypes, TimerInv
<1>5. ASSUME NEW s \in Steppers, NEW m \in Step!Move, PushMove(s, m)
      PROVE  TimerInv'
  <2>1. s_mq[s] \in Seq(Step!Move)
    BY Zenon DEF StepTypes
  <2>2. Append(s_mq[s], m) \in Seq(Step!Move) /\ Append(s_mq[s], m) # <<>>
    BY <2>1, SeqAppend
  <2>3. UNCHANGED need_reset
    BY Zenon, <1>5 DEF PushMove
  <2>4. CASE UNCHANGED <<s_mq, count, active>>
    BY Zenon, <2>3, <2>4 DEF TimerInv
  <2>5. CASE count[s] # 0 /\ s_mq' = [s_mq EXCEPT ![s] = Append(@, m)]
             /\ UNCHANGED <<count, active>>
    BY ZenonT(30), <2>3, <2>5 DEF TimerInv, StepTypes
  <2>6. CASE ~need_reset[s] /\ Step!stepper_load_next(s, Append(s_mq[s], m))
             /\ active' = [active EXCEPT ![s] = TRUE]
    BY Zenon, <1>4, <2>2, <2>3, <2>6
  <2> QED BY Zenon, <1>5, <2>4, <2>5, <2>6 DEF PushMove
<1>6. ASSUME NEW s \in Steppers, NEW c \in 0..MaxCount, TakeMove(s, c)
      PROVE  TimerInv'
  BY Zenon, <1>6 DEF TakeMove, TimerInv
<1>7. ASSUME NEW s \in Steppers, Event(s)
      PROVE  TimerInv'
  <2>1. UNCHANGED need_reset /\ active[s] /\ Step!NextEvent(s)
    BY Zenon, <1>7 DEF Event
  <2>2. count[s] \in Nat /\ count[s] # 0 /\ ~need_reset[s] /\ s_mq[s] \in Seq(Step!Move)
    BY Zenon, <2>1 DEF TimerInv, StepTypes
  <2>3. CASE count[s] > 1 /\ count' = [count EXCEPT ![s] = @ - 1] /\ UNCHANGED <<s_mq, active>>
    <3>1. count'[s] = count[s] - 1 /\ count'[s] # 0 /\ count'[s] <= 2 * MaxCount
      BY <1>0, <2>2, <2>3 DEF TimerInv, StepTypes
    <3> QED BY Zenon, <2>1, <2>2, <2>3, <3>1 DEF TimerInv, StepTypes
  <2>4. CASE s_mq[s] # <<>> /\ Step!stepper_load_next(s, s_mq[s]) /\ UNCHANGED active
    <3>1. active' = [active EXCEPT ![s] = TRUE]
      BY ZenonT(30), <2>1, <2>4 DEF StepTypes
    <3> QED BY Zenon, <1>4, <2>1, <2>2, <2>4, <3>1
  <2>5. CASE s_mq[s] = <<>> /\ count' = [count EXCEPT ![s] = 0]
             /\ active' = [active EXCEPT ![s] = FALSE] /\ UNCHANGED s_mq
    BY <1>0, <2>1, <2>5 DEF TimerInv, StepTypes
  <2> QED BY Zenon, <2>1, <2>3, <2>4, <2>5 DEF Step!NextEvent
<1> QED BY ZenonT(30), <1>2, <1>3, <1>5, <1>6, <1>7, StepCases

-----------------------------------------------------------------------------
\* The position and the steps that are left account for the steps taken.

\* The types of one stepper.
LEMMA StepperTypes ==
    ASSUME StepTypes, NEW t \in Steppers
    PROVE  /\ mode[t] \in {"full", "edge", "avr"} /\ count[t] \in Nat /\ taken[t] \in Int
           /\ step_pin[t] \in BOOLEAN /\ dir_pin[t] \in BOOLEAN
           /\ s_mq[t] \in Seq(Step!Move) /\ CommandSteps(t) \in Nat
           /\ queued \in Nat /\ queued <= MaxSteps
<1>1. CommandSteps(t) \in Nat
  <2>1. CASE s_cmd = <<>>
    BY Zenon, <2>1 DEF CommandSteps
  <2>2. ASSUME NEW c \in Command, s_cmd = <<c>> PROVE CommandSteps(t) \in Nat
    <3>1. s_cmd[1] = c /\ c.count \in Nat
      BY <2>2, StepConstants DEF Command
    <3> QED BY Zenon, <3>1 DEF CommandSteps
  <2> QED BY Zenon, <2>1, <2>2 DEF StepTypes
<1> QED BY Zenon, <1>1 DEF StepTypes

\* What stepper_get_position() computes is the steps that were taken.
LEMMA PlaceExact ==
    ASSUME StepTypes, MotionInv, NEW t \in Steppers
    PROVE  Step!stepper_get_position(t) = taken[t] + Bias
<1> DEFINE p == (position[t] - Left(mode[t], count[t])) % (4 * Bias)
<1>1. Motion(mode[t], count[t], position[t], taken[t], step_pin[t], dir_pin[t], s_mq[t],
             CommandSteps(t), queued)
  BY Zenon DEF MotionInv, MotionOf
<1>2. Step!stepper_get_position(t) = IF p >= 2 * Bias THEN -p % (4 * Bias) ELSE p
  BY Zenon, StepConstants DEF Step!stepper_get_position, Step!StepsLeft, Left
<1> HIDE DEF p
<1>3. (IF p >= 2 * Bias THEN -p % (4 * Bias) ELSE p) = taken[t] + Bias
  <2>1. p = (position[t] - Left(mode[t], count[t])) % (4 * Bias)
    BY Zenon DEF p
  <2>2. /\ mode[t] \in {"full", "edge", "avr"} /\ count[t] \in Nat /\ taken[t] \in Int
        /\ CommandSteps(t) \in Nat /\ queued \in Nat /\ queued <= MaxSteps
    BY Zenon, StepperTypes
  <2> QED BY <1>1, <2>1, <2>2, MotionPlace
<1> QED BY <1>2, <1>3

\* A stepper is stopped.
LEMMA StopMotion ==
    ASSUME StepTypes, MotionInv, NEW ss, Step!Stop(ss), NEW t \in Steppers,
           UNCHANGED <<mode, queued, taken>>, NEW cs \in {CommandSteps(t), 0}
    PROVE  Motion(mode'[t], count'[t], position'[t], taken'[t], step_pin'[t], dir_pin'[t],
                  s_mq'[t], cs, queued')
<1>1. Motion(mode[t], count[t], position[t], taken[t], step_pin[t], dir_pin[t], s_mq[t],
             CommandSteps(t), queued)
  BY Zenon DEF MotionInv, MotionOf
<1>2. Motion(mode[t], count[t], position[t], taken[t], step_pin[t], dir_pin[t], s_mq[t],
             cs, queued)
  <2>1. CASE cs = CommandSteps(t)
    BY Zenon, <1>1, <2>1
  <2>2. CASE cs = 0
    BY Zenon, <1>1, <2>2, StepperTypes, MotionDropped
  <2> QED BY Zenon, <2>1, <2>2
<1>3. cs \in Nat
  BY StepperTypes
<1>4. CASE t \notin ss
  <2>1. /\ count'[t] = count[t] /\ position'[t] = position[t] /\ dir_pin'[t] = dir_pin[t]
        /\ s_mq'[t] = s_mq[t]
    BY Zenon, <1>4, StepperTypes DEF Step!Stop
  <2>2. step_pin'[t] = step_pin[t]
    BY Zenon, <1>4, StepperTypes DEF Step!Stop
  <2> QED BY Zenon, <1>2, <2>1, <2>2
<1>5. CASE t \in ss
  <2>1. /\ count'[t] = 0 /\ position'[t] = Step!StoppedPosition(t) /\ dir_pin'[t] = FALSE
        /\ s_mq'[t] = <<>> /\ step_pin'[t] = (step_pin[t] /\ mode[t] = "edge")
    BY Zenon, <1>5 DEF Step!Stop
  <2>2. Step!StoppedPosition(t) = -(taken[t] + Bias) % (4 * Bias)
    BY Zenon, PlaceExact, StepConstants DEF Step!StoppedPosition
  <2>3. Motion(mode[t], 0, position'[t], taken[t], step_pin[t] /\ mode[t] = "edge", FALSE,
               <<>>, cs, queued)
    BY Zenon, <1>2, <1>3, <2>1, <2>2, StepperTypes, MotionStop
  <2> QED BY Zenon, <2>1, <2>3
<1> QED BY Zenon, <1>4, <1>5

\* A move is loaded from queue q, by stepper s that has no events left.
LEMMA LoadMotion ==
    ASSUME StepTypes, NEW s \in Steppers, NEW q \in Seq(Step!Move), q # <<>>,
           Step!stepper_load_next(s, q), NEW tk \in Int, NEW sp \in BOOLEAN, NEW cs \in Nat,
           Motion(mode[s], 0, position[s], tk, sp, dir_pin[s], q, cs, queued)
    PROVE  Motion(mode[s], count'[s], position'[s], tk, sp, dir_pin'[s], s_mq'[s], cs, queued)
<1> DEFINE m == Head(q)
<1>1. /\ s_mq'[s] = Tail(q)
      /\ count'[s] = IF mode[s] = "full" THEN 2 * m.count ELSE m.count
      /\ position'[s] = Step!Loaded(position[s], m)
      /\ dir_pin'[s] = (dir_pin[s] # m.dir)
  BY Zenon DEF Step!stepper_load_next, StepTypes
<1>2. Motion(mode[s], IF mode[s] = "full" THEN 2 * m.count ELSE m.count,
             Step!Loaded(position[s], m), tk, sp, dir_pin[s] # m.dir, Tail(q), cs, queued)
  BY StepperTypes, MotionLoad
<1> QED BY Zenon, <1>1, <1>2

\* Every step keeps the motion of every stepper.
LEMMA MotionStep ==
    ASSUME StepTypes, StepTypes', TimerInv, MotionInv, Step!Next, NEW t \in Steppers
    PROVE  MotionOf(t)'
<1> DEFINE before == Motion(mode[t], count[t], position[t], taken[t], step_pin[t], dir_pin[t],
                            s_mq[t], CommandSteps(t), queued)
<1>0. before
  BY Zenon DEF MotionInv, MotionOf
<1> SUFFICES Motion(mode'[t], count'[t], position'[t], taken'[t], step_pin'[t], dir_pin'[t],
                    s_mq'[t], CommandSteps(t)', queued')
  BY Zenon DEF MotionOf
<1> DEFINE after == Motion(mode'[t], count'[t], position'[t], taken'[t], step_pin'[t],
                           dir_pin'[t], s_mq'[t], CommandSteps(t)', queued')
<1>1. CASE Step!run_shutdown
  <2>1. Step!Stop(Steppers) /\ s_cmd' = <<>> /\ UNCHANGED <<mode, queued, taken>>
    BY Zenon, <1>1 DEF Step!run_shutdown, Step!None
  <2>2. CommandSteps(t)' = 0
    BY Zenon, <2>1 DEF CommandSteps
  <2> QED BY Zenon, <2>1, <2>2, StopMotion
<1>2. CASE Quiet
  <2>1. CommandSteps(t)' = CommandSteps(t)
    BY Zenon, <1>2 DEF CommandSteps, Quiet
  <2> QED BY Zenon, <1>0, <1>2, <2>1 DEF Quiet
<1>3. ASSUME NEW s \in Steppers, Step!stepper_stop(s)
      PROVE  after
  <2>1. Step!Stop({s}) /\ s_cmd' = s_cmd /\ UNCHANGED <<mode, queued, taken>>
    BY Zenon, <1>3 DEF Step!stepper_stop
  <2>2. CommandSteps(t)' = CommandSteps(t)
    BY Zenon, <2>1 DEF CommandSteps
  <2> QED BY Zenon, <2>1, <2>2, StopMotion
<1>4. ASSUME NEW s \in Steppers, NEW c \in 0..MaxCount, TakeMove(s, c)
      PROVE  after
  <2>1. s_cmd = <<>> /\ s_cmd' = <<[oid |-> s, node |-> Head(free), count |-> c]>>
        /\ queued' = queued + c
        /\ UNCHANGED <<mode, count, position, taken, step_pin, dir_pin, s_mq>>
    BY Zenon, <1>4 DEF TakeMove
  <2>2. CommandSteps(t) = 0
    BY Zenon, <2>1 DEF CommandSteps
  <2>3. s_cmd' # <<>> /\ s_cmd'[1].oid = s /\ s_cmd'[1].count = c
    BY Zenon, <2>1
  <2>4. c \in Nat
    BY StepConstants
  <2>5. CommandSteps(t)' = CommandSteps(t) \/ CommandSteps(t)' = CommandSteps(t) + c
    BY <2>2, <2>3, <2>4 DEF CommandSteps
  <2>6. Motion(mode[t], count[t], position[t], taken[t], step_pin[t], dir_pin[t], s_mq[t],
               CommandSteps(t)', queued + c)
    BY Zenon, <1>0, <2>4, <2>5, StepperTypes, MotionCommand
  <2> QED BY Zenon, <2>1, <2>6
<1>5. ASSUME NEW s \in Steppers, NEW m \in Step!Move, PushMove(s, m)
      PROVE  after
  <2>1. s_cmd # <<>> /\ s_cmd[1].oid = s /\ s_cmd[1].count = m.count /\ s_cmd' = <<>>
        /\ UNCHANGED <<mode, step_pin, queued, taken>>
    BY Zenon, <1>5 DEF PushMove
  <2>2. CommandSteps(t)' = 0
    BY Zenon, <2>1 DEF CommandSteps
  <2>3. Motion(mode[t], count[t], position[t], taken[t], step_pin[t], dir_pin[t], s_mq[t],
               0, queued)
    BY Zenon, <1>0, StepperTypes, MotionDropped
  <2>4. CASE UNCHANGED <<s_mq, count, position, dir_pin>>
    BY ZenonT(30), <2>1, <2>2, <2>3, <2>4
  <2>5. s = t => Motion(mode[s], count[s], position[s], taken[s], step_pin[s], dir_pin[s],
                        Append(s_mq[s], m), 0, queued)
    <3> SUFFICES ASSUME s = t
                 PROVE  Motion(mode[s], count[s], position[s], taken[s], step_pin[s], dir_pin[s],
                               Append(s_mq[s], m), 0, queued)
      BY Zenon
    <3>1. CommandSteps(t) = m.count
      BY Zenon, <2>1 DEF CommandSteps
    <3> QED BY <1>0, <3>1, StepperTypes, MotionAppend
  <2>6. CASE /\ s_mq' = [s_mq EXCEPT ![s] = Append(@, m)]
             /\ UNCHANGED <<count, position, dir_pin>>
    <3>1. CASE s = t
      <4>1. s_mq'[t] = Append(s_mq[s], m)
        BY Zenon, <2>6, <3>1 DEF StepTypes
      <4> QED BY Zenon, <2>1, <2>2, <2>5, <2>6, <3>1, <4>1
    <3>2. CASE s # t
      <4>1. s_mq'[t] = s_mq[t]
        BY Zenon, <2>6, <3>2 DEF StepTypes
      <4> QED BY Zenon, <2>1, <2>2, <2>3, <2>6, <4>1
    <3> QED BY Zenon, <3>1, <3>2
  <2>7. CASE count[s] = 0 /\ Step!stepper_load_next(s, Append(s_mq[s], m))
    <3>1. CASE s = t
      <4>1. Append(s_mq[s], m) \in Seq(Step!Move) /\ Append(s_mq[s], m) # <<>>
        BY StepperTypes, SeqAppend
      <4>2. Motion(mode[s], 0, position[s], taken[s], step_pin[s], dir_pin[s],
                   Append(s_mq[s], m), 0, queued)
        BY Zenon, <2>5, <2>7, <3>1
      <4>3. Motion(mode[s], count'[s], position'[s], taken[s], step_pin[s], dir_pin'[s],
                   s_mq'[s], 0, queued)
        BY ZenonT(30), <2>7, <4>1, <4>2, StepperTypes, LoadMotion
      <4> QED BY ZenonT(30), <2>1, <2>2, <3>1, <4>3
    <3>2. CASE s # t
      <4>1. s_mq'[t] = s_mq[t] /\ count'[t] = count[t] /\ position'[t] = position[t]
            /\ dir_pin'[t] = dir_pin[t]
        BY <2>7, <3>2 DEF StepTypes, Step!stepper_load_next
      <4> QED BY Zenon, <2>1, <2>2, <2>3, <4>1
    <3> QED BY Zenon, <3>1, <3>2
  <2> QED BY Zenon, <1>5, <2>4, <2>6, <2>7 DEF PushMove
<1>6. ASSUME NEW s \in Steppers, Event(s)
      PROVE  after
  <2>1. /\ active[s] /\ Step!NextEvent(s) /\ UNCHANGED <<mode, s_cmd, queued>>
        /\ step_pin' = [step_pin EXCEPT ![s] = IF mode[s] = "avr" THEN @ ELSE ~@]
        /\ taken' = [taken EXCEPT ![s] = IF mode[s] # "edge" /\ step_pin[s] THEN @
                                         ELSE IF dir_pin[s] THEN @ + 1 ELSE @ - 1]
    BY Zenon, <1>6 DEF Event
  <2>2. CommandSteps(t)' = CommandSteps(t)
    BY Zenon, <2>1 DEF CommandSteps
  <2>3. CASE s # t
    <3>1. step_pin'[t] = step_pin[t] /\ taken'[t] = taken[t]
      BY <2>1, <2>3 DEF StepTypes
    <3>2. s_mq'[t] = s_mq[t] /\ count'[t] = count[t] /\ position'[t] = position[t]
          /\ dir_pin'[t] = dir_pin[t]
      <4>1. CASE Step!stepper_load_next(s, s_mq[s])
        BY <2>3, <4>1 DEF StepTypes, Step!stepper_load_next
      <4>2. CASE UNCHANGED <<s_mq, position, dir_pin>>
                 /\ (count' = [count EXCEPT ![s] = @ - 1] \/ count' = [count EXCEPT ![s] = 0])
        BY Zenon, <2>3, <4>2 DEF StepTypes
      <4> QED BY Zenon, <2>1, <4>1, <4>2 DEF Step!NextEvent
    <3> QED BY Zenon, <1>0, <2>1, <2>2, <3>1, <3>2
  <2>4. CASE s = t
    <3> DEFINE sp2 == step_pin'[s]
               tk2 == taken'[s]
    <3>1. /\ sp2 = IF mode[s] = "avr" THEN step_pin[s] ELSE ~step_pin[s]
          /\ tk2 = IF mode[s] # "edge" /\ step_pin[s] THEN taken[s]
                   ELSE IF dir_pin[s] THEN taken[s] + 1 ELSE taken[s] - 1
      BY <2>1 DEF StepTypes
    <3>2. sp2 \in BOOLEAN /\ tk2 \in Int
      BY Zenon DEF StepTypes
    <3>3. count[s] \in Nat \ {0} /\ mode[s] \in {"full", "edge", "avr"} /\ taken[s] \in Int
          /\ step_pin[s] \in BOOLEAN /\ dir_pin[s] \in BOOLEAN /\ s_mq[s] \in Seq(Step!Move)
          /\ CommandSteps(s) \in Nat /\ queued \in Nat
      BY Zenon, <2>1, StepperTypes DEF TimerInv
    <3> HIDE DEF sp2, tk2
    <3>4. Motion(mode[s], count[s] - 1, position[s], tk2, sp2, dir_pin[s], s_mq[s],
                 CommandSteps(s), queued)
      <4>1. Motion(mode[s], count[s], position[s], taken[s], step_pin[s], dir_pin[s], s_mq[s],
                   CommandSteps(s), queued)
        BY Zenon, <1>0, <2>4
      <4>2. Motion(mode[s], count[s] - 1, position[s],
                   IF mode[s] # "edge" /\ step_pin[s] THEN taken[s]
                   ELSE IF dir_pin[s] THEN taken[s] + 1 ELSE taken[s] - 1,
                   IF mode[s] = "avr" THEN step_pin[s] ELSE ~step_pin[s], dir_pin[s], s_mq[s],
                   CommandSteps(s), queued)
        BY Zenon, <3>3, <4>1, MotionEvent
      <4> QED BY Zenon, <3>1, <4>2
    <3>5. CASE count' = [count EXCEPT ![s] = @ - 1] /\ UNCHANGED <<s_mq, position, dir_pin>>
      <4>1. count'[s] = count[s] - 1
        BY Zenon, <3>5 DEF StepTypes
      <4> QED BY ZenonT(30), <2>1, <2>2, <2>4, <3>4, <3>5, <4>1 DEF sp2, tk2
    <3>6. CASE count[s] = 1 /\ s_mq[s] # <<>> /\ Step!stepper_load_next(s, s_mq[s])
      <4>1. count[s] - 1 = 0
        BY <3>6
      <4>2. Motion(mode[s], 0, position[s], tk2, sp2, dir_pin[s], s_mq[s], CommandSteps(s),
                   queued)
        BY Zenon, <3>4, <4>1
      <4>3. Motion(mode[s], count'[s], position'[s], tk2, sp2, dir_pin'[s], s_mq'[s],
                   CommandSteps(s), queued)
        BY ZenonT(30), <3>2, <3>3, <3>6, <4>2, LoadMotion
      <4> QED BY Zenon, <2>1, <2>2, <2>4, <4>3 DEF sp2, tk2
    <3>7. CASE count[s] = 1 /\ count' = [count EXCEPT ![s] = 0]
               /\ UNCHANGED <<s_mq, position, dir_pin>>
      <4>1. count'[s] = count[s] - 1
        BY <3>7 DEF StepTypes
      <4> QED BY Zenon, <2>1, <2>2, <2>4, <3>4, <3>7, <4>1 DEF sp2, tk2
    <3> QED BY Zenon, <2>1, <3>5, <3>6, <3>7 DEF Step!NextEvent
  <2> QED BY Zenon, <2>3, <2>4
<1> QED BY Zenon, <1>1, <1>2, <1>3, <1>4, <1>5, <1>6, StepCases

-----------------------------------------------------------------------------
\* The pool of moves.

\* The nodes of two lists, one after the other.
LEMMA HeldConcat ==
    ASSUME NEW g \in Seq(Step!Node), NEW f \in Seq(Step!Node), Once(g), Once(f),
           Held(g) \cap Held(f) = {}, NEW h, h = g \o f
    PROVE  Held(h) = Held(g) \union Held(f) /\ Once(h)
<1> DEFINE n == Len(g)
           k == Len(f)
<1>1. n \in Nat /\ k \in Nat
  BY Zenon, SeqLen
<1>2. /\ Len(h) = n + k
      /\ \A i \in 1..n : h[i] = g[i]
      /\ \A i \in 1..k : h[n + i] = f[i]
  BY ConcatElements
<1> HIDE DEF n, k
<1>3. \A i \in 1..(n + k) : i \in 1..n \/ (i - n \in 1..k /\ i = n + (i - n))
  BY <1>1
<1>4. \A i \in 1..n : i \in 1..(n + k)
  BY <1>1
<1>5. \A i \in 1..k : n + i \in 1..(n + k)
  BY <1>1
<1>6. \A i \in 1..(n + k) : (i \in 1..n /\ h[i] = g[i]) \/ (i - n \in 1..k /\ h[i] = f[i - n])
  BY Zenon, <1>2, <1>3
<1>7. Held(h) \subseteq Held(g) \union Held(f)
  BY <1>2, <1>6 DEF Held, n, k
<1>8. Held(g) \subseteq Held(h)
  BY ZenonT(30), <1>2, <1>4 DEF Held, n, k
<1>9. Held(f) \subseteq Held(h)
  BY <1>2, <1>5 DEF Held, n, k
<1>10. ASSUME NEW i \in 1..(n + k), NEW j \in 1..(n + k), h[i] = h[j]
       PROVE  i = j
  <2>1. CASE i \in 1..n /\ h[i] = g[i] /\ j \in 1..n /\ h[j] = g[j]
    BY Zenon, <1>10, <2>1 DEF Once, n
  <2>2. CASE i - n \in 1..k /\ h[i] = f[i - n] /\ j - n \in 1..k /\ h[j] = f[j - n]
    <3>1. i - n = j - n
      BY Zenon, <1>10, <2>2 DEF Once, k
    <3> QED BY <1>1, <3>1
  <2>3. CASE i \in 1..n /\ h[i] = g[i] /\ j - n \in 1..k /\ h[j] = f[j - n]
    <3>1. h[i] \in Held(g) /\ h[j] \in Held(f)
      BY Zenon, <2>3 DEF Held, n, k
    <3> QED BY Zenon, <1>10, <3>1
  <2>4. CASE i - n \in 1..k /\ h[i] = f[i - n] /\ j \in 1..n /\ h[j] = g[j]
    <3>1. h[j] \in Held(g) /\ h[i] \in Held(f)
      BY Zenon, <2>4 DEF Held, n, k
    <3> QED BY Zenon, <1>10, <3>1
  <2> QED BY Zenon, <1>6, <2>1, <2>2, <2>3, <2>4
<1> QED BY ZenonT(30), <1>2, <1>7, <1>8, <1>9, <1>10 DEF Once

\* A list of one node.
LEMMA HeldOne ==
    ASSUME NEW n \in Step!Node
    PROVE  <<n>> \in Seq(Step!Node) /\ Held(<<n>>) = {n} /\ Once(<<n>>)
<1>1. <<n>> \in Seq(Step!Node) /\ Len(<<n>>) = 1 /\ <<n>>[1] = n
  OBVIOUS
<1>2. \A i : i \in 1..1 <=> i = 1
  OBVIOUS
<1> QED BY <1>1, <1>2 DEF Held, Once

\* The nodes of a list without its first.
LEMMA HeldTail ==
    ASSUME NEW f \in Seq(Step!Node), f # <<>>, Once(f)
    PROVE  /\ Once(Tail(f)) /\ Head(f) \notin Held(Tail(f))
           /\ Held(f) = {Head(f)} \union Held(Tail(f))
<1> DEFINE n == Len(f)
           r == Tail(f)
<1>1. n \in Nat \ {0} /\ Head(f) = f[1] /\ Len(r) = n - 1
      /\ \A i \in 1..(n - 1) : r[i] = f[i + 1]
  BY SeqHeadTail, SeqLen, SeqEmpty
<1> HIDE DEF n, r
<1>2. \A i \in 1..(n - 1) : i + 1 \in 1..n /\ i + 1 # 1
  BY <1>1
<1>3. \A i \in 1..n : i = 1 \/ (i - 1 \in 1..(n - 1) /\ r[i - 1] = f[i])
  <2>1. \A i \in 1..n : i = 1 \/ (i - 1 \in 1..(n - 1) /\ i = (i - 1) + 1)
    BY <1>1
  <2> QED BY Zenon, <1>1, <2>1
<1>4. ASSUME NEW i \in 1..(n - 1), NEW j \in 1..(n - 1), r[i] = r[j]
      PROVE  i = j
  <2>1. i + 1 = j + 1
    BY <1>1, <1>2, <1>4 DEF Once, n
  <2> QED BY <1>1, <2>1
<1>5. ASSUME NEW i \in 1..(n - 1), r[i] = f[1]
      PROVE  FALSE
  BY <1>1, <1>2, <1>5 DEF Once, n
<1>6. Head(f) \notin Held(r)
  BY Zenon, <1>1, <1>5 DEF Held
<1>7. Held(f) \subseteq {Head(f)} \union Held(r)
  BY <1>1, <1>3 DEF Held, n
<1>8. {Head(f)} \union Held(r) \subseteq Held(f)
  <2>1. 1 \in 1..n
    BY <1>1
  <2> QED BY <1>1, <1>2, <2>1 DEF Held, n
<1> QED BY Zenon, <1>1, <1>4, <1>6, <1>7, <1>8 DEF Once, r

\* The nodes of a queue without its first move.
LEMMA WaitingTail ==
    ASSUME NEW f \in Seq(Step!Move), f # <<>>, WaitOnce(f)
    PROVE  /\ WaitOnce(Tail(f)) /\ Head(f).node \notin Waiting(Tail(f))
           /\ Waiting(f) = {Head(f).node} \union Waiting(Tail(f))
<1> DEFINE n == Len(f)
           r == Tail(f)
<1>1. n \in Nat \ {0} /\ Head(f) = f[1] /\ Len(r) = n - 1
      /\ \A i \in 1..(n - 1) : r[i] = f[i + 1]
  BY SeqHeadTail, SeqLen, SeqEmpty
<1> HIDE DEF n, r
<1>2. \A i \in 1..(n - 1) : i + 1 \in 1..n /\ i + 1 # 1
  BY <1>1
<1>3. \A i \in 1..n : i = 1 \/ (i - 1 \in 1..(n - 1) /\ r[i - 1] = f[i])
  <2>1. \A i \in 1..n : i = 1 \/ (i - 1 \in 1..(n - 1) /\ i = (i - 1) + 1)
    BY <1>1
  <2> QED BY Zenon, <1>1, <2>1
<1>4. ASSUME NEW i \in 1..(n - 1), NEW j \in 1..(n - 1), r[i].node = r[j].node
      PROVE  i = j
  <2>1. i + 1 = j + 1
    BY <1>1, <1>2, <1>4 DEF WaitOnce, n
  <2> QED BY <1>1, <2>1
<1>5. ASSUME NEW i \in 1..(n - 1), r[i].node = f[1].node
      PROVE  FALSE
  BY <1>1, <1>2, <1>5 DEF WaitOnce, n
<1>6. Head(f).node \notin Waiting(r)
  BY Zenon, <1>1, <1>5 DEF Waiting
<1>7. Waiting(f) \subseteq {Head(f).node} \union Waiting(r)
  BY <1>1, <1>3 DEF Waiting, n
<1>8. {Head(f).node} \union Waiting(r) \subseteq Waiting(f)
  <2>1. 1 \in 1..n
    BY <1>1
  <2> QED BY <1>1, <1>2, <2>1 DEF Waiting, n
<1> QED BY Zenon, <1>1, <1>4, <1>6, <1>7, <1>8 DEF WaitOnce, r

\* The nodes of a queue with one move more.
LEMMA WaitingAppend ==
    ASSUME NEW q \in Seq(Step!Move), NEW m \in Step!Move, WaitOnce(q), m.node \notin Waiting(q)
    PROVE  WaitOnce(Append(q, m)) /\ Waiting(Append(q, m)) = Waiting(q) \union {m.node}
<1> DEFINE n == Len(q)
           r == Append(q, m)
<1>1. n \in Nat /\ Len(r) = n + 1 /\ (\A i \in 1..n : r[i] = q[i]) /\ r[n + 1] = m
  BY SeqAppend, SeqLen
<1> HIDE DEF n, r
<1>2. \A i : i \in 1..(n + 1) <=> i \in 1..n \/ i = n + 1
  BY <1>1
<1>3. \A i \in 1..n : q[i].node # m.node
  BY Zenon DEF Waiting, n
<1>4. WaitOnce(r)
  BY <1>1, <1>2, <1>3 DEF WaitOnce, n
<1>5. Waiting(r) = Waiting(q) \union {m.node}
  BY ZenonT(30), <1>1, <1>2 DEF Waiting, n
<1> QED BY Zenon, <1>4, <1>5 DEF r

\* The nodes of a queue that stepper_stop() frees are those it held.
LEMMA HeldFreed ==
    ASSUME NEW q \in Seq(Step!Move), WaitOnce(q)
    PROVE  /\ Step!Freed(q) \in Seq(Step!Node)
           /\ Held(Step!Freed(q)) = Waiting(q) /\ Once(Step!Freed(q))
<1> DEFINE n == Len(q)
           f == Step!Freed(q)
<1>1. /\ f \in Seq(Step!Node) /\ Len(f) = n
      /\ \A i \in 1..n : n + 1 - i \in 1..n /\ f[i] = q[n + 1 - i].node
  BY Zenon, FreedNodes
<1>2. n \in Nat
  BY Zenon, SeqLen
<1> HIDE DEF n, f
<1>3. \A i \in 1..n : n + 1 - (n + 1 - i) = i
  BY <1>2
<1>4. \A i \in 1..n : n + 1 - i \in 1..n /\ f[n + 1 - i] = q[i].node
  BY <1>1, <1>3
<1>5. Held(f) \subseteq Waiting(q)
  BY <1>1 DEF Held, Waiting, n
<1>6. Waiting(q) \subseteq Held(f)
  BY <1>1, <1>4 DEF Held, Waiting, n
<1>7. ASSUME NEW i \in 1..n, NEW j \in 1..n, f[i] = f[j]
      PROVE  i = j
  <2>1. q[n + 1 - i].node = q[n + 1 - j].node
    BY Zenon, <1>1, <1>7
  <2>2. n + 1 - i \in 1..Len(q) /\ n + 1 - j \in 1..Len(q)
    BY Zenon, <1>1 DEF n
  <2>3. n + 1 - i = n + 1 - j
    BY Zenon, <2>1, <2>2 DEF WaitOnce
  <2> QED BY <1>2, <2>3
<1> QED BY Zenon, <1>1, <1>5, <1>6, <1>7 DEF Once, f

\* An empty queue holds no node.
LEMMA NoneWaiting == Waiting(<<>>) = {} /\ WaitOnce(<<>>)
BY DEF Waiting, WaitOnce

\* After move_reset() all nodes are free.
LEMMA HeldReset == Held(Step!move_reset) = Step!Node /\ Once(Step!move_reset)
BY Zenon, PoolReset DEF Held, Once, Step!Node

\* The node of the command under way, if there is one.
LEMMA InHandIs ==
    ASSUME StepTypes
    PROVE  /\ s_cmd = <<>> => InHand = {}
           /\ s_cmd # <<>> => InHand = {s_cmd[1].node}
<1>1. s_cmd = <<>> => InHand = {}
  BY DEF InHand
<1>2. s_cmd # <<>> => Len(s_cmd) = 1
  BY DEF StepTypes
<1>3. \A i : i \in 1..1 <=> i = 1
  OBVIOUS
<1> QED BY Zenon, <1>1, <1>2, <1>3 DEF InHand

\* stepper_stop() frees the moves of the queue.
LEMMA StopPool ==
    ASSUME StepTypes, StepTypes', PoolInv, NEW s \in Steppers, Step!stepper_stop(s)
    PROVE  PoolInv'
<1> DEFINE g == Step!Freed(s_mq[s])
<1>1. s_mq[s] \in Seq(Step!Move) /\ free \in Seq(Step!Node) /\ WaitOnce(s_mq[s])
  BY Zenon DEF StepTypes, PoolInv
<1>2. g \in Seq(Step!Node) /\ Held(g) = Waiting(s_mq[s]) /\ Once(g)
  BY Zenon, <1>1, HeldFreed
<1>3. free' = g \o free /\ s_cmd' = s_cmd
      /\ s_mq' = [t \in Steppers |-> IF t \in {s} THEN <<>> ELSE s_mq[t]]
  BY Zenon DEF Step!stepper_stop, Step!Stop
<1> HIDE DEF g
<1>4. Held(free') = Waiting(s_mq[s]) \union Held(free) /\ Once(free')
  <2>1. Once(free) /\ Held(g) \cap Held(free) = {}
    <3>1. Once(free) /\ Held(free) \cap Waiting(s_mq[s]) = {}
      BY Zenon DEF PoolInv
    <3>2. \A A, B : A \cap B = {} => B \cap A = {}
      BY Zenon
    <3> QED BY Zenon, <1>2, <3>1, <3>2
  <2>2. Held(free') = Held(g) \union Held(free) /\ Once(free')
    <3>1. PICK h : h = free'
      BY Zenon
    <3>2. Held(h) = Held(g) \union Held(free) /\ Once(h)
      BY Zenon, <1>1, <1>2, <1>3, <2>1, <3>1, HeldConcat
    <3> QED BY Zenon, <3>1, <3>2
  <2> QED BY Zenon, <1>2, <2>2
<1>5. InHand' = InHand
  BY Zenon, <1>3 DEF InHand
<1>6. s_mq'[s] = <<>> /\ \A t \in Steppers : t # s => s_mq'[t] = s_mq[t]
  BY Zenon, <1>3
<1>7. Waiting(s_mq'[s]) = {} /\ WaitOnce(s_mq'[s])
  BY Zenon, <1>6, NoneWaiting
<1>8. Once(free') /\ \A t \in Steppers : WaitOnce(s_mq'[t])
  BY Zenon, <1>4, <1>6, <1>7 DEF PoolInv
<1>9. \A t \in Steppers : Held(free') \cap Waiting(s_mq'[t]) = {}
  BY ZenonT(30), <1>4, <1>6, <1>7 DEF PoolInv
<1>10. \A t, u \in Steppers : t # u => Waiting(s_mq'[t]) \cap Waiting(s_mq'[u]) = {}
  BY Zenon, <1>6, <1>7 DEF PoolInv
<1>11. InHand' \cap Held(free') = {}
  BY Zenon, <1>4, <1>5 DEF PoolInv
<1>12. \A t \in Steppers : InHand' \cap Waiting(s_mq'[t]) = {}
  BY Zenon, <1>5, <1>6, <1>7 DEF PoolInv
<1>13. \A n \in Step!Node :
         n \in Held(free') \/ n \in InHand' \/ \E t \in Steppers : n \in Waiting(s_mq'[t])
  BY Zenon, <1>4, <1>5, <1>6 DEF PoolInv
<1> QED BY Zenon, <1>8, <1>9, <1>10, <1>11, <1>12, <1>13 DEF PoolInv

\* The node in hand goes back to the pool: the move is dropped, or it is loaded at once.
LEMMA ReturnPool ==
    ASSUME StepTypes, StepTypes', PoolInv, s_cmd # <<>>, s_cmd' = <<>>, s_mq' = s_mq,
           free' = <<s_cmd[1].node>> \o free
    PROVE  PoolInv'
<1> DEFINE x == s_cmd[1].node
<1>1. x \in Step!Node
  <2>1. PICK c \in Command : s_cmd = <<c>>
    BY Zenon DEF StepTypes
  <2> QED BY Zenon, <2>1 DEF Command
<1>2. InHand = {x} /\ InHand' = {}
  <2>1. InHand' = {}
    BY DEF InHand
  <2> QED BY Zenon, <2>1, InHandIs
<1> HIDE DEF x
<1>3. <<x>> \in Seq(Step!Node) /\ Held(<<x>>) = {x} /\ Once(<<x>>)
  BY Zenon, <1>1, HeldOne
<1>4. free \in Seq(Step!Node) /\ free' = <<x>> \o free
  BY Zenon DEF StepTypes, x
<1>5. Held(free') = {x} \union Held(free) /\ Once(free')
  <2>1. Once(free) /\ {x} \cap Held(free) = {}
    BY Zenon, <1>2 DEF PoolInv
  <2>2. PICK h : h = free'
    BY Zenon
  <2>3. PICK g \in Seq(Step!Node) : g = <<x>> /\ Held(g) = {x} /\ Once(g)
    BY Zenon, <1>3
  <2>4. h = g \o free /\ Held(g) \cap Held(free) = {}
    BY Zenon, <1>4, <2>1, <2>2, <2>3
  <2>5. Held(h) = Held(g) \union Held(free) /\ Once(h)
    BY Zenon, <1>4, <2>1, <2>3, <2>4, HeldConcat
  <2> QED BY Zenon, <2>2, <2>3, <2>5
<1>6. \A t \in Steppers : Held(free') \cap Waiting(s_mq'[t]) = {}
  BY Zenon, <1>2, <1>5 DEF PoolInv
<1>7. InHand' \cap Held(free') = {} /\ \A t \in Steppers : InHand' \cap Waiting(s_mq'[t]) = {}
  BY Zenon, <1>2
<1>8. \A n \in Step!Node :
         n \in Held(free') \/ n \in InHand' \/ \E t \in Steppers : n \in Waiting(s_mq'[t])
  BY Zenon, <1>2, <1>5 DEF PoolInv
<1> QED BY Zenon, <1>5, <1>6, <1>7, <1>8 DEF PoolInv

\* command_queue_step() queues its move, or the node goes back: the move is loaded or dropped.
LEMMA PushPool ==
    ASSUME StepTypes, StepTypes', TimerInv, PoolInv,
           NEW s \in Steppers, NEW m \in Step!Move, PushMove(s, m)
    PROVE  PoolInv'
<1>1. s_cmd # <<>> /\ s_cmd[1].node = m.node /\ s_cmd' = <<>>
  BY Zenon DEF PushMove
<1>2. CASE free' = <<m.node>> \o free /\ s_mq' = s_mq
  BY Zenon, <1>1, <1>2, ReturnPool
<1>3. CASE count[s] = 0 /\ Step!stepper_load_next(s, Append(s_mq[s], m))
  <2>1. s_mq[s] = <<>>
    BY Zenon, <1>3 DEF TimerInv
  <2>2. Head(Append(s_mq[s], m)) = m /\ Tail(Append(s_mq[s], m)) = <<>>
    BY <2>1
  <2>3. free' = <<m.node>> \o free /\ s_mq' = [s_mq EXCEPT ![s] = <<>>]
    BY Zenon, <1>3, <2>2 DEF Step!stepper_load_next
  <2>4. s_mq' = s_mq
    BY Zenon, <2>1, <2>3 DEF StepTypes
  <2> QED BY Zenon, <1>1, <2>3, <2>4, ReturnPool
<1>4. CASE s_mq' = [s_mq EXCEPT ![s] = Append(@, m)] /\ free' = free
  <2>1. s_mq'[s] = Append(s_mq[s], m) /\ \A t \in Steppers : t # s => s_mq'[t] = s_mq[t]
    BY Zenon, <1>4 DEF StepTypes
  <2>2. InHand = {m.node} /\ InHand' = {}
    BY <1>1, InHandIs DEF InHand
  <2>3. s_mq[s] \in Seq(Step!Move) /\ WaitOnce(s_mq[s]) /\ m.node \notin Waiting(s_mq[s])
    BY Zenon, <2>2 DEF PoolInv, StepTypes
  <2>4. WaitOnce(s_mq'[s]) /\ Waiting(s_mq'[s]) = Waiting(s_mq[s]) \union {m.node}
    BY Zenon, <2>1, <2>3, WaitingAppend
  <2>5. Once(free') /\ \A t \in Steppers : WaitOnce(s_mq'[t])
    BY Zenon, <1>4, <2>1, <2>4 DEF PoolInv
  <2>6. \A t \in Steppers : Held(free') \cap Waiting(s_mq'[t]) = {}
    BY ZenonT(30), <1>4, <2>1, <2>2, <2>4 DEF PoolInv
  <2>7. \A t, u \in Steppers : t # u => Waiting(s_mq'[t]) \cap Waiting(s_mq'[u]) = {}
    BY ZenonT(30), <2>1, <2>2, <2>4 DEF PoolInv
  <2>8. InHand' \cap Held(free') = {} /\ \A t \in Steppers : InHand' \cap Waiting(s_mq'[t]) = {}
    BY Zenon, <2>2
  <2>9. \A n \in Step!Node :
          n \in Held(free') \/ n \in InHand' \/ \E t \in Steppers : n \in Waiting(s_mq'[t])
    BY ZenonT(30), <1>4, <2>1, <2>2, <2>4 DEF PoolInv
  <2> QED BY Zenon, <2>5, <2>6, <2>7, <2>8, <2>9 DEF PoolInv
<1> QED BY Zenon, <1>2, <1>3, <1>4 DEF PushMove

\* move_alloc() takes a node from the free list.
LEMMA TakePool ==
    ASSUME StepTypes, StepTypes', PoolInv, NEW s \in Steppers, NEW c, TakeMove(s, c)
    PROVE  PoolInv'
<1>1. /\ s_cmd = <<>> /\ free # <<>> /\ free' = Tail(free) /\ s_mq' = s_mq
      /\ s_cmd' = <<[oid |-> s, node |-> Head(free), count |-> c]>>
  BY Zenon DEF TakeMove
<1>2. InHand = {}
  BY Zenon, <1>1, InHandIs
<1>3. InHand' = {Head(free)}
  <2>1. Len(s_cmd') = 1 /\ s_cmd'[1].node = Head(free)
    BY Zenon, <1>1
  <2>2. \A i : i \in 1..1 <=> i = 1
    OBVIOUS
  <2> QED BY Zenon, <2>1, <2>2 DEF InHand
<1>4. free \in Seq(Step!Node) /\ Once(free)
  BY Zenon DEF StepTypes, PoolInv
<1>5. Once(free') /\ Head(free) \notin Held(free') /\ Held(free) = {Head(free)} \union Held(free')
  BY Zenon, <1>1, <1>4, HeldTail
<1>6. \A t \in Steppers : Held(free') \cap Waiting(s_mq'[t]) = {}
  BY Zenon, <1>1, <1>5 DEF PoolInv
<1>7. InHand' \cap Held(free') = {} /\ \A t \in Steppers : InHand' \cap Waiting(s_mq'[t]) = {}
  BY <1>1, <1>3, <1>5 DEF PoolInv
<1>8. \A n \in Step!Node :
         n \in Held(free') \/ n \in InHand' \/ \E t \in Steppers : n \in Waiting(s_mq'[t])
  BY Zenon, <1>1, <1>2, <1>3, <1>5 DEF PoolInv
<1> QED BY ZenonT(30), <1>1, <1>5, <1>6, <1>7, <1>8 DEF PoolInv

\* A step event frees the node of the move that it loads.
LEMMA EventPool ==
    ASSUME StepTypes, StepTypes', PoolInv, NEW s \in Steppers, Event(s)
    PROVE  PoolInv'
<1>1. s_cmd' = s_cmd /\ Step!NextEvent(s)
  BY Zenon DEF Event
<1>2. InHand' = InHand
  BY Zenon, <1>1 DEF InHand
<1>3. CASE UNCHANGED <<free, s_mq>>
  BY Zenon, <1>2, <1>3 DEF PoolInv
<1>4. CASE s_mq[s] # <<>> /\ Step!stepper_load_next(s, s_mq[s])
  <2> DEFINE x == Head(s_mq[s]).node
             r == Tail(s_mq[s])
  <2>1. s_mq' = [s_mq EXCEPT ![s] = r] /\ free' = <<x>> \o free
    BY Zenon, <1>4 DEF Step!stepper_load_next
  <2>2. s_mq[s] \in Seq(Step!Move) /\ free \in Seq(Step!Node) /\ WaitOnce(s_mq[s])
    BY Zenon DEF StepTypes, PoolInv
  <2>3. Head(s_mq[s]) \in Step!Move
    BY <1>4, <2>2, FrontOfSeq
  <2>4. x \in Step!Node
    BY Zenon, <2>3 DEF Step!Move
  <2>5. WaitOnce(r) /\ x \notin Waiting(r) /\ Waiting(s_mq[s]) = {x} \union Waiting(r)
    BY Zenon, <1>4, <2>2, WaitingTail
  <2> HIDE DEF x, r
  <2>6. <<x>> \in Seq(Step!Node) /\ Held(<<x>>) = {x} /\ Once(<<x>>)
    BY Zenon, <2>4, HeldOne
  <2>7. x \notin Held(free)
    BY Zenon, <2>5 DEF PoolInv
  <2>8. Held(free') = {x} \union Held(free) /\ Once(free')
    <3> DEFINE g == <<x>>
    <3>1. g \in Seq(Step!Node) /\ Held(g) = {x} /\ Once(g) /\ free' = g \o free
      BY Zenon, <2>1, <2>6
    <3> HIDE DEF g
    <3>2. Once(free) /\ Held(g) \cap Held(free) = {}
      BY Zenon, <2>7, <3>1, ApartFromOne DEF PoolInv
    <3>3. \A h : h = g \o free => Held(h) = Held(g) \union Held(free) /\ Once(h)
      BY Zenon, <2>2, <3>1, <3>2, HeldConcat
    <3> QED BY Zenon, <3>1, <3>3
  <2>9. s_mq'[s] = r /\ \A t \in Steppers : t # s => s_mq'[t] = s_mq[t]
    BY Zenon, <2>1 DEF StepTypes
  <2>10. \A t \in Steppers : WaitOnce(s_mq'[t])
    BY Zenon, <2>5, <2>9 DEF PoolInv
  <2>11. ASSUME NEW t \in Steppers PROVE Held(free') \cap Waiting(s_mq'[t]) = {}
    <3>1. CASE t = s
      <4>1. Held(free) \cap Waiting(s_mq[s]) = {}
        BY Zenon DEF PoolInv
      <4> QED BY <2>5, <2>8, <2>9, <3>1, <4>1
    <3>2. CASE t # s
      <4>1. Held(free) \cap Waiting(s_mq[t]) = {} /\ Waiting(s_mq[t]) \cap Waiting(s_mq[s]) = {}
        BY Zenon, <3>2 DEF PoolInv
      <4> QED BY <2>5, <2>8, <2>9, <4>1, <3>2
    <3> QED BY Zenon, <3>1, <3>2
  <2>12. \A t, u \in Steppers : t # u => Waiting(s_mq'[t]) \cap Waiting(s_mq'[u]) = {}
    BY <2>5, <2>9 DEF PoolInv
  <2>13. InHand' \cap Held(free') = {} /\ \A t \in Steppers : InHand' \cap Waiting(s_mq'[t]) = {}
    BY ZenonT(30), <1>2, <2>5, <2>8, <2>9 DEF PoolInv
  <2>14. \A n \in Step!Node :
           n \in Held(free') \/ n \in InHand' \/ \E t \in Steppers : n \in Waiting(s_mq'[t])
    BY ZenonT(30), <1>2, <2>5, <2>8, <2>9 DEF PoolInv
  <2> QED BY ZenonT(30), <2>8, <2>10, <2>11, <2>12, <2>13, <2>14 DEF PoolInv
<1> QED BY Zenon, <1>1, <1>3, <1>4 DEF Step!NextEvent

\* Every step keeps each node in one place.
LEMMA PoolStep ==
    ASSUME StepTypes, StepTypes', TimerInv, PoolInv, Step!Next
    PROVE  PoolInv'
<1>1. CASE Step!run_shutdown
  <2>1. /\ free' = Step!move_reset /\ s_cmd' = <<>>
        /\ s_mq' = [t \in Steppers |-> IF t \in Steppers THEN <<>> ELSE s_mq[t]]
    BY Zenon, <1>1 DEF Step!run_shutdown, Step!PoolAfterShutdown, Step!Stop, Step!None
  <2>2. \A t \in Steppers : Waiting(s_mq'[t]) = {} /\ WaitOnce(s_mq'[t])
    BY Zenon, <2>1, NoneWaiting
  <2>3. InHand' = {}
    BY <2>1 DEF InHand
  <2>4. Held(free') = Step!Node /\ Once(free')
    BY Zenon, <2>1, HeldReset
  <2> QED BY Zenon, <2>2, <2>3, <2>4 DEF PoolInv
<1>2. CASE Quiet
  <2>1. UNCHANGED <<free, s_mq, s_cmd>>
    BY Zenon, <1>2 DEF Quiet
  <2>2. InHand' = InHand
    BY Zenon, <2>1 DEF InHand
  <2> QED BY Zenon, <2>1, <2>2 DEF PoolInv
<1> QED BY Zenon, <1>1, <1>2, PushPool, TakePool, StopPool, EventPool, StepCases

-----------------------------------------------------------------------------
\* The invariant, and what it means.

\* Steppers that are configured, and a full pool.
LEMMA StepInit ==
    ASSUME Step!Init
    PROVE  StepInv
<1>1. StepTypes
  <2>1. free \in Seq(Step!Node)
    BY Zenon, PoolReset DEF Step!Init
  <2>2. <<>> \in Seq(Step!Move)
    OBVIOUS
  <2>3. 4 * Bias - Bias \in Nat /\ 0 <= MaxSteps
    BY StepConstants
  <2>4. mode \in [Steppers -> Modes] /\ mode \in [Steppers -> {"full", "edge", "avr"}]
    BY Zenon, MotorsAssumption DEF Step!Init, Step!StepAssumption
  <2>5. count \in [Steppers -> Nat] /\ position \in [Steppers -> Nat] /\ taken \in [Steppers -> Int]
    BY <2>3, StepConstants DEF Step!Init
  <2>6. s_mq \in [Steppers -> Seq(Step!Move)] /\ s_cmd = <<>> /\ s_shutdown \in BOOLEAN
        /\ queued \in Nat /\ queued <= MaxSteps
    BY Zenon, <2>2, <2>3 DEF Step!Init, Step!None
  <2>7. /\ last_dir \in [Steppers -> BOOLEAN] /\ next_dir \in [Steppers -> BOOLEAN]
        /\ need_reset \in [Steppers -> BOOLEAN] /\ active \in [Steppers -> BOOLEAN]
        /\ step_pin \in [Steppers -> BOOLEAN] /\ dir_pin \in [Steppers -> BOOLEAN]
    BY Zenon DEF Step!Init
  <2> QED BY Zenon, <2>1, <2>4, <2>5, <2>6, <2>7 DEF StepTypes
<1>2. TimerInv
  <2>1. \A s \in Steppers : /\ active[s] = FALSE /\ count[s] = 0 /\ s_mq[s] = <<>>
    BY Zenon DEF Step!Init
  <2>2. 0 <= 2 * MaxCount
    BY StepConstants
  <2> QED BY Zenon, <2>1, <2>2 DEF TimerInv
<1>3. ASSUME NEW s \in Steppers PROVE MotionOf(s)
  <2>1. /\ count[s] = 0 /\ position[s] = 4 * Bias - Bias /\ taken[s] = 0 /\ step_pin[s] = FALSE
        /\ dir_pin[s] = FALSE /\ s_mq[s] = <<>> /\ queued = 0 /\ s_cmd = <<>>
    BY Zenon, StepConstants DEF Step!Init, Step!None
  <2>2. CommandSteps(s) = 0
    BY Zenon, <2>1 DEF CommandSteps
  <2>3. Left(mode[s], 0) = 0 /\ Distance(0) = 0
    BY Halves DEF Left, Distance
  <2>4. 4 * Bias - Bias = (IF FALSE THEN 0 + Bias ELSE 4 * Bias - (0 + Bias)) + 0
    BY StepConstants
  <2>5. 0 + 0 + 0 + 0 <= 0 /\ ~(0 % 2 = 1)
    OBVIOUS
  <2>6. Motion(mode[s], 0, 4 * Bias - Bias, 0, FALSE, FALSE, <<>>, 0, 0)
    BY Zenon, <2>3, <2>4, <2>5, AddsUpEmpty DEF Motion
  <2> QED BY Zenon, <2>1, <2>2, <2>6 DEF MotionOf
<1>4. PoolInv
  <2>1. free = Step!move_reset /\ s_cmd = <<>> /\ \A s \in Steppers : s_mq[s] = <<>>
    BY Zenon DEF Step!Init, Step!None
  <2>2. InHand = {}
    BY <2>1 DEF InHand
  <2>3. \A s \in Steppers : Waiting(s_mq[s]) = {} /\ WaitOnce(s_mq[s])
    BY Zenon, <2>1, NoneWaiting
  <2>4. Held(free) = Step!Node /\ Once(free)
    BY Zenon, <2>1, HeldReset
  <2> QED BY Zenon, <2>2, <2>3, <2>4 DEF PoolInv
<1> QED BY Zenon, <1>1, <1>2, <1>3, <1>4 DEF StepInv, MotionInv

\* Every step keeps the invariant.
LEMMA StepStep ==
    ASSUME StepInv, [Step!Next]_(Step!vars)
    PROVE  StepInv'
<1>1. CASE Step!Next
  <2>1. StepTypes'
    BY Zenon, <1>1, TypesStep DEF StepInv
  <2>2. TimerInv'
    BY Zenon, <1>1, <2>1, TimerStep DEF StepInv
  <2>3. \A t \in Steppers : MotionOf(t)'
    BY Zenon, <1>1, <2>1, MotionStep DEF StepInv
  <2>4. PoolInv'
    BY Zenon, <1>1, <2>1, PoolStep DEF StepInv
  <2> QED BY Zenon, <2>1, <2>2, <2>3, <2>4 DEF StepInv, MotionInv
<1>2. CASE UNCHANGED Step!vars
  <2>1. StepTypes'
    BY Zenon, <1>2 DEF StepInv, StepTypes, Step!vars
  <2>2. TimerInv'
    BY Zenon, <1>2 DEF StepInv, TimerInv, Step!vars
  <2>3. MotionInv'
    <3>1. \A s \in Steppers : CommandSteps(s)' = CommandSteps(s)
      BY Zenon, <1>2 DEF CommandSteps, Step!vars
    <3> QED BY Zenon, <1>2, <3>1 DEF StepInv, MotionInv, MotionOf, Step!vars
  <2>4. PoolInv'
    <3>1. UNCHANGED <<free, s_mq, s_cmd>>
      BY Zenon, <1>2 DEF Step!vars
    <3>2. InHand' = InHand
      BY Zenon, <3>1 DEF InHand
    <3> QED BY Zenon, <3>1, <3>2 DEF StepInv, PoolInv
  <2> QED BY Zenon, <2>1, <2>2, <2>3, <2>4 DEF StepInv
<1> QED BY Zenon, <1>1, <1>2

\* The position is exact in every state of the invariant.
LEMMA StepExact ==
    ASSUME StepInv
    PROVE  Step!PositionExact
<1> SUFFICES ASSUME NEW s \in Steppers
             PROVE  Step!stepper_get_position(s) - Bias = taken[s]
  BY Zenon DEF Step!PositionExact
<1>1. Step!stepper_get_position(s) = taken[s] + Bias
  BY Zenon, PlaceExact DEF StepInv
<1>2. taken[s] \in Int
  BY Zenon DEF StepInv, StepTypes
<1> QED BY <1>1, <1>2, StepConstants

\* The pool is accounted for in every state of the invariant.
LEMMA PoolExact ==
    ASSUME StepInv
    PROVE  Step!PoolConserved
<1> SUFFICES ASSUME NEW n \in Step!Node
             PROVE  \E p \in Step!Places(n) : Step!Places(n) = {p}
  BY Zenon DEF Step!PoolConserved
<1> DEFINE A == {<<"free", i>> : i \in {j \in 1..Len(free) : free[j] = n}}
           B == UNION {{<<s, i>> : i \in {j \in 1..Len(s_mq[s]) : s_mq[s][j].node = n}} :
                          s \in Steppers}
           C == {<<"cmd", i>> : i \in {j \in 1..Len(s_cmd) : s_cmd[j].node = n}}
<1>1. Step!Places(n) = A \union B \union C
  BY Zenon DEF Step!Places
<1>2. n \notin Held(free) => A = {}
  BY Zenon DEF Held
<1>3. (\A s \in Steppers : n \notin Waiting(s_mq[s])) => B = {}
  BY Zenon DEF Waiting
<1>4. n \notin InHand => C = {}
  BY Zenon DEF InHand
<1>5. PoolInv /\ StepTypes
  BY Zenon DEF StepInv
<1>6. CASE n \in Held(free)
  <2>1. PICK i \in 1..Len(free) : free[i] = n
    BY Zenon, <1>6 DEF Held
  <2>2. \A j \in 1..Len(free) : free[j] = n => j = i
    BY Zenon, <1>5, <2>1 DEF PoolInv, Once
  <2>3. <<"free", i>> \in A /\ \A y \in A : y = <<"free", i>>
    BY Zenon, <2>1, <2>2
  <2>4. B = {} /\ C = {}
    <3>1. n \notin InHand /\ \A s \in Steppers : n \notin Waiting(s_mq[s])
      BY Zenon, <1>5, <1>6 DEF PoolInv
    <3> QED BY Zenon, <1>3, <1>4, <3>1
  <2> HIDE DEF A, B, C
  <2>5. Step!Places(n) = A
    BY Zenon, <1>1, <2>4
  <2> QED BY Zenon, <2>3, <2>5
<1>7. CASE n \in InHand
  <2>1. s_cmd # <<>> /\ n = s_cmd[1].node /\ Len(s_cmd) = 1
    BY Zenon, <1>5, <1>7, InHandIs DEF StepTypes
  <2>2. \A j : j \in 1..Len(s_cmd) <=> j = 1
    BY <2>1
  <2>3. <<"cmd", 1>> \in C /\ \A y \in C : y = <<"cmd", 1>>
    BY Zenon, <2>1, <2>2
  <2>4. A = {} /\ B = {}
    <3>1. n \notin Held(free) /\ \A s \in Steppers : n \notin Waiting(s_mq[s])
      BY Zenon, <1>5, <1>7 DEF PoolInv
    <3> QED BY Zenon, <1>2, <1>3, <3>1
  <2> HIDE DEF A, B, C
  <2>5. Step!Places(n) = C
    BY Zenon, <1>1, <2>4
  <2> QED BY Zenon, <2>3, <2>5
<1>8. ASSUME NEW s \in Steppers, n \in Waiting(s_mq[s])
      PROVE  \E p \in Step!Places(n) : Step!Places(n) = {p}
  <2>1. PICK i \in 1..Len(s_mq[s]) : s_mq[s][i].node = n
    BY Zenon, <1>8 DEF Waiting
  <2>2. \A t \in Steppers : \A j \in 1..Len(s_mq[t]) : s_mq[t][j].node = n => t = s /\ j = i
    <3> SUFFICES ASSUME NEW t \in Steppers, NEW j \in 1..Len(s_mq[t]), s_mq[t][j].node = n
                 PROVE  t = s /\ j = i
      BY Zenon
    <3>1. n \in Waiting(s_mq[t])
      BY Zenon DEF Waiting
    <3>2. t = s
      BY Zenon, <1>5, <1>8, <3>1 DEF PoolInv
    <3> QED BY Zenon, <1>5, <2>1, <3>2 DEF PoolInv, WaitOnce
  <2>3. <<s, i>> \in B /\ \A y \in B : y = <<s, i>>
    BY <2>1, <2>2
  <2>4. A = {} /\ C = {}
    <3>1. n \notin Held(free) /\ n \notin InHand
      BY Zenon, <1>5, <1>8 DEF PoolInv
    <3> QED BY Zenon, <1>2, <1>4, <3>1
  <2> HIDE DEF A, B, C
  <2>5. Step!Places(n) = B
    BY Zenon, <1>1, <2>4
  <2> QED BY Zenon, <2>3, <2>5
<1> QED BY Zenon, <1>5, <1>6, <1>7, <1>8 DEF PoolInv

\* The types, and the timer that runs exactly while a move is under way.
LEMMA StepTyped ==
    ASSUME StepInv
    PROVE  Step!TypeOK /\ Step!TimerMatchesCount
<1>1. StepTypes /\ TimerInv /\ MotionInv
  BY Zenon DEF StepInv
<1>2. position \in [Steppers -> 0..(Step!PosMod - 1)]
  <2>1. ASSUME NEW s \in Steppers PROVE position[s] \in 0..(Step!PosMod - 1)
    <3>1. Motion(mode[s], count[s], position[s], taken[s], step_pin[s], dir_pin[s], s_mq[s],
                 CommandSteps(s), queued)
      BY Zenon, <1>1 DEF MotionInv, MotionOf
    <3>2. position[s] \in 0..(4 * Bias - 1)
      BY Zenon, <1>1, <3>1, StepperTypes, MotionBounds
    <3> QED BY Zenon, <3>2, StepConstants
  <2> QED BY Zenon, <1>1, <2>1 DEF StepTypes
<1>3. count \in [Steppers -> 0..2 * MaxCount]
  <2>1. ASSUME NEW s \in Steppers PROVE count[s] \in 0..2 * MaxCount
    BY <1>1, StepConstants DEF StepTypes, TimerInv
  <2> QED BY Zenon, <1>1, <2>1 DEF StepTypes
<1>4. Step!TypeOK
  BY Zenon, <1>1, <1>2, <1>3 DEF Step!TypeOK, StepTypes
<1> QED BY Zenon, <1>1, <1>4 DEF Step!TimerMatchesCount, TimerInv

\* A stepper that waits for its clock to be reset does not step.
LEMMA StoppedStep ==
    ASSUME StepInv, [Step!Next]_(Step!vars), NEW s \in Steppers, need_reset[s]
    PROVE  taken'[s] = taken[s]
<1>1. StepTypes /\ TimerInv
  BY Zenon DEF StepInv
<1>2. CASE UNCHANGED Step!vars
  BY Zenon, <1>2 DEF Step!vars
<1>3. ASSUME NEW t \in Steppers, Event(t)
      PROVE  taken'[s] = taken[s]
  <2>1. t # s
    BY Zenon, <1>1, <1>3 DEF Event, TimerInv
  <2> QED BY Zenon, <1>1, <1>3, <2>1 DEF Event, StepTypes
<1>4. CASE taken' = taken
  BY Zenon, <1>4
<1>5. CASE Step!Next
  <2>1. Step!run_shutdown => taken' = taken
    BY Zenon DEF Step!run_shutdown
  <2>2. Quiet => taken' = taken
    BY Zenon DEF Quiet
  <2>3. \A t \in Steppers, m \in Step!Move : PushMove(t, m) => taken' = taken
    BY Zenon DEF PushMove
  <2>4. \A t \in Steppers, c \in 0..MaxCount : TakeMove(t, c) => taken' = taken
    BY Zenon DEF TakeMove
  <2>5. \A t \in Steppers : Step!stepper_stop(t) => taken' = taken
    BY Zenon DEF Step!stepper_stop
  <2> QED BY Zenon, <1>1, <1>3, <1>4, <1>5, <2>1, <2>2, <2>3, <2>4, <2>5, StepCases
<1> QED BY Zenon, <1>2, <1>5

-----------------------------------------------------------------------------
\* An end stop triggers exactly when it should, for every number and distance of
\* samples whose series fits between two attempts: endstop_oversample_event() calls
\* trsync_do_trigger() only after sample_count matching samples in a row, the trigger
\* time that home_wait() computes is that of the first of them, and a closed switch is
\* noticed in time.
THEOREM TriggerSafe == Stop!Spec => []TriggerExact
BY StopInit, StopStep, StopExact, PTL DEF Stop!Spec

\* The invariant of the steppers.
LEMMA StepperInvariant == Step!Spec => []StepInv
BY StepInit, StepStep, PTL DEF Step!Spec

\* The position stepper_get_position() reports is the number of steps taken, for every
\* number of steppers, mode, bias and sequence of moves, reversals and stops.
THEOREM PositionSafe == Step!Spec => []PositionExact
<1>1. StepInv => PositionExact
  BY Zenon, StepExact DEF PositionExact
<1> QED BY <1>1, StepperInvariant, PTL

\* No move of the pool is lost, queued twice or freed twice, for every size of the pool and
\* number of steppers, although stepper_load_next() frees moves while
\* command_queue_step() holds one that it has not queued; and the timer runs exactly while
\* a move is under way.
THEOREM MovesSafe == Step!Spec => []MovesAccounted
<1>1. StepInv => MovesAccounted
  BY Zenon, StepTyped, PoolExact DEF MovesAccounted
<1> QED BY <1>1, StepperInvariant, PTL

\* A stepper that stepper_stop() stopped takes no step until its clock is reset.
THEOREM StoppedSafe == Step!Spec => StoppedStays
<1>1. StepInv /\ [Step!Next]_(Step!vars)
        => [\A s \in Steppers : need_reset[s] /\ need_reset'[s] => taken'[s] = taken[s]]_(Step!vars)
  BY Zenon, StoppedStep
<1> QED BY <1>1, StepperInvariant, PTL DEF Step!Spec, StoppedStays, Step!StoppedStays
=============================================================================
