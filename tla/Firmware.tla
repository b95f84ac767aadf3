------------------------------ MODULE Firmware ------------------------------
(***************************************************************************)
(* The objects of the micro-controller side by side: in a behaviour only   *)
(* the object that `object` names moves, and the others stay in their      *)
(* initial state.  In the code they share the pool of moves only; here the *)
(* steppers share one, and each output has its own.                        *)
(***************************************************************************)
EXTENDS MotorsAndEndstops, Outputs, ButtonReports

CONSTANTS Pins2, Reports2      \* several buttons

VARIABLE object     \* the object that moves

\* Several buttons bounce independently; they start in the same state.
But2 == INSTANCE Buttons
    WITH Pins <- Pins2, Reports <- Reports2, wake <- b_wake

ASSUME But2!ButtonsAssumption

-----------------------------------------------------------------------------
Init ==
    /\ object \in {"stepper", "endstop", "digital_out", "pwm_out", "buttons", "two_buttons"}
    /\ Step!Init /\ Stop!Init /\ Out!Init /\ Pwm!Init /\ But!Init
    /\ object # "stepper" => \A s \in Steppers : mode[s] = "full"

Next ==
    \/ /\ object = "stepper" /\ Step!Next
       /\ UNCHANGED <<object, endstopVars, digitalVars, pwmVars, buttonsVars>>
    \/ /\ object = "endstop" /\ Stop!Next
       /\ UNCHANGED <<object, stepperVars, digitalVars, pwmVars, buttonsVars>>
    \/ /\ object = "digital_out" /\ Out!Next
       /\ UNCHANGED <<object, stepperVars, endstopVars, pwmVars, buttonsVars>>
    \/ /\ object = "pwm_out" /\ Pwm!Next
       /\ UNCHANGED <<object, stepperVars, endstopVars, digitalVars, buttonsVars>>
    \/ /\ object = "buttons" /\ But!Next
       /\ UNCHANGED <<object, stepperVars, endstopVars, digitalVars, pwmVars>>
    \/ /\ object = "two_buttons" /\ But2!Next
       /\ UNCHANGED <<object, stepperVars, endstopVars, digitalVars, pwmVars>>

vars == <<object, stepperVars, endstopVars, digitalVars, pwmVars, buttonsVars>>

Spec == Init /\ [][Next]_vars
=============================================================================
