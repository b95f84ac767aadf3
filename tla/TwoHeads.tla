------------------------------- MODULE TwoHeads -----------------------------
(***************************************************************************)
(* The limits of the two print heads of the corexyuv printer: which moves  *)
(* the host accepts, while axes are homed, motors are turned off and       *)
(* homing fails.  docs/klippy holds the host with five axes: G1 and G28    *)
(* with U and V (gcode_move.py, homing.py), toolhead.py and the kinematics *)
(* of corexyuv.py, whose limits klippy/kinematics/corexyuv.py shares.      *)
(*                                                                         *)
(* A coordinate stands for a place along an axis.  Extrusion, speeds and   *)
(* the steps of a homing move (see Homing) are left out.                   *)
(***************************************************************************)
EXTENDS Integers, Sequences

CONSTANTS
    x_max, y_max, z_max, u_max, v_max,  \* position_max of each axis
    MaxCoord                            \* bound of the model: coordinates asked for

VARIABLES
    limits,      \* limits of CoreXYUVKinematics: a list of pairs
    pos,         \* commanded_pos of the toolhead, without the extruder
    pc,          \* "idle", "home" in cmd_G28, or "shutdown"
    todo,        \* axes cmd_G28 has still to home
    referenced   \* axes homed since the motors were last turned off

vars == <<limits, pos, pc, todo, referenced>>

Axes == 1..5  \* X, Y, Z, U, V
position_max == <<x_max, y_max, z_max, u_max, v_max>>
position_min == 0
Coords == 0..MaxCoord

\* What is assumed of the ranges (see HostParts)
TwoHeadsAssumption ==
    /\ MaxCoord \in Nat
    /\ \A i \in Axes : position_max[i] \in Nat \ {0}

\* rail.get_range()
get_range(i) == <<position_min, position_max[i]>>

\* The limits of an axis that is not homed: no position is within them
NotHomed == <<1, -1>>

Outside(c, limit) == c < limit[1] \/ c > limit[2]

Init ==
    /\ limits = [i \in Axes |-> NotHomed]
    /\ pos = [i \in Axes |-> 0]
    /\ pc = "idle" /\ todo = {} /\ referenced = {}

-----------------------------------------------------------------------------
\* Whether _check_endstops() stops at axis i: the list may be too short for it
Refuses(i, newpos) ==
    /\ newpos[i] # pos[i]
    /\ i \notin 1..Len(limits) \/ Outside(newpos[i], limits[i])

\* What _check_endstops() makes of a move, which it looks at axis by axis: an
\* index out of range is an internal error, a position out of limits an error.
_check_endstops(newpos) ==
    IF \A i \in Axes : ~Refuses(i, newpos) THEN "ok"
    ELSE LET i == CHOOSE j \in Axes : Refuses(j, newpos) /\ \A k \in 1..(j - 1) : ~Refuses(k, newpos)
         IN  IF i \in 1..Len(limits) THEN "error" ELSE "shutdown"

\* When check_move() looks at the limits of all axes
NeedCheck(newpos) ==
    \/ Outside(newpos[1], limits[1]) \/ Outside(newpos[2], limits[2])
    \/ Outside(newpos[4], limits[1]) \/ Outside(newpos[5], limits[2])
    \/ newpos[3] # pos[3]

check_move(newpos) == IF NeedCheck(newpos) THEN _check_endstops(newpos) ELSE "ok"

\* G1: the toolhead takes the move, or the command fails, or the printer shuts
\* down because of the internal error.
cmd_G1(newpos) ==
    /\ pc = "idle"
    /\ newpos # pos
    /\ \/ check_move(newpos) = "ok" /\ pos' = newpos /\ pc' = pc
       \/ check_move(newpos) = "error" /\ UNCHANGED <<pos, pc>>
       \/ check_move(newpos) = "shutdown" /\ pc' = "shutdown" /\ UNCHANGED pos
    /\ UNCHANGED <<limits, todo, referenced>>

\* _motor_off(), as an effect of the event of stepper_enable.py
MotorsOff ==
    /\ limits' = [i \in 1..3 |-> NotHomed]
    /\ referenced' = {}

\* M84, M18, the end of the idle timeout
cmd_M18 ==
    /\ pc = "idle"
    /\ MotorsOff
    /\ UNCHANGED <<pos, pc, todo>>

\* G28 with some axes, or with none, which are all
cmd_G28(axes) ==
    /\ pc = "idle"
    /\ pc' = "home"
    /\ todo' = axes
    /\ UNCHANGED <<limits, pos, referenced>>

\* The axis home() takes next
NextAxis == CHOOSE i \in todo : \A j \in todo : i <= j

\* home_rails() first gives the axis its limits, in set_position().  The axis
\* ends where the end stop is, or a little further.
home_rails ==
    /\ pc = "home" /\ todo # {}
    /\ NextAxis \in 1..Len(limits)
    /\ limits' = [limits EXCEPT ![NextAxis] = get_range(NextAxis)]
    /\ \E c \in {position_max[NextAxis], position_max[NextAxis] + 1} \cap Coords :
          pos' = [pos EXCEPT ![NextAxis] = c]
    /\ referenced' = referenced \cup {NextAxis}
    /\ todo' = todo \ {NextAxis}
    /\ UNCHANGED pc

\* The list of limits has no place for the axis.
home_rails_index_error ==
    /\ pc = "home" /\ todo # {}
    /\ NextAxis \notin 1..Len(limits)
    /\ pc' = "shutdown"
    /\ UNCHANGED <<limits, pos, todo, referenced>>

\* Mutant: a homing move that fails leaves the motors on.
AfterError_Keep ==
    /\ limits' = [limits EXCEPT ![NextAxis] = get_range(NextAxis)]
    /\ UNCHANGED referenced

\* What cmd_G28() does when a homing move fails
AfterError == MotorsOff

\* The homing move fails: no trigger, a lost connection, a trigger too early.
home_rails_error ==
    /\ pc = "home" /\ todo # {}
    /\ NextAxis \in 1..Len(limits)
    /\ AfterError
    /\ \E c \in Coords : pos' = [pos EXCEPT ![NextAxis] = c]
    /\ pc' = "idle" /\ todo' = {}

home_done ==
    /\ pc = "home" /\ todo = {}
    /\ pc' = "idle"
    /\ UNCHANGED <<limits, pos, todo, referenced>>

Next ==
    \/ \E newpos \in [Axes -> Coords] : cmd_G1(newpos)
    \/ \E axes \in SUBSET Axes \ {{}} : cmd_G28(axes)
    \/ cmd_M18
    \/ home_rails \/ home_rails_index_error \/ home_rails_error \/ home_done

Spec == Init /\ [][Next]_vars

-----------------------------------------------------------------------------
\* What a move that was accepted has moved, and where to
Accepted(i) == pc = "idle" /\ pc' = "idle" /\ limits' = limits /\ pos'[i] # pos[i]
Verified(i) == i \in referenced /\ pos'[i] \in position_min .. position_max[i]

\* A move of the first head or of the bed is accepted only if the axis was
\* homed after the motors were last off, by homing that did not fail, and only
\* to a place between position_min and position_max.
FirstHeadVerified == [][\A i \in 1..3 : Accepted(i) => Verified(i)]_vars

\* The same of every axis, as docs/FAQ.md says of every move
EveryMoveVerified == [][\A i \in Axes : Accepted(i) => Verified(i)]_vars

\* After the motors were turned off axes can be homed again, and until then a
\* move is an error: neither ends in an internal error and a shutdown.
CanHomeAgain == pc # "shutdown"
=============================================================================
