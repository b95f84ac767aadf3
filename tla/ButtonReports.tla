---------------------------- MODULE ButtonReports ---------------------------
(***************************************************************************)
(* A group of buttons of the micro-controller, and the host's end of it.   *)
(***************************************************************************)
EXTENDS Integers, Sequences

CONSTANTS Pins, Reports, invert, Size, CountMod, retransmit_count, Cap, MaxLoss

VARIABLES
    pressed, last_pressed, reports, ack_count, retransmit_state, b_wake, sending, up, down,
    host_ack_count, async, last_button, made, seen, dropped, lost

buttonsVars ==
    <<pressed, last_pressed, reports, ack_count, retransmit_state, b_wake, sending, up, down,
      host_ack_count, async, last_button, made, seen, dropped, lost>>

But == INSTANCE Buttons WITH wake <- b_wake

ASSUME ReportsAssumption == But!ButtonsAssumption

-----------------------------------------------------------------------------
\* The host handles each report of buttons.c once and in order, whatever is lost,
\* sent again or acknowledged late; the micro-controller keeps every report the host
\* does not have yet; and the host that has handled all has the state of the buttons,
\* unless the full array of buttons_event() dropped a change.
ReportsExact == But!SeenOnceInOrder /\ But!NothingForgotten /\ But!StateKnown
=============================================================================
