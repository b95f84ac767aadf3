-------------------------------- MODULE Buttons -----------------------------
(***************************************************************************)
(* Button reports: buttons.c on the micro-controller debounces the pins    *)
(* and keeps each change until the host acknowledges it, and               *)
(* klippy/extras/buttons.py on the host finds out what is new in a message *)
(* that may repeat what it has seen.                                       *)
(*                                                                         *)
(* Responses to the host may be lost; acknowledgements are commands, which *)
(* the link delivers in order (see SerialLink).                            *)
(***************************************************************************)
EXTENDS Integers, Sequences, FiniteSets

CONSTANTS
    Pins,
    invert,           \* the pins that are inverted
    Size,             \* of the array of reports: 8 in the code
    CountMod,         \* counts of acknowledged reports are modulo this: 256
    retransmit_count, \* RETRANSMIT_COUNT: 50
    Reports,          \* bound of the model: changes of the buttons
    Cap,              \* bound of the model: messages under way
    MaxLoss           \* bound of the model: responses lost

VARIABLES
    pressed, last_pressed, reports, ack_count, retransmit_state,
    wake,             \* buttons_wake
    sending,          \* buttons_task() has seen that a transmission is pending
    up, down,         \* messages to the host, acknowledgements to the micro-controller
    host_ack_count,   \* ack_count of MCU_buttons
    async,            \* callbacks that wait for the main thread
    last_button,
    made, seen,       \* reports made, reports the main thread has handled
    dropped,          \* a change was not reported as the array was full
    lost

mcu == <<pressed, last_pressed, reports, ack_count, retransmit_state, wake, made, dropped>>
host == <<host_ack_count, async, last_button, seen>>
vars == <<mcu, sending, up, down, host, lost>>

ButtonsAssumption ==
    /\ Size \in Nat \ {0} /\ retransmit_count \in Nat
    /\ CountMod \in Nat /\ 2 * Size < CountMod
    /\ invert \subseteq Pins

PENDING == retransmit_count + 1
ACKED == retransmit_count + 2

Xor(a, b) == (a \ b) \cup (b \ a)

\* A report, with a number that tells it from the others
Report(n, state) == [n |-> n, state |-> state]

\* After command_buttons_query()
Init ==
    /\ pressed = invert /\ last_pressed = invert
    /\ reports = <<>> /\ ack_count = 0 /\ retransmit_state = ACKED
    /\ wake = FALSE /\ sending = FALSE
    /\ up = <<>> /\ down = <<>>
    /\ host_ack_count = 0 /\ async = <<>> /\ last_button = {}
    /\ made = 0 /\ seen = <<>> /\ dropped = FALSE /\ lost = 0

-----------------------------------------------------------------------------
\* The pins that were read the same twice
Debounced(status) == Pins \ Xor(status, last_pressed)

\* A pin that differs from what was reported was read so twice.
Changed(status) == Xor(status, pressed) \cap Debounced(status) # {}

PressedAfter(status) == (pressed \ Debounced(status)) \cup (status \cap Debounced(status))

\* What is reported: for pins that were not read twice the same, what they were
Reported(status) == PressedAfter(status)

\* Mutant: the countdown stops at zero.
CountedDown_Stop(s) == IF s = 0 THEN ACKED ELSE s - 1

\* The retransmission timeout: counting down past zero makes it pending.
CountedDown(s) == IF s = 0 THEN PENDING ELSE s - 1

\* The end of buttons_event()
Retransmit(s, w) ==
    IF s <= retransmit_count
    THEN /\ retransmit_state' = CountedDown(s)
         /\ wake' = (w \/ s = 0)
    ELSE /\ retransmit_state' = s
         /\ wake' = w

\* The timer reads the pins.
buttons_event(status) ==
    /\ last_pressed' = status
    /\ IF Changed(status)
       THEN /\ made < Reports \/ Len(reports) = Size
            /\ pressed' = PressedAfter(status)
            /\ IF Len(reports) < Size
               THEN /\ reports' = Append(reports, Report(made + 1, Reported(status)))
                    /\ made' = made + 1
                    /\ Retransmit(PENDING, TRUE)
                    /\ UNCHANGED dropped
               ELSE /\ dropped' = TRUE
                    /\ Retransmit(retransmit_state, wake)
                    /\ UNCHANGED <<reports, made>>
       ELSE /\ Retransmit(retransmit_state, wake)
            /\ UNCHANGED <<pressed, reports, made, dropped>>
    /\ UNCHANGED <<ack_count, sending, up, down, host, lost>>

\* retransmit_state after an acknowledgement: there may be more to send.
StateAfterAck(count) == IF count >= Len(reports) THEN ACKED ELSE retransmit_state

command_buttons_ack ==
    /\ ~sending
    /\ down # <<>>
    /\ down' = Tail(down)
    /\ LET count == Head(down)
       IN  /\ ack_count' = (ack_count + count) % CountMod
           /\ reports' = IF count >= Len(reports) THEN <<>>
                         ELSE SubSeq(reports, count + 1, Len(reports))
           /\ retransmit_state' = StateAfterAck(count)
    /\ UNCHANGED <<pressed, last_pressed, wake, made, dropped, sending, up, host, lost>>

\* buttons_task() is woken, and looks whether something is pending.
buttons_task ==
    /\ ~sending
    /\ wake
    /\ wake' = FALSE
    /\ sending' = (retransmit_state = PENDING)
    /\ UNCHANGED <<pressed, last_pressed, reports, ack_count, retransmit_state, made, dropped,
                   up, down, host, lost>>

\* It sends all that is not acknowledged, if there is anything.
buttons_task_send ==
    /\ sending
    /\ sending' = FALSE
    /\ IF reports = <<>> THEN UNCHANGED <<retransmit_state, up>>
       ELSE /\ Len(up) < Cap
            /\ retransmit_state' = retransmit_count
            /\ up' = Append(up, [ack_count |-> ack_count, state |-> reports])
    /\ UNCHANGED <<pressed, last_pressed, reports, ack_count, wake, made, dropped, down, host, lost>>

lose ==
    /\ up # <<>> /\ lost < MaxLoss
    /\ up' = Tail(up) /\ lost' = lost + 1
    /\ UNCHANGED <<mcu, sending, down, host>>

-----------------------------------------------------------------------------
\* How far the count of a message is behind, as a signed number
AckDiff(msg_count) ==
    LET diff == (host_ack_count - msg_count) % CountMod
    IN  IF 2 * diff >= CountMod THEN diff - CountMod ELSE diff

NewCount(msg) == Len(msg.state) - AckDiff(msg.ack_count)

\* Mutant: the whole message is acknowledged.
Acked_All(msg) == Len(msg.state)

\* The count in the acknowledgement
Acked(msg) == NewCount(msg)

\* handle_buttons_state(), in the thread that reads responses.  host_ack_count
\* is unbounded; only its remainder is used.
handle_buttons_state ==
    /\ up # <<>>
    /\ up' = Tail(up)
    /\ LET msg == Head(up)
           new_count == NewCount(msg)
           first == IF new_count < Len(msg.state) THEN Len(msg.state) - new_count + 1 ELSE 1
       IN  IF new_count <= 0 THEN UNCHANGED <<down, host>>
           ELSE /\ Len(down) < Cap
                /\ down' = Append(down, Acked(msg))
                /\ host_ack_count' = (host_ack_count + new_count) % CountMod
                /\ async' = async \o SubSeq(msg.state, first, Len(msg.state))
                /\ UNCHANGED <<last_button, seen>>
    /\ UNCHANGED <<mcu, sending, lost>>

\* handle_button(), in the main thread
handle_button ==
    /\ async # <<>>
    /\ async' = Tail(async)
    /\ last_button' = Xor(Head(async).state, invert)
    /\ seen' = Append(seen, Head(async).n)
    /\ UNCHANGED <<host_ack_count, mcu, sending, up, down, lost>>

Next ==
    \/ \E status \in SUBSET Pins : buttons_event(status)
    \/ command_buttons_ack \/ buttons_task \/ buttons_task_send \/ lose
    \/ handle_buttons_state \/ handle_button

Spec == Init /\ [][Next]_vars

\* The timer runs again and again, and so do the tasks and both threads.
Fairness ==
    /\ WF_vars(\E status \in SUBSET Pins : buttons_event(status))
    /\ WF_vars(buttons_task \/ buttons_task_send)
    /\ WF_vars(command_buttons_ack)
    /\ WF_vars(handle_buttons_state)
    /\ WF_vars(handle_button)

FairSpec == Spec /\ Fairness

-----------------------------------------------------------------------------
\* The host handles every report once and in order, whatever is lost, sent
\* again or acknowledged late.
SeenOnceInOrder == \A k \in 1..Len(seen) : seen[k] = k

\* The micro-controller keeps every report the host does not have yet.
NothingForgotten == made - Len(seen) - Len(async) <= Len(reports)

\* Once the host has handled all reports, it has the state of the buttons,
\* unless a change was dropped.
StateKnown == Len(seen) = made /\ ~dropped => last_button = Xor(pressed, invert)

\* The host gets to know every change of the buttons.
EventuallySeen == \A n \in 1..Reports : made >= n ~> Len(seen) >= n
=============================================================================
