----------------------------- MODULE MCProgress -----------------------------
(***************************************************************************)
(* What must happen in the end: woken tasks are run, requests to the       *)
(* reactor are served, changes of buttons reach the host.  The three loops *)
(* are independent, so each is checked by itself: in a behaviour only the  *)
(* one that `loop` names moves.                                            *)
(***************************************************************************)
EXTENDS TaskLoop, Integers, Sequences

VARIABLES
    loop,
    \* Reactor
    r_wake, timers, next_timer, phase, scan, g_dispatch, cache, fresh, runs, r_pc,
    is_locked, next_pending, queue, waiting, thread, async_queue, pipe,
    \* Buttons
    pressed, last_pressed, reports, ack_count, retransmit_state, b_wake, sending, up, down,
    host_ack_count, async, last_button, made, seen, dropped, lost

reactorVars ==
    <<r_wake, timers, next_timer, phase, scan, g_dispatch, cache, fresh, runs, r_pc,
      is_locked, next_pending, queue, waiting, thread, async_queue, pipe>>
buttonsVars ==
    <<pressed, last_pressed, reports, ack_count, retransmit_state, b_wake, sending, up, down,
      host_ack_count, async, last_button, made, seen, dropped, lost>>

Users == {1, 2, 3}
Pins == {1}

React == INSTANCE Reactor
    WITH Greenlets <- {11, 12, 13, 14}, Waits <- {1, 3}, Awaited <- 2,
         wake <- r_wake, pc <- r_pc

But == INSTANCE Buttons
    WITH invert <- {1}, Size <- 2, CountMod <- 5, retransmit_count <- 1, Reports <- 3,
         Cap <- 2, MaxLoss <- 1, wake <- b_wake

ASSUME ProgressAssumption == React!ReactorAssumption /\ But!ButtonsAssumption

ProgressInit ==
    /\ loop \in {"tasks", "reactor", "buttons"}
    /\ Init /\ React!Init /\ But!Init

ProgressNext ==
    \/ loop = "tasks" /\ Next /\ UNCHANGED <<loop, reactorVars, buttonsVars>>
    \/ loop = "reactor" /\ React!Next /\ UNCHANGED <<loop, vars, buttonsVars>>
    \/ loop = "buttons" /\ But!Next /\ UNCHANGED <<loop, vars, reactorVars>>

\* The fairness of each module, for the loop that moves.
ProgressFairness ==
    /\ WF_vars(loop = "tasks" /\ MainLoop)
    /\ WF_vars(loop = "tasks" /\ periodic_event)
    /\ WF_reactorVars(loop = "reactor" /\ React!Dispatch)
    /\ WF_reactorVars(loop = "reactor" /\ React!time_passes)
    /\ \A u \in Users : WF_reactorVars(loop = "reactor" /\ React!write(u))
    /\ WF_buttonsVars(loop = "buttons" /\ \E status \in SUBSET Pins : But!buttons_event(status))
    /\ WF_buttonsVars(loop = "buttons" /\ (But!buttons_task \/ But!buttons_task_send))
    /\ WF_buttonsVars(loop = "buttons" /\ But!command_buttons_ack)
    /\ WF_buttonsVars(loop = "buttons" /\ But!handle_buttons_state)
    /\ WF_buttonsVars(loop = "buttons" /\ But!handle_button)

ProgressSpec ==
    /\ ProgressInit
    /\ [][ProgressNext]_<<loop, vars, reactorVars, buttonsVars>>
    /\ ProgressFairness

-----------------------------------------------------------------------------
\* No two callbacks hold the mutex of the reactor, and it is locked while one does;
\* _check_timers() never makes the reactor sleep past a timer, whatever callbacks and
\* greenlets change while it looks at the timers; and no greenlet is lost, or used for
\* two things.
ReactorSafe == React!MutexExclusive /\ React!NoLostTimer /\ React!GreenletsAccounted

\* Every request of another thread is carried out to its end: no wake-up is lost
\* between the queue and the pipe, in the mutex or in a completion.
AllServed == React!AllServed

\* The host gets to know every change of the buttons, whatever responses are lost.
EventuallySeen == But!EventuallySeen
=============================================================================
