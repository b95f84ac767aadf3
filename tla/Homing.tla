-------------------------------- MODULE Homing ------------------------------
(***************************************************************************)
(* The host's side of a homing move: MCU_endstop and MCU_trsync of         *)
(* klippy/mcu.py, the fast readers of klippy/chelper/trdispatch.c, and the *)
(* trsync objects of src/trsync.c they talk to.  Time is abstract here: a  *)
(* timeout may expire, and a report may be sent, at any time (Trsync has   *)
(* the times).  Links deliver in order, and may lose reports.              *)
(***************************************************************************)
EXTENDS Integers, Sequences

CONSTANTS
    Mcus,       \* the micro-controllers that have steppers of the move
    E,          \* the one the end stop is connected to
    Retries,    \* how often get_response() asks again: 5 in the code
    Rounds,     \* bound of the model: homing moves
    Cap,        \* bound of the model: messages on their way to the Python thread
    MaxLoss     \* bound of the model: reports lost

VARIABLES
    ts,         \* the trsync of each micro-controller
    moving,     \* is the stepper stepping?
    endstop,    \* is the end stop being sampled?
    down, up,   \* commands and reports under way
    td,         \* can_trigger of struct trdispatch
    reader,     \* is the fast reader handle_trsync_state() registered?
    pull,       \* messages that wait for the Python thread of the link
    handler,    \* who is registered for trsync_state: nobody, "move" or "query"
    waiting,    \* is _trigger_completion of the MCU_trsync set?
    end,        \* is _home_end_clock set?
    over,       \* has the time of _home_end_clock passed?
    hpc,        \* where homing_move() is
    completed,  \* the completion home_wait() waits for
    query,      \* <<micro-controller, last_params, retries>> in get_response()
    res,        \* what trsync.stop() returned
    round, lost

mcuVars == <<ts, moving, endstop>>
pyVars == <<handler, waiting, end, completed, query, res>>
vars == <<mcuVars, down, up, td, reader, pull, pyVars, over, hpc, round, lost>>

ASSUME HomingAssumption == E \in Mcus /\ Retries \in Nat /\ Cap \in Nat \ {0}

Reason == {"none", "hit", "timeout", "host", "past"}
Report(can, reason, late) == [can |-> can, reason |-> reason, late |-> late]
Ack == Report(FALSE, "ack", FALSE)
Nobody == <<>>
Cleared == [can |-> FALSE, timers |-> FALSE, reason |-> "none"]

Init ==
    /\ ts = [m \in Mcus |-> Cleared]
    /\ moving = [m \in Mcus |-> FALSE]
    /\ endstop = FALSE
    /\ down = [m \in Mcus |-> <<>>] /\ up = [m \in Mcus |-> <<>>]
    /\ td = FALSE
    /\ reader = [m \in Mcus |-> FALSE]
    /\ pull = [m \in Mcus |-> <<>>]
    /\ handler = [m \in Mcus |-> "nobody"] /\ waiting = [m \in Mcus |-> FALSE]
    /\ end = FALSE /\ over = FALSE
    /\ hpc = "idle"
    /\ completed = FALSE
    /\ query = Nobody
    /\ res = [m \in Mcus |-> "none"]
    /\ round = 0 /\ lost = 0

-----------------------------------------------------------------------------
\* trsync_do_trigger(), and the stepper its signal stops
Trigger(m, reason, timers) ==
    /\ ts' = [ts EXCEPT ![m] = [can |-> FALSE, timers |-> timers,
                                reason |-> IF @.can THEN reason ELSE @.reason]]
    /\ moving' = [moving EXCEPT ![m] = @ /\ ~ts[m].can]

\* trsync_expire_event()
trsync_expire_event(m) ==
    /\ ts[m].can
    /\ Trigger(m, "timeout", TRUE)
    /\ UNCHANGED <<endstop, down, up, td, reader, pull, pyVars, over, hpc, round, lost>>

\* endstop_oversample_event() has seen the end stop triggered often enough.
endstop_trigger ==
    /\ endstop
    /\ endstop' = FALSE
    /\ Trigger(E, "hit", ts[E].timers)
    /\ UNCHANGED <<down, up, td, reader, pull, pyVars, over, hpc, round, lost>>

\* trsync_report_event() and trsync_task().  The report timer runs until a
\* trsync_trigger is executed.
trsync_task(m) ==
    /\ ts[m].timers
    /\ Len(up[m]) + Len(pull[m]) < Cap
    /\ up' = [up EXCEPT ![m] = Append(@, Report(ts[m].can, ts[m].reason, over))]
    /\ UNCHANGED <<mcuVars, down, td, reader, pull, pyVars, over, hpc, round, lost>>

Execute(m, c) ==
    /\ down[m] # <<>> /\ Head(down[m]) \in c
    /\ down' = [down EXCEPT ![m] = Tail(@)]
    /\ UNCHANGED <<td, reader, pull, pyVars, over, hpc, round, lost>>

\* command_endstop_home() with sample_count 0
command_endstop_home(m) ==
    /\ Execute(m, {"endstop"})
    /\ endstop' = FALSE
    /\ UNCHANGED <<ts, moving, up>>

\* What a trsync_trigger is answered with: the ack of a query follows its answer.
Answered(c, answer) == IF c = "query" THEN <<answer, Ack>> ELSE <<answer>>

\* command_trsync_trigger(): sent by handle_trsync_state() ("host"), by
\* _handle_trsync_state() ("past") or by stop() ("query").
command_trsync_trigger(m) ==
    LET c == Head(down[m])
        reason == IF c = "past" THEN "past" ELSE "host"
        answer == Report(FALSE, IF ts[m].can THEN reason ELSE ts[m].reason, FALSE)
    IN  /\ Execute(m, {"host", "past", "query"})
        /\ Trigger(m, reason, FALSE)
        /\ up' = [up EXCEPT ![m] = @ \o Answered(c, answer)]
        /\ UNCHANGED endstop

-----------------------------------------------------------------------------
\* A message arrives at the host: the thread of the link queues it for the Python
\* thread, and handle_trsync_state() tells all to trigger at the first report of a
\* trigger.
receive(m) ==
    LET msg == Head(up[m])
        first == reader[m] /\ td /\ ~msg.can /\ msg # Ack
    IN  /\ up[m] # <<>>
        /\ up' = [up EXCEPT ![m] = Tail(@)]
        /\ pull' = [pull EXCEPT ![m] = Append(@, msg)]
        /\ td' = (td /\ ~first)
        /\ down' = IF first THEN [k \in Mcus |-> Append(down[k], "host")] ELSE down
        /\ UNCHANGED <<mcuVars, reader, pyVars, over, hpc, round, lost>>

\* A report is damaged on its way.
lose(m) ==
    /\ lost < MaxLoss
    /\ up[m] # <<>> /\ Head(up[m]) # Ack
    /\ up' = [up EXCEPT ![m] = Tail(@)]
    /\ lost' = lost + 1
    /\ UNCHANGED <<mcuVars, down, td, reader, pull, pyVars, over, hpc, round>>

-----------------------------------------------------------------------------
\* The Python thread of the link takes a message and calls what is registered.
Pull(m) ==
    /\ pull[m] # <<>>
    /\ pull' = [pull EXCEPT ![m] = Tail(@)]
    /\ UNCHANGED <<mcuVars, up, td, reader, over, round, lost>>

\* Mutant: the end of the move is looked at only after a trigger.
PastEnd_Triggered(m, msg) == m = E /\ end /\ ~msg.can /\ msg.late

\* _handle_trsync_state(): the trsync of the end stop is past the end of the move.
PastEnd(m, msg) == m = E /\ end /\ msg.can /\ msg.late

\* MCU_trsync._handle_trsync_state()
handle_trsync_state(m) ==
    LET msg == Head(pull[m])
        past == PastEnd(m, msg)
    IN  /\ Pull(m)
        /\ msg # Ack /\ handler[m] = "move"
        /\ waiting' = [waiting EXCEPT ![m] = @ /\ msg.can]
        /\ completed' = (completed \/ (waiting[m] /\ ~msg.can))
        /\ end' = (end /\ ~past)
        /\ down' = IF past THEN [down EXCEPT ![m] = Append(@, "past")] ELSE down
        /\ UNCHANGED <<handler, query, res, hpc>>

\* Mutant: the first message is taken for the answer.
last_params_First(old, new) == IF old = "none yet" THEN new ELSE old

\* handle_callback(): the last message counts.
last_params(old, new) == new

\* SerialRetryCommand.handle_callback()
handle_callback(m) ==
    /\ Pull(m)
    /\ Head(pull[m]) # Ack /\ handler[m] = "query"
    /\ query' = [query EXCEPT ![2] = last_params(@, Head(pull[m]).reason)]
    /\ UNCHANGED <<down, handler, waiting, end, completed, res, hpc>>

\* get_response(): params is None
NoAnswer(q) == q[2] = "none yet"

\* SerialRetryCommand.get_response() wakes up when its command is acknowledged.
\* Without an answer it asks again, until it gives up with an error.
get_response(m) ==
    /\ Pull(m)
    /\ Head(pull[m]) = Ack
    /\ \/ /\ NoAnswer(query) /\ query[3] > 0
          /\ down' = [down EXCEPT ![m] = Append(@, "query")]
          /\ query' = [query EXCEPT ![3] = @ - 1]
          /\ UNCHANGED <<handler, res, hpc>>
       \/ /\ NoAnswer(query) /\ query[3] = 0
          /\ handler' = [handler EXCEPT ![m] = "nobody"]
          /\ query' = Nobody
          /\ hpc' = "error"
          /\ UNCHANGED <<down, res>>
       \/ /\ ~NoAnswer(query)
          /\ handler' = [handler EXCEPT ![m] = "nobody"]
          /\ query' = Nobody
          /\ res' = [res EXCEPT ![m] = query[2]]
          /\ UNCHANGED <<down, hpc>>
    /\ UNCHANGED <<waiting, end, completed>>

-----------------------------------------------------------------------------
\* MCU_endstop.home_start(), and command_trsync_start(),
\* command_stepper_stop_on_trigger(), command_trsync_set_timeout() and
\* command_endstop_home(), which are executed well before the time they name.
home_start ==
    /\ hpc \in {"idle", "done"} /\ round < Rounds
    /\ round' = round + 1
    /\ ts' = [m \in Mcus |-> [can |-> TRUE, timers |-> TRUE, reason |-> "none"]]
    /\ moving' = [m \in Mcus |-> TRUE]
    /\ endstop' = TRUE
    /\ td' = TRUE
    /\ reader' = [m \in Mcus |-> TRUE]
    /\ handler' = [m \in Mcus |-> "move"] /\ waiting' = [m \in Mcus |-> TRUE]
    /\ end' = FALSE /\ over' = FALSE
    /\ completed' = FALSE
    /\ res' = [m \in Mcus |-> "none"]
    /\ hpc' = "move"
    /\ UNCHANGED <<down, up, pull, query, lost>>

\* MCU_endstop.home_wait(), set_home_end_time(): the whole move is planned, or
\* drip_move() was interrupted.
home_wait ==
    /\ hpc = "move"
    /\ end' = TRUE
    /\ hpc' = "wait"
    /\ UNCHANGED <<mcuVars, down, up, td, reader, pull, handler, waiting, completed, query, res,
                   over, round, lost>>

\* The time of the end of the move passes.
move_end ==
    /\ hpc = "wait" /\ ~over
    /\ over' = TRUE
    /\ UNCHANGED <<mcuVars, down, up, td, reader, pull, pyVars, hpc, round, lost>>

\* Mutant: the end stop is not disabled.
home_wait_completed_Sampling ==
    /\ hpc = "wait" /\ completed
    /\ hpc' = "stop"
    /\ UNCHANGED <<mcuVars, down, up, td, reader, pull, pyVars, over, round, lost>>

\* home_wait(): the end stop is disabled, trdispatch_stop()
home_wait_completed ==
    /\ hpc = "wait" /\ completed
    /\ down' = [down EXCEPT ![E] = Append(@, "endstop")]
    /\ hpc' = "stop"
    /\ UNCHANGED <<mcuVars, up, td, reader, pull, pyVars, over, round, lost>>

\* trdispatch_stop(): serialqueue_rm_fastreader()
rm_fastreader(m) ==
    /\ hpc = "stop" /\ reader[m]
    /\ reader' = [reader EXCEPT ![m] = FALSE]
    /\ UNCHANGED <<mcuVars, down, up, td, pull, pyVars, over, hpc, round, lost>>

\* MCU_trsync.stop(), one after the other, that of the end stop first
stop(m) ==
    /\ hpc = "stop" /\ \A k \in Mcus : ~reader[k]
    /\ query = Nobody /\ handler[m] = "move"
    /\ m = E \/ handler[E] # "move"
    /\ handler' = [handler EXCEPT ![m] = "query"]
    /\ waiting' = [waiting EXCEPT ![m] = FALSE]
    /\ query' = <<m, "none yet", Retries>>
    /\ down' = [down EXCEPT ![m] = Append(@, "query")]
    /\ UNCHANGED <<mcuVars, up, td, reader, pull, end, completed, res, over, hpc, round, lost>>

\* home_wait() returns.
home_done ==
    /\ hpc = "stop" /\ query = Nobody /\ \A m \in Mcus : handler[m] = "nobody"
    /\ hpc' = "done"
    /\ UNCHANGED <<mcuVars, down, up, td, reader, pull, pyVars, over, round, lost>>

CommandStep(m) == command_endstop_home(m) \/ command_trsync_trigger(m)

PythonStep(m) ==
    \/ handle_trsync_state(m) \/ handle_callback(m) \/ get_response(m)

MainStep ==
    \/ home_wait \/ home_wait_completed \/ home_done
    \/ \E m \in Mcus : rm_fastreader(m) \/ stop(m)

Next ==
    \/ home_start \/ MainStep \/ move_end \/ endstop_trigger
    \/ \E m \in Mcus : \/ trsync_expire_event(m) \/ trsync_task(m) \/ CommandStep(m)
                      \/ receive(m) \/ lose(m) \/ PythonStep(m)

Spec == Init /\ [][Next]_vars

\* The main thread of the host, the threads of the links, the task loop of each
\* micro-controller and its report timer go on, and time passes.  A timeout is
\* bound to expire if another micro-controller no longer reports, since its
\* reports are what extends it.
Silent(m) == \E k \in Mcus \ {m} : ~ts[k].timers

Fairness ==
    /\ WF_vars(MainStep) /\ WF_vars(move_end)
    /\ \A m \in Mcus :
          /\ WF_vars(trsync_task(m)) /\ WF_vars(CommandStep(m))
          /\ WF_vars(Silent(m) /\ trsync_expire_event(m))
          /\ WF_vars(receive(m)) /\ WF_vars(PythonStep(m))

FairSpec == Spec /\ Fairness

-----------------------------------------------------------------------------
TypeOK ==
    /\ ts \in [Mcus -> [can : BOOLEAN, timers : BOOLEAN, reason : Reason]]
    /\ moving \in [Mcus -> BOOLEAN] /\ endstop \in BOOLEAN
    /\ handler \in [Mcus -> {"nobody", "move", "query"}]
    /\ query = Nobody \/ (query[1] \in Mcus /\ query[3] \in 0..Retries)
    /\ res \in [Mcus -> Reason]

\* When home_wait() returns nothing of the move is left: no stepper moves, no
\* trsync can trigger or report, the end stop is not sampled, and no command or
\* report that the next move could take for its own is still under way.  And no
\* report comes once nobody waits for one any more.
CleanAfterwards ==
    /\ TypeOK
    /\ hpc = "done" =>
          /\ \A m \in Mcus : /\ ~moving[m] /\ ~ts[m].can /\ ~ts[m].timers
                             /\ down[m] = <<>> /\ up[m] = <<>> /\ pull[m] = <<>>
          /\ ~endstop
    /\ hpc = "stop" =>
          \A m \in Mcus : handler[m] = "nobody" => up[m] = <<>> /\ pull[m] = <<>>

\* home_wait() returns what happened, if no report was lost.
ResultIsReal ==
    hpc = "done" /\ lost = 0 => \A m \in Mcus : res[m] = ts[m].reason

\* The homing move comes to an end.
HomingEnds == hpc = "move" ~> hpc \in {"done", "error"}
=============================================================================
