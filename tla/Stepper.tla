------------------------------- MODULE Stepper ------------------------------
(***************************************************************************)
(* The steppers of a micro-controller (src/stepper.c) and the pool of      *)
(* moves they share (src/basecmd.c).  Commands run in the task loop, step  *)
(* events, stops and most shutdowns in interrupts.  Step times are left to *)
(* TimerList: here a stepper whose timer is on the list may step.          *)
(***************************************************************************)
EXTENDS Integers, Sequences

CONSTANTS
    Steppers,   \* the steppers
    Modes,      \* how they are driven: a subset of {"full", "edge", "avr"}
    move_count, \* the number of moves in the pool
    MaxCount,   \* the largest count of a queue_step command: 65535 in the code
    Bias,       \* POSITION_BIAS: 2^30 in the code
    MaxSteps    \* bound of the model: how many steps are queued in all

VARIABLES
    mode,         \* how a stepper is driven
    free,         \* move_free_list
    cmd,          \* the queue_step command that has its move: one or none
    mq,           \* the moves queued for a stepper
    count,        \* the events left of the current move
    position,     \* 32 bits; the top bit says in which direction the stepper goes
    last_dir,     \* SF_LAST_DIR
    next_dir,     \* SF_NEXT_DIR
    need_reset,   \* SF_NEED_RESET
    active,       \* is the stepper's timer on the timer list?
    step_pin,     \* the pins, relative to their idle level
    dir_pin,
    shutdown_status,
    queued,       \* history: the steps queued so far
    taken         \* history: the steps the motor has taken, up minus down

vars == <<mode, free, cmd, mq, count, position, last_dir, next_dir, need_reset,
          active, step_pin, dir_pin, shutdown_status, queued, taken>>

PosMod == 4 * Bias
None == <<>>

StepAssumption ==
    /\ move_count \in Nat /\ MaxCount \in Nat /\ Bias \in Nat \ {0}
    /\ MaxSteps \in Nat /\ MaxSteps < Bias
    /\ Modes \subseteq {"full", "edge", "avr"}

Node == 1..move_count
Move == [node : Node, count : 1..MaxCount, dir : BOOLEAN]

\* move_reset(): all moves, linked in the order of move_list.
move_reset == [i \in Node |-> i]

Init ==
    /\ mode \in [Steppers -> Modes]
    /\ free = move_reset
    /\ cmd = None
    /\ mq = [s \in Steppers |-> <<>>]
    /\ count = [s \in Steppers |-> 0]
    /\ position = [s \in Steppers |-> PosMod - Bias]
    /\ last_dir = [s \in Steppers |-> FALSE]
    /\ next_dir = [s \in Steppers |-> FALSE]
    /\ need_reset = [s \in Steppers |-> FALSE]
    /\ active = [s \in Steppers |-> FALSE]
    /\ step_pin = [s \in Steppers |-> FALSE]
    /\ dir_pin = [s \in Steppers |-> FALSE]
    /\ shutdown_status = FALSE
    /\ queued = 0
    /\ taken = [s \in Steppers |-> 0]

-----------------------------------------------------------------------------
\* stepper_load_next(): all steps of the move are added at once.
Loaded(p, m) == (IF m.dir THEN -p + m.count ELSE p + m.count) % PosMod

\* stepper_load_next() when the queue of s is q: the move goes back to the pool.
stepper_load_next(s, q) ==
    LET m == Head(q)
    IN  /\ mq' = [mq EXCEPT ![s] = Tail(q)]
        /\ count' = [count EXCEPT ![s] = IF mode[s] = "full" THEN 2 * m.count ELSE m.count]
        /\ position' = [position EXCEPT ![s] = Loaded(@, m)]
        /\ dir_pin' = [dir_pin EXCEPT ![s] = @ # m.dir]
        /\ free' = <<m.node>> \o free

\* Mutant: an event that has not been answered by its unstep event counts as a
\* step that is still to be taken.
StepsLeft_RoundUp(s) == IF mode[s] = "full" THEN (count[s] + 1) \div 2 ELSE count[s]

\* stepper_get_position(): the steps of the current move that are not yet taken.
StepsLeft(s) == IF mode[s] = "full" THEN count[s] \div 2 ELSE count[s]

\* stepper_get_position()
stepper_get_position(s) ==
    LET p == (position[s] - StepsLeft(s)) % PosMod
    IN  IF p >= 2 * Bias THEN -p % PosMod ELSE p

-----------------------------------------------------------------------------
\* stepper_stop(): the direction is down again, so the position is negated.
StoppedPosition(s) == -stepper_get_position(s) % PosMod

\* move_free() of each node of a queue, first to last.
Freed(q) == [i \in 1..Len(q) |-> q[Len(q) + 1 - i].node]

\* sched_del_timer() for the steppers in ss.
ActiveAfterStop(ss) == [s \in Steppers |-> active[s] /\ s \notin ss]

\* What stepper_stop() does to the steppers in ss (the queues apart).
Stop(ss) ==
    /\ active' = ActiveAfterStop(ss)
    /\ position' = [s \in Steppers |-> IF s \in ss THEN StoppedPosition(s) ELSE position[s]]
    /\ count' = [s \in Steppers |-> IF s \in ss THEN 0 ELSE count[s]]
    /\ last_dir' = [s \in Steppers |-> last_dir[s] /\ s \notin ss]
    /\ next_dir' = [s \in Steppers |-> next_dir[s] /\ s \notin ss]
    /\ need_reset' = [s \in Steppers |-> need_reset[s] \/ s \in ss]
    /\ dir_pin' = [s \in Steppers |-> dir_pin[s] /\ s \notin ss]
    /\ step_pin' = [s \in Steppers |-> step_pin[s] /\ (s \in ss => mode[s] = "edge")]
    /\ mq' = [s \in Steppers |-> IF s \in ss THEN <<>> ELSE mq[s]]

\* stepper_stop() for a trigger, in an interrupt or in a command.
stepper_stop(s) ==
    /\ Stop({s})
    /\ free' = Freed(mq[s]) \o free
    /\ UNCHANGED <<mode, cmd, shutdown_status, queued, taken>>

\* Mutant: the queues are not cleared, and move_reset() comes first: the moves in
\* the queues are freed once more.
PoolAfterShutdown_Twice == Freed(mq[CHOOSE s \in Steppers : TRUE]) \o move_reset

\* move_reset() frees all moves.  stepper_shutdown() clears the queues before it
\* stops the steppers, so it does not matter which handler comes first.
PoolAfterShutdown == move_reset

\* shutdown(): a command that has its move is abandoned.
run_shutdown ==
    /\ Stop(Steppers)
    /\ free' = PoolAfterShutdown
    /\ cmd' = None
    /\ shutdown_status' = TRUE
    /\ UNCHANGED <<mode, queued, taken>>

-----------------------------------------------------------------------------
\* command_queue_step(), up to where interrupts are disabled: "Move queue overflow"
\* and "Invalid count parameter" shut the micro-controller down.
command_queue_step(s, c) ==
    /\ ~shutdown_status /\ cmd = None
    /\ queued + c <= MaxSteps
    /\ \/ (free = <<>> \/ c = 0) /\ run_shutdown
       \/ /\ free # <<>> /\ c > 0
          /\ cmd' = <<[oid |-> s, node |-> Head(free), count |-> c]>>
          /\ free' = Tail(free)
          /\ queued' = queued + c
          /\ UNCHANGED <<mode, mq, count, position, last_dir, next_dir, need_reset, active,
                         step_pin, dir_pin, shutdown_status, taken>>

\* Mutant: moves are accepted although the stepper was stopped.
Dropped_Never(s) == FALSE

\* Steps that were under way when the stepper was stopped are dropped.
Dropped(s) == count[s] = 0 /\ need_reset[s]

\* The rest of command_queue_step().
queue_step_push ==
    LET s == cmd[1].oid
        m == [node |-> cmd[1].node, count |-> cmd[1].count, dir |-> last_dir[s] # next_dir[s]]
    IN  /\ cmd # None
        /\ \/ /\ Dropped(s)
              /\ free' = <<m.node>> \o free
              /\ UNCHANGED <<mq, count, position, last_dir, active, dir_pin>>
           \/ /\ ~Dropped(s)
              /\ last_dir' = [last_dir EXCEPT ![s] = next_dir[s]]
              /\ \/ /\ count[s] # 0
                    /\ mq' = [mq EXCEPT ![s] = Append(@, m)]
                    /\ UNCHANGED <<free, count, position, active, dir_pin>>
                 \/ /\ count[s] = 0
                    /\ stepper_load_next(s, Append(mq[s], m))
                    /\ active' = [active EXCEPT ![s] = TRUE]
        /\ cmd' = None
        /\ UNCHANGED <<mode, next_dir, need_reset, step_pin, shutdown_status, queued, taken>>

\* command_set_next_step_dir()
command_set_next_step_dir(s, d) ==
    /\ ~shutdown_status /\ cmd = None
    /\ next_dir' = [next_dir EXCEPT ![s] = d]
    /\ UNCHANGED <<mode, free, cmd, mq, count, position, last_dir, need_reset, active,
                   step_pin, dir_pin, shutdown_status, queued, taken>>

\* command_reset_step_clock(): "Can't reset time when stepper active".
command_reset_step_clock(s) ==
    /\ ~shutdown_status /\ cmd = None
    /\ \/ count[s] # 0 /\ run_shutdown
       \/ /\ count[s] = 0
          /\ need_reset' = [need_reset EXCEPT ![s] = FALSE]
          /\ UNCHANGED <<mode, free, cmd, mq, count, position, last_dir, next_dir, active,
                         step_pin, dir_pin, shutdown_status, queued, taken>>

-----------------------------------------------------------------------------
\* The motor makes a step when the step pin leaves its idle level, or, in edge
\* mode, when it changes; the direction pin says which way.
Stepped(s) == [taken EXCEPT ![s] = IF dir_pin[s] THEN @ + 1 ELSE @ - 1]

\* The end of a step event: there are events left, or the next move is loaded, or
\* the stepper is done.
NextEvent(s) ==
    \/ /\ count[s] > 1
       /\ count' = [count EXCEPT ![s] = @ - 1]
       /\ UNCHANGED <<free, mq, position, dir_pin, active>>
    \/ /\ count[s] = 1 /\ mq[s] # <<>>
       /\ stepper_load_next(s, mq[s])
       /\ UNCHANGED active
    \/ /\ count[s] = 1 /\ mq[s] = <<>>
       /\ count' = [count EXCEPT ![s] = 0]
       /\ active' = [active EXCEPT ![s] = FALSE]
       /\ UNCHANGED <<free, mq, position, dir_pin>>

\* stepper_event_full(): a step event or an unstep event.
stepper_event_full(s) ==
    /\ active[s] /\ mode[s] = "full"
    /\ step_pin' = [step_pin EXCEPT ![s] = ~@]
    /\ taken' = IF step_pin[s] THEN taken ELSE Stepped(s)
    /\ NextEvent(s)
    /\ UNCHANGED <<mode, cmd, last_dir, next_dir, need_reset, shutdown_status, queued>>

\* stepper_event_edge(): a step on each edge of the pin.
stepper_event_edge(s) ==
    /\ active[s] /\ mode[s] = "edge"
    /\ step_pin' = [step_pin EXCEPT ![s] = ~@]
    /\ taken' = Stepped(s)
    /\ NextEvent(s)
    /\ UNCHANGED <<mode, cmd, last_dir, next_dir, need_reset, shutdown_status, queued>>

\* stepper_event_avr(): the pin is toggled twice.
stepper_event_avr(s) ==
    /\ active[s] /\ mode[s] = "avr"
    /\ taken' = IF step_pin[s] THEN taken ELSE Stepped(s)
    /\ NextEvent(s)
    /\ UNCHANGED <<mode, cmd, last_dir, next_dir, need_reset, step_pin, shutdown_status, queued>>


-----------------------------------------------------------------------------
\* shutdown() in an interrupt ("Stepper too far in past", "Timer too close") or in
\* any other part.
sched_shutdown == run_shutdown

sched_clear_shutdown ==
    /\ shutdown_status
    /\ shutdown_status' = FALSE
    /\ UNCHANGED <<mode, free, cmd, mq, count, position, last_dir, next_dir, need_reset,
                   active, step_pin, dir_pin, queued, taken>>

Next ==
    \/ queue_step_push \/ sched_shutdown \/ sched_clear_shutdown
    \/ \E s \in Steppers :
          \/ \E c \in 0..MaxCount : command_queue_step(s, c)
          \/ \E d \in BOOLEAN : command_set_next_step_dir(s, d)
          \/ command_reset_step_clock(s) \/ stepper_stop(s)
          \/ stepper_event_full(s) \/ stepper_event_edge(s) \/ stepper_event_avr(s)

Spec == Init /\ [][Next]_vars

-----------------------------------------------------------------------------
TypeOK ==
    /\ mode \in [Steppers -> Modes]
    /\ free \in Seq(Node)
    /\ mq \in [Steppers -> Seq(Move)]
    /\ count \in [Steppers -> 0..2 * MaxCount]
    /\ position \in [Steppers -> 0..PosMod - 1]
    /\ {last_dir, next_dir, need_reset, active, step_pin, dir_pin} \subseteq [Steppers -> BOOLEAN]
    /\ taken \in [Steppers -> Int]

\* The position a query reports is the number of steps the motor has really
\* taken, in the middle of a move, after reversals, and after a stop in the middle
\* of a step pulse.
PositionExact ==
    \A s \in Steppers : stepper_get_position(s) - Bias = taken[s]

\* The places that hold a move: the pool, a queue, the command being executed.
Places(n) ==
    {<<"free", i>> : i \in {j \in 1..Len(free) : free[j] = n}}
        \union (UNION {{<<s, i>> : i \in {j \in 1..Len(mq[s]) : mq[s][j].node = n}} : s \in Steppers})
        \union {<<"cmd", i>> : i \in {j \in 1..Len(cmd) : cmd[j].node = n}}

\* No move is lost and none is in two places.
PoolConserved == \A n \in Node : \E p \in Places(n) : Places(n) = {p}

\* The timer of a stepper is on the timer list exactly while a move is under way,
\* so queue_step never adds a timer that is already on the list.
TimerMatchesCount == \A s \in Steppers : active[s] <=> count[s] # 0

\* A stopped stepper stays where it is, whatever was under way to it, until its
\* clock is reset.
StoppedStays ==
    [][\A s \in Steppers : need_reset[s] /\ need_reset'[s] => taken'[s] = taken[s]]_vars
=============================================================================
