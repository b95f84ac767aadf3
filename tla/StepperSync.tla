---------------------------- MODULE StepperSync ----------------------------
(***************************************************************************)
(* Sharing the micro-controller's pool of moves among steppers:            *)
(* steppersync_flush() and its heap (klippy/chelper/stepcompress.c), the   *)
(* min_clock of a message (klippy/chelper/serialqueue.c), and the pool     *)
(* itself (src/basecmd.c, src/stepper.c).                                  *)
(*                                                                         *)
(* The host never asks how full the pool is.  It knows when each move will *)
(* leave it: a move is taken out of the pool when the stepper loads it, at *)
(* the last step of the move before (min_clock of the message).  The heap  *)
(* holds those times for all the slots, and a message may be sent once the *)
(* earliest of them has passed.  Clocks are absolute here; the first move  *)
(* of a stepper, and the first one after a reset, has min_clock 0, which   *)
(* the code takes for "does not use the pool".                             *)
(***************************************************************************)
EXTENDS Integers, Sequences, FiniteSets

CONSTANTS
    Steppers,
    move_num,     \* slots of the pool
    Lengths,      \* durations of a move in ticks
    DiffMax,      \* CLOCK_DIFF_MAX
    MaxClock,     \* bound on the clocks
    MaxQueued,    \* bound on the messages a stepper has ready
    MaxExtra      \* bound on the resets and messages other than moves

VARIABLES
    now,              \* the clock of the micro-controller
    last_step_clock,  \* of each stepper, on the host
    msg_queue,        \* of each stepper: messages not yet handed on
    move_clocks,      \* the heap
    wire,             \* messages handed to the serial queue, in order
    pool,             \* the times at which the used slots become free
    extra

vars == <<now, last_step_clock, msg_queue, move_clocks, wire, pool, extra>>

SyncAssumption ==
    /\ move_num \in Nat \ {0} /\ Lengths \subseteq Nat \ {0} /\ Steppers \subseteq Nat

Clocks == 0 .. MaxClock

Init ==
    /\ now = 1 /\ extra = 0
    /\ last_step_clock = [s \in Steppers |-> 0]
    /\ msg_queue = [s \in Steppers |-> <<>>]
    /\ move_clocks = [i \in 0 .. move_num - 1 |-> 0]
    /\ wire = <<>> /\ pool = <<>>

-----------------------------------------------------------------------------
(* stepcompress: messages for one stepper                                  *)

\* The request time of a move, at its first step if that is far away.
ReqClock(s, n) == IF n >= DiffMax THEN last_step_clock[s] + n ELSE last_step_clock[s]

\* add_move(): a queue_step of n ticks; its steps lie in the future.
add_move(s, n) ==
    LET end == last_step_clock[s] + n
    IN  /\ end > now /\ end <= MaxClock /\ Len(msg_queue[s]) < MaxQueued
        /\ last_step_clock' = [last_step_clock EXCEPT ![s] = end]
        /\ msg_queue' = [msg_queue EXCEPT ![s] =
              Append(@, [step |-> TRUE, min_clock |-> last_step_clock[s],
                         req_clock |-> ReqClock(s, n)])]
        /\ UNCHANGED <<now, move_clocks, wire, pool, extra>>

\* set_next_step_dir() and stepcompress_queue_msg(): a command that needs no slot.
queue_msg(s) ==
    /\ extra < MaxExtra /\ extra' = extra + 1
    /\ msg_queue' = [msg_queue EXCEPT ![s] =
          Append(@, [step |-> FALSE, min_clock |-> 0, req_clock |-> last_step_clock[s]])]
    /\ UNCHANGED <<now, last_step_clock, move_clocks, wire, pool>>

\* stepcompress_reset() after homing: the stepper stands still, its moves
\* have all left the pool.
stepcompress_reset(s) ==
    /\ extra < MaxExtra /\ msg_queue[s] = <<>> /\ wire = <<>>
    /\ last_step_clock[s] <= now
    /\ extra' = extra + 1
    /\ last_step_clock' = [last_step_clock EXCEPT ![s] = 0]
    /\ UNCHANGED <<now, msg_queue, move_clocks, wire, pool>>

-----------------------------------------------------------------------------
(* steppersync_flush()                                                     *)

Nodes == 0 .. move_num - 1

\* The clock of a node of the heap h, beyond all clocks past its end.
At(h, i) == IF i \in Nodes THEN h[i] ELSE MaxClock + 1

\* Mutant: always taking the first child.
Child_First(h, i) == 2 * i + 1

\* The child that moves up: the earlier one.
Child(h, i) == IF At(h, 2 * i + 1) < At(h, 2 * i + 2) THEN 2 * i + 1 ELSE 2 * i + 2

\* heap_replace(): the nodes from the top to the place of the new clock; the
\* clocks below move up along them.
heap_replace(h, clock) ==
    LET stops(i) == clock <= At(h, 2 * i + 1) /\ clock <= At(h, 2 * i + 2)
        path[i \in Nodes] == IF stops(i) THEN {i} ELSE {i} \cup path[Child(h, i)]
    IN  [i \in Nodes |-> IF i \notin path[0] THEN h[i]
                         ELSE IF stops(i) THEN clock ELSE h[Child(h, i)]]

\* The heap after a message was given its slot.
HeapAfter(h, m) == IF m.min_clock # 0 THEN heap_replace(h, m.min_clock) ELSE h

\* The stepper whose first message has the lowest req_clock, the first such.
Lowest(mq) ==
    LET Req(s) == Head(mq[s]).req_clock
        waiting == {s \in Steppers : mq[s] # <<>>}
    IN  CHOOSE s \in waiting : \A t \in waiting :
           Req(s) < Req(t) \/ (Req(s) = Req(t) /\ s <= t)

\* The loop of steppersync_flush(): each message may be sent when the first
\* slot becomes free, and takes that slot until its own min_clock.
RECURSIVE Batch(_, _)
Batch(st, move_clock) ==
    LET s == Lowest(st.mq)
        m == Head(st.mq[s])
    IN  IF (\A t \in Steppers : st.mq[t] = <<>>)
           \/ (m.min_clock # 0 /\ m.req_clock > move_clock)
        THEN st
        ELSE Batch([mq |-> [st.mq EXCEPT ![s] = Tail(@)],
                    heap |-> HeapAfter(st.heap, m),
                    wire |-> Append(st.wire, [step |-> m.step, min_clock |-> st.heap[0],
                                              start |-> m.min_clock])],
                   move_clock)

steppersync_flush(move_clock) ==
    LET st == Batch([mq |-> msg_queue, heap |-> move_clocks, wire |-> wire], move_clock)
    IN  /\ st.mq # msg_queue
        /\ msg_queue' = st.mq /\ move_clocks' = st.heap /\ wire' = st.wire
        /\ UNCHANGED <<now, last_step_clock, pool, extra>>

-----------------------------------------------------------------------------
(* The serial link and the micro-controller                                *)

\* A message arrives no earlier than min_clock (check_send_command()).
MaySend(m) == now >= m.min_clock

\* command_queue_step(): a slot is used until the stepper loads the move, at
\* once if the move before is over.
receive ==
    /\ wire # <<>> /\ MaySend(Head(wire))
    /\ wire' = Tail(wire)
    /\ pool' = IF Head(wire).step /\ Head(wire).start > now
               THEN Append(pool, Head(wire).start) ELSE pool
    /\ UNCHANGED <<now, last_step_clock, msg_queue, move_clocks, extra>>

\* Time passes; the steppers load their next moves and free the slots.
Tick ==
    /\ now < MaxClock /\ now' = now + 1
    /\ pool' = SelectSeq(pool, LAMBDA c : c > now')
    /\ UNCHANGED <<last_step_clock, msg_queue, move_clocks, wire, extra>>

Next ==
    \/ \E s \in Steppers : (\E n \in Lengths : add_move(s, n))
                           \/ queue_msg(s) \/ stepcompress_reset(s)
    \/ \E c \in Clocks : steppersync_flush(c)
    \/ receive
    \/ Tick

Spec == Init /\ [][Next]_vars

-----------------------------------------------------------------------------
(* Properties.                                                             *)

\* The heap knows the pool: at any time, for every slot in use and every one
\* a message on its way will use, there is an entry of the heap, and the
\* first entry is the earliest (steppersync_flush, heap_replace).
HeapExact ==
    /\ \A i \in Nodes : move_clocks[0] <= move_clocks[i]
    /\ LET later == {i \in Nodes : move_clocks[i] > now}
           coming == {k \in DOMAIN wire : wire[k].start > now}
       IN  coming = {} => Cardinality(later) = Len(pool)

\* The pool never runs out: whenever a queue_step may arrive, a slot is free
\* for it, so move_alloc() does not shut the printer down with "Move queue
\* overflow", however the steppers' messages are interleaved and flushed.
PoolSuffices ==
    (wire # <<>> /\ MaySend(Head(wire)) /\ Head(wire).step) => Len(pool) < move_num
=============================================================================
