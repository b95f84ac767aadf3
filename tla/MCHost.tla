------------------------------- MODULE MCHost -------------------------------
(***************************************************************************)
(* Parts of the host on small instances, side by side: in a behaviour only *)
(* the part that `part` names moves, and the others stay in their initial  *)
(* state.  What one part is given by another is any of the inputs its own  *)
(* module allows.  The parts there are proofs about are in HostParts.      *)
(***************************************************************************)
EXTENDS HostParts, TLC

CONSTANT Queues     \* of CommandQueues

VARIABLES
    part,
    \* LookAhead
    queue, speed,
    \* StepCompress
    sc, clock, steps, net, asked, resets,
    \* StepperSync
    s_now, last_step_clock, msg_queue, move_clocks, wire, pool, extra,
    \* CommandQueues
    q_now, pending_queues, ready, stalled, ready_bytes, stalled_bytes, need_kick_clock,
    timer, kick, kicking, q_phase, buflen, len, idle_time, unacked, added, sent

aheadVars == <<queue, speed>>
compressVars == <<sc, clock, steps, net, asked, resets>>
syncVars == <<s_now, last_step_clock, msg_queue, move_clocks, wire, pool, extra>>
queueVars ==
    <<q_now, pending_queues, ready, stalled, ready_bytes, stalled_bytes, need_kick_clock,
      timer, kick, kicking, q_phase, buflen, len, idle_time, unacked, added, sent>>

Look == INSTANCE LookAhead
    WITH Cruises <- {2, 8}, Deltas <- {2, 6}, Smooths <- {2, 4}, Junctions <- {0, 4, 8},
         MaxQueue <- 4

Compress == INSTANCE StepCompress
    WITH max_error <- 1, MaxCount <- 3, DiffMax <- 8, SdsFilter <- 3, Gaps <- {1, 4},
         MaxSteps <- 4, MaxResets <- 1

Sync == INSTANCE StepperSync
    WITH Steppers <- {1, 2}, move_num <- 3, Lengths <- {1, 2}, DiffMax <- 2,
         MaxClock <- 4, MaxQueued <- 2, MaxExtra <- 1, now <- s_now

Queue == INSTANCE CommandQueues
    WITH Threads <- {"t"}, MinClocks <- {0, 2}, ReqClocks <- {1, 5}, Lengths <- {1, 2},
         Half <- 3, Delta <- 1, BgDelta <- 1, Payload <- 2, MaxPending <- 2,
         BlockTime <- 1, MaxMsgs <- 3, MaxNow <- 3, now <- q_now, phase <- q_phase

ASSUME HostAssumption ==
    /\ Look!EvenAssumption /\ Compress!CompressAssumption
    /\ Sync!SyncAssumption /\ Queue!QueuesAssumption

HostInit ==
    /\ part \in {"heads", "poll", "clocks", "look_ahead", "compress", "sync", "queues"}
    /\ Heads!Init /\ Poll!Init /\ Clk!Init /\ Look!Init /\ Compress!Init /\ Sync!Init /\ Queue!Init
    /\ part # "clocks" => c_now = 0

HostNext ==
    \/ /\ part = "heads" /\ Heads!Next
       /\ UNCHANGED <<part, pollVars, clockVars, aheadVars, compressVars, syncVars, queueVars>>
    \/ /\ part = "poll" /\ Poll!Next
       /\ UNCHANGED <<part, headVars, clockVars, aheadVars, compressVars, syncVars, queueVars>>
    \/ /\ part = "clocks" /\ Clk!Next
       /\ UNCHANGED <<part, headVars, pollVars, aheadVars, compressVars, syncVars, queueVars>>
    \/ /\ part = "look_ahead" /\ Look!Next
       /\ UNCHANGED <<part, headVars, pollVars, clockVars, compressVars, syncVars, queueVars>>
    \/ /\ part = "compress" /\ Compress!Next
       /\ UNCHANGED <<part, headVars, pollVars, clockVars, aheadVars, syncVars, queueVars>>
    \/ /\ part = "sync" /\ Sync!Next
       /\ UNCHANGED <<part, headVars, pollVars, clockVars, aheadVars, compressVars, queueVars>>
    \/ /\ part = "queues" /\ Queue!Next
       /\ UNCHANGED <<part, headVars, pollVars, clockVars, aheadVars, compressVars, syncVars>>

hostVars ==
    <<part, headVars, pollVars, clockVars, aheadVars, compressVars, syncVars, queueVars>>

HostSpec == HostInit /\ [][HostNext]_hostVars

Symmetry == Permutations(Queues)

-----------------------------------------------------------------------------
\* Every move LookAheadQueue.flush() hands over was given its speeds in that flush and
\* can be driven within its limits and its length; it starts with the speed the one
\* before it ended with, also across flushes, and the toolhead stands still after the
\* last.
SpeedsDrivable ==
    part = "look_ahead" => Look!AllComputed /\ Look!Feasible /\ Look!Continuous

\* compress_bisect_add() never returns a move that check_line() refuses; every step
\* that was asked for is played once, in order, in its direction and at most max_error
\* ticks early, or is still queued; and the step+dir+step filter keeps the position.
StepsFaithful ==
    part = "compress" =>
        Compress!NeverInvalid /\ Compress!StepsFaithful /\ Compress!PositionKept

\* stepcompress_find_past_position() counts the steps played until a clock.
PastPositionExact == part = "compress" => Compress!PastPositionExact

\* The heap of steppersync_flush() knows when the next slot becomes free, so that
\* whenever a queue_step may arrive move_alloc() finds a free slot.
PoolSuffices == part = "sync" => Sync!HeapExact /\ Sync!PoolSuffices

\* serialqueue.c: a queue is on pending_queues once if it holds a message and not
\* otherwise, the byte counts are those of the messages, and the messages of a queue
\* leave in the order they were added.
QueuesFaithful == part = "queues" => Queue!QueuesConsistent /\ Queue!InOrder

\* The background thread never sleeps past a message that could be sent.
NeverOversleeps == part = "queues" => Queue!NeverOversleeps
=============================================================================
