--------------------------- MODULE CommandQueues ---------------------------
(***************************************************************************)
(* The command queues of klippy/chelper/serialqueue.c: which message is    *)
(* put into the next block, and when the background thread has to wake up. *)
(*                                                                         *)
(* Threads add messages with a min_clock before which they must not arrive *)
(* and a req_clock by which they should.  The background thread moves them *)
(* from the stalled to the ready queue of their command queue, builds      *)
(* blocks, and sleeps until it is needed again.  Whoever adds a message    *)
(* decides from need_kick_clock whether to wake it through a pipe.         *)
(*                                                                         *)
(* One tick of the clock is one unit of time; a block takes BlockTime on   *)
(* the line.  The background thread is never late, the other threads may   *)
(* be delayed between the lock and the pipe.  SerialLink has what happens  *)
(* to the blocks.                                                          *)
(***************************************************************************)
EXTENDS Integers, Sequences, SequencesExt, FiniteSetsExt

CONSTANTS
    Queues, Threads,
    MinClocks, ReqClocks,   \* of the messages, relative to the time they are added
    Lengths,                \* of the messages
    Half,                   \* 1 << 31: how far ahead a message may be sent
    Delta,                  \* MIN_REQTIME_DELTA
    BgDelta,                \* MIN_BACKGROUND_DELTA
    Payload,                \* MESSAGE_PAYLOAD_MAX
    MaxPending,             \* MAX_PENDING_BLOCKS
    BlockTime,
    MaxMsgs, MaxNow         \* bounds on the messages and on the time

VARIABLES
    now,
    pending_queues,         \* the list of the queues that hold messages
    ready, stalled,         \* the messages of each queue
    ready_bytes, stalled_bytes,
    need_kick_clock,
    timer,                  \* the waketime of command_event()
    kick,                   \* a byte is in the pipe
    kicking,                \* threads that have released the lock and will kick
    phase,                  \* of command_event(), which holds the lock
    buflen, len,            \* blocks in the buffer, bytes in the block being built
    idle_time,
    unacked,                \* blocks that are not acknowledged
    added, sent             \* messages of each queue that were added and sent

bgVars == <<phase, buflen, len, idle_time>>
vars == <<now, pending_queues, ready, stalled, ready_bytes, stalled_bytes,
          need_kick_clock, timer, kick, kicking, bgVars, unacked, added, sent>>

MAX_CLOCK == 10 * (MaxNow + Half)
BACKGROUND == MAX_CLOCK - 1     \* BACKGROUND_PRIORITY_CLOCK
PR_NOW == 0
PR_NEVER == MAX_CLOCK

QueuesAssumption ==
    /\ {Half, Delta, BgDelta, BlockTime, MaxMsgs, MaxNow} \subseteq Nat
    /\ {Payload, MaxPending} \subseteq Nat \ {0}
    /\ MinClocks \subseteq Nat /\ ReqClocks \subseteq Nat
    /\ Lengths \subseteq 1 .. Payload

Init ==
    /\ now = 1 /\ pending_queues = <<>>
    /\ ready = [q \in Queues |-> <<>>] /\ stalled = [q \in Queues |-> <<>>]
    /\ ready_bytes = 0 /\ stalled_bytes = 0
    /\ need_kick_clock = 0 /\ timer = PR_NOW /\ kick = FALSE /\ kicking = {}
    /\ phase = "sleep" /\ buflen = 0 /\ len = 0 /\ idle_time = 0 /\ unacked = 0
    /\ added = [q \in Queues |-> 0] /\ sent = [q \in Queues |-> <<>>]

Bytes(msgs) == FoldLeft(LAMBDA n, m : n + m.len, 0, msgs)

-----------------------------------------------------------------------------
(* serialqueue_send_batch(), by any thread                                 *)

\* A message that is asked for much later may not be sent at once.
MinClock(min, req) == IF req # BACKGROUND /\ min + Half < req THEN req - Half ELSE min

Registers(q) == ready[q] = <<>> /\ stalled[q] = <<>>

\* Whether the background thread may sleep past the message
MustWake(m) == m.min_clock < need_kick_clock

serialqueue_send(th, q, min, req, length) ==
    LET m == [id |-> added[q] + 1, min_clock |-> MinClock(min, req),
              req_clock |-> req, len |-> length]
    IN  /\ phase = "sleep" /\ th \notin kicking
        /\ FoldFunction(+, 0, added) < MaxMsgs
        /\ added' = [added EXCEPT ![q] = @ + 1]
        /\ pending_queues' = IF Registers(q) THEN Append(pending_queues, q) ELSE pending_queues
        /\ stalled' = [stalled EXCEPT ![q] = Append(@, m)]
        /\ stalled_bytes' = stalled_bytes + length
        /\ IF MustWake(m)
           THEN need_kick_clock' = 0 /\ kicking' = kicking \cup {th}
           ELSE UNCHANGED <<need_kick_clock, kicking>>
        /\ UNCHANGED <<now, ready, ready_bytes, timer, kick, bgVars, unacked, sent>>

\* kick_bg_thread(), after the lock has been released.
kick_bg_thread(th) ==
    /\ th \in kicking
    /\ kicking' = kicking \ {th} /\ kick' = TRUE
    /\ UNCHANGED <<now, pending_queues, ready, stalled, ready_bytes, stalled_bytes,
                   need_kick_clock, timer, bgVars, unacked, added, sent>>

-----------------------------------------------------------------------------
(* The background thread                                                   *)

\* kick_event()
kick_event ==
    /\ phase = "sleep" /\ kick
    /\ kick' = FALSE /\ timer' = PR_NOW
    /\ UNCHANGED <<now, pending_queues, ready, stalled, ready_bytes, stalled_bytes,
                   need_kick_clock, kicking, bgVars, unacked, added, sent>>

\* command_event() starts when its timer is due.
command_event ==
    /\ phase = "sleep" /\ timer <= now
    /\ phase' = "check"
    /\ UNCHANGED <<now, pending_queues, ready, stalled, ready_bytes, stalled_bytes,
                   need_kick_clock, timer, kick, kicking, buflen, len, idle_time,
                   unacked, added, sent>>

Later(a, b) == IF a > b THEN a ELSE b
Earlier(a, b) == IF a < b THEN a ELSE b

\* idletime and ack_clock of check_send_command(): when the next block could
\* arrive.
Idle == Later(now, idle_time) + buflen * BlockTime

\* How many messages of a queue become ready.
Movable(q) ==
    LET i == SelectInSeq(stalled[q], LAMBDA m : Idle < m.min_clock)
    IN  IF i = 0 THEN Len(stalled[q]) ELSE i - 1

\* Mutant: messages that become ready are put before those that are.
Moved_Front(q) == SubSeq(stalled[q], 1, Movable(q)) \o ready[q]

Moved(q) == ready[q] \o SubSeq(stalled[q], 1, Movable(q))

Rest(q) == SubSeq(stalled[q], Movable(q) + 1, Len(stalled[q]))

\* When the first ready message of a queue is asked for.
ReqClock(m) ==
    IF m.req_clock # BACKGROUND THEN m.req_clock
    ELSE (IF buflen > 0 THEN Idle ELSE idle_time) + Delta + BgDelta

MinReady == Min({MAX_CLOCK} \cup {ReqClock(Head(Moved(q))) : q \in {q \in Queues : Moved(q) # <<>>}})
MinStalled == Min({MAX_CLOCK} \cup {Head(Rest(q)).min_clock : q \in {q \in Queues : Rest(q) # <<>>}})
MovedBytes == FoldSet(LAMBDA q, n : n + Bytes(SubSeq(stalled[q], 1, Movable(q))), 0, Queues)

\* Mutant: the ready messages alone decide when to wake up.
WantClock_Ready == MinReady - Delta

WantClock == Earlier(MinReady - Delta, MinStalled)

\* The end of command_event(): the blocks are written, and the thread sleeps.
Finish(waketime) ==
    /\ idle_time' = IF buflen > 0 THEN Idle ELSE idle_time
    /\ buflen' = 0 /\ timer' = waketime /\ phase' = "sleep"

\* check_send_command() when an ack is needed first.
check_send_command_wait ==
    /\ phase = "check" /\ unacked >= MaxPending
    /\ Finish(PR_NEVER)
    /\ UNCHANGED <<now, pending_queues, ready, stalled, ready_bytes, stalled_bytes,
                   need_kick_clock, kick, kicking, len, unacked, added, sent>>

\* check_send_command()
check_send_command ==
    /\ phase = "check" /\ unacked < MaxPending
    /\ ready' = [q \in Queues |-> Moved(q)]
    /\ stalled' = [q \in Queues |-> Rest(q)]
    /\ ready_bytes' = ready_bytes + MovedBytes
    /\ stalled_bytes' = stalled_bytes - MovedBytes
    /\ IF ready_bytes' >= Payload \/ MinReady <= Idle + Delta
       THEN /\ phase' = "build" /\ len' = 0
            /\ UNCHANGED <<need_kick_clock, buflen, idle_time, timer>>
       ELSE /\ need_kick_clock' = WantClock
            /\ Finish(WantClock)
            /\ UNCHANGED len
    /\ UNCHANGED <<now, pending_queues, kick, kicking, unacked, added, sent>>

\* The queue whose first ready message has the lowest req_clock: the first
\* such queue of the list.
Best ==
    LET Req(i) == LET r == ready[pending_queues[i]] IN IF r = <<>> THEN MAX_CLOCK ELSE Head(r).req_clock
        D == DOMAIN pending_queues
    IN  pending_queues[CHOOSE i \in D : /\ \A j \in D : Req(i) <= Req(j)
                                        /\ \A j \in D : j < i => Req(j) > Req(i)]

Fits == ready_bytes > 0 /\ len + Head(ready[Best]).len <= Payload

\* build_and_send_command(): one message is appended to the block.
build_append ==
    LET q == Best
        m == Head(ready[q])
    IN  /\ phase = "build" /\ Fits
        /\ ready' = [ready EXCEPT ![q] = Tail(@)]
        /\ pending_queues' = IF Tail(ready[q]) = <<>> /\ stalled[q] = <<>>
                             THEN SelectSeq(pending_queues, LAMBDA p : p # q)
                             ELSE pending_queues
        /\ len' = len + m.len /\ ready_bytes' = ready_bytes - m.len
        /\ sent' = [sent EXCEPT ![q] = Append(@, m.id)]
        /\ UNCHANGED <<now, stalled, stalled_bytes, need_kick_clock, timer, kick, kicking,
                       phase, buflen, idle_time, unacked, added>>

\* build_and_send_command(): the block is complete.
build_and_send_command ==
    /\ phase = "build" /\ ~Fits
    /\ phase' = "check" /\ buflen' = buflen + 1 /\ unacked' = unacked + 1
    /\ UNCHANGED <<now, pending_queues, ready, stalled, ready_bytes, stalled_bytes,
                   need_kick_clock, timer, kick, kicking, len, idle_time, added, sent>>

\* handle_message(): an ack for some of the blocks.
update_receive_seq ==
    /\ phase = "sleep" /\ unacked > 0
    /\ \E n \in 0 .. unacked - 1 : unacked' = n
    /\ timer' = PR_NOW
    /\ UNCHANGED <<now, pending_queues, ready, stalled, ready_bytes, stalled_bytes,
                   need_kick_clock, kick, kicking, bgVars, added, sent>>

Tick ==
    /\ phase = "sleep" /\ timer > now /\ ~kick /\ now < MaxNow
    /\ now' = now + 1
    /\ UNCHANGED <<pending_queues, ready, stalled, ready_bytes, stalled_bytes,
                   need_kick_clock, timer, kick, kicking, bgVars, unacked, added, sent>>

Next ==
    \/ \E th \in Threads, q \in Queues, min \in MinClocks, length \in Lengths :
          \E req \in {now + r : r \in ReqClocks} \cup {BACKGROUND} :
             serialqueue_send(th, q, IF req = BACKGROUND THEN 0 ELSE now + min, req, length)
    \/ \E th \in Threads : kick_bg_thread(th)
    \/ kick_event \/ command_event
    \/ check_send_command_wait \/ check_send_command
    \/ build_append \/ build_and_send_command
    \/ update_receive_seq \/ Tick

Spec == Init /\ [][Next]_vars

-----------------------------------------------------------------------------
(* Properties.                                                             *)

\* A queue is on pending_queues exactly once if it holds a message, and not
\* otherwise; the byte counts are those of the messages (a queue that is
\* added twice, or removed too early, corrupts the list).
QueuesConsistent ==
    /\ ToSet(pending_queues) = {q \in Queues : ready[q] # <<>> \/ stalled[q] # <<>>}
    /\ IsInjective(pending_queues)
    /\ ready_bytes = FoldSet(LAMBDA q, n : n + Bytes(ready[q]), 0, Queues)
    /\ stalled_bytes = FoldSet(LAMBDA q, n : n + Bytes(stalled[q]), 0, Queues)

\* The messages of one queue leave in the order they were added, whatever
\* their clocks, and none is lost.
InOrder ==
    \A q \in Queues :
       sent[q] \o [i \in DOMAIN (ready[q] \o stalled[q]) |-> (ready[q] \o stalled[q])[i].id]
         = [i \in 1 .. added[q] |-> i]

\* The background thread never oversleeps: while it sleeps, with no kick under
\* way and no ack needed first, no message that could be sent is due, and no
\* full block is ready (need_kick_clock and the timer of command_event).
NeverOversleeps ==
    phase = "sleep" /\ timer > now /\ ~kick /\ kicking = {} /\ unacked < MaxPending =>
      /\ ready_bytes < Payload
      /\ \A q \in Queues :
            /\ ready[q] # <<>> => Head(ready[q]).req_clock > now + Delta
            /\ ready[q] # <<>> /\ Head(ready[q]).req_clock = BACKGROUND
                 => now < idle_time + BgDelta
            /\ stalled[q] # <<>> => Head(stalled[q]).min_clock > now
=============================================================================
