---------------------------- MODULE SerialQueue -----------------------------
(***************************************************************************)
(* The host end of the serial line: klippy/chelper/serialqueue.c.          *)
(*                                                                         *)
(* The background thread of a serialqueue runs one callback at a time (an  *)
(* input message, the retransmit timer, the command timer), each under     *)
(* sq->lock, so each is one action.  Times are abstracted: a timer is      *)
(* NEVER, NOW or LATER, and a LATER timer may expire at any moment, so the *)
(* model covers every value of rto, srtt and the baud rate.  Of a sent     *)
(* time the model keeps whether it is exact (its block was written once)   *)
(* or ambiguous (its block was written again before it was acknowledged).  *)
(*                                                                         *)
(* Of receive_queue the model keeps what the last message added to it.     *)
(*                                                                         *)
(* need_ack_bytes is not a variable: the code changes it exactly where it  *)
(* adds to or removes from sent_queue, so it is the size of sent_queue.    *)
(***************************************************************************)
EXTENDS SerialWire

VARIABLES
    send_seq, receive_seq,                          \* next to send, next to be acked
    ignore_nak_seq, last_ack_seq, retransmit_seq, rtt_sample_seq,
    sent_queue,                                     \* blocks sent and not acked
    retransmit_timer,                               \* SQPT_RETRANSMIT
    last_ack_bytes,
    last_receive_sent_time, srtt,
    notify_queue,                                   \* blocks whose sender waits for the ack
    received                                        \* last addition to receive_queue

seqVars == <<send_seq, receive_seq, ignore_nak_seq, last_ack_seq, retransmit_seq>>
timeVars == <<rtt_sample_seq, last_receive_sent_time, srtt>>
hostVars == <<seqVars, timeVars, sent_queue, retransmit_timer, last_ack_bytes,
              notify_queue, received>>

TimerState == {"NEVER", "NOW", "LATER"}

\* A sent time, or the round trip estimate made from one: 0. (not known), the
\* time of a block that was written once, or of one that was written again.
SentTime == {"zero", "exact", "ambiguous"}

\* An entry of sent_queue: the block, and whether it has been retransmitted.
SentBlock == [seq: WireSeq, n: Nat, len: Nat, resent: BOOLEAN]

\* An entry of receive_queue: a notification that block `notify` was acked, or
\* (notify = 0) a response of the micro-controller with its sent time.
Received == [notify: Nat, resp: Nat, sent_time: SentTime]

OnWire(b) == [ok |-> TRUE, seq |-> b.seq, n |-> b.n, len |-> b.len]

BytesOf(q) ==
    LET upto[i \in 0..Len(q)] == IF i = 0 THEN 0 ELSE upto[i - 1] + q[i].len
    IN  upto[Len(q)]

need_ack_bytes == BytesOf(sent_queue)

\* serialqueue_alloc(), followed by serialqueue_set_receive_window().
HostInit ==
    /\ send_seq = 1
    /\ receive_seq = 1
    /\ ignore_nak_seq = 0
    /\ last_ack_seq = 0
    /\ retransmit_seq = 0
    /\ rtt_sample_seq = 0
    /\ sent_queue = <<>>
    /\ retransmit_timer = "NEVER"
    /\ last_ack_bytes = 0
    /\ last_receive_sent_time = "zero"
    /\ srtt = "zero"
    /\ notify_queue = <<>>
    /\ received = <<>>

-----------------------------------------------------------------------------
\* Sending.

\* Mutant: one block too many may be unacknowledged.
check_send_command_OffByOne == send_seq - receive_seq <= MaxPending

\* Mutant: the block that only a response has acknowledged is not counted.
check_send_command_NoAckBytes ==
    /\ send_seq - receive_seq < MaxPending
    /\ send_seq > receive_seq /\ ReceiveWindow # 0
        => need_ack_bytes + MessageMax <= ReceiveWindow

\* check_send_command(): may another block be built now?
check_send_command ==
    /\ send_seq - receive_seq < MaxPending
    /\ send_seq > receive_seq /\ ReceiveWindow # 0
        => need_ack_bytes + MessageMax
             + (IF last_ack_seq < receive_seq THEN last_ack_bytes ELSE 0)
           <= ReceiveWindow

\* command_event() with build_and_send_command(): the commands that are ready
\* are packed into a block, which is kept on sent_queue and written.  notify
\* says whether the sender of one of the commands waits for the block's ack.
build_and_send_command(len, notify) ==
    LET out == [seq |-> send_seq % SeqMod, n |-> send_seq, len |-> len,
                resent |-> FALSE]
    IN  /\ check_send_command
        /\ send_seq < MaxSeq
        /\ Len(h2m) < WireCap
        /\ notify_queue' = IF notify THEN Append(notify_queue, send_seq)
                                     ELSE notify_queue
        /\ retransmit_timer' = IF sent_queue = <<>> THEN "LATER"
                                                   ELSE retransmit_timer
        /\ rtt_sample_seq' = IF rtt_sample_seq = 0 THEN send_seq
                                                   ELSE rtt_sample_seq
        /\ send_seq' = send_seq + 1
        /\ sent_queue' = Append(sent_queue, out)
        /\ h2m' = Append(h2m, OnWire(out))
        /\ UNCHANGED <<receive_seq, ignore_nak_seq, last_ack_seq, retransmit_seq,
                       last_ack_bytes, last_receive_sent_time, srtt,
                       received, m2h, losses>>

-----------------------------------------------------------------------------
\* Receiving.

\* Mutant: a number that is not new is taken for one of the next cycle.
ReceiveSeq_NotNew(seq) ==
    LET rseq == (receive_seq - (receive_seq % SeqMod)) + seq
    IN  IF rseq <= receive_seq THEN rseq + SeqMod ELSE rseq

\* handle_message(): the full number that the wire's number stands for.
ReceiveSeq(seq) ==
    LET rseq == (receive_seq - (receive_seq % SeqMod)) + seq
    IN  IF rseq < receive_seq THEN rseq + SeqMod ELSE rseq

\* The entries of sent_queue left when `count` have been removed.
SentAfter(count) ==
    IF count > Len(sent_queue) THEN <<>>
                               ELSE SubSeq(sent_queue, count + 1, Len(sent_queue))

\* Mutant: the numbering of the micro-controller is not taken over.
SendSeqAfter_Keep(init, rseq) == send_seq

\* A connection starts at the number that the first message carries.
SendSeqAfter(init, rseq) == IF init THEN rseq ELSE send_seq

\* update_receive_seq(): rseq acknowledges the first rseq - receive_seq entries
\* of sent_queue; if there are not that many, this is the first message of a
\* connection and send_seq is taken from it.
update_receive_seq(rseq) ==
    LET count == rseq - receive_seq
        init  == count > Len(sent_queue)
        left  == SentAfter(count)
        sent_time == IF init THEN "zero"
                     ELSE IF sent_queue[count].resent THEN "ambiguous" ELSE "exact"
        sample == rtt_sample_seq # 0 /\ rseq > rtt_sample_seq /\ sent_time # "zero"
    IN  /\ sent_queue' = left
        /\ send_seq' = SendSeqAfter(init, rseq)
        /\ last_receive_sent_time' = sent_time
        /\ last_ack_bytes' = IF init THEN last_ack_bytes ELSE sent_queue[count].len
        /\ receive_seq' = rseq
        /\ srtt' = IF sample THEN sent_time ELSE srtt
        /\ rtt_sample_seq' = IF sample THEN 0 ELSE rtt_sample_seq

\* Mutant: a response wakes the sender of the block that is being dispatched.
Wakes_NoData(rseq, data, n) == n <= rseq - 1

\* handle_message(): does this message wake the sender that waits for block n?
\* A response may be sent before its block is fully dispatched, so it wakes one
\* block less than an ack.  wake_seq is unsigned: for the first number, 1, a
\* response makes it wrap around, and wakes everyone.
Wakes(rseq, data, n) ==
    LET wake_seq == rseq - 1 - (IF data THEN 1 ELSE 0)
    IN  wake_seq < 0 \/ n <= wake_seq

\* The entries of notify_queue up to the first that is not to be woken.
WakeCount(woken, rseq, data) ==
    /\ \A i \in 1..woken : Wakes(rseq, data, notify_queue[i])
    /\ woken < Len(notify_queue) => ~Wakes(rseq, data, notify_queue[woken + 1])

\* A duplicate ack is a nak, unless it may be an answer to an older copy of
\* what was retransmitted.
IsNak(data, rseq, queued) ==
    /\ ~data
    /\ last_ack_seq >= rseq
    /\ rseq > ignore_nak_seq
    /\ queued # <<>>

\* Mutant: the timer is stopped though blocks are left.
RetransmitTimerAfter_Stop(queued) == "NEVER"

\* update_receive_seq(): the retransmit timer when `queued` is left to be acked.
RetransmitTimerAfter(queued) == IF queued = <<>> THEN "NEVER" ELSE "LATER"

\* The sent time reported with a response: none while it may answer a copy.
ResponseSentTime(rseq, sent_time) ==
    IF rseq > retransmit_seq THEN sent_time ELSE "zero"

\* Mutant: a message from the future is always taken for a new connection.
ValidReceiveSeq_Any(rseq) == TRUE

\* Only before the connection is made may a message be ahead of what was sent.
ValidReceiveSeq(rseq) == rseq <= send_seq \/ receive_seq = 1

\* handle_message() for a message that is accepted.
handle_message ==
    /\ m2h # <<>>
    /\ \E woken \in 0..Len(notify_queue) :
       LET msg == Head(m2h)
           rseq == ReceiveSeq(msg.seq)
           notes == [i \in 1..woken |-> [notify |-> notify_queue[i], resp |-> 0,
                                         sent_time |-> last_receive_sent_time']]
           response == [notify |-> 0, resp |-> msg.resp,
                        sent_time |-> ResponseSentTime(rseq, last_receive_sent_time')]
           queued == IF rseq = receive_seq THEN sent_queue
                     ELSE SentAfter(rseq - receive_seq)
       IN  /\ ValidReceiveSeq(rseq)
           /\ WakeCount(woken, rseq, msg.data)
           /\ \/ rseq # receive_seq /\ update_receive_seq(rseq)
              \/ rseq = receive_seq
                 /\ UNCHANGED <<sent_queue, send_seq, receive_seq, last_ack_bytes,
                                timeVars>>
           /\ retransmit_timer' = IF IsNak(msg.data, rseq, queued) THEN "NOW"
                                  ELSE IF rseq = receive_seq THEN retransmit_timer
                                  ELSE RetransmitTimerAfter(queued)
           /\ notify_queue' = SubSeq(notify_queue, woken + 1, Len(notify_queue))
           /\ received' = notes \o (IF msg.data THEN <<response>> ELSE <<>>)
           /\ last_ack_seq' = IF ~msg.data /\ last_ack_seq < rseq
                              THEN rseq ELSE last_ack_seq
    /\ m2h' = Tail(m2h)
    /\ UNCHANGED <<ignore_nak_seq, retransmit_seq, h2m, losses>>

\* handle_message() for an ack of something that was never sent: dropped.
handle_message_invalid ==
    /\ m2h # <<>>
    /\ ~ValidReceiveSeq(ReceiveSeq(Head(m2h).seq))
    /\ m2h' = Tail(m2h)
    /\ UNCHANGED <<hostVars, h2m, losses>>

-----------------------------------------------------------------------------
\* Retransmitting.

\* What is left on the wire when the first `cut` blocks are past the UART: the
\* next one may have been cut in the middle, and arrives as invalid bytes.
Flushed(cut, partial) ==
    SubSeq(h2m, 1, cut)
      \o (IF partial THEN <<[h2m[cut + 1] EXCEPT !.ok = FALSE]>> ELSE <<>>)

\* Every LATER timer leaves the first block of sent_queue the time to pass the
\* line (idletime, or calculate_bittime() of its length, is part of its value):
\* when it expires that block is no longer there to be flushed.
FirstHasLeft(cut) ==
    \A i \in (cut + 1)..Len(h2m) : h2m[i].n # receive_seq

\* Mutant: a timeout does not make the host ignore the naks it provokes.
IgnoreNakSeq_Timeout ==
    IF receive_seq < retransmit_seq THEN retransmit_seq ELSE receive_seq

\* After a retransmission naks up to this number are not acted on: a second nak
\* of the same retransmission still is, a third one is not.
IgnoreNakSeq ==
    IF retransmit_timer = "NOW"
    THEN IF receive_seq < retransmit_seq THEN retransmit_seq ELSE receive_seq
    ELSE send_seq

\* retransmit_event(): tcflush() discards what the UART has not taken yet, then
\* every block of sent_queue is written again.
retransmit_event(cut, partial) ==
    /\ retransmit_timer # "NEVER"
    /\ retransmit_timer = "LATER" => FirstHasLeft(cut)
    /\ partial => cut < Len(h2m)
    /\ Len(Flushed(cut, partial)) + Len(sent_queue) <= WireCap
    /\ h2m' = Flushed(cut, partial)
                \o [i \in 1..Len(sent_queue) |-> OnWire(sent_queue[i])]
    /\ sent_queue' = [i \in 1..Len(sent_queue) |->
                         [sent_queue[i] EXCEPT !.resent = TRUE]]
    /\ ignore_nak_seq' = IgnoreNakSeq
    /\ retransmit_seq' = send_seq
    /\ rtt_sample_seq' = 0
    /\ retransmit_timer' = "LATER"
    /\ UNCHANGED <<send_seq, receive_seq, last_ack_seq, last_ack_bytes,
                   last_receive_sent_time, srtt, notify_queue, received,
                   m2h, losses>>

HostTypeOK ==
    /\ send_seq \in Nat /\ receive_seq \in Nat
    /\ ignore_nak_seq \in Nat /\ last_ack_seq \in Nat
    /\ retransmit_seq \in Nat /\ rtt_sample_seq \in Nat
    /\ sent_queue \in Seq(SentBlock)
    /\ retransmit_timer \in TimerState
    /\ last_ack_bytes \in Nat
    /\ last_receive_sent_time \in SentTime /\ srtt \in SentTime
    /\ notify_queue \in Seq(Nat)
    /\ received \in Seq(Received)
=============================================================================
