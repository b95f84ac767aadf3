----------------------------- MODULE SerialLink -----------------------------
(***************************************************************************)
(* The serial line with both its ends: serialqueue.c on the host, and      *)
(* command.c with serial_irq.c on the micro-controller, over wires that    *)
(* lose and damage blocks.                                                 *)
(***************************************************************************)
EXTENDS SerialQueue, McuConsole

vars == <<wireVars, hostVars, mcuVars>>

\* Has the host taken over the micro-controller's numbering?  (A host that
\* starts at 1 need not, if the micro-controller happens to be at 1.)
Connected == receive_seq # 1 \/ start = 1

\* SerialReader._get_identify_data(): until the first answer the only sender is
\* the identify query, which waits to be woken before it is sent again.
SendCommand ==
    /\ receive_seq = 1 => notify_queue = <<>>
    /\ \E len \in BlockLens :
          build_and_send_command(len, receive_seq = 1 \/ send_seq \in NotifyBlocks)
    /\ UNCHANGED mcuVars

\* receive_buf may hold the front block already: it cannot be flushed then.
Retransmit ==
    /\ \E cut \in 0..Len(h2m), partial \in BOOLEAN :
          /\ dispatch # "idle" => cut > 0
          /\ retransmit_event(cut, partial)
    /\ UNCHANGED mcuVars

HandleMessage == handle_message /\ UNCHANGED mcuVars
HandleInvalid == handle_message_invalid /\ UNCHANGED mcuVars

FindBlock      == command_find_block /\ UNCHANGED hostVars
FindBlockNak   == command_find_block_nak /\ UNCHANGED hostVars
FindBlockError == command_find_block_error /\ UNCHANGED hostVars
Respond        == respond /\ UNCHANGED hostVars
SendAck        == command_send_ack /\ UNCHANGED hostVars
Shutdown       == shutdown /\ UNCHANGED hostVars
Reset          == /\ \E came \in 0..Len(h2m), gone \in 0..Len(m2h) : reset(came, gone)
                  /\ UNCHANGED hostVars

\* Damage happens on the line, not to a block that is in receive_buf.
LineError ==
    /\ \/ dispatch = "idle" /\ (LoseBlock \/ CorruptBlock)
       \/ LoseMessage
    /\ UNCHANGED <<hostVars, mcuVars>>

HostStep == SendCommand \/ HandleMessage \/ HandleInvalid \/ Retransmit
McuStep  == FindBlock \/ FindBlockNak \/ FindBlockError \/ Respond \/ SendAck
              \/ Shutdown \/ Reset

Init == WireInit /\ HostInit /\ McuInit
Next == HostStep \/ McuStep \/ LineError
Spec == Init /\ [][Next]_vars

TypeOK == WireTypeOK /\ HostTypeOK /\ McuTypeOK

\* The micro-controller dispatches every block of the connection exactly once
\* and in order: the i-th block it runs is the i-th one after `start`.
DispatchedOnceInOrder ==
    resets = 0 => \A i \in 1..Len(executed) : executed[i] = start + i - 1

\* What the host counts as acknowledged has been dispatched, and the
\* micro-controller never runs ahead of what was sent.
AckedWasDispatched ==
    resets = 0 /\ Connected => receive_seq <= McuSeq /\ McuSeq <= send_seq

\* A sender is woken for a block of the connection only when the dispatch of
\* that block is over: a response that overtakes its ack does not wake it.
\* (Number 1 is excepted: there wake_seq wraps around, see Wakes.)
NotifiedWasDispatched ==
    resets = 0 /\ receive_seq # 1 =>
        \A i \in 1..Len(received) :
            received[i].notify >= start => received[i].notify < FinishedSeq

\* When a sender is woken for a block, no response made while that block was
\* dispatched is still under way: SerialRetryCommand.get_response() looks for
\* the response as soon as it is woken, and asks again if there is none.
NoLateResponse ==
    resets = 0 /\ receive_seq # 1 =>
        \A i \in 1..Len(received), j \in 1..Len(m2h) :
            received[i].notify # 0 => m2h[j].resp # received[i].notify

\* The host's books agree with each other whatever arrives, restarts of the
\* micro-controller included: sent_queue holds the blocks from receive_seq up
\* to send_seq, each with the number its header carries, and no sender waits
\* for a block that was acknowledged by an ack.
HostConsistent ==
    /\ Len(sent_queue) = send_seq - receive_seq
    /\ \A i \in 1..Len(sent_queue) :
          /\ sent_queue[i].n = receive_seq + i - 1
          /\ sent_queue[i].seq = sent_queue[i].n % SeqMod
    /\ last_ack_seq <= receive_seq
    /\ \A i \in 1..Len(notify_queue) :
          last_ack_seq <= notify_queue[i] /\ notify_queue[i] < send_seq

\* Once the connection is made the host never takes over another numbering,
\* and so never drops a block that was not acknowledged: what a restarted
\* micro-controller sends is an ack of something sent, or ignored.
NeverReconnects ==
    [][receive_seq # 1 => receive_seq' \in receive_seq..send_seq]_vars

\* Until the first retransmission or restart, what is under way to the
\* micro-controller fits in its receive buffer, also when a response
\* acknowledged a block that is still there.
WindowRespected ==
    ReceiveWindow # 0 /\ retransmit_seq = 0 /\ resets = 0 => BytesOf(h2m) <= ReceiveWindow

\* Round trip times, and the sent times of responses (which clocksync.py uses),
\* are never taken from a block that was written more than once.
SentTimesExact ==
    /\ srtt # "ambiguous"
    /\ \A i \in 1..Len(received) :
          received[i].notify = 0 => received[i].sent_time # "ambiguous"

\* What the host makes of an answer is true: the sender of a block is woken only
\* after the block was dispatched and with its response, if there is one, in hand, and
\* sent times are those of the copy that was answered.
AnswersTruthful == NotifiedWasDispatched /\ NoLateResponse /\ SentTimesExact

\* If the line damages nothing there is no fast retransmit: the naks that a
\* needless timeout provokes do not start another retransmission.  (Naks of the
\* first blocks, sent before the numbering was taken over, may.)
NoNeedlessFastRetransmit ==
    losses = 0 /\ resets = 0 /\ start = 1 => retransmit_timer # "NOW"

-----------------------------------------------------------------------------
\* The stream of blocks that the link implements.

\* The blocks sent that the micro-controller has not yet started to dispatch.
PendingBlocks ==
    LET first == IF Connected THEN McuSeq - receive_seq + 1 ELSE 1
    IN  [i \in 1..(Len(sent_queue) - first + 1) |-> sent_queue[first + i - 1].n]

Stream == INSTANCE CommandStream
    WITH Blocks    <- 1..MaxSeq,
         connected <- Connected,
         pending   <- PendingBlocks,
         log       <- executed,
         known     <- IF Connected THEN receive_seq - start ELSE 0

\* The host and the micro-controller together implement the command stream: no
\* block is lost, repeated or reordered by retransmission, and the host's view
\* of what was executed only advances to what really was.
ImplementsStream == Stream!Spec

-----------------------------------------------------------------------------
\* Progress.

\* The background thread handles its input and its timers, console_task() is
\* run again and again and command handlers return.
Fairness ==
    /\ WF_vars(HandleMessage \/ HandleInvalid)
    /\ WF_vars(Retransmit)
    /\ WF_vars(FindBlock \/ FindBlockNak \/ FindBlockError)
    /\ WF_vars(SendAck \/ Shutdown)

FairSpec == Spec /\ Fairness

\* Every block the host sends is eventually acknowledged, whatever is damaged
\* on the way.
EventuallyAcked ==
    \A n \in 1..MaxSeq : send_seq > n ~> receive_seq > n

\* A sender that waits for the ack of a block is woken, if a later block was
\* sent: the ack itself may be lost after a response has acknowledged the
\* block, and then only the answer to a later block wakes the sender.
EventuallyWoken ==
    \A n \in NotifyBlocks :
        send_seq > n + 1 ~> \A i \in 1..Len(notify_queue) : notify_queue[i] # n

\* Both: no block and no sender waits for ever.
EventuallyAnswered == EventuallyAcked /\ EventuallyWoken
=============================================================================
