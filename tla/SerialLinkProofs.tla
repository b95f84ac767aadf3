-------------------------- MODULE SerialLinkProofs --------------------------
(***************************************************************************)
(* Proofs about the serial link, for every number of blocks, losses,       *)
(* responses and restarts, every window and every set of block sizes.      *)
(*                                                                         *)
(* The argument that it delivers is about the full numbers that the 4-bit  *)
(* ones stand for.  A number on either wire is never SeqMod or more away   *)
(* from the one its reader compares it with, so that comparing remainders  *)
(* is comparing the numbers.  For the blocks this needs their order on the *)
(* wire: a block may be an old copy, but never one that is a whole cycle   *)
(* older than a block ahead of it, because the host keeps less than SeqMod *)
(* unacked.                                                                *)
(***************************************************************************)
EXTENDS SerialLink, NumbersAndSequences

\* Time limits of the provers: 30 seconds.
USE SMTT(30), ZenonT(30)

USE DEF vars, wireVars, hostVars, mcuVars, seqVars, timeVars

-----------------------------------------------------------------------------
\* Types.

\* While a block is dispatched, or was left by a shutdown, it is in receive_buf.
InReceiveBuf == dispatch # "idle" => h2m # <<>> /\ h2m[1].ok

\* Both.
TypeInv == TypeOK /\ InReceiveBuf

\* The block at the front of the wire.
LEMMA FrontBlock ==
    ASSUME TypeOK, h2m # <<>>
    PROVE  1 \in 1..Len(h2m) /\ h2m[1] \in Block
  BY Zenon, FrontOfSeq DEF TypeOK, WireTypeOK

\* A number on the wire stands for one at or above receive_seq.
LEMMA ReceiveSeqType ==
    ASSUME TypeOK, NEW seq \in WireSeq
    PROVE  ReceiveSeq(seq) \in Nat /\ ReceiveSeq(seq) >= receive_seq
<1>1. SeqMod \in Nat \ {0} /\ receive_seq \in Nat /\ seq \in 0..(SeqMod - 1)
  BY SeqModAssumption DEF TypeOK, HostTypeOK, WireSeq
<1>2. receive_seq % SeqMod \in 0..(SeqMod - 1) /\ receive_seq % SeqMod <= receive_seq
  BY Zenon, <1>1, DivMod, ModAtMost
<1> QED BY <1>1, <1>2 DEF ReceiveSeq

\* A full number, masked, is a number of the wire.
LEMMA MaskType ==
    ASSUME NEW n \in Nat
    PROVE  n % SeqMod \in WireSeq
  BY SeqModAssumption, DivMod DEF WireSeq

\* The header of a block is the residue of its number.
LEMMA BlockSeq ==
    ASSUME NEW b \in Block
    PROVE  b.seq \in WireSeq
  BY Zenon DEF Block

\* So is that of a message.
LEMMA MessageSeq ==
    ASSUME NEW m \in Message
    PROVE  m.seq \in WireSeq
  BY Zenon DEF Message

\* A copy of a block has the fields of the block.
LEMMA ResentFields ==
    ASSUME NEW b \in SentBlock
    PROVE  /\ [b EXCEPT !.resent = TRUE].n = b.n
           /\ [b EXCEPT !.resent = TRUE].seq = b.seq
  BY Zenon DEF SentBlock

\* next_sequence after a block is a residue.
LEMMA NextSeqType ==
    ASSUME NEW seq \in WireSeq
    PROVE  (seq + 1) % SeqMod \in WireSeq
<1>1. seq + 1 \in Nat
  BY SeqModAssumption DEF WireSeq
<1> QED BY Zenon, <1>1, MaskType

\* serialqueue_alloc() and a micro-controller that has just started.
LEMMA InitType == Init => TypeInv
<1> SUFFICES ASSUME Init PROVE TypeInv
  BY Zenon
<1>1. start \in 1..SeqMod /\ start \in Nat
  BY SeqModAssumption, SizesAssumption DEF Init, McuInit
<1>2. next_sequence \in WireSeq
  BY Zenon, <1>1, MaskType DEF Init, McuInit
<1>3. WireTypeOK
  BY DEF Init, WireInit, WireTypeOK
<1>4. HostTypeOK
  BY DEF Init, HostInit, HostTypeOK, TimerState, SentTime
<1>5. need_valid \in BOOLEAN
  BY Zenon DEF Init, McuInit
<1>6. McuTypeOK /\ InReceiveBuf
  BY <1>1, <1>2, <1>5 DEF Init, McuInit, McuTypeOK, DispatchState, InReceiveBuf
<1> QED BY Zenon, <1>3, <1>4, <1>6 DEF TypeInv, TypeOK

\* build_and_send_command()
LEMMA SendCommandType == TypeInv /\ SendCommand => TypeInv'
<1> SUFFICES ASSUME TypeInv, SendCommand PROVE TypeInv'
  BY Zenon
<1> USE DEF TypeInv, TypeOK, HostTypeOK, WireTypeOK, McuTypeOK, InReceiveBuf
<1>1. PICK len \in BlockLens : \E notify \in BOOLEAN : build_and_send_command(len, notify)
  BY Zenon DEF SendCommand
<1>2. PICK notify \in BOOLEAN : build_and_send_command(len, notify)
  BY Zenon, <1>1
<1> DEFINE out == [seq |-> send_seq % SeqMod, n |-> send_seq, len |-> len,
                   resent |-> FALSE]
<1>3. len \in Nat /\ send_seq % SeqMod \in WireSeq
  BY SizesAssumption, MaskType
<1>4. out \in SentBlock /\ OnWire(out) \in Block
  BY Zenon, <1>3 DEF SentBlock, Block, OnWire
<1>5. /\ sent_queue' = Append(sent_queue, out) /\ h2m' = Append(h2m, OnWire(out))
  BY Zenon, <1>2 DEF build_and_send_command
<1> HIDE DEF out
<1>6. sent_queue' \in Seq(SentBlock) /\ h2m' \in Seq(Block)
  BY Zenon, <1>4, <1>5, SeqAppend
<1>7. notify_queue' \in Seq(Nat)
  BY <1>2 DEF build_and_send_command
<1>8. /\ retransmit_timer' \in TimerState
      /\ rtt_sample_seq' \in Nat
      /\ send_seq' \in Nat
  BY <1>2 DEF build_and_send_command, TimerState
<1>9. UNCHANGED <<receive_seq, ignore_nak_seq, last_ack_seq, retransmit_seq,
                  last_ack_bytes, last_receive_sent_time, srtt,
                  received, m2h, losses, mcuVars>>
  BY Zenon, <1>2 DEF build_and_send_command, SendCommand
<1>10. h2m # <<>> => h2m' # <<>> /\ h2m'[1] = h2m[1]
  BY ZenonT(30), <1>4, <1>5, AppendFront
<1> QED BY Zenon, <1>6, <1>7, <1>8, <1>9, <1>10

\* A sequence number is only ever appended to m2h with the type of a message.
LEMMA SendfType ==
    ASSUME TypeOK, NEW data \in BOOLEAN, NEW resp \in Nat, NEW seq \in WireSeq,
           NEW abs \in Nat, command_sendf(data, resp, seq, abs)
    PROVE  m2h' \in Seq(Message)
<1> DEFINE msg == [seq |-> seq, data |-> data, resp |-> resp, abs |-> abs]
<1>1. msg \in Message
  BY Zenon DEF Message
<1>2. m2h \in Seq(Message)
  BY Zenon DEF TypeOK, WireTypeOK
<1>3. m2h' = m2h \/ m2h' = Append(m2h, msg)
  BY Zenon DEF command_sendf
<1> HIDE DEF msg
<1> QED BY <1>1, <1>2, <1>3, SeqAppend

\* The number of the block that the micro-controller expects.
LEMMA McuSeqType == TypeOK => McuSeq \in Nat
  BY SeqModAssumption DEF TypeOK, McuTypeOK, McuSeq

\* command_find_block() accepts a block.
LEMMA FindBlockType == TypeInv /\ FindBlock => TypeInv'
<1> SUFFICES ASSUME TypeInv, FindBlock PROVE TypeInv'
  BY Zenon
<1> USE DEF TypeInv, TypeOK, HostTypeOK, WireTypeOK, McuTypeOK, InReceiveBuf
<1> USE DEF FindBlock, command_find_block
<1>1. h2m[1] \in Block
  BY Zenon, FrontBlock
<1>2. next_sequence' \in WireSeq
  <2>1. h2m[1].seq \in WireSeq
    BY Zenon, <1>1, BlockSeq
  <2>2. next_sequence' = (h2m[1].seq + 1) % SeqMod
    BY Zenon DEF NextSequence
  <2> QED BY Zenon, <2>1, <2>2, NextSeqType
<1>3. executed' \in Seq(Nat)
  BY Zenon, <1>1, SeqAppend DEF Block
<1>4. need_valid' \in BOOLEAN
  BY Zenon
<1> QED BY Zenon, <1>2, <1>3, <1>4 DEF DispatchState

\* command_find_block() refuses a block with another number.
LEMMA FindBlockNakType == TypeInv /\ FindBlockNak => TypeInv'
<1> SUFFICES ASSUME TypeInv, FindBlockNak PROVE TypeInv'
  BY Zenon
<1> USE DEF TypeInv, TypeOK, HostTypeOK, WireTypeOK, McuTypeOK, InReceiveBuf
<1> USE DEF FindBlockNak, command_find_block_nak
<1>1. m2h' \in Seq(Message)
  BY Zenon, SendfType, McuSeqType
<1>2. h2m' \in Seq(Block)
  BY Zenon, SeqHeadTail
<1>3. need_valid' \in BOOLEAN
  BY Zenon
<1> QED BY Zenon, <1>1, <1>2, <1>3 DEF DispatchState

\* command_find_block() skips invalid bytes.
LEMMA FindBlockErrorType == TypeInv /\ FindBlockError => TypeInv'
<1> SUFFICES ASSUME TypeInv, FindBlockError PROVE TypeInv'
  BY Zenon
<1> USE DEF TypeInv, TypeOK, HostTypeOK, WireTypeOK, McuTypeOK, InReceiveBuf
<1> USE DEF FindBlockError, command_find_block_error
<1>1. m2h' \in Seq(Message)
  BY Zenon, SendfType, McuSeqType
<1>2. h2m' \in Seq(Block)
  BY Zenon, SeqHeadTail
<1>3. need_valid' \in BOOLEAN
  BY Zenon
<1> QED BY Zenon, <1>1, <1>2, <1>3 DEF DispatchState

\* console_sendf() while a block is dispatched.
LEMMA RespondType == TypeInv /\ Respond => TypeInv'
<1> SUFFICES ASSUME TypeInv, Respond PROVE TypeInv'
  BY Zenon
<1> USE DEF TypeInv, TypeOK, HostTypeOK, WireTypeOK, McuTypeOK, InReceiveBuf
<1> USE DEF Respond, respond
<1>1. (IF dispatch = "running" THEN h2m[1].n ELSE 0) \in Nat
  BY Zenon, FrontBlock DEF Block
<1>2. m2h' \in Seq(Message)
  BY Zenon, <1>1, SendfType, McuSeqType
<1> QED BY <1>2

\* console_task() removes the block and acknowledges it.
LEMMA SendAckType == TypeInv /\ SendAck => TypeInv'
<1> SUFFICES ASSUME TypeInv, SendAck PROVE TypeInv'
  BY Zenon
<1> USE DEF TypeInv, TypeOK, HostTypeOK, WireTypeOK, McuTypeOK, InReceiveBuf
<1> USE DEF SendAck, command_send_ack
<1>1. m2h' \in Seq(Message)
  BY Zenon, SendfType, McuSeqType
<1>2. h2m' \in Seq(Block)
  BY Zenon, SeqHeadTail
<1> QED BY Zenon, <1>1, <1>2 DEF DispatchState

\* A command shuts the micro-controller down, and its block stays.
LEMMA ShutdownType == TypeInv /\ Shutdown => TypeInv'
  BY Zenon DEF TypeInv, TypeOK, HostTypeOK, WireTypeOK, McuTypeOK, InReceiveBuf,
         Shutdown, shutdown, DispatchState

\* The micro-controller restarts.
LEMMA ResetType == TypeInv /\ Reset => TypeInv'
<1> SUFFICES ASSUME TypeInv, Reset PROVE TypeInv'
  BY Zenon
<1> USE DEF TypeInv, TypeOK, HostTypeOK, WireTypeOK, McuTypeOK, InReceiveBuf
<1>1. PICK came \in 0..Len(h2m), gone \in 0..Len(m2h) : reset(came, gone)
  BY Zenon DEF Reset
<1> USE DEF reset
<1> DEFINE msg == [seq |-> 0, data |-> TRUE, resp |-> 0, abs |-> SeqMod]
<1>2. msg \in Message
  BY SeqModAssumption DEF Message, WireSeq
<1>3. h2m' \in Seq(Block)
  <2>1. \A i \in (came + 1)..Len(h2m) : h2m[i] \in Block
    BY SeqElement
  <2> QED BY <1>1, <2>1, SeqPart
<1>4. m2h' \in Seq(Message)
  <2>1. SubSeq(m2h, 1, gone) \in Seq(Message)
    BY SeqElement, SeqPart
  <2>2. m2h' = Append(SubSeq(m2h, 1, gone), msg)
    BY Zenon, <1>1
  <2> HIDE DEF msg
  <2> QED BY Zenon, <1>2, <2>1, <2>2, SeqAppend
<1>5. next_sequence' \in WireSeq /\ start' \in 1..SeqMod /\ resets' \in Nat
  BY <1>1, SeqModAssumption DEF WireSeq
<1>6. need_valid' \in BOOLEAN
  BY Zenon, <1>1
<1>7. UNCHANGED hostVars
  BY Zenon DEF Reset
<1> QED BY <1>1, <1>3, <1>4, <1>5, <1>6, <1>7 DEF DispatchState

\* The line damages or loses something.
LEMMA LineErrorType == TypeInv /\ LineError => TypeInv'
<1> SUFFICES ASSUME TypeInv, LineError PROVE TypeInv'
  BY Zenon
<1> USE DEF TypeInv, TypeOK, HostTypeOK, WireTypeOK, McuTypeOK, InReceiveBuf, LineError
<1>1. CASE LoseBlock /\ dispatch = "idle"
  BY <1>1, SeqHeadTail DEF LoseBlock
<1>2. CASE CorruptBlock /\ dispatch = "idle"
  <2>1. h2m[1] \in Block /\ 1 \in 1..Len(h2m)
    BY Zenon, <1>2, FrontBlock DEF CorruptBlock
  <2>2. [h2m[1] EXCEPT !.ok = FALSE] \in Block
    BY Zenon, <2>1 DEF Block
  <2>3. h2m' \in Seq(Block)
    BY Zenon, <1>2, <2>1, <2>2, SeqSet DEF CorruptBlock
  <2>4. losses' = losses + 1 /\ m2h' = m2h
    BY <1>2, Zenon DEF CorruptBlock
  <2>5. dispatch' = "idle"
    BY Zenon, <1>2
  <2>6. UNCHANGED <<hostVars, mcuVars>>
    BY Zenon
  <2> QED BY <2>3, <2>4, <2>5, <2>6
<1>3. CASE LoseMessage
  BY <1>3, SeqHeadTail DEF LoseMessage
<1> QED BY Zenon, <1>1, <1>2, <1>3

\* input_event() drops a damaged message.
LEMMA HandleInvalidType == TypeInv /\ HandleInvalid => TypeInv'
<1> SUFFICES ASSUME TypeInv, HandleInvalid PROVE TypeInv'
  BY Zenon
<1> USE DEF TypeInv, TypeOK, HostTypeOK, WireTypeOK, McuTypeOK, InReceiveBuf
<1>1. m2h' \in Seq(Message)
  BY Zenon, SeqHeadTail DEF HandleInvalid, handle_message_invalid
<1> QED BY Zenon, <1>1 DEF HandleInvalid, handle_message_invalid

\* What is left of sent_queue is a part of it.
LEMMA SentAfterType ==
    ASSUME TypeOK, NEW count \in Nat
    PROVE  /\ SentAfter(count) \in Seq(SentBlock)
           /\ count <= Len(sent_queue) =>
                /\ Len(SentAfter(count)) = Len(sent_queue) - count
                /\ \A i \in 1..(Len(sent_queue) - count) :
                      SentAfter(count)[i] = sent_queue[count + i]
<1>1. sent_queue \in Seq(SentBlock)
  BY Zenon DEF TypeOK, HostTypeOK
<1>2. CASE count > Len(sent_queue)
  BY <1>1, <1>2, SeqEmpty DEF SentAfter
<1>3. CASE count <= Len(sent_queue)
  <2>1. SentAfter(count) = SubSeq(sent_queue, count + 1, Len(sent_queue))
    BY <1>1, <1>3 DEF SentAfter
  <2>2. count \in 0..Len(sent_queue) /\ Len(sent_queue) \in count..Len(sent_queue)
    BY <1>1, <1>3, SeqLen
  <2> QED BY <1>1, <2>1, <2>2, SubSeqElements
<1>4. Len(sent_queue) \in Nat
  BY Zenon, <1>1, SeqLen
<1> QED BY <1>2, <1>3, <1>4

\* update_receive_seq() keeps the types.
LEMMA UpdateReceiveSeqType ==
    ASSUME TypeOK, NEW rseq \in Nat, rseq > receive_seq, update_receive_seq(rseq)
    PROVE  /\ sent_queue' \in Seq(SentBlock)
           /\ send_seq' \in Nat /\ receive_seq' \in Nat
           /\ last_receive_sent_time' \in SentTime /\ srtt' \in SentTime
           /\ last_ack_bytes' \in Nat
           /\ rtt_sample_seq' \in Nat
<1> USE DEF TypeOK, HostTypeOK
<1> DEFINE count == rseq - receive_seq
           sent_time == IF count > Len(sent_queue) THEN "zero"
                        ELSE IF sent_queue[count].resent THEN "ambiguous" ELSE "exact"
<1>1. count \in Nat \ {0}
  OBVIOUS
<1>2. sent_queue' \in Seq(SentBlock)
  BY Zenon, <1>1, SentAfterType DEF update_receive_seq
<1>3. send_seq' \in Nat /\ receive_seq' \in Nat
  BY Zenon DEF update_receive_seq, SendSeqAfter
<1>4. last_ack_bytes' \in Nat
  <2>1. CASE count > Len(sent_queue)
    BY Zenon, <2>1 DEF update_receive_seq
  <2>2. CASE count <= Len(sent_queue)
    <3>1. sent_queue[count] \in SentBlock
      BY <1>1, <2>2, SeqElement
    <3> QED BY Zenon, <2>2, <3>1 DEF update_receive_seq, SentBlock
  <2> QED BY <1>1, <2>1, <2>2
<1>5. sent_time \in SentTime
  BY Zenon DEF SentTime
<1>6. /\ last_receive_sent_time' = sent_time
      /\ srtt' = sent_time \/ srtt' = srtt
      /\ rtt_sample_seq' = 0 \/ rtt_sample_seq' = rtt_sample_seq
  BY Zenon DEF update_receive_seq
<1> HIDE DEF sent_time
<1> QED BY <1>2, <1>3, <1>4, <1>5, <1>6

\* handle_message()
LEMMA HandleMessageType == TypeInv /\ HandleMessage => TypeInv'
<1> SUFFICES ASSUME TypeInv, HandleMessage PROVE TypeInv'
  BY Zenon
<1> USE DEF TypeInv, TypeOK, HostTypeOK, WireTypeOK, McuTypeOK, InReceiveBuf
<1> DEFINE msg == Head(m2h)
           rseq == ReceiveSeq(msg.seq)
           queued == IF rseq = receive_seq THEN sent_queue
                     ELSE SentAfter(rseq - receive_seq)
           response == [notify |-> 0, resp |-> msg.resp,
                        sent_time |-> ResponseSentTime(rseq, last_receive_sent_time')]
           notes(woken) == [i \in 1..woken |-> [notify |-> notify_queue[i], resp |-> 0,
                                         sent_time |-> last_receive_sent_time']]
<1>1. msg \in Message /\ m2h' \in Seq(Message)
  <2>1. m2h \in Seq(Message) /\ m2h # <<>> /\ m2h' = Tail(m2h)
    BY Zenon DEF HandleMessage, handle_message
  <2> QED BY Zenon, <2>1, SeqHeadTail
<1>2. rseq \in Nat /\ rseq >= receive_seq
  BY Zenon, <1>1, MessageSeq, ReceiveSeqType
<1>3. PICK woken \in 0..Len(notify_queue) :
        /\ \/ rseq # receive_seq /\ update_receive_seq(rseq)
           \/ rseq = receive_seq
              /\ UNCHANGED <<sent_queue, send_seq, receive_seq, last_ack_bytes, timeVars>>
        /\ retransmit_timer' = IF IsNak(msg.data, rseq, queued) THEN "NOW"
                               ELSE IF rseq = receive_seq THEN retransmit_timer
                               ELSE RetransmitTimerAfter(queued)
        /\ notify_queue' = SubSeq(notify_queue, woken + 1, Len(notify_queue))
        /\ received' = notes(woken) \o (IF msg.data THEN <<response>> ELSE <<>>)
        /\ last_ack_seq' = IF ~msg.data /\ last_ack_seq < rseq
                           THEN rseq ELSE last_ack_seq
  BY Zenon DEF HandleMessage, handle_message
<1>4. UNCHANGED <<ignore_nak_seq, retransmit_seq, h2m, losses, mcuVars>>
  BY Zenon DEF HandleMessage, handle_message
<1> HIDE DEF rseq, msg, queued
<1>5. /\ sent_queue' \in Seq(SentBlock)
      /\ send_seq' \in Nat /\ receive_seq' \in Nat
      /\ last_receive_sent_time' \in SentTime /\ srtt' \in SentTime
      /\ last_ack_bytes' \in Nat
      /\ rtt_sample_seq' \in Nat
  <2>1. CASE rseq = receive_seq
    BY Zenon, <1>3, <2>1
  <2>2. CASE rseq # receive_seq
    <3>1. \A a, b \in Nat : a >= b /\ a # b => a > b
      OBVIOUS
    <3>2. rseq > receive_seq
      BY Zenon, <1>2, <2>2, <3>1
    <3> QED BY Zenon, <1>2, <1>3, <2>2, <3>2, UpdateReceiveSeqType
  <2> QED BY Zenon, <2>1, <2>2
<1>6. retransmit_timer' \in TimerState
  <2>1. retransmit_timer \in TimerState
    BY Zenon DEF TypeOK, HostTypeOK
  <2>2. retransmit_timer' \in {"NOW", retransmit_timer, "NEVER", "LATER"}
    BY Zenon, <1>3 DEF RetransmitTimerAfter
  <2> QED BY Zenon, <2>1, <2>2 DEF TimerState
<1>7. notify_queue' \in Seq(Nat)
  <2>1. \A i \in (woken + 1)..Len(notify_queue) : notify_queue[i] \in Nat
    BY SeqElement
  <2> QED BY <1>3, <2>1, SeqPart
<1>8. last_ack_seq' \in Nat
  BY Zenon, <1>2, <1>3
<1>9. received' \in Seq(Received)
  <2>1. response \in Received
    BY Zenon, <1>1, <1>5 DEF Received, ResponseSentTime, SentTime, Message
  <2>2. notes(woken) \in Seq(Received)
    <3>1. \A i \in 1..woken : [notify |-> notify_queue[i], resp |-> 0,
                               sent_time |-> last_receive_sent_time'] \in Received
      <4> SUFFICES ASSUME NEW i \in 1..woken
                   PROVE  [notify |-> notify_queue[i], resp |-> 0,
                           sent_time |-> last_receive_sent_time'] \in Received
        BY Zenon
      <4>1. notify_queue[i] \in Nat
        BY SeqElement
      <4> QED BY Zenon, <1>5, <4>1 DEF Received
    <3> QED BY <3>1
  <2> HIDE DEF response, notes
  <2>3. (IF msg.data THEN <<response>> ELSE <<>>) \in Seq(Received)
    BY <2>1
  <2> QED BY Zenon, <1>3, <2>2, <2>3, SeqConcat
<1> QED BY Zenon, <1>1, <1>4, <1>5, <1>6, <1>7, <1>8, <1>9

\* What retransmit_event() leaves of the old contents of the wire are the first
\* blocks of it, the last of them perhaps damaged.
LEMMA FlushedBlocks ==
    ASSUME TypeOK, NEW cut \in 0..Len(h2m), NEW partial \in BOOLEAN,
           partial => cut < Len(h2m)
    PROVE  /\ Flushed(cut, partial) \in Seq(Block)
           /\ Len(Flushed(cut, partial)) \in cut..Len(h2m)
           /\ Len(Flushed(cut, partial)) <= cut + 1
           /\ \A i \in 1..Len(Flushed(cut, partial)) :
                 /\ Flushed(cut, partial)[i].n = h2m[i].n
                 /\ Flushed(cut, partial)[i].seq = h2m[i].seq
                 /\ i <= cut => Flushed(cut, partial)[i] = h2m[i]
                 /\ i > cut => ~Flushed(cut, partial)[i].ok
<1> DEFINE kept == SubSeq(h2m, 1, cut)
           damaged == [h2m[cut + 1] EXCEPT !.ok = FALSE]
           last == IF partial THEN <<damaged>> ELSE <<>>
<1>1. h2m \in Seq(Block) /\ Len(h2m) \in Nat
  BY Zenon, SeqLen DEF TypeOK, WireTypeOK
<1>2. /\ kept \in Seq(Block) /\ Len(kept) = cut
      /\ \A i \in 1..cut : kept[i] = h2m[i]
  <2>1. 0 \in 0..Len(h2m) /\ cut \in 0..Len(h2m) /\ 0 + 1 = 1 /\ cut - 0 = cut
    BY <1>1
  <2>2. \A i \in 1..cut : 0 + i = i
    BY <1>1
  <2> QED BY <1>1, <2>1, <2>2, SubSeqElements
<1>3. CASE partial
  <2>1. h2m[cut + 1] \in Block
    BY <1>1, <1>3, SeqElement
  <2>2. /\ damaged \in Block /\ ~damaged.ok
        /\ damaged.n = h2m[cut + 1].n /\ damaged.seq = h2m[cut + 1].seq
    BY Zenon, <2>1 DEF Block
  <2> HIDE DEF kept, damaged
  <2>3. Flushed(cut, partial) = kept \o <<damaged>>
    BY Zenon, <1>3 DEF Flushed, kept, damaged
  <2>4. <<damaged>> \in Seq(Block) /\ Len(<<damaged>>) = 1 /\ <<damaged>>[1] = damaged
    BY <2>2
  <2>5. /\ Flushed(cut, partial) \in Seq(Block)
        /\ Len(Flushed(cut, partial)) = cut + 1
        /\ \A i \in 1..cut : Flushed(cut, partial)[i] = h2m[i]
        /\ Flushed(cut, partial)[cut + 1] = damaged
    BY <1>2, <2>3, <2>4, ConcatElements
  <2>6. cut + 1 \in cut..Len(h2m) /\ 1..(cut + 1) = (1..cut) \cup {cut + 1}
    BY <1>1, <1>3
  <2> QED BY <1>1, <2>2, <2>5, <2>6
<1>4. CASE ~partial
  <2>1. Flushed(cut, partial) = kept
    BY Zenon, <1>2, <1>4, SeqNothing DEF Flushed
  <2> HIDE DEF kept
  <2> QED BY <1>1, <1>2, <2>1
<1> QED BY Zenon, <1>3, <1>4

\* What retransmit_event() does to the wire and to sent_queue.
LEMMA RetransmitEffect ==
    ASSUME TypeInv, Retransmit
    PROVE  /\ h2m' \in Seq(Block)
           /\ sent_queue' \in Seq(SentBlock)
           /\ Len(sent_queue') = Len(sent_queue)
           /\ \A i \in 1..Len(sent_queue) :
                 sent_queue'[i] = [sent_queue[i] EXCEPT !.resent = TRUE]
           /\ \E k \in 0..Len(h2m) :
                 /\ Len(h2m') = k + Len(sent_queue)
                 /\ \A i \in 1..k : h2m'[i].n = h2m[i].n /\ h2m'[i].seq = h2m[i].seq
                 /\ \A i \in 1..k : h2m'[i] = h2m[i] \/ (i = k /\ ~h2m'[i].ok)
                 /\ \A i \in 1..Len(sent_queue) : h2m'[k + i] = OnWire(sent_queue[i])
                 /\ dispatch # "idle" => k > 0 /\ h2m'[1] = h2m[1]
<1>1. PICK cut \in 0..Len(h2m), partial \in BOOLEAN :
        (dispatch # "idle" => cut > 0) /\ retransmit_event(cut, partial)
  BY Zenon DEF Retransmit
<1>2. /\ partial => cut < Len(h2m)
      /\ h2m' = Flushed(cut, partial) \o [i \in 1..Len(sent_queue) |-> OnWire(sent_queue[i])]
      /\ sent_queue' = [i \in 1..Len(sent_queue) |->
                           [sent_queue[i] EXCEPT !.resent = TRUE]]
  BY Zenon, <1>1 DEF retransmit_event
<1>3. sent_queue \in Seq(SentBlock) /\ Len(sent_queue) \in Nat /\ Len(h2m) \in Nat
  BY Zenon, SeqLen DEF TypeInv, TypeOK, HostTypeOK, WireTypeOK
<1>4. \A i \in 1..Len(sent_queue) :
        /\ OnWire(sent_queue[i]) \in Block
        /\ [sent_queue[i] EXCEPT !.resent = TRUE] \in SentBlock
  <2> SUFFICES ASSUME NEW i \in 1..Len(sent_queue)
               PROVE  /\ OnWire(sent_queue[i]) \in Block
                      /\ [sent_queue[i] EXCEPT !.resent = TRUE] \in SentBlock
    BY Zenon
  <2>1. sent_queue[i] \in SentBlock
    BY Zenon, <1>3, SeqElement
  <2> QED BY Zenon, <2>1 DEF OnWire, SentBlock, Block
<1>5. /\ sent_queue' \in Seq(SentBlock) /\ Len(sent_queue') = Len(sent_queue)
      /\ \A i \in 1..Len(sent_queue) :
            sent_queue'[i] = [sent_queue[i] EXCEPT !.resent = TRUE]
  <2>1. sent_queue' \in [1..Len(sent_queue) -> SentBlock]
    BY Zenon, <1>2, <1>4
  <2> QED BY <1>2, <1>3, <2>1, FunctionIsSeq
<1>6. PICK F \in Seq(Block) :
        /\ F = Flushed(cut, partial)
        /\ Len(F) \in cut..Len(h2m) /\ Len(F) <= cut + 1
        /\ \A i \in 1..Len(F) : F[i].n = h2m[i].n /\ F[i].seq = h2m[i].seq
        /\ \A i \in 1..Len(F) : i <= cut => F[i] = h2m[i]
        /\ \A i \in 1..Len(F) : i > cut => ~F[i].ok
  BY <1>1, <1>2, FlushedBlocks DEF TypeInv
<1>7. PICK G \in Seq(Block) :
        /\ G = [i \in 1..Len(sent_queue) |-> OnWire(sent_queue[i])]
        /\ Len(G) = Len(sent_queue)
        /\ \A i \in 1..Len(sent_queue) : G[i] = OnWire(sent_queue[i])
  <2> DEFINE g == [i \in 1..Len(sent_queue) |-> OnWire(sent_queue[i])]
  <2>1. g \in [1..Len(sent_queue) -> Block]
    BY Zenon, <1>4
  <2>2. \A i \in 1..Len(sent_queue) : g[i] = OnWire(sent_queue[i])
    BY Zenon
  <2>3. g = [i \in 1..Len(sent_queue) |-> OnWire(sent_queue[i])]
    BY Zenon
  <2> HIDE DEF g
  <2>4. g \in Seq(Block) /\ Len(g) = Len(sent_queue)
    BY Zenon, <1>3, <2>1, FunctionIsSeq
  <2> QED BY Zenon, <2>2, <2>3, <2>4
<1>8. h2m' = F \o G
  BY Zenon, <1>2, <1>6, <1>7
<1>9. /\ h2m' \in Seq(Block) /\ Len(h2m') = Len(F) + Len(G)
      /\ \A i \in 1..Len(F) : h2m'[i] = F[i]
      /\ \A i \in 1..Len(G) : h2m'[Len(F) + i] = G[i]
  BY <1>8, ConcatElements
<1>10. \A i \in 1..Len(sent_queue) : h2m'[Len(F) + i] = OnWire(sent_queue[i])
  BY Zenon, <1>7, <1>9
<1>11. dispatch # "idle" => Len(F) > 0 /\ h2m'[1] = h2m[1]
  <2>1. cut > 0 => 1 \in 1..Len(F) /\ 1 <= cut /\ Len(F) > 0
    BY <1>3, <1>6
  <2> QED BY <1>1, <1>6, <1>9, <2>1
<1>12. Len(F) \in 0..Len(h2m)
  BY <1>3, <1>6
<1>13. \A i \in 1..Len(F) : h2m'[i].n = h2m[i].n /\ h2m'[i].seq = h2m[i].seq
  BY <1>6, <1>9
<1>14. \A i \in 1..Len(F) : h2m'[i] = h2m[i] \/ (i = Len(F) /\ ~h2m'[i].ok)
  <2>1. \A i \in 1..Len(F) : i <= cut \/ (i > cut /\ i = Len(F))
    BY <1>3, <1>6
  <2> QED BY <1>6, <1>9, <2>1
<1> QED BY Zenon, <1>5, <1>7, <1>9, <1>10, <1>11, <1>12, <1>13, <1>14

\* retransmit_event()
LEMMA RetransmitType == TypeInv /\ Retransmit => TypeInv'
<1> SUFFICES ASSUME TypeInv, Retransmit PROVE TypeInv'
  BY ZenonT(30)
<1>1. h2m' \in Seq(Block) /\ sent_queue' \in Seq(SentBlock)
  BY Zenon, RetransmitEffect
<1>2. InReceiveBuf'
  <2>1. dispatch' = dispatch
    BY Zenon DEF Retransmit
  <2>2. PICK k \in 0..Len(h2m) :
          /\ Len(h2m') = k + Len(sent_queue)
          /\ dispatch # "idle" => k > 0 /\ h2m'[1] = h2m[1]
    BY Zenon, RetransmitEffect
  <2>3. Len(sent_queue) \in Nat
    BY Zenon, SeqLen DEF TypeInv, TypeOK, HostTypeOK
  <2>4. dispatch # "idle" => h2m' # <<>>
    BY <2>2, <2>3, SeqEmpty
  <2> QED BY Zenon, <2>1, <2>2, <2>4 DEF TypeInv, InReceiveBuf
<1> USE DEF TypeInv, TypeOK, HostTypeOK, WireTypeOK, McuTypeOK
<1>3. PICK cut \in 0..Len(h2m), partial \in BOOLEAN : retransmit_event(cut, partial)
  BY Zenon DEF Retransmit
<1>4. ignore_nak_seq' \in Nat /\ retransmit_seq' \in Nat /\ rtt_sample_seq' \in Nat
  BY Zenon, <1>3 DEF retransmit_event, IgnoreNakSeq
<1>5. retransmit_timer' \in TimerState
  BY Zenon, <1>3 DEF retransmit_event, TimerState
<1>6. UNCHANGED <<send_seq, receive_seq, last_ack_seq, last_ack_bytes,
                  last_receive_sent_time, srtt, notify_queue, received,
                  m2h, losses, mcuVars>>
  BY Zenon, <1>3 DEF retransmit_event, Retransmit
<1> QED BY Zenon, <1>1, <1>2, <1>4, <1>5, <1>6

\* Every variable keeps its type, and the block being dispatched its place.
THEOREM TypeCorrect == Spec => []TypeInv
<1>1. Init => TypeInv
  BY Zenon, InitType
<1>2. TypeInv /\ [Next]_vars => TypeInv'
  <2>1. TypeInv /\ UNCHANGED vars => TypeInv'
    BY Zenon DEF TypeInv, TypeOK, WireTypeOK, HostTypeOK, McuTypeOK, InReceiveBuf
  <2> QED
    BY Zenon, <2>1, SendCommandType, HandleMessageType, HandleInvalidType, RetransmitType,
       FindBlockType, FindBlockNakType, FindBlockErrorType, RespondType, SendAckType,
       ShutdownType, ResetType, LineErrorType
       DEF Next, HostStep, McuStep
<1> QED BY <1>1, <1>2, PTL DEF Spec

\* Every variable keeps its type.
THEOREM TypeSafe == Spec => []TypeOK
  BY TypeCorrect, PTL DEF TypeInv

-----------------------------------------------------------------------------
\* The inductive invariant.

\* What the host knows by itself, restarts of the micro-controller included.
HostBooks ==
    /\ 1 <= receive_seq /\ receive_seq <= send_seq
    /\ Len(sent_queue) = send_seq - receive_seq
    /\ Len(sent_queue) <= MaxPending
    /\ \A i \in 1..Len(sent_queue) :
          /\ sent_queue[i].n = receive_seq + i - 1
          /\ sent_queue[i].seq = sent_queue[i].n % SeqMod

\* notify_queue is in order, and holds nothing that an ack has acknowledged.
NotifyBooks ==
    /\ last_ack_seq <= receive_seq
    /\ \A i \in 1..Len(notify_queue) :
          last_ack_seq <= notify_queue[i] /\ notify_queue[i] < send_seq
    /\ \A i, j \in 1..Len(notify_queue) : i < j => notify_queue[i] < notify_queue[j]

-----------------------------------------------------------------------------
\* The host's books.

\* What build_and_send_command() does.
LEMMA SendCommandEffect ==
    ASSUME TypeInv, SendCommand
    PROVE  \E out \in SentBlock :
             /\ out.n = send_seq /\ out.seq = send_seq % SeqMod
             /\ sent_queue' = Append(sent_queue, out)
             /\ h2m' = Append(h2m, OnWire(out))
             /\ send_seq' = send_seq + 1
             /\ send_seq - receive_seq < MaxPending
             /\ receive_seq = 1 => notify_queue = <<>>
             /\ \/ notify_queue' = Append(notify_queue, send_seq)
                \/ notify_queue' = notify_queue /\ receive_seq # 1
             /\ UNCHANGED <<receive_seq, last_ack_seq, m2h, mcuVars>>
<1>1. PICK len \in BlockLens :
        build_and_send_command(len, receive_seq = 1 \/ send_seq \in NotifyBlocks)
  BY Zenon DEF SendCommand
<1> DEFINE out == [seq |-> send_seq % SeqMod, n |-> send_seq, len |-> len,
                   resent |-> FALSE]
<1>2. len \in Nat /\ send_seq % SeqMod \in WireSeq /\ send_seq \in Nat
  BY SizesAssumption, MaskType DEF TypeInv, TypeOK, HostTypeOK
<1>3. out \in SentBlock /\ out.n = send_seq /\ out.seq = send_seq % SeqMod
  BY Zenon, <1>2 DEF SentBlock
<1>4. sent_queue' = Append(sent_queue, out) /\ h2m' = Append(h2m, OnWire(out))
  BY Zenon, <1>1 DEF build_and_send_command
<1>5. /\ send_seq' = send_seq + 1
      /\ send_seq - receive_seq < MaxPending
      /\ \/ notify_queue' = Append(notify_queue, send_seq)
         \/ notify_queue' = notify_queue /\ receive_seq # 1
      /\ UNCHANGED <<receive_seq, last_ack_seq, m2h>>
  BY Zenon, <1>1 DEF build_and_send_command, check_send_command
<1>6. (receive_seq = 1 => notify_queue = <<>>) /\ UNCHANGED mcuVars
  BY Zenon DEF SendCommand
<1> HIDE DEF out
<1> QED BY Zenon, <1>3, <1>4, <1>5, <1>6

\* What handle_message() does to the sequence numbers and to sent_queue.
LEMMA HandleMessageEffect ==
    ASSUME TypeInv, HandleMessage, NEW rseq, rseq = ReceiveSeq(Head(m2h).seq)
    PROVE  /\ m2h # <<>> /\ m2h' = Tail(m2h)
           /\ rseq \in Nat /\ rseq >= receive_seq
           /\ receive_seq' = rseq
           /\ rseq <= send_seq \/ receive_seq = 1
           /\ rseq - receive_seq <= Len(sent_queue) =>
                 /\ send_seq' = send_seq
                 /\ Len(sent_queue') = Len(sent_queue) - (rseq - receive_seq)
                 /\ \A i \in 1..Len(sent_queue') :
                       sent_queue'[i] = sent_queue[(rseq - receive_seq) + i]
           /\ rseq - receive_seq > Len(sent_queue) =>
                 send_seq' = rseq /\ sent_queue' = <<>>
           /\ UNCHANGED <<h2m, mcuVars>>
<1>1. /\ m2h # <<>> /\ m2h' = Tail(m2h) /\ ValidReceiveSeq(rseq)
      /\ \/ rseq # receive_seq /\ update_receive_seq(rseq)
         \/ rseq = receive_seq /\ UNCHANGED <<sent_queue, send_seq, receive_seq>>
      /\ UNCHANGED <<h2m, mcuVars>>
  BY Zenon DEF HandleMessage, handle_message
<1>2. receive_seq \in Nat /\ sent_queue \in Seq(SentBlock) /\ Len(sent_queue) \in Nat
  BY Zenon, SeqLen DEF TypeInv, TypeOK, HostTypeOK
<1>3. rseq \in Nat /\ rseq >= receive_seq
  <2>1. Head(m2h) \in Message
    BY Zenon, <1>1, SeqHeadTail DEF TypeInv, TypeOK, WireTypeOK
  <2>2. Head(m2h).seq \in WireSeq
    BY Zenon, <2>1 DEF Message
  <2> QED BY Zenon, <2>2, ReceiveSeqType DEF TypeInv
<1>4. rseq <= send_seq \/ receive_seq = 1
  BY Zenon, <1>1 DEF ValidReceiveSeq
<1>5. CASE rseq = receive_seq
  <2>1. sent_queue' = sent_queue /\ send_seq' = send_seq /\ receive_seq' = receive_seq
    BY Zenon, <1>1, <1>5
  <2>2. rseq - receive_seq = 0 /\ \A i \in 1..Len(sent_queue) : 0 + i = i
    BY <1>2, <1>5
  <2> QED BY <1>1, <1>2, <1>3, <1>4, <1>5, <2>1, <2>2
<1>6. CASE rseq # receive_seq
  <2>1. update_receive_seq(rseq)
    BY Zenon, <1>1, <1>6
  <2>2. rseq - receive_seq \in Nat
    BY <1>2, <1>3
  <2>3. /\ sent_queue' = SentAfter(rseq - receive_seq)
        /\ receive_seq' = rseq
        /\ send_seq' = IF rseq - receive_seq > Len(sent_queue) THEN rseq ELSE send_seq
    BY Zenon, <2>1 DEF update_receive_seq, SendSeqAfter
  <2>4. CASE rseq - receive_seq <= Len(sent_queue)
    <3>1. /\ Len(sent_queue') = Len(sent_queue) - (rseq - receive_seq)
          /\ \A i \in 1..(Len(sent_queue) - (rseq - receive_seq)) :
                sent_queue'[i] = sent_queue[(rseq - receive_seq) + i]
      BY Zenon, <2>2, <2>3, <2>4, SentAfterType DEF TypeInv
    <3>2. send_seq' = send_seq
      BY <1>2, <2>2, <2>3, <2>4
    <3>3. ~(rseq - receive_seq > Len(sent_queue))
      BY <1>2, <2>2, <2>4
    <3> QED BY ZenonT(30), <1>1, <1>3, <1>4, <2>3, <3>1, <3>2, <3>3
  <2>5. CASE rseq - receive_seq > Len(sent_queue)
    <3>1. send_seq' = rseq /\ sent_queue' = <<>>
      BY Zenon, <2>3, <2>5 DEF SentAfter
    <3>2. ~(rseq - receive_seq <= Len(sent_queue))
      BY <1>2, <2>2, <2>5
    <3> QED BY Zenon, <1>1, <1>3, <1>4, <2>3, <3>1, <3>2
  <2> QED BY <1>2, <2>2, <2>4, <2>5
<1> QED BY Zenon, <1>5, <1>6

\* build_and_send_command() puts the new block at the end of sent_queue.
LEMMA SendCommandHost == TypeInv /\ HostBooks /\ SendCommand => HostBooks'
<1> SUFFICES ASSUME TypeInv, HostBooks, SendCommand PROVE HostBooks'
  BY Zenon
<1>1. PICK out \in SentBlock :
        /\ out.n = send_seq /\ out.seq = send_seq % SeqMod
        /\ sent_queue' = Append(sent_queue, out)
        /\ send_seq' = send_seq + 1 /\ receive_seq' = receive_seq
        /\ send_seq - receive_seq < MaxPending
  BY Zenon, SendCommandEffect
<1>2. /\ sent_queue \in Seq(SentBlock) /\ Len(sent_queue) \in Nat
      /\ send_seq \in Nat /\ receive_seq \in Nat /\ MaxPending \in Nat
  BY Zenon, SeqLen, MaxPendingAssumption DEF TypeInv, TypeOK, HostTypeOK
<1>3. /\ Len(sent_queue') = Len(sent_queue) + 1
      /\ \A i \in 1..Len(sent_queue) : sent_queue'[i] = sent_queue[i]
      /\ sent_queue'[Len(sent_queue) + 1] = out
  BY <1>1, <1>2, SeqAppend
<1>4. ASSUME NEW i \in 1..Len(sent_queue')
      PROVE  /\ sent_queue'[i].n = receive_seq' + i - 1
             /\ sent_queue'[i].seq = sent_queue'[i].n % SeqMod
  <2>1. CASE i \in 1..Len(sent_queue)
    BY Zenon, <1>1, <1>3, <2>1 DEF HostBooks
  <2>2. CASE i = Len(sent_queue) + 1
    <3>1. sent_queue'[i].n = send_seq /\ sent_queue'[i].seq = send_seq % SeqMod
      BY Zenon, <1>1, <1>3, <2>2
    <3>2. send_seq = receive_seq + i - 1
      BY <1>2, <2>2 DEF HostBooks
    <3> QED BY Zenon, <1>1, <3>1, <3>2
  <2> QED BY <1>2, <1>3, <2>1, <2>2
<1>5. /\ 1 <= receive_seq' /\ receive_seq' <= send_seq'
      /\ Len(sent_queue') = send_seq' - receive_seq'
      /\ Len(sent_queue') <= MaxPending
  BY <1>1, <1>2, <1>3 DEF HostBooks
<1> QED BY Zenon, <1>4, <1>5 DEF HostBooks

\* update_receive_seq() removes what is acknowledged from the front of sent_queue.
LEMMA HandleMessageHost == TypeInv /\ HostBooks /\ HandleMessage => HostBooks'
<1> SUFFICES ASSUME TypeInv, HostBooks, HandleMessage PROVE HostBooks'
  BY Zenon
<1> DEFINE rseq == ReceiveSeq(Head(m2h).seq)
           count == rseq - receive_seq
<1>1. /\ rseq \in Nat /\ rseq >= receive_seq
      /\ receive_seq' = rseq
      /\ rseq <= send_seq \/ receive_seq = 1
      /\ count <= Len(sent_queue) =>
            /\ send_seq' = send_seq
            /\ Len(sent_queue') = Len(sent_queue) - count
            /\ \A i \in 1..Len(sent_queue') : sent_queue'[i] = sent_queue[count + i]
      /\ count > Len(sent_queue) => send_seq' = rseq /\ sent_queue' = <<>>
  BY Zenon, HandleMessageEffect
<1>2. /\ sent_queue \in Seq(SentBlock) /\ Len(sent_queue) \in Nat
      /\ send_seq \in Nat /\ receive_seq \in Nat /\ MaxPending \in Nat
  BY Zenon, SeqLen, MaxPendingAssumption DEF TypeInv, TypeOK, HostTypeOK
<1> HIDE DEF rseq
<1>3. CASE count > Len(sent_queue)
  <2>1. sent_queue' = <<>> /\ send_seq' = rseq /\ receive_seq' = rseq
    BY Zenon, <1>1, <1>3
  <2>2. Len(sent_queue') = 0
    BY Zenon, <2>1
  <2> QED BY <1>1, <1>2, <2>1, <2>2 DEF HostBooks
<1>4. CASE count <= Len(sent_queue)
  <2>1. ASSUME NEW i \in 1..Len(sent_queue')
        PROVE  /\ sent_queue'[i].n = receive_seq' + i - 1
               /\ sent_queue'[i].seq = sent_queue'[i].n % SeqMod
    <3>1. count + i \in 1..Len(sent_queue)
      BY <1>1, <1>2, <1>4
    <3>2. sent_queue'[i] = sent_queue[count + i]
      BY Zenon, <1>1, <1>4
    <3>3. receive_seq + (count + i) - 1 = receive_seq' + i - 1
      BY <1>1, <1>2, <3>1
    <3> QED BY Zenon, <3>1, <3>2, <3>3 DEF HostBooks
  <2>2. /\ 1 <= receive_seq' /\ receive_seq' <= send_seq'
        /\ Len(sent_queue') = send_seq' - receive_seq'
        /\ Len(sent_queue') <= MaxPending
    BY <1>1, <1>2, <1>4 DEF HostBooks
  <2> QED BY Zenon, <2>1, <2>2 DEF HostBooks
<1> QED BY <1>1, <1>2, <1>3, <1>4

\* retransmit_event() sends copies and changes neither number nor order.
LEMMA RetransmitHost == TypeInv /\ HostBooks /\ Retransmit => HostBooks'
<1> SUFFICES ASSUME TypeInv, HostBooks, Retransmit PROVE HostBooks'
  BY Zenon
<1>1. send_seq' = send_seq /\ receive_seq' = receive_seq
  BY Zenon DEF Retransmit, retransmit_event
<1>2. /\ Len(sent_queue') = Len(sent_queue)
      /\ \A i \in 1..Len(sent_queue) :
            sent_queue'[i] = [sent_queue[i] EXCEPT !.resent = TRUE]
  BY Zenon, RetransmitEffect
<1>3. ASSUME NEW i \in 1..Len(sent_queue')
      PROVE  /\ sent_queue'[i].n = receive_seq' + i - 1
             /\ sent_queue'[i].seq = sent_queue'[i].n % SeqMod
  <2>1. sent_queue[i] \in SentBlock
    <3>1. sent_queue \in Seq(SentBlock) /\ i \in 1..Len(sent_queue)
      BY Zenon, <1>2 DEF TypeInv, TypeOK, HostTypeOK
    <3> QED BY Zenon, <3>1, SeqElement
  <2>2. sent_queue'[i].n = sent_queue[i].n /\ sent_queue'[i].seq = sent_queue[i].seq
    BY ZenonT(30), <1>2, <2>1, ResentFields
  <2> QED BY Zenon, <1>1, <1>2, <2>2 DEF HostBooks
<1> QED BY Zenon, <1>1, <1>2, <1>3 DEF HostBooks

\* Steps that are not the host's leave its books alone.
HostIdle == McuStep \/ LineError \/ HandleInvalid \/ UNCHANGED vars

\* Such steps change nothing of the host's.
LEMMA HostIdleUnchanged == HostIdle => UNCHANGED hostVars
  BY Zenon DEF HostIdle, McuStep, LineError, FindBlock, FindBlockNak, FindBlockError,
     Respond, SendAck, Shutdown, Reset, HandleInvalid, handle_message_invalid

\* A step is the host's, or leaves the host alone.
LEMMA NextCases ==
    [Next]_vars => SendCommand \/ HandleMessage \/ Retransmit \/ HostIdle
  BY Zenon DEF Next, HostStep, HostIdle

\* Every step keeps the host's books, restarts of the other end included.
LEMMA HostBooksStep == TypeInv /\ HostBooks /\ [Next]_vars => HostBooks'
<1>1. HostBooks /\ UNCHANGED hostVars => HostBooks'
  BY Zenon DEF HostBooks
<1> QED BY Zenon, <1>1, NextCases, HostIdleUnchanged, SendCommandHost, HandleMessageHost,
           RetransmitHost

\* What handle_message() does to the senders that wait.
LEMMA HandleNotifyEffect ==
    ASSUME TypeInv, HandleMessage, NEW rseq, rseq = ReceiveSeq(Head(m2h).seq)
    PROVE  \E woken \in 0..Len(notify_queue) :
             /\ WakeCount(woken, rseq, Head(m2h).data)
             /\ Len(notify_queue') = Len(notify_queue) - woken
             /\ \A i \in 1..Len(notify_queue') :
                   notify_queue'[i] = notify_queue[woken + i]
             /\ last_ack_seq' = IF ~Head(m2h).data /\ last_ack_seq < rseq
                                THEN rseq ELSE last_ack_seq
<1>1. PICK woken \in 0..Len(notify_queue) :
        /\ WakeCount(woken, rseq, Head(m2h).data)
        /\ notify_queue' = SubSeq(notify_queue, woken + 1, Len(notify_queue))
        /\ last_ack_seq' = IF ~Head(m2h).data /\ last_ack_seq < rseq
                           THEN rseq ELSE last_ack_seq
  BY Zenon DEF HandleMessage, handle_message
<1>2. notify_queue \in Seq(Nat) /\ Len(notify_queue) \in Nat
  <2>1. notify_queue \in Seq(Nat)
    BY Zenon DEF TypeInv, TypeOK, HostTypeOK
  <2> QED BY Zenon, <2>1, SeqLen
<1> DEFINE rest == SubSeq(notify_queue, woken + 1, Len(notify_queue))
<1>3. /\ Len(rest) = Len(notify_queue) - woken
      /\ \A i \in 1..(Len(notify_queue) - woken) : rest[i] = notify_queue[woken + i]
  <2> HIDE DEF rest
  <2>1. rest = SubSeq(notify_queue, woken + 1, Len(notify_queue))
    BY Zenon DEF rest
  <2> QED BY <1>2, <2>1, SuffixElements
<1>4. /\ Len(notify_queue') = Len(notify_queue) - woken
      /\ \A i \in 1..(Len(notify_queue) - woken) :
            notify_queue'[i] = notify_queue[woken + i]
  <2>1. notify_queue' = rest
    BY Zenon, <1>1
  <2> HIDE DEF rest
  <2> QED BY Zenon, <1>3, <2>1
<1> QED BY Zenon, <1>1, <1>4

\* build_and_send_command() files the notifications of a block under its number.
LEMMA SendCommandNotify ==
    TypeInv /\ HostBooks /\ NotifyBooks /\ SendCommand => NotifyBooks'
<1> SUFFICES ASSUME TypeInv, HostBooks, NotifyBooks, SendCommand PROVE NotifyBooks'
  BY Zenon
<1>1. /\ send_seq' = send_seq + 1
      /\ notify_queue' = Append(notify_queue, send_seq) \/ notify_queue' = notify_queue
      /\ UNCHANGED <<receive_seq, last_ack_seq>>
  BY Zenon, SendCommandEffect
<1>2. /\ notify_queue \in Seq(Nat) /\ Len(notify_queue) \in Nat
      /\ send_seq \in Nat /\ receive_seq \in Nat /\ last_ack_seq \in Nat
      /\ \A i \in 1..Len(notify_queue) : notify_queue[i] \in Nat
  BY Zenon, SeqLen, SeqElement DEF TypeInv, TypeOK, HostTypeOK
<1>3. CASE notify_queue' = notify_queue
  BY <1>1, <1>2, <1>3 DEF NotifyBooks
<1>4. CASE notify_queue' = Append(notify_queue, send_seq)
  <2>1. /\ Len(notify_queue') = Len(notify_queue) + 1
        /\ \A i \in 1..Len(notify_queue) : notify_queue'[i] = notify_queue[i]
        /\ notify_queue'[Len(notify_queue) + 1] = send_seq
    BY <1>2, <1>4, SeqAppend
  <2>2. \A i \in 1..Len(notify_queue') :
          i \in 1..Len(notify_queue) \/ i = Len(notify_queue) + 1
    BY <1>2, <2>1
  <2>3. last_ack_seq <= send_seq
    BY <1>2 DEF HostBooks, NotifyBooks
  <2>4. ASSUME NEW i \in 1..Len(notify_queue')
        PROVE  last_ack_seq' <= notify_queue'[i] /\ notify_queue'[i] < send_seq'
    <3>1. CASE i \in 1..Len(notify_queue)
      <4>1. last_ack_seq <= notify_queue[i] /\ notify_queue[i] < send_seq
        BY Zenon, <3>1 DEF NotifyBooks
      <4> QED BY <1>1, <1>2, <2>1, <3>1, <4>1
    <3>2. CASE i = Len(notify_queue) + 1
      BY <1>1, <1>2, <2>1, <2>3, <3>2
    <3> QED BY Zenon, <2>2, <3>1, <3>2
  <2>5. ASSUME NEW i \in 1..Len(notify_queue'), NEW j \in 1..Len(notify_queue'), i < j
        PROVE  notify_queue'[i] < notify_queue'[j]
    <3>1. i \in 1..Len(notify_queue)
      BY <1>2, <2>1, <2>5
    <3>2. CASE j \in 1..Len(notify_queue)
      BY ZenonT(30), <2>1, <2>5, <3>1, <3>2 DEF NotifyBooks
    <3>3. CASE j = Len(notify_queue) + 1
      BY Zenon, <2>1, <3>1, <3>3 DEF NotifyBooks
    <3> QED BY Zenon, <2>2, <3>2, <3>3
  <2> QED BY Zenon, <1>1, <2>4, <2>5 DEF NotifyBooks
<1> QED BY Zenon, <1>1, <1>3, <1>4

\* handle_message() takes the notifications that are acknowledged off the front.
LEMMA HandleMessageNotify ==
    TypeInv /\ HostBooks /\ NotifyBooks /\ HandleMessage => NotifyBooks'
<1> SUFFICES ASSUME TypeInv, HostBooks, NotifyBooks, HandleMessage PROVE NotifyBooks'
  BY Zenon
<1> DEFINE rseq == ReceiveSeq(Head(m2h).seq)
           data == Head(m2h).data
<1>1. PICK woken \in 0..Len(notify_queue) :
        /\ WakeCount(woken, rseq, data)
        /\ Len(notify_queue') = Len(notify_queue) - woken
        /\ \A i \in 1..Len(notify_queue') : notify_queue'[i] = notify_queue[woken + i]
        /\ last_ack_seq' = IF ~data /\ last_ack_seq < rseq THEN rseq ELSE last_ack_seq
  BY Zenon, HandleNotifyEffect
<1>2. /\ rseq \in Nat /\ rseq >= receive_seq /\ receive_seq' = rseq
      /\ rseq - receive_seq <= Len(sent_queue) => send_seq' = send_seq
      /\ rseq - receive_seq > Len(sent_queue) => send_seq' = rseq
  BY Zenon, HandleMessageEffect
<1>3. /\ Len(notify_queue) \in Nat /\ Len(sent_queue) \in Nat
      /\ send_seq \in Nat /\ receive_seq \in Nat /\ last_ack_seq \in Nat
      /\ \A i \in 1..Len(notify_queue) : notify_queue[i] \in Nat
  BY Zenon, SeqLen, SeqElement DEF TypeInv, TypeOK, HostTypeOK
<1> HIDE DEF rseq, data
<1>4. last_ack_seq' <= receive_seq'
  BY <1>1, <1>2, <1>3 DEF NotifyBooks
<1>5. send_seq' \in Nat /\ send_seq' >= send_seq
  BY <1>2, <1>3 DEF HostBooks
<1>6. ASSUME NEW i \in 1..Len(notify_queue')
      PROVE  last_ack_seq' <= notify_queue'[i] /\ notify_queue'[i] < send_seq'
  <2>1. /\ woken + i \in 1..Len(notify_queue) /\ woken + 1 \in 1..Len(notify_queue)
        /\ woken < Len(notify_queue)
        /\ notify_queue'[i] = notify_queue[woken + i]
    BY <1>1, <1>3
  <2>2. notify_queue[woken + 1] <= notify_queue[woken + i]
    <3>1. CASE i = 1
      BY <1>3, <2>1, <3>1
    <3>2. CASE i > 1
      BY <1>3, <2>1, <3>2 DEF NotifyBooks
    <3> QED BY <1>1, <1>3, <3>1, <3>2
  <2>3. ~data => notify_queue[woken + 1] >= rseq
    BY <1>1, <1>2, <1>3, <2>1 DEF WakeCount, Wakes
  <2>4. last_ack_seq <= notify_queue[woken + i] /\ notify_queue[woken + i] < send_seq
    BY Zenon, <2>1 DEF NotifyBooks
  <2>5. notify_queue'[i] < send_seq'
    BY <1>3, <1>5, <2>1, <2>4
  <2>6. last_ack_seq' <= notify_queue'[i]
    BY <1>1, <1>2, <1>3, <2>1, <2>2, <2>3, <2>4
  <2> QED BY Zenon, <2>5, <2>6
<1>7. ASSUME NEW i \in 1..Len(notify_queue'), NEW j \in 1..Len(notify_queue'), i < j
      PROVE  notify_queue'[i] < notify_queue'[j]
  <2>1. /\ woken + i \in 1..Len(notify_queue) /\ woken + j \in 1..Len(notify_queue)
        /\ woken + i < woken + j
    BY <1>1, <1>3, <1>7
  <2> QED BY Zenon, <1>1, <2>1 DEF NotifyBooks
<1> QED BY Zenon, <1>4, <1>6, <1>7 DEF NotifyBooks

\* Every step keeps notify_queue in order.
LEMMA NotifyBooksStep ==
    TypeInv /\ HostBooks /\ NotifyBooks /\ [Next]_vars => NotifyBooks'
<1>1. NotifyBooks /\ UNCHANGED hostVars => NotifyBooks'
  BY Zenon DEF NotifyBooks
<1>2. NotifyBooks /\ Retransmit => NotifyBooks'
  BY Zenon DEF NotifyBooks, Retransmit, retransmit_event
<1> QED BY Zenon, <1>1, <1>2, NextCases, HostIdleUnchanged, SendCommandNotify,
           HandleMessageNotify

\* The books are empty at the start.
LEMMA InitHost == Init => HostBooks /\ NotifyBooks
  BY MaxPendingAssumption DEF Init, HostInit, HostBooks, NotifyBooks

\* The host's books agree with each other whatever arrives, restarts of the
\* micro-controller included: for every window and every number of blocks,
\* sent_queue holds the blocks from receive_seq up to send_seq.
THEOREM HostConsistentSafe == Spec => []HostConsistent
<1>1. Init => TypeInv /\ HostBooks /\ NotifyBooks
  BY Zenon, InitType, InitHost
<1>2. TypeInv /\ HostBooks /\ NotifyBooks /\ TypeInv' /\ [Next]_vars
        => HostBooks' /\ NotifyBooks'
  BY Zenon, HostBooksStep, NotifyBooksStep
<1>3. HostBooks /\ NotifyBooks => HostConsistent
  BY Zenon DEF HostBooks, NotifyBooks, HostConsistent
<1> QED BY <1>1, <1>2, <1>3, TypeCorrect, PTL DEF Spec

\* Once connected, the host never takes over another numbering: what a message
\* acknowledges is never more than what was sent.
THEOREM NeverReconnectsSafe == Spec => NeverReconnects
<1>1. TypeInv /\ HostBooks /\ [Next]_vars =>
        [receive_seq # 1 => receive_seq' \in receive_seq..send_seq]_vars
  <2> SUFFICES ASSUME TypeInv, HostBooks, [Next]_vars, receive_seq # 1
               PROVE  receive_seq' \in receive_seq..send_seq
    BY Zenon
  <2>1. receive_seq \in Nat /\ send_seq \in Nat
    BY Zenon DEF TypeInv, TypeOK, HostTypeOK
  <2>2. receive_seq <= send_seq
    BY Zenon DEF HostBooks
  <2>3. HandleMessage => /\ receive_seq' \in Nat /\ receive_seq' >= receive_seq
                         /\ receive_seq' <= send_seq
    BY Zenon, HandleMessageEffect
  <2>4. SendCommand \/ Retransmit \/ HostIdle => receive_seq' = receive_seq
    BY Zenon, HostIdleUnchanged, SendCommandEffect DEF Retransmit, retransmit_event
  <2>5. \/ receive_seq' = receive_seq
        \/ /\ receive_seq' \in Nat /\ receive_seq' >= receive_seq
           /\ receive_seq' <= send_seq
    BY Zenon, <2>3, <2>4, NextCases
  <2> QED BY <2>1, <2>2, <2>5
<1>2. TypeInv /\ HostBooks /\ [Next]_vars => HostBooks'
  BY Zenon, HostBooksStep
<1>3. Init => HostBooks
  BY Zenon, InitHost
<1> QED BY <1>1, <1>2, <1>3, TypeCorrect, PTL DEF Spec, NeverReconnects

-----------------------------------------------------------------------------
\* Delivery.

\* What the micro-controller knows by itself.
McuBooks ==
    /\ next_sequence = McuSeq % SeqMod
    /\ \A i \in 1..Len(executed) : executed[i] = start + i - 1

\* Before the numbering is taken over one block at most was sent, in vain.
NotYetConnected ==
    ~Connected => /\ executed = <<>>
                  /\ send_seq <= 2
                  /\ send_seq = 1 \/ notify_queue # <<>>

\* A block on the wire is less than SeqMod away from the one that is expected,
\* and stays so whatever is ahead of it.
WireNumbers ==
    /\ \A i \in 1..Len(h2m) :
          /\ 1 <= h2m[i].n /\ h2m[i].n < send_seq
          /\ h2m[i].seq = h2m[i].n % SeqMod
          /\ McuSeq < h2m[i].n + SeqMod
    /\ \A i, j \in 1..Len(h2m) : i < j => h2m[i].n + 2 <= h2m[j].n + SeqMod

\* The acks under way never decrease, and none is older than what was acked.
AckNumbers ==
    /\ \A i \in 1..Len(m2h) :
          /\ m2h[i].seq = m2h[i].abs % SeqMod
          /\ start <= m2h[i].abs /\ m2h[i].abs <= McuSeq
          /\ Connected => receive_seq <= m2h[i].abs
    /\ \A i, j \in 1..Len(m2h) : i < j => m2h[i].abs <= m2h[j].abs

\* receive_seq, the micro-controller and send_seq are in this order.
InOrder == Connected => receive_seq <= McuSeq /\ McuSeq <= send_seq

\* All of it, which holds until a restart.
LinkInv == McuBooks /\ NotYetConnected /\ WireNumbers /\ AckNumbers /\ InOrder

\* The inductive invariant.
IInv == HostBooks /\ NotifyBooks /\ (resets = 0 => LinkInv)

-----------------------------------------------------------------------------
\* Facts about single variables that every step below starts from.
LEMMA LinkTypes ==
    ASSUME TypeInv
    PROVE  /\ h2m \in Seq(Block) /\ Len(h2m) \in Nat
           /\ m2h \in Seq(Message) /\ Len(m2h) \in Nat
           /\ executed \in Seq(Nat) /\ Len(executed) \in Nat
           /\ send_seq \in Nat /\ receive_seq \in Nat /\ start \in 1..SeqMod
           /\ McuSeq \in Nat /\ McuSeq >= start
           /\ SeqMod \in Nat /\ SeqMod > 2
           /\ MaxPending \in Nat /\ MaxPending < SeqMod
           /\ \A i \in 1..Len(h2m) : h2m[i] \in Block /\ h2m[i].n \in Nat
           /\ \A i \in 1..Len(m2h) : m2h[i] \in Message /\ m2h[i].abs \in Nat
<1>1. /\ h2m \in Seq(Block) /\ Len(h2m) \in Nat
      /\ m2h \in Seq(Message) /\ Len(m2h) \in Nat
      /\ executed \in Seq(Nat) /\ Len(executed) \in Nat
  BY Zenon, SeqLen DEF TypeInv, TypeOK, WireTypeOK, McuTypeOK
<1>2. \A i \in 1..Len(h2m) : h2m[i] \in Block /\ h2m[i].n \in Nat
  <2>1. \A i \in 1..Len(h2m) : h2m[i] \in Block
    BY Zenon, <1>1, SeqElement
  <2> QED BY Zenon, <2>1 DEF Block
<1>3. \A i \in 1..Len(m2h) : m2h[i] \in Message /\ m2h[i].abs \in Nat
  <2>1. \A i \in 1..Len(m2h) : m2h[i] \in Message
    BY Zenon, <1>1, SeqElement
  <2> QED BY Zenon, <2>1 DEF Message
<1>4. send_seq \in Nat /\ receive_seq \in Nat /\ start \in 1..SeqMod
  BY Zenon DEF TypeInv, TypeOK, HostTypeOK, McuTypeOK
<1>5. McuSeq \in Nat /\ McuSeq >= start
  BY <1>1, <1>4, SeqModAssumption DEF McuSeq
<1> QED BY Zenon, <1>1, <1>2, <1>3, <1>4, <1>5, SeqModAssumption, MaxPendingAssumption

\* The numbers that the steps compare.
LEMMA Numbers ==
    ASSUME TypeInv
    PROVE  /\ send_seq \in Nat /\ receive_seq \in Nat /\ McuSeq \in Nat
           /\ start \in Nat /\ SeqMod \in Nat /\ SeqMod > 2
           /\ \A i \in 1..Len(h2m) : h2m[i].n \in Nat
  BY LinkTypes

\* Nothing but the wires' own contents matters to the numbers on them.
LEMMA WireTaken ==
    ASSUME TypeInv, WireNumbers, h2m' = h2m \/ (h2m # <<>> /\ h2m' = Tail(h2m)),
           UNCHANGED <<send_seq, start, executed>>
    PROVE  WireNumbers'
<1>1. CASE h2m' = h2m
  BY Zenon, <1>1 DEF WireNumbers, McuSeq
<1>2. CASE h2m # <<>> /\ h2m' = Tail(h2m)
  <2>1. /\ Len(h2m') = Len(h2m) - 1
        /\ \A i \in 1..Len(h2m') : h2m'[i] = h2m[i + 1]
    BY Zenon, <1>2, SeqHeadTail, LinkTypes
  <2>2. \A i \in 1..Len(h2m') : i + 1 \in 1..Len(h2m)
    BY <2>1, LinkTypes
  <2>3. \A i, j \in 1..Len(h2m') : i < j => i + 1 < j + 1
    BY <2>1, LinkTypes
  <2> QED BY Zenon, <2>1, <2>2, <2>3 DEF WireNumbers, McuSeq
<1> QED BY Zenon, <1>1, <1>2

\* The acks that are left when the first message is taken, or one is lost, are in order.
LEMMA AcksTaken ==
    ASSUME TypeInv, AckNumbers, m2h' = m2h \/ (m2h # <<>> /\ m2h' = Tail(m2h)),
           UNCHANGED <<receive_seq, start, executed>>
    PROVE  AckNumbers'
<1>1. CASE m2h' = m2h
  BY Zenon, <1>1 DEF AckNumbers, McuSeq, Connected
<1>2. CASE m2h # <<>> /\ m2h' = Tail(m2h)
  <2>1. /\ Len(m2h') = Len(m2h) - 1
        /\ \A i \in 1..Len(m2h') : m2h'[i] = m2h[i + 1]
    BY Zenon, <1>2, SeqHeadTail, LinkTypes
  <2>2. \A i \in 1..Len(m2h') : i + 1 \in 1..Len(m2h)
    BY <2>1, LinkTypes
  <2>3. \A i, j \in 1..Len(m2h') : i < j => i + 1 < j + 1
    BY <2>1, LinkTypes
  <2> QED BY Zenon, <2>1, <2>2, <2>3 DEF AckNumbers, McuSeq, Connected
<1> QED BY Zenon, <1>1, <1>2

\* A message that the micro-controller sends carries its own number, which is
\* not below any that is under way.
LEMMA SendfAcks ==
    ASSUME TypeInv, LinkInv, NEW data \in BOOLEAN, NEW resp \in Nat,
           command_sendf(data, resp, next_sequence, McuSeq),
           UNCHANGED <<receive_seq, start, executed>>
    PROVE  AckNumbers'
<1> DEFINE msg == [seq |-> next_sequence, data |-> data, resp |-> resp, abs |-> McuSeq]
<1>1. m2h' = m2h \/ m2h' = Append(m2h, msg)
  BY Zenon DEF command_sendf
<1>2. next_sequence \in WireSeq
  BY Zenon DEF TypeInv, TypeOK, McuTypeOK
<1>3. msg \in Message /\ msg.seq = next_sequence /\ msg.abs = McuSeq
  BY Zenon, <1>2, LinkTypes DEF Message
<1> HIDE DEF msg
<1>4. CASE m2h' = m2h
  BY Zenon, <1>4 DEF LinkInv, AckNumbers, McuSeq, Connected
<1>5. CASE m2h' = Append(m2h, msg)
  <2>1. /\ Len(m2h') = Len(m2h) + 1
        /\ \A i \in 1..Len(m2h) : m2h'[i] = m2h[i]
        /\ m2h'[Len(m2h) + 1] = msg
    BY <1>3, <1>5, SeqAppend, LinkTypes
  <2>2. \A i \in 1..Len(m2h') : i \in 1..Len(m2h) \/ i = Len(m2h) + 1
    BY <2>1, LinkTypes
  <2>3. McuSeq' = McuSeq /\ Connected' = Connected /\ start' = start
    BY Zenon DEF McuSeq, Connected
  <2>4. ASSUME NEW i \in 1..Len(m2h')
        PROVE  /\ m2h'[i].seq = m2h'[i].abs % SeqMod
               /\ start' <= m2h'[i].abs /\ m2h'[i].abs <= McuSeq'
               /\ Connected' => receive_seq' <= m2h'[i].abs
    <3>1. CASE i \in 1..Len(m2h)
      BY Zenon, <2>1, <2>3, <3>1 DEF LinkInv, AckNumbers
    <3>2. CASE i = Len(m2h) + 1
      BY <1>3, <2>1, <2>3, <3>2, LinkTypes DEF LinkInv, McuBooks, InOrder
    <3> QED BY Zenon, <2>2, <3>1, <3>2
  <2>5. ASSUME NEW i \in 1..Len(m2h'), NEW j \in 1..Len(m2h'), i < j
        PROVE  m2h'[i].abs <= m2h'[j].abs
    <3>1. i \in 1..Len(m2h)
      BY <2>1, <2>5, LinkTypes
    <3>2. CASE j \in 1..Len(m2h)
      BY Zenon, <2>1, <2>5, <3>1, <3>2 DEF LinkInv, AckNumbers
    <3>3. CASE j = Len(m2h) + 1
      BY Zenon, <1>3, <2>1, <3>1, <3>3 DEF LinkInv, AckNumbers
    <3> QED BY Zenon, <2>2, <3>2, <3>3
  <2> QED BY Zenon, <2>4, <2>5 DEF AckNumbers
<1> QED BY Zenon, <1>1, <1>4, <1>5

\* Steps that only move what is on the wires.
LEMMA OnlyWires ==
    ASSUME TypeInv, LinkInv, WireNumbers', AckNumbers',
           UNCHANGED <<hostVars, start, executed, next_sequence>>
    PROVE  LinkInv'
  BY Zenon DEF LinkInv, McuBooks, NotYetConnected, InOrder, Connected, McuSeq

\* A nak carries the number that is expected.
LEMMA FindBlockNakLink == TypeInv /\ LinkInv /\ FindBlockNak => LinkInv'
<1> SUFFICES ASSUME TypeInv, LinkInv, FindBlockNak PROVE LinkInv'
  BY Zenon
<1> USE DEF FindBlockNak, command_find_block_nak
<1>1. WireNumbers'
  BY Zenon, WireTaken DEF LinkInv
<1>2. AckNumbers'
  BY Zenon, SendfAcks
<1> QED BY Zenon, <1>1, <1>2, OnlyWires

\* So does the one after invalid bytes.
LEMMA FindBlockErrorLink == TypeInv /\ LinkInv /\ FindBlockError => LinkInv'
<1> SUFFICES ASSUME TypeInv, LinkInv, FindBlockError PROVE LinkInv'
  BY Zenon
<1> USE DEF FindBlockError, command_find_block_error
<1>1. WireNumbers'
  BY Zenon, WireTaken DEF LinkInv
<1>2. AckNumbers'
  BY Zenon, SendfAcks, AcksTaken DEF LinkInv
<1> QED BY Zenon, <1>1, <1>2, OnlyWires

\* A response carries the number that is expected next.
LEMMA RespondLink == TypeInv /\ LinkInv /\ Respond => LinkInv'
<1> SUFFICES ASSUME TypeInv, LinkInv, Respond PROVE LinkInv'
  BY Zenon
<1> USE DEF Respond, respond
<1>1. WireNumbers'
  BY Zenon, WireTaken DEF LinkInv
<1>2. (IF dispatch = "running" THEN h2m[1].n ELSE 0) \in Nat
  BY Zenon, FrontBlock DEF Block, TypeInv, InReceiveBuf
<1>3. AckNumbers'
  BY Zenon, <1>2, SendfAcks
<1> QED BY Zenon, <1>1, <1>3, OnlyWires

\* An ack carries it, too.
LEMMA SendAckLink == TypeInv /\ LinkInv /\ SendAck => LinkInv'
<1> SUFFICES ASSUME TypeInv, LinkInv, SendAck PROVE LinkInv'
  BY Zenon
<1> USE DEF SendAck, command_send_ack
<1>1. h2m # <<>>
  BY Zenon DEF TypeInv, InReceiveBuf
<1>2. WireNumbers'
  BY Zenon, <1>1, WireTaken DEF LinkInv
<1>3. AckNumbers'
  BY Zenon, SendfAcks
<1> QED BY Zenon, <1>2, <1>3, OnlyWires

\* A shutdown leaves the numbers alone.
LEMMA ShutdownLink == TypeInv /\ LinkInv /\ Shutdown => LinkInv'
  BY Zenon DEF Shutdown, shutdown, LinkInv, McuBooks, NotYetConnected, WireNumbers,
         AckNumbers, InOrder, Connected, McuSeq

\* A damaged message is not looked at.
LEMMA HandleInvalidLink == TypeInv /\ LinkInv /\ HandleInvalid => LinkInv'
<1> SUFFICES ASSUME TypeInv, LinkInv, HandleInvalid PROVE LinkInv'
  BY Zenon
<1> USE DEF HandleInvalid, handle_message_invalid
<1>1. WireNumbers'
  BY Zenon, WireTaken DEF LinkInv
<1>2. AckNumbers'
  BY Zenon, AcksTaken DEF LinkInv
<1> QED BY Zenon, <1>1, <1>2, OnlyWires

\* Whatever is damaged or lost, the rest of both wires is still in order.
LEMMA LineErrorLink == TypeInv /\ LinkInv /\ LineError => LinkInv'
<1> SUFFICES ASSUME TypeInv, LinkInv, LineError PROVE LinkInv'
  BY Zenon
<1>1. UNCHANGED <<hostVars, mcuVars>>
  BY Zenon DEF LineError
<1>2. CASE LoseBlock
  BY Zenon, <1>1, <1>2, WireTaken, AcksTaken, OnlyWires DEF LoseBlock, LinkInv
<1>3. CASE LoseMessage
  BY Zenon, <1>1, <1>3, WireTaken, AcksTaken, OnlyWires DEF LoseMessage, LinkInv
<1>4. CASE CorruptBlock
  <2>1. h2m # <<>> /\ h2m' = [h2m EXCEPT ![1] = [@ EXCEPT !.ok = FALSE]] /\ m2h' = m2h
    BY Zenon, <1>4 DEF CorruptBlock
  <2>2. 1 \in 1..Len(h2m) /\ h2m[1] \in Block
    BY Zenon, <2>1, FrontBlock DEF TypeInv
  <2>3. PICK bad \in Block : /\ bad = [h2m[1] EXCEPT !.ok = FALSE]
                             /\ bad.n = h2m[1].n /\ bad.seq = h2m[1].seq
    <3> DEFINE b == [h2m[1] EXCEPT !.ok = FALSE]
    <3>1. b \in Block /\ b.n = h2m[1].n /\ b.seq = h2m[1].seq
      BY Zenon, <2>2 DEF Block
    <3> QED BY Zenon, <3>1
  <2>4. h2m' = [h2m EXCEPT ![1] = bad]
    BY Zenon, <2>1, <2>3
  <2>5. /\ Len(h2m') = Len(h2m)
        /\ \A i \in 1..Len(h2m) : h2m'[i] = IF i = 1 THEN bad ELSE h2m[i]
    BY <2>2, <2>4, SeqSet, LinkTypes
  <2>6. \A i \in 1..Len(h2m) : h2m'[i].n = h2m[i].n /\ h2m'[i].seq = h2m[i].seq
    BY Zenon, <2>3, <2>5
  <2>7. WireNumbers'
    BY ZenonT(30), <1>1, <2>5, <2>6 DEF LinkInv, WireNumbers, McuSeq
  <2>8. AckNumbers'
    BY Zenon, <1>1, <2>1, AcksTaken DEF LinkInv
  <2> QED BY Zenon, <1>1, <2>7, <2>8, OnlyWires
<1> QED BY Zenon, <1>2, <1>3, <1>4 DEF LineError

\* The block that command_find_block() accepts is the one that is due: a block
\* with the right 4-bit number cannot be of another cycle.
LEMMA AcceptedIsDue ==
    ASSUME TypeInv, HostBooks, LinkInv, h2m # <<>>, h2m[1].seq = next_sequence
    PROVE  Connected /\ h2m[1].n = McuSeq
<1> DEFINE n == h2m[1].n
<1>1. 1 \in 1..Len(h2m)
  BY Zenon, FrontBlock DEF TypeInv
<1>2. /\ n \in Nat /\ 1 <= n /\ n < send_seq /\ McuSeq < n + SeqMod
      /\ n % SeqMod = McuSeq % SeqMod
  BY Zenon, <1>1, LinkTypes DEF LinkInv, WireNumbers, McuBooks
<1> HIDE DEF n
<1>3. SeqMod \in Nat \ {0}
  BY LinkTypes
<1>4. CASE Connected
  <2>1. n < McuSeq + SeqMod
    BY <1>2, <1>4, LinkTypes DEF HostBooks, LinkInv, InOrder
  <2>2. McuSeq \in Nat
    BY Zenon, LinkTypes
  <2>3. n <= McuSeq => n = McuSeq
    BY Zenon, <1>2, <1>3, <2>2, ModInjective
  <2>4. McuSeq <= n => n = McuSeq
    BY Zenon, <1>2, <1>3, <2>1, <2>2, ModInjective
  <2>5. n = McuSeq
    BY <1>2, <2>2, <2>3, <2>4
  <2> QED BY Zenon, <1>4, <2>5 DEF n
<1>5. CASE ~Connected
  <2>1. McuSeq = start /\ start # 1 /\ send_seq <= 2
    BY <1>5, LinkTypes DEF LinkInv, NotYetConnected, McuSeq, Connected
  <2>2. n = 1 /\ 1 <= start /\ start < 1 + SeqMod /\ start \in Nat
    BY <1>2, <2>1, LinkTypes
  <2>3. 1 = start
    BY Zenon, <1>2, <1>3, <2>1, <2>2, ModInjective
  <2> QED BY Zenon, <2>1, <2>3
<1> QED BY Zenon, <1>4, <1>5

\* The block that is accepted is the one that is due, and the window moves with it.
LEMMA FindBlockLink == TypeInv /\ HostBooks /\ LinkInv /\ FindBlock => LinkInv'
<1> SUFFICES ASSUME TypeInv, HostBooks, LinkInv, FindBlock PROVE LinkInv'
  BY Zenon
<1>1. /\ h2m # <<>> /\ h2m[1].seq = next_sequence
      /\ next_sequence' = NextSequence(h2m[1].seq)
      /\ executed' = Append(executed, h2m[1].n)
      /\ UNCHANGED <<hostVars, wireVars, start>>
  BY Zenon DEF FindBlock, command_find_block, IsNext
<1>2. Connected /\ h2m[1].n = McuSeq /\ 1 \in 1..Len(h2m)
  BY Zenon, <1>1, AcceptedIsDue, FrontBlock DEF TypeInv
<1>3. /\ Len(executed') = Len(executed) + 1
      /\ \A i \in 1..Len(executed) : executed'[i] = executed[i]
      /\ executed'[Len(executed) + 1] = McuSeq
  BY <1>1, <1>2, SeqAppend, LinkTypes
<1>4. McuSeq' = McuSeq + 1 /\ Connected' /\ start' = start
  BY <1>1, <1>2, <1>3, LinkTypes DEF McuSeq, Connected
<1>5. McuBooks'
  <2>1. next_sequence' = (McuSeq + 1) % SeqMod
    <3>1. SeqMod \in Nat \ {0} /\ McuSeq \in Nat
      BY LinkTypes
    <3>2. next_sequence' = ((McuSeq % SeqMod) + 1) % SeqMod
      BY Zenon, <1>1 DEF NextSequence, LinkInv, McuBooks
    <3> QED BY Zenon, <3>1, <3>2, ModSucc
  <2>2. ASSUME NEW i \in 1..Len(executed')
        PROVE  executed'[i] = start + i - 1
    <3>1. CASE i \in 1..Len(executed)
      BY Zenon, <1>3, <3>1 DEF LinkInv, McuBooks
    <3>2. CASE i = Len(executed) + 1
      BY <1>3, <3>2, LinkTypes DEF McuSeq
    <3> QED BY <1>3, <3>1, <3>2, LinkTypes
  <2> QED BY Zenon, <1>4, <2>1, <2>2 DEF McuBooks
<1>6. WireNumbers'
  <2>1. ASSUME NEW i \in 1..Len(h2m)
        PROVE  McuSeq + 1 < h2m[i].n + SeqMod
    <3>1. CASE i = 1
      BY <1>2, <3>1, LinkTypes
    <3>2. CASE 1 < i
      <4>1. h2m[1].n + 2 <= h2m[i].n + SeqMod
        BY Zenon, <1>2, <3>2 DEF LinkInv, WireNumbers
      <4>2. h2m[1].n \in Nat /\ h2m[i].n \in Nat
        BY Zenon, <1>2, Numbers
      <4> QED BY <1>2, <4>1, <4>2, Numbers
    <3> QED BY <3>1, <3>2, LinkTypes
  <2> QED BY Zenon, <1>1, <1>4, <2>1 DEF LinkInv, WireNumbers
<1>7. AckNumbers'
  BY <1>1, <1>2, <1>4, LinkTypes DEF LinkInv, AckNumbers
<1>8. InOrder'
  <2>1. McuSeq < send_seq /\ receive_seq <= McuSeq
    BY Zenon, <1>2 DEF LinkInv, WireNumbers, InOrder
  <2> QED BY <1>1, <1>4, <2>1, LinkTypes DEF InOrder
<1> QED BY Zenon, <1>4, <1>5, <1>6, <1>7, <1>8 DEF LinkInv, NotYetConnected

\* Where the micro-controller is, as seen from the blocks the host keeps.
LEMMA McuSeqBound ==
    ASSUME TypeInv, HostBooks, LinkInv, NEW n \in Nat, n >= receive_seq, n >= 1
    PROVE  McuSeq < n + SeqMod
<1>1. CASE Connected
  BY <1>1, LinkTypes DEF HostBooks, LinkInv, InOrder
<1>2. CASE ~Connected
  <2>1. McuSeq = start
    BY <1>2, LinkTypes DEF LinkInv, NotYetConnected, McuSeq
  <2> QED BY <2>1, LinkTypes
<1> QED BY Zenon, <1>1, <1>2

\* A new block is less than SeqMod ahead of the one that is expected.
LEMMA SendCommandLink == TypeInv /\ HostBooks /\ LinkInv /\ SendCommand => LinkInv'
<1> SUFFICES ASSUME TypeInv, HostBooks, LinkInv, SendCommand PROVE LinkInv'
  BY Zenon
<1>1. PICK out \in SentBlock :
        /\ out.n = send_seq /\ out.seq = send_seq % SeqMod
        /\ h2m' = Append(h2m, OnWire(out))
        /\ send_seq' = send_seq + 1
        /\ receive_seq = 1 => notify_queue = <<>>
        /\ \/ notify_queue' = Append(notify_queue, send_seq)
           \/ notify_queue' = notify_queue /\ receive_seq # 1
        /\ UNCHANGED <<receive_seq, m2h, mcuVars>>
  BY Zenon, SendCommandEffect
<1>2. PICK b \in Block : b = OnWire(out) /\ b.n = send_seq /\ b.seq = send_seq % SeqMod
  <2>1. OnWire(out) \in Block /\ OnWire(out).n = out.n /\ OnWire(out).seq = out.seq
    BY Zenon DEF OnWire, SentBlock, Block
  <2> QED BY Zenon, <1>1, <2>1
<1>3. /\ Len(h2m') = Len(h2m) + 1
      /\ \A i \in 1..Len(h2m) : h2m'[i] = h2m[i]
      /\ h2m'[Len(h2m) + 1] = b
  BY <1>1, <1>2, SeqAppend, LinkTypes
<1>4. McuSeq' = McuSeq /\ Connected' = Connected /\ start' = start
  BY Zenon, <1>1 DEF McuSeq, Connected
<1>5. send_seq >= receive_seq /\ send_seq >= 1 /\ McuSeq < send_seq + SeqMod
  BY McuSeqBound, LinkTypes DEF HostBooks
<1>6. \A i \in 1..Len(h2m') : i \in 1..Len(h2m) \/ i = Len(h2m) + 1
  BY Zenon, <1>3, LinkTypes, IndexAdded
<1>7. WireNumbers'
  <2>1. ASSUME NEW i \in 1..Len(h2m')
        PROVE  /\ 1 <= h2m'[i].n /\ h2m'[i].n < send_seq'
               /\ h2m'[i].seq = h2m'[i].n % SeqMod
               /\ McuSeq' < h2m'[i].n + SeqMod
    <3>1. CASE i \in 1..Len(h2m)
      BY <1>1, <1>3, <1>4, <3>1, LinkTypes DEF LinkInv, WireNumbers
    <3>2. CASE i = Len(h2m) + 1
      BY <1>1, <1>2, <1>3, <1>4, <1>5, <3>2, LinkTypes
    <3> QED BY Zenon, <1>6, <3>1, <3>2
  <2>2. ASSUME NEW i \in 1..Len(h2m'), NEW j \in 1..Len(h2m'), i < j
        PROVE  h2m'[i].n + 2 <= h2m'[j].n + SeqMod
    <3>1. i \in 1..Len(h2m)
      BY <1>3, <2>2, LinkTypes
    <3>2. CASE j \in 1..Len(h2m)
      BY Zenon, <1>3, <2>2, <3>1, <3>2 DEF LinkInv, WireNumbers
    <3>3. CASE j = Len(h2m) + 1
      <4>1. h2m[i].n < send_seq /\ h2m'[i].n = h2m[i].n /\ h2m'[j].n = send_seq
        BY Zenon, <1>2, <1>3, <3>1, <3>3 DEF LinkInv, WireNumbers
      <4>2. h2m[i].n \in Nat
        BY Zenon, <3>1, LinkTypes
      <4> QED BY <4>1, <4>2, Numbers
    <3> QED BY Zenon, <1>6, <3>2, <3>3
  <2> QED BY Zenon, <2>1, <2>2 DEF WireNumbers
<1>8. NotYetConnected'
  <2> SUFFICES ASSUME ~Connected
               PROVE  executed' = <<>> /\ send_seq' = 2 /\ notify_queue' # <<>>
    BY <1>4 DEF NotYetConnected
  <2>1. receive_seq = 1 /\ notify_queue = <<>>
    BY Zenon, <1>1 DEF Connected
  <2>2. send_seq = 1 /\ executed = <<>>
    BY Zenon, <2>1 DEF LinkInv, NotYetConnected
  <2>3. notify_queue' # <<>>
    <3>1. notify_queue' = Append(notify_queue, send_seq)
      BY Zenon, <1>1, <2>1
    <3>2. notify_queue \in Seq(Nat) /\ send_seq \in Nat
      BY Zenon DEF TypeInv, TypeOK, HostTypeOK
    <3> QED BY <3>1, <3>2, SeqAppend
  <2> QED BY <1>1, <2>2, <2>3
<1>9. InOrder'
  BY <1>1, <1>4, LinkTypes DEF LinkInv, InOrder
<1>10. AckNumbers' /\ McuBooks'
  BY Zenon, <1>1, <1>4 DEF LinkInv, AckNumbers, McuBooks
<1> QED BY Zenon, <1>7, <1>8, <1>9, <1>10 DEF LinkInv

\* The blocks that are written again are not acknowledged, and still in the window.
LEMMA RetransmitLink == TypeInv /\ HostBooks /\ LinkInv /\ Retransmit => LinkInv'
<1> SUFFICES ASSUME TypeInv, HostBooks, LinkInv, Retransmit PROVE LinkInv'
  BY Zenon
<1>1. UNCHANGED <<send_seq, receive_seq, notify_queue, m2h, mcuVars>>
  BY Zenon DEF Retransmit, retransmit_event
<1>2. PICK k \in 0..Len(h2m) :
        /\ Len(h2m') = k + Len(sent_queue)
        /\ \A i \in 1..k : h2m'[i].n = h2m[i].n /\ h2m'[i].seq = h2m[i].seq
        /\ \A i \in 1..Len(sent_queue) : h2m'[k + i] = OnWire(sent_queue[i])
  BY Zenon, RetransmitEffect
<1>3. Len(sent_queue) \in Nat /\ Len(sent_queue) = send_seq - receive_seq
  BY Zenon, SeqLen DEF TypeInv, TypeOK, HostTypeOK, HostBooks
<1>4. \A i \in 1..Len(sent_queue) :
        /\ h2m'[k + i].n = receive_seq + i - 1
        /\ h2m'[k + i].seq = h2m'[k + i].n % SeqMod
  <2>1. ASSUME NEW i \in 1..Len(sent_queue)
        PROVE  /\ h2m'[k + i].n = sent_queue[i].n
               /\ h2m'[k + i].seq = sent_queue[i].seq
    <3>1. h2m'[k + i] = OnWire(sent_queue[i])
      BY Zenon, <1>2
    <3> QED BY <3>1 DEF OnWire
  <2> QED BY Zenon, <2>1 DEF HostBooks
<1>5. \A i \in 1..Len(h2m') :
        i \in 1..k \/ \E j \in 1..Len(sent_queue) : i = k + j
  <2>1. \A l \in Nat : \A i \in 1..(k + l) :
          i \in 1..k \/ (i - k \in 1..l /\ i = k + (i - k))
    <3>1. k \in Nat
      BY LinkTypes
    <3> QED BY <3>1
  <2> QED BY Zenon, <1>2, <1>3, <2>1
<1>6. \A i \in 1..k : i \in 1..Len(h2m)
  BY LinkTypes
<1>7. McuSeq' = McuSeq /\ Connected' = Connected /\ start' = start
  BY Zenon, <1>1 DEF McuSeq, Connected
<1>8. /\ 1 <= receive_seq /\ receive_seq <= send_seq
      /\ send_seq + 1 <= receive_seq + SeqMod
  BY LinkTypes DEF HostBooks
<1>9. \A j \in 1..Len(sent_queue) :
        /\ receive_seq + j - 1 \in Nat /\ receive_seq + j - 1 >= receive_seq
        /\ receive_seq + j - 1 < send_seq /\ 1 <= receive_seq + j - 1
  BY <1>3, <1>8, Numbers
<1>10. \A a, b \in Nat : a < send_seq /\ b >= receive_seq => a + 2 <= b + SeqMod
  BY <1>8, Numbers
\* What is on the wire now is an old block or one of sent_queue.
<1>11. ASSUME NEW i \in 1..Len(h2m')
      PROVE  /\ h2m'[i].n \in Nat /\ 1 <= h2m'[i].n /\ h2m'[i].n < send_seq
             /\ h2m'[i].seq = h2m'[i].n % SeqMod
             /\ McuSeq < h2m'[i].n + SeqMod
  <2>1. CASE i \in 1..k
    BY Zenon, <1>2, <1>6, <2>1, LinkTypes DEF LinkInv, WireNumbers
  <2>2. ASSUME NEW j \in 1..Len(sent_queue), i = k + j
        PROVE  /\ h2m'[i].n \in Nat /\ 1 <= h2m'[i].n /\ h2m'[i].n < send_seq
               /\ h2m'[i].n >= receive_seq
               /\ h2m'[i].seq = h2m'[i].n % SeqMod
    <3>1. h2m'[i].n = receive_seq + j - 1 /\ h2m'[i].seq = h2m'[i].n % SeqMod
      BY Zenon, <1>4, <2>2
    <3> QED BY Zenon, <1>9, <3>1
  <2>3. ASSUME NEW j \in 1..Len(sent_queue), i = k + j
        PROVE  McuSeq < h2m'[i].n + SeqMod
    BY Zenon, <2>2, <2>3, McuSeqBound
  <2> QED BY Zenon, <1>5, <2>1, <2>2, <2>3
<1>12. ASSUME NEW i \in 1..Len(h2m'), NEW j \in 1..Len(h2m'), i < j
       PROVE  h2m'[i].n + 2 <= h2m'[j].n + SeqMod
  <2>1. CASE j \in 1..k
    <3>1. i \in 1..k
      BY <1>12, <2>1, LinkTypes
    <3>2. h2m[i].n + 2 <= h2m[j].n + SeqMod
      BY Zenon, <1>6, <1>12, <2>1, <3>1 DEF LinkInv, WireNumbers
    <3> QED BY Zenon, <1>2, <2>1, <3>1, <3>2
  <2>2. ASSUME NEW l \in 1..Len(sent_queue), j = k + l
        PROVE  h2m'[i].n + 2 <= h2m'[j].n + SeqMod
    <3>1. h2m'[j].n \in Nat /\ h2m'[j].n >= receive_seq
      <4>1. h2m'[j].n = receive_seq + l - 1
        BY Zenon, <1>4, <2>2
      <4> QED BY Zenon, <1>9, <4>1
    <3>2. h2m'[i].n \in Nat /\ h2m'[i].n < send_seq
      BY Zenon, <1>11
    <3> QED BY Zenon, <1>10, <3>1, <3>2
  <2> QED BY Zenon, <1>5, <2>1, <2>2
<1>13. WireNumbers'
  BY Zenon, <1>1, <1>7, <1>11, <1>12 DEF WireNumbers
<1> QED BY Zenon, <1>1, <1>7, <1>13
        DEF LinkInv, AckNumbers, McuBooks, InOrder, NotYetConnected

\* The full number that handle_message() makes of the number in a message is
\* the one the micro-controller meant.
LEMMA AckIsMeant ==
    ASSUME TypeInv, HostBooks, LinkInv, m2h # <<>>
    PROVE  /\ ReceiveSeq(Head(m2h).seq) = m2h[1].abs
           /\ 1 \in 1..Len(m2h)
           /\ ~Connected => m2h[1].abs = start
<1> DEFINE a == m2h[1].abs
<1>1. 1 \in 1..Len(m2h)
  BY Zenon, FrontOfSeq, LinkTypes
<1>2. Head(m2h) = m2h[1]
  OBVIOUS
<1>3. /\ m2h[1].seq = a % SeqMod /\ start <= a /\ a <= McuSeq /\ a \in Nat
      /\ Connected => receive_seq <= a
  BY Zenon, <1>1, LinkTypes DEF LinkInv, AckNumbers
<1> HIDE DEF a
<1>4. ~Connected => a = start /\ receive_seq = 1
  <2>1. ~Connected => McuSeq = start /\ receive_seq = 1
    BY LinkTypes DEF LinkInv, NotYetConnected, McuSeq, Connected
  <2> QED BY <1>3, <2>1, LinkTypes
<1>5. receive_seq <= a /\ a < receive_seq + SeqMod
  <2>1. CASE Connected
    BY <1>3, <2>1, LinkTypes DEF HostBooks, LinkInv, InOrder
  <2>2. CASE ~Connected
    BY <1>4, <2>2, LinkTypes
  <2> QED BY Zenon, <2>1, <2>2
<1>6. SeqMod \in Nat \ {0} /\ receive_seq \in Nat
  BY LinkTypes
<1>7. ReceiveSeq(a % SeqMod) = a
  BY Zenon, <1>3, <1>5, <1>6, ModRecover DEF ReceiveSeq
<1> QED BY Zenon, <1>1, <1>2, <1>3, <1>4, <1>7 DEF a

\* The number that the host reconstructs is the one that was meant.
LEMMA HandleMessageLink == TypeInv /\ HostBooks /\ LinkInv /\ HandleMessage => LinkInv'
<1> SUFFICES ASSUME TypeInv, HostBooks, LinkInv, HandleMessage PROVE LinkInv'
  BY Zenon
<1> DEFINE rseq == ReceiveSeq(Head(m2h).seq)
<1>1. /\ m2h # <<>> /\ m2h' = Tail(m2h)
      /\ rseq \in Nat /\ rseq >= receive_seq
      /\ receive_seq' = rseq
      /\ rseq - receive_seq <= Len(sent_queue) => send_seq' = send_seq
      /\ rseq - receive_seq > Len(sent_queue) => send_seq' = rseq
      /\ UNCHANGED <<h2m, mcuVars>>
  BY Zenon, HandleMessageEffect
<1>2. /\ rseq = m2h[1].abs /\ 1 \in 1..Len(m2h)
      /\ ~Connected => rseq = start
  BY Zenon, <1>1, AckIsMeant
<1> HIDE DEF rseq
<1>3. /\ Len(m2h') = Len(m2h) - 1
      /\ \A i \in 1..Len(m2h') : m2h'[i] = m2h[i + 1]
  BY Zenon, <1>1, SeqHeadTail, LinkTypes
<1>4. McuSeq' = McuSeq /\ start' = start
  BY Zenon, <1>1 DEF McuSeq
<1>5. start <= rseq /\ rseq <= McuSeq /\ (~Connected => McuSeq = start)
  BY <1>2, LinkTypes DEF LinkInv, AckNumbers, NotYetConnected, McuSeq
<1>6. Len(sent_queue) = send_seq - receive_seq
  BY Zenon DEF HostBooks
<1>7. send_seq' \in Nat /\ send_seq' >= send_seq
  BY <1>1, <1>6, LinkTypes
<1>8. Connected'
  BY <1>1, <1>2, <1>4, <1>5, LinkTypes DEF Connected
<1>9. InOrder'
  <2>1. CASE Connected
    BY <1>1, <1>4, <1>5, <1>7, <2>1, LinkTypes DEF LinkInv, InOrder
  <2>2. CASE ~Connected
    BY <1>1, <1>2, <1>4, <1>5, <1>6, <2>2, LinkTypes DEF InOrder
  <2> QED BY Zenon, <2>1, <2>2
<1>10. WireNumbers'
  <2>1. h2m' = h2m
    BY Zenon, <1>1
  <2>2. \A i \in 1..Len(h2m) : h2m[i].n < send_seq'
    <3>1. ASSUME NEW i \in 1..Len(h2m) PROVE h2m[i].n < send_seq /\ h2m[i].n \in Nat
      BY Zenon, Numbers DEF LinkInv, WireNumbers
    <3> QED BY <1>7, <3>1, Numbers
  <2> QED BY Zenon, <1>4, <2>1, <2>2 DEF LinkInv, WireNumbers
<1>11. AckNumbers'
  <2>1. \A i \in 1..Len(m2h') : i + 1 \in 1..Len(m2h) /\ 1 < i + 1
    BY Zenon, <1>3, LinkTypes, IndexShifted
  <2>2. \A i, j \in 1..Len(m2h') : i < j => i + 1 < j + 1
    BY Zenon, <1>3, LinkTypes, IndexShifted
  <2>3. \A i \in 1..Len(m2h') : receive_seq' <= m2h'[i].abs
    BY ZenonT(30), <1>1, <1>2, <1>3, <2>1 DEF LinkInv, AckNumbers
  <2> QED BY ZenonT(30), <1>3, <1>4, <2>1, <2>2, <2>3 DEF LinkInv, AckNumbers
<1> QED BY Zenon, <1>1, <1>4, <1>8, <1>9, <1>10, <1>11
        DEF LinkInv, McuBooks, NotYetConnected

-----------------------------------------------------------------------------
\* The theorems.

\* Nothing is under way at the start.
LEMMA InitLink == Init => LinkInv
<1> SUFFICES ASSUME Init PROVE LinkInv
  BY Zenon
<1>1. /\ h2m = <<>> /\ m2h = <<>> /\ executed = <<>> /\ send_seq = 1 /\ receive_seq = 1
      /\ start \in StartSeqs /\ next_sequence = start % SeqMod
  BY Zenon DEF Init, WireInit, HostInit, McuInit
<1>2. start \in Nat /\ Len(h2m) = 0 /\ Len(m2h) = 0 /\ Len(executed) = 0
  BY <1>1, SizesAssumption, SeqModAssumption
<1>3. McuSeq = start
  BY <1>2 DEF McuSeq
<1> QED BY <1>1, <1>2, <1>3 DEF LinkInv, McuBooks, NotYetConnected, WireNumbers,
           AckNumbers, InOrder, Connected

\* Only a restart counts as one.
LEMMA NotRestarted ==
    ASSUME TypeInv, [Next]_vars, resets' = 0
    PROVE  resets = 0 /\ ~Reset
<1>1. ~Reset
  <2>1. resets \in Nat
    BY Zenon DEF TypeInv, TypeOK, McuTypeOK
  <2>2. Reset => resets' = resets + 1
    BY Zenon DEF Reset, reset
  <2> QED BY <2>1, <2>2
<1>2. resets = 0
  BY Zenon, <1>1 DEF Next, HostStep, McuStep, LineError, SendCommand, HandleMessage,
     HandleInvalid, Retransmit, FindBlock, FindBlockNak, FindBlockError, Respond,
     SendAck, Shutdown, command_find_block, command_find_block_nak,
     command_find_block_error, respond, command_send_ack, shutdown
<1> QED BY Zenon, <1>1, <1>2

\* Every step keeps it until the micro-controller restarts.
LEMMA LinkStep ==
    TypeInv /\ HostBooks /\ (resets = 0 => LinkInv) /\ [Next]_vars
      => (resets' = 0 => LinkInv')
<1> SUFFICES ASSUME TypeInv, HostBooks, resets = 0 => LinkInv, [Next]_vars, resets' = 0
             PROVE  LinkInv'
  BY Zenon
<1>1. ~Reset
  BY Zenon, NotRestarted
<1>2. resets = 0
  BY Zenon, NotRestarted
<1>3. UNCHANGED vars => LinkInv'
  BY Zenon, <1>2 DEF LinkInv, McuBooks, NotYetConnected, WireNumbers, AckNumbers, InOrder,
     Connected, McuSeq
<1> QED
  BY Zenon, <1>1, <1>2, <1>3, SendCommandLink, HandleMessageLink, HandleInvalidLink,
     RetransmitLink, FindBlockLink, FindBlockNakLink, FindBlockErrorLink, RespondLink,
     SendAckLink, ShutdownLink, LineErrorLink
     DEF Next, HostStep, McuStep

\* The inductive invariant: the host's books, the order of the senders that
\* wait, and, until the micro-controller restarts, the numbers on both wires.
THEOREM Invariant == Spec => [](TypeInv /\ IInv)
<1>1. Init => IInv
  BY Zenon, InitHost, InitLink DEF IInv
<1>2. TypeInv /\ IInv /\ [Next]_vars => IInv'
  BY Zenon, HostBooksStep, NotifyBooksStep, LinkStep DEF IInv
<1> QED BY <1>1, <1>2, TypeCorrect, PTL DEF Spec

\* The micro-controller dispatches every block of the connection exactly once
\* and in order, however often it is retransmitted, for every number of
\* outstanding blocks below the number of sequence numbers.
THEOREM DispatchSafe == Spec => []DispatchedOnceInOrder
<1>1. IInv => DispatchedOnceInOrder
  BY Zenon DEF IInv, LinkInv, McuBooks, DispatchedOnceInOrder
<1> QED BY <1>1, Invariant, PTL

\* What the host counts as acknowledged has been dispatched: update_receive_seq()
\* never drops a block from sent_queue that the micro-controller still needs.
THEOREM AckSafe == Spec => []AckedWasDispatched
<1>1. IInv => AckedWasDispatched
  BY Zenon DEF IInv, LinkInv, InOrder, AckedWasDispatched
<1> QED BY <1>1, Invariant, PTL

-----------------------------------------------------------------------------
\* The stream.

\* The numbers of the blocks from a up to, and not including, b.
BlocksFrom(a, b) == [i \in 1..(b - a) |-> a + i - 1]

\* Such numbers are a sequence of natural numbers.
LEMMA FromIsSeq ==
    ASSUME NEW a \in Nat, NEW b \in Nat, a <= b
    PROVE  /\ BlocksFrom(a, b) \in Seq(Nat)
           /\ Len(BlocksFrom(a, b)) = b - a
           /\ \A i \in 1..(b - a) : BlocksFrom(a, b)[i] = a + i - 1
<1>1. b - a \in Nat /\ \A i \in 1..(b - a) : a + i - 1 \in Nat
  OBVIOUS
<1>2. BlocksFrom(a, b) \in [1..(b - a) -> Nat]
  BY Zenon, <1>1 DEF BlocksFrom
<1>3. \A i \in 1..(b - a) : BlocksFrom(a, b)[i] = a + i - 1
  BY Zenon DEF BlocksFrom
<1> QED BY Zenon, <1>1, <1>2, <1>3, FunctionIsSeq

\* One more at the end.
LEMMA FromAppend ==
    ASSUME NEW a \in Nat, NEW b \in Nat, a <= b
    PROVE  BlocksFrom(a, b + 1) = Append(BlocksFrom(a, b), b)
<1>1. /\ BlocksFrom(a, b) \in Seq(Nat) /\ Len(BlocksFrom(a, b)) = b - a
      /\ \A i \in 1..(b - a) : BlocksFrom(a, b)[i] = a + i - 1
  BY Zenon, FromIsSeq
<1>2. /\ BlocksFrom(a, b + 1) \in Seq(Nat) /\ Len(BlocksFrom(a, b + 1)) = (b - a) + 1
      /\ \A i \in 1..((b - a) + 1) : BlocksFrom(a, b + 1)[i] = a + i - 1
  <2>1. b + 1 \in Nat /\ a <= b + 1 /\ (b + 1) - a = (b - a) + 1
    OBVIOUS
  <2> QED BY <2>1, FromIsSeq
<1> DEFINE s == Append(BlocksFrom(a, b), b)
<1>3. /\ s \in Seq(Nat) /\ Len(s) = (b - a) + 1
      /\ \A i \in 1..(b - a) : s[i] = a + i - 1
      /\ s[(b - a) + 1] = b
  BY <1>1, SeqAppend
<1>4. \A i \in 1..((b - a) + 1) : s[i] = a + i - 1
  <2>1. \A i \in 1..((b - a) + 1) : i \in 1..(b - a) \/ i = (b - a) + 1
    OBVIOUS
  <2>2. a + ((b - a) + 1) - 1 = b
    OBVIOUS
  <2> HIDE DEF s
  <2> QED BY Zenon, <1>3, <2>1, <2>2
<1> DEFINE u == BlocksFrom(a, b + 1)
<1>5. s \in Seq(Nat) /\ u \in Seq(Nat) /\ Len(s) = Len(u) /\ \A i \in 1..Len(s) : s[i] = u[i]
  <2> HIDE DEF s
  <2> QED BY Zenon, <1>2, <1>3, <1>4
<1> HIDE DEF s, u
<1>6. u = s
  BY Zenon, <1>5, SeqSame
<1> QED BY Zenon, <1>6 DEF s, u

\* One less at the front.
LEMMA FromTail ==
    ASSUME NEW a \in Nat, NEW b \in Nat, a < b
    PROVE  /\ BlocksFrom(a, b) # <<>>
           /\ Head(BlocksFrom(a, b)) = a
           /\ Tail(BlocksFrom(a, b)) = BlocksFrom(a + 1, b)
<1> DEFINE s == BlocksFrom(a, b)
<1>1. /\ s \in Seq(Nat) /\ Len(s) = b - a
      /\ \A i \in 1..(b - a) : s[i] = a + i - 1
  BY FromIsSeq
<1>2. /\ BlocksFrom(a + 1, b) \in Seq(Nat) /\ Len(BlocksFrom(a + 1, b)) = (b - a) - 1
      /\ \A i \in 1..((b - a) - 1) : BlocksFrom(a + 1, b)[i] = a + i
  <2>1. a + 1 \in Nat /\ a + 1 <= b /\ b - (a + 1) = (b - a) - 1
    OBVIOUS
  <2>2. \A i \in Int : (a + 1) + i - 1 = a + i
    OBVIOUS
  <2> QED BY <2>1, <2>2, FromIsSeq
<1> HIDE DEF s
<1>3. s # <<>> /\ Head(s) = s[1] /\ s[1] = a
  <2>1. 1 \in 1..(b - a)
    OBVIOUS
  <2>2. s # <<>>
    BY <1>1, SeqEmpty
  <2> QED BY <1>1, <2>1, <2>2
<1>4. /\ Tail(s) \in Seq(Nat) /\ Len(Tail(s)) = (b - a) - 1
      /\ \A i \in 1..((b - a) - 1) : Tail(s)[i] = s[i + 1]
  BY <1>1, <1>3, SeqHeadTail
<1>5. \A i \in 1..((b - a) - 1) : s[i + 1] = a + i
  <2>1. \A i \in 1..((b - a) - 1) : i + 1 \in 1..(b - a) /\ a + (i + 1) - 1 = a + i
    OBVIOUS
  <2> QED BY Zenon, <1>1, <2>1
<1>6. Tail(s) = BlocksFrom(a + 1, b)
  <2> DEFINE t == Tail(s)  u == BlocksFrom(a + 1, b)
  <2>1. t \in Seq(Nat) /\ u \in Seq(Nat) /\ Len(t) = Len(u)
    BY Zenon, <1>2, <1>4
  <2>2. \A i \in 1..Len(t) : t[i] = u[i]
    BY ZenonT(30), <1>2, <1>4, <1>5
  <2> HIDE DEF t, u
  <2>3. t = u
    BY Zenon, <2>1, <2>2, SeqSame
  <2> QED BY Zenon, <2>3 DEF t, u
<1> QED BY Zenon, <1>3, <1>6 DEF s

\* The blocks that wait to be dispatched are those from McuSeq on: sent_queue may
\* still hold some before it.
LEMMA PendingIs ==
    ASSUME TypeInv, HostBooks, LinkInv
    PROVE  PendingBlocks = BlocksFrom(IF Connected THEN McuSeq ELSE receive_seq, send_seq)
<1> DEFINE a == IF Connected THEN McuSeq ELSE receive_seq
           first == IF Connected THEN McuSeq - receive_seq + 1 ELSE 1
<1>1. a \in Nat /\ receive_seq <= a /\ a <= send_seq /\ first = a - receive_seq + 1
  BY LinkTypes DEF HostBooks, LinkInv, InOrder
<1>2. Len(sent_queue) = send_seq - receive_seq
  BY Zenon DEF HostBooks
<1>3. Len(sent_queue) - first + 1 = send_seq - a
  BY <1>1, <1>2, Numbers
<1>4. \A i \in 1..(send_seq - a) : sent_queue[first + i - 1].n = a + i - 1
  <2> HIDE DEF a, first
  <2>1. send_seq \in Nat /\ receive_seq \in Nat /\ a \in Nat
    BY Zenon, <1>1, LinkTypes
  <2>2. \A i \in 1..(send_seq - a) :
          /\ first + i - 1 \in 1..(send_seq - receive_seq)
          /\ receive_seq + (first + i - 1) - 1 = a + i - 1
    BY <1>1, <2>1
  <2> QED BY Zenon, <1>2, <2>2 DEF HostBooks
<1>5. PendingBlocks = [i \in 1..(Len(sent_queue) - first + 1) |-> sent_queue[first + i - 1].n]
  BY Zenon DEF PendingBlocks
<1> HIDE DEF a, first
<1>6. PendingBlocks = [i \in 1..(send_seq - a) |-> a + i - 1]
  BY Zenon, <1>3, <1>4, <1>5
<1> QED BY Zenon, <1>6 DEF BlocksFrom, a

\* The same after a step.
LEMMA PendingIsNext ==
    ASSUME TypeInv', HostBooks', LinkInv'
    PROVE  PendingBlocks' = BlocksFrom(IF Connected' THEN McuSeq' ELSE receive_seq', send_seq')
<1>1. (TypeInv /\ HostBooks /\ LinkInv =>
        PendingBlocks = BlocksFrom(IF Connected THEN McuSeq ELSE receive_seq, send_seq))'
  BY PendingIs, PTL
<1> QED BY Zenon, <1>1 DEF BlocksFrom

\* Steps that leave the numbers of both ends alone do not show in the stream.
LEMMA StreamStutters ==
    ASSUME TypeInv, HostBooks, LinkInv, TypeInv', HostBooks', LinkInv',
           UNCHANGED <<send_seq, receive_seq, executed, start>>
    PROVE  UNCHANGED Stream!vars
<1>1. Connected' = Connected /\ McuSeq' = McuSeq
  BY Zenon DEF Connected, McuSeq
<1>2. PendingBlocks' = PendingBlocks
  BY Zenon, <1>1, PendingIs, PendingIsNext
<1> QED BY Zenon, <1>1, <1>2 DEF Stream!vars

\* build_and_send_command() sends a block.
LEMMA SendCommandStream ==
    ASSUME TypeInv, HostBooks, LinkInv, TypeInv', HostBooks', LinkInv', SendCommand
    PROVE  Stream!Next
<1>1. send_seq < MaxSeq
  BY Zenon DEF SendCommand, build_and_send_command
<1>2. send_seq' = send_seq + 1 /\ UNCHANGED <<receive_seq, mcuVars>>
  BY Zenon, SendCommandEffect
<1>3. send_seq \in 1..MaxSeq
  BY <1>1, LinkTypes, BoundsAssumption DEF HostBooks
<1>4. Connected' = Connected /\ McuSeq' = McuSeq
  BY Zenon, <1>2 DEF Connected, McuSeq
<1> DEFINE a == IF Connected THEN McuSeq ELSE receive_seq
<1>5. a \in Nat /\ a <= send_seq /\ send_seq \in Nat
  BY Zenon, LinkTypes DEF HostBooks, LinkInv, InOrder
<1>6. PendingBlocks = BlocksFrom(a, send_seq) /\ PendingBlocks' = BlocksFrom(a, send_seq + 1)
  BY Zenon, <1>2, <1>4, PendingIs, PendingIsNext
<1> HIDE DEF a
<1>7. PendingBlocks' = Append(PendingBlocks, send_seq)
  BY Zenon, <1>5, <1>6, FromAppend
<1>8. Stream!Submit(send_seq)
  BY Zenon, <1>2, <1>4, <1>7 DEF Stream!Submit
<1> QED BY Zenon, <1>3, <1>8 DEF Stream!Next

\* command_find_block() executes the oldest block that was not executed.
LEMMA FindBlockStream ==
    ASSUME TypeInv, HostBooks, LinkInv, TypeInv', HostBooks', LinkInv', FindBlock
    PROVE  Stream!Next
<1>1. /\ h2m # <<>> /\ h2m[1].seq = next_sequence
      /\ executed' = Append(executed, h2m[1].n)
      /\ UNCHANGED <<hostVars, start>>
  BY Zenon DEF FindBlock, command_find_block, IsNext
<1>2. Connected /\ h2m[1].n = McuSeq /\ 1 \in 1..Len(h2m)
  BY Zenon, <1>1, AcceptedIsDue, FrontBlock DEF TypeInv
<1>3. McuSeq < send_seq
  BY Zenon, <1>2 DEF LinkInv, WireNumbers
<1>4. Connected' /\ McuSeq' = McuSeq + 1
  <2>1. Len(executed') = Len(executed) + 1
    BY Zenon, <1>1, <1>2, SeqAppend, LinkTypes
  <2> QED BY <1>1, <1>2, <2>1, LinkTypes DEF McuSeq, Connected
<1>5. /\ PendingBlocks = BlocksFrom(McuSeq, send_seq)
      /\ PendingBlocks' = BlocksFrom(McuSeq + 1, send_seq)
  BY Zenon, <1>1, <1>2, <1>4, PendingIs, PendingIsNext
<1>6. /\ PendingBlocks # <<>> /\ Head(PendingBlocks) = McuSeq
      /\ PendingBlocks' = Tail(PendingBlocks)
  BY Zenon, <1>3, <1>5, LinkTypes, FromTail
<1>7. Stream!Execute
  BY Zenon, <1>1, <1>2, <1>4, <1>6 DEF Stream!Execute
<1> QED BY Zenon, <1>7 DEF Stream!Next

\* update_receive_seq() acknowledges blocks that were executed.
LEMMA HandleMessageStream ==
    ASSUME TypeInv, HostBooks, LinkInv, TypeInv', HostBooks', LinkInv', HandleMessage
    PROVE  Stream!Next \/ UNCHANGED Stream!vars
<1> DEFINE rseq == ReceiveSeq(Head(m2h).seq)
<1>1. /\ m2h # <<>> /\ rseq \in Nat /\ rseq >= receive_seq
      /\ receive_seq' = rseq
      /\ rseq <= send_seq \/ receive_seq = 1
      /\ rseq - receive_seq <= Len(sent_queue) => send_seq' = send_seq
      /\ rseq - receive_seq > Len(sent_queue) => send_seq' = rseq
      /\ UNCHANGED mcuVars
  BY Zenon, HandleMessageEffect
<1>2. /\ rseq = m2h[1].abs /\ 1 \in 1..Len(m2h)
      /\ ~Connected => rseq = start
  BY Zenon, <1>1, AckIsMeant
<1> HIDE DEF rseq
<1>3. start <= rseq /\ rseq <= McuSeq
  BY Zenon, <1>2 DEF LinkInv, AckNumbers
<1>4. Len(sent_queue) = send_seq - receive_seq
  BY Zenon DEF HostBooks
<1>5. CASE Connected
  <2>1. McuSeq' = McuSeq /\ start' = start /\ executed' = executed
    BY Zenon, <1>1 DEF McuSeq
  <2>2. rseq <= send_seq
    <3>1. McuSeq <= send_seq
      BY Zenon, <1>5 DEF LinkInv, InOrder
    <3>2. send_seq \in Nat /\ McuSeq \in Nat
      BY Zenon, LinkTypes
    <3> QED BY <1>1, <1>3, <3>1, <3>2
  <2>3. send_seq' = send_seq
    BY <1>1, <1>4, <2>2, LinkTypes
  <2>4. Connected'
    BY <1>1, <1>3, <1>5, <2>1, LinkTypes DEF Connected
  <2>5. PendingBlocks' = PendingBlocks
    BY Zenon, <1>5, <2>1, <2>3, <2>4, PendingIs, PendingIsNext
  <2>6. CASE rseq = receive_seq
    BY Zenon, <1>1, <1>5, <2>1, <2>4, <2>5, <2>6 DEF Stream!vars
  <2>7. CASE rseq # receive_seq
    <3>1. rseq - start \in ((receive_seq - start) + 1)..Len(executed)
      <4>1. start \in Nat /\ receive_seq \in Nat /\ Len(executed) \in Nat
        BY LinkTypes
      <4>2. rseq \in Nat /\ receive_seq <= rseq /\ rseq <= start + Len(executed)
        BY Zenon, <1>1, <1>3 DEF McuSeq
      <4> QED BY <2>7, <4>1, <4>2
    <3>2. Stream!Confirm
      BY Zenon, <1>1, <1>5, <2>1, <2>4, <2>5, <3>1 DEF Stream!Confirm
    <3> QED BY Zenon, <3>2 DEF Stream!Next
  <2> QED BY Zenon, <2>6, <2>7
<1>6. CASE ~Connected
  <2>1. receive_seq' = start /\ start' = start /\ executed' = executed /\ start # 1
    BY Zenon, <1>1, <1>2, <1>6 DEF Connected
  <2>2. Connected'
    BY Zenon, <2>1 DEF Connected
  <2>3. McuSeq = start /\ McuSeq' = start
    <3>1. start \in Nat /\ Len(executed) = 0
      BY Zenon, <1>6, Numbers, SeqEmpty DEF LinkInv, NotYetConnected
    <3>2. McuSeq = start
      BY <3>1 DEF McuSeq
    <3> QED BY Zenon, <2>1, <3>2 DEF McuSeq
  <2>4. send_seq' = start
    <3>1. send_seq <= 2 /\ receive_seq = 1 /\ rseq = start /\ start >= 2
      BY <1>2, <1>6, <2>1, LinkTypes DEF LinkInv, NotYetConnected, Connected
    <3> QED BY <1>1, <1>4, <3>1, LinkTypes DEF HostBooks
  <2>5. PendingBlocks' = BlocksFrom(start, start)
    BY Zenon, <2>2, <2>3, <2>4, PendingIsNext
  <2>6. PendingBlocks' = <<>>
    <3>1. start \in Nat
      BY LinkTypes
    <3> QED BY <2>5, <3>1, FromIsSeq, SeqEmpty
  <2>7. Stream!Connect
    BY <1>6, <2>1, <2>2, <2>6, LinkTypes DEF Stream!Connect
  <2> QED BY Zenon, <2>7 DEF Stream!Next
<1> QED BY Zenon, <1>5, <1>6

\* Every step of the link is a step of the stream, or nothing changes there.
LEMMA StreamStep ==
    ASSUME TypeInv, HostBooks, LinkInv, TypeInv', HostBooks', LinkInv', [Next]_vars, ~Reset
    PROVE  [Stream!Next]_Stream!vars
<1>1. Retransmit => UNCHANGED <<send_seq, receive_seq, executed, start>>
  BY Zenon DEF Retransmit, retransmit_event
<1>2. HostIdle /\ ~FindBlock => UNCHANGED <<send_seq, receive_seq, executed, start>>
  <2>1. HostIdle => UNCHANGED hostVars
    BY Zenon, HostIdleUnchanged
  <2>2. HostIdle /\ ~FindBlock => UNCHANGED <<executed, start>>
    BY Zenon DEF HostIdle, McuStep, LineError, FindBlockNak, FindBlockError, Respond, SendAck,
       Shutdown, HandleInvalid, command_find_block_nak, command_find_block_error,
       respond, command_send_ack, shutdown
  <2> QED BY Zenon, <2>1, <2>2
<1>3. SendCommand \/ FindBlock => Stream!Next
  BY Zenon, SendCommandStream, FindBlockStream
<1>4. HandleMessage => Stream!Next \/ UNCHANGED Stream!vars
  BY Zenon, HandleMessageStream
<1> QED BY Zenon, <1>1, <1>2, <1>3, <1>4, NextCases, StreamStutters

\* Nothing was sent at the start.
LEMMA StreamInit == Init => Stream!Init
<1> SUFFICES ASSUME Init PROVE Stream!Init
  BY Zenon
<1>1. executed = <<>> /\ send_seq = 1 /\ receive_seq = 1 /\ sent_queue = <<>>
  BY Zenon DEF Init, HostInit, McuInit
<1>2. start \in Nat
  BY SizesAssumption, SeqModAssumption DEF Init, McuInit
<1>3. Connected \in BOOLEAN
  BY Zenon DEF Connected
<1>4. PendingBlocks = <<>>
  <2>1. PendingBlocks = BlocksFrom(IF Connected THEN McuSeq ELSE receive_seq, send_seq)
    BY Zenon, InitType, InitHost, InitLink, PendingIs
  <2>2. (IF Connected THEN McuSeq ELSE receive_seq) = 1
    BY <1>1, <1>2 DEF Connected, McuSeq
  <2>3. PendingBlocks = BlocksFrom(1, 1)
    BY Zenon, <1>1, <2>1, <2>2
  <2>4. BlocksFrom(1, 1) \in Seq(Nat) /\ Len(BlocksFrom(1, 1)) = 0
    BY FromIsSeq
  <2> QED BY Zenon, <2>3, <2>4, SeqEmpty
<1>5. (IF Connected THEN receive_seq - start ELSE 0) = 0
  BY <1>1, <1>2 DEF Connected
<1> QED BY Zenon, <1>1, <1>3, <1>4, <1>5 DEF Stream!Init

\* The host and the micro-controller together implement the command stream, for
\* every window, numbering, number of blocks and losses, as long as the
\* micro-controller does not restart (a restart drops what it has accepted): no
\* block is lost, repeated or reordered by retransmit_event(), and receive_seq only
\* advances to what was dispatched.
THEOREM StreamImplemented ==
    ASSUME MaxReset = 0
    PROVE  Spec => ImplementsStream
<1> DEFINE NoReset == resets = 0
<1>1. Init => Stream!Init /\ NoReset
  BY Zenon, StreamInit DEF Init, McuInit
<1>2. TypeInv /\ NoReset /\ [Next]_vars => ~Reset /\ NoReset'
  <2>1. ASSUME TypeInv, NoReset PROVE ~Reset
    <3>1. Reset => resets < MaxReset
      BY Zenon DEF Reset, reset
    <3> QED BY <2>1, <3>1
  <2>2. [Next]_vars /\ ~Reset => resets' = resets
    BY Zenon DEF Next, HostStep, McuStep, LineError, SendCommand, HandleMessage,
       HandleInvalid, Retransmit, FindBlock, FindBlockNak, FindBlockError, Respond,
       SendAck, Shutdown, command_find_block, command_find_block_nak,
       command_find_block_error, respond, command_send_ack, shutdown
  <2> QED BY Zenon, <2>1, <2>2
<1>3. TypeInv /\ IInv /\ NoReset /\ TypeInv' /\ IInv' /\ NoReset' /\ ~Reset /\ [Next]_vars
        => [Stream!Next]_Stream!vars
  BY Zenon, StreamStep DEF IInv
<1> HIDE DEF NoReset
<1> QED BY <1>1, <1>2, <1>3, Invariant, PTL DEF Spec, ImplementsStream, Stream!Spec
=============================================================================
