------------------------- MODULE SerialLinkAnswers --------------------------
(***************************************************************************)
(* Proofs about the answers of the micro-controller: it never answers for  *)
(* what it has not done, and while the line damages nothing the host       *)
(* never sends a block again because of an answer.                         *)
(*                                                                         *)
(* The first needs the order of the answers on the wire, and which ones    *)
(* the host still expects.  The second needs more: every ack with a number *)
(* the host counts must be newer than the ones before it, and for every    *)
(* block on the wire the micro-controller must be ready, or have asked for *)
(* nothing else.                                                           *)
(***************************************************************************)
EXTENDS SerialLinkProofs

\* Time limits of the provers: 30 seconds.
USE SMTT(30), ZenonT(30)

USE DEF vars, wireVars, hostVars, mcuVars, seqVars, timeVars

-----------------------------------------------------------------------------
\* Sent times.

\* A block that was written again is one that a retransmission covered, and is
\* not one whose round trip is being timed.
TimeBooks ==
    /\ \A i \in 1..Len(sent_queue) :
          sent_queue[i].resent =>
              /\ sent_queue[i].n < retransmit_seq
              /\ rtt_sample_seq # 0 => sent_queue[i].n < rtt_sample_seq
    /\ receive_seq > retransmit_seq => last_receive_sent_time # "ambiguous"
    /\ \A i \in 1..Len(notify_queue) : notify_queue[i] # 0
    /\ SentTimesExact

\* The types that the books of times need.
LEMMA TimeTypes ==
    ASSUME TypeInv
    PROVE  /\ sent_queue \in Seq(SentBlock) /\ Len(sent_queue) \in Nat
           /\ notify_queue \in Seq(Nat) /\ Len(notify_queue) \in Nat
           /\ received \in Seq(Received) /\ Len(received) \in Nat
           /\ send_seq \in Nat /\ receive_seq \in Nat /\ retransmit_seq \in Nat
           /\ rtt_sample_seq \in Nat /\ ignore_nak_seq \in Nat /\ last_ack_seq \in Nat
           /\ \A i \in 1..Len(sent_queue) : sent_queue[i] \in SentBlock /\ sent_queue[i].n \in Nat
           /\ \A i \in 1..Len(notify_queue) : notify_queue[i] \in Nat
           /\ \A i \in 1..Len(received) : received[i] \in Received /\ received[i].notify \in Nat
<1> USE DEF TypeInv, TypeOK, HostTypeOK
<1>1. /\ sent_queue \in Seq(SentBlock) /\ Len(sent_queue) \in Nat
      /\ notify_queue \in Seq(Nat) /\ Len(notify_queue) \in Nat
      /\ received \in Seq(Received) /\ Len(received) \in Nat
  BY Zenon, SeqLen
<1>2. \A i \in 1..Len(sent_queue) : sent_queue[i] \in SentBlock /\ sent_queue[i].n \in Nat
  <2>1. \A i \in 1..Len(sent_queue) : sent_queue[i] \in SentBlock
    BY Zenon, <1>1, SeqElement
  <2> QED BY Zenon, <2>1 DEF SentBlock
<1>3. \A i \in 1..Len(notify_queue) : notify_queue[i] \in Nat
  BY Zenon, <1>1, SeqElement
<1>4. \A i \in 1..Len(received) : received[i] \in Received /\ received[i].notify \in Nat
  <2>1. \A i \in 1..Len(received) : received[i] \in Received
    BY Zenon, <1>1, SeqElement
  <2> QED BY Zenon, <2>1 DEF Received
<1> QED BY Zenon, <1>1, <1>2, <1>3, <1>4

\* What build_and_send_command() does to the times.
LEMMA SendCommandTimes == TypeInv /\ HostBooks /\ TimeBooks /\ SendCommand => TimeBooks'
<1> SUFFICES ASSUME TypeInv, HostBooks, TimeBooks, SendCommand PROVE TimeBooks'
  BY Zenon
<1>1. PICK len \in BlockLens :
        build_and_send_command(len, receive_seq = 1 \/ send_seq \in NotifyBlocks)
  BY Zenon DEF SendCommand
<1>2. PICK out \in SentBlock :
        out.n = send_seq /\ ~out.resent /\ sent_queue' = Append(sent_queue, out)
  <2> DEFINE o == [seq |-> send_seq % SeqMod, n |-> send_seq, len |-> len,
                   resent |-> FALSE]
  <2>1. len \in Nat /\ send_seq % SeqMod \in WireSeq
    BY SizesAssumption, MaskType, TimeTypes
  <2>2. o \in SentBlock /\ o.n = send_seq /\ ~o.resent
    BY Zenon, <2>1, TimeTypes DEF SentBlock
  <2>3. sent_queue' = Append(sent_queue, o)
    BY Zenon, <1>1 DEF build_and_send_command
  <2> HIDE DEF o
  <2> QED BY Zenon, <2>2, <2>3
<1>3. /\ rtt_sample_seq' = IF rtt_sample_seq = 0 THEN send_seq ELSE rtt_sample_seq
      /\ notify_queue' = notify_queue \/ notify_queue' = Append(notify_queue, send_seq)
      /\ UNCHANGED <<receive_seq, retransmit_seq, last_receive_sent_time, srtt, received>>
  BY Zenon, <1>1 DEF build_and_send_command
<1>4. /\ Len(sent_queue') = Len(sent_queue) + 1
      /\ \A i \in 1..Len(sent_queue) : sent_queue'[i] = sent_queue[i]
      /\ sent_queue'[Len(sent_queue) + 1] = out
  BY <1>2, TimeTypes, SeqAppend
<1>5. \A i \in 1..Len(sent_queue') : i \in 1..Len(sent_queue) \/ i = Len(sent_queue) + 1
  BY <1>4, TimeTypes
<1>6. \A i \in 1..Len(sent_queue) : sent_queue[i].n < send_seq
  <2>1. \A i \in 1..(send_seq - receive_seq) : receive_seq + i - 1 < send_seq
    BY TimeTypes
  <2> QED BY Zenon, <2>1 DEF HostBooks
<1>7. ASSUME NEW i \in 1..Len(sent_queue'), sent_queue'[i].resent
      PROVE  /\ sent_queue'[i].n < retransmit_seq'
             /\ rtt_sample_seq' # 0 => sent_queue'[i].n < rtt_sample_seq'
  <2>1. i \in 1..Len(sent_queue)
    BY Zenon, <1>2, <1>4, <1>5, <1>7
  <2>2. sent_queue'[i] = sent_queue[i] /\ sent_queue[i].resent
    BY Zenon, <1>4, <1>7, <2>1
  <2>3. /\ sent_queue[i].n < retransmit_seq
        /\ rtt_sample_seq # 0 => sent_queue[i].n < rtt_sample_seq
    BY Zenon, <2>1, <2>2 DEF TimeBooks
  <2> QED BY Zenon, <1>3, <1>6, <2>1, <2>2, <2>3
<1>8. \A i \in 1..Len(notify_queue') : notify_queue'[i] # 0
  <2>1. CASE notify_queue' = notify_queue
    BY Zenon, <2>1 DEF TimeBooks
  <2>2. CASE notify_queue' = Append(notify_queue, send_seq)
    <3>1. /\ Len(notify_queue') = Len(notify_queue) + 1
          /\ \A i \in 1..Len(notify_queue) : notify_queue'[i] = notify_queue[i]
          /\ notify_queue'[Len(notify_queue) + 1] = send_seq
      BY <2>2, TimeTypes, SeqAppend
    <3>2. \A i \in 1..Len(notify_queue') : i \in 1..Len(notify_queue) \/ i = Len(notify_queue) + 1
      BY <3>1, TimeTypes
    <3>3. send_seq # 0
      BY TimeTypes DEF HostBooks
    <3> QED BY Zenon, <3>1, <3>2, <3>3 DEF TimeBooks
  <2> QED BY Zenon, <1>3, <2>1, <2>2
<1>9. SentTimesExact'
  BY Zenon, <1>3 DEF TimeBooks, SentTimesExact
<1> QED BY Zenon, <1>3, <1>7, <1>8, <1>9 DEF TimeBooks

\* retransmit_event() marks all that it writes again.
LEMMA RetransmitTimes == TypeInv /\ HostBooks /\ TimeBooks /\ Retransmit => TimeBooks'
<1> SUFFICES ASSUME TypeInv, HostBooks, TimeBooks, Retransmit PROVE TimeBooks'
  BY Zenon
<1>1. /\ retransmit_seq' = send_seq /\ rtt_sample_seq' = 0
      /\ UNCHANGED <<receive_seq, last_receive_sent_time, srtt, notify_queue, received>>
  BY Zenon DEF Retransmit, retransmit_event
<1>2. /\ Len(sent_queue') = Len(sent_queue)
      /\ \A i \in 1..Len(sent_queue) :
            sent_queue'[i] = [sent_queue[i] EXCEPT !.resent = TRUE]
  BY Zenon, RetransmitEffect
<1>3. \A i \in 1..Len(sent_queue) : sent_queue[i].n < send_seq
  <2>1. \A i \in 1..(send_seq - receive_seq) : receive_seq + i - 1 < send_seq
    BY TimeTypes
  <2> QED BY Zenon, <2>1 DEF HostBooks
<1>4. \A i \in 1..Len(sent_queue') : sent_queue'[i].n < send_seq
  <2>1. \A i \in 1..Len(sent_queue) : sent_queue'[i].n = sent_queue[i].n
    BY Zenon, <1>2, TimeTypes, ResentFields
  <2> QED BY Zenon, <1>2, <1>3, <2>1
<1>5. ~(receive_seq > send_seq)
  BY TimeTypes DEF HostBooks
<1> QED BY Zenon, <1>1, <1>4, <1>5 DEF TimeBooks, SentTimesExact

\* What handle_message() adds to receive_queue: a note for each sender it wakes,
\* and the response that the message carries.
LEMMA ReceivedEffect ==
    ASSUME TypeInv, TypeInv', HandleMessage, NEW rseq, rseq = ReceiveSeq(Head(m2h).seq),
           NEW i \in 1..Len(received')
    PROVE  \/ \E k \in 1..Len(notify_queue) :
                 /\ received'[i].notify = notify_queue[k]
                 /\ Wakes(rseq, Head(m2h).data, notify_queue[k])
           \/ /\ received'[i].notify = 0
              /\ received'[i].sent_time = ResponseSentTime(rseq, last_receive_sent_time')
<1> DEFINE msg == Head(m2h)
           response == [notify |-> 0, resp |-> msg.resp,
                        sent_time |-> ResponseSentTime(rseq, last_receive_sent_time')]
           note(k) == [notify |-> notify_queue[k], resp |-> 0,
                       sent_time |-> last_receive_sent_time']
<1>1. PICK woken \in 0..Len(notify_queue) :
        /\ WakeCount(woken, rseq, msg.data)
        /\ received' = [k \in 1..woken |-> note(k)]
                         \o (IF msg.data THEN <<response>> ELSE <<>>)
  BY Zenon DEF HandleMessage, handle_message
<1>2. m2h # <<>> /\ msg \in Message
  <2>1. m2h # <<>> /\ m2h \in Seq(Message)
    BY Zenon DEF HandleMessage, handle_message, TypeInv, TypeOK, WireTypeOK
  <2> QED BY Zenon, <2>1, SeqHeadTail
<1>3. last_receive_sent_time' \in SentTime
  BY Zenon DEF TypeInv, TypeOK, HostTypeOK
<1>4. response \in Received
  BY Zenon, <1>2, <1>3 DEF Received, ResponseSentTime, SentTime, Message
<1>5. \A k \in 1..woken : /\ k \in 1..Len(notify_queue) /\ note(k) \in Received
                          /\ note(k).notify = notify_queue[k]
  <2>1. \A k \in 1..woken : k \in 1..Len(notify_queue)
    BY TimeTypes
  <2>2. \A k \in 1..Len(notify_queue) : notify_queue[k] \in Nat
    BY Zenon, TimeTypes
  <2> QED BY Zenon, <1>3, <2>1, <2>2 DEF Received
<1>6. PICK notes \in Seq(Received) :
        /\ notes = [k \in 1..woken |-> note(k)] /\ Len(notes) = woken
        /\ \A k \in 1..woken : notes[k] = note(k)
  <2> DEFINE f == [k \in 1..woken |-> note(k)]
  <2> HIDE DEF note
  <2>1. f \in [1..woken -> Received] /\ woken \in Nat
    BY <1>5, TimeTypes
  <2>2. \A k \in 1..woken : f[k] = note(k)
    BY Zenon
  <2>3. f = [k \in 1..woken |-> note(k)]
    BY Zenon
  <2> HIDE DEF f
  <2>4. f \in Seq(Received) /\ Len(f) = woken
    BY Zenon, <2>1, FunctionIsSeq
  <2> QED BY Zenon, <2>2, <2>3, <2>4
<1> DEFINE last == IF msg.data THEN <<response>> ELSE <<>>
<1>7. response.notify = 0
      /\ response.sent_time = ResponseSentTime(rseq, last_receive_sent_time')
  BY Zenon
<1> HIDE DEF response, msg
<1>8. /\ last \in Seq(Received) /\ Len(last) \in {0, 1}
      /\ \A k \in 1..Len(last) : last[k] = response
  BY <1>4
<1>9. received' = notes \o last
  BY Zenon, <1>1, <1>6
<1> HIDE DEF last, note
<1>10. /\ Len(received') = woken + Len(last)
       /\ \A k \in 1..woken : received'[k] = notes[k]
       /\ \A k \in 1..Len(last) : received'[woken + k] = last[k]
  BY <1>6, <1>8, <1>9, ConcatElements
<1>11. i \in 1..woken \/ (i - woken \in 1..Len(last) /\ i = woken + (i - woken))
  <2>1. woken \in Nat /\ Len(last) \in Nat
    BY <1>8, TimeTypes
  <2> QED BY <1>10, <2>1
<1>12. CASE i \in 1..woken
  <2>1. received'[i].notify = notify_queue[i] /\ i \in 1..Len(notify_queue)
    BY Zenon, <1>5, <1>6, <1>10, <1>12
  <2>2. Wakes(rseq, msg.data, notify_queue[i])
    BY Zenon, <1>1, <1>12 DEF WakeCount
  <2> QED BY Zenon, <2>1, <2>2 DEF msg
<1>13. CASE i - woken \in 1..Len(last) /\ i = woken + (i - woken)
  <2>1. received'[i] = response
    BY ZenonT(30), <1>8, <1>10, <1>13
  <2> QED BY Zenon, <1>7, <2>1
<1> QED BY Zenon, <1>11, <1>12, <1>13

\* What handle_message() does to the times.
LEMMA HandleTimesEffect ==
    ASSUME TypeInv, HandleMessage, NEW rseq, rseq = ReceiveSeq(Head(m2h).seq)
    PROVE  /\ retransmit_seq' = retransmit_seq
           /\ rseq = receive_seq => UNCHANGED timeVars
           /\ rseq # receive_seq /\ rseq - receive_seq > Len(sent_queue) =>
                 last_receive_sent_time' = "zero" /\ UNCHANGED <<srtt, rtt_sample_seq>>
           /\ rseq # receive_seq /\ ~(rseq - receive_seq > Len(sent_queue)) =>
                 /\ last_receive_sent_time' = IF sent_queue[rseq - receive_seq].resent
                                              THEN "ambiguous" ELSE "exact"
                 /\ \/ UNCHANGED <<srtt, rtt_sample_seq>>
                    \/ /\ rtt_sample_seq # 0 /\ rseq > rtt_sample_seq
                       /\ srtt' = last_receive_sent_time' /\ rtt_sample_seq' = 0
<1>1. /\ retransmit_seq' = retransmit_seq
      /\ \/ rseq # receive_seq /\ update_receive_seq(rseq)
         \/ rseq = receive_seq /\ UNCHANGED timeVars
  BY Zenon DEF HandleMessage, handle_message
<1>2. CASE rseq = receive_seq
  BY Zenon, <1>1, <1>2
<1>3. CASE rseq # receive_seq
  <2>1. update_receive_seq(rseq)
    BY Zenon, <1>1, <1>3
  <2> QED BY Zenon, <1>1, <1>3, <2>1 DEF update_receive_seq
<1> QED BY Zenon, <1>2, <1>3

\* update_receive_seq() and handle_message() take times only of blocks written once.
LEMMA HandleMessageTimes ==
    TypeInv /\ TypeInv' /\ HostBooks /\ TimeBooks /\ HandleMessage => TimeBooks'
<1> SUFFICES ASSUME TypeInv, TypeInv', HostBooks, TimeBooks, HandleMessage PROVE TimeBooks'
  BY Zenon
<1> DEFINE rseq == ReceiveSeq(Head(m2h).seq)
           count == rseq - receive_seq
<1>1. /\ rseq \in Nat /\ rseq >= receive_seq
      /\ receive_seq' = rseq
      /\ count <= Len(sent_queue) =>
            /\ Len(sent_queue') = Len(sent_queue) - count
            /\ \A i \in 1..Len(sent_queue') : sent_queue'[i] = sent_queue[count + i]
      /\ count > Len(sent_queue) => sent_queue' = <<>>
  BY Zenon, HandleMessageEffect
<1>2. /\ retransmit_seq' = retransmit_seq
      /\ rseq = receive_seq => UNCHANGED timeVars
      /\ rseq # receive_seq /\ count > Len(sent_queue) =>
            last_receive_sent_time' = "zero" /\ UNCHANGED <<srtt, rtt_sample_seq>>
      /\ rseq # receive_seq /\ ~(count > Len(sent_queue)) =>
            /\ last_receive_sent_time' = IF sent_queue[count].resent
                                         THEN "ambiguous" ELSE "exact"
            /\ \/ UNCHANGED <<srtt, rtt_sample_seq>>
               \/ /\ rtt_sample_seq # 0 /\ rseq > rtt_sample_seq
                  /\ srtt' = last_receive_sent_time' /\ rtt_sample_seq' = 0
  BY Zenon, HandleTimesEffect
<1>3. PICK woken \in 0..Len(notify_queue) :
        /\ Len(notify_queue') = Len(notify_queue) - woken
        /\ \A i \in 1..Len(notify_queue') : notify_queue'[i] = notify_queue[woken + i]
  BY Zenon, HandleNotifyEffect
<1>4. ASSUME NEW i \in 1..Len(received')
      PROVE  \/ \E k \in 1..Len(notify_queue) : received'[i].notify = notify_queue[k]
             \/ received'[i].sent_time = ResponseSentTime(rseq, last_receive_sent_time')
  BY Zenon, ReceivedEffect
<1> HIDE DEF rseq
<1>5. rtt_sample_seq' = rtt_sample_seq \/ rtt_sample_seq' = 0
  BY Zenon, <1>2
\* The block that is acked, when it is one of sent_queue.
<1>6. rseq # receive_seq /\ count <= Len(sent_queue) =>
        count \in 1..Len(sent_queue) /\ sent_queue[count].n = rseq - 1
  <2>1. receive_seq \in Nat /\ Len(sent_queue) \in Nat
    BY Zenon, TimeTypes
  <2>2. rseq # receive_seq /\ count <= Len(sent_queue) =>
          count \in 1..Len(sent_queue) /\ receive_seq + count - 1 = rseq - 1
    BY <1>1, <2>1
  <2> QED BY Zenon, <2>2 DEF HostBooks
<1>7. count \in Nat /\ (count <= Len(sent_queue) \/ count > Len(sent_queue))
      /\ (count <= Len(sent_queue) => ~(count > Len(sent_queue)))
  BY <1>1, TimeTypes
<1>8. ASSUME NEW i \in 1..Len(sent_queue'), sent_queue'[i].resent
      PROVE  /\ sent_queue'[i].n < retransmit_seq'
             /\ rtt_sample_seq' # 0 => sent_queue'[i].n < rtt_sample_seq'
  <2>1. CASE count > Len(sent_queue)
    <3>1. Len(sent_queue') = 0
      BY <1>1, <2>1
    <3> QED BY <3>1
  <2>2. CASE count <= Len(sent_queue)
    <3>1. sent_queue'[i] = sent_queue[count + i] /\ Len(sent_queue') = Len(sent_queue) - count
      BY Zenon, <1>1, <2>2
    <3>2. Len(sent_queue) \in Nat
      BY Zenon, TimeTypes
    <3>3. count + i \in 1..Len(sent_queue)
      <4> HIDE DEF count
      <4> QED BY <1>7, <3>1, <3>2
    <3>4. sent_queue[count + i].n < retransmit_seq
          /\ (rtt_sample_seq # 0 => sent_queue[count + i].n < rtt_sample_seq)
      BY Zenon, <1>8, <3>1, <3>3 DEF TimeBooks
    <3> QED BY Zenon, <1>2, <1>5, <3>1, <3>4
  <2> QED BY Zenon, <1>7, <2>1, <2>2
<1>9. receive_seq' > retransmit_seq' => last_receive_sent_time' # "ambiguous"
  <2>1. CASE rseq = receive_seq
    BY ZenonT(30), <1>1, <1>2, <2>1 DEF TimeBooks
  <2>2. CASE rseq # receive_seq /\ count > Len(sent_queue)
    BY Zenon, <1>2, <2>2
  <2>3. CASE rseq # receive_seq /\ count <= Len(sent_queue)
    <3>1. sent_queue[count].resent => rseq - 1 < retransmit_seq
      BY Zenon, <1>6, <2>3 DEF TimeBooks
    <3>2. rseq > retransmit_seq => ~sent_queue[count].resent
      BY <1>1, <3>1, TimeTypes
    <3> QED BY Zenon, <1>1, <1>2, <1>7, <2>3, <3>2
  <2> QED BY Zenon, <1>7, <2>1, <2>2, <2>3
<1>10. srtt' # "ambiguous"
  <2>1. CASE srtt' = srtt
    BY Zenon, <2>1 DEF TimeBooks, SentTimesExact
  <2>2. CASE srtt' # srtt
    <3>1. /\ rseq # receive_seq /\ count <= Len(sent_queue)
          /\ rtt_sample_seq # 0 /\ rseq > rtt_sample_seq
          /\ srtt' = IF sent_queue[count].resent THEN "ambiguous" ELSE "exact"
      BY Zenon, <1>2, <1>7, <2>2
    <3>2. sent_queue[count].resent => rseq - 1 < rtt_sample_seq
      BY Zenon, <1>6, <3>1 DEF TimeBooks
    <3>3. ~sent_queue[count].resent
      BY <1>1, <3>1, <3>2, TimeTypes
    <3> QED BY Zenon, <3>1, <3>3
  <2> QED BY Zenon, <2>1, <2>2
<1>11. \A i \in 1..Len(notify_queue') : notify_queue'[i] # 0
  <2>1. \A i \in 1..Len(notify_queue') : woken + i \in 1..Len(notify_queue)
    BY <1>3, TimeTypes
  <2> QED BY Zenon, <1>3, <2>1 DEF TimeBooks
<1>12. ASSUME NEW i \in 1..Len(received'), received'[i].notify = 0
       PROVE  received'[i].sent_time # "ambiguous"
  <2>1. received'[i].sent_time = ResponseSentTime(rseq, last_receive_sent_time')
    BY Zenon, <1>4, <1>12 DEF TimeBooks
  <2> QED BY Zenon, <1>1, <1>2, <1>9, <2>1 DEF ResponseSentTime
<1> QED BY Zenon, <1>8, <1>9, <1>10, <1>11, <1>12 DEF TimeBooks, SentTimesExact

\* Every step keeps the books of times.
LEMMA TimeBooksStep ==
    TypeInv /\ TypeInv' /\ HostBooks /\ TimeBooks /\ [Next]_vars => TimeBooks'
<1>1. TimeBooks /\ UNCHANGED hostVars => TimeBooks'
  BY Zenon DEF TimeBooks, SentTimesExact
<1> QED BY Zenon, <1>1, NextCases, HostIdleUnchanged, SendCommandTimes, HandleMessageTimes,
           RetransmitTimes

\* Nothing was sent at the start.
LEMMA InitTimes == Init => TimeBooks
  BY DEF Init, HostInit, TimeBooks, SentTimesExact

-----------------------------------------------------------------------------
\* Answers.

\* The block in receive_buf is the last one that was accepted.
BlockInHand == dispatch # "idle" => h2m[1].n = McuSeq - 1

\* An ack is only sent for what is finished; a response made while a block was
\* dispatched carries the number after it, and is not followed by it: no ack
\* of that block is ahead of the response.
MessageOrder ==
    /\ \A i \in 1..Len(m2h) :
          /\ ~m2h[i].data => m2h[i].abs <= FinishedSeq
          /\ m2h[i].resp # 0 => m2h[i].resp + 1 = m2h[i].abs
    /\ \A i, j \in 1..Len(m2h) :
          i < j /\ ~m2h[i].data /\ m2h[j].resp # 0 => m2h[j].resp >= m2h[i].abs

\* A sender was woken for a finished block, and the responses that are still under
\* way were made for later ones.
NotesTruthful ==
    receive_seq # 1 =>
        \A i \in 1..Len(received) :
            received[i].notify # 0 =>
                /\ received[i].notify < FinishedSeq
                /\ \A j \in 1..Len(m2h) :
                      m2h[j].resp # 0 => m2h[j].resp > received[i].notify

\* All of it, which holds until a restart.
AnswersInv == BlockInHand /\ MessageOrder /\ NotesTruthful

\* The types of messages; all blocks but the one being dispatched are finished.
LEMMA MessageTypes ==
    ASSUME TypeInv
    PROVE  /\ FinishedSeq \in Int /\ FinishedSeq <= McuSeq /\ McuSeq - 1 <= FinishedSeq
           /\ \A i \in 1..Len(m2h) : m2h[i] \in Message /\ m2h[i].abs \in Nat /\ m2h[i].resp \in Nat
<1>1. FinishedSeq \in Int /\ FinishedSeq <= McuSeq /\ McuSeq - 1 <= FinishedSeq
  BY LinkTypes DEF FinishedSeq
<1>2. \A i \in 1..Len(m2h) : m2h[i] \in Message
  BY Zenon, LinkTypes
<1> QED BY Zenon, <1>1, <1>2 DEF Message

\* Messages are taken from the front, or one is added: an ack of something
\* finished, or a response that is not older than that.
MessagesMove ==
    \/ m2h' = m2h
    \/ m2h # <<>> /\ m2h' = Tail(m2h)
    \/ \E msg \in Message :
          /\ m2h' = Append(m2h, msg)
          /\ ~msg.data => msg.resp = 0 /\ msg.abs <= FinishedSeq'
          /\ msg.resp # 0 => msg.resp + 1 = msg.abs /\ msg.resp >= FinishedSeq

\* The messages stay in order when they move in this way.
LEMMA MessagesKept ==
    ASSUME TypeInv, TypeInv', MessageOrder, NotesTruthful, MessagesMove,
           FinishedSeq' >= FinishedSeq, UNCHANGED <<received, receive_seq>>
    PROVE  MessageOrder' /\ NotesTruthful'
<1> DEFINE f == FinishedSeq
           g == FinishedSeq'
<1>1. f \in Int /\ g \in Int /\ f <= g
  <2>1. FinishedSeq' \in Int
    BY SeqModAssumption, SeqLen DEF TypeInv, TypeOK, McuTypeOK, McuSeq, FinishedSeq
  <2> QED BY Zenon, <2>1, MessageTypes
<1>2. \A i \in 1..Len(m2h) : m2h[i].abs \in Nat /\ m2h[i].resp \in Nat
  BY Zenon, MessageTypes
<1>3. \A i \in 1..Len(received) : received[i].notify \in Nat
  BY Zenon, TimeTypes
<1>4. /\ \A i \in 1..Len(m2h) : ~m2h[i].data => m2h[i].abs <= f
      /\ \A i \in 1..Len(received) :
            receive_seq # 1 /\ received[i].notify # 0 => received[i].notify < f
  BY Zenon DEF MessageOrder, NotesTruthful
<1>5. CASE m2h' = m2h
  <2>1. MessageOrder'
    BY <1>1, <1>2, <1>5 DEF MessageOrder
  <2>2. NotesTruthful'
    BY <1>1, <1>3, <1>5 DEF NotesTruthful
  <2> QED BY Zenon, <2>1, <2>2
<1>6. CASE m2h # <<>> /\ m2h' = Tail(m2h)
  <2>1. /\ Len(m2h') = Len(m2h) - 1
        /\ \A i \in 1..Len(m2h') : m2h'[i] = m2h[i + 1]
    BY Zenon, <1>6, SeqHeadTail, LinkTypes
  <2>2. \A i \in 1..Len(m2h') : i + 1 \in 1..Len(m2h)
    BY <2>1, LinkTypes
  <2>3. \A i, j \in 1..Len(m2h') : i < j => i + 1 < j + 1
    BY <2>1, LinkTypes
  <2>4. ASSUME NEW i \in 1..Len(m2h')
        PROVE  /\ ~m2h'[i].data => m2h'[i].abs <= g
               /\ m2h'[i].resp # 0 => m2h'[i].resp + 1 = m2h'[i].abs
    <3>1. m2h'[i] = m2h[i + 1] /\ i + 1 \in 1..Len(m2h)
      BY Zenon, <2>1, <2>2
    <3>2. m2h[i + 1].abs \in Nat /\ (~m2h[i + 1].data => m2h[i + 1].abs <= f)
      BY Zenon, <1>2, <1>4, <3>1
    <3>3. m2h[i + 1].resp # 0 => m2h[i + 1].resp + 1 = m2h[i + 1].abs
      BY Zenon, <3>1 DEF MessageOrder
    <3> QED BY <1>1, <3>1, <3>2, <3>3
  <2>5. \A i, j \in 1..Len(m2h') :
          i < j /\ ~m2h'[i].data /\ m2h'[j].resp # 0 => m2h'[j].resp >= m2h'[i].abs
    BY Zenon, <2>1, <2>2, <2>3 DEF MessageOrder
  <2>6. NotesTruthful'
    <3> SUFFICES ASSUME receive_seq # 1, NEW i \in 1..Len(received), received[i].notify # 0
                 PROVE  /\ received[i].notify < g
                        /\ \A j \in 1..Len(m2h') :
                              m2h'[j].resp # 0 => m2h'[j].resp > received[i].notify
      BY Zenon DEF NotesTruthful
    <3>1. received[i].notify < g
      BY <1>1, <1>3, <1>4
    <3>2. \A j \in 1..Len(m2h) : m2h[j].resp # 0 => m2h[j].resp > received[i].notify
      BY Zenon DEF NotesTruthful
    <3> QED BY Zenon, <2>1, <2>2, <3>1, <3>2
  <2> QED BY Zenon, <2>4, <2>5, <2>6 DEF MessageOrder
<1>7. ASSUME NEW msg \in Message, m2h' = Append(m2h, msg),
             ~msg.data => msg.resp = 0 /\ msg.abs <= g,
             msg.resp # 0 => msg.resp + 1 = msg.abs /\ msg.resp >= f
      PROVE  MessageOrder' /\ NotesTruthful'
  <2>1. /\ Len(m2h') = Len(m2h) + 1
        /\ \A i \in 1..Len(m2h) : m2h'[i] = m2h[i]
        /\ m2h'[Len(m2h) + 1] = msg
    BY <1>7, SeqAppend, LinkTypes
  <2>2. \A i \in 1..Len(m2h') : i \in 1..Len(m2h) \/ i = Len(m2h) + 1
    BY Zenon, <2>1, LinkTypes, IndexAdded
  <2>3. msg.resp \in Nat
    BY Zenon DEF Message
  <2>4. ASSUME NEW i \in 1..Len(m2h')
        PROVE  /\ ~m2h'[i].data => m2h'[i].abs <= g
               /\ m2h'[i].resp # 0 => m2h'[i].resp + 1 = m2h'[i].abs
    <3>1. CASE i \in 1..Len(m2h)
      <4>1. m2h'[i] = m2h[i] /\ m2h[i].abs \in Nat /\ (~m2h[i].data => m2h[i].abs <= f)
        BY Zenon, <1>2, <1>4, <2>1, <3>1
      <4>2. m2h[i].resp # 0 => m2h[i].resp + 1 = m2h[i].abs
        BY Zenon, <3>1 DEF MessageOrder
      <4> QED BY <1>1, <4>1, <4>2
    <3>2. CASE i = Len(m2h) + 1
      BY Zenon, <1>7, <2>1, <3>2
    <3> QED BY Zenon, <2>2, <3>1, <3>2
  <2>5. ASSUME NEW i \in 1..Len(m2h'), NEW j \in 1..Len(m2h'), i < j,
               ~m2h'[i].data, m2h'[j].resp # 0
        PROVE  m2h'[j].resp >= m2h'[i].abs
    <3>1. i \in 1..Len(m2h)
      BY <2>1, <2>5, LinkTypes
    <3>2. CASE j \in 1..Len(m2h)
      BY Zenon, <2>1, <2>5, <3>1, <3>2 DEF MessageOrder
    <3>3. CASE j = Len(m2h) + 1
      <4>1. m2h[i].abs <= f /\ m2h[i].abs \in Nat /\ m2h'[i] = m2h[i] /\ m2h'[j] = msg
        BY Zenon, <1>2, <1>4, <2>1, <2>5, <3>1, <3>3
      <4> QED BY <1>1, <1>7, <2>3, <2>5, <4>1
    <3> QED BY Zenon, <2>2, <3>2, <3>3
  <2>6. NotesTruthful'
    <3> SUFFICES ASSUME receive_seq # 1, NEW i \in 1..Len(received), received[i].notify # 0
                 PROVE  /\ received[i].notify < g
                        /\ \A j \in 1..Len(m2h') :
                              m2h'[j].resp # 0 => m2h'[j].resp > received[i].notify
      BY Zenon DEF NotesTruthful
    <3>1. received[i].notify < f /\ received[i].notify \in Nat
      BY Zenon, <1>3, <1>4
    <3>2. \A j \in 1..Len(m2h) : m2h[j].resp # 0 => m2h[j].resp > received[i].notify
      BY Zenon DEF NotesTruthful
    <3>3. msg.resp # 0 => msg.resp > received[i].notify
      BY <1>1, <1>7, <2>3, <3>1
    <3> QED BY <1>1, <2>1, <2>2, <3>1, <3>2, <3>3
  <2> QED BY Zenon, <2>4, <2>5, <2>6 DEF MessageOrder
<1> QED BY Zenon, <1>5, <1>6, <1>7 DEF MessagesMove

\* The micro-controller's side: FinishedSeq never goes back, and what is sent is
\* about what is finished.
LEMMA SendfMoves ==
    ASSUME TypeInv, NEW data \in BOOLEAN, NEW resp \in Nat,
           command_sendf(data, resp, next_sequence, McuSeq),
           ~data => resp = 0 /\ McuSeq <= FinishedSeq',
           resp # 0 => resp + 1 = McuSeq /\ resp >= FinishedSeq
    PROVE  MessagesMove
<1> DEFINE msg == [seq |-> next_sequence, data |-> data, resp |-> resp, abs |-> McuSeq]
<1>1. next_sequence \in WireSeq
  BY Zenon DEF TypeInv, TypeOK, McuTypeOK
<1>2. msg \in Message /\ msg.data = data /\ msg.resp = resp /\ msg.abs = McuSeq
  BY Zenon, <1>1, LinkTypes DEF Message
<1>3. m2h' = m2h \/ m2h' = Append(m2h, msg)
  BY Zenon DEF command_sendf
<1> HIDE DEF msg
<1> QED BY Zenon, <1>2, <1>3 DEF MessagesMove

\* The micro-controller moves the messages in this way.
LEMMA McuStepAnswers ==
    ASSUME TypeInv, TypeInv', HostBooks, LinkInv, AnswersInv, McuStep, ~Reset
    PROVE  AnswersInv'
<1>1. UNCHANGED hostVars
  BY Zenon DEF McuStep, FindBlock, FindBlockNak, FindBlockError, Respond, SendAck, Shutdown
<1>2. SUFFICES FinishedSeq' >= FinishedSeq /\ MessagesMove /\ BlockInHand'
  BY Zenon, <1>1, MessagesKept DEF AnswersInv
<1> USE DEF FinishedSeq
<1>3. McuSeq \in Nat
  BY Zenon, LinkTypes
<1>4. CASE FindBlock
  <2>1. /\ h2m # <<>> /\ h2m[1].seq = next_sequence /\ dispatch # "running"
        /\ dispatch' = "running"
        /\ executed' = Append(executed, h2m[1].n)
        /\ UNCHANGED <<wireVars, start>>
    BY Zenon, <1>4 DEF FindBlock, command_find_block, IsNext
  <2>2. h2m[1].n = McuSeq
    BY Zenon, <2>1, AcceptedIsDue
  <2>3. Len(executed') = Len(executed) + 1
    BY Zenon, <2>1, <2>2, SeqAppend, LinkTypes
  <2>4. McuSeq' = McuSeq + 1
    BY <2>1, <2>3, LinkTypes DEF McuSeq
  <2> QED BY <1>3, <2>1, <2>2, <2>4 DEF MessagesMove, BlockInHand
<1>5. CASE FindBlockNak
  <2>1. /\ dispatch # "running" /\ dispatch' = "idle" /\ McuSeq' = McuSeq
        /\ command_sendf(FALSE, 0, next_sequence, McuSeq)
    BY Zenon, <1>5 DEF FindBlockNak, command_find_block_nak, McuSeq
  <2>2. McuSeq <= FinishedSeq' /\ FinishedSeq' >= FinishedSeq
    BY <1>3, <2>1
  <2>3. MessagesMove
    BY Zenon, <2>1, <2>2, SendfMoves
  <2> QED BY Zenon, <2>1, <2>2, <2>3 DEF BlockInHand
<1>6. CASE FindBlockError
  <2>1. /\ dispatch # "running" /\ dispatch' = dispatch /\ McuSeq' = McuSeq
        /\ m2h' = m2h \/ command_sendf(FALSE, 0, next_sequence, McuSeq)
        /\ ~h2m[1].ok
    BY Zenon, <1>6 DEF FindBlockError, command_find_block_error, McuSeq
  <2>2. McuSeq <= FinishedSeq' /\ FinishedSeq' >= FinishedSeq
    BY <1>3, <2>1
  <2>3. MessagesMove
    <3>1. CASE m2h' = m2h
      BY Zenon, <3>1 DEF MessagesMove
    <3>2. CASE command_sendf(FALSE, 0, next_sequence, McuSeq)
      BY Zenon, <2>2, <3>2, SendfMoves
    <3> QED BY Zenon, <2>1, <3>1, <3>2
  <2>4. dispatch' = "idle"
    BY ZenonT(30), <2>1 DEF TypeInv, InReceiveBuf
  <2> QED BY Zenon, <2>2, <2>3, <2>4 DEF BlockInHand
<1>7. CASE Respond
  <2> DEFINE resp == IF dispatch = "running" THEN h2m[1].n ELSE 0
  <2>1. /\ dispatch' = dispatch /\ McuSeq' = McuSeq /\ h2m' = h2m
        /\ command_sendf(TRUE, resp, next_sequence, McuSeq)
    BY Zenon, <1>7 DEF Respond, respond, McuSeq
  <2>2. resp \in Nat
    BY Zenon, FrontBlock DEF Block, TypeInv, InReceiveBuf
  <2>3. resp # 0 => resp + 1 = McuSeq /\ resp >= FinishedSeq
    BY <1>3 DEF AnswersInv, BlockInHand
  <2> HIDE DEF resp
  <2>4. MessagesMove
    BY Zenon, <2>1, <2>2, <2>3, SendfMoves
  <2>5. FinishedSeq' >= FinishedSeq
    BY <1>3, <2>1
  <2> QED BY Zenon, <2>1, <2>4, <2>5 DEF AnswersInv, BlockInHand
<1>8. CASE SendAck
  <2>1. /\ dispatch = "running" /\ dispatch' = "idle" /\ McuSeq' = McuSeq
        /\ command_sendf(FALSE, 0, next_sequence, McuSeq)
    BY Zenon, <1>8 DEF SendAck, command_send_ack, McuSeq
  <2>2. McuSeq <= FinishedSeq' /\ FinishedSeq' >= FinishedSeq
    BY <1>3, <2>1
  <2>3. MessagesMove
    BY Zenon, <2>1, <2>2, SendfMoves
  <2> QED BY Zenon, <2>1, <2>2, <2>3 DEF BlockInHand
<1>9. CASE Shutdown
  <2>1. /\ dispatch = "running" /\ dispatch' = "aborted" /\ McuSeq' = McuSeq
        /\ UNCHANGED wireVars
    BY Zenon, <1>9 DEF Shutdown, shutdown, McuSeq
  <2> QED BY <1>3, <2>1 DEF MessagesMove, AnswersInv, BlockInHand
<1> QED BY Zenon, <1>4, <1>5, <1>6, <1>7, <1>8, <1>9 DEF McuStep

\* Everything else but an accepted message leaves what was received alone.
LEMMA OtherAnswers ==
    ASSUME TypeInv, TypeInv', AnswersInv,
           SendCommand \/ Retransmit \/ HandleInvalid \/ LineError \/ UNCHANGED vars
    PROVE  AnswersInv'
<1>1. UNCHANGED mcuVars /\ UNCHANGED <<received, receive_seq>>
  BY Zenon DEF SendCommand, build_and_send_command, Retransmit, retransmit_event, HandleInvalid,
     handle_message_invalid, LineError
<1>2. FinishedSeq' = FinishedSeq /\ McuSeq' = McuSeq
  BY Zenon, <1>1 DEF FinishedSeq, McuSeq
<1>3. MessagesMove
  BY Zenon DEF SendCommand, build_and_send_command, Retransmit, retransmit_event, HandleInvalid,
     handle_message_invalid, LineError, LoseBlock, CorruptBlock, LoseMessage, MessagesMove
<1>4. dispatch # "idle" => h2m'[1].n = h2m[1].n
  <2>1. CASE SendCommand
    <3>1. PICK out \in SentBlock : h2m' = Append(h2m, OnWire(out))
      BY Zenon, <2>1, SendCommandEffect
    <3>2. OnWire(out) \in Block
      BY Zenon DEF OnWire, SentBlock, Block
    <3>3. dispatch # "idle" => h2m # <<>>
      BY ZenonT(30) DEF TypeInv, InReceiveBuf
    <3> QED BY Zenon, <3>1, <3>2, <3>3, AppendFront, LinkTypes
  <2>2. CASE Retransmit
    BY Zenon, <2>2, RetransmitEffect
  <2>3. CASE HandleInvalid \/ UNCHANGED vars
    BY Zenon, <2>3 DEF HandleInvalid, handle_message_invalid
  <2>4. CASE LineError
    BY Zenon, <2>4 DEF LineError, LoseMessage
  <2> QED BY Zenon, <2>1, <2>2, <2>3, <2>4
<1>5. BlockInHand'
  BY Zenon, <1>1, <1>2, <1>4 DEF AnswersInv, BlockInHand
<1>6. FinishedSeq' >= FinishedSeq
  BY <1>2, MessageTypes
<1> QED BY Zenon, <1>1, <1>3, <1>5, <1>6, MessagesKept DEF AnswersInv

\* handle_message() wakes the sender of a block that is finished.
LEMMA HandleMessageAnswers ==
    ASSUME TypeInv, TypeInv', HostBooks, LinkInv, AnswersInv, HandleMessage
    PROVE  AnswersInv'
<1> DEFINE rseq == ReceiveSeq(Head(m2h).seq)
<1>1. /\ m2h # <<>> /\ m2h' = Tail(m2h) /\ receive_seq' = rseq /\ UNCHANGED <<h2m, mcuVars>>
  BY Zenon, HandleMessageEffect
<1>2. rseq = m2h[1].abs /\ 1 \in 1..Len(m2h) /\ Head(m2h) = m2h[1]
  BY <1>1, AckIsMeant
<1>3. \A i \in 1..Len(received') :
        \/ \E k \in 1..Len(notify_queue) :
              /\ received'[i].notify = notify_queue[k]
              /\ Wakes(rseq, m2h[1].data, notify_queue[k])
        \/ received'[i].notify = 0
  BY Zenon, <1>2, ReceivedEffect
<1> HIDE DEF rseq
<1>4. FinishedSeq' = FinishedSeq /\ McuSeq' = McuSeq
  BY Zenon, <1>1 DEF FinishedSeq, McuSeq
<1>5. /\ Len(m2h') = Len(m2h) - 1
      /\ \A i \in 1..Len(m2h') : m2h'[i] = m2h[i + 1]
  BY Zenon, <1>1, SeqHeadTail, LinkTypes
<1>6. \A i \in 1..Len(m2h') : i + 1 \in 1..Len(m2h) /\ 1 < i + 1
  BY <1>5, LinkTypes
<1>7. \A i, j \in 1..Len(m2h') : i < j => i + 1 < j + 1
  BY <1>5, LinkTypes
<1>8. MessageOrder'
  BY Zenon, <1>4, <1>5, <1>6, <1>7 DEF AnswersInv, MessageOrder
<1>9. rseq \in Nat /\ 1 <= rseq /\ rseq <= McuSeq
  BY <1>2, LinkTypes DEF LinkInv, AckNumbers
<1>10. ASSUME NEW i \in 1..Len(received'), received'[i].notify # 0, rseq # 1
       PROVE  /\ received'[i].notify < FinishedSeq
              /\ \A j \in 1..Len(m2h') : m2h'[j].resp # 0 => m2h'[j].resp > received'[i].notify
  <2>1. PICK k \in 1..Len(notify_queue) :
          received'[i].notify = notify_queue[k] /\ Wakes(rseq, m2h[1].data, notify_queue[k])
    BY Zenon, <1>3, <1>10
  <2> DEFINE n == notify_queue[k]
  <2>2. n \in Nat
    BY Zenon, TimeTypes
  <2>3. n <= rseq - 1 /\ (m2h[1].data => n <= rseq - 2)
    BY <1>9, <1>10, <2>1, <2>2 DEF Wakes
  <2> HIDE DEF n
  <2>4. n < FinishedSeq
    <3>1. ~m2h[1].data => rseq <= FinishedSeq
      BY Zenon, <1>2 DEF AnswersInv, MessageOrder
    <3>2. FinishedSeq \in Int /\ McuSeq - 1 <= FinishedSeq /\ McuSeq \in Nat
      BY Zenon, MessageTypes, LinkTypes
    <3> QED BY <1>9, <2>2, <2>3, <3>1, <3>2
  <2>5. ASSUME NEW j \in 1..Len(m2h'), m2h'[j].resp # 0
        PROVE  m2h'[j].resp > n
    <3> DEFINE m == m2h[j + 1]
    <3>1. m2h'[j] = m /\ j + 1 \in 1..Len(m2h) /\ 1 < j + 1 /\ m.resp # 0
      BY Zenon, <1>5, <1>6, <2>5
    <3>2. m.resp \in Nat /\ m.abs \in Nat /\ m.resp + 1 = m.abs
      BY Zenon, <3>1, MessageTypes DEF AnswersInv, MessageOrder
    <3>3. rseq <= m.abs
      BY Zenon, <1>2, <3>1 DEF LinkInv, AckNumbers
    <3>4. ~m2h[1].data => m.resp >= rseq
      BY Zenon, <1>2, <3>1 DEF AnswersInv, MessageOrder
    <3> HIDE DEF m
    <3>5. PICK a \in Nat, r \in Nat : a = m.resp /\ r = rseq
      BY Zenon, <1>9, <3>2
    <3>6. r <= a + 1 /\ n <= r - 1 /\ (n <= r - 2 \/ a >= r)
      <4>1. r <= a + 1 /\ n <= r - 1
        BY Zenon, <2>3, <3>2, <3>3, <3>5
      <4>2. n <= r - 2 \/ a >= r
        BY Zenon, <2>3, <3>4, <3>5
      <4> QED BY Zenon, <4>1, <4>2
    <3>7. a > n
      BY <2>2, <3>6
    <3> QED BY Zenon, <3>1, <3>5, <3>7
  <2> QED BY Zenon, <2>1, <2>4, <2>5 DEF n
<1>11. NotesTruthful'
  BY Zenon, <1>1, <1>4, <1>10 DEF NotesTruthful
<1>12. BlockInHand'
  BY Zenon, <1>1, <1>4 DEF AnswersInv, BlockInHand
<1> QED BY Zenon, <1>8, <1>11, <1>12 DEF AnswersInv

\* Every step keeps what the answers say, until the micro-controller restarts.
LEMMA AnswersStep ==
    ASSUME TypeInv, TypeInv', HostBooks, resets = 0 => LinkInv /\ AnswersInv, [Next]_vars,
           resets' = 0
    PROVE  AnswersInv'
<1>1. LinkInv /\ AnswersInv /\ ~Reset
  BY ZenonT(30), NotRestarted
<1>2. HandleMessage => AnswersInv'
  BY Zenon, <1>1, HandleMessageAnswers
<1>3. McuStep => AnswersInv'
  BY Zenon, <1>1, McuStepAnswers
<1>4. SendCommand \/ Retransmit \/ HandleInvalid \/ LineError \/ UNCHANGED vars => AnswersInv'
  BY Zenon, <1>1, OtherAnswers
<1> QED BY Zenon, <1>2, <1>3, <1>4 DEF Next, HostStep

\* What the answers on their way, and those that arrived, say: of the times always,
\* of the blocks until the micro-controller restarts.
TruthInv == TimeBooks /\ (resets = 0 => AnswersInv)

\* What the answers say is true at all times (handle_message(), command_dispatch()).
THEOREM TruthInvariant == Spec => []TruthInv
<1>1. Init => TruthInv
  <2>1. Init => m2h = <<>> /\ received = <<>> /\ dispatch = "idle"
    BY Zenon DEF Init, WireInit, HostInit, McuInit
  <2>2. Init => AnswersInv
    BY <2>1 DEF AnswersInv, BlockInHand, MessageOrder, NotesTruthful
  <2> QED BY Zenon, <2>2, InitTimes DEF TruthInv
<1>2. TypeInv /\ TypeInv' /\ IInv /\ TruthInv /\ [Next]_vars => TruthInv'
  <2> SUFFICES ASSUME TypeInv, TypeInv', IInv, TruthInv, [Next]_vars PROVE TruthInv'
    BY Zenon
  <2>1. TimeBooks'
    BY Zenon, TimeBooksStep DEF IInv, TruthInv
  <2>2. resets' = 0 => AnswersInv'
    BY Zenon, AnswersStep DEF IInv, TruthInv
  <2> QED BY Zenon, <2>1, <2>2 DEF TruthInv
<1> QED BY <1>1, <1>2, Invariant, PTL DEF Spec

\* What the host makes of an answer is true, for every window, loss, retransmission
\* and number of responses: handle_message() wakes the sender of a block only after
\* the block was dispatched and with its response in hand, and the sent times
\* it reports are never those of a block that was written twice.
THEOREM AnswersSafe == Spec => []AnswersTruthful
<1>1. TypeInv /\ TruthInv => AnswersTruthful
  <2> SUFFICES ASSUME TypeInv, TruthInv PROVE AnswersTruthful
    BY Zenon
  <2>1. SentTimesExact
    BY Zenon DEF TimeBooks, TruthInv
  <2>2. NotifiedWasDispatched
    <3>1. start >= 1 /\ start \in Nat
      BY LinkTypes
    <3>2. \A i \in 1..Len(received) : received[i].notify >= start => received[i].notify # 0
      <4>1. \A i \in 1..Len(received) : received[i].notify \in Nat
        BY Zenon, TimeTypes
      <4> QED BY <3>1, <4>1
    <3> QED BY Zenon, <3>2 DEF TruthInv, AnswersInv, NotesTruthful, NotifiedWasDispatched
  <2>3. NoLateResponse
    <3> SUFFICES ASSUME resets = 0, receive_seq # 1, NEW i \in 1..Len(received),
                        NEW j \in 1..Len(m2h), received[i].notify # 0
                 PROVE  m2h[j].resp # received[i].notify
      BY Zenon DEF NoLateResponse
    <3>1. m2h[j].resp # 0 => m2h[j].resp > received[i].notify
      BY ZenonT(30) DEF TruthInv, AnswersInv, NotesTruthful
    <3> QED BY <3>1, MessageTypes, TimeTypes
  <2> QED BY Zenon, <2>1, <2>2, <2>3 DEF AnswersTruthful
<1> QED BY <1>1, Invariant, TruthInvariant, PTL

-----------------------------------------------------------------------------
\* A line that damages nothing.

\* The blocks before this number are dispatched and out of receive_buf.
RemovedSeq == IF dispatch = "idle" THEN McuSeq ELSE McuSeq - 1

\* An ack with a number that the host does not ignore is newer than every ack
\* ahead of it, and than those that have arrived.
AcksFresh ==
    /\ last_ack_seq <= RemovedSeq
    /\ \A i \in 1..Len(m2h) : ~m2h[i].data =>
          /\ m2h[i].abs <= RemovedSeq
          /\ m2h[i].abs > ignore_nak_seq => m2h[i].abs > last_ack_seq
    /\ \A i, j \in 1..Len(m2h) :
          j < i /\ ~m2h[i].data /\ ~m2h[j].data /\ m2h[i].abs > ignore_nak_seq
            => m2h[j].abs < m2h[i].abs

\* Has console_task() yet to look at the i-th block?
Unread(i) == i > 1 \/ dispatch = "idle"

\* A block is a first copy behind older blocks, or the nak that it may provoke will
\* be ignored: the micro-controller is not past ignore_nak_seq, nor gets there
\* by the blocks ahead of this one.
Fresh(i) == /\ h2m[i].ok /\ McuSeq <= h2m[i].n
            /\ \A j \in 1..Len(h2m) : j < i => h2m[j].n < h2m[i].n
Ignored(i) == /\ McuSeq <= ignore_nak_seq
              /\ \A j \in 1..Len(h2m) : j < i => h2m[j].n < ignore_nak_seq

FreshOrIgnored == \A i \in 1..Len(h2m) : Unread(i) => Fresh(i) \/ Ignored(i)

\* The block before a block that is not yet due is ahead of it.
NoGap ==
    \A i \in 1..Len(h2m) :
        Unread(i) /\ h2m[i].ok /\ h2m[i].n > McuSeq =>
            \E j \in 1..Len(h2m) :
                j < i /\ Unread(j) /\ h2m[j].ok /\ h2m[j].n = h2m[i].n - 1

\* Every block that is not dispatched is on the wire.
NothingLost ==
    \A n \in McuSeq..(send_seq - 1) :
        \E i \in 1..Len(h2m) : Unread(i) /\ h2m[i].ok /\ h2m[i].n = n

\* All three.
WireQuiet == FreshOrIgnored /\ NoGap /\ NothingLost

\* The inductive invariant of a line that damages nothing.
QuietInv == retransmit_timer # "NOW" /\ AcksFresh /\ WireQuiet

\* Steps that change neither the blocks nor the numbers change nothing of it.
LEMMA WireSame ==
    ASSUME WireQuiet, Unread(1)' = Unread(1),
           UNCHANGED <<h2m, send_seq, ignore_nak_seq, start, executed>>
    PROVE  WireQuiet'
<1>1. McuSeq' = McuSeq
  BY Zenon DEF McuSeq
<1>2. \A i \in 1..Len(h2m) : Unread(i)' = Unread(i)
  BY DEF Unread
<1>3. \A i \in 1..Len(h2m) : Fresh(i)' = Fresh(i) /\ Ignored(i)' = Ignored(i)
  BY Zenon, <1>1 DEF Fresh, Ignored
<1> QED BY Zenon, <1>1, <1>2, <1>3 DEF WireQuiet, FreshOrIgnored, NoGap, NothingLost

\* The front block is removed: it was being dispatched, or was not needed.
LEMMA WireTakenQuiet ==
    ASSUME TypeInv, WireQuiet, h2m # <<>>, h2m' = Tail(h2m), dispatch' = "idle",
           dispatch = "idle" => ~h2m[1].ok \/ h2m[1].n < McuSeq,
           UNCHANGED <<send_seq, ignore_nak_seq, start, executed>>
    PROVE  WireQuiet'
<1>1. /\ Len(h2m') = Len(h2m) - 1
      /\ \A i \in 1..Len(h2m') : h2m'[i] = h2m[i + 1]
  BY Zenon, SeqHeadTail, LinkTypes
<1>2. \A i \in 1..Len(h2m') : i + 1 \in 1..Len(h2m) /\ i + 1 > 1
  BY <1>1, LinkTypes
<1>3. \A i, j \in 1..Len(h2m') : j < i => j + 1 < i + 1
  BY <1>1, LinkTypes
<1>4. \A i \in 1..Len(h2m) : i > 1 => i - 1 \in 1..Len(h2m') /\ h2m'[i - 1] = h2m[i]
  <2>1. \A i \in 1..Len(h2m) : i > 1 => i - 1 \in 1..Len(h2m') /\ (i - 1) + 1 = i
    BY <1>1, LinkTypes
  <2> QED BY Zenon, <1>1, <2>1
<1>5. McuSeq' = McuSeq /\ \A i : Unread(i)'
  BY Zenon DEF McuSeq, Unread
<1>6. \A i \in 1..Len(h2m) : Unread(i) /\ h2m[i].ok /\ h2m[i].n >= McuSeq => i > 1
  BY LinkTypes DEF Unread
<1>7. ASSUME NEW i \in 1..Len(h2m')
      PROVE  Fresh(i)' \/ Ignored(i)'
  <2>1. Fresh(i + 1) \/ Ignored(i + 1)
    BY Zenon, <1>2 DEF WireQuiet, FreshOrIgnored, Unread
  <2>2. CASE Fresh(i + 1)
    BY Zenon, <1>1, <1>2, <1>3, <1>5, <2>2 DEF Fresh
  <2>3. CASE Ignored(i + 1)
    BY Zenon, <1>1, <1>2, <1>3, <1>5, <2>3 DEF Ignored
  <2> QED BY Zenon, <2>1, <2>2, <2>3
<1>8. ASSUME NEW i \in 1..Len(h2m'), h2m'[i].ok, h2m'[i].n > McuSeq
      PROVE  \E j \in 1..Len(h2m') :
                j < i /\ h2m'[j].ok /\ h2m'[j].n = h2m'[i].n - 1
  <2>1. /\ i + 1 \in 1..Len(h2m) /\ h2m'[i] = h2m[i + 1] /\ Unread(i + 1)
        /\ h2m[i + 1].ok /\ h2m[i + 1].n > McuSeq
    BY Zenon, <1>1, <1>2, <1>8 DEF Unread
  <2>2. PICK j \in 1..Len(h2m) :
          j < i + 1 /\ Unread(j) /\ h2m[j].ok /\ h2m[j].n = h2m[i + 1].n - 1
    BY Zenon, <2>1 DEF WireQuiet, NoGap
  <2>3. h2m[j].n >= McuSeq
    <3>1. h2m[i + 1].n \in Nat /\ McuSeq \in Nat
      BY Zenon, <2>1, LinkTypes
    <3> QED BY <2>1, <2>2, <3>1
  <2>4. j > 1
    BY Zenon, <1>6, <2>2, <2>3
  <2>5. j - 1 \in 1..Len(h2m') /\ h2m'[j - 1] = h2m[j] /\ j - 1 < i
    BY <1>4, <2>2, <2>4
  <2> QED BY Zenon, <2>1, <2>2, <2>5
<1>9. ASSUME NEW n \in McuSeq..(send_seq - 1)
      PROVE  \E i \in 1..Len(h2m') : h2m'[i].ok /\ h2m'[i].n = n
  <2>1. PICK i \in 1..Len(h2m) : Unread(i) /\ h2m[i].ok /\ h2m[i].n = n
    BY Zenon DEF WireQuiet, NothingLost
  <2>2. i > 1
    BY <1>6, <2>1, LinkTypes
  <2> QED BY Zenon, <1>4, <2>1, <2>2
<1>10. NothingLost'
  BY Zenon, <1>5, <1>9 DEF NothingLost
<1>11. NoGap'
  BY Zenon, <1>5, <1>8 DEF NoGap
<1>12. FreshOrIgnored'
  BY Zenon, <1>7 DEF FreshOrIgnored
<1> QED BY Zenon, <1>10, <1>11, <1>12 DEF WireQuiet

\* command_find_block() accepts a block, and what is on the wire behind it is as before.
LEMMA FindBlockQuiet ==
    ASSUME TypeInv, HostBooks, LinkInv, BlockInHand, WireQuiet, FindBlock
    PROVE  /\ WireQuiet' /\ dispatch = "idle" /\ dispatch' = "running"
           /\ McuSeq' = McuSeq + 1
<1>1. /\ h2m # <<>> /\ h2m[1].seq = next_sequence /\ h2m[1].ok
      /\ dispatch' = "running"
      /\ executed' = Append(executed, h2m[1].n)
      /\ UNCHANGED <<hostVars, wireVars, start>>
  BY Zenon DEF FindBlock, command_find_block, IsNext
<1>2. h2m[1].n = McuSeq /\ 1 \in 1..Len(h2m)
  BY Zenon, <1>1, AcceptedIsDue, FrontBlock DEF TypeInv
<1>3. dispatch = "idle"
  BY <1>2, LinkTypes DEF BlockInHand
<1>4. McuSeq' = McuSeq + 1
  <2>1. Len(executed') = Len(executed) + 1
    BY <1>1, <1>2, SeqAppend, LinkTypes
  <2> QED BY <1>1, <2>1, LinkTypes DEF McuSeq
<1>5. McuSeq \in Nat /\ \A i \in 1..Len(h2m) : h2m[i].n \in Nat
  BY Zenon, LinkTypes
<1>6. \A i \in 1..Len(h2m) : Unread(i) /\ (Unread(i)' => 1 < i)
  BY Zenon, <1>1, <1>3 DEF Unread
<1>7. \A i \in 1..Len(h2m) : h2m[i].n > McuSeq => i > 1
  BY <1>2, <1>5
<1>8. \A i \in 1..Len(h2m) : h2m[i].n > McuSeq => Unread(i)'
  BY Zenon, <1>1, <1>7 DEF Unread
<1>9. FreshOrIgnored'
  <2> SUFFICES ASSUME NEW i \in 1..Len(h2m), Unread(i)'
               PROVE  Fresh(i)' \/ Ignored(i)'
    BY Zenon, <1>1 DEF FreshOrIgnored
  <2>1. 1 < i /\ (Fresh(i) \/ Ignored(i))
    BY Zenon, <1>6 DEF WireQuiet, FreshOrIgnored
  <2>2. CASE Fresh(i)
    <3>1. McuSeq < h2m[i].n
      BY Zenon, <1>2, <2>1, <2>2 DEF Fresh
    <3> QED BY <1>1, <1>4, <1>5, <2>2, <3>1 DEF Fresh
  <2>3. CASE Ignored(i)
    <3>1. McuSeq < ignore_nak_seq
      BY ZenonT(30), <1>2, <2>1, <2>3 DEF Ignored
    <3> QED BY <1>1, <1>4, <1>5, <2>3, <3>1, TimeTypes DEF Ignored
  <2> QED BY Zenon, <2>1, <2>2, <2>3
<1>10. NoGap'
  <2> SUFFICES ASSUME NEW i \in 1..Len(h2m), h2m[i].ok, h2m[i].n > McuSeq + 1
               PROVE  \E j \in 1..Len(h2m) :
                        j < i /\ Unread(j)' /\ h2m[j].ok /\ h2m[j].n = h2m[i].n - 1
    BY Zenon, <1>1, <1>4 DEF NoGap
  <2>1. h2m[i].n > McuSeq
    BY <1>5
  <2>2. PICK j \in 1..Len(h2m) : j < i /\ h2m[j].ok /\ h2m[j].n = h2m[i].n - 1
    BY Zenon, <1>6, <2>1 DEF WireQuiet, NoGap
  <2>3. h2m[j].n > McuSeq
    BY <1>5, <2>2
  <2> QED BY Zenon, <1>8, <2>2, <2>3
<1>11. NothingLost'
  <2> SUFFICES ASSUME NEW n \in (McuSeq + 1)..(send_seq - 1)
               PROVE  \E i \in 1..Len(h2m) : Unread(i)' /\ h2m[i].ok /\ h2m[i].n = n
    BY Zenon, <1>1, <1>4 DEF NothingLost
  <2>1. n \in McuSeq..(send_seq - 1) /\ n > McuSeq
    BY <1>5
  <2>2. PICK i \in 1..Len(h2m) : h2m[i].ok /\ h2m[i].n = n
    BY Zenon, <2>1 DEF WireQuiet, NothingLost
  <2> QED BY Zenon, <1>8, <2>1, <2>2
<1> QED BY Zenon, <1>1, <1>3, <1>4, <1>9, <1>10, <1>11 DEF WireQuiet

\* A new block is a first copy behind all others.
LEMMA SendCommandQuiet ==
    ASSUME TypeInv, LinkInv, Connected, WireQuiet, SendCommand
    PROVE  WireQuiet'
<1>1. PICK out \in SentBlock :
        /\ out.n = send_seq /\ h2m' = Append(h2m, OnWire(out))
        /\ send_seq' = send_seq + 1 /\ UNCHANGED mcuVars
  BY Zenon, SendCommandEffect
<1>2. ignore_nak_seq' = ignore_nak_seq
  BY Zenon DEF SendCommand, build_and_send_command
<1>3. PICK b \in Block : b = OnWire(out) /\ b.n = send_seq /\ b.ok
  <2>1. OnWire(out) \in Block /\ OnWire(out).n = out.n /\ OnWire(out).ok
    BY Zenon DEF OnWire, SentBlock, Block
  <2> QED BY Zenon, <1>1, <2>1
<1> DEFINE last == Len(h2m) + 1
<1>4. /\ Len(h2m') = last
      /\ \A i \in 1..Len(h2m) : h2m'[i] = h2m[i]
      /\ h2m'[last] = b
  BY <1>1, <1>3, SeqAppend, LinkTypes
<1>5. /\ \A i \in 1..Len(h2m) : i \in 1..last /\ i < last
      /\ \A i \in 1..last : i \in 1..Len(h2m) \/ i = last
      /\ \A i \in 1..Len(h2m), j \in 1..last : j < i => j \in 1..Len(h2m)
      /\ \A j \in 1..last : j < last => j \in 1..Len(h2m)
      /\ last \in 1..last
  BY LinkTypes
<1>6. McuSeq' = McuSeq /\ \A i : Unread(i)' = Unread(i)
  BY Zenon, <1>1 DEF McuSeq, Unread
<1>7. Unread(last)
  <2>1. CASE h2m = <<>>
    BY Zenon, <2>1 DEF TypeInv, InReceiveBuf, Unread
  <2>2. CASE h2m # <<>>
    BY <2>2, FrontBlock, LinkTypes DEF TypeInv, Unread
  <2> QED BY Zenon, <2>1, <2>2
<1>8. /\ McuSeq \in Nat /\ send_seq \in Nat /\ McuSeq <= send_seq
      /\ \A i \in 1..Len(h2m) : h2m[i].n \in Nat /\ h2m[i].n < send_seq
  BY Zenon, LinkTypes DEF LinkInv, InOrder, WireNumbers
<1> HIDE DEF last
<1>9. FreshOrIgnored'
  <2> SUFFICES ASSUME NEW i \in 1..last, Unread(i) PROVE Fresh(i)' \/ Ignored(i)'
    BY Zenon, <1>4, <1>6 DEF FreshOrIgnored
  <2>1. CASE i \in 1..Len(h2m)
    <3>1. CASE Fresh(i)
      BY ZenonT(30), <1>4, <1>5, <1>6, <2>1, <3>1 DEF Fresh
    <3>2. CASE Ignored(i)
      BY Zenon, <1>2, <1>4, <1>5, <1>6, <2>1, <3>2 DEF Ignored
    <3> QED BY Zenon, <2>1, <3>1, <3>2 DEF WireQuiet, FreshOrIgnored
  <2>2. CASE i = last
    BY ZenonT(30), <1>3, <1>4, <1>5, <1>6, <1>8, <2>2 DEF Fresh
  <2> QED BY Zenon, <1>5, <2>1, <2>2
<1>10. NoGap'
  <2> SUFFICES ASSUME NEW i \in 1..last, Unread(i), h2m'[i].ok, h2m'[i].n > McuSeq
               PROVE  \E j \in 1..last :
                        j < i /\ Unread(j) /\ h2m'[j].ok /\ h2m'[j].n = h2m'[i].n - 1
    BY Zenon, <1>4, <1>6 DEF NoGap
  <2>1. CASE i \in 1..Len(h2m)
    <3>1. h2m'[i] = h2m[i]
      BY Zenon, <1>4, <2>1
    <3>2. PICK j \in 1..Len(h2m) :
            j < i /\ Unread(j) /\ h2m[j].ok /\ h2m[j].n = h2m[i].n - 1
      BY Zenon, <2>1, <3>1 DEF WireQuiet, NoGap
    <3> QED BY Zenon, <1>4, <1>5, <3>1, <3>2
  <2>2. CASE i = last
    <3>1. h2m'[i].n = send_seq /\ send_seq - 1 \in McuSeq..(send_seq - 1)
      BY <1>3, <1>4, <1>8, <2>2
    <3>2. PICK j \in 1..Len(h2m) : Unread(j) /\ h2m[j].ok /\ h2m[j].n = send_seq - 1
      BY Zenon, <3>1 DEF WireQuiet, NothingLost
    <3> QED BY Zenon, <1>4, <1>5, <2>2, <3>1, <3>2
  <2> QED BY Zenon, <1>5, <2>1, <2>2
<1>11. NothingLost'
  <2> SUFFICES ASSUME NEW n \in McuSeq..((send_seq + 1) - 1)
               PROVE  \E i \in 1..last : Unread(i) /\ h2m'[i].ok /\ h2m'[i].n = n
    BY Zenon, <1>1, <1>4, <1>6 DEF NothingLost
  <2>1. n \in McuSeq..(send_seq - 1) \/ n = send_seq
    BY <1>8
  <2>2. CASE n \in McuSeq..(send_seq - 1)
    <3>1. PICK i \in 1..Len(h2m) : Unread(i) /\ h2m[i].ok /\ h2m[i].n = n
      BY Zenon, <2>2 DEF WireQuiet, NothingLost
    <3> QED BY Zenon, <1>4, <1>5, <3>1
  <2>3. CASE n = send_seq
    BY Zenon, <1>3, <1>4, <1>5, <1>7, <2>3
  <2> QED BY Zenon, <2>1, <2>2, <2>3
<1> QED BY Zenon, <1>9, <1>10, <1>11 DEF WireQuiet

\* The blocks that retransmit_event() writes again are covered by ignore_nak_seq.
LEMMA RetransmitQuiet ==
    ASSUME TypeInv, HostBooks, LinkInv, LinkInv', Connected, QuietInv, Retransmit
    PROVE  WireQuiet' /\ ignore_nak_seq' = send_seq /\ retransmit_timer' = "LATER"
<1>1. /\ ignore_nak_seq' = send_seq /\ retransmit_timer' = "LATER"
      /\ UNCHANGED <<send_seq, receive_seq, mcuVars>>
  BY Zenon DEF Retransmit, retransmit_event, IgnoreNakSeq, QuietInv
<1>2. PICK k \in 0..Len(h2m) :
        /\ Len(h2m') = k + Len(sent_queue)
        /\ \A i \in 1..k : h2m'[i].n = h2m[i].n
        /\ \A i \in 1..k : h2m'[i] = h2m[i] \/ (i = k /\ ~h2m'[i].ok)
        /\ \A i \in 1..Len(sent_queue) : h2m'[k + i] = OnWire(sent_queue[i])
        /\ dispatch # "idle" => k > 0
  BY Zenon, RetransmitEffect
<1>3. Len(sent_queue) = send_seq - receive_seq /\ Len(sent_queue) \in Nat /\ k \in Nat
  BY TimeTypes, LinkTypes DEF HostBooks
<1>4. \A i \in 1..Len(sent_queue) : h2m'[k + i].ok /\ h2m'[k + i].n = receive_seq + i - 1
  <2>0. \A i \in 1..Len(sent_queue) :
          OnWire(sent_queue[i]).ok /\ OnWire(sent_queue[i]).n = sent_queue[i].n
    BY Zenon DEF OnWire
  <2>1. \A i \in 1..Len(sent_queue) : h2m'[k + i].ok /\ h2m'[k + i].n = sent_queue[i].n
    BY Zenon, <1>2, <2>0
  <2> QED BY Zenon, <2>1 DEF HostBooks
<1>5. McuSeq' = McuSeq /\ \A i : Unread(i)' = Unread(i)
  BY Zenon, <1>1 DEF McuSeq, Unread
<1>6. /\ McuSeq \in Nat /\ send_seq \in Nat /\ receive_seq \in Nat
      /\ receive_seq <= McuSeq /\ McuSeq <= send_seq
  BY Zenon, LinkTypes DEF LinkInv, InOrder
<1>7. \A i \in 1..Len(sent_queue) : Unread(k + i) /\ k + i \in 1..Len(h2m')
  BY <1>2, <1>3 DEF Unread
<1>8. FreshOrIgnored'
  <2>1. \A i \in 1..Len(h2m') : h2m'[i].n < send_seq
    BY Zenon, <1>1 DEF LinkInv, WireNumbers
  <2>2. \A i \in 1..Len(h2m') : Ignored(i)'
    BY Zenon, <1>1, <1>5, <1>6, <2>1 DEF Ignored
  <2> QED BY Zenon, <2>2 DEF FreshOrIgnored
<1>9. NoGap'
  <2> SUFFICES ASSUME NEW i \in 1..Len(h2m'), Unread(i), h2m'[i].ok, h2m'[i].n > McuSeq
               PROVE  \E j \in 1..Len(h2m') :
                        j < i /\ Unread(j) /\ h2m'[j].ok /\ h2m'[j].n = h2m'[i].n - 1
    BY Zenon, <1>5 DEF NoGap
  <2>1. CASE i \in 1..k
    <3>1. i \in 1..Len(h2m) /\ h2m'[i] = h2m[i]
      BY <1>2, <2>1, LinkTypes
    <3>2. PICK j \in 1..Len(h2m) :
            j < i /\ Unread(j) /\ h2m[j].ok /\ h2m[j].n = h2m[i].n - 1
      BY Zenon, <3>1 DEF QuietInv, WireQuiet, NoGap
    <3>3. j \in 1..k /\ j # k /\ j \in 1..Len(h2m')
      BY <1>2, <1>3, <2>1, <3>2
    <3>4. h2m'[j] = h2m[j]
      BY Zenon, <1>2, <3>3
    <3> QED BY Zenon, <3>1, <3>2, <3>3, <3>4
  <2>2. CASE ~(i \in 1..k)
    <3> DEFINE l == i - k
    <3>1. l \in 1..Len(sent_queue) /\ i = k + l
      BY <1>2, <1>3, <2>2
    <3> HIDE DEF l
    <3>2. h2m'[i].n = receive_seq + l - 1
      BY Zenon, <1>4, <3>1
    <3>3. l - 1 \in 1..Len(sent_queue) /\ receive_seq + (l - 1) - 1 = h2m'[i].n - 1
          /\ k + (l - 1) < i
      BY <1>3, <1>6, <3>1, <3>2
    <3> QED BY Zenon, <1>4, <1>7, <3>3
  <2> QED BY Zenon, <2>1, <2>2
<1>10. NothingLost'
  <2> SUFFICES ASSUME NEW n \in McuSeq..(send_seq - 1)
               PROVE  \E i \in 1..Len(h2m') : Unread(i) /\ h2m'[i].ok /\ h2m'[i].n = n
    BY ZenonT(30), <1>1, <1>5 DEF NothingLost
  <2> DEFINE l == n - receive_seq + 1
  <2>1. l \in 1..Len(sent_queue) /\ receive_seq + l - 1 = n
    BY <1>3, <1>6
  <2> HIDE DEF l
  <2> QED BY Zenon, <1>4, <1>7, <2>1
<1> QED BY Zenon, <1>1, <1>8, <1>9, <1>10 DEF WireQuiet

\* Messages are taken from the front, or one is added: a response, an ack that the
\* host will ignore, or one that is newer than all others.
AcksMove ==
    \/ m2h' = m2h
    \/ m2h # <<>> /\ m2h' = Tail(m2h)
    \/ \E msg \in Message :
          /\ m2h' = Append(m2h, msg)
          /\ ~msg.data => msg.abs <= RemovedSeq'
          /\ ~msg.data /\ msg.abs > ignore_nak_seq => msg.abs > RemovedSeq

\* The acks stay fresh when the messages move in this way.
LEMMA AcksKept ==
    ASSUME TypeInv, AcksFresh, AcksMove, RemovedSeq' \in Int, RemovedSeq' >= RemovedSeq,
           UNCHANGED <<last_ack_seq, ignore_nak_seq>>
    PROVE  AcksFresh'
<1> DEFINE f == RemovedSeq
           g == RemovedSeq'
<1>1. f \in Int /\ g \in Int /\ f <= g
  <2>1. RemovedSeq \in Int
    BY LinkTypes DEF RemovedSeq
  <2> QED BY Zenon, <2>1
<1>2. /\ last_ack_seq \in Nat /\ ignore_nak_seq \in Nat /\ last_ack_seq <= f
      /\ \A i \in 1..Len(m2h) : m2h[i].abs \in Nat
  BY Zenon, LinkTypes, TimeTypes DEF AcksFresh
<1>3. \A i \in 1..Len(m2h) : ~m2h[i].data =>
        m2h[i].abs <= f /\ (m2h[i].abs > ignore_nak_seq => m2h[i].abs > last_ack_seq)
  BY Zenon DEF AcksFresh
<1>4. \A i, j \in 1..Len(m2h) :
        j < i /\ ~m2h[i].data /\ ~m2h[j].data /\ m2h[i].abs > ignore_nak_seq
          => m2h[j].abs < m2h[i].abs
  BY Zenon DEF AcksFresh
<1>5. last_ack_seq' <= g
  BY <1>1, <1>2
<1> HIDE DEF f, g
<1>6. SUFFICES
        /\ \A i \in 1..Len(m2h') : ~m2h'[i].data =>
              m2h'[i].abs <= g /\ (m2h'[i].abs > ignore_nak_seq => m2h'[i].abs > last_ack_seq)
        /\ \A i, j \in 1..Len(m2h') :
              j < i /\ ~m2h'[i].data /\ ~m2h'[j].data /\ m2h'[i].abs > ignore_nak_seq
                => m2h'[j].abs < m2h'[i].abs
  BY Zenon, <1>5 DEF AcksFresh, g
<1>7. CASE m2h' = m2h
  BY <1>1, <1>2, <1>3, <1>4, <1>7
<1>8. CASE m2h # <<>> /\ m2h' = Tail(m2h)
  <2>1. /\ Len(m2h') = Len(m2h) - 1
        /\ \A i \in 1..Len(m2h') : m2h'[i] = m2h[i + 1]
    BY Zenon, <1>8, SeqHeadTail, LinkTypes
  <2>2. \A i \in 1..Len(m2h') : i + 1 \in 1..Len(m2h)
    BY Zenon, <2>1, LinkTypes, IndexShifted
  <2>3. \A i, j \in 1..Len(m2h') : j < i => j + 1 < i + 1
    BY Zenon, <2>1, LinkTypes, IndexShifted
  <2>4. ASSUME NEW i \in 1..Len(m2h'), ~m2h'[i].data
        PROVE  m2h'[i].abs <= g
               /\ (m2h'[i].abs > ignore_nak_seq => m2h'[i].abs > last_ack_seq)
    BY Zenon, <1>1, <1>2, <1>3, <2>1, <2>2, <2>4, AroundBound
  <2>5. \A i, j \in 1..Len(m2h') :
          j < i /\ ~m2h'[i].data /\ ~m2h'[j].data /\ m2h'[i].abs > ignore_nak_seq
            => m2h'[j].abs < m2h'[i].abs
    BY Zenon, <1>4, <2>1, <2>2, <2>3
  <2> QED BY Zenon, <2>4, <2>5
<1>9. ASSUME NEW msg \in Message, m2h' = Append(m2h, msg), ~msg.data => msg.abs <= g,
             ~msg.data /\ msg.abs > ignore_nak_seq => msg.abs > f
      PROVE  /\ \A i \in 1..Len(m2h') : ~m2h'[i].data =>
                   /\ m2h'[i].abs <= g
                   /\ m2h'[i].abs > ignore_nak_seq => m2h'[i].abs > last_ack_seq
             /\ \A i, j \in 1..Len(m2h') :
                   j < i /\ ~m2h'[i].data /\ ~m2h'[j].data /\ m2h'[i].abs > ignore_nak_seq
                     => m2h'[j].abs < m2h'[i].abs
  <2>1. /\ Len(m2h') = Len(m2h) + 1
        /\ \A i \in 1..Len(m2h) : m2h'[i] = m2h[i]
        /\ m2h'[Len(m2h) + 1] = msg
    BY <1>9, SeqAppend, LinkTypes
  <2>2. \A i \in 1..Len(m2h') : i \in 1..Len(m2h) \/ i = Len(m2h) + 1
    BY Zenon, <2>1, LinkTypes, IndexAdded
  <2>3. msg.abs \in Nat
    BY Zenon DEF Message
  <2>4. ASSUME NEW i \in 1..Len(m2h'), ~m2h'[i].data
        PROVE  m2h'[i].abs <= g
               /\ (m2h'[i].abs > ignore_nak_seq => m2h'[i].abs > last_ack_seq)
    <3>1. CASE i \in 1..Len(m2h)
      BY Zenon, <1>1, <1>2, <1>3, <2>1, <2>4, <3>1, AroundBound
    <3>2. CASE i = Len(m2h) + 1
      BY Zenon, <1>1, <1>2, <1>9, <2>1, <2>3, <2>4, <3>2, AroundBound
    <3> QED BY Zenon, <2>2, <3>1, <3>2
  <2>5. ASSUME NEW i \in 1..Len(m2h'), NEW j \in 1..Len(m2h'), j < i,
               ~m2h'[i].data, ~m2h'[j].data, m2h'[i].abs > ignore_nak_seq
        PROVE  m2h'[j].abs < m2h'[i].abs
    <3>1. j \in 1..Len(m2h)
      BY <2>1, <2>5, LinkTypes
    <3>2. CASE i \in 1..Len(m2h)
      BY ZenonT(30), <1>4, <2>1, <2>5, <3>1, <3>2
    <3>3. CASE i = Len(m2h) + 1
      <4>1. m2h[j].abs <= f /\ m2h[j].abs \in Nat /\ m2h'[j] = m2h[j]
        BY ZenonT(30), <1>2, <1>3, <2>1, <2>5, <3>1
      <4> QED BY Zenon, <1>1, <1>9, <2>1, <2>3, <2>5, <3>3, <4>1, AroundBound
    <3> QED BY ZenonT(30), <2>2, <3>2, <3>3
  <2> QED BY Zenon, <2>4, <2>5
<1> QED BY Zenon, <1>7, <1>8, <1>9 DEF AcksMove, f, g

\* command_sendf() adds a message behind them.
LEMMA SendfAcksMove ==
    ASSUME TypeInv, NEW data \in BOOLEAN, NEW resp \in Nat,
           command_sendf(data, resp, next_sequence, McuSeq),
           ~data => McuSeq <= RemovedSeq' /\ (McuSeq <= ignore_nak_seq \/ McuSeq > RemovedSeq)
    PROVE  AcksMove
<1> DEFINE msg == [seq |-> next_sequence, data |-> data, resp |-> resp, abs |-> McuSeq]
<1>1. next_sequence \in WireSeq
  BY Zenon DEF TypeInv, TypeOK, McuTypeOK
<1>2. msg \in Message /\ msg.data = data /\ msg.abs = McuSeq
  BY Zenon, <1>1, LinkTypes DEF Message
<1>3. m2h' = m2h \/ m2h' = Append(m2h, msg)
  BY Zenon DEF command_sendf
<1>4. McuSeq \in Nat /\ ignore_nak_seq \in Nat
  BY ZenonT(30), LinkTypes, TimeTypes DEF TypeInv, TypeOK, HostTypeOK
<1> HIDE DEF msg
<1>5. /\ ~msg.data => msg.abs <= RemovedSeq'
      /\ ~msg.data /\ msg.abs > ignore_nak_seq => msg.abs > RemovedSeq
  BY <1>2, <1>4
<1> QED BY Zenon, <1>2, <1>3, <1>5 DEF AcksMove

\* The steps of the micro-controller.
LEMMA McuStepQuiet ==
    ASSUME TypeInv, HostBooks, LinkInv, Connected, AnswersInv, QuietInv, McuStep, ~Reset
    PROVE  QuietInv'
<1>1. UNCHANGED hostVars
  BY Zenon DEF McuStep, FindBlock, FindBlockNak, FindBlockError, Respond, SendAck, Shutdown
<1>2. McuSeq \in Nat /\ ignore_nak_seq \in Nat /\ RemovedSeq \in Int
  BY LinkTypes DEF TypeInv, TypeOK, HostTypeOK, RemovedSeq
<1>3. SUFFICES RemovedSeq' \in Int /\ RemovedSeq' >= RemovedSeq /\ AcksMove /\ WireQuiet'
  BY Zenon, <1>1, AcksKept DEF QuietInv
<1>4. CASE FindBlock
  <2>1. WireQuiet' /\ dispatch = "idle" /\ dispatch' = "running" /\ McuSeq' = McuSeq + 1
    BY Zenon, <1>4, FindBlockQuiet DEF AnswersInv, QuietInv
  <2>2. m2h' = m2h
    BY Zenon, <1>4 DEF FindBlock, command_find_block
  <2> QED BY <1>2, <2>1, <2>2 DEF RemovedSeq, AcksMove
<1>5. CASE FindBlockNak
  <2>1. /\ dispatch # "running" /\ dispatch' = "idle" /\ McuSeq' = McuSeq
        /\ command_sendf(FALSE, 0, next_sequence, McuSeq)
        /\ h2m # <<>> /\ h2m' = Tail(h2m) /\ h2m[1].ok /\ h2m[1].seq # next_sequence
        /\ UNCHANGED <<start, executed>>
    BY Zenon, <1>5 DEF FindBlockNak, command_find_block_nak, McuSeq, IsNext
  <2>2. RemovedSeq' = McuSeq /\ McuSeq >= RemovedSeq
    BY <1>2, <2>1 DEF RemovedSeq
  <2>3. 1 \in 1..Len(h2m) /\ h2m[1].n \in Nat
    BY ZenonT(30), <2>1, FrontOfSeq, LinkTypes
  <2>4. dispatch = "idle" => h2m[1].n < McuSeq
    <3> SUFFICES ASSUME dispatch = "idle" PROVE h2m[1].n < McuSeq
      BY Zenon
    <3>1. h2m[1].n # McuSeq
      BY Zenon, <2>1, <2>3 DEF LinkInv, McuBooks, WireNumbers
    <3>2. ~(h2m[1].n > McuSeq)
      <4> SUFFICES ASSUME h2m[1].n > McuSeq PROVE FALSE
        BY Zenon
      <4>1. PICK j \in 1..Len(h2m) : j < 1
        BY Zenon, <2>1, <2>3 DEF QuietInv, WireQuiet, NoGap, Unread
      <4> QED BY <4>1
    <3> QED BY <1>2, <2>3, <3>1, <3>2
  <2>5. McuSeq <= ignore_nak_seq \/ McuSeq > RemovedSeq
    <3>1. CASE dispatch = "idle"
      <4>1. Fresh(1) \/ Ignored(1)
        BY Zenon, <2>3, <3>1 DEF QuietInv, WireQuiet, FreshOrIgnored, Unread
      <4>2. ~Fresh(1)
        BY <1>2, <2>3, <2>4, <3>1 DEF Fresh
      <4> QED BY Zenon, <4>1, <4>2 DEF Ignored
    <3>2. CASE dispatch # "idle"
      BY <1>2, <3>2 DEF RemovedSeq
    <3> QED BY Zenon, <3>1, <3>2
  <2>6. McuSeq <= RemovedSeq'
    BY <1>2, <2>2
  <2>7. AcksMove
    BY Zenon, <2>1, <2>5, <2>6, SendfAcksMove
  <2>8. WireQuiet'
    BY Zenon, <1>1, <2>1, <2>4, WireTakenQuiet DEF QuietInv
  <2> QED BY <1>2, <2>2, <2>7, <2>8
<1>6. CASE FindBlockError
  <2>1. /\ dispatch # "running" /\ dispatch' = dispatch /\ McuSeq' = McuSeq
        /\ m2h' = m2h \/ command_sendf(FALSE, 0, next_sequence, McuSeq)
        /\ h2m # <<>> /\ h2m' = Tail(h2m) /\ ~h2m[1].ok
        /\ UNCHANGED <<start, executed>>
    BY Zenon, <1>6 DEF FindBlockError, command_find_block_error, McuSeq
  <2>2. dispatch = "idle" /\ dispatch' = "idle"
    BY Zenon, <2>1 DEF TypeInv, InReceiveBuf
  <2>3. RemovedSeq' = McuSeq /\ RemovedSeq = McuSeq
    BY Zenon, <2>1, <2>2 DEF RemovedSeq
  <2>4. 1 \in 1..Len(h2m)
    BY Zenon, <2>1, FrontOfSeq, LinkTypes
  <2>5. McuSeq <= ignore_nak_seq
    <3>1. Fresh(1) \/ Ignored(1)
      BY Zenon, <2>2, <2>4 DEF QuietInv, WireQuiet, FreshOrIgnored, Unread
    <3> QED BY Zenon, <2>1, <3>1 DEF Fresh, Ignored
  <2>6. McuSeq <= RemovedSeq'
    BY <1>2, <2>3
  <2>7. AcksMove
    <3>1. CASE m2h' = m2h
      BY Zenon, <3>1 DEF AcksMove
    <3>2. CASE command_sendf(FALSE, 0, next_sequence, McuSeq)
      BY Zenon, <3>2, <2>5, <2>6, SendfAcksMove
    <3> QED BY Zenon, <2>1, <3>1, <3>2
  <2>8. WireQuiet'
    BY Zenon, <1>1, <2>1, <2>2, WireTakenQuiet DEF QuietInv
  <2> QED BY <1>2, <2>3, <2>7, <2>8
<1>7. CASE Respond
  <2> DEFINE resp == IF dispatch = "running" THEN h2m[1].n ELSE 0
  <2>1. /\ dispatch' = dispatch /\ McuSeq' = McuSeq
        /\ command_sendf(TRUE, resp, next_sequence, McuSeq)
        /\ UNCHANGED <<h2m, start, executed>>
    BY Zenon, <1>7 DEF Respond, respond, McuSeq
  <2>2. resp \in Nat
    BY Zenon, FrontBlock DEF Block, TypeInv, InReceiveBuf
  <2> HIDE DEF resp
  <2>3. AcksMove
    BY Zenon, <2>1, <2>2, SendfAcksMove
  <2>4. RemovedSeq' = RemovedSeq /\ Unread(1)' = Unread(1)
    BY Zenon, <2>1 DEF RemovedSeq, Unread
  <2>5. WireQuiet'
    BY Zenon, <1>1, <2>1, <2>4, WireSame DEF QuietInv
  <2> QED BY <1>2, <2>3, <2>4, <2>5
<1>8. CASE SendAck
  <2>1. /\ dispatch = "running" /\ dispatch' = "idle" /\ McuSeq' = McuSeq
        /\ command_sendf(FALSE, 0, next_sequence, McuSeq)
        /\ h2m' = Tail(h2m)
        /\ UNCHANGED <<start, executed>>
    BY Zenon, <1>8 DEF SendAck, command_send_ack, McuSeq
  <2>2. h2m # <<>>
    BY Zenon, <2>1 DEF TypeInv, InReceiveBuf
  <2>3. RemovedSeq' = McuSeq /\ RemovedSeq = McuSeq - 1
    BY Zenon, <2>1 DEF RemovedSeq
  <2>4. McuSeq <= RemovedSeq' /\ McuSeq > RemovedSeq
    BY <1>2, <2>3
  <2>5. AcksMove
    BY Zenon, <2>1, <2>4, SendfAcksMove
  <2>6. WireQuiet'
    BY Zenon, <1>1, <2>1, <2>2, WireTakenQuiet DEF QuietInv
  <2> QED BY <1>2, <2>3, <2>5, <2>6
<1>9. CASE Shutdown
  <2>1. /\ dispatch = "running" /\ dispatch' = "aborted" /\ McuSeq' = McuSeq
        /\ UNCHANGED <<wireVars, start, executed>>
    BY Zenon, <1>9 DEF Shutdown, shutdown, McuSeq
  <2>2. RemovedSeq' = RemovedSeq /\ Unread(1)' = Unread(1)
    BY Zenon, <2>1 DEF RemovedSeq, Unread
  <2>3. WireQuiet'
    BY Zenon, <1>1, <2>1, <2>2, WireSame DEF QuietInv
  <2> QED BY <1>2, <2>1, <2>2, <2>3 DEF AcksMove
<1> QED BY Zenon, <1>4, <1>5, <1>6, <1>7, <1>8, <1>9 DEF McuStep

\* handle_message() does not ask for a retransmission at once.
LEMMA HandleMessageQuiet ==
    ASSUME TypeInv, HostBooks, LinkInv, Connected, QuietInv, HandleMessage
    PROVE  QuietInv'
<1> DEFINE rseq == ReceiveSeq(Head(m2h).seq)
           queued == IF rseq = receive_seq THEN sent_queue
                     ELSE SentAfter(rseq - receive_seq)
<1>1. /\ m2h # <<>> /\ m2h' = Tail(m2h) /\ UNCHANGED <<h2m, mcuVars>>
      /\ rseq - receive_seq <= Len(sent_queue) => send_seq' = send_seq
  BY Zenon, HandleMessageEffect
<1>2. rseq = m2h[1].abs /\ 1 \in 1..Len(m2h) /\ Head(m2h) = m2h[1]
  BY <1>1, AckIsMeant
<1>3. /\ retransmit_timer' = IF IsNak(m2h[1].data, rseq, queued) THEN "NOW"
                             ELSE IF rseq = receive_seq THEN retransmit_timer
                             ELSE RetransmitTimerAfter(queued)
      /\ last_ack_seq' = IF ~m2h[1].data /\ last_ack_seq < rseq THEN rseq ELSE last_ack_seq
      /\ ignore_nak_seq' = ignore_nak_seq
  BY Zenon, <1>2 DEF HandleMessage, handle_message
<1> HIDE DEF rseq, queued
<1>4. /\ rseq \in Nat /\ last_ack_seq \in Nat /\ ignore_nak_seq \in Nat /\ RemovedSeq \in Int
      /\ \A i \in 1..Len(m2h) : m2h[i].abs \in Nat
  BY <1>2, LinkTypes DEF TypeInv, TypeOK, HostTypeOK, RemovedSeq
<1>5. ~m2h[1].data =>
        rseq <= RemovedSeq /\ (rseq > ignore_nak_seq => rseq > last_ack_seq)
  BY Zenon, <1>2 DEF QuietInv, AcksFresh
<1>6. retransmit_timer' # "NOW"
  <2>1. ~IsNak(m2h[1].data, rseq, queued)
    BY <1>4, <1>5 DEF IsNak
  <2> QED BY Zenon, <1>3, <2>1 DEF QuietInv, RetransmitTimerAfter
<1>7. RemovedSeq' = RemovedSeq /\ Unread(1)' = Unread(1)
  BY Zenon, <1>1 DEF RemovedSeq, Unread, McuSeq
<1>8. WireQuiet'
  <2>1. receive_seq \in Nat /\ send_seq \in Nat /\ McuSeq \in Nat
    BY Zenon, LinkTypes
  <2>2. rseq <= McuSeq /\ McuSeq <= send_seq
    BY ZenonT(30), <1>2 DEF LinkInv, AckNumbers, InOrder
  <2>3. Len(sent_queue) = send_seq - receive_seq
    BY Zenon DEF HostBooks
  <2>4. send_seq' = send_seq
    BY <1>1, <1>4, <2>1, <2>2, <2>3
  <2> QED BY ZenonT(30), <1>1, <1>3, <1>7, <2>4, WireSame DEF QuietInv
<1>9. /\ Len(m2h') = Len(m2h) - 1
      /\ \A i \in 1..Len(m2h') : m2h'[i] = m2h[i + 1]
  BY Zenon, <1>1, SeqHeadTail, LinkTypes
<1>10. /\ \A i \in 1..Len(m2h') : i + 1 \in 1..Len(m2h) /\ 1 < i + 1
       /\ \A i, j \in 1..Len(m2h') : j < i => j + 1 < i + 1
  BY <1>9, LinkTypes
<1>11. last_ack_seq' <= RemovedSeq
  <2>1. last_ack_seq <= RemovedSeq
    BY Zenon DEF QuietInv, AcksFresh
  <2> QED BY Zenon, <1>3, <1>5, <2>1
<1>12. ASSUME NEW i \in 1..Len(m2h'), ~m2h'[i].data
       PROVE  m2h'[i].abs <= RemovedSeq
              /\ (m2h'[i].abs > ignore_nak_seq => m2h'[i].abs > last_ack_seq')
  <2> DEFINE m == m2h[i + 1]
  <2>1. m2h'[i] = m /\ i + 1 \in 1..Len(m2h) /\ 1 < i + 1 /\ ~m.data
    BY Zenon, <1>9, <1>10, <1>12
  <2>2. m.abs <= RemovedSeq /\ (m.abs > ignore_nak_seq => m.abs > last_ack_seq)
    BY Zenon, <2>1 DEF QuietInv, AcksFresh
  <2>3. ~m2h[1].data /\ m.abs > ignore_nak_seq => rseq < m.abs
    BY Zenon, <1>2, <2>1 DEF QuietInv, AcksFresh
  <2> HIDE DEF m
  <2> QED BY Zenon, <1>3, <2>1, <2>2, <2>3
<1>13. ASSUME NEW i \in 1..Len(m2h'), NEW j \in 1..Len(m2h'), j < i,
              ~m2h'[i].data, ~m2h'[j].data, m2h'[i].abs > ignore_nak_seq
       PROVE  m2h'[j].abs < m2h'[i].abs
  BY Zenon, <1>9, <1>10, <1>13 DEF QuietInv, AcksFresh
<1>14. AcksFresh'
  BY ZenonT(30), <1>3, <1>7, <1>11, <1>12, <1>13 DEF AcksFresh
<1> QED BY ZenonT(30), <1>6, <1>8, <1>14 DEF QuietInv

\* What no step but LineError does.
LEMMA LossesCounted ==
    ASSUME TypeInv, [Next]_vars, losses' = 0
    PROVE  losses = 0 /\ ~LineError
<1>1. ~LineError
  <2>1. losses \in Nat
    BY Zenon DEF TypeInv, TypeOK, WireTypeOK
  <2>2. LineError => losses' = losses + 1
    BY ZenonT(30) DEF LineError, LoseBlock, CorruptBlock, LoseMessage
  <2> QED BY <2>1, <2>2
<1>2. losses = 0
  BY Zenon, <1>1 DEF Next, HostStep, McuStep, SendCommand, HandleMessage,
     HandleInvalid, Retransmit, FindBlock, FindBlockNak, FindBlockError, Respond,
     SendAck, Shutdown, Reset, command_find_block, command_find_block_nak,
     command_find_block_error, respond, command_send_ack, shutdown, reset,
     build_and_send_command, handle_message, handle_message_invalid, retransmit_event
<1> QED BY Zenon, <1>1, <1>2

\* Every step keeps it while nothing is damaged.
LEMMA QuietStep ==
    ASSUME TypeInv, HostBooks, LinkInv, LinkInv', Connected, AnswersInv, QuietInv,
           [Next]_vars, ~Reset, ~LineError
    PROVE  QuietInv'
<1>1. CASE SendCommand
  <2>1. WireQuiet'
    BY Zenon, <1>1, SendCommandQuiet DEF QuietInv
  <2>2. /\ UNCHANGED <<m2h, mcuVars, last_ack_seq, ignore_nak_seq>>
        /\ retransmit_timer' # "NOW"
    BY Zenon, <1>1 DEF SendCommand, build_and_send_command, QuietInv
  <2>3. RemovedSeq' = RemovedSeq
    BY Zenon, <2>2 DEF RemovedSeq, McuSeq
  <2>4. AcksFresh'
    BY Zenon, <2>2, <2>3 DEF QuietInv, AcksFresh
  <2> QED BY Zenon, <2>1, <2>2, <2>4 DEF QuietInv
<1>2. CASE Retransmit
  <2>1. WireQuiet' /\ ignore_nak_seq' = send_seq /\ retransmit_timer' = "LATER"
    BY Zenon, <1>2, RetransmitQuiet
  <2>2. UNCHANGED <<m2h, mcuVars, last_ack_seq>>
    BY Zenon, <1>2 DEF Retransmit, retransmit_event
  <2>3. RemovedSeq' = RemovedSeq
    BY Zenon, <2>2 DEF RemovedSeq, McuSeq
  <2>4. \A i \in 1..Len(m2h) : ~(m2h[i].abs > send_seq)
    <3>1. McuSeq \in Nat /\ send_seq \in Nat /\ McuSeq <= send_seq
      BY Zenon, LinkTypes DEF LinkInv, InOrder
    <3>2. \A i \in 1..Len(m2h) : m2h[i].abs <= McuSeq /\ m2h[i].abs \in Nat
      BY Zenon, LinkTypes DEF LinkInv, AckNumbers
    <3> QED BY <3>1, <3>2
  <2>5. AcksFresh'
    BY Zenon, <2>1, <2>2, <2>3, <2>4 DEF QuietInv, AcksFresh
  <2> QED BY Zenon, <2>1, <2>5 DEF QuietInv
<1>3. CASE HandleInvalid
  <2>1. m2h # <<>> /\ m2h' = Tail(m2h) /\ UNCHANGED <<hostVars, mcuVars, h2m>>
    BY Zenon, <1>3 DEF HandleInvalid, handle_message_invalid
  <2>2. RemovedSeq' = RemovedSeq /\ Unread(1)' = Unread(1) /\ RemovedSeq \in Int
    BY <2>1, LinkTypes DEF RemovedSeq, Unread, McuSeq
  <2>3. WireQuiet'
    BY Zenon, <2>1, <2>2, WireSame DEF QuietInv
  <2>4. AcksFresh'
    BY <2>1, <2>2, AcksKept DEF QuietInv, AcksMove
  <2> QED BY Zenon, <2>1, <2>3, <2>4 DEF QuietInv
<1>4. CASE UNCHANGED vars
  <2>1. RemovedSeq' = RemovedSeq /\ Unread(1)' = Unread(1)
    BY Zenon, <1>4 DEF RemovedSeq, Unread, McuSeq
  <2>2. WireQuiet'
    BY Zenon, <1>4, <2>1, WireSame DEF QuietInv
  <2>3. AcksFresh'
    BY Zenon, <1>4, <2>1 DEF QuietInv, AcksFresh
  <2> QED BY ZenonT(30), <1>4, <2>2, <2>3 DEF QuietInv
<1> QED
  BY Zenon, <1>1, <1>2, <1>3, <1>4, HandleMessageQuiet, McuStepQuiet DEF Next, HostStep

\* On a line that damages nothing handle_message() never takes an ack for a nak, for
\* every window, line length and order of timeouts: a timeout that was too early
\* makes the micro-controller nak old copies, but ignore_nak_seq covers every one of
\* those naks, and no other ack repeats the one before it.
THEOREM NoNeedlessSafe == Spec => []NoNeedlessFastRetransmit
<1> DEFINE Quiet == losses = 0 /\ resets = 0 /\ start = 1
           Inv == Quiet => QuietInv
<1>1. Init => Inv
  <2>1. Init => /\ h2m = <<>> /\ m2h = <<>> /\ retransmit_timer = "NEVER"
                /\ send_seq = 1 /\ last_ack_seq = 0 /\ executed = <<>> /\ dispatch = "idle"
    BY Zenon DEF Init, WireInit, HostInit, McuInit
  <2> SUFFICES ASSUME Init, start = 1 PROVE QuietInv
    BY Zenon
  <2>2. McuSeq = 1 /\ RemovedSeq = 1
    BY <2>1 DEF McuSeq, RemovedSeq
  <2>3. Len(h2m) = 0 /\ Len(m2h) = 0
    BY Zenon, <2>1
  <2>4. AcksFresh
    <3>1. last_ack_seq <= RemovedSeq
      BY <2>1, <2>2
    <3> QED BY Zenon, <2>3, <3>1, NoIndex DEF AcksFresh
  <2>5. WireQuiet
    BY <2>1, <2>2, <2>3 DEF WireQuiet, FreshOrIgnored, NoGap, NothingLost
  <2> QED BY ZenonT(30), <2>1, <2>4, <2>5 DEF QuietInv
<1>2. TypeInv /\ IInv /\ IInv' /\ TruthInv /\ Inv /\ [Next]_vars => Inv'
  <2> SUFFICES ASSUME TypeInv, IInv, IInv', TruthInv, Inv, [Next]_vars, Quiet'
               PROVE  QuietInv'
    BY Zenon
  <2>1. losses = 0 /\ ~LineError
    BY Zenon, LossesCounted
  <2>2. resets = 0 /\ ~Reset
    BY Zenon, NotRestarted
  <2>3. start = 1
    BY Zenon, <2>2 DEF Next, HostStep, McuStep, LineError, SendCommand, HandleMessage,
       HandleInvalid, Retransmit, FindBlock, FindBlockNak, FindBlockError, Respond,
       SendAck, Shutdown, command_find_block, command_find_block_nak,
       command_find_block_error, respond, command_send_ack, shutdown
  <2>4. HostBooks /\ LinkInv /\ LinkInv' /\ AnswersInv /\ QuietInv /\ Connected
    BY Zenon, <2>1, <2>2, <2>3 DEF IInv, TruthInv, Connected
  <2> QED BY Zenon, <2>1, <2>2, <2>4, QuietStep
<1>3. Inv => NoNeedlessFastRetransmit
  BY Zenon DEF NoNeedlessFastRetransmit, QuietInv
<1> HIDE DEF Inv
<1> QED BY <1>1, <1>2, <1>3, Invariant, TruthInvariant, PTL DEF Spec
=============================================================================
