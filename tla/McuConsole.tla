----------------------------- MODULE McuConsole -----------------------------
(***************************************************************************)
(* The micro-controller end of the serial line: the block handling of      *)
(* src/command.c, driven by console_task() of src/generic/serial_irq.c.    *)
(*                                                                         *)
(* console_task() looks at the block at the front of receive_buf, runs the *)
(* commands in it, removes it and acknowledges it.  Responses may be sent  *)
(* at any time, also while the commands of a block are running; a command  *)
(* may also call shutdown(), which jumps out of the dispatch and leaves    *)
(* the block in receive_buf.                                               *)
(***************************************************************************)
EXTENDS SerialWire

VARIABLES
    next_sequence,  \* the sequence number of the block that is accepted next
    need_valid,     \* CF_NEED_VALID of sync_state: invalid bytes were nak'ed already
    dispatch,       \* what console_task is doing with the front of receive_buf
    responses,      \* how many responses were generated
    resets,         \* how many times the micro-controller restarted
    executed,       \* history: the blocks dispatched since it started, in order
    start           \* history: number of the first block this connection accepts

mcuVars == <<next_sequence, need_valid, dispatch, responses, resets, executed, start>>

\* idle: looking for a block; running: the commands of h2m[1] are running;
\* aborted: a command shut the micro-controller down, h2m[1] is still there.
DispatchState == {"idle", "running", "aborted"}

\* The full number of the block that is accepted next.
McuSeq == start + Len(executed)

\* The blocks whose dispatch is over are those below this number.
FinishedSeq == IF dispatch = "running" THEN McuSeq - 1 ELSE McuSeq

\* The host may connect to a micro-controller that has been running for some
\* time.  A freshly booted one starts at number 0, that is SeqMod.
McuInit ==
    /\ start \in StartSeqs
    /\ next_sequence = start % SeqMod
    /\ need_valid = FALSE
    /\ dispatch = "idle"
    /\ responses = 0
    /\ resets = 0
    /\ executed = <<>>

\* command_sendf() and console_sendf(): the message is dropped if transmit_buf
\* has no room for it.  Every message carries next_sequence.
command_sendf(data, resp, seq, abs) ==
    m2h' = IF Len(m2h) < TxCap
           THEN Append(m2h, [seq |-> seq, data |-> data, resp |-> resp, abs |-> abs])
           ELSE m2h

\* Mutant: the sequence number is not looked at.
IsNext_AnySeq(block) == TRUE

\* command_find_block(): is this the block that is accepted next?
IsNext(block) == block.seq = next_sequence

\* command_find_block(): the sequence number after seq.
NextSequence(seq) == (seq + 1) % SeqMod

\* command_find_block() finds the block it expects; command_dispatch() starts
\* to run its commands.
command_find_block ==
    /\ h2m # <<>>
    /\ dispatch # "running"
    /\ h2m[1].ok
    /\ IsNext(h2m[1])
    /\ next_sequence' = NextSequence(h2m[1].seq)
    /\ need_valid' = FALSE
    /\ dispatch' = "running"
    /\ executed' = Append(executed, h2m[1].n)
    /\ UNCHANGED <<start, responses, resets, wireVars>>

\* command_find_block() finds a valid block out of order: discarded and nak'ed.
command_find_block_nak ==
    /\ h2m # <<>>
    /\ dispatch # "running"
    /\ h2m[1].ok
    /\ ~IsNext(h2m[1])
    /\ need_valid' = FALSE
    /\ dispatch' = "idle"
    /\ h2m' = Tail(h2m)
    /\ command_sendf(FALSE, 0, next_sequence, McuSeq)
    /\ UNCHANGED <<start, next_sequence, responses, resets, executed, losses>>

\* command_find_block() finds invalid bytes: discarded, and nak'ed if no other
\* nak was sent since the last valid block.
command_find_block_error ==
    /\ h2m # <<>>
    /\ dispatch # "running"
    /\ ~h2m[1].ok
    /\ need_valid' = TRUE
    /\ h2m' = Tail(h2m)
    /\ \/ need_valid /\ UNCHANGED m2h
       \/ ~need_valid /\ command_sendf(FALSE, 0, next_sequence, McuSeq)
    /\ UNCHANGED <<start, next_sequence, dispatch, responses, resets, executed, losses>>

\* A command of the block being dispatched, or anything else that runs on the
\* micro-controller, sends a response.
respond ==
    /\ responses < MaxResp
    /\ responses' = responses + 1
    /\ command_sendf(TRUE, IF dispatch = "running" THEN h2m[1].n ELSE 0,
                     next_sequence, McuSeq)
    /\ UNCHANGED <<start, next_sequence, need_valid, dispatch, resets, executed, h2m,
                   losses>>

\* The last command of the block returns: console_pop_input(), command_send_ack().
command_send_ack ==
    /\ dispatch = "running"
    /\ dispatch' = "idle"
    /\ h2m' = Tail(h2m)
    /\ command_sendf(FALSE, 0, next_sequence, McuSeq)
    /\ UNCHANGED <<start, next_sequence, need_valid, responses, resets, executed, losses>>

\* A command of the block calls shutdown(): sched_main() is resumed, nothing is
\* removed from receive_buf and no ack is sent.
shutdown ==
    /\ dispatch = "running"
    /\ dispatch' = "aborted"
    /\ UNCHANGED <<start, next_sequence, need_valid, responses, resets, executed, wireVars>>

\* The micro-controller loses power and starts again: the static variables get
\* their initial values, what was in receive_buf and transmit_buf is gone, and
\* sched_main() sends a "starting" message.  The first `came` blocks for it had
\* arrived, the first `gone` messages had left it.
reset(came, gone) ==
    /\ resets < MaxReset
    /\ dispatch # "idle" => came > 0
    /\ resets' = resets + 1
    /\ next_sequence' = 0
    /\ need_valid' = FALSE
    /\ dispatch' = "idle"
    /\ executed' = <<>>
    /\ start' = SeqMod
    /\ h2m' = SubSeq(h2m, came + 1, Len(h2m))
    /\ m2h' = Append(SubSeq(m2h, 1, gone),
                     [seq |-> 0, data |-> TRUE, resp |-> 0, abs |-> SeqMod])
    /\ UNCHANGED <<responses, losses>>

McuTypeOK ==
    /\ next_sequence \in WireSeq
    /\ need_valid \in BOOLEAN
    /\ dispatch \in DispatchState
    /\ responses \in Nat
    /\ resets \in Nat
    /\ executed \in Seq(Nat)
    /\ start \in 1..SeqMod
=============================================================================
