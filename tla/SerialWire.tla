----------------------------- MODULE SerialWire -----------------------------
(***************************************************************************)
(* The two directions of the serial line between the host program and one  *)
(* micro-controller, and the numbers both ends agree on.                   *)
(*                                                                         *)
(* A wire is a FIFO of message blocks.  h2m holds what the host wrote and  *)
(* the micro-controller has not yet removed from its receive buffer; m2h   *)
(* holds what the micro-controller queued for transmission and the host    *)
(* has not yet handled.  Bytes are abstracted to blocks: a block whose     *)
(* bytes were damaged is a block with ok = FALSE.                          *)
(***************************************************************************)
EXTENDS Integers, Sequences

CONSTANTS
    SeqMod,         \* MESSAGE_SEQ_MASK + 1: how many sequence numbers the wire knows
    MaxPending,     \* MAX_PENDING_BLOCKS: blocks the host may have unacknowledged
    MessageMax,     \* MESSAGE_MAX: size of the largest block
    BlockLens,      \* the block sizes the host builds
    ReceiveWindow,  \* RECEIVE_WINDOW of the micro-controller, 0 if it has none
    StartSeqs,      \* where the micro-controller's numbering may be at connect
    NotifyBlocks,   \* the blocks with a command whose sender waits for the ack
    TxCap,          \* messages that fit in the micro-controller's transmit_buf
    MaxSeq,         \* bound: the host builds no block with a number above it
    WireCap,        \* bound: blocks the host puts on the wire ahead of the reader
    MaxLoss,        \* bound: how many blocks or messages the line damages
    MaxResp,        \* bound: how many responses the micro-controller generates
    MaxReset        \* bound: how many times the micro-controller restarts

ASSUME SeqModAssumption == SeqMod \in Nat /\ SeqMod > 2
ASSUME MaxPendingAssumption == MaxPending \in Nat \ {0} /\ MaxPending < SeqMod
ASSUME SizesAssumption ==
    /\ MessageMax \in Nat \ {0}
    /\ BlockLens \subseteq 1..MessageMax /\ BlockLens # {}
    /\ ReceiveWindow \in Nat
    /\ ReceiveWindow = 0 \/ ReceiveWindow >= 2 * MessageMax
    /\ TxCap \in Nat \ {0}
    /\ StartSeqs \subseteq 1..SeqMod
    /\ NotifyBlocks \subseteq Nat
ASSUME BoundsAssumption ==
    /\ MaxSeq \in Nat /\ WireCap \in Nat
    /\ MaxLoss \in Nat /\ MaxResp \in Nat /\ MaxReset \in Nat

VARIABLES
    h2m,        \* blocks on their way to, or in the receive_buf of, the micro-controller
    m2h,        \* messages on their way to the host
    losses      \* how much the line has damaged so far

wireVars == <<h2m, m2h, losses>>

\* The sequence numbers that appear in a block header.
WireSeq == 0..(SeqMod - 1)

\* A block from the host.  seq is the header's number; n is the host's full
\* 64-bit number of the block, which names its contents (no two blocks of a
\* connection have the same); len is its size.
Block == [ok: BOOLEAN, seq: WireSeq, n: Nat, len: Nat]

\* A message from the micro-controller.  An ack or nak has no contents
\* (data = FALSE).  For a response made while block r was being dispatched,
\* resp = r; resp = 0 for every other message.  abs is the full number that
\* the 4-bit seq stands for; no action reads it.
Message == [seq: WireSeq, data: BOOLEAN, resp: Nat, abs: Nat]

\* The line damages the next block for the micro-controller beyond
\* recognition, or so that it arrives as bytes that are not a valid block.
LoseBlock ==
    /\ losses < MaxLoss
    /\ h2m # <<>>
    /\ h2m' = Tail(h2m)
    /\ losses' = losses + 1
    /\ UNCHANGED m2h

CorruptBlock ==
    /\ losses < MaxLoss
    /\ h2m # <<>>
    /\ h2m[1].ok
    /\ h2m' = [h2m EXCEPT ![1] = [@ EXCEPT !.ok = FALSE]]
    /\ losses' = losses + 1
    /\ UNCHANGED m2h

\* The next message for the host is damaged: msgblock_check() finds no valid
\* block in its bytes and input_event() skips them.
LoseMessage ==
    /\ losses < MaxLoss
    /\ m2h # <<>>
    /\ m2h' = Tail(m2h)
    /\ losses' = losses + 1
    /\ UNCHANGED h2m

WireInit ==
    /\ h2m = <<>>
    /\ m2h = <<>>
    /\ losses = 0

WireTypeOK ==
    /\ h2m \in Seq(Block)
    /\ m2h \in Seq(Message)
    /\ losses \in Nat
=============================================================================
