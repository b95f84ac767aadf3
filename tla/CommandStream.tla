---------------------------- MODULE CommandStream ---------------------------
(***************************************************************************)
(* What the serial line promises: a stream of command blocks.  The host    *)
(* submits blocks, the micro-controller executes each of them once and in  *)
(* the order they were submitted, and the host gets to know how far it is. *)
(* The blocks submitted before the connection is made are dropped.         *)
(***************************************************************************)
EXTENDS Naturals, Sequences

CONSTANT Blocks  \* the blocks the host may submit

VARIABLES
    connected,  \* has the host found the micro-controller's place in the stream?
    pending,    \* blocks submitted and not yet executed
    log,        \* blocks executed
    known       \* how many blocks of log the host knows to be executed

vars == <<connected, pending, log, known>>

Init ==
    /\ connected \in BOOLEAN
    /\ pending = <<>>
    /\ log = <<>>
    /\ known = 0

Submit(b) ==
    /\ pending' = Append(pending, b)
    /\ UNCHANGED <<connected, log, known>>

Connect ==
    /\ ~connected
    /\ connected' = TRUE
    /\ pending' = <<>>
    /\ UNCHANGED <<log, known>>

Execute ==
    /\ connected
    /\ pending # <<>>
    /\ log' = Append(log, Head(pending))
    /\ pending' = Tail(pending)
    /\ UNCHANGED <<connected, known>>

Confirm ==
    /\ connected
    /\ known' \in (known + 1)..Len(log)
    /\ UNCHANGED <<connected, pending, log>>

Next == Connect \/ Execute \/ Confirm \/ \E b \in Blocks : Submit(b)
Spec == Init /\ [][Next]_vars
=============================================================================
