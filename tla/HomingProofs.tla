---------------------------- MODULE HomingProofs ----------------------------
(***************************************************************************)
(* Proofs about a homing move, for every number of micro-controllers,      *)
(* every number of moves and retries, every delay and every loss of        *)
(* reports.                                                                *)
(*                                                                         *)
(* MCU_trsync.stop() asks each micro-controller with a command that it     *)
(* answers by a report and an acknowledgement.  Commands and messages are  *)
(* in order, so the query is the last command, and the acknowledgement the *)
(* last message, of the move (LinkInv, in the three phases of the handler  *)
(* of a link).  What get_response() returns is therefore the reason the    *)
(* trsync stopped for, and nothing comes after it.                         *)
(***************************************************************************)
EXTENDS Homing, NumbersAndSequences

\* Time limits of the provers: 30 seconds.
USE SMTT(30), ZenonT(30)

\* What is under way to and from a micro-controller: commands, and the messages
\* that have not reached the Python thread.
Cmd == {"endstop", "host", "past", "query"}
Msg == [can : BOOLEAN, reason : Reason, late : BOOLEAN] \cup {Ack}
Then(p, u) == p \o u
Coming(m) == Then(pull[m], up[m])

\* Is there an x in s, is there none, is it the last one only?
Somewhere(x, s) == \E i \in 1..Len(s) : s[i] = x
Nowhere(x, s) == \A i \in 1..Len(s) : s[i] # x
OnlyLast(x, s) == Len(s) > 0 /\ s[Len(s)] = x /\ \A i \in 1..(Len(s) - 1) : s[i] # x

\* The query that get_response() waits for: the micro-controller, the reason noted so far, the retries left.
QueryOK ==
    query = Nobody \/ \E k \in Mcus, a \in Reason \cup {"none yet"}, n \in 0..Retries : query = <<k, a, n>>

\* Types.
HomeTypes ==
    /\ ts \in [Mcus -> [can : BOOLEAN, timers : BOOLEAN, reason : Reason]]
    /\ moving \in [Mcus -> BOOLEAN] /\ endstop \in BOOLEAN
    /\ down \in [Mcus -> Seq(Cmd)]
    /\ up \in [Mcus -> Seq(Msg)] /\ pull \in [Mcus -> Seq(Msg)]
    /\ reader \in [Mcus -> BOOLEAN]
    /\ handler \in [Mcus -> {"nobody", "move", "query"}]
    /\ res \in [Mcus -> Reason]
    /\ lost \in Nat /\ over \in BOOLEAN
    /\ QueryOK

\* A trsync that neither triggers nor reports any more.
Quiet(m) == ~ts[m].can /\ ~ts[m].timers

\* The answer to the query is right in front of its acknowledgement, or it has
\* been noted.
Told(m) ==
    LET s == Coming(m)
    IN  \/ Len(s) > 1 /\ s[Len(s) - 1].reason = ts[m].reason
        \/ Len(s) = 1 /\ query[2] = ts[m].reason

\* One link and its micro-controller, in the phase of the move.
LinkInv(m) ==
    /\ moving[m] => ts[m].can
    /\ handler[m] = "move" => Nowhere("query", down[m]) /\ Nowhere(Ack, Coming(m))
    /\ handler[m] = "query" =>
          \/ OnlyLast("query", down[m]) /\ Nowhere(Ack, Coming(m))
          \/ down[m] = <<>> /\ OnlyLast(Ack, Coming(m)) /\ Quiet(m) /\ (lost = 0 => Told(m))
    /\ handler[m] = "nobody" =>
          /\ Quiet(m) /\ down[m] = <<>> /\ Coming(m) = <<>>
          /\ lost = 0 /\ hpc # "error" => res[m] = ts[m].reason

\* The main thread in home_wait(), and the end stop.
MainInv ==
    /\ hpc \in {"move", "wait"} => \A k \in Mcus : handler[k] = "move"
    /\ hpc \in {"idle", "done"} => query = Nobody /\ \A k \in Mcus : handler[k] = "nobody"
    /\ \A m, k \in Mcus : reader[m] => handler[k] = "move"
    /\ \A m \in Mcus : handler[m] = "query" => query # Nobody /\ query[1] = m
    /\ endstop => hpc \in {"move", "wait"} \/ \E i \in 1..Len(down[E]) : down[E][i] = "endstop"

\* The inductive invariant.
HomeInv == HomeTypes /\ MainInv /\ \A m \in Mcus : LinkInv(m)

-----------------------------------------------------------------------------
\* x stays out of a sequence that loses elements or gets others.
LEMMA NowhereAppend ==
    ASSUME NEW S, NEW s \in Seq(S), NEW x, Nowhere(x, s), NEW e \in S, e # x
    PROVE  Nowhere(x, Append(s, e))
    BY DEF Nowhere

\* ... one that is removed from the front ...
LEMMA NowhereTail ==
    ASSUME NEW S, NEW s \in Seq(S), NEW x, Nowhere(x, s), s # <<>>
    PROVE  Nowhere(x, Tail(s))
    BY DEF Nowhere

\* ... and the first one.
LEMMA NowhereHead ==
    ASSUME NEW S, NEW s \in Seq(S), NEW x, Nowhere(x, s), s # <<>>
    PROVE  Head(s) # x
    BY DEF Nowhere

\* A sequence gets its last element.
LEMMA LastAppended ==
    ASSUME NEW S, NEW s \in Seq(S), NEW x \in S, Nowhere(x, s)
    PROVE  OnlyLast(x, Append(s, x))
<1>1. PICK n \in Nat : n = Len(s)
    OBVIOUS
<1>2. PICK r \in Seq(S) : r = Append(s, x)
    BY Zenon, SeqAppend
<1>3. Len(r) = n + 1 /\ r[n + 1] = x /\ \A i \in 1..n : r[i] = s[i]
    BY <1>1, <1>2
<1>4. \A i \in 1..n : r[i] # x
    BY <1>1, <1>3 DEF Nowhere
<1>5. n + 1 > 0 /\ (n + 1) - 1 = n
    OBVIOUS
<1>6. OnlyLast(x, r)
    BY Zenon, <1>3, <1>4, <1>5 DEF OnlyLast
<1> QED
    BY Zenon, <1>2, <1>6

\* The last element stays the last when the first one goes ...
LEMMA LastKept ==
    ASSUME NEW S, NEW s \in Seq(S), NEW x \in S, OnlyLast(x, s), Head(s) # x
    PROVE  /\ OnlyLast(x, Tail(s)) /\ Len(s) > 1
           /\ Len(Tail(s)) = Len(s) - 1
           /\ Len(s) > 2 => Tail(s)[Len(Tail(s)) - 1] = s[Len(s) - 1]
           /\ Len(s) = 2 => Head(s) = s[Len(s) - 1]
<1>1. PICK n \in Nat : n = Len(s)
    OBVIOUS
<1>2. n > 0 /\ s[n] = x /\ (\A i \in 1..(n - 1) : s[i] # x) /\ s # <<>>
    BY <1>1 DEF OnlyLast
<1>3. PICK r \in Seq(S) : r = Tail(s)
    BY Zenon, <1>2, SeqHeadTail
<1>4. Head(s) = s[1] /\ Len(r) = n - 1 /\ \A i \in 1..(n - 1) : r[i] = s[i + 1]
    BY <1>1, <1>2, <1>3
<1>5. n > 1
    BY <1>2, <1>4
<1> HIDE <1>1, <1>3
<1>6. r[n - 1] = x /\ \A i \in 1..(n - 2) : r[i] # x
    BY <1>2, <1>4, <1>5
<1>7. OnlyLast(x, r)
    BY <1>4, <1>5, <1>6 DEF OnlyLast
<1>8. (n > 2 => r[(n - 1) - 1] = s[n - 1]) /\ (n = 2 => s[1] = s[n - 1])
    <2>1. n > 2 => (n - 1) - 1 \in 1..(n - 1) /\ ((n - 1) - 1) + 1 = n - 1
        OBVIOUS
    <2>2. n = 2 => n - 1 = 1
        OBVIOUS
    <2> QED
        BY Zenon, <1>4, <2>1, <2>2
<1> QED
    BY Zenon, <1>1, <1>3, <1>4, <1>5, <1>7, <1>8

\* r, which is s without its first element, ends like s, or that element was in front of the last.
Shifted(s, r) ==
    \/ Len(r) = 1 /\ Head(s) = s[Len(s) - 1]
    \/ Len(r) > 1 /\ r[Len(r) - 1] = s[Len(s) - 1]

\* ... and so does the element in front of it ...
LEMMA LastCases ==
    ASSUME NEW S, NEW s \in Seq(S), NEW x \in S, OnlyLast(x, s), Head(s) # x, NEW r, r = Tail(s)
    PROVE  OnlyLast(x, r) /\ Len(s) # 1 /\ Shifted(s, r)
<1>1. PICK n \in Nat : n = Len(s)
    BY Zenon, SeqLen
<1>2. OnlyLast(x, r) /\ n > 1 /\ Len(r) = n - 1
    BY Zenon, <1>1, LastKept
<1>3. CASE n > 2
    <2>1. n - 1 > 1 /\ n # 1
        BY <1>3
    <2>2. r[Len(r) - 1] = s[Len(s) - 1]
        BY Zenon, <1>1, <1>3, LastKept
    <2> QED
        BY Zenon, <1>1, <1>2, <2>1, <2>2 DEF Shifted
<1>4. CASE n = 2
    <2>1. n - 1 = 1 /\ n # 1
        BY <1>4
    <2>2. Head(s) = s[Len(s) - 1]
        BY Zenon, <1>1, <1>4, LastKept
    <2> QED
        BY Zenon, <1>1, <1>2, <2>1, <2>2 DEF Shifted
<1>5. n > 2 \/ n = 2
    BY <1>2
<1> QED
    BY Zenon, <1>3, <1>4, <1>5

\* ... and when it is the first, it is the only one.
LEMMA LastAlone ==
    ASSUME NEW S, NEW s \in Seq(S), NEW x \in S, OnlyLast(x, s), Head(s) = x
    PROVE  Tail(s) = <<>> /\ Len(s) = 1
<1>1. PICK n \in Nat : n = Len(s)
    OBVIOUS
<1>2. n > 0 /\ s[n] = x /\ (\A i \in 1..(n - 1) : s[i] # x) /\ s # <<>>
    BY <1>1 DEF OnlyLast
<1>3. s[1] = x
    BY <1>2
<1>4. n = 1
    BY <1>2, <1>3
<1>5. Len(Tail(s)) = n - 1 /\ Tail(s) \in Seq(S)
    BY Zenon, <1>1, <1>2, SeqHeadTail
<1>i. n - 1 = 0
    BY <1>4
<1>6. PICK r \in Seq(S) : r = Tail(s) /\ Len(r) = 0
    BY Zenon, <1>5, <1>i
<1>7. r = <<>>
    BY <1>6
<1> QED
    BY Zenon, <1>1, <1>4, <1>6, <1>7

\* What is coming, when a message is sent, ...
LEMMA ConcatSent ==
    ASSUME NEW S, NEW p \in Seq(S), NEW u \in Seq(S), NEW e \in S
    PROVE  Then(p, Append(u, e)) = Append(Then(p, u), e)
    BY DEF Then

\* x is the last, and e right in front of it.
AnsweredLast(s, e, x) == OnlyLast(x, s) /\ Len(s) > 1 /\ s[Len(s) - 1] = e

\* Two are sent: a report and the acknowledgement behind it.
LEMMA ConcatSentTwo ==
    ASSUME NEW S, NEW p \in Seq(S), NEW u \in Seq(S), NEW e \in S, NEW x \in S, e # x,
           Nowhere(x, Then(p, u)), NEW r, r = Append(Append(u, e), x), NEW s, s = Then(p, r)
    PROVE  AnsweredLast(s, e, x)
<1>1. PICK a \in Seq(S) : a = Append(u, e)
    BY Zenon, SeqAppend
<1>2. Then(p, Append(a, x)) = Append(Then(p, a), x)
    BY DEF Then
<1>3. Then(p, a) = Append(Then(p, u), e) /\ Then(p, u) \in Seq(S)
    BY <1>1, ConcatSent DEF Then
<1>4. PICK t \in Seq(S) : t = Append(Then(p, u), e)
    BY Zenon, <1>3, SeqAppend
<1>5. s = Append(t, x)
    BY Zenon, <1>1, <1>2, <1>3, <1>4
<1>6. Nowhere(x, t)
    BY Zenon, <1>3, <1>4, NowhereAppend
<1>7. OnlyLast(x, s)
    BY Zenon, <1>5, <1>6, LastAppended
<1>8. Len(t) > 0 /\ t[Len(t)] = e
    BY <1>3, <1>4
<1>9. Len(s) > 1 /\ s[Len(s) - 1] = e
    BY <1>5, <1>8
<1> QED
    BY Zenon, <1>7, <1>9 DEF AnsweredLast

\* ... received, ...
LEMMA ConcatReceived ==
    ASSUME NEW S, NEW p \in Seq(S), NEW u \in Seq(S), u # <<>>
    PROVE  Then(Append(p, Head(u)), Tail(u)) = Then(p, u)
    BY DEF Then

\* ... or taken.
LEMMA ConcatTaken ==
    ASSUME NEW S, NEW p \in Seq(S), NEW u \in Seq(S), p # <<>>
    PROVE  Then(Tail(p), u) = Tail(Then(p, u)) /\ Head(Then(p, u)) = Head(p) /\ Then(p, u) # <<>>
<1>1. Tail(p) \o u = Tail(p \o u)
    OBVIOUS
<1>2. Head(p \o u) = Head(p)
    OBVIOUS
<1>3. Len(p \o u) > 0 /\ p \o u \in Seq(S)
    OBVIOUS
<1> QED
    BY <1>1, <1>2, <1>3, SeqEmpty DEF Then

\* Nothing is coming when nothing is under way and nothing waits.
LEMMA ConcatEmpty ==
    ASSUME NEW S, NEW p \in Seq(S), NEW u \in Seq(S)
    PROVE  Then(p, u) = <<>> <=> p = <<>> /\ u = <<>>
<1>1. p \o u \in Seq(S) /\ Len(p \o u) = Len(p) + Len(u)
    OBVIOUS
<1>2. p \o u = <<>> <=> Len(p) + Len(u) = 0
    BY <1>1, SeqEmpty
<1>3. (p = <<>> <=> Len(p) = 0) /\ (u = <<>> <=> Len(u) = 0)
    OBVIOUS
<1> QED
    BY <1>2, <1>3, SeqLen DEF Then

-----------------------------------------------------------------------------
\* What the invariant of one link talks about.
SameLink(k) ==
    /\ ts'[k] = ts[k] /\ moving'[k] = moving[k] /\ handler'[k] = handler[k]
    /\ down'[k] = down[k] /\ Coming(k)' = Coming(k)

\* Links of which nothing changes keep their invariant.
LEMMA SameInv ==
    ASSUME NEW k \in Mcus, LinkInv(k), SameLink(k), lost' = lost \/ lost' # 0, query' = query \/ handler[k] # "query",
           res'[k] = res[k] \/ handler[k] # "nobody",
           hpc' = hpc \/ hpc' = "error" \/ hpc # "error" \/ handler[k] # "nobody"
    PROVE  LinkInv(k)'
<1>1. Told(k) /\ handler[k] = "query" /\ lost' = lost => Told(k)'
    BY Zenon DEF Told, SameLink
<1>2. Quiet(k) => Quiet(k)'
    BY Zenon DEF Quiet, SameLink
<1>3. Nowhere(Ack, Coming(k)) => Nowhere(Ack, Coming(k)')
    BY Zenon DEF SameLink
<1>4. OnlyLast(Ack, Coming(k)) => OnlyLast(Ack, Coming(k)')
    BY Zenon DEF SameLink
<1> QED
    BY <1>1, <1>2, <1>3, <1>4 DEF LinkInv, SameLink

\* A step that concerns one micro-controller.
LEMMA OneLink ==
    ASSUME HomeInv, NEW m \in Mcus, HomeTypes', MainInv', LinkInv(m)',
           \A k \in Mcus \ {m} : SameLink(k) /\ res'[k] = res[k],
           lost' = lost \/ lost' # 0, hpc' = hpc \/ hpc' = "error",
           query' = query \/ \A k \in Mcus \ {m} : handler[k] # "query"
    PROVE  HomeInv'
<1>1. ASSUME NEW k \in Mcus PROVE LinkInv(k)'
    <2>1. CASE k = m
        BY Zenon, <2>1
    <2>2. CASE k # m
        BY Zenon, <2>2, SameInv DEF HomeInv
    <2> QED
        BY Zenon, <2>1, <2>2
<1> QED
    BY Zenon, <1>1 DEF HomeInv

\* A trsync triggers.
LEMMA TriggerInv ==
    ASSUME HomeInv, NEW m \in Mcus, NEW reason \in Reason, NEW timers \in BOOLEAN,
           Trigger(m, reason, timers), Quiet(m) => ~timers,
           endstop' \in BOOLEAN, endstop' => endstop,
           UNCHANGED <<down, up, td, reader, pull, pyVars, over, hpc, round, lost>>
    PROVE  HomeInv'
<1>1. /\ ts \in [Mcus -> [can : BOOLEAN, timers : BOOLEAN, reason : Reason]]
      /\ moving \in [Mcus -> BOOLEAN] /\ LinkInv(m)
    BY Zenon DEF HomeInv, HomeTypes
<1>2. /\ ts'[m] = [can |-> FALSE, timers |-> timers, reason |-> IF ts[m].can THEN reason ELSE ts[m].reason]
      /\ moving'[m] = (moving[m] /\ ~ts[m].can)
      /\ \A k \in Mcus \ {m} : ts'[k] = ts[k] /\ moving'[k] = moving[k]
      /\ ts' \in [Mcus -> [can : BOOLEAN, timers : BOOLEAN, reason : Reason]]
      /\ moving' \in [Mcus -> BOOLEAN]
    BY <1>1 DEF Trigger
<1>3. /\ down' = down /\ up' = up /\ pull' = pull /\ reader' = reader /\ handler' = handler
      /\ query' = query /\ res' = res /\ hpc' = hpc /\ lost' = lost
    BY DEF pyVars
<1>4. HomeTypes'
    BY Zenon, <1>2, <1>3 DEF HomeInv, HomeTypes, QueryOK
<1>5. MainInv'
    BY Zenon, <1>3 DEF HomeInv, MainInv
<1>6. ~moving'[m] /\ (Quiet(m) => Quiet(m)' /\ ts'[m].reason = ts[m].reason)
    BY <1>1, <1>2 DEF Quiet, LinkInv
<1>7. \A k \in Mcus : Coming(k)' = Coming(k)
    BY Zenon, <1>3 DEF Coming
<1>8. Quiet(m) /\ Told(m) => Told(m)'
    BY Zenon, <1>3, <1>6, <1>7 DEF Told
<1>9. LinkInv(m)'
    <2>1. handler[m] = "move" => Nowhere("query", down'[m]) /\ Nowhere(Ack, Coming(m)')
        BY Zenon, <1>1, <1>3, <1>7 DEF LinkInv
    <2>2. handler[m] = "query" =>
             \/ OnlyLast("query", down'[m]) /\ Nowhere(Ack, Coming(m)')
             \/ down'[m] = <<>> /\ OnlyLast(Ack, Coming(m)') /\ Quiet(m)' /\ (lost' = 0 => Told(m)')
        BY Zenon, <1>1, <1>3, <1>6, <1>7, <1>8 DEF LinkInv
    <2>3. handler[m] = "nobody" =>
             /\ Quiet(m)' /\ down'[m] = <<>> /\ Coming(m)' = <<>>
             /\ lost' = 0 /\ hpc' # "error" => res'[m] = ts'[m].reason
        BY Zenon, <1>1, <1>3, <1>6, <1>7 DEF LinkInv
    <2> QED
        BY Zenon, <1>3, <1>6, <2>1, <2>2, <2>3 DEF LinkInv
<1>10. \A k \in Mcus \ {m} : SameLink(k)
    BY Zenon, <1>2, <1>3, <1>7 DEF SameLink
<1> QED
    BY Zenon, <1>3, <1>4, <1>5, <1>9, <1>10, OneLink

\* trsync_expire_event()
LEMMA ExpireInv ==
    ASSUME HomeInv, NEW m \in Mcus, trsync_expire_event(m)
    PROVE  HomeInv'
<1>1. "timeout" \in Reason /\ ~Quiet(m)
    BY DEF Reason, Quiet, trsync_expire_event
<1>2. endstop' = endstop /\ endstop \in BOOLEAN
    BY DEF trsync_expire_event, HomeInv, HomeTypes
<1>3. UNCHANGED <<down, up, td, reader, pull, pyVars, over, hpc, round, lost>>
    BY DEF trsync_expire_event
<1>4. Trigger(m, "timeout", TRUE) /\ TRUE \in BOOLEAN
    BY Zenon DEF trsync_expire_event
<1> QED
    BY Zenon, <1>1, <1>2, <1>3, <1>4, TriggerInv

\* endstop_oversample_event()
LEMMA EndstopInv ==
    ASSUME HomeInv, endstop_trigger
    PROVE  HomeInv'
<1>1. "hit" \in Reason /\ E \in Mcus /\ (Quiet(E) => ~ts[E].timers)
    BY HomingAssumption DEF Reason, Quiet
<1>2. ts[E].timers \in BOOLEAN
    BY HomingAssumption DEF HomeInv, HomeTypes
<1> QED
    BY Zenon, <1>1, <1>2, TriggerInv DEF endstop_trigger

\* Messages that are not acknowledgements.
LEMMA ReportIsNoAck ==
    ASSUME NEW can \in BOOLEAN, NEW reason \in Reason, NEW late \in BOOLEAN
    PROVE  Report(can, reason, late) \in Msg /\ Report(can, reason, late) # Ack /\ Ack \in Msg
<1>1. Report(can, reason, late).reason # Ack.reason
    BY DEF Report, Ack, Reason
<1>2. Report(can, reason, late) \in Msg
    BY DEF Report, Msg
<1>3. Ack \in Msg
    BY DEF Report, Msg, Ack
<1> QED
    BY Zenon, <1>1, <1>2, <1>3

\* The queues of a link and their types.
LEMMA LinkTypes ==
    ASSUME HomeInv, NEW m \in Mcus
    PROVE  /\ down[m] \in Seq(Cmd) /\ up[m] \in Seq(Msg) /\ pull[m] \in Seq(Msg)
           /\ Coming(m) \in Seq(Msg) /\ LinkInv(m)
           /\ ts[m] \in [can : BOOLEAN, timers : BOOLEAN, reason : Reason]
           /\ handler[m] \in {"nobody", "move", "query"}
<1>1. down[m] \in Seq(Cmd) /\ up[m] \in Seq(Msg) /\ pull[m] \in Seq(Msg)
    BY Zenon DEF HomeInv, HomeTypes
<1>2. Coming(m) \in Seq(Msg)
    BY <1>1 DEF Coming, Then
<1>3. ts[m] \in [can : BOOLEAN, timers : BOOLEAN, reason : Reason]
      /\ handler[m] \in {"nobody", "move", "query"} /\ LinkInv(m)
    BY Zenon DEF HomeInv, HomeTypes
<1> QED
    BY Zenon, <1>1, <1>2, <1>3

\* trsync_task(): a trsync that is not quiet reports.
LEMMA ReportInv ==
    ASSUME HomeInv, NEW m \in Mcus, trsync_task(m)
    PROVE  HomeInv'
<1> DEFINE e == Report(ts[m].can, ts[m].reason, over)
<1>1. e \in Msg /\ e # Ack
    <2>1. ts[m].can \in BOOLEAN /\ ts[m].reason \in Reason
        BY LinkTypes
    <2>2. over \in BOOLEAN
        BY Zenon DEF HomeInv, HomeTypes
    <2> QED
        BY Zenon, <2>1, <2>2, ReportIsNoAck
<1>2. up' = [up EXCEPT ![m] = Append(@, e)] /\ ~Quiet(m)
    BY DEF trsync_task, Quiet
<1>3. /\ ts' = ts /\ moving' = moving /\ endstop' = endstop /\ down' = down /\ pull' = pull
      /\ reader' = reader /\ handler' = handler /\ over' = over
      /\ query' = query /\ res' = res /\ hpc' = hpc /\ lost' = lost
    BY DEF trsync_task, mcuVars, pyVars
<1> HIDE DEF e
<1>4. /\ up'[m] = Append(up[m], e) /\ \A k \in Mcus \ {m} : up'[k] = up[k]
      /\ up' \in [Mcus -> Seq(Msg)]
    <2>1. up \in [Mcus -> Seq(Msg)] /\ Append(up[m], e) \in Seq(Msg)
        BY Zenon, <1>1, LinkTypes, SeqAppend DEF HomeInv, HomeTypes
    <2> QED
        BY <1>2, <2>1
<1>5. HomeTypes'
    BY Zenon, <1>3, <1>4 DEF HomeInv, HomeTypes, QueryOK
<1>6. MainInv'
    BY Zenon, <1>3 DEF HomeInv, MainInv
<1>7. Coming(m)' = Append(Coming(m), e)
    <2>1. Coming(m)' = Then(pull[m], Append(up[m], e))
        BY Zenon, <1>3, <1>4 DEF Coming
    <2>2. pull[m] \in Seq(Msg) /\ up[m] \in Seq(Msg)
        BY Zenon, LinkTypes
    <2>3. Then(pull[m], Append(up[m], e)) = Append(Then(pull[m], up[m]), e)
        BY <1>1, <2>2, ConcatSent
    <2>4. Coming(m) = Then(pull[m], up[m])
        BY DEF Coming
    <2> QED
        BY Zenon, <2>1, <2>3, <2>4
<1>8. Nowhere(Ack, Coming(m)) => Nowhere(Ack, Coming(m)')
    <2>1. Coming(m) \in Seq(Msg)
        BY Zenon, LinkTypes
    <2> QED
        BY Zenon, <1>1, <1>7, <2>1, NowhereAppend
<1>9. LinkInv(m)'
    BY Zenon, <1>2, <1>3, <1>8, LinkTypes DEF LinkInv
<1>10. \A k \in Mcus \ {m} : SameLink(k)
    BY Zenon, <1>3, <1>4 DEF SameLink, Coming
<1> QED
    BY Zenon, <1>3, <1>5, <1>6, <1>9, <1>10, OneLink

\* A command is executed.
LEMMA ExecuteTypes ==
    ASSUME HomeInv, NEW m \in Mcus, NEW c, Execute(m, c)
    PROVE  /\ down' \in [Mcus -> Seq(Cmd)] /\ down[m] # <<>> /\ Head(down[m]) \in c \cap Cmd
           /\ down'[m] = Tail(down[m]) /\ \A k \in Mcus \ {m} : down'[k] = down[k]
           /\ pull' = pull /\ reader' = reader /\ handler' = handler /\ over' = over
           /\ query' = query /\ res' = res /\ hpc' = hpc /\ lost' = lost
           /\ handler[m] # "nobody"
           /\ handler[m] = "query" => OnlyLast("query", down[m]) /\ Nowhere(Ack, Coming(m))
<1>1. /\ down' = [down EXCEPT ![m] = Tail(@)] /\ down[m] # <<>> /\ Head(down[m]) \in c
      /\ pull' = pull /\ reader' = reader /\ handler' = handler /\ over' = over
      /\ query' = query /\ res' = res /\ hpc' = hpc /\ lost' = lost
    BY DEF Execute, pyVars
<1>2. down \in [Mcus -> Seq(Cmd)] /\ Tail(down[m]) \in Seq(Cmd) /\ Head(down[m]) \in Cmd
    BY Zenon, <1>1, LinkTypes, SeqHeadTail DEF HomeInv, HomeTypes
<1>3. /\ down' \in [Mcus -> Seq(Cmd)] /\ down'[m] = Tail(down[m])
      /\ \A k \in Mcus \ {m} : down'[k] = down[k]
    BY <1>1, <1>2
<1>4. /\ handler[m] # "nobody"
      /\ handler[m] = "query" => OnlyLast("query", down[m]) /\ Nowhere(Ack, Coming(m))
    BY Zenon, <1>1, LinkTypes DEF LinkInv
<1> QED
    BY Zenon, <1>1, <1>2, <1>3, <1>4

\* command_endstop_home(): the end stop is not sampled any more.
LEMMA DisableInv ==
    ASSUME HomeInv, NEW m \in Mcus, command_endstop_home(m)
    PROVE  HomeInv'
<1>1. /\ Execute(m, {"endstop"}) /\ endstop' = FALSE /\ ts' = ts /\ moving' = moving /\ up' = up
    BY DEF command_endstop_home
<1>2. /\ down' \in [Mcus -> Seq(Cmd)] /\ down[m] # <<>> /\ Head(down[m]) \in {"endstop"} \cap Cmd
      /\ down'[m] = Tail(down[m]) /\ \A k \in Mcus \ {m} : down'[k] = down[k]
      /\ pull' = pull /\ reader' = reader /\ handler' = handler /\ over' = over
      /\ query' = query /\ res' = res /\ hpc' = hpc /\ lost' = lost
      /\ handler[m] # "nobody"
      /\ handler[m] = "query" => OnlyLast("query", down[m]) /\ Nowhere(Ack, Coming(m))
    BY Zenon, <1>1, ExecuteTypes
<1>3. HomeTypes'
    BY Zenon, <1>1, <1>2 DEF HomeInv, HomeTypes, QueryOK
<1>4. MainInv'
    BY Zenon, <1>1, <1>2 DEF HomeInv, MainInv
<1>5. Coming(m)' = Coming(m)
    BY Zenon, <1>1, <1>2 DEF Coming
<1>6. /\ Nowhere("query", down[m]) => Nowhere("query", down'[m])
      /\ OnlyLast("query", down[m]) => OnlyLast("query", down'[m])
    <2>1. "query" \in Cmd /\ Head(down[m]) # "query"
        BY <1>2 DEF Cmd
    <2>2. down[m] \in Seq(Cmd)
        BY Zenon, LinkTypes
    <2> QED
        BY Zenon, <1>2, <2>1, <2>2, NowhereTail, LastKept
<1>7. LinkInv(m)'
    BY Zenon, <1>1, <1>2, <1>5, <1>6, LinkTypes DEF LinkInv
<1>8. \A k \in Mcus \ {m} : SameLink(k)
    BY Zenon, <1>1, <1>2 DEF SameLink, Coming
<1> QED
    BY Zenon, <1>2, <1>3, <1>4, <1>7, <1>8, OneLink

\* command_trsync_trigger(): the query is the last command, and its answer and the
\* acknowledgement are the last messages.
LEMMA CommandInv ==
    ASSUME HomeInv, NEW m \in Mcus, command_trsync_trigger(m)
    PROVE  HomeInv'
<1> DEFINE c == Head(down[m])
           reason == IF c = "past" THEN "past" ELSE "host"
           why == IF ts[m].can THEN reason ELSE ts[m].reason
           answer == Report(FALSE, why, FALSE)
<1>1. /\ Execute(m, {"host", "past", "query"}) /\ Trigger(m, reason, FALSE)
      /\ up' = [up EXCEPT ![m] = @ \o Answered(c, answer)] /\ endstop' = endstop
    BY Zenon DEF command_trsync_trigger
<1>2. /\ down' \in [Mcus -> Seq(Cmd)] /\ down[m] # <<>> /\ c \in {"host", "past", "query"} \cap Cmd
      /\ down'[m] = Tail(down[m]) /\ \A k \in Mcus \ {m} : down'[k] = down[k]
      /\ pull' = pull /\ reader' = reader /\ handler' = handler /\ over' = over
      /\ query' = query /\ res' = res /\ hpc' = hpc /\ lost' = lost
      /\ handler[m] # "nobody"
      /\ handler[m] = "query" => OnlyLast("query", down[m]) /\ Nowhere(Ack, Coming(m))
    BY Zenon, <1>1, ExecuteTypes
<1>3. why \in Reason
    <2>1. ts[m].reason \in Reason
        BY LinkTypes
    <2> QED
        BY <2>1 DEF Reason
<1>4. /\ ts'[m] = [can |-> FALSE, timers |-> FALSE, reason |-> why]
      /\ moving'[m] = (moving[m] /\ ~ts[m].can)
      /\ \A k \in Mcus \ {m} : ts'[k] = ts[k] /\ moving'[k] = moving[k]
      /\ ts' \in [Mcus -> [can : BOOLEAN, timers : BOOLEAN, reason : Reason]]
      /\ moving' \in [Mcus -> BOOLEAN]
    <2>1. /\ ts \in [Mcus -> [can : BOOLEAN, timers : BOOLEAN, reason : Reason]]
          /\ moving \in [Mcus -> BOOLEAN]
        BY Zenon DEF HomeInv, HomeTypes
    <2>2. ts' = [ts EXCEPT ![m] = [can |-> FALSE, timers |-> FALSE, reason |-> why]]
          /\ moving' = [moving EXCEPT ![m] = @ /\ ~ts[m].can]
        BY <1>1, <2>1 DEF Trigger
    <2> HIDE DEF why
    <2> QED
        BY <1>3, <2>1, <2>2
<1> HIDE DEF reason, why
<1>5. answer \in Msg /\ answer # Ack /\ Ack \in Msg /\ answer.reason = why
    <2>1. answer.reason = why
        BY DEF Report
    <2> QED
        BY Zenon, <1>3, <2>1, ReportIsNoAck
<1> HIDE DEF c, answer
<1>6. /\ c # "query" => up'[m] = Append(up[m], answer)
      /\ c = "query" => up'[m] = Append(Append(up[m], answer), Ack)
      /\ \A k \in Mcus \ {m} : up'[k] = up[k]
      /\ up' \in [Mcus -> Seq(Msg)]
    <2>1. up \in [Mcus -> Seq(Msg)] /\ up[m] \in Seq(Msg)
        BY Zenon, LinkTypes DEF HomeInv, HomeTypes
    <2>2. /\ up[m] \o <<answer>> = Append(up[m], answer)
          /\ up[m] \o <<answer, Ack>> = Append(Append(up[m], answer), Ack)
        BY <1>5, <2>1
    <2>3. Append(up[m], answer) \in Seq(Msg) /\ Append(Append(up[m], answer), Ack) \in Seq(Msg)
        BY Zenon, <1>5, <2>1, SeqAppend
    <2>4. up'[m] = up[m] \o Answered(c, answer) /\ \A k \in Mcus \ {m} : up'[k] = up[k]
        BY Zenon, <1>1, <2>1
    <2>5. c = "query" \/ c # "query"
        OBVIOUS
    <2>6. /\ c # "query" => up'[m] = Append(up[m], answer)
          /\ c = "query" => up'[m] = Append(Append(up[m], answer), Ack)
        BY Zenon, <2>2, <2>4 DEF Answered
    <2>7. up'[m] \in Seq(Msg)
        BY Zenon, <2>3, <2>5, <2>6
    <2>8. PICK u \in Seq(Msg) : up' = [up EXCEPT ![m] = u]
        BY Zenon, <1>1, <2>1, <2>4, <2>7
    <2>9. up' \in [Mcus -> Seq(Msg)]
        BY <2>1, <2>8
    <2> QED
        BY Zenon, <2>4, <2>6, <2>9
<1>7. HomeTypes'
    <2>1. endstop' \in BOOLEAN
        BY Zenon, <1>1 DEF HomeInv, HomeTypes
    <2>2. QueryOK'
        BY Zenon, <1>2 DEF HomeInv, HomeTypes, QueryOK
    <2> QED
        BY Zenon, <1>2, <1>4, <1>6, <2>1, <2>2 DEF HomeInv, HomeTypes
<1>8. MainInv'
    <2>1. ASSUME endstop', ~(hpc' \in {"move", "wait"})
          PROVE  \E i \in 1..Len(down'[E]) : down'[E][i] = "endstop"
        <3>1. PICK i \in 1..Len(down[E]) : down[E][i] = "endstop"
            BY Zenon, <1>1, <1>2, <2>1 DEF HomeInv, MainInv
        <3>2. CASE E # m
            BY Zenon, <1>2, <3>1, <3>2, HomingAssumption
        <3>3. CASE E = m
            <4>1. PICK d \in Seq(Cmd) : d = down[m] /\ d # <<>> /\ down'[m] = Tail(d) /\ i \in 1..Len(d)
                                        /\ d[i] = "endstop" /\ Head(d) # "endstop"
                BY <1>2, <3>1, <3>3, LinkTypes DEF c
            <4>2. i - 1 \in 1..Len(Tail(d)) /\ Tail(d)[i - 1] = "endstop"
                BY <4>1
            <4> QED
                BY Zenon, <3>3, <4>1, <4>2
        <3> QED
            BY Zenon, <3>2, <3>3
    <2> QED
        BY Zenon, <1>2, <2>1 DEF HomeInv, MainInv
<1>9. c # "query" => Coming(m)' = Append(Coming(m), answer)
    <2>1. pull[m] \in Seq(Msg) /\ up[m] \in Seq(Msg)
        BY Zenon, LinkTypes
    <2>2. Coming(m) = Then(pull[m], up[m]) /\ Coming(m)' = Then(pull[m], up'[m])
        BY Zenon, <1>2 DEF Coming
    <2>3. Then(pull[m], Append(up[m], answer)) = Append(Then(pull[m], up[m]), answer)
        BY <1>5, <2>1, ConcatSent
    <2> QED
        BY Zenon, <1>6, <2>2, <2>3
<1>10. Quiet(m)' /\ ts'[m].reason = why
    BY <1>4 DEF Quiet
<1>11. ~moving'[m]
    BY Zenon, <1>4, LinkTypes DEF LinkInv
<1>12. LinkInv(m)'
    <2>0. down[m] \in Seq(Cmd) /\ Coming(m) \in Seq(Msg) /\ "query" \in Cmd
        BY LinkTypes DEF Cmd
    <2>1. handler[m] \in {"move", "query"} /\ Nowhere(Ack, Coming(m))
        BY Zenon, <1>2, LinkTypes DEF LinkInv
    <2>2. Nowhere(Ack, Append(Coming(m), answer)) /\ Append(Coming(m), answer) \in Seq(Msg)
        BY Zenon, <1>5, <2>0, <2>1, NowhereAppend, SeqAppend
    <2>3. CASE handler[m] = "move"
        <3>1. Nowhere("query", down[m])
            BY Zenon, <2>3, LinkTypes DEF LinkInv
        <3>2. c # "query" /\ Nowhere("query", down'[m])
            BY Zenon, <1>2, <2>0, <3>1, NowhereHead, NowhereTail DEF c
        <3> QED
            BY Zenon, <1>2, <1>9, <1>11, <2>2, <2>3, <3>2 DEF LinkInv
    <2>4. CASE handler[m] = "query" /\ c # "query"
        <3>1. OnlyLast("query", down'[m])
            BY ZenonT(30), <1>2, <2>0, <2>4, LastKept DEF c
        <3> QED
            BY Zenon, <1>2, <1>9, <1>11, <2>2, <2>4, <3>1 DEF LinkInv
    <2>5. CASE handler[m] = "query" /\ c = "query"
        <3>1. down'[m] = <<>>
            BY Zenon, <1>2, <2>0, <2>5, LastAlone DEF c
        <3>2. PICK a : a = Coming(m)' /\ OnlyLast(Ack, a) /\ Len(a) > 1 /\ a[Len(a) - 1] = answer
            <4>1. PICK r, a : r = up'[m] /\ a = Coming(m)'
                OBVIOUS
            <4>2. pull[m] \in Seq(Msg) /\ up[m] \in Seq(Msg) /\ a = Then(pull[m], r)
                BY Zenon, <1>2, <4>1, LinkTypes DEF Coming
            <4>3. r = Append(Append(up[m], answer), Ack) /\ Nowhere(Ack, Then(pull[m], up[m]))
                BY Zenon, <1>6, <2>1, <2>5, <4>1 DEF Coming
            <4>4. AnsweredLast(a, answer, Ack)
                BY Zenon, <1>5, <4>2, <4>3, ConcatSentTwo
            <4> QED
                BY Zenon, <4>1, <4>4 DEF AnsweredLast
        <3>3. Told(m)'
            BY Zenon, <1>5, <1>10, <3>2 DEF Told
        <3> QED
            BY Zenon, <1>2, <1>10, <1>11, <2>5, <3>1, <3>2, <3>3 DEF LinkInv
    <2> QED
        BY Zenon, <2>1, <2>3, <2>4, <2>5
<1>13. \A k \in Mcus \ {m} : SameLink(k)
    BY Zenon, <1>2, <1>4, <1>6 DEF SameLink, Coming
<1> QED
    BY Zenon, <1>2, <1>7, <1>8, <1>12, <1>13, OneLink

\* A message arrives: nothing changes for what is coming.  Commands are sent only
\* while all the fast readers are registered, that is before any query.
LEMMA ReceiveInv ==
    ASSUME HomeInv, NEW m \in Mcus, receive(m)
    PROVE  HomeInv'
<1> DEFINE msg == Head(up[m])
           first == reader[m] /\ td /\ ~msg.can /\ msg # Ack
<1>1. /\ up[m] # <<>> /\ up' = [up EXCEPT ![m] = Tail(@)] /\ pull' = [pull EXCEPT ![m] = Append(@, msg)]
      /\ down' = IF first THEN [k \in Mcus |-> Append(down[k], "host")] ELSE down
    BY DEF receive
<1>2. /\ ts' = ts /\ moving' = moving /\ endstop' = endstop
      /\ reader' = reader /\ handler' = handler /\ over' = over
      /\ query' = query /\ res' = res /\ hpc' = hpc /\ lost' = lost
    BY DEF receive, mcuVars, pyVars
<1>3. first => \A k \in Mcus : handler[k] = "move"
    BY Zenon DEF HomeInv, MainInv
<1> HIDE DEF msg, first
<1>4. /\ up'[m] = Tail(up[m]) /\ pull'[m] = Append(pull[m], msg)
      /\ \A k \in Mcus \ {m} : up'[k] = up[k] /\ pull'[k] = pull[k]
      /\ up' \in [Mcus -> Seq(Msg)] /\ pull' \in [Mcus -> Seq(Msg)]
    <2>1. /\ up \in [Mcus -> Seq(Msg)] /\ pull \in [Mcus -> Seq(Msg)]
          /\ up[m] \in Seq(Msg) /\ pull[m] \in Seq(Msg)
        BY Zenon, LinkTypes DEF HomeInv, HomeTypes
    <2>2. Tail(up[m]) \in Seq(Msg) /\ msg \in Msg
        BY Zenon, <1>1, <2>1, SeqHeadTail DEF msg
    <2>3. Append(pull[m], msg) \in Seq(Msg)
        BY Zenon, <2>1, <2>2, SeqAppend
    <2> QED
        BY <1>1, <2>1, <2>2, <2>3
<1>5. \A k \in Mcus : Coming(k)' = Coming(k)
    <2>1. Then(Append(pull[m], Head(up[m])), Tail(up[m])) = Then(pull[m], up[m])
        BY <1>1, LinkTypes, ConcatReceived
    <2> QED
        BY Zenon, <1>4, <2>1 DEF Coming, msg
<1>6. ASSUME NEW k \in Mcus
      PROVE  down'[k] \in Seq(Cmd) /\ down'[k] = IF first THEN Append(down[k], "host") ELSE down[k]
    <2>1. down'[k] = IF first THEN Append(down[k], "host") ELSE down[k]
        BY Zenon, <1>1
    <2>2. "host" \in Cmd /\ down[k] \in Seq(Cmd)
        BY LinkTypes DEF Cmd
    <2>3. Append(down[k], "host") \in Seq(Cmd)
        BY Zenon, <2>2, SeqAppend
    <2> QED
        BY Zenon, <2>1, <2>2, <2>3
<1>7. HomeTypes'
    <2>1. down' \in [Mcus -> Seq(Cmd)]
        <3>1. down' = [k \in Mcus |-> down'[k]]
            BY Zenon, <1>1 DEF HomeInv, HomeTypes
        <3> QED
            BY Zenon, <1>6, <3>1
    <2>2. QueryOK' /\ endstop' \in BOOLEAN
        BY Zenon, <1>2 DEF HomeInv, HomeTypes, QueryOK
    <2> QED
        BY Zenon, <1>2, <1>4, <2>1, <2>2 DEF HomeInv, HomeTypes
<1>8. MainInv'
    <2>1. ASSUME endstop', ~(hpc' \in {"move", "wait"})
          PROVE  \E i \in 1..Len(down'[E]) : down'[E][i] = "endstop"
        <3>1. PICK i \in 1..Len(down[E]) : down[E][i] = "endstop"
            BY Zenon, <1>2, <2>1 DEF HomeInv, MainInv
        <3>2. PICK d \in Seq(Cmd) : d = down[E]
            BY Zenon, HomingAssumption, LinkTypes
        <3>3. i \in 1..Len(Append(d, "host")) /\ Append(d, "host")[i] = "endstop"
            BY <3>1, <3>2
        <3> QED
            BY Zenon, <1>6, <3>1, <3>2, <3>3, HomingAssumption
    <2> QED
        BY Zenon, <1>2, <2>1 DEF HomeInv, MainInv
<1>9. ASSUME NEW k \in Mcus PROVE LinkInv(k)'
    <2>1. CASE ~first
        <3>1. SameLink(k)
            BY Zenon, <1>2, <1>5, <1>6, <2>1 DEF SameLink
        <3> QED
            BY Zenon, <1>2, <3>1, SameInv, LinkTypes
    <2>2. CASE first
        <3>1. handler[k] = "move" /\ Nowhere("query", down[k]) /\ down[k] \in Seq(Cmd)
              /\ Nowhere(Ack, Coming(k)) /\ (moving[k] => ts[k].can)
            BY Zenon, <1>3, <2>2, LinkTypes DEF LinkInv
        <3>2. "host" \in Cmd /\ "host" # "query"
            BY DEF Cmd
        <3>3. Nowhere("query", down'[k])
            BY Zenon, <1>6, <2>2, <3>1, <3>2, NowhereAppend
        <3>4. handler'[k] = "move" /\ "move" # "query" /\ "move" # "nobody"
            BY Zenon, <1>2, <3>1
        <3> QED
            BY Zenon, <1>2, <1>5, <3>1, <3>3, <3>4 DEF LinkInv
    <2> QED
        BY Zenon, <2>1, <2>2
<1> QED
    BY Zenon, <1>7, <1>8, <1>9 DEF HomeInv

\* A report that is lost was neither the last message nor an acknowledgement.
LEMMA LostMessage ==
    ASSUME NEW S, NEW p \in Seq(S), NEW u \in Seq(S), NEW x \in S, u # <<>>, Head(u) # x
    PROVE  /\ Nowhere(x, Then(p, u)) => Nowhere(x, Then(p, Tail(u)))
           /\ OnlyLast(x, Then(p, u)) => OnlyLast(x, Then(p, Tail(u)))
<1> DEFINE n == Len(p)
           k == Len(u)
           s == Then(p, u)
           r == Then(p, Tail(u))
<1>1. /\ n \in Nat /\ k \in Nat \ {0} /\ Head(u) = u[1]
      /\ Len(s) = n + k /\ Len(r) = n + k - 1
      /\ \A i \in 1..n : s[i] = p[i] /\ r[i] = p[i]
      /\ \A i \in 1..k : s[n + i] = u[i]
      /\ \A i \in 1..(k - 1) : r[n + i] = u[i + 1]
    <2>1. n \in Nat /\ k \in Nat \ {0} /\ Head(u) = u[1]
        BY SeqLen, SeqEmpty
    <2>2. PICK t \in Seq(S) : t = Tail(u) /\ Len(t) = k - 1 /\ \A i \in 1..Len(t) : t[i] = u[i + 1]
        BY Zenon, SeqHeadTail
    <2>3. /\ Len(p \o u) = n + k /\ (\A i \in 1..n : (p \o u)[i] = p[i])
          /\ \A i \in 1..k : (p \o u)[n + i] = u[i]
        OBVIOUS
    <2>4. /\ Len(p \o t) = n + Len(t) /\ (\A i \in 1..n : (p \o t)[i] = p[i])
          /\ \A i \in 1..Len(t) : (p \o t)[n + i] = t[i]
        OBVIOUS
    <2> HIDE DEF n, k
    <2>5. Len(s) = n + k /\ (\A i \in 1..n : s[i] = p[i]) /\ \A i \in 1..k : s[n + i] = u[i]
        BY Zenon, <2>3 DEF Then
    <2>6. n + (k - 1) = n + k - 1
        BY <2>1
    <2>7. Len(r) = n + k - 1 /\ (\A i \in 1..n : r[i] = p[i]) /\ \A i \in 1..(k - 1) : r[n + i] = u[i + 1]
        BY Zenon, <2>2, <2>4, <2>6 DEF Then
    <2> QED
        BY Zenon, <2>1, <2>5, <2>7
<1> HIDE DEF n, k, s, r
<1>2. ASSUME NEW i \in 1..(n + k - 1)
      PROVE  \/ i \in 1..n /\ r[i] = s[i]
             \/ i + 1 \in (n + 2)..(n + k) /\ r[i] = s[i + 1]
    <2>1. CASE i \in 1..n
        BY Zenon, <1>1, <2>1
    <2>2. CASE i \notin 1..n
        <3>1. i - n \in 1..(k - 1) /\ n + (i - n) = i /\ (i - n) + 1 \in 1..k
              /\ n + ((i - n) + 1) = i + 1 /\ i + 1 \in (n + 2)..(n + k)
            BY <1>1, <2>2
        <3>2. r[n + (i - n)] = u[(i - n) + 1] /\ s[n + ((i - n) + 1)] = u[(i - n) + 1]
            BY Zenon, <1>1, <3>1
        <3> QED
            BY Zenon, <3>1, <3>2
    <2> QED
        BY Zenon, <2>1, <2>2
<1>3. ASSUME Nowhere(x, s) PROVE Nowhere(x, r)
    <2>1. \A i \in 1..(n + k) : s[i] # x
        BY Zenon, <1>1, <1>3 DEF Nowhere
    <2>2. ASSUME NEW i \in 1..(n + k - 1) PROVE r[i] # x
        <3>1. i \in 1..(n + k) /\ i + 1 \in 1..(n + k)
            BY <1>1
        <3> QED
            BY Zenon, <1>2, <2>1, <3>1
    <2> QED
        BY Zenon, <1>1, <2>2 DEF Nowhere
<1>4. ASSUME OnlyLast(x, s) PROVE OnlyLast(x, r)
    <2>1. s[n + k] = x /\ \A i \in 1..(n + k - 1) : s[i] # x
        BY <1>1, <1>4 DEF OnlyLast
    <2>2. k > 1
        <3>1. k = 1 => s[n + k] = u[1]
            BY <1>1
        <3> QED
            BY <1>1, <2>1, <3>1
    <2>3. n + k - 1 > 0 /\ r[n + k - 1] = x
        <3>1. n + k - 1 \in 1..(n + k - 1) /\ n + k - 1 \notin 1..n /\ (n + k - 1) + 1 = n + k
              /\ n + k - 1 > 0
            BY <1>1, <2>2
        <3> QED
            BY Zenon, <1>2, <2>1, <3>1
    <2>4. ASSUME NEW i \in 1..((n + k - 1) - 1) PROVE r[i] # x
        <3>1. i \in 1..(n + k - 1) /\ i + 1 \in 1..(n + k - 1)
            BY <1>1
        <3> QED
            BY Zenon, <1>2, <2>1, <3>1
    <2> QED
        BY Zenon, <1>1, <2>3, <2>4 DEF OnlyLast
<1> QED
    BY Zenon, <1>3, <1>4 DEF s, r

\* A report is lost.
LEMMA LoseInv ==
    ASSUME HomeInv, NEW m \in Mcus, lose(m)
    PROVE  HomeInv'
<1>1. /\ up[m] # <<>> /\ Head(up[m]) # Ack /\ up' = [up EXCEPT ![m] = Tail(@)] /\ lost' = lost + 1
    BY DEF lose
<1>2. /\ ts' = ts /\ moving' = moving /\ endstop' = endstop /\ down' = down /\ pull' = pull
      /\ reader' = reader /\ handler' = handler /\ over' = over
      /\ query' = query /\ res' = res /\ hpc' = hpc
    BY DEF lose, mcuVars, pyVars
<1>3. lost' \in Nat /\ lost' # 0
    BY <1>1 DEF HomeInv, HomeTypes
<1>4. /\ up'[m] = Tail(up[m]) /\ \A k \in Mcus \ {m} : up'[k] = up[k]
      /\ up' \in [Mcus -> Seq(Msg)]
    <2>1. up \in [Mcus -> Seq(Msg)] /\ Tail(up[m]) \in Seq(Msg)
        BY Zenon, <1>1, LinkTypes, SeqHeadTail DEF HomeInv, HomeTypes
    <2> QED
        BY <1>1, <2>1
<1>5. HomeTypes'
    <2>1. QueryOK'
        BY Zenon, <1>2 DEF HomeInv, HomeTypes, QueryOK
    <2> QED
        BY Zenon, <1>2, <1>3, <1>4, <2>1 DEF HomeInv, HomeTypes
<1>6. MainInv'
    BY Zenon, <1>2 DEF HomeInv, MainInv
<1>7. /\ Nowhere(Ack, Coming(m)) => Nowhere(Ack, Coming(m)')
      /\ OnlyLast(Ack, Coming(m)) => OnlyLast(Ack, Coming(m)')
    <2>1. Ack \in Msg
        BY DEF Ack, Msg, Report
    <2>2. Coming(m)' = Then(pull[m], Tail(up[m])) /\ Coming(m) = Then(pull[m], up[m])
        BY Zenon, <1>2, <1>4 DEF Coming
    <2>3. pull[m] \in Seq(Msg) /\ up[m] \in Seq(Msg)
        BY Zenon, LinkTypes
    <2>4. /\ Nowhere(Ack, Then(pull[m], up[m])) => Nowhere(Ack, Then(pull[m], Tail(up[m])))
          /\ OnlyLast(Ack, Then(pull[m], up[m])) => OnlyLast(Ack, Then(pull[m], Tail(up[m])))
        BY Zenon, <1>1, <2>1, <2>3, LostMessage
    <2> QED
        BY Zenon, <2>2, <2>4
<1>8. Coming(m) # <<>>
    <2>1. pull[m] \in Seq(Msg) /\ up[m] \in Seq(Msg)
        BY Zenon, LinkTypes
    <2> QED
        BY Zenon, <1>1, <2>1, ConcatEmpty DEF Coming
<1>9. LinkInv(m)'
    BY Zenon, <1>2, <1>3, <1>7, <1>8, LinkTypes DEF LinkInv, Quiet
<1>10. \A k \in Mcus \ {m} : SameLink(k)
    BY Zenon, <1>2, <1>4 DEF SameLink, Coming
<1> QED
    BY Zenon, <1>2, <1>3, <1>5, <1>6, <1>9, <1>10, OneLink

\* The Python thread of a link takes the first message.
LEMMA PullTypes ==
    ASSUME HomeInv, NEW m \in Mcus, Pull(m)
    PROVE  /\ pull[m] # <<>> /\ pull' \in [Mcus -> Seq(Msg)]
           /\ Coming(m)' = Tail(Coming(m)) /\ Head(Coming(m)) = Head(pull[m]) /\ Coming(m) # <<>>
           /\ \A k \in Mcus \ {m} : Coming(k)' = Coming(k)
           /\ ts' = ts /\ moving' = moving /\ endstop' = endstop /\ up' = up
           /\ reader' = reader /\ over' = over /\ lost' = lost
           /\ Head(pull[m]) \in Msg
<1>1. /\ pull[m] # <<>> /\ pull' = [pull EXCEPT ![m] = Tail(@)]
      /\ ts' = ts /\ moving' = moving /\ endstop' = endstop /\ up' = up
      /\ reader' = reader /\ over' = over /\ lost' = lost
    BY DEF Pull, mcuVars
<1>2. /\ pull \in [Mcus -> Seq(Msg)] /\ pull[m] \in Seq(Msg) /\ up[m] \in Seq(Msg)
      /\ Tail(pull[m]) \in Seq(Msg) /\ Head(pull[m]) \in Msg
    BY Zenon, <1>1, LinkTypes, SeqHeadTail DEF HomeInv, HomeTypes
<1>3. /\ pull'[m] = Tail(pull[m]) /\ pull' \in [Mcus -> Seq(Msg)]
      /\ \A k \in Mcus \ {m} : pull'[k] = pull[k]
    BY <1>1, <1>2
<1>4. /\ Then(Tail(pull[m]), up[m]) = Tail(Then(pull[m], up[m]))
      /\ Head(Then(pull[m], up[m])) = Head(pull[m]) /\ Then(pull[m], up[m]) # <<>>
    BY <1>1, <1>2, ConcatTaken
<1>5. /\ Coming(m)' = Then(Tail(pull[m]), up[m]) /\ Coming(m) = Then(pull[m], up[m])
      /\ \A k \in Mcus \ {m} : Coming(k)' = Coming(k)
    BY Zenon, <1>1, <1>3 DEF Coming
<1> QED
    BY Zenon, <1>1, <1>2, <1>3, <1>4, <1>5

\* _handle_trsync_state(): a report during the move.
LEMMA MoveReportInv ==
    ASSUME HomeInv, NEW m \in Mcus, handle_trsync_state(m)
    PROVE  HomeInv'
<1> DEFINE past == PastEnd(m, Head(pull[m]))
<1>1. /\ Pull(m) /\ handler[m] = "move"
      /\ down' = IF past THEN [down EXCEPT ![m] = Append(@, "past")] ELSE down
      /\ handler' = handler /\ query' = query /\ res' = res /\ hpc' = hpc
    BY DEF handle_trsync_state
<1>2. /\ pull' \in [Mcus -> Seq(Msg)]
      /\ Coming(m)' = Tail(Coming(m)) /\ Coming(m) # <<>>
      /\ \A k \in Mcus \ {m} : Coming(k)' = Coming(k)
      /\ ts' = ts /\ moving' = moving /\ endstop' = endstop /\ up' = up
      /\ reader' = reader /\ over' = over /\ lost' = lost
    BY Zenon, <1>1, PullTypes
<1> HIDE DEF past
<1>3. /\ down' \in [Mcus -> Seq(Cmd)]
      /\ down'[m] = IF past THEN Append(down[m], "past") ELSE down[m]
      /\ \A k \in Mcus \ {m} : down'[k] = down[k]
    <2>1. down \in [Mcus -> Seq(Cmd)] /\ down[m] \in Seq(Cmd) /\ "past" \in Cmd
        BY LinkTypes DEF HomeInv, HomeTypes, Cmd
    <2>2. Append(down[m], "past") \in Seq(Cmd)
        BY Zenon, <2>1, SeqAppend
    <2> QED
        BY <1>1, <2>1, <2>2
<1>4. HomeTypes'
    <2>1. QueryOK'
        BY Zenon, <1>1 DEF HomeInv, HomeTypes, QueryOK
    <2> QED
        BY Zenon, <1>1, <1>2, <1>3, <2>1 DEF HomeInv, HomeTypes
<1>5. MainInv'
    <2>1. ASSUME endstop', ~(hpc' \in {"move", "wait"})
          PROVE  \E i \in 1..Len(down'[E]) : down'[E][i] = "endstop"
        <3>1. PICK i \in 1..Len(down[E]) : down[E][i] = "endstop"
            BY Zenon, <1>1, <1>2, <2>1 DEF HomeInv, MainInv
        <3>2. PICK d \in Seq(Cmd) : d = down[E]
            BY Zenon, HomingAssumption, LinkTypes
        <3>3. i \in 1..Len(Append(d, "past")) /\ Append(d, "past")[i] = "endstop"
            BY <3>1, <3>2
        <3> QED
            BY Zenon, <1>3, <3>1, <3>2, <3>3, HomingAssumption
    <2> QED
        BY Zenon, <1>1, <1>2, <2>1 DEF HomeInv, MainInv
<1>6. LinkInv(m)'
    <2>1. /\ Nowhere("query", down[m]) /\ Nowhere(Ack, Coming(m)) /\ (moving[m] => ts[m].can)
          /\ down[m] \in Seq(Cmd) /\ Coming(m) \in Seq(Msg)
        BY Zenon, <1>1, LinkTypes DEF LinkInv
    <2>2. "past" \in Cmd /\ "past" # "query"
        BY DEF Cmd
    <2>3. Nowhere("query", down'[m])
        BY Zenon, <1>3, <2>1, <2>2, NowhereAppend
    <2>4. Nowhere(Ack, Coming(m)')
        BY Zenon, <1>2, <2>1, NowhereTail
    <2>5. handler'[m] = "move" /\ "move" # "query" /\ "move" # "nobody"
        BY Zenon, <1>1
    <2> QED
        BY Zenon, <1>2, <2>1, <2>3, <2>4, <2>5 DEF LinkInv
<1>7. \A k \in Mcus \ {m} : SameLink(k)
    BY Zenon, <1>1, <1>2, <1>3 DEF SameLink
<1> QED
    BY Zenon, <1>1, <1>2, <1>4, <1>5, <1>6, <1>7, OneLink

\* A query is a triple.
IsQuery(q, a, b, c) == q = <<a, b, c>> /\ q[1] = a /\ q[2] = b /\ q[3] = c /\ q # Nobody

\* The parts of a query ...
LEMMA NewQuery ==
    ASSUME NEW a, NEW b, NEW c, NEW q, q = <<a, b, c>>
    PROVE  IsQuery(q, a, b, c)
    BY DEF IsQuery, Nobody

\* ... and what they are when one is replaced.
LEMMA QueryChanged ==
    ASSUME NEW p, NEW a, NEW b, NEW c, p = <<a, b, c>>, NEW d, NEW q
    PROVE  /\ q = [p EXCEPT ![2] = d] => IsQuery(q, a, d, c)
           /\ q = [p EXCEPT ![3] = d] => IsQuery(q, a, b, d)
<1>1. [p EXCEPT ![2] = d] = <<a, d, c>>
    OBVIOUS
<1>2. [p EXCEPT ![3] = d] = <<a, b, d>>
    OBVIOUS
<1> QED
    BY Zenon, <1>1, <1>2, NewQuery

\* handle_callback(): an answer to a query.
LEMMA CallbackInv ==
    ASSUME HomeInv, NEW m \in Mcus, handle_callback(m)
    PROVE  HomeInv'
<1> DEFINE why == Head(pull[m]).reason
<1>1. /\ Pull(m) /\ Head(pull[m]) # Ack /\ handler[m] = "query"
      /\ query' = [query EXCEPT ![2] = why]
      /\ down' = down /\ handler' = handler /\ res' = res /\ hpc' = hpc
    BY DEF handle_callback, last_params
<1>2. /\ pull' \in [Mcus -> Seq(Msg)]
      /\ Coming(m)' = Tail(Coming(m)) /\ Head(Coming(m)) = Head(pull[m]) /\ Coming(m) # <<>>
      /\ \A k \in Mcus \ {m} : Coming(k)' = Coming(k)
      /\ ts' = ts /\ moving' = moving /\ endstop' = endstop /\ up' = up
      /\ reader' = reader /\ over' = over /\ lost' = lost
      /\ Head(pull[m]) \in Msg
    BY Zenon, <1>1, PullTypes
<1>3. why \in Reason
    <2>1. Head(pull[m]) \in [can : BOOLEAN, reason : Reason, late : BOOLEAN]
        BY Zenon, <1>1, <1>2 DEF Msg
    <2> QED
        BY <2>1
<1>4. PICK a \in Reason \cup {"none yet"}, n \in 0..Retries : query = <<m, a, n>>
    <2>1. query # Nobody /\ query[1] = m
        BY Zenon, <1>1 DEF HomeInv, MainInv
    <2>2. PICK k \in Mcus, a \in Reason \cup {"none yet"}, n \in 0..Retries : query = <<k, a, n>>
        BY Zenon, <2>1 DEF HomeInv, HomeTypes, QueryOK
    <2>3. query[1] = k
        BY Zenon, <2>2
    <2> QED
        BY Zenon, <2>1, <2>2, <2>3
<1> HIDE DEF why
<1>5. query' = <<m, why, n>> /\ query'[1] = m /\ query'[2] = why /\ query' # Nobody
    <2>1. IsQuery(query', m, why, n)
        <3>1. PICK q : q = query' /\ q = [query EXCEPT ![2] = why]
            BY Zenon, <1>1
        <3>2. IsQuery(q, m, why, n)
            BY Zenon, <1>4, <3>1, QueryChanged
        <3> QED
            BY Zenon, <3>1, <3>2
    <2> QED
        BY Zenon, <2>1 DEF IsQuery
<1>6. HomeTypes'
    <2>1. QueryOK'
        BY Zenon, <1>3, <1>5 DEF QueryOK
    <2> QED
        BY Zenon, <1>1, <1>2, <2>1 DEF HomeInv, HomeTypes
<1>7. \A k \in Mcus \ {m} : handler[k] # "query"
    <2>1. query[1] = m
        BY Zenon, <1>1 DEF HomeInv, MainInv
    <2> QED
        BY Zenon, <2>1 DEF HomeInv, MainInv
<1>8. MainInv'
    <2>1. hpc \notin {"idle", "done"}
        <3>1. "query" # "nobody"
            BY Zenon
        <3> QED
            BY Zenon, <1>1, <3>1 DEF HomeInv, MainInv
    <2> QED
        BY Zenon, <1>1, <1>2, <1>5, <1>7, <2>1 DEF HomeInv, MainInv
<1>9. LinkInv(m)'
    <2>1. Coming(m) \in Seq(Msg) /\ down[m] \in Seq(Cmd) /\ Ack \in Msg
        BY Zenon, LinkTypes DEF Msg
    <2>2. moving[m] => ts[m].can
        BY Zenon, LinkTypes DEF LinkInv
    <2>3. handler'[m] = "query" /\ "query" # "move" /\ "query" # "nobody"
        BY Zenon, <1>1
    <2>4. CASE OnlyLast("query", down[m]) /\ Nowhere(Ack, Coming(m))
        <3>1. Nowhere(Ack, Coming(m)')
            BY Zenon, <1>2, <2>1, <2>4, NowhereTail
        <3> QED
            BY Zenon, <1>1, <1>2, <2>2, <2>3, <2>4, <3>1 DEF LinkInv
    <2>5. CASE down[m] = <<>> /\ OnlyLast(Ack, Coming(m)) /\ Quiet(m) /\ (lost = 0 => Told(m))
        <3>1. PICK s \in Seq(Msg) : s = Coming(m) /\ OnlyLast(Ack, s) /\ Head(s) # Ack
            BY Zenon, <1>1, <1>2, <2>1, <2>5
        <3>2. PICK r : r = Tail(s) /\ r = Coming(m)'
            BY Zenon, <1>2, <3>1
        <3>3. OnlyLast(Ack, r) /\ Len(s) # 1 /\ Shifted(s, r)
            BY Zenon, <2>1, <3>1, <3>2, LastCases
        <3>4. ASSUME lost' = 0 PROVE Told(m)'
            <4>1. s[Len(s) - 1].reason = ts[m].reason
                BY Zenon, <1>2, <2>5, <3>1, <3>3, <3>4 DEF Told
            <4>2. CASE Len(r) > 1 /\ r[Len(r) - 1] = s[Len(s) - 1]
                BY Zenon, <1>2, <3>2, <4>1, <4>2 DEF Told
            <4>3. CASE Len(r) = 1 /\ Head(s) = s[Len(s) - 1]
                <5>1. why = ts[m].reason
                    BY Zenon, <1>2, <3>1, <4>1, <4>3 DEF why
                <5> QED
                    BY Zenon, <1>2, <1>5, <3>2, <4>3, <5>1 DEF Told
            <4> QED
                BY Zenon, <3>3, <4>2, <4>3 DEF Shifted
        <3>5. Quiet(m)'
            BY Zenon, <1>2, <2>5 DEF Quiet
        <3> QED
            BY ZenonT(30), <1>1, <1>2, <2>2, <2>3, <2>5, <3>2, <3>3, <3>4, <3>5 DEF LinkInv
    <2> QED
        BY Zenon, <1>1, <2>4, <2>5, LinkTypes DEF LinkInv
<1>10. \A k \in Mcus \ {m} : SameLink(k)
    BY Zenon, <1>1, <1>2 DEF SameLink
<1> QED
    BY Zenon, <1>1, <1>2, <1>6, <1>7, <1>8, <1>9, <1>10, OneLink

\* Nothing is in an empty sequence.
LEMMA EmptyRange == Len(<<>>) = 0 /\ 1..0 = {}
OBVIOUS

\* An empty buffer holds no acknowledgement.
LEMMA NowhereEmpty == \A x : Nowhere(x, <<>>)
    BY Zenon, EmptyRange DEF Nowhere

\* One retry less.
LEMMA OneLess ==
    ASSUME NEW r \in Nat, NEW n \in 0..r, n > 0
    PROVE  n - 1 \in 0..r
OBVIOUS

\* get_response(): the acknowledgement is the last message of its query.
LEMMA ResponseInv ==
    ASSUME HomeInv, NEW m \in Mcus, get_response(m)
    PROVE  HomeInv'
<1>1. Pull(m) /\ Head(pull[m]) = Ack
    BY DEF get_response
<1>2. /\ pull' \in [Mcus -> Seq(Msg)]
      /\ Coming(m)' = Tail(Coming(m)) /\ Head(Coming(m)) = Head(pull[m]) /\ Coming(m) # <<>>
      /\ \A k \in Mcus \ {m} : Coming(k)' = Coming(k)
      /\ ts' = ts /\ moving' = moving /\ endstop' = endstop /\ up' = up
      /\ reader' = reader /\ over' = over /\ lost' = lost
    BY Zenon, <1>1, PullTypes
<1>3. Coming(m) \in Seq(Msg) /\ Ack \in Msg /\ ~Nowhere(Ack, Coming(m))
    <2>1. Coming(m) \in Seq(Msg) /\ Ack \in Msg
        BY Zenon, LinkTypes DEF Msg
    <2> QED
        BY Zenon, <1>1, <1>2, <2>1, NowhereHead
<1>4. /\ handler[m] = "query" /\ down[m] = <<>> /\ OnlyLast(Ack, Coming(m)) /\ Quiet(m)
      /\ lost = 0 => Told(m)
    BY Zenon, <1>2, <1>3, LinkTypes DEF LinkInv
<1>5. Coming(m)' = <<>> /\ Len(Coming(m)) = 1
    BY Zenon, <1>1, <1>2, <1>3, <1>4, LastAlone
<1>6. lost = 0 => query[2] = ts[m].reason
    <2>1. ~(1 > 1)
        OBVIOUS
    <2> QED
        BY Zenon, <1>4, <1>5, <2>1 DEF Told
<1>7. /\ Quiet(m)' /\ ~ts[m].can /\ ~moving'[m]
    BY Zenon, <1>2, <1>4, LinkTypes DEF Quiet, LinkInv
<1>8. PICK a \in Reason \cup {"none yet"}, n \in 0..Retries : query = <<m, a, n>> /\ IsQuery(query, m, a, n)
    <2>1. query # Nobody /\ query[1] = m
        BY Zenon, <1>4 DEF HomeInv, MainInv
    <2>2. PICK k \in Mcus, a \in Reason \cup {"none yet"}, n \in 0..Retries : query = <<k, a, n>>
        BY Zenon, <2>1 DEF HomeInv, HomeTypes, QueryOK
    <2>3. IsQuery(query, k, a, n)
        BY Zenon, <2>2, NewQuery
    <2> QED
        BY Zenon, <2>1, <2>2, <2>3 DEF IsQuery
<1>9. /\ \A k \in Mcus \ {m} : handler[k] # "query"
      /\ hpc \notin {"idle", "done", "move", "wait"} /\ \A k \in Mcus : ~reader[k]
    <2>1. query[1] = m
        BY Zenon, <1>4 DEF HomeInv, MainInv
    <2>2. "query" # "nobody" /\ "query" # "move"
        BY Zenon
    <2> QED
        BY Zenon, <1>4, <2>1, <2>2 DEF HomeInv, MainInv
<1>14. endstop => E # m /\ \E i \in 1..Len(down[E]) : down[E][i] = "endstop"
    <2>1. endstop => \E i \in 1..Len(down[E]) : down[E][i] = "endstop"
        BY Zenon, <1>9 DEF HomeInv, MainInv
    <2>2. ~ \E i \in 1..Len(down[m]) : down[m][i] = "endstop"
        BY Zenon, <1>4, EmptyRange
    <2> QED
        BY Zenon, <2>1, <2>2
<1>10. CASE /\ NoAnswer(query) /\ query[3] > 0
            /\ down' = [down EXCEPT ![m] = Append(@, "query")]
            /\ query' = [query EXCEPT ![3] = @ - 1]
            /\ UNCHANGED <<handler, res, hpc>>
    <2>1. PICK q : q = query' /\ IsQuery(q, m, a, n - 1) /\ n - 1 \in 0..Retries
        <3>1. query[3] = n
            BY Zenon, <1>8 DEF IsQuery
        <3>2. query' = [query EXCEPT ![3] = n - 1]
            BY Zenon, <1>10, <3>1
        <3>3. n - 1 \in 0..Retries
            <4>1. n > 0
                BY Zenon, <1>10, <3>1
            <4>2. n \in 0..Retries /\ Retries \in Nat
                BY Zenon, <1>8, HomingAssumption
            <4> QED
                BY Zenon, <4>1, <4>2, OneLess
        <3>4. PICK q : q = query' /\ q = [query EXCEPT ![3] = n - 1]
            BY Zenon, <3>2
        <3>5. IsQuery(q, m, a, n - 1)
            BY Zenon, <1>8, <3>4, QueryChanged
        <3> QED
            BY Zenon, <3>3, <3>4, <3>5
    <2>2. /\ down' \in [Mcus -> Seq(Cmd)] /\ down'[m] = Append(<<>>, "query")
          /\ \A k \in Mcus \ {m} : down'[k] = down[k]
        <3>1. down \in [Mcus -> Seq(Cmd)] /\ <<>> \in Seq(Cmd) /\ "query" \in Cmd
            BY Zenon, SeqEmpty DEF HomeInv, HomeTypes, Cmd
        <3>2. Append(<<>>, "query") \in Seq(Cmd)
            BY Zenon, <3>1, SeqAppend
        <3>3. down' = [down EXCEPT ![m] = Append(<<>>, "query")]
            BY Zenon, <1>4, <1>10
        <3> QED
            BY Zenon, <3>1, <3>2, <3>3
    <2>3. HomeTypes'
        <3>1. QueryOK'
            BY Zenon, <2>1 DEF QueryOK, IsQuery
        <3> QED
            BY Zenon, <1>2, <1>10, <2>2, <3>1 DEF HomeInv, HomeTypes
    <2>4. handler' = handler /\ res' = res /\ hpc' = hpc
        BY Zenon, <1>10
    <2>5. MainInv'
        <3>1. \A k \in Mcus : handler'[k] = "query" => query' # Nobody /\ query'[1] = k
            BY Zenon, <1>9, <2>1, <2>4 DEF IsQuery
        <3>2. endstop' => \E i \in 1..Len(down'[E]) : down'[E][i] = "endstop"
            BY Zenon, <1>2, <1>14, <2>2, HomingAssumption
        <3> QED
            BY Zenon, <1>2, <1>9, <2>4, <3>1, <3>2 DEF MainInv
    <2>6. LinkInv(m)'
        <3>1. OnlyLast("query", down'[m])
            <4>1. <<>> \in Seq(Cmd) /\ "query" \in Cmd /\ Nowhere("query", <<>>)
                BY Zenon, SeqEmpty, NowhereEmpty DEF Cmd
            <4> QED
                BY Zenon, <2>2, <4>1, LastAppended
        <3>2. Nowhere(Ack, Coming(m)')
            <4>1. Nowhere(Ack, <<>>)
                BY Zenon, NowhereEmpty
            <4> QED
                BY Zenon, <1>5, <4>1
        <3>3. handler'[m] = "query" /\ "query" # "move" /\ "query" # "nobody"
            BY Zenon, <1>4, <2>4
        <3> QED
            BY Zenon, <1>7, <3>1, <3>2, <3>3 DEF LinkInv
    <2>7. \A k \in Mcus \ {m} : SameLink(k)
        BY Zenon, <1>2, <2>2, <2>4 DEF SameLink
    <2> QED
        BY Zenon, <1>2, <1>9, <2>3, <2>4, <2>5, <2>6, <2>7, OneLink
<1>11. ASSUME handler' = [handler EXCEPT ![m] = "nobody"], query' = Nobody, down' = down,
              hpc' = hpc \/ hpc' = "error", res' \in [Mcus -> Reason],
              \A k \in Mcus \ {m} : res'[k] = res[k],
              lost = 0 /\ hpc' # "error" => res'[m] = ts[m].reason
       PROVE  HomeInv'
    <2>1. /\ handler'[m] = "nobody" /\ \A k \in Mcus \ {m} : handler'[k] = handler[k]
          /\ handler' \in [Mcus -> {"nobody", "move", "query"}]
        BY Zenon, <1>11 DEF HomeInv, HomeTypes
    <2>2. HomeTypes'
        <3>1. QueryOK'
            BY Zenon, <1>11 DEF QueryOK
        <3> QED
            BY Zenon, <1>2, <1>11, <2>1, <3>1 DEF HomeInv, HomeTypes
    <2>3. MainInv'
        <3>1. \A k \in Mcus : handler'[k] # "query"
            <4>1. "nobody" # "query"
                BY Zenon
            <4> QED
                BY Zenon, <1>9, <2>1, <4>1
        <3>2. endstop' => \E i \in 1..Len(down'[E]) : down'[E][i] = "endstop"
            BY Zenon, <1>2, <1>11, <1>14
        <3>3. hpc' \notin {"idle", "done", "move", "wait"}
            BY Zenon, <1>9, <1>11
        <3> QED
            BY Zenon, <1>2, <1>9, <3>1, <3>2, <3>3 DEF MainInv
    <2>4. LinkInv(m)'
        <3>1. "nobody" # "query" /\ "nobody" # "move"
            BY Zenon
        <3> QED
            BY Zenon, <1>2, <1>4, <1>5, <1>7, <1>11, <2>1, <3>1 DEF LinkInv
    <2>5. \A k \in Mcus \ {m} : SameLink(k)
        BY Zenon, <1>2, <1>11, <2>1 DEF SameLink
    <2> QED
        BY Zenon, <1>2, <1>9, <1>11, <2>2, <2>3, <2>4, <2>5, OneLink
<1>12. CASE /\ NoAnswer(query) /\ query[3] = 0
            /\ handler' = [handler EXCEPT ![m] = "nobody"]
            /\ query' = Nobody
            /\ hpc' = "error"
            /\ UNCHANGED <<down, res>>
    <2>1. down' = down /\ res' = res /\ res \in [Mcus -> Reason]
        BY Zenon, <1>12 DEF HomeInv, HomeTypes
    <2> QED
        BY Zenon, <1>11, <1>12, <2>1
<1>13. CASE /\ ~NoAnswer(query)
            /\ handler' = [handler EXCEPT ![m] = "nobody"]
            /\ query' = Nobody
            /\ res' = [res EXCEPT ![m] = query[2]]
            /\ UNCHANGED <<down, hpc>>
    <2>1. down' = down /\ hpc' = hpc
        BY Zenon, <1>13
    <2>2. query[2] = a /\ a \in Reason
        BY Zenon, <1>8, <1>13 DEF IsQuery, NoAnswer
    <2>3. res' \in [Mcus -> Reason] /\ res'[m] = query[2] /\ \A k \in Mcus \ {m} : res'[k] = res[k]
        BY Zenon, <1>13, <2>2 DEF HomeInv, HomeTypes
    <2> QED
        BY Zenon, <1>6, <1>11, <1>13, <2>1, <2>3
<1> QED
    BY Zenon, <1>10, <1>12, <1>13 DEF get_response

\* home_start(): nothing is left of the move before.
LEMMA HomeStartInv ==
    ASSUME HomeInv, home_start
    PROVE  HomeInv'
<1>1. /\ ts' = [m \in Mcus |-> [can |-> TRUE, timers |-> TRUE, reason |-> "none"]]
      /\ moving' = [m \in Mcus |-> TRUE] /\ endstop' = TRUE
      /\ reader' = [m \in Mcus |-> TRUE] /\ handler' = [m \in Mcus |-> "move"]
      /\ res' = [m \in Mcus |-> "none"] /\ hpc' = "move" /\ over' = FALSE
      /\ down' = down /\ up' = up /\ pull' = pull /\ query' = query /\ lost' = lost
      /\ \A k \in Mcus : handler[k] = "nobody"
    BY Zenon DEF home_start, HomeInv, MainInv
<1>2. \A m \in Mcus : handler'[m] = "move" /\ ts'[m].can /\ reader'[m]
    BY <1>1
<1>3. HomeTypes'
    <2>1. [can |-> TRUE, timers |-> TRUE, reason |-> "none"] \in [can : BOOLEAN, timers : BOOLEAN, reason : Reason]
        BY DEF Reason
    <2>2. /\ ts' \in [Mcus -> [can : BOOLEAN, timers : BOOLEAN, reason : Reason]]
          /\ moving' \in [Mcus -> BOOLEAN] /\ endstop' \in BOOLEAN
          /\ reader' \in [Mcus -> BOOLEAN] /\ handler' \in [Mcus -> {"nobody", "move", "query"}]
          /\ over' \in BOOLEAN /\ res' \in [Mcus -> Reason]
        BY Zenon, <1>1, <2>1 DEF Reason
    <2>3. QueryOK'
        BY Zenon, <1>1 DEF HomeInv, HomeTypes, QueryOK
    <2> QED
        BY Zenon, <1>1, <2>2, <2>3 DEF HomeInv, HomeTypes
<1>4. MainInv'
    <2>1. "move" # "query" /\ "move" \notin {"idle", "done"}
        OBVIOUS
    <2> QED
        BY Zenon, <1>1, <1>2, <2>1 DEF MainInv
<1>5. ASSUME NEW m \in Mcus PROVE LinkInv(m)'
    <2>1. LinkInv(m) /\ handler[m] = "nobody"
        BY Zenon, <1>1, LinkTypes
    <2>2. down[m] = <<>> /\ Coming(m) = <<>>
        BY Zenon, <2>1 DEF LinkInv
    <2>3. Coming(m)' = Coming(m)
        BY Zenon, <1>1 DEF Coming
    <2>4. Nowhere("query", down'[m]) /\ Nowhere(Ack, Coming(m)')
        BY Zenon, <1>1, <2>2, <2>3, NowhereEmpty
    <2>5. "move" # "query" /\ "move" # "nobody"
        OBVIOUS
    <2> QED
        BY Zenon, <1>2, <2>4, <2>5 DEF LinkInv
<1> QED
    BY Zenon, <1>3, <1>4, <1>5 DEF HomeInv

\* A step of the main thread that changes nothing of the links.
LEMMA MainThread ==
    ASSUME HomeInv, MainInv', hpc # "error", ts' = ts, moving' = moving, endstop' = endstop, down' = down,
           up' = up, pull' = pull, handler' = handler, query' = query, res' = res, lost' = lost,
           over' \in BOOLEAN, reader' \in [Mcus -> BOOLEAN]
    PROVE  HomeInv'
<1>1. HomeTypes'
    BY Zenon DEF HomeInv, HomeTypes, QueryOK
<1>2. ASSUME NEW k \in Mcus PROVE LinkInv(k)'
    <2>1. Coming(k)' = Coming(k)
        BY Zenon DEF Coming
    <2>2. SameLink(k) /\ LinkInv(k)
        BY Zenon, <2>1, LinkTypes DEF SameLink
    <2> QED
        BY Zenon, <2>2, SameInv
<1> QED
    BY Zenon, <1>1, <1>2 DEF HomeInv

\* home_wait() and the end of the move
LEMMA HomeWaitInv ==
    ASSUME HomeInv, home_wait
    PROVE  HomeInv'
<1>1. /\ hpc = "move" /\ hpc' = "wait" /\ ts' = ts /\ moving' = moving /\ endstop' = endstop /\ down' = down
      /\ up' = up /\ pull' = pull /\ handler' = handler /\ query' = query /\ res' = res /\ lost' = lost
      /\ over' = over /\ reader' = reader
    BY Zenon DEF home_wait, mcuVars
<1>2. over' \in BOOLEAN /\ reader' \in [Mcus -> BOOLEAN]
    BY Zenon, <1>1 DEF HomeInv, HomeTypes
<1>3. "move" # "error" /\ "wait" \notin {"idle", "done"}
    OBVIOUS
<1>4. MainInv'
    BY Zenon, <1>1, <1>3 DEF HomeInv, MainInv
<1> QED
    BY Zenon, <1>1, <1>2, <1>3, <1>4, MainThread

\* The time of the end of the move passes.
LEMMA MoveEndInv ==
    ASSUME HomeInv, move_end
    PROVE  HomeInv'
<1>1. /\ hpc = "wait" /\ hpc' = hpc /\ ts' = ts /\ moving' = moving /\ endstop' = endstop /\ down' = down
      /\ up' = up /\ pull' = pull /\ handler' = handler /\ query' = query /\ res' = res /\ lost' = lost
      /\ over' = TRUE /\ reader' = reader
    BY Zenon DEF move_end, mcuVars, pyVars
<1>2. over' \in BOOLEAN /\ reader' \in [Mcus -> BOOLEAN]
    BY Zenon, <1>1 DEF HomeInv, HomeTypes
<1>3. "wait" # "error"
    OBVIOUS
<1>4. MainInv'
    BY Zenon, <1>1 DEF HomeInv, MainInv
<1> QED
    BY Zenon, <1>1, <1>2, <1>3, <1>4, MainThread

\* trdispatch_stop()
LEMMA RmFastreaderInv ==
    ASSUME HomeInv, NEW m \in Mcus, rm_fastreader(m)
    PROVE  HomeInv'
<1>1. /\ hpc = "stop" /\ hpc' = hpc /\ ts' = ts /\ moving' = moving /\ endstop' = endstop /\ down' = down
      /\ up' = up /\ pull' = pull /\ handler' = handler /\ query' = query /\ res' = res /\ lost' = lost
      /\ over' = over /\ reader' = [reader EXCEPT ![m] = FALSE]
    BY Zenon DEF rm_fastreader, mcuVars, pyVars
<1>2. /\ over' \in BOOLEAN /\ reader' \in [Mcus -> BOOLEAN]
      /\ \A k \in Mcus : reader'[k] => reader[k]
    BY Zenon, <1>1 DEF HomeInv, HomeTypes
<1>3. "stop" # "error"
    OBVIOUS
<1>4. MainInv'
    BY Zenon, <1>1, <1>2 DEF HomeInv, MainInv
<1> QED
    BY Zenon, <1>1, <1>2, <1>3, <1>4, MainThread

\* home_wait() returns.
LEMMA HomeDoneInv ==
    ASSUME HomeInv, home_done
    PROVE  HomeInv'
<1>1. /\ hpc = "stop" /\ hpc' = "done" /\ ts' = ts /\ moving' = moving /\ endstop' = endstop /\ down' = down
      /\ up' = up /\ pull' = pull /\ handler' = handler /\ query' = query /\ res' = res /\ lost' = lost
      /\ over' = over /\ reader' = reader
      /\ query = Nobody /\ \A m \in Mcus : handler[m] = "nobody"
    BY Zenon DEF home_done, mcuVars, pyVars
<1>2. over' \in BOOLEAN /\ reader' \in [Mcus -> BOOLEAN]
    BY Zenon, <1>1 DEF HomeInv, HomeTypes
<1>3. "stop" # "error" /\ "stop" \notin {"move", "wait"} /\ "done" \notin {"move", "wait"}
    OBVIOUS
<1>4. MainInv'
    BY Zenon, <1>1, <1>3 DEF HomeInv, MainInv
<1> QED
    BY Zenon, <1>1, <1>2, <1>3, <1>4, MainThread

\* A sequence that gets an element has it.
LEMMA AppendedThere ==
    ASSUME NEW S, NEW s \in Seq(S), NEW e \in S
    PROVE  Somewhere(e, Append(s, e))
<1>1. Len(s) \in Nat /\ Len(Append(s, e)) = Len(s) + 1 /\ Append(s, e)[Len(s) + 1] = e
    OBVIOUS
<1> QED
    BY <1>1 DEF Somewhere

\* ... and keeps what it had.
LEMMA StillThere ==
    ASSUME NEW S, NEW s \in Seq(S), NEW e \in S, NEW x, Somewhere(x, s)
    PROVE  Somewhere(x, Append(s, e))
<1>1. /\ Len(s) \in Nat /\ Len(Append(s, e)) = Len(s) + 1
      /\ \A i \in 1..Len(s) : Append(s, e)[i] = s[i] /\ i \in 1..(Len(s) + 1)
    OBVIOUS
<1> QED
    BY Zenon, <1>1 DEF Somewhere

\* home_wait(): the end stop is told to stop sampling.
LEMMA CompletedInv ==
    ASSUME HomeInv, home_wait_completed
    PROVE  HomeInv'
<1>1. /\ hpc = "wait" /\ hpc' = "stop" /\ ts' = ts /\ moving' = moving /\ endstop' = endstop
      /\ up' = up /\ pull' = pull /\ handler' = handler /\ query' = query /\ res' = res /\ lost' = lost
      /\ over' = over /\ reader' = reader /\ down' = [down EXCEPT ![E] = Append(@, "endstop")]
    BY Zenon DEF home_wait_completed, mcuVars, pyVars
<1>2. /\ down \in [Mcus -> Seq(Cmd)] /\ down[E] \in Seq(Cmd) /\ E \in Mcus /\ LinkInv(E)
      /\ "endstop" \in Cmd /\ "query" \in Cmd /\ "endstop" # "query"
    <2>1. "endstop" \in Cmd /\ "query" \in Cmd /\ "endstop" # "query"
        BY DEF Cmd
    <2> QED
        BY Zenon, <2>1, HomingAssumption, LinkTypes DEF HomeInv, HomeTypes
<1>3. /\ down' \in [Mcus -> Seq(Cmd)] /\ down'[E] = Append(down[E], "endstop")
      /\ \A k \in Mcus \ {E} : down'[k] = down[k]
    <2>1. Append(down[E], "endstop") \in Seq(Cmd)
        BY Zenon, <1>2, SeqAppend
    <2> QED
        BY Zenon, <1>1, <1>2, <2>1
<1>4. \A k \in Mcus : handler[k] = "move" /\ Coming(k)' = Coming(k)
    BY Zenon, <1>1 DEF HomeInv, MainInv, Coming
<1>5. HomeTypes'
    BY Zenon, <1>1, <1>3 DEF HomeInv, HomeTypes, QueryOK
<1>6. MainInv'
    <2>1. \E i \in 1..Len(down'[E]) : down'[E][i] = "endstop"
        <3>1. Somewhere("endstop", down'[E])
            BY Zenon, <1>2, <1>3, AppendedThere
        <3> QED
            BY Zenon, <3>1 DEF Somewhere
    <2>2. "stop" \notin {"move", "wait"} /\ "stop" \notin {"idle", "done"} /\ "move" # "query"
        OBVIOUS
    <2> QED
        BY Zenon, <1>1, <1>4, <2>1, <2>2 DEF HomeInv, MainInv
<1>7. LinkInv(E)'
    <2>1. Nowhere("query", down[E]) /\ Nowhere(Ack, Coming(E)) /\ (moving[E] => ts[E].can)
        BY Zenon, <1>2, <1>4 DEF LinkInv
    <2>2. Nowhere("query", down'[E]) /\ Nowhere(Ack, Coming(E)')
        BY Zenon, <1>2, <1>3, <1>4, <2>1, NowhereAppend
    <2>3. handler'[E] = "move" /\ "move" # "query" /\ "move" # "nobody"
        BY Zenon, <1>1, <1>2, <1>4
    <2> QED
        BY Zenon, <1>1, <2>1, <2>2, <2>3 DEF LinkInv
<1>8. ASSUME NEW k \in Mcus PROVE LinkInv(k)'
    <2>1. CASE k # E
        <3>1. SameLink(k) /\ LinkInv(k)
            BY Zenon, <1>1, <1>3, <1>4, <2>1, LinkTypes DEF SameLink
        <3>2. handler[k] # "nobody"
            BY Zenon, <1>4
        <3> QED
            BY Zenon, <1>1, <3>1, <3>2, SameInv
    <2> QED
        BY Zenon, <1>7, <2>1
<1> QED
    BY Zenon, <1>5, <1>6, <1>8 DEF HomeInv

\* MCU_trsync.stop(): its trsync_trigger is the last command of the move.
LEMMA StopInv ==
    ASSUME HomeInv, NEW m \in Mcus, stop(m)
    PROVE  HomeInv'
<1>1. /\ hpc = "stop" /\ hpc' = hpc /\ ts' = ts /\ moving' = moving /\ endstop' = endstop
      /\ up' = up /\ pull' = pull /\ res' = res /\ lost' = lost
      /\ over' = over /\ reader' = reader /\ down' = [down EXCEPT ![m] = Append(@, "query")]
      /\ handler' = [handler EXCEPT ![m] = "query"] /\ query' = <<m, "none yet", Retries>>
      /\ query = Nobody /\ handler[m] = "move" /\ \A k \in Mcus : ~reader[k]
    BY Zenon DEF stop, mcuVars
<1>2. /\ down \in [Mcus -> Seq(Cmd)] /\ handler \in [Mcus -> {"nobody", "move", "query"}]
      /\ down[m] \in Seq(Cmd) /\ LinkInv(m) /\ "query" \in Cmd
    BY Zenon, LinkTypes DEF HomeInv, HomeTypes, Cmd
<1>3. /\ down' \in [Mcus -> Seq(Cmd)] /\ down'[m] = Append(down[m], "query")
      /\ \A k \in Mcus \ {m} : down'[k] = down[k]
    <2>1. Append(down[m], "query") \in Seq(Cmd)
        BY Zenon, <1>2, SeqAppend
    <2> QED
        BY Zenon, <1>1, <1>2, <2>1
<1>4. /\ handler' \in [Mcus -> {"nobody", "move", "query"}] /\ handler'[m] = "query"
      /\ \A k \in Mcus \ {m} : handler'[k] = handler[k]
    BY Zenon, <1>1, <1>2
<1>5. /\ \A k \in Mcus : Coming(k)' = Coming(k)
      /\ \A k \in Mcus : handler[k] # "query"
    BY Zenon, <1>1 DEF HomeInv, MainInv, Coming
<1>6. IsQuery(query', m, "none yet", Retries)
    <2>1. PICK q : q = query' /\ q = <<m, "none yet", Retries>>
        BY Zenon, <1>1
    <2>2. IsQuery(q, m, "none yet", Retries)
        BY Zenon, <2>1, NewQuery
    <2> QED
        BY Zenon, <2>1, <2>2
<1>7. HomeTypes'
    <2>1. Retries \in 0..Retries
        BY HomingAssumption
    <2>2. QueryOK'
        BY Zenon, <1>1, <2>1 DEF QueryOK
    <2> QED
        BY Zenon, <1>1, <1>3, <1>4, <2>2 DEF HomeInv, HomeTypes
<1>8. MainInv'
    <2>1. \A k \in Mcus : handler'[k] = "query" => query' # Nobody /\ query'[1] = k
        BY Zenon, <1>4, <1>5, <1>6 DEF IsQuery
    <2>2. hpc' \notin {"move", "wait"} /\ hpc' \notin {"idle", "done"} /\ hpc \notin {"move", "wait"}
        BY Zenon, <1>1
    <2>3. endstop' => \E i \in 1..Len(down'[E]) : down'[E][i] = "endstop"
        <3>1. endstop' => \E i \in 1..Len(down[E]) : down[E][i] = "endstop"
            BY Zenon, <1>1, <2>2 DEF HomeInv, MainInv
        <3>2. CASE E = m
            <4>1. endstop' => Somewhere("endstop", down[m])
                BY Zenon, <3>1, <3>2 DEF Somewhere
            <4>2. endstop' => Somewhere("endstop", down'[m])
                BY ZenonT(30), <1>2, <1>3, <4>1, StillThere
            <4> QED
                BY Zenon, <3>2, <4>2 DEF Somewhere
        <3>3. CASE E # m
            BY Zenon, <1>3, <3>1, <3>3, HomingAssumption
        <3> QED
            BY Zenon, <3>2, <3>3
    <2> QED
        BY Zenon, <1>1, <2>1, <2>2, <2>3 DEF MainInv
<1>9. LinkInv(m)'
    <2>1. Nowhere("query", down[m]) /\ Nowhere(Ack, Coming(m)) /\ (moving[m] => ts[m].can)
        BY Zenon, <1>1, <1>2 DEF LinkInv
    <2>2. OnlyLast("query", down'[m])
        BY Zenon, <1>2, <1>3, <2>1, LastAppended
    <2>3. Nowhere(Ack, Coming(m)')
        BY Zenon, <1>5, <2>1
    <2>4. "query" # "move" /\ "query" # "nobody"
        OBVIOUS
    <2> QED
        BY Zenon, <1>1, <1>4, <2>1, <2>2, <2>3, <2>4 DEF LinkInv
<1>10. \A k \in Mcus \ {m} : SameLink(k) /\ res'[k] = res[k]
    BY Zenon, <1>1, <1>3, <1>4, <1>5 DEF SameLink
<1> QED
    BY Zenon, <1>1, <1>5, <1>7, <1>8, <1>9, <1>10, OneLink

\* HomeInv is an inductive invariant of the homing moves.
LEMMA HomeInit ==
    ASSUME Init
    PROVE  HomeInv
<1>1. HomeTypes
    <2>1. Cleared \in [can : BOOLEAN, timers : BOOLEAN, reason : Reason] /\ "none" \in Reason
        BY DEF Cleared, Reason
    <2>2. <<>> \in Seq(Cmd) /\ <<>> \in Seq(Msg) /\ 0 \in Nat
        BY Zenon, SeqEmpty
    <2>3. /\ down \in [Mcus -> Seq(Cmd)] /\ up \in [Mcus -> Seq(Msg)] /\ pull \in [Mcus -> Seq(Msg)]
          /\ lost \in Nat
        BY Zenon, <2>2 DEF Init
    <2>4. /\ ts \in [Mcus -> [can : BOOLEAN, timers : BOOLEAN, reason : Reason]] /\ res \in [Mcus -> Reason]
        BY Zenon, <2>1 DEF Init
    <2>5. QueryOK
        BY Zenon DEF Init, QueryOK
    <2> QED
        BY Zenon, <2>3, <2>4, <2>5 DEF Init, HomeTypes
<1>2. MainInv
    <2>1. "idle" \notin {"move", "wait"} /\ "nobody" # "query"
        OBVIOUS
    <2> QED
        BY Zenon, <2>1 DEF Init, MainInv
<1>3. ASSUME NEW m \in Mcus PROVE LinkInv(m)
    <2>1. /\ down[m] = <<>> /\ up[m] = <<>> /\ pull[m] = <<>> /\ moving[m] = FALSE
          /\ handler[m] = "nobody" /\ ts[m] = Cleared /\ res[m] = "none"
        BY Zenon DEF Init
    <2>2. Quiet(m) /\ ts[m].reason = "none"
        BY <2>1 DEF Quiet, Cleared
    <2>3. Coming(m) = <<>>
        <3>1. <<>> \in Seq(Msg)
            BY Zenon, SeqEmpty
        <3> QED
            BY ZenonT(30), <2>1, <3>1, ConcatEmpty DEF Coming
    <2>4. "nobody" # "query" /\ "nobody" # "move"
        OBVIOUS
    <2> QED
        BY Zenon, <2>1, <2>2, <2>3, <2>4 DEF LinkInv
<1> QED
    BY Zenon, <1>1, <1>2, <1>3 DEF HomeInv

\* Every step keeps the invariant.
LEMMA HomeStep ==
    ASSUME HomeInv, [Next]_vars
    PROVE  HomeInv'
<1>1. CASE home_start
    BY Zenon, <1>1, HomeStartInv
<1>2. CASE MainStep
    BY Zenon, <1>2, HomeWaitInv, CompletedInv, HomeDoneInv, RmFastreaderInv, StopInv DEF MainStep
<1>3. CASE move_end
    BY Zenon, <1>3, MoveEndInv
<1>4. CASE endstop_trigger
    BY Zenon, <1>4, EndstopInv
<1>5. ASSUME NEW m \in Mcus, trsync_expire_event(m) \/ trsync_task(m) \/ CommandStep(m)
      PROVE  HomeInv'
    BY Zenon, <1>5, ExpireInv, ReportInv, DisableInv, CommandInv DEF CommandStep
<1>6. ASSUME NEW m \in Mcus, receive(m) \/ lose(m) \/ PythonStep(m)
      PROVE  HomeInv'
    BY Zenon, <1>6, ReceiveInv, LoseInv, MoveReportInv, CallbackInv, ResponseInv DEF PythonStep
<1>7. CASE UNCHANGED vars
    <2>1. /\ hpc' = hpc /\ ts' = ts /\ moving' = moving /\ endstop' = endstop /\ down' = down
          /\ up' = up /\ pull' = pull /\ handler' = handler /\ query' = query /\ res' = res
          /\ lost' = lost /\ over' = over /\ reader' = reader
        BY Zenon, <1>7 DEF vars, mcuVars, pyVars
    <2>2. HomeTypes'
        BY Zenon, <2>1 DEF HomeInv, HomeTypes, QueryOK
    <2>3. MainInv'
        BY Zenon, <2>1 DEF HomeInv, MainInv
    <2>4. ASSUME NEW k \in Mcus PROVE LinkInv(k)'
        <3>1. Coming(k)' = Coming(k)
            BY Zenon, <2>1 DEF Coming
        <3>2. SameLink(k) /\ LinkInv(k)
            BY Zenon, <2>1, <3>1, LinkTypes DEF SameLink
        <3> QED
            BY Zenon, <2>1, <3>2, SameInv
    <2> QED
        BY Zenon, <2>2, <2>3, <2>4 DEF HomeInv
<1> QED
    BY Zenon, <1>1, <1>2, <1>3, <1>4, <1>5, <1>6, <1>7 DEF Next

\* Both properties hold in every state of the invariant.
LEMMA HomeClean ==
    ASSUME HomeInv
    PROVE  CleanAfterwards /\ ResultIsReal
<1>1. TypeOK
    <2>1. query = Nobody \/ (query[1] \in Mcus /\ query[3] \in 0..Retries)
        <3>1. ASSUME NEW k \in Mcus, NEW a \in Reason \cup {"none yet"}, NEW n \in 0..Retries, query = <<k, a, n>>
              PROVE  query[1] \in Mcus /\ query[3] \in 0..Retries
            BY Zenon, <3>1, NewQuery DEF IsQuery
        <3> QED
            BY Zenon, <3>1 DEF HomeInv, HomeTypes, QueryOK
    <2> QED
        BY Zenon, <2>1 DEF HomeInv, HomeTypes, TypeOK
<1>2. ASSUME NEW m \in Mcus, handler[m] = "nobody"
      PROVE  /\ ~moving[m] /\ ~ts[m].can /\ ~ts[m].timers
             /\ down[m] = <<>> /\ up[m] = <<>> /\ pull[m] = <<>>
             /\ lost = 0 /\ hpc # "error" => res[m] = ts[m].reason
    <2>1. LinkInv(m) /\ up[m] \in Seq(Msg) /\ pull[m] \in Seq(Msg)
        BY Zenon, LinkTypes
    <2>2. Then(pull[m], up[m]) = <<>>
        BY Zenon, <1>2, <2>1 DEF LinkInv, Coming
    <2>3. up[m] = <<>> /\ pull[m] = <<>>
        BY Zenon, <2>1, <2>2, ConcatEmpty
    <2> QED
        BY Zenon, <1>2, <2>1, <2>3 DEF LinkInv, Quiet
<1>3. hpc = "done" => \A m \in Mcus : handler[m] = "nobody"
    BY Zenon DEF HomeInv, MainInv
<1>4. hpc = "done" => ~endstop
    <2>1. ASSUME hpc = "done", endstop PROVE FALSE
        <3>1. "done" \notin {"move", "wait"}
            OBVIOUS
        <3>2. \E i \in 1..Len(down[E]) : down[E][i] = "endstop"
            BY Zenon, <2>1, <3>1 DEF HomeInv, MainInv
        <3>3. down[E] = <<>>
            BY Zenon, <1>2, <1>3, <2>1, HomingAssumption
        <3> QED
            BY Zenon, <3>2, <3>3, EmptyRange
    <2> QED
        BY Zenon, <2>1
<1>5. CleanAfterwards
    BY Zenon, <1>1, <1>2, <1>3, <1>4 DEF CleanAfterwards
<1>6. "done" # "error"
    OBVIOUS
<1> QED
    BY Zenon, <1>2, <1>3, <1>5, <1>6 DEF ResultIsReal

\* When home_wait() of mcu.py has returned nothing of the move is left, for every number of
\* micro-controllers and moves and whatever is delayed or lost: no stepper moves, no trsync can
\* trigger or report, the end stop is not sampled, and nothing that the next move could take
\* for its own is under way.
THEOREM HomingClean == Spec => []CleanAfterwards
<1>1. Spec => []HomeInv
    BY HomeInit, HomeStep, PTL DEF Spec
<1> QED
    BY <1>1, HomeClean, PTL

\* When home_wait() returns and no report was lost, the reason that MCU_trsync.stop() returned
\* for each micro-controller is the one that its trsync really stopped for.
THEOREM HomingResult == Spec => []ResultIsReal
<1>1. Spec => []HomeInv
    BY HomeInit, HomeStep, PTL DEF Spec
<1> QED
    BY <1>1, HomeClean, PTL
=============================================================================
