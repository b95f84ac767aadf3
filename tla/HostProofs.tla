--------------------------------- MODULE HostProofs -------------------------
(***************************************************************************)
(* Proofs about stopping a move and about parts of the host, for every     *)
(* value of the constants.                                                 *)
(*                                                                         *)
(* All micro-controllers stop within the expire time of the first trigger, *)
(* and timeouts are never set in the past or after the trigger: for every  *)
(* number of micro-controllers, every timing, every delay and every loss.  *)
(* The event loop of the C threads never sleeps past a timer by a          *)
(* millisecond or more.  Clocks that were cut to 32 bits are extended to   *)
(* the time they were taken at.  The first head and the bed are moved only *)
(* where homing has shown they may go.                                     *)
(***************************************************************************)
EXTENDS Trsync, HostParts, NumbersAndSequences

\* Time limits of the provers: 30 seconds.
USE SMTT(30), ZenonT(30)

-----------------------------------------------------------------------------
(* The invariant                                                           *)

\* The timeouts in a queue of commands: in order, at most hi, at least lo.
Ascending(q) ==
    \A i, j \in 1..Len(q) :
        i < j /\ q[i].c = "timeout" /\ q[j].c = "timeout" => q[i].at <= q[j].at
UpTo(q, hi) == \A i \in 1..Len(q) : q[i].c = "timeout" => q[i].at <= hi
From(q, lo) == \A i \in 1..Len(q) : q[i].c = "timeout" => lo <= q[i].at

\* A time or none, a trsync, a report.
Clock == Nat \cup {Never}
TrsyncOf == [can : BOOLEAN, report : BOOLEAN, report_time : Clock, expire_time : Clock]
ReportOf == [can : BOOLEAN, clock : Nat]

\* Types.
Types ==
    /\ now \in Nat /\ first \in Clock
    /\ ts \in [Mcus -> TrsyncOf]
    /\ moving \in [Mcus -> BOOLEAN]
    /\ down \in [Mcus -> Seq(Command)] /\ up \in [Mcus -> Seq(ReportOf)]
    /\ td \in BOOLEAN
    /\ last_status \in [Mcus -> Nat] /\ expire_clock \in [Mcus -> Int]

\* What the host knows of a micro-controller is not from the future, and what it has
\* told it reaches no further than Expire.
HostInv(k) ==
    /\ last_status[k] <= now /\ expire_clock[k] <= now + Expire
    /\ \A i \in 1..Len(up[k]) : up[k][i].clock <= now

\* The timeouts on their way only ever extend the one that is set, which is not past.
TimeoutInv(k) ==
    /\ Ascending(down[k]) /\ UpTo(down[k], expire_clock[k])
    /\ ts[k].can => /\ now <= ts[k].expire_time /\ ts[k].expire_time <= expire_clock[k]
                    /\ From(down[k], ts[k].expire_time)
                    /\ ts[k].report_time # Never
    /\ moving[k] => ts[k].can
    /\ ts[k].report_time = Never => ts[k].expire_time = Never

\* A micro-controller that has triggered sends no more status: the last one the host
\* can have of it is from before, and so no other is extended beyond Expire from then.
Witness(f) ==
    /\ ~ts[f].can /\ last_status[f] <= first
    /\ \A i \in 1..Len(up[f]) : up[f][i].can => up[f][i].clock <= first
    /\ \A k \in Mcus \ {f} : expire_clock[k] <= first + Expire

FirstInv == first # Never => \E f \in Mcus : Witness(f)

\* Among any micro-controllers there is one with the oldest status (there may be any
\* number of them): all start with the same one, and each step changes one.
Ordered(status) ==
    \A S \in SUBSET Mcus : S # {} => \E o \in S : \A n \in S : status[o] <= status[n]

\* The inductive invariant.
TrsyncInv ==
    /\ Types /\ FirstInv
    /\ \A k \in Mcus : HostInv(k) /\ TimeoutInv(k)

\* The invariant implies what the runs check.
LEMMA InvSafe == TrsyncInv => StopsInTime /\ TimeoutsSafe
<1> SUFFICES ASSUME TrsyncInv PROVE StopsInTime /\ NeverTooClose /\ NotRearmed
    BY Zenon DEF TimeoutsSafe
<1>1. StopsInTime
    <2> SUFFICES ASSUME NEW m \in Mcus, moving[m], first # Never PROVE now <= first + Expire
        BY Zenon DEF StopsInTime
    <2>1. PICK f \in Mcus : Witness(f)
        BY Zenon DEF TrsyncInv, FirstInv
    <2>2. ts[m].can /\ now <= ts[m].expire_time /\ ts[m].expire_time <= expire_clock[m]
        BY Zenon DEF TrsyncInv, TimeoutInv
    <2>3. expire_clock[m] <= first + Expire
        BY Zenon, <2>1, <2>2 DEF Witness
    <2>4. now \in Int /\ first \in Int /\ expire_clock[m] \in Int /\ ts[m].expire_time \in Int
        BY DEF TrsyncInv, Types, TrsyncOf, Clock, Never
    <2> QED
        BY <2>2, <2>3, <2>4, TrsyncAssumption
<1>2. NeverTooClose
    <2> SUFFICES ASSUME NEW m \in Mcus, down[m] # <<>>, Head(down[m]).c = "timeout", ts[m].can
                 PROVE  Head(down[m]).at >= now
        BY Zenon DEF NeverTooClose
    <2>1. down[m] \in Seq(Command) /\ ts[m].expire_time \in Int /\ now \in Int
        BY DEF TrsyncInv, Types, TrsyncOf, Clock, Never
    <2>2. 1 \in 1..Len(down[m]) /\ down[m][1] \in Command
        BY Zenon, <2>1, FrontOfSeq
    <2>3. Head(down[m]) = down[m][1] /\ down[m][1].at \in Int
        BY <2>1, <2>2 DEF Command
    <2>4. ts[m].expire_time <= down[m][1].at /\ now <= ts[m].expire_time
        BY Zenon, <2>2, <2>3 DEF TrsyncInv, TimeoutInv, From
    <2> QED
        BY <2>1, <2>3, <2>4
<1>3. NotRearmed
    BY Zenon DEF TrsyncInv, TimeoutInv, NotRearmed
<1> QED
    BY Zenon, <1>1, <1>2, <1>3

\* It holds when the move starts: MCU_trsync.start() and trdispatch_start().
LEMMA InitInv == Init => TrsyncInv
<1> SUFFICES ASSUME Init PROVE TrsyncInv
    BY Zenon
<1>0. Expire \in Nat
    BY Zenon, TrsyncAssumption
<1>1. Types
    BY <1>0 DEF Init, Types, TrsyncOf, Clock, Never
<1>2. \A k \in Mcus : /\ down[k] = <<>> /\ up[k] = <<>> /\ last_status[k] = 0
                      /\ expire_clock[k] = Expire /\ ts[k].expire_time = Expire
                      /\ ts[k].report_time = 0 /\ ts[k].can
    BY Zenon DEF Init
<1>3. \A k \in Mcus : HostInv(k) /\ TimeoutInv(k)
    <2> SUFFICES ASSUME NEW k \in Mcus PROVE HostInv(k) /\ TimeoutInv(k)
        BY Zenon
    <2>1. now = 0 /\ 1..Len(down[k]) = {} /\ 1..Len(up[k]) = {}
        BY <1>2 DEF Init
    <2>2. HostInv(k)
        BY <1>0, <1>2, <2>1 DEF HostInv
    <2>3. Ascending(down[k]) /\ UpTo(down[k], expire_clock[k]) /\ From(down[k], Expire)
        BY Zenon, <2>1 DEF Ascending, UpTo, From
    <2> QED
        BY <1>0, <1>2, <2>1, <2>2, <2>3 DEF TimeoutInv, Never
<1> QED
    BY Zenon, <1>1, <1>3 DEF TrsyncInv, FirstInv, Init

-----------------------------------------------------------------------------
(* Queues of commands                                                      *)

\* A trsync_trigger queued behind the timeouts leaves their order and bounds alone.
LEMMA AppendTrigger ==
    ASSUME NEW q \in Seq(Command), NEW p, p = Append(q, TriggerCmd)
    PROVE  /\ p \in Seq(Command)
           /\ Ascending(q) => Ascending(p)
           /\ \A hi : UpTo(q, hi) => UpTo(p, hi)
           /\ \A lo : From(q, lo) => From(p, lo)
<1>1. TriggerCmd \in Command /\ TriggerCmd.c # "timeout"
    BY DEF TriggerCmd, Command, Never
<1>2. /\ p \in Seq(Command) /\ Len(p) = Len(q) + 1 /\ Len(q) \in Nat
      /\ \A i \in 1..Len(q) : p[i] = q[i]
      /\ p[Len(p)] = TriggerCmd
    BY <1>1
<1>3. \A i \in 1..Len(p) : p[i].c = "timeout" => i \in 1..Len(q) /\ p[i] = q[i]
    BY <1>1, <1>2
<1> HIDE DEF Command, TriggerCmd
<1> QED
    BY <1>2, <1>3 DEF Ascending, UpTo, From

\* A later timeout queued behind the others keeps their order.
LEMMA AppendTimeout ==
    ASSUME NEW q \in Seq(Command), NEW e \in Int, NEW hi \in Int, hi <= e, NEW lo \in Int, lo <= e,
           Ascending(q), UpTo(q, hi), NEW p, p = Append(q, TimeoutCmd(e))
    PROVE  /\ p \in Seq(Command) /\ Ascending(p) /\ UpTo(p, e)
           /\ From(q, lo) => From(p, lo)
<1>1. TimeoutCmd(e) \in Command /\ TimeoutCmd(e).at = e
    BY Zenon DEF TimeoutCmd, Command
<1>2. /\ p \in Seq(Command) /\ Len(p) = Len(q) + 1 /\ Len(q) \in Nat
      /\ \A i \in 1..Len(q) : p[i] = q[i]
      /\ p[Len(p)].at = e
    BY <1>1
<1>3. \A i \in 1..Len(q) : q[i].at \in Int
    <2>1. \A i \in 1..Len(q) : q[i] \in Command
        OBVIOUS
    <2> QED
        BY Zenon, <2>1 DEF Command
<1>4. \A i \in 1..Len(p) : i \in 1..Len(q) \/ i = Len(p)
    BY <1>2
<1>5. \A i \in 1..Len(q) : q[i].c = "timeout" => q[i].at <= e
    BY <1>3 DEF UpTo
<1>6. UpTo(p, e)
    BY <1>2, <1>4, <1>5 DEF UpTo
<1>7. From(q, lo) => From(p, lo)
    BY Zenon, <1>2, <1>4 DEF From
<1>8. Ascending(p)
    <2> SUFFICES ASSUME NEW i \in 1..Len(p), NEW j \in 1..Len(p), i < j,
                        p[i].c = "timeout", p[j].c = "timeout"
                 PROVE  p[i].at <= p[j].at
        BY Zenon DEF Ascending
    <2>1. i \in 1..Len(q) /\ p[i] = q[i]
        BY <1>2
    <2>2. CASE j = Len(p)
        BY Zenon, <1>2, <1>5, <2>1, <2>2
    <2>3. CASE j # Len(p)
        BY Zenon, <1>2, <1>4, <2>1, <2>3 DEF Ascending
    <2> QED
        BY Zenon, <2>2, <2>3
<1> QED
    BY Zenon, <1>2, <1>6, <1>7, <1>8

\* The command executed next: what it names, and what stays queued behind it.
LEMMA TailOfQueue ==
    ASSUME NEW q \in Seq(Command), q # <<>>, NEW p, p = Tail(q)
    PROVE  /\ p \in Seq(Command) /\ Head(q) \in Command
           /\ Ascending(q) => Ascending(p)
           /\ \A hi : UpTo(q, hi) => UpTo(p, hi)
           /\ \A lo : From(q, lo) => From(p, lo)
           /\ Ascending(q) /\ Head(q).c = "timeout" => From(p, Head(q).at)
           /\ \A hi : UpTo(q, hi) /\ Head(q).c = "timeout" => Head(q).at <= hi
           /\ \A lo : From(q, lo) /\ Head(q).c = "timeout" => lo <= Head(q).at
<1>1. 1 \in 1..Len(q) /\ q[1] \in Command
    BY Zenon, FrontOfSeq
<1>2. /\ p \in Seq(Command) /\ Len(p) = Len(q) - 1 /\ Len(q) \in Nat
      /\ \A i \in 1..Len(p) : p[i] = q[i + 1]
      /\ Head(q) = q[1]
    <2> HIDE DEF Command
    <2> QED
        BY <1>1
<1>3. \A i \in 1..Len(p) : i + 1 \in 1..Len(q) /\ 1 < i + 1
    BY <1>2
<1>4. \A i, j \in 1..Len(p) : i < j => i + 1 < j + 1
    BY <1>2
<1>5. Ascending(q) => Ascending(p)
    BY <1>2, <1>3, <1>4 DEF Ascending
<1>6. \A hi : UpTo(q, hi) => UpTo(p, hi)
    BY Zenon, <1>2, <1>3 DEF UpTo
<1>7. \A lo : From(q, lo) => From(p, lo)
    BY Zenon, <1>2, <1>3 DEF From
<1>8. Ascending(q) /\ Head(q).c = "timeout" => From(p, Head(q).at)
    BY ZenonT(30), <1>1, <1>2, <1>3 DEF Ascending, From
<1> QED
    BY Zenon, <1>1, <1>2, <1>5, <1>6, <1>7, <1>8 DEF UpTo, From

-----------------------------------------------------------------------------
(* Steps of one micro-controller and its link                              *)

\* A step of m that gives it the trsync t, the commands q and the reports r.
LEMMA LocalStep ==
    ASSUME TrsyncInv, NEW m \in Mcus, NEW t \in TrsyncOf, NEW b \in BOOLEAN,
           NEW q \in Seq(Command), NEW r \in Seq(ReportOf),
           ts' = [ts EXCEPT ![m] = t], moving' = [moving EXCEPT ![m] = b],
           down' = [down EXCEPT ![m] = q], up' = [up EXCEPT ![m] = r],
           UNCHANGED <<now, tdVars>>,
           first' = first \/ (first = Never /\ first' = now /\ ~t.can),
           t.can => ts[m].can, b => t.can,
           t.report_time = Never => t.expire_time = Never,
           t.can => /\ now <= t.expire_time /\ t.expire_time <= expire_clock[m]
                    /\ From(q, t.expire_time) /\ t.report_time # Never,
           Ascending(q), UpTo(q, expire_clock[m]),
           \A i \in 1..Len(r) :
               /\ r[i].clock <= now
               /\ r[i].can => ts[m].can \/ \E j \in 1..Len(up[m]) : up[m][j] = r[i]
    PROVE  TrsyncInv'
<1>0. UNCHANGED <<now, td, last_status, expire_clock>>
    BY Zenon DEF tdVars
<1>1. Types'
    <2> HIDE DEF Command, ReportOf, TrsyncOf
    <2>1. first' \in Clock
        BY Zenon DEF TrsyncInv, Types, Clock
    <2> QED
        BY Zenon, <1>0, <2>1 DEF TrsyncInv, Types
<1>2. ts'[m] = t /\ moving'[m] = b /\ down'[m] = q /\ up'[m] = r
    BY Zenon DEF TrsyncInv, Types
<1>3. \A k \in Mcus \ {m} : /\ ts'[k] = ts[k] /\ moving'[k] = moving[k]
                            /\ down'[k] = down[k] /\ up'[k] = up[k]
    BY Zenon DEF TrsyncInv, Types
<1>4. ASSUME NEW k \in Mcus PROVE HostInv(k)' /\ TimeoutInv(k)'
    <2>1. CASE k = m
        BY Zenon, <1>0, <1>2, <2>1 DEF TrsyncInv, HostInv, TimeoutInv
    <2>2. CASE k # m
        BY <1>0, <1>3, <2>2 DEF TrsyncInv, HostInv, TimeoutInv, Ascending, UpTo, From
    <2> QED
        BY Zenon, <2>1, <2>2
<1>5. CASE first # Never
    <2>1. PICK f \in Mcus : Witness(f)
        BY Zenon, <1>5 DEF TrsyncInv, FirstInv
    <2>2. first' = first
        BY Zenon, <1>5
    <2>3. ~ts'[f].can /\ last_status'[f] <= first'
          /\ \A k \in Mcus \ {f} : expire_clock'[k] <= first' + Expire
        BY Zenon, <1>0, <1>2, <1>3, <2>1, <2>2 DEF Witness
    <2>4. \A i \in 1..Len(up'[f]) : up'[f][i].can => up'[f][i].clock <= first'
        <3>1. CASE f = m
            <4> SUFFICES ASSUME NEW i \in 1..Len(r), r[i].can PROVE r[i].clock <= first
                BY <1>2, <2>2, <3>1
            <4>1. PICK j \in 1..Len(up[m]) : up[m][j] = r[i]
                BY Zenon, <2>1, <3>1 DEF Witness
            <4> QED
                BY Zenon, <2>1, <3>1, <4>1 DEF Witness
        <3>2. CASE f # m
            BY <1>3, <2>1, <2>2, <3>2 DEF Witness
        <3> QED
            BY Zenon, <3>1, <3>2
    <2>5. FirstInv'
        BY Zenon, <2>3, <2>4 DEF Witness, FirstInv
    <2> QED
        BY Zenon, <1>1, <1>4, <2>5 DEF TrsyncInv
<1>6. CASE first = Never
    <2>1. CASE first' = first
        BY Zenon, <1>1, <1>4, <1>6, <2>1 DEF TrsyncInv, FirstInv
    <2>2. CASE first' = now /\ ~t.can
        <3>1. Witness(m)'
            BY Zenon, <1>0, <1>2, <2>2 DEF Witness, TrsyncInv, HostInv
        <3> QED
            BY Zenon, <1>1, <1>4, <3>1 DEF TrsyncInv, FirstInv
    <2> QED
        BY Zenon, <2>1, <2>2
<1> QED
    BY Zenon, <1>5, <1>6

\* The trsync of m after trsync_do_trigger(), and what its signals do.
LEMMA TriggerStep ==
    ASSUME TrsyncInv, NEW m \in Mcus, Signalled(m)
    PROVE  /\ moving' = [moving EXCEPT ![m] = FALSE]
           /\ first' = first \/ (first = Never /\ first' = now)
           /\ do_trigger(ts[m]) \in TrsyncOf
           /\ do_trigger(ts[m]) =
                 [can |-> FALSE, report |-> ts[m].can \/ ts[m].report,
                  report_time |-> ts[m].report_time, expire_time |-> ts[m].expire_time]
<1>1. ts[m] \in TrsyncOf /\ moving[m] \in BOOLEAN /\ (moving[m] => ts[m].can)
    BY Zenon DEF TrsyncInv, Types, TimeoutInv
<1>2. moving' = [moving EXCEPT ![m] = FALSE]
    BY Zenon, <1>1 DEF Signalled, TrsyncOf
<1>3. ts[m] = [can |-> ts[m].can, report |-> ts[m].report,
               report_time |-> ts[m].report_time, expire_time |-> ts[m].expire_time]
    BY Zenon, <1>1 DEF TrsyncOf
<1>4. ts[m].can \in BOOLEAN /\ ts[m].report \in BOOLEAN /\ ts[m].report_time \in Clock
      /\ ts[m].expire_time \in Clock
    BY Zenon, <1>1 DEF TrsyncOf
<1>5. do_trigger(ts[m]) =
         [can |-> FALSE, report |-> ts[m].can \/ ts[m].report,
          report_time |-> ts[m].report_time, expire_time |-> ts[m].expire_time]
    <2>1. CASE ts[m].can
        BY Zenon, <1>3, <2>1 DEF do_trigger
    <2>2. CASE ~ts[m].can
        BY Zenon, <1>3, <1>4, <2>2 DEF do_trigger
    <2> QED
        BY Zenon, <2>1, <2>2
<1>6. do_trigger(ts[m]) \in TrsyncOf
    BY <1>4, <1>5 DEF TrsyncOf
<1>7. first' = first \/ (first = Never /\ first' = now)
    BY Zenon DEF Signalled
<1> QED
    BY Zenon, <1>2, <1>5, <1>6, <1>7

\* A variable indexed by micro-controllers that does not change, and what the
\* invariant says of it.
LEMMA Unchanged ==
    ASSUME TrsyncInv, NEW m \in Mcus
    PROVE  /\ ts = [ts EXCEPT ![m] = ts[m]] /\ moving = [moving EXCEPT ![m] = moving[m]]
           /\ down = [down EXCEPT ![m] = down[m]] /\ up = [up EXCEPT ![m] = up[m]]
           /\ ts[m] \in TrsyncOf /\ moving[m] \in BOOLEAN
           /\ down[m] \in Seq(Command) /\ up[m] \in Seq(ReportOf)
           /\ HostInv(m) /\ TimeoutInv(m)
<1> HIDE DEF TrsyncOf, Command, ReportOf
<1> QED
    BY Zenon DEF TrsyncInv, Types

\* trsync_expire_event() keeps the invariant.
LEMMA ExpireInv ==
    ASSUME TrsyncInv, NEW m \in Mcus, trsync_expire_event(m)
    PROVE  TrsyncInv'
<1> DEFINE t == [do_trigger(ts[m]) EXCEPT !.expire_time = Never]
<1>1. /\ ts' = [ts EXCEPT ![m] = t] /\ Signalled(m) /\ UNCHANGED <<now, down, up, tdVars>>
    BY Zenon DEF trsync_expire_event
<1>a. do_trigger(ts[m]) \in TrsyncOf /\ ~do_trigger(ts[m]).can
    <2>1. do_trigger(ts[m]) \in TrsyncOf
        BY Zenon, <1>1, TriggerStep
    <2>2. do_trigger(ts[m]) =
             [can |-> FALSE, report |-> ts[m].can \/ ts[m].report,
              report_time |-> ts[m].report_time, expire_time |-> ts[m].expire_time]
        BY Zenon, <1>1, TriggerStep
    <2>3. do_trigger(ts[m]).can = FALSE
        BY <2>2
    <2> QED
        BY Zenon, <2>1, <2>3
<1>2. t \in TrsyncOf /\ ~t.can /\ t.expire_time = Never
    BY Zenon, <1>a DEF TrsyncOf, Clock
<1> HIDE DEF t
<1>3. /\ Ascending(down[m]) /\ UpTo(down[m], expire_clock[m])
      /\ \A i \in 1..Len(up[m]) : up[m][i].clock <= now
    BY Zenon, Unchanged DEF HostInv, TimeoutInv
<1>4. down' = [down EXCEPT ![m] = down[m]] /\ up' = [up EXCEPT ![m] = up[m]]
      /\ down[m] \in Seq(Command) /\ up[m] \in Seq(ReportOf)
    BY Zenon, <1>1, Unchanged
<1>5. moving' = [moving EXCEPT ![m] = FALSE] /\ (first' = first \/ (first = Never /\ first' = now))
    BY Zenon, <1>1, TriggerStep
<1> QED
    BY Zenon, <1>1, <1>2, <1>3, <1>4, <1>5, LocalStep

\* trsync_do_trigger() of the end stop keeps it.
LEMMA EndstopInv ==
    ASSUME TrsyncInv, NEW m \in Mcus, endstop_trigger(m)
    PROVE  TrsyncInv'
<1> DEFINE t == do_trigger(ts[m])
<1>1. /\ ts' = [ts EXCEPT ![m] = t] /\ Signalled(m) /\ UNCHANGED <<now, down, up, tdVars>>
    BY Zenon DEF endstop_trigger
<1>2. /\ t \in TrsyncOf /\ ~t.can /\ t.report_time = ts[m].report_time
      /\ t.expire_time = ts[m].expire_time
    <2>1. t \in TrsyncOf
        BY Zenon, <1>1, TriggerStep
    <2>2. t = [can |-> FALSE, report |-> ts[m].can \/ ts[m].report,
               report_time |-> ts[m].report_time, expire_time |-> ts[m].expire_time]
        BY Zenon, <1>1, TriggerStep
    <2> HIDE DEF t
    <2> QED
        BY Zenon, <2>1, <2>2
<1> HIDE DEF t
<1>3. /\ Ascending(down[m]) /\ UpTo(down[m], expire_clock[m])
      /\ ts[m].report_time = Never => ts[m].expire_time = Never
      /\ \A i \in 1..Len(up[m]) : up[m][i].clock <= now
    BY Zenon, Unchanged DEF HostInv, TimeoutInv
<1>4. down' = [down EXCEPT ![m] = down[m]] /\ up' = [up EXCEPT ![m] = up[m]]
      /\ down[m] \in Seq(Command) /\ up[m] \in Seq(ReportOf)
    BY Zenon, <1>1, Unchanged
<1>5. moving' = [moving EXCEPT ![m] = FALSE] /\ (first' = first \/ (first = Never /\ first' = now))
    BY Zenon, <1>1, TriggerStep
<1> QED
    BY Zenon, <1>1, <1>2, <1>3, <1>4, <1>5, LocalStep

\* trsync_report_event() keeps it.
LEMMA ReportEventInv ==
    ASSUME TrsyncInv, NEW m \in Mcus, trsync_report_event(m)
    PROVE  TrsyncInv'
<1> DEFINE t == [ts[m] EXCEPT !.report = TRUE, !.report_time = @ + Period]
<1>0. ts[m] \in TrsyncOf /\ Period \in Nat
    BY Zenon, Unchanged, TrsyncAssumption
<1>1. /\ ts' = [ts EXCEPT ![m] = t] /\ UNCHANGED <<now, moving, first, down, up, tdVars>>
      /\ ts[m].report_time # Never
    BY Zenon DEF trsync_report_event, Due
<1>2. /\ t \in TrsyncOf /\ t.can = ts[m].can /\ t.expire_time = ts[m].expire_time
      /\ t.report_time # Never
    <2>1. ts[m].report_time + Period \in Nat
        BY <1>0, <1>1 DEF TrsyncOf, Clock, Never
    <2>2. /\ t.can = ts[m].can /\ t.expire_time = ts[m].expire_time
          /\ t.report_time = ts[m].report_time + Period
        BY Zenon, <1>0 DEF TrsyncOf
    <2>3. t \in TrsyncOf
        BY Zenon, <1>0, <2>1 DEF TrsyncOf, Clock
    <2> HIDE DEF t
    <2> QED
        BY <2>1, <2>2, <2>3 DEF Never
<1> HIDE DEF t
<1>3. HostInv(m) /\ TimeoutInv(m)
    BY Zenon, Unchanged
<1>4. /\ down' = [down EXCEPT ![m] = down[m]] /\ up' = [up EXCEPT ![m] = up[m]]
      /\ moving' = [moving EXCEPT ![m] = moving[m]] /\ moving[m] \in BOOLEAN
      /\ down[m] \in Seq(Command) /\ up[m] \in Seq(ReportOf)
    BY Zenon, <1>1, Unchanged
<1>5. /\ Ascending(down[m]) /\ UpTo(down[m], expire_clock[m]) /\ (moving[m] => t.can)
      /\ t.can => /\ now <= t.expire_time /\ t.expire_time <= expire_clock[m]
                  /\ From(down[m], t.expire_time) /\ t.report_time # Never
      /\ \A i \in 1..Len(up[m]) : up[m][i].clock <= now
    BY Zenon, <1>2, <1>3 DEF HostInv, TimeoutInv
<1> QED
    BY Zenon, <1>1, <1>2, <1>4, <1>5, LocalStep

\* A report added to those under way, or the first of them taken.
LEMMA Reports ==
    ASSUME TrsyncInv, NEW m \in Mcus, NEW x \in ReportOf, x.clock <= now, x.can => ts[m].can,
           NEW r, r = Append(up[m], x) \/ (up[m] # <<>> /\ r = Tail(up[m]))
    PROVE  /\ r \in Seq(ReportOf)
           /\ \A i \in 1..Len(r) :
                 /\ r[i].clock <= now
                 /\ r[i].can => ts[m].can \/ \E j \in 1..Len(up[m]) : up[m][j] = r[i]
<1>1. up[m] \in Seq(ReportOf) /\ \A i \in 1..Len(up[m]) : up[m][i].clock <= now
    BY Zenon, Unchanged DEF HostInv
<1> HIDE DEF ReportOf
<1>2. CASE r = Append(up[m], x)
    <2>1. /\ r \in Seq(ReportOf) /\ Len(r) = Len(up[m]) + 1 /\ Len(up[m]) \in Nat
          /\ \A i \in 1..Len(up[m]) : r[i] = up[m][i]
          /\ r[Len(r)] = x
        BY <1>1, <1>2
    <2>2. \A i \in 1..Len(r) : i \in 1..Len(up[m]) \/ i = Len(r)
        BY <2>1
    <2> QED
        BY Zenon, <1>1, <2>1, <2>2
<1>3. CASE up[m] # <<>> /\ r = Tail(up[m])
    <2>1. /\ r \in Seq(ReportOf) /\ Len(r) = Len(up[m]) - 1 /\ Len(up[m]) \in Nat
          /\ \A i \in 1..Len(r) : r[i] = up[m][i + 1]
        BY <1>1, <1>3, FrontOfSeq
    <2>2. \A i \in 1..Len(r) : i + 1 \in 1..Len(up[m])
        BY <2>1
    <2> QED
        BY Zenon, <1>1, <2>1, <2>2
<1> QED
    BY Zenon, <1>2, <1>3

\* trsync_task() keeps it: the report is not from the future.
LEMMA TaskInv ==
    ASSUME TrsyncInv, NEW m \in Mcus, trsync_task(m)
    PROVE  TrsyncInv'
<1> DEFINE t == [ts[m] EXCEPT !.report = FALSE]
<1>0. ts[m] \in TrsyncOf /\ now \in Nat
    BY Zenon, Unchanged DEF TrsyncInv, Types
<1>1. PICK clock \in {now - 1, now} :
         clock >= 0 /\ up' = [up EXCEPT ![m] = Append(@, Report(ts[m].can, clock))]
    BY Zenon DEF trsync_task
<1> DEFINE x == Report(ts[m].can, clock)
           r == Append(up[m], x)
<1>2. ts' = [ts EXCEPT ![m] = t] /\ UNCHANGED <<now, moving, first, down, tdVars>>
    BY Zenon DEF trsync_task
<1>3. /\ t \in TrsyncOf /\ t.can = ts[m].can /\ t.expire_time = ts[m].expire_time
      /\ t.report_time = ts[m].report_time
    BY Zenon, <1>0 DEF TrsyncOf
<1>4. x \in ReportOf /\ x.clock <= now /\ (x.can => ts[m].can)
    BY <1>0, <1>1 DEF TrsyncOf, ReportOf, Report
<1>5. up' = [up EXCEPT ![m] = r]
    BY Zenon, <1>1
<1> HIDE DEF t, x
<1>6. /\ r \in Seq(ReportOf)
      /\ \A i \in 1..Len(r) :
            /\ r[i].clock <= now
            /\ r[i].can => ts[m].can \/ \E j \in 1..Len(up[m]) : up[m][j] = r[i]
    BY Zenon, <1>4, Reports
<1> HIDE DEF r
<1>7. TimeoutInv(m)
    BY Zenon, Unchanged
<1>8. /\ down' = [down EXCEPT ![m] = down[m]] /\ down[m] \in Seq(Command)
      /\ moving' = [moving EXCEPT ![m] = moving[m]] /\ moving[m] \in BOOLEAN
    BY Zenon, <1>2, Unchanged
<1>9. /\ Ascending(down[m]) /\ UpTo(down[m], expire_clock[m]) /\ (moving[m] => t.can)
      /\ t.can => /\ now <= t.expire_time /\ t.expire_time <= expire_clock[m]
                  /\ From(down[m], t.expire_time) /\ t.report_time # Never
      /\ t.report_time = Never => t.expire_time = Never
    BY Zenon, <1>3, <1>7 DEF TimeoutInv
<1> QED
    BY Zenon, <1>2, <1>3, <1>5, <1>6, <1>8, <1>9, LocalStep

\* command_trsync_set_timeout() keeps it: the new timeout is no earlier than the old.
LEMMA SetTimeoutInv ==
    ASSUME TrsyncInv, NEW m \in Mcus, command_trsync_set_timeout(m)
    PROVE  TrsyncInv'
<1> DEFINE at == IF ts[m].can THEN Head(down[m]).at ELSE ts[m].expire_time
           t == [ts[m] EXCEPT !.expire_time = at]
           q == Tail(down[m])
<1>0. /\ ts[m] \in TrsyncOf /\ down[m] \in Seq(Command) /\ TimeoutInv(m) /\ HostInv(m)
      /\ expire_clock[m] \in Int /\ now \in Nat
    BY Zenon, Unchanged DEF TrsyncInv, Types
<1>1. /\ ts' = [ts EXCEPT ![m] = t] /\ down' = [down EXCEPT ![m] = q]
      /\ down[m] # <<>> /\ Head(down[m]).c = "timeout"
      /\ UNCHANGED <<now, tdVars, moving, first, up>>
    BY Zenon DEF command_trsync_set_timeout, Execute, TimeoutSet
<1>2. /\ q \in Seq(Command) /\ Head(down[m]) \in Command
      /\ Ascending(q) /\ UpTo(q, expire_clock[m]) /\ From(q, Head(down[m]).at)
      /\ Head(down[m]).at <= expire_clock[m]
      /\ ts[m].can => ts[m].expire_time <= Head(down[m]).at
    BY Zenon, <1>0, <1>1, TailOfQueue DEF TimeoutInv
<1>3. Head(down[m]).at \in Int /\ ts[m].expire_time \in Int /\ ts[m].report_time \in Clock
    BY <1>0, <1>2 DEF Command, TrsyncOf, Clock, Never
<1>4. ts[m].can => now <= Head(down[m]).at
    BY <1>0, <1>2, <1>3 DEF TimeoutInv
<1>5. at \in Clock
    BY <1>0, <1>3, <1>4 DEF TrsyncOf, Clock
<1>6. /\ t \in TrsyncOf /\ t.can = ts[m].can /\ t.expire_time = at
      /\ t.report_time = ts[m].report_time
    BY Zenon, <1>0, <1>5 DEF TrsyncOf
<1>7. /\ ts[m].can => at = Head(down[m]).at
      /\ ~ts[m].can => at = ts[m].expire_time
    BY Zenon
<1> HIDE DEF at, t, q
<1>8. /\ up' = [up EXCEPT ![m] = up[m]] /\ up[m] \in Seq(ReportOf)
      /\ moving' = [moving EXCEPT ![m] = moving[m]] /\ moving[m] \in BOOLEAN
    BY Zenon, <1>1, Unchanged
<1>9. /\ moving[m] => t.can
      /\ t.can => /\ now <= t.expire_time /\ t.expire_time <= expire_clock[m]
                  /\ From(q, t.expire_time) /\ t.report_time # Never
      /\ t.report_time = Never => t.expire_time = Never
      /\ \A i \in 1..Len(up[m]) : up[m][i].clock <= now
    <2>1. t.report_time = Never => t.expire_time = Never
        BY Zenon, <1>0, <1>6, <1>7 DEF TimeoutInv
    <2>2. moving[m] => t.can
        BY Zenon, <1>0, <1>6 DEF TimeoutInv
    <2>3. \A i \in 1..Len(up[m]) : up[m][i].clock <= now
        BY Zenon, <1>0 DEF HostInv
    <2>4. t.can => /\ now <= t.expire_time /\ t.expire_time <= expire_clock[m]
                   /\ From(q, t.expire_time) /\ t.report_time # Never
        BY Zenon, <1>0, <1>2, <1>4, <1>6, <1>7 DEF TimeoutInv
    <2> QED
        BY Zenon, <2>1, <2>2, <2>3, <2>4
<1> QED
    BY Zenon, <1>1, <1>2, <1>6, <1>8, <1>9, LocalStep

\* command_trsync_trigger() keeps it.
LEMMA TriggerCommandInv ==
    ASSUME TrsyncInv, NEW m \in Mcus, command_trsync_trigger(m)
    PROVE  TrsyncInv'
<1> DEFINE t == [can |-> FALSE, report |-> FALSE, report_time |-> Never, expire_time |-> Never]
           q == Tail(down[m])
           x == Report(FALSE, 0)
           r == Append(up[m], x)
<1>0. down[m] \in Seq(Command) /\ TimeoutInv(m) /\ now \in Nat
    BY Zenon, Unchanged DEF TrsyncInv, Types
<1>1. /\ ts' = [ts EXCEPT ![m] = t] /\ down' = [down EXCEPT ![m] = q] /\ Signalled(m)
      /\ up' = [up EXCEPT ![m] = r] /\ down[m] # <<>> /\ UNCHANGED <<now, tdVars>>
    BY Zenon DEF command_trsync_trigger, Execute
<1>2. q \in Seq(Command) /\ Ascending(q) /\ UpTo(q, expire_clock[m])
    BY Zenon, <1>0, <1>1, TailOfQueue DEF TimeoutInv
<1>3. x \in ReportOf /\ x.clock <= now /\ (x.can => ts[m].can)
    BY <1>0 DEF ReportOf, Report
<1>4. t \in TrsyncOf /\ ~t.can /\ t.expire_time = Never
    BY Zenon DEF TrsyncOf, Clock
<1> HIDE DEF t, q, x
<1>5. /\ r \in Seq(ReportOf)
      /\ \A i \in 1..Len(r) :
            /\ r[i].clock <= now
            /\ r[i].can => ts[m].can \/ \E j \in 1..Len(up[m]) : up[m][j] = r[i]
    BY Zenon, <1>3, Reports
<1> HIDE DEF r
<1>6. moving' = [moving EXCEPT ![m] = FALSE] /\ (first' = first \/ (first = Never /\ first' = now))
    BY Zenon, <1>1, TriggerStep
<1> QED
    BY Zenon, <1>1, <1>2, <1>4, <1>5, <1>6, LocalStep

\* A trsync_trigger sent by the Python thread keeps it.
LEMMA SendTriggerInv ==
    ASSUME TrsyncInv, NEW m \in Mcus, send_trigger(m)
    PROVE  TrsyncInv'
<1> DEFINE q == Append(down[m], TriggerCmd)
<1>0. down[m] \in Seq(Command) /\ TimeoutInv(m) /\ HostInv(m)
    BY Zenon, Unchanged
<1>1. down' = [down EXCEPT ![m] = q] /\ UNCHANGED <<now, ts, moving, first, up, tdVars>>
    BY Zenon DEF send_trigger, mcuVars
<1>2. /\ q \in Seq(Command) /\ Ascending(q) /\ UpTo(q, expire_clock[m])
      /\ ts[m].can => From(q, ts[m].expire_time)
    BY Zenon, <1>0, AppendTrigger DEF TimeoutInv
<1> HIDE DEF q
<1>3. /\ ts' = [ts EXCEPT ![m] = ts[m]] /\ ts[m] \in TrsyncOf
      /\ moving' = [moving EXCEPT ![m] = moving[m]] /\ moving[m] \in BOOLEAN
      /\ up' = [up EXCEPT ![m] = up[m]] /\ up[m] \in Seq(ReportOf)
    BY Zenon, <1>1, Unchanged
<1>4. /\ moving[m] => ts[m].can
      /\ ts[m].can => /\ now <= ts[m].expire_time /\ ts[m].expire_time <= expire_clock[m]
                      /\ ts[m].report_time # Never
      /\ ts[m].report_time = Never => ts[m].expire_time = Never
      /\ \A i \in 1..Len(up[m]) : up[m][i].clock <= now
    BY Zenon, <1>0 DEF TimeoutInv, HostInv
<1> QED
    BY Zenon, <1>1, <1>2, <1>3, <1>4, LocalStep

-----------------------------------------------------------------------------
(* Steps of the host                                                       *)

\* The host takes a report of m and queues commands for any micro-controller.
LEMMA HostStep ==
    ASSUME TrsyncInv, NEW m \in Mcus, up[m] # <<>>, up' = [up EXCEPT ![m] = Tail(@)],
           UNCHANGED <<now, ts, moving, first>>,
           td' \in BOOLEAN, last_status' \in [Mcus -> Nat], expire_clock' \in [Mcus -> Int],
           down' \in [Mcus -> Seq(Command)],
           \A k \in Mcus :
               /\ last_status'[k] <= now
               /\ expire_clock[k] <= expire_clock'[k] /\ expire_clock'[k] <= now + Expire
               /\ Ascending(down'[k]) /\ UpTo(down'[k], expire_clock'[k])
               /\ ts[k].can => From(down'[k], ts[k].expire_time),
           \A f \in Mcus : Witness(f) /\ first # Never =>
               /\ last_status'[f] <= first
               /\ \A k \in Mcus \ {f} : expire_clock'[k] <= first + Expire
    PROVE  TrsyncInv'
<1> DEFINE r == Tail(up[m])
<1>1. up[m] \in Seq(ReportOf) /\ up \in [Mcus -> Seq(ReportOf)]
    BY Zenon, Unchanged DEF TrsyncInv, Types
<1>2. /\ r \in Seq(ReportOf) /\ Len(r) = Len(up[m]) - 1 /\ Len(up[m]) \in Nat
      /\ \A i \in 1..Len(r) : r[i] = up[m][i + 1]
    <2> HIDE DEF ReportOf
    <2> QED
        BY <1>1, FrontOfSeq
<1>3. \A i \in 1..Len(r) : i + 1 \in 1..Len(up[m])
    BY <1>2
<1>4. up'[m] = r /\ \A k \in Mcus \ {m} : up'[k] = up[k]
    BY Zenon, <1>1
<1>5. Types'
    <2>1. up' \in [Mcus -> Seq(ReportOf)]
        <3> HIDE DEF r, ReportOf
        <3>1. up' = [up EXCEPT ![m] = r]
            BY Zenon DEF r
        <3> QED
            BY Zenon, <1>1, <1>2, <3>1
    <2> HIDE DEF Command, ReportOf, TrsyncOf
    <2> QED
        BY Zenon, <2>1 DEF TrsyncInv, Types
<1> HIDE DEF r
<1>6. ASSUME NEW k \in Mcus
      PROVE  \A i \in 1..Len(up'[k]) : \E j \in 1..Len(up[k]) : up'[k][i] = up[k][j]
    <2>1. CASE k = m
        BY <1>2, <1>3, <1>4, <2>1
    <2>2. CASE k # m
        BY Zenon, <1>4, <2>2
    <2> QED
        BY Zenon, <2>1, <2>2
<1>7. ASSUME NEW k \in Mcus PROVE HostInv(k)'
    <2>1. \A i \in 1..Len(up'[k]) : up'[k][i].clock <= now
        BY <1>6 DEF TrsyncInv, HostInv
    <2> QED
        BY Zenon, <2>1 DEF HostInv
<1>8. ASSUME NEW k \in Mcus PROVE TimeoutInv(k)'
    <2>1. /\ moving[k] => ts[k].can
          /\ ts[k].report_time = Never => ts[k].expire_time = Never
          /\ ts[k].can => /\ now <= ts[k].expire_time /\ ts[k].expire_time <= expire_clock[k]
                          /\ ts[k].report_time # Never
        BY Zenon DEF TrsyncInv, TimeoutInv
    <2>a. ts[k] \in TrsyncOf
        BY Zenon, Unchanged
    <2>b. expire_clock[k] \in Int /\ expire_clock'[k] \in Int
        BY Zenon DEF TrsyncInv, Types
    <2>2. ts[k].expire_time \in Int /\ expire_clock[k] \in Int /\ expire_clock'[k] \in Int
        BY <2>a, <2>b DEF TrsyncOf, Clock, Never
    <2>3. ts[k].can => ts[k].expire_time <= expire_clock'[k]
        BY <2>1, <2>2
    <2> QED
        BY Zenon, <2>1, <2>3 DEF TimeoutInv
<1>9. FirstInv'
    <2> SUFFICES ASSUME first # Never PROVE \E f \in Mcus : Witness(f)'
        BY Zenon DEF FirstInv
    <2>1. PICK f \in Mcus : Witness(f)
        BY Zenon DEF TrsyncInv, FirstInv
    <2>2. \A i \in 1..Len(up'[f]) : up'[f][i].can => up'[f][i].clock <= first
        BY <1>6, <2>1 DEF Witness
    <2>3. Witness(f)'
        BY Zenon, <2>1, <2>2 DEF Witness
    <2> QED
        BY Zenon, <2>3
<1> QED
    BY Zenon, <1>5, <1>7, <1>8, <1>9 DEF TrsyncInv

\* A report is lost, or it is ignored.
LEMMA TakenInv ==
    ASSUME TrsyncInv, NEW m \in Mcus, up[m] # <<>>, up' = [up EXCEPT ![m] = Tail(@)],
           UNCHANGED <<now, mcuVars, down, tdVars>>
    PROVE  TrsyncInv'
<1>1. UNCHANGED <<now, ts, moving, first, down, td, last_status, expire_clock>>
    BY Zenon DEF mcuVars, tdVars
<1>2. /\ td \in BOOLEAN /\ last_status \in [Mcus -> Nat] /\ expire_clock \in [Mcus -> Int]
      /\ down \in [Mcus -> Seq(Command)]
    BY Zenon DEF TrsyncInv, Types
<1>3. \A k \in Mcus : /\ last_status[k] <= now /\ expire_clock[k] <= now + Expire
                      /\ expire_clock[k] <= expire_clock[k]
                      /\ Ascending(down[k]) /\ UpTo(down[k], expire_clock[k])
                      /\ ts[k].can => From(down[k], ts[k].expire_time)
    BY <1>2 DEF TrsyncInv, HostInv, TimeoutInv
<1>4. \A f \in Mcus : Witness(f) =>
         /\ last_status[f] <= first /\ \A k \in Mcus \ {f} : expire_clock[k] <= first + Expire
    BY Zenon DEF Witness
<1> HIDE DEF Command
<1> QED
    BY Zenon, <1>1, <1>2, <1>3, <1>4, HostStep

\* handle_trsync_state() keeps it when it tells all to trigger ...
LEMMA DispatchTriggerInv ==
    ASSUME TrsyncInv, NEW m \in Mcus, up[m] # <<>>, up' = [up EXCEPT ![m] = Tail(@)],
           UNCHANGED <<now, mcuVars>>, DispatchTrigger
    PROVE  TrsyncInv'
<1>1. /\ UNCHANGED <<now, ts, moving, first, last_status, expire_clock>> /\ td' = FALSE
      /\ down' = [k \in Mcus |-> Append(down[k], TriggerCmd)]
    BY Zenon DEF mcuVars, DispatchTrigger
<1>2. /\ last_status \in [Mcus -> Nat] /\ expire_clock \in [Mcus -> Int]
      /\ down \in [Mcus -> Seq(Command)]
    BY Zenon DEF TrsyncInv, Types
<1>3. ASSUME NEW k \in Mcus
      PROVE  /\ down'[k] \in Seq(Command)
             /\ Ascending(down'[k]) /\ UpTo(down'[k], expire_clock[k])
             /\ ts[k].can => From(down'[k], ts[k].expire_time)
    <2>1. down'[k] = Append(down[k], TriggerCmd) /\ down[k] \in Seq(Command)
        BY Zenon, <1>1, <1>2
    <2>2. TimeoutInv(k)
        BY Zenon DEF TrsyncInv
    <2> HIDE DEF Command
    <2> QED
        BY Zenon, <2>1, <2>2, AppendTrigger DEF TimeoutInv
<1>4. \A k \in Mcus : /\ last_status[k] <= now /\ expire_clock[k] <= now + Expire
                      /\ expire_clock[k] <= expire_clock[k]
    BY <1>2 DEF TrsyncInv, HostInv
<1>5. \A f \in Mcus : Witness(f) =>
         /\ last_status[f] <= first /\ \A k \in Mcus \ {f} : expire_clock[k] <= first + Expire
    BY Zenon DEF Witness
<1> HIDE DEF Command
<1>6. down' \in [Mcus -> Seq(Command)]
    BY Zenon, <1>1, <1>3
<1> QED
    BY Zenon, <1>1, <1>2, <1>3, <1>4, <1>5, <1>6, HostStep

\* A new status of one micro-controller leaves an oldest one.
LEMMA OrderedUpdate ==
    ASSUME NEW st \in [Mcus -> Nat], NEW m \in Mcus, NEW c \in Nat, Ordered(st)
    PROVE  Ordered([st EXCEPT ![m] = c])
<1> DEFINE new == [st EXCEPT ![m] = c]
<1>1. /\ new \in [Mcus -> Nat] /\ new[m] = c
      /\ \A n \in Mcus \ {m} : new[n] = st[n]
    BY Zenon
<1> HIDE DEF new
<1> SUFFICES ASSUME NEW S \in SUBSET Mcus, S # {}
             PROVE  \E o \in S : \A n \in S : new[o] <= new[n]
    BY Zenon DEF Ordered, new
<1>2. CASE S \subseteq {m}
    BY <1>1, <1>2
<1>3. CASE ~(S \subseteq {m})
    <2>1. S \ {m} \in SUBSET Mcus /\ S \ {m} # {}
        BY Zenon, <1>3
    <2>2. PICK o \in S \ {m} : \A n \in S \ {m} : st[o] <= st[n]
        BY Zenon, <2>1 DEF Ordered
    <2>3. \A n \in S \ {m} : new[o] <= new[n]
        <3>1. \A n \in S \ {m} : n \in Mcus \ {m}
            BY Zenon
        <3> QED
            BY Zenon, <1>1, <2>2, <3>1
    <2>4. CASE m \notin S \/ new[o] <= new[m]
        <3>1. \A n \in S : new[o] <= new[n]
            BY Zenon, <2>3, <2>4
        <3> QED
            BY Zenon, <2>2, <3>1
    <2>5. CASE m \in S /\ ~(new[o] <= new[m])
        <3>1. new[m] \in Nat /\ new[o] \in Nat /\ \A n \in S : new[n] \in Nat
            BY Zenon, <1>1, <2>2
        <3>2. \A n \in S : new[m] <= new[n]
            BY <2>3, <2>5, <3>1
        <3> QED
            BY Zenon, <2>5, <3>2
    <2> QED
        BY Zenon, <2>4, <2>5
<1> QED
    BY Zenon, <1>2, <1>3

\* The status of the others: that of some micro-controller, and none of the others
\* has an older one.
LEMMA OldestStatus ==
    ASSUME NEW k \in Mcus, NEW status \in [Mcus -> Nat], Ordered(status)
    PROVE  /\ \E o \in Mcus : StatusOfOthers(k, status) = status[o]
           /\ \A f \in Mcus \ {k} : StatusOfOthers(k, status) <= status[f]
<1> DEFINE others == IF Mcus = {k} THEN Mcus ELSE Mcus \ {k}
           oldest == CHOOSE o \in others : \A n \in others : status[o] <= status[n]
<1>1. others # {} /\ others \in SUBSET Mcus /\ Mcus \ {k} \subseteq others
    BY Zenon
<1> HIDE DEF others
<1>2. \E o \in others : \A n \in others : status[o] <= status[n]
    BY Zenon, <1>1 DEF Ordered
<1>3. oldest \in others /\ \A n \in others : status[oldest] <= status[n]
    BY Zenon, <1>2
<1>4. StatusOfOthers(k, status) = status[oldest]
    BY Zenon DEF StatusOfOthers, others
<1> HIDE DEF oldest
<1> QED
    BY Zenon, <1>1, <1>3, <1>4

\* ... and when it extends the timeouts: each is based on the status of another, so
\* that a micro-controller that has triggered holds back all others.
LEMMA DispatchStatusInv ==
    ASSUME TrsyncInv, Ordered(last_status), NEW m \in Mcus, up[m] # <<>>,
           up' = [up EXCEPT ![m] = Tail(@)],
           UNCHANGED <<now, mcuVars>>, Head(up[m]).can, DispatchStatus(m, Head(up[m]).clock)
    PROVE  TrsyncInv'
<1> DEFINE clock == Head(up[m]).clock
           status == [last_status EXCEPT ![m] = clock]
           expire(k) == StatusOfOthers(k, status) + Expire
           extend(k) == Extends(expire(k), expire_clock[k])
<1>0. /\ now \in Nat /\ last_status \in [Mcus -> Nat] /\ expire_clock \in [Mcus -> Int]
      /\ down \in [Mcus -> Seq(Command)] /\ first \in Clock /\ td \in BOOLEAN
      /\ Expire \in Nat /\ MinExtend \in Nat \ {0}
    BY Zenon, TrsyncAssumption DEF TrsyncInv, Types
<1>1. /\ last_status' = status
      /\ expire_clock' = [k \in Mcus |-> IF extend(k) THEN expire(k) ELSE expire_clock[k]]
      /\ down' = [k \in Mcus |-> IF extend(k) THEN Append(down[k], TimeoutCmd(expire(k)))
                                              ELSE down[k]]
      /\ UNCHANGED <<now, ts, moving, first, td>>
    BY Zenon DEF DispatchStatus, mcuVars
<1>2. /\ clock \in Nat /\ clock <= now
      /\ \A f \in Mcus : Witness(f) /\ f = m => clock <= first
    <2>1. up[m] \in Seq(ReportOf) /\ HostInv(m)
        BY Zenon, Unchanged
    <2>2. 1 \in 1..Len(up[m]) /\ up[m][1] \in ReportOf /\ Head(up[m]) = up[m][1]
        <3> HIDE DEF ReportOf
        <3> QED
            BY <2>1, FrontOfSeq
    <2>3. clock = up[m][1].clock /\ up[m][1].can
        BY Zenon, <2>2
    <2>4. clock \in Nat
        BY Zenon, <2>2, <2>3 DEF ReportOf
    <2> HIDE DEF clock
    <2> QED
        BY Zenon, <2>1, <2>2, <2>3, <2>4 DEF HostInv, Witness
<1> HIDE DEF clock
<1>3. /\ status \in [Mcus -> Nat] /\ \A k \in Mcus : status[k] <= now
      /\ \A f \in Mcus : Witness(f) => status[f] <= first
      /\ Ordered(status)
    <2>1. status \in [Mcus -> Nat] /\ status[m] = clock
          /\ \A k \in Mcus \ {m} : status[k] = last_status[k]
        BY Zenon, <1>0, <1>2
    <2>2. \A k \in Mcus : last_status[k] <= now
        BY Zenon DEF TrsyncInv, HostInv
    <2>3. Ordered(status)
        BY Zenon, <1>0, <1>2, OrderedUpdate
    <2> HIDE DEF status
    <2> QED
        BY Zenon, <1>2, <2>1, <2>2, <2>3 DEF Witness
<1> HIDE DEF status
<1>4. ASSUME NEW k \in Mcus
      PROVE  /\ expire(k) \in Int /\ expire(k) <= now + Expire
             /\ \A f \in Mcus \ {k} : Witness(f) => expire(k) <= first + Expire
             /\ extend(k) => expire_clock[k] <= expire(k)
    <2>1. PICK o \in Mcus : StatusOfOthers(k, status) = status[o]
        BY Zenon, <1>3, OldestStatus
    <2>2. \A f \in Mcus \ {k} : StatusOfOthers(k, status) <= status[f]
        BY Zenon, <1>3, OldestStatus
    <2>3. expire(k) \in Int /\ expire(k) <= now + Expire /\ StatusOfOthers(k, status) \in Nat
        <3>1. PICK s \in Nat : s = StatusOfOthers(k, status) /\ s <= now
            BY Zenon, <1>3, <2>1
        <3>2. s + Expire \in Int /\ s + Expire <= now + Expire
            BY <1>0, <3>1
        <3> QED
            BY Zenon, <3>1, <3>2
    <2>4. \A f \in Mcus \ {k} : Witness(f) => expire(k) <= first + Expire
        <3> SUFFICES ASSUME NEW f \in Mcus \ {k}, Witness(f)
                     PROVE  StatusOfOthers(k, status) + Expire <= first + Expire
            BY Zenon
        <3>1. StatusOfOthers(k, status) <= status[f] /\ status[f] <= first /\ status[f] \in Nat
            BY Zenon, <1>3, <2>2
        <3>2. first \in Int
            BY <1>0 DEF Clock, Never
        <3>3. Expire \in Nat /\ StatusOfOthers(k, status) \in Nat
            BY Zenon, <1>0, <2>3
        <3> DEFINE s == StatusOfOthers(k, status)
                   u == status[f]
        <3> HIDE DEF s, u
        <3>4. s \in Nat /\ u \in Nat /\ s <= u /\ u <= first
            BY Zenon, <3>1, <3>3 DEF s, u
        <3>5. s + Expire <= first + Expire
            BY <3>2, <3>3, <3>4
        <3> QED
            BY Zenon, <3>5 DEF s
    <2>5. extend(k) => expire_clock[k] <= expire(k)
        <3>1. PICK e \in Int : e = expire(k)
            BY Zenon, <2>3
        <3>2. PICK c \in Int : c = expire_clock[k]
            BY Zenon, <1>0
        <3>3. e - c >= MinExtend => c <= e
            BY <1>0
        <3> QED
            BY Zenon, <3>1, <3>2, <3>3 DEF Extends
    <2> QED
        BY Zenon, <2>3, <2>4, <2>5
<1>5. ASSUME NEW k \in Mcus
      PROVE  /\ expire_clock'[k] \in Int /\ down'[k] \in Seq(Command)
             /\ expire_clock[k] <= expire_clock'[k] /\ expire_clock'[k] <= now + Expire
             /\ Ascending(down'[k]) /\ UpTo(down'[k], expire_clock'[k])
             /\ ts[k].can => From(down'[k], ts[k].expire_time)
             /\ \A f \in Mcus \ {k} : Witness(f) => expire_clock'[k] <= first + Expire
    <2>1. /\ down[k] \in Seq(Command) /\ expire_clock[k] \in Int
          /\ TimeoutInv(k) /\ HostInv(k) /\ ts[k] \in TrsyncOf
        BY Zenon, <1>0, Unchanged
    <2>2. CASE extend(k)
        <3>1. expire_clock'[k] = expire(k) /\ down'[k] = Append(down[k], TimeoutCmd(expire(k)))
            BY Zenon, <1>1, <2>2
        <3> DEFINE e == expire(k)
                   lo == IF ts[k].can THEN ts[k].expire_time ELSE e
        <3>2. /\ e \in Int /\ e <= now + Expire /\ expire_clock[k] <= e
              /\ \A f \in Mcus \ {k} : Witness(f) => e <= first + Expire
            BY Zenon, <1>4, <2>2
        <3> HIDE DEF expire
        <3>3. lo \in Int /\ lo <= e
            BY <2>1, <3>2 DEF TimeoutInv, TrsyncOf, Clock, Never
        <3>4. /\ Ascending(down[k]) /\ UpTo(down[k], expire_clock[k])
              /\ ts[k].can => From(down[k], lo)
            BY Zenon, <2>1 DEF TimeoutInv
        <3>5. ts[k].can => lo = ts[k].expire_time
            BY Zenon
        <3> HIDE DEF e, lo
        <3>6. expire_clock'[k] = e /\ down'[k] = Append(down[k], TimeoutCmd(e))
            BY Zenon, <3>1 DEF e
        <3> HIDE DEF Command
        <3>7. /\ down'[k] \in Seq(Command) /\ Ascending(down'[k]) /\ UpTo(down'[k], e)
              /\ From(down[k], lo) => From(down'[k], lo)
            BY Zenon, <2>1, <3>2, <3>3, <3>4, <3>6, AppendTimeout
        <3> QED
            BY Zenon, <3>2, <3>4, <3>5, <3>6, <3>7
    <2>3. CASE ~extend(k)
        <3>1. expire_clock'[k] = expire_clock[k] /\ down'[k] = down[k]
            BY Zenon, <1>1, <2>3
        <3> HIDE DEF extend, expire, Command
        <3> QED
            BY <2>1, <3>1 DEF TimeoutInv, HostInv, Witness
    <2> QED
        BY Zenon, <2>2, <2>3
<1>6. expire_clock' \in [Mcus -> Int] /\ down' \in [Mcus -> Seq(Command)]
    <2> HIDE DEF extend, expire, Command
    <2> QED
        BY Zenon, <1>1, <1>5
<1> HIDE DEF extend, expire, Command
<1> QED
    BY Zenon, <1>0, <1>1, <1>3, <1>5, <1>6, HostStep

\* handle_trsync_state() keeps it in every case.
LEMMA HandleStateInv ==
    ASSUME TrsyncInv, Ordered(last_status), NEW m \in Mcus, handle_trsync_state(m)
    PROVE  TrsyncInv'
<1>1. up[m] # <<>> /\ up' = [up EXCEPT ![m] = Tail(@)] /\ UNCHANGED <<now, mcuVars>>
    BY Zenon DEF handle_trsync_state
<1>2. CASE Head(up[m]).can /\ DispatchStatus(m, Head(up[m]).clock)
    BY Zenon, <1>1, <1>2, DispatchStatusInv
<1>3. CASE DispatchTrigger
    BY Zenon, <1>1, <1>3, DispatchTriggerInv
<1>4. CASE UNCHANGED <<down, tdVars>>
    BY Zenon, <1>1, <1>4, TakenInv
<1> QED
    BY Zenon, <1>2, <1>3, <1>4 DEF handle_trsync_state

\* Time passes when no timer is due.
LEMMA TickInv ==
    ASSUME TrsyncInv, Tick
    PROVE  TrsyncInv'
<1>0. now \in Nat /\ now' = now + 1 /\ Expire \in Nat
    BY Zenon, TrsyncAssumption DEF Tick, TrsyncInv, Types
<1>1. UNCHANGED <<ts, moving, first, down, up, td, last_status, expire_clock>>
    BY Zenon DEF Tick, mcuVars, tdVars
<1>2. Types'
    BY <1>0, <1>1 DEF TrsyncInv, Types
<1>3. FirstInv'
    <2>1. \A f \in Mcus : Witness(f) => Witness(f)'
        BY Zenon, <1>1 DEF Witness
    <2> QED
        BY Zenon, <1>1, <2>1 DEF TrsyncInv, FirstInv
<1>4. ASSUME NEW k \in Mcus PROVE HostInv(k)' /\ TimeoutInv(k)'
    <2>1. /\ ts[k] \in TrsyncOf /\ up[k] \in Seq(ReportOf) /\ HostInv(k) /\ TimeoutInv(k)
          /\ last_status[k] \in Nat /\ expire_clock[k] \in Int
        BY Zenon, Unchanged DEF TrsyncInv, Types
    <2>2. \A i \in 1..Len(up[k]) : up[k][i].clock \in Nat
        <3>1. \A i \in 1..Len(up[k]) : up[k][i] \in ReportOf
            <4> HIDE DEF ReportOf
            <4> QED
                BY Zenon, <2>1, SeqElement
        <3> QED
            BY Zenon, <3>1 DEF ReportOf
    <2>3. HostInv(k)'
        BY <1>0, <1>1, <2>1, <2>2 DEF HostInv
    <2>4. ts[k].can => now' <= ts[k].expire_time
        <3>1. ~Due(ts[k].expire_time)
            BY Zenon DEF Tick
        <3>2. ts[k].expire_time \in Int
            BY <2>1 DEF TrsyncOf, Clock, Never
        <3> QED
            BY <1>0, <2>1, <3>1, <3>2 DEF Due, TimeoutInv, Never
    <2>5. TimeoutInv(k)'
        BY Zenon, <1>1, <2>1, <2>4 DEF TimeoutInv, Ascending, UpTo, From
    <2> QED
        BY Zenon, <2>3, <2>5
<1> QED
    BY Zenon, <1>2, <1>3, <1>4 DEF TrsyncInv

\* Every step of Next, and a step that changes nothing, keeps the invariant.
LEMMA NextInv == TrsyncInv /\ Ordered(last_status) /\ [Next]_vars => TrsyncInv'
<1> SUFFICES ASSUME TrsyncInv, Ordered(last_status), [Next]_vars PROVE TrsyncInv'
    BY Zenon
<1>1. CASE Tick
    BY Zenon, <1>1, TickInv
<1>2. ASSUME NEW m \in Mcus, trsync_expire_event(m) PROVE TrsyncInv'
    BY Zenon, <1>2, ExpireInv
<1>3. ASSUME NEW m \in Mcus, trsync_report_event(m) PROVE TrsyncInv'
    BY Zenon, <1>3, ReportEventInv
<1>4. ASSUME NEW m \in Mcus, endstop_trigger(m) PROVE TrsyncInv'
    BY Zenon, <1>4, EndstopInv
<1>5. ASSUME NEW m \in Mcus, trsync_task(m) PROVE TrsyncInv'
    BY Zenon, <1>5, TaskInv
<1>6. ASSUME NEW m \in Mcus, command_trsync_set_timeout(m) PROVE TrsyncInv'
    BY Zenon, <1>6, SetTimeoutInv
<1>7. ASSUME NEW m \in Mcus, command_trsync_trigger(m) PROVE TrsyncInv'
    BY Zenon, <1>7, TriggerCommandInv
<1>8. ASSUME NEW m \in Mcus, handle_trsync_state(m) PROVE TrsyncInv'
    BY Zenon, <1>8, HandleStateInv
<1>9. ASSUME NEW m \in Mcus, lose(m) PROVE TrsyncInv'
    BY Zenon, <1>9, TakenInv DEF lose
<1>10. ASSUME NEW m \in Mcus, send_trigger(m) PROVE TrsyncInv'
    BY Zenon, <1>10, SendTriggerInv
<1>11. CASE UNCHANGED vars
    <2>1. UNCHANGED <<now, ts, moving, first, down, up, td, last_status, expire_clock>>
        BY Zenon, <1>11 DEF vars, mcuVars, tdVars
    <2>2. Types' /\ FirstInv'
        BY Zenon, <2>1 DEF TrsyncInv, Types, FirstInv, Witness
    <2>3. \A k \in Mcus : HostInv(k)' /\ TimeoutInv(k)'
        BY <2>1 DEF TrsyncInv, HostInv, TimeoutInv, Ascending, UpTo, From
    <2> QED
        BY Zenon, <2>2, <2>3 DEF TrsyncInv
<1> QED
    BY Zenon, <1>1, <1>2, <1>3, <1>4, <1>5, <1>6, <1>7, <1>8, <1>9, <1>10, <1>11 DEF Next

\* handle_trsync_state() alone changes what the host knows of the others.
LEMMA OrderedNext ==
    ASSUME TrsyncInv, Ordered(last_status), [Next]_vars
    PROVE  Ordered(last_status)'
<1>1. CASE last_status' = last_status
    BY Zenon, <1>1 DEF Ordered
<1>2. CASE ~(last_status' = last_status)
    <2>1. PICK m \in Mcus : handle_trsync_state(m)
        <3>1. Tick => last_status' = last_status
            BY Zenon DEF Tick, tdVars
        <3>2. \A m \in Mcus :
                 \/ trsync_expire_event(m) \/ trsync_report_event(m) \/ endstop_trigger(m)
                 \/ trsync_task(m) \/ command_trsync_set_timeout(m) \/ command_trsync_trigger(m)
                 => last_status' = last_status
            BY Zenon DEF trsync_expire_event, trsync_report_event, endstop_trigger, trsync_task,
                         command_trsync_set_timeout, command_trsync_trigger, Execute, tdVars
        <3>3. \A m \in Mcus : lose(m) \/ send_trigger(m) => last_status' = last_status
            BY Zenon DEF lose, send_trigger, tdVars
        <3>4. UNCHANGED vars => last_status' = last_status
            BY Zenon DEF vars, tdVars
        <3> QED
            BY Zenon, <1>2, <3>1, <3>2, <3>3, <3>4 DEF Next
    <2>2. /\ up[m] # <<>>
          /\ last_status' = [last_status EXCEPT ![m] = Head(up[m]).clock]
        BY Zenon, <1>2, <2>1 DEF handle_trsync_state, DispatchStatus, DispatchTrigger, tdVars
    <2>3. up[m] \in Seq(ReportOf) /\ last_status \in [Mcus -> Nat]
        BY Zenon, Unchanged DEF TrsyncInv, Types
    <2>4. Head(up[m]).clock \in Nat
        <3>1. Head(up[m]) \in ReportOf
            <4> HIDE DEF ReportOf
            <4> QED
                BY <2>2, <2>3
        <3> QED
            BY Zenon, <3>1 DEF ReportOf
    <2>5. PICK st : st = last_status' /\ Ordered(st)
        BY Zenon, <2>2, <2>3, <2>4, OrderedUpdate
    <2> QED
        BY Zenon, <2>5 DEF Ordered
<1> QED
    BY Zenon, <1>1, <1>2

\* Both together.
LEMMA TrsyncStep ==
    TrsyncInv /\ Ordered(last_status) /\ [Next]_vars => TrsyncInv' /\ Ordered(last_status)'
BY Zenon, NextInv, OrderedNext

\* All start with the same status.
LEMMA TrsyncStart == Init => TrsyncInv /\ Ordered(last_status)
<1>1. Init => Ordered(last_status)
    BY DEF Init, Ordered
<1> QED
    BY Zenon, <1>1, InitInv

-----------------------------------------------------------------------------
(* The theorems                                                            *)

\* Whatever the links delay or lose, once one trsync has triggered or timed out
\* every stepper stops within expire_ticks: for any number of micro-controllers and
\* any expire, report and extension times (src/trsync.c, handle_trsync_state() of
\* trdispatch.c).
THEOREM StopsInTimeSafe == Spec => []StopsInTime
<1>1. Init => TrsyncInv /\ Ordered(last_status)
    BY Zenon, TrsyncStart
<1>2. TrsyncInv /\ Ordered(last_status) /\ [Next]_vars => TrsyncInv' /\ Ordered(last_status)'
    BY Zenon, TrsyncStep
<1>3. TrsyncInv => StopsInTime
    BY Zenon, InvSafe
<1> QED
    BY <1>1, <1>2, <1>3, PTL DEF Spec

\* No trsync_set_timeout names a time in the past while it still counts, and none
\* starts a timer after the trigger (command_trsync_set_timeout()).
THEOREM TimeoutsAlwaysSafe == Spec => []TimeoutsSafe
<1>1. Init => TrsyncInv /\ Ordered(last_status)
    BY Zenon, TrsyncStart
<1>2. TrsyncInv /\ Ordered(last_status) /\ [Next]_vars => TrsyncInv' /\ Ordered(last_status)'
    BY Zenon, TrsyncStep
<1>3. TrsyncInv => TimeoutsSafe
    BY Zenon, InvSafe
<1> QED
    BY <1>1, <1>2, <1>3, PTL DEF Spec

-----------------------------------------------------------------------------
\* The event loop of the C threads.

\* Division rounds down.
LEMMA RoundsDown ==
    ASSUME NEW a \in Nat, NEW n \in Nat \ {0}
    PROVE  a \div n \in Nat /\ n * (a \div n) <= a
OBVIOUS

\* A longer sleep lasts longer.
LEMMA Monotone ==
    ASSUME NEW n \in Nat, NEW a \in Nat, NEW b \in Nat, a <= b
    PROVE  n * a \in Nat /\ n * b \in Nat /\ n * a <= n * b
OBVIOUS

\* poll() sleeps less than a millisecond longer than it is asked to.
LEMMA SleepIsShort ==
    ASSUME Poll!PollReactorAssumption, NEW d \in Nat \ {0}
    PROVE  Ms * Poll!SleepTime(d) \in Nat /\ Ms * Poll!SleepTime(d) < d + Ms
<1> DEFINE timeout == (d + Ms - 1) \div Ms
           s == IF timeout < 1 THEN 1 ELSE Poll!Earlier(timeout, MaxTimeout)
<1>0. Ms \in Nat \ {0} /\ MaxTimeout \in Nat \ {0} /\ d + Ms - 1 \in Nat
    BY DEF Poll!PollReactorAssumption
<1>1. timeout \in Nat /\ Ms * timeout <= d + Ms - 1
    BY Zenon, <1>0, RoundsDown
<1> HIDE DEF timeout
<1>2. CASE timeout < 1
    BY <1>0, <1>2 DEF Poll!SleepTime, timeout
<1>3. CASE ~(timeout < 1)
    <2>1. s \in Nat /\ s <= timeout /\ Poll!SleepTime(d) = s
        BY <1>0, <1>1, <1>3 DEF Poll!SleepTime, timeout, Poll!Earlier
    <2> HIDE DEF s
    <2>2. Ms * s \in Nat /\ Ms * timeout \in Nat /\ Ms * s <= Ms * timeout
        BY Zenon, <1>0, <1>1, <2>1, Monotone
    <2> QED
        BY <1>0, <1>1, <2>1, <2>2
<1> QED
    BY Zenon, <1>2, <1>3

\* The second conjunct of Scanning is what the cached next_timer needs: a scan in
\* which no callback has run has met only timers that are in the future.
PollTypes ==
    /\ p_now \in 0..p_MaxNow /\ waketime \in [Poll!Timers -> Nat] /\ next_timer \in Nat
    /\ p_i \in Nat /\ busy \in BOOLEAN /\ until \in Nat
    /\ p_phase \in {"check", "scan", "poll", "exit"}

Scanning == p_phase = "scan" => p_i >= 1 /\ (busy \/ next_timer > p_now)

\* The inductive invariant.
PollInv == PollTypes /\ Scanning /\ Poll!NoLostTimer /\ Poll!Punctual

\* The times callers may ask for are natural numbers.
LEMMA TimesAreNat ==
    ASSUME Poll!PollReactorAssumption, p_now \in 0..p_MaxNow
    PROVE  Poll!Times \subseteq Nat /\ Poll!PR_NEVER \in Nat /\ Poll!PR_NEVER > p_now
<1>1. Ms \in Nat /\ MaxTimeout \in Nat /\ p_Ahead \in Nat /\ p_MaxNow \in Nat
    BY Zenon DEF Poll!PollReactorAssumption
<1>2. Ms * MaxTimeout \in Nat
    BY <1>1, Monotone
<1>3. Poll!PR_NEVER \in Nat /\ Poll!PR_NEVER > p_now
    BY <1>1, <1>2 DEF Poll!PR_NEVER
<1> QED
    BY <1>1, <1>3 DEF Poll!Times

\* The end of pollreactor_check_timers(): the sleep it chooses is short enough.
LEMMA SleepInv ==
    ASSUME Poll!PollReactorAssumption, PollInv, NEW b \in BOOLEAN, Poll!Sleep(b),
           UNCHANGED <<p_now, waketime, next_timer, p_i>>,
           \A t \in Poll!Timers : next_timer <= waketime[t],
           b \/ next_timer > p_now
    PROVE  PollInv'
<1>0. p_now \in Nat /\ next_timer \in Nat /\ Ms \in Nat \ {0} /\ \A t \in Poll!Timers : waketime[t] \in Nat
    BY DEF PollInv, PollTypes, Poll!PollReactorAssumption
<1>1. CASE b
    <2>1. p_phase' = "poll" /\ busy' = FALSE /\ until' = p_now
        BY Zenon, <1>1 DEF Poll!Sleep
    <2>2. PollTypes' /\ Scanning'
        BY Zenon, <1>0, <2>1 DEF PollInv, PollTypes, Scanning
    <2>3. Poll!NoLostTimer'
        BY Zenon, <2>1 DEF Poll!NoLostTimer
    <2>4. Poll!Punctual'
        BY <1>0, <2>1 DEF Poll!Punctual
    <2> QED
        BY Zenon, <2>2, <2>3, <2>4 DEF PollInv
<1>2. CASE ~b
    <2> DEFINE d == next_timer - p_now
    <2>0. d \in Nat \ {0} /\ next_timer > p_now
        BY <1>0, <1>2
    <2>1. p_phase' = "poll" /\ busy' = FALSE /\ until' = p_now + Ms * Poll!SleepTime(d)
        BY Zenon, <1>0, <1>2, <2>0 DEF Poll!Sleep
    <2>a. next_timer = p_now + d
        BY <1>0
    <2> HIDE DEF d
    <2>2. Ms * Poll!SleepTime(d) \in Nat /\ Ms * Poll!SleepTime(d) < d + Ms
        BY Zenon, <2>0, SleepIsShort
    <2>3. until' \in Nat /\ until' < next_timer + Ms
        BY <1>0, <2>0, <2>1, <2>2, <2>a
    <2>4. PollTypes' /\ Scanning'
        BY Zenon, <2>1, <2>3 DEF PollInv, PollTypes, Scanning
    <2>5. Poll!NoLostTimer'
        BY Zenon, <2>1 DEF Poll!NoLostTimer
    <2>6. \A t \in Poll!Timers : until' < waketime[t] + Ms
        BY <1>0, <2>3
    <2>7. Poll!Punctual'
        BY Zenon, <2>6 DEF Poll!Punctual
    <2> QED
        BY Zenon, <2>4, <2>5, <2>7 DEF PollInv
<1> QED
    BY Zenon, <1>1, <1>2

\* Every step of pollreactor_run() keeps the invariant.
LEMMA PollStep ==
    ASSUME Poll!PollReactorAssumption, PollInv, [Poll!Next]_(Poll!vars)
    PROVE  PollInv'
<1>0. /\ p_now \in Nat /\ p_now <= p_MaxNow /\ next_timer \in Nat /\ p_i \in Nat /\ busy \in BOOLEAN
      /\ waketime \in [Poll!Timers -> Nat] /\ p_MaxNow \in Nat /\ until \in Nat
      /\ Poll!Times \subseteq Nat /\ Poll!PR_NEVER \in Nat /\ Poll!PR_NEVER > p_now
    BY TimesAreNat DEF PollInv, PollTypes, Poll!PollReactorAssumption
<1>1. CASE Poll!pollreactor_check_timers
    <2>1. CASE p_now < next_timer /\ UNCHANGED next_timer /\ Poll!Sleep(busy) /\ UNCHANGED p_i
        <3>1. \A t \in Poll!Timers : next_timer <= waketime[t]
            BY Zenon, <1>1 DEF PollInv, Poll!NoLostTimer, Poll!pollreactor_check_timers
        <3> QED
            BY Zenon, <1>0, <1>1, <2>1, <3>1, SleepInv DEF Poll!pollreactor_check_timers
    <2>2. CASE next_timer' = Poll!PR_NEVER /\ p_phase' = "scan" /\ p_i' = 1 /\ UNCHANGED <<busy, until>>
        <3>1. UNCHANGED <<p_now, waketime>>
            BY Zenon, <1>1 DEF Poll!pollreactor_check_timers
        <3>2. PollTypes' /\ Scanning' /\ Poll!Punctual'
            BY <1>0, <2>2, <3>1 DEF PollInv, PollTypes, Scanning, Poll!Punctual
        <3>3. Poll!NoLostTimer'
            BY <2>2 DEF Poll!NoLostTimer, Poll!Timers
        <3> QED
            BY Zenon, <3>2, <3>3 DEF PollInv
    <2> QED
        BY Zenon, <1>1, <2>1, <2>2 DEF Poll!pollreactor_check_timers
<1>2. CASE Poll!skip_timer
    <2>1. /\ p_phase = "scan" /\ p_i \in Poll!Timers /\ waketime[p_i] > p_now /\ p_i' = p_i + 1
          /\ next_timer' = Poll!Earlier(waketime[p_i], next_timer)
          /\ UNCHANGED <<p_now, waketime, p_phase, busy, until>>
        BY Zenon, <1>2 DEF Poll!skip_timer, Poll!NextAfterUpdate
    <2>2. /\ next_timer' \in Nat /\ next_timer' <= waketime[p_i] /\ next_timer' <= next_timer
          /\ next_timer > p_now => next_timer' > p_now
        BY <1>0, <2>1 DEF Poll!Earlier
    <2>3. PollTypes' /\ Scanning' /\ Poll!Punctual'
        BY <1>0, <2>1, <2>2 DEF PollInv, PollTypes, Scanning, Poll!Punctual
    <2>4. Poll!NoLostTimer'
        <3> SUFFICES ASSUME NEW t \in Poll!Timers, ~(t >= p_i + 1) PROVE next_timer' <= waketime[t]
            BY Zenon, <2>1 DEF Poll!NoLostTimer
        <3>1. CASE t = p_i
            BY Zenon, <2>2, <3>1
        <3>2. CASE t # p_i
            <4>1. ~(t >= p_i) /\ waketime[t] \in Nat
                BY <1>0, <3>2 DEF Poll!Timers
            <4>2. next_timer <= waketime[t]
                BY Zenon, <4>1 DEF PollInv, Poll!NoLostTimer
            <4> QED
                BY <1>0, <2>2, <4>1, <4>2
        <3> QED
            BY Zenon, <3>1, <3>2
    <2> QED
        BY Zenon, <2>3, <2>4 DEF PollInv
<1>3. CASE Poll!run_timer
    <2>1. PICK other \in Poll!Timers, u \in Poll!Times, t \in Poll!Times :
             /\ waketime' = [waketime EXCEPT ![other] = u, ![p_i] = t]
             /\ next_timer' = Poll!Earlier(t, Poll!Earlier(u, next_timer))
        BY Zenon, <1>3 DEF Poll!run_timer, Poll!NextAfterUpdate
    <2>2. /\ p_phase = "scan" /\ p_i \in Poll!Timers /\ busy' = TRUE /\ p_i' = p_i + 1
          /\ UNCHANGED <<p_now, p_phase, until>>
        BY Zenon, <1>3 DEF Poll!run_timer
    <2>3. /\ next_timer' \in Nat /\ next_timer' <= t /\ next_timer' <= u
          /\ next_timer' <= next_timer /\ t \in Nat /\ u \in Nat
        BY <1>0, <2>1 DEF Poll!Earlier
    <2>4. PollTypes' /\ Scanning' /\ Poll!Punctual'
        BY <1>0, <2>1, <2>2, <2>3 DEF PollInv, PollTypes, Scanning, Poll!Punctual
    <2>5. Poll!NoLostTimer'
        <3> SUFFICES ASSUME NEW k \in Poll!Timers, ~(k >= p_i + 1) PROVE next_timer' <= waketime'[k]
            BY Zenon, <2>2 DEF Poll!NoLostTimer
        <3>1. CASE k = p_i
            BY Zenon, <1>0, <2>1, <2>3, <3>1
        <3>2. CASE k # p_i /\ k = other
            BY Zenon, <1>0, <2>1, <2>3, <3>2
        <3>3. CASE k # p_i /\ k # other
            <4>1. ~(k >= p_i) /\ waketime[k] \in Nat /\ waketime'[k] = waketime[k]
                BY <1>0, <2>1, <3>3 DEF Poll!Timers
            <4>2. next_timer <= waketime[k]
                BY Zenon, <4>1 DEF PollInv, Poll!NoLostTimer
            <4> QED
                BY <1>0, <2>3, <4>1, <4>2
        <3> QED
            BY Zenon, <3>1, <3>2, <3>3
    <2> QED
        BY Zenon, <2>4, <2>5 DEF PollInv
<1>4. CASE Poll!end_scan
    <2>1. /\ p_phase = "scan" /\ p_i \notin Poll!Timers /\ Poll!Sleep(busy)
          /\ UNCHANGED <<p_now, waketime, next_timer, p_i>>
        BY Zenon, <1>4 DEF Poll!end_scan
    <2>2. \A t \in Poll!Timers : ~(t >= p_i)
        BY <1>0, <2>1 DEF PollInv, Scanning, Poll!Timers, Poll!PollReactorAssumption
    <2>3. \A t \in Poll!Timers : next_timer <= waketime[t]
        BY Zenon, <2>2 DEF PollInv, Poll!NoLostTimer
    <2>4. busy \/ next_timer > p_now
        BY Zenon, <2>1 DEF PollInv, Scanning
    <2> QED
        BY Zenon, <1>0, <2>1, <2>3, <2>4, SleepInv
<1>5. CASE Poll!poll_timeout
    <2>1. /\ p_phase = "poll" /\ p_phase' = "check" /\ p_now' \in 0..p_MaxNow
          /\ UNCHANGED <<waketime, next_timer, p_i, busy, until>>
        BY <1>0, <1>5 DEF Poll!poll_timeout
    <2> QED
        BY Zenon, <2>1 DEF PollInv, PollTypes, Scanning, Poll!NoLostTimer, Poll!Punctual
<1>6. CASE Poll!poll_event
    <2>1. PICK other \in Poll!Timers, u \in Poll!Times :
             waketime' = [waketime EXCEPT ![other] = u] /\ next_timer' = Poll!Earlier(u, next_timer)
        BY Zenon, <1>6 DEF Poll!poll_event, Poll!NextAfterUpdate
    <2>2. /\ p_phase = "poll" /\ p_phase' = "check" /\ p_now' \in 0..p_MaxNow /\ busy' = TRUE
          /\ UNCHANGED <<p_i, until>>
        BY <1>0, <1>6 DEF Poll!poll_event
    <2>3. /\ next_timer' \in Nat /\ next_timer' <= u /\ next_timer' <= next_timer /\ u \in Nat
        BY <1>0, <2>1 DEF Poll!Earlier
    <2>4. PollTypes' /\ Scanning' /\ Poll!Punctual'
        BY Zenon, <1>0, <2>1, <2>2, <2>3 DEF PollInv, PollTypes, Scanning, Poll!Punctual
    <2>5. Poll!NoLostTimer'
        <3> SUFFICES ASSUME NEW k \in Poll!Timers PROVE next_timer' <= waketime'[k]
            BY Zenon DEF Poll!NoLostTimer
        <3>1. next_timer <= waketime[k] /\ waketime[k] \in Nat
            BY Zenon, <1>0, <2>2 DEF PollInv, Poll!NoLostTimer
        <3> QED
            BY <1>0, <2>1, <2>3, <3>1
    <2> QED
        BY Zenon, <2>4, <2>5 DEF PollInv
<1>7. CASE Poll!pollreactor_do_exit
    BY Zenon, <1>7 DEF Poll!pollreactor_do_exit, PollInv, PollTypes, Scanning, Poll!NoLostTimer, Poll!Punctual
<1>8. CASE UNCHANGED Poll!vars
    BY Zenon, <1>8 DEF Poll!vars, PollInv, PollTypes, Scanning, Poll!NoLostTimer, Poll!Punctual
<1> QED
    BY Zenon, <1>1, <1>2, <1>3, <1>4, <1>5, <1>6, <1>7, <1>8 DEF Poll!Next

\* The invariant holds before the loop starts.
LEMMA PollInit ==
    ASSUME Poll!PollReactorAssumption, Poll!Init
    PROVE  PollInv
<1>1. p_MaxNow \in Nat /\ p_now \in 0..p_MaxNow
    BY DEF Poll!Init, Poll!PollReactorAssumption
<1>2. Poll!PR_NEVER \in Nat
    BY Zenon, <1>1, TimesAreNat
<1> QED
    BY <1>1, <1>2 DEF Poll!Init, PollInv, PollTypes, Scanning, Poll!NoLostTimer, Poll!Punctual

\* pollreactor_check_timers() and the callbacks it runs never leave next_timer later
\* than a timer, and poll() never sleeps a millisecond or more past one: for any
\* number of timers and any times the callbacks ask for.
THEOREM PollReactorSafe == Poll!Spec => []PollPunctual
<1>1. Poll!Init => PollInv
    BY Zenon, HostPartsAssumption, PollInit
<1>2. PollInv /\ [Poll!Next]_(Poll!vars) => PollInv'
    BY Zenon, HostPartsAssumption, PollStep
<1>3. PollInv => PollPunctual
    BY Zenon DEF PollInv, PollPunctual
<1> QED
    BY <1>1, <1>2, <1>3, PTL DEF Poll!Spec

-----------------------------------------------------------------------------
\* Clocks.

\* The time at which statistics were last sent.
SendTime == stats_send_time_high * ClockMod + stats_send_time

\* An answer under way: its kind, the 32-bit clock (and the high part), and when it was made.
Response == [kind : {"uptime", "clock", "event"}, high : Nat, clock : Nat, at : Nat]

\* Types.
ClkTypes ==
    /\ c_now \in Nat /\ last_pass \in Nat /\ stats_send_time_high \in Nat
    /\ stats_send_time \in 0 .. ClockMod - 1
    /\ c_up \in Seq(Response) /\ connected \in BOOLEAN
    /\ last_clock \in Nat /\ ce_last_clock \in Nat

\* stats_update() is called so often that the clock never gets a whole cycle ahead.
StatsInTime ==
    /\ SendTime <= c_now
    /\ last_pass <= c_now /\ c_now <= last_pass + PassTicks
    /\ last_pass <= SendTime + SendTicks

\* What is under way: a clock is the remainder of the time it is about, and is not older
\* than Gap; an event may be about another time.
Travels(r) ==
    /\ r.clock = r.at % ClockMod
    /\ c_now <= r.at + Gap + Offset /\ r.at <= c_now + Offset
    /\ r.kind # "event" => r.at <= c_now /\ c_now <= r.at + Gap
    /\ r.kind = "uptime" => ~connected /\ r.high * ClockMod + r.clock = r.at
    /\ r.kind = "clock" => last_clock <= r.at

\* The answers under way are in order, and none is older than the host can extend.
UnderWay ==
    /\ \A k \in 1..Len(c_up) : Travels(c_up[k])
    /\ \A j, k \in 1..Len(c_up) :
          j < k /\ c_up[j].kind = "clock" /\ c_up[k].kind = "clock" => c_up[j].at <= c_up[k].at
    /\ ~connected => Len(c_up) <= 1 /\ \A k \in 1..Len(c_up) : c_up[k].kind = "uptime"

\* The samples of the host are not too old.
Sampled ==
    connected =>
        /\ last_clock <= c_now /\ c_now <= last_clock + Gap
        /\ ce_last_clock <= last_clock /\ last_clock <= ce_last_clock + Refused

\* The inductive invariant.
ClkInv == ClkTypes /\ StatsInTime /\ UnderWay /\ Sampled /\ Clk!ExtensionExact

\* The numbers of the configuration.
LEMMA ClkConstants ==
    /\ ClockMod \in Nat \ {0} /\ SendTicks \in Nat /\ PassTicks \in Nat \ {0}
    /\ 2 * (SendTicks + PassTicks) < ClockMod
    /\ Gap \in Nat /\ Refused \in Nat /\ Offset \in Nat
    /\ 2 * (Gap + Refused + Offset) < ClockMod
<1>1. Clk!ClocksAssumption
  BY Zenon, HostPartsAssumption
<1>2. /\ ClockMod \in Nat \ {0} /\ SendTicks \in Nat /\ PassTicks \in Nat \ {0}
      /\ Gap \in Nat /\ Refused \in Nat /\ Offset \in Nat
      /\ 2 * (Gap + Refused + Offset) < ClockMod
      /\ SendTicks + PassTicks < ClockMod \div 2
  BY Zenon, <1>1 DEF Clk!ClocksAssumption
<1>3. 2 * (ClockMod \div 2) <= ClockMod /\ ClockMod \div 2 \in Nat
  BY <1>2
<1> QED BY <1>2, <1>3

\* The high part of a time, from that of an earlier one less than a cycle before.
LEMMA HighPart ==
    ASSUME NEW m \in Nat \ {0}, NEW h \in Nat, NEW s \in 0..(m - 1), NEW n \in Nat,
           h * m + s <= n, n < h * m + s + m
    PROVE  n = (h + (IF n % m < s THEN 1 ELSE 0)) * m + (n % m)
<1> DEFINE q == n \div m
           r == n % m
<1>1. n = m * q + r /\ q \in Nat /\ r \in 0..(m - 1)
  BY Zenon, DivMod
<1> HIDE DEF q, r
<1>2. h * m = m * h /\ m * h \in Nat /\ m * q \in Nat /\ m * (h + 1) = m * h + m /\ h + 1 \in Nat
  BY <1>1
<1>3. ~(q < h)
  <2> SUFFICES ASSUME q < h PROVE FALSE
    BY Zenon
  <2>1. m * h >= m * q + m
    BY <1>1, MulGap
  <2> QED BY <1>1, <1>2, <2>1
<1>4. ~(h + 1 < q)
  <2> SUFFICES ASSUME h + 1 < q PROVE FALSE
    BY Zenon
  <2>1. m * q >= m * (h + 1) + m
    BY <1>1, <1>2, MulGap
  <2> QED BY <1>1, <1>2, <2>1
<1>5. q = h \/ q = h + 1
  BY <1>1, <1>3, <1>4
<1>6. CASE q = h
  <2>1. n = m * h + r /\ ~(r < s)
    BY <1>1, <1>2, <1>6
  <2> QED BY <1>2, <2>1 DEF r
<1>7. CASE q = h + 1
  <2>1. n = m * (h + 1) + r
    BY Zenon, <1>1, <1>7
  <2>2. r < s
    BY <1>1, <1>2, <2>1
  <2>3. (h + 1) * m = m * (h + 1)
    BY <1>2
  <2> QED BY Zenon, <2>1, <2>2, <2>3 DEF r
<1> QED BY Zenon, <1>5, <1>6, <1>7

\* The difference of a time and a clock that wraps around, when the times are close.
LEMMA ClockBack ==
    ASSUME NEW m \in Nat \ {0}, NEW a \in Nat, NEW b \in Nat, a < b + m, b < a + m
    PROVE  (a - (b % m)) % m = IF a < b THEN (a - b) + m ELSE a - b
<1> DEFINE q == b \div m
           r == b % m
<1>1. b = m * q + r /\ q \in Nat /\ r \in 0..(m - 1)
  BY Zenon, DivMod
<1> HIDE DEF q, r
<1>2. m * q \in Nat /\ m * (q - 1) = m * q - m /\ q - 1 \in Int
  BY <1>1
<1>3. CASE a < b
  <2> DEFINE d == (a - b) + m
  <2>1. d \in 0..(m - 1) /\ a - r = m * (q - 1) + d
    BY <1>1, <1>2, <1>3
  <2> HIDE DEF d
  <2>2. (m * (q - 1) + d) % m = d
    BY Zenon, <1>2, <2>1, IntModUnique
  <2> QED BY Zenon, <1>3, <2>1, <2>2 DEF r, d
<1>4. CASE ~(a < b)
  <2> DEFINE d == a - b
  <2>1. d \in 0..(m - 1) /\ a - r = m * q + d
    BY <1>1, <1>2, <1>4
  <2> HIDE DEF d
  <2>2. (m * q + d) % m = d
    BY <1>1, <2>1, IntModUnique
  <2> QED BY Zenon, <1>4, <2>1, <2>2 DEF r, d
<1> QED BY Zenon, <1>3, <1>4

\* clock32_to_clock64() and clock_from_clock32() find the time that is near.
LEMMA FromClock32Exact ==
    ASSUME NEW a \in Nat, NEW b \in Nat, 2 * (a - b) < ClockMod, 2 * (b - a) < ClockMod
    PROVE  Clk!FromClock32(a, b % ClockMod) = b
<1> DEFINE d == (a - (b % ClockMod)) % ClockMod
<1>1. ClockMod \in Nat \ {0} /\ a < b + ClockMod /\ b < a + ClockMod
  BY ClkConstants
<1>2. d = IF a < b THEN (a - b) + ClockMod ELSE a - b
  BY Zenon, <1>1, ClockBack
<1>3. Clk!FromClock32(a, b % ClockMod) = IF 2 * d >= ClockMod THEN a + ClockMod - d ELSE a - d
  BY Zenon DEF Clk!FromClock32
<1> HIDE DEF d
<1>4. (2 * d >= ClockMod) <=> a < b
  BY <1>1, <1>2
<1> QED BY <1>1, <1>2, <1>3, <1>4

\* A micro-controller that has just started.
LEMMA ClkInit == Clk!Init => ClkInv
<1> SUFFICES ASSUME Clk!Init PROVE ClkInv
  BY Zenon
<1>1. /\ c_now \in 0 .. ClockMod - 1 /\ c_now <= SendTicks /\ last_pass = c_now
      /\ stats_send_time = 0 /\ stats_send_time_high = 0 /\ c_up = <<>> /\ connected = FALSE
      /\ last_clock = 0 /\ ce_last_clock = 0 /\ result = [clock |-> 0, at |-> 0]
  BY Zenon DEF Clk!Init
<1>2. SendTime = 0
  BY <1>1, ClkConstants DEF SendTime
<1>3. ClkTypes
  <2>1. c_up \in Seq(Response)
    BY <1>1
  <2>2. /\ c_now \in Nat /\ last_pass \in Nat /\ stats_send_time_high \in Nat
        /\ stats_send_time \in 0 .. ClockMod - 1 /\ last_clock \in Nat /\ ce_last_clock \in Nat
    BY <1>1, ClkConstants
  <2>3. connected \in BOOLEAN
    BY Zenon, <1>1
  <2> QED BY Zenon, <2>1, <2>2, <2>3 DEF ClkTypes
<1>4. StatsInTime
  BY <1>1, <1>2, ClkConstants DEF StatsInTime
<1>5. UnderWay
  <2>1. Len(c_up) = 0
    BY Zenon, <1>1
  <2>2. 1..Len(c_up) = {}
    BY <2>1
  <2> QED BY <2>1, <2>2 DEF UnderWay
<1>6. Sampled /\ Clk!ExtensionExact
  BY Zenon, <1>1 DEF Sampled, Clk!ExtensionExact
<1> QED BY Zenon, <1>3, <1>4, <1>5, <1>6 DEF ClkInv

\* Between two reports of statistics less than a cycle of the clock passes.
LEMMA UptimeKept ==
    ASSUME ClkTypes, StatsInTime
    PROVE  /\ SendTime \in Nat /\ c_now < SendTime + ClockMod
           /\ Clk!UptimeExact
<1>1. /\ SendTime \in Nat /\ SendTime = stats_send_time_high * ClockMod + stats_send_time
  BY ClkConstants DEF SendTime, ClkTypes
<1>2. SendTime <= c_now /\ c_now < SendTime + ClockMod
  <2> HIDE DEF SendTime
  <2> QED BY <1>1, ClkConstants DEF StatsInTime, ClkTypes
<1>3. c_now = (stats_send_time_high
                 + (IF c_now % ClockMod < stats_send_time THEN 1 ELSE 0)) * ClockMod
              + (c_now % ClockMod)
  BY Zenon, <1>1, <1>2, ClkConstants, HighPart DEF ClkTypes
<1> QED BY Zenon, <1>1, <1>2, <1>3 DEF Clk!UptimeExact, Clk!timer_read_time

\* stats_update() sends in time, and then counts the cycles of the clock.
LEMMA ClkStats == ClkTypes /\ StatsInTime /\ Clk!stats_update
                    => StatsInTime' /\ stats_send_time' \in 0 .. ClockMod - 1
                       /\ stats_send_time_high' \in Nat /\ last_pass' \in Nat
<1> SUFFICES ASSUME ClkTypes, StatsInTime, Clk!stats_update
             PROVE  StatsInTime' /\ stats_send_time' \in 0 .. ClockMod - 1
                    /\ stats_send_time_high' \in Nat /\ last_pass' \in Nat
  BY Zenon
<1> DEFINE t == SendTime
           n == c_now
<1>1. /\ t \in Nat /\ n \in Nat /\ t <= n /\ n <= t + SendTicks + PassTicks
      /\ stats_send_time_high \in Nat /\ stats_send_time \in 0 .. ClockMod - 1
  BY UptimeKept, ClkConstants DEF ClkTypes, StatsInTime
<1>2. last_pass' = n /\ c_now' = n
  BY Zenon DEF Clk!stats_update
<1>3. ((stats_send_time + SendTicks) % ClockMod) = (t + SendTicks) % ClockMod
  <2>1. t = ClockMod * stats_send_time_high + stats_send_time
    BY <1>1, ClkConstants DEF SendTime
  <2>2. t % ClockMod = stats_send_time
    BY Zenon, <1>1, <2>1, ClkConstants, ModUnique
  <2> HIDE DEF t
  <2> QED BY Zenon, <1>1, <2>2, ClkConstants, ClockAdd
<1>4. Clk!timer_is_before(Clk!timer_read_time, (stats_send_time + SendTicks) % ClockMod)
        <=> n < t + SendTicks
  <2> HIDE DEF t
  <2>1. t + SendTicks \in Nat /\ 2 * (n - (t + SendTicks)) < ClockMod
        /\ 2 * ((t + SendTicks) - n) < ClockMod
    BY <1>1, ClkConstants
  <2>2. (2 * (((n % ClockMod) - ((t + SendTicks) % ClockMod)) % ClockMod) >= ClockMod)
          <=> n < t + SendTicks
    BY Zenon, <1>1, <2>1, ClkConstants, ClockBefore
  <2> QED BY Zenon, <1>3, <2>2 DEF Clk!timer_is_before, Clk!timer_read_time
<1>5. CASE n < t + SendTicks
  <2>1. UNCHANGED <<stats_send_time, stats_send_time_high>>
    BY Zenon, <1>4, <1>5 DEF Clk!stats_update
  <2>2. SendTime' = t
    BY Zenon, <2>1 DEF SendTime
  <2> HIDE DEF t
  <2> QED BY <1>1, <1>2, <1>5, <2>1, <2>2, ClkConstants DEF StatsInTime
<1>6. CASE ~(n < t + SendTicks)
  <2>1. /\ stats_send_time_high' = Clk!HighAfter(n % ClockMod)
        /\ stats_send_time' = n % ClockMod
    BY Zenon, <1>4, <1>6 DEF Clk!stats_update, Clk!timer_read_time
  <2>2. n % ClockMod \in 0 .. ClockMod - 1
    BY <1>1, ClkConstants
  <2>3. stats_send_time_high' \in Nat
    BY <1>1, <2>1 DEF Clk!HighAfter
  <2>4. SendTime' = n
    <3>1. n = (stats_send_time_high + (IF n % ClockMod < stats_send_time THEN 1 ELSE 0))
                * ClockMod + (n % ClockMod)
      BY Zenon, UptimeKept DEF Clk!UptimeExact, Clk!timer_read_time
    <3> QED BY Zenon, <2>1, <3>1 DEF SendTime, Clk!HighAfter
  <2> HIDE DEF t
  <2> QED BY <1>1, <1>2, <2>1, <2>2, <2>3, <2>4, ClkConstants DEF StatsInTime
<1> QED BY Zenon, <1>5, <1>6

\* What the other steps of the micro-controller leave alone.
LEMMA StatsKept ==
    ASSUME StatsInTime, UNCHANGED <<c_now, stats_send_time, stats_send_time_high, last_pass>>
    PROVE  StatsInTime'
<1>1. SendTime' = SendTime
  BY Zenon DEF SendTime
<1> QED BY Zenon, <1>1 DEF StatsInTime

\* The types of answers.
LEMMA ResponseTypes ==
    ASSUME ClkTypes
    PROVE  /\ Len(c_up) \in Nat
           /\ \A k \in 1..Len(c_up) :
                /\ c_up[k] \in Response /\ c_up[k].high \in Nat /\ c_up[k].at \in Nat
                /\ c_up[k].kind \in {"uptime", "clock", "event"}
<1>1. c_up \in Seq(Response) /\ Len(c_up) \in Nat
  BY Zenon, SeqLen DEF ClkTypes
<1>2. \A k \in 1..Len(c_up) : c_up[k] \in Response
  BY Zenon, <1>1, SeqElement
<1> QED BY Zenon, <1>1, <1>2 DEF Response

\* A response is sent.
LEMMA ClkSend ==
    ASSUME ClkInv, NEW kind \in {"uptime", "clock", "event"}, NEW high \in Nat, NEW at \in Nat,
           Clk!Send(kind, high, at),
           c_now <= at + Offset, at <= c_now + Offset, kind # "event" => at = c_now,
           IF kind = "uptime"
           THEN ~connected /\ c_up = <<>> /\ high * ClockMod + (at % ClockMod) = at
           ELSE connected
    PROVE  ClkInv'
<1> DEFINE r == [kind |-> kind, high |-> high, clock |-> at % ClockMod, at |-> at]
<1>1. /\ c_up' = Append(c_up, r)
      /\ UNCHANGED <<c_now, stats_send_time, stats_send_time_high, last_pass, connected,
                     last_clock, ce_last_clock, result>>
  BY Zenon DEF Clk!Send, Clk!mcu
<1>2. r \in Response /\ r.kind = kind /\ r.high = high /\ r.clock = at % ClockMod /\ r.at = at
  BY ClkConstants DEF Response
<1> HIDE DEF r
<1>3. ClkTypes /\ StatsInTime /\ UnderWay /\ Sampled /\ Clk!ExtensionExact
  BY Zenon DEF ClkInv
<1>t. c_now \in Nat /\ last_clock \in Nat
  BY Zenon, <1>3 DEF ClkTypes
<1>4. c_up' \in Seq(Response) /\ Len(c_up') = Len(c_up) + 1
      /\ (\A k \in 1..Len(c_up) : c_up'[k] = c_up[k]) /\ c_up'[Len(c_up) + 1] = r
  BY <1>1, <1>2, <1>3, SeqAppend DEF ClkTypes
<1>5. ClkTypes'
  BY Zenon, <1>1, <1>3, <1>4 DEF ClkTypes
<1>6. StatsInTime'
  BY Zenon, <1>1, <1>3, StatsKept
<1>7. Sampled' /\ Clk!ExtensionExact'
  BY Zenon, <1>1, <1>3 DEF Sampled, Clk!ExtensionExact
<1>8. Len(c_up) \in Nat /\ \A k \in 1..(Len(c_up) + 1) : k \in 1..Len(c_up) \/ k = Len(c_up) + 1
  BY <1>3, ResponseTypes
<1>9. \A k \in 1..Len(c_up) : Travels(c_up[k])'
  <2>1. \A k \in 1..Len(c_up) : Travels(c_up[k]) /\ c_up'[k] = c_up[k]
    BY Zenon, <1>3, <1>4 DEF UnderWay
  <2> QED BY ZenonT(30), <1>1, <2>1 DEF Travels
<1>10. Travels(r)'
  <2>1. kind = "clock" => last_clock <= at
    BY Zenon, <1>3 DEF Sampled
  <2>2. c_now <= at + Gap + Offset /\ (kind # "event" => c_now <= at + Gap)
    BY <1>t, ClkConstants
  <2> QED BY <1>1, <1>2, <1>t, <2>1, <2>2, ClkConstants DEF Travels
<1>11. UnderWay'
  <2>1. (\A k \in 1..Len(c_up) : Travels(c_up[k]))'
    <3> SUFFICES ASSUME NEW k \in 1..Len(c_up') PROVE Travels(c_up[k])'
      BY Zenon
    <3>1. CASE k \in 1..Len(c_up)
      BY Zenon, <1>9, <3>1
    <3>2. CASE k = Len(c_up) + 1
      BY Zenon, <1>4, <1>10, <3>2 DEF Travels
    <3> QED BY Zenon, <1>4, <1>8, <3>1, <3>2
  <2>2. ASSUME NEW j \in 1..Len(c_up'), NEW k \in 1..Len(c_up'),
               j < k, c_up'[j].kind = "clock", c_up'[k].kind = "clock"
        PROVE  c_up'[j].at <= c_up'[k].at
    <3>1. j \in 1..Len(c_up) /\ c_up'[j] = c_up[j]
      BY <1>4, <1>8, <2>2
    <3>2. CASE k \in 1..Len(c_up)
      BY Zenon, <1>3, <1>4, <2>2, <3>1, <3>2 DEF UnderWay
    <3>3. CASE k = Len(c_up) + 1
      <4>1. c_up'[k].at = c_now
        BY ZenonT(30), <1>2, <1>4, <2>2, <3>3
      <4>2. c_up[j].at <= c_now
        BY Zenon, <1>3, <2>2, <3>1 DEF UnderWay, Travels
      <4> QED BY Zenon, <3>1, <4>1, <4>2
    <3> QED BY Zenon, <1>4, <1>8, <3>2, <3>3
  <2>3. ASSUME ~connected' PROVE Len(c_up') <= 1 /\ \A k \in 1..Len(c_up') : c_up'[k].kind = "uptime"
    <3>1. kind = "uptime" /\ c_up = <<>>
      BY Zenon, <1>1, <2>3
    <3>2. Len(c_up) = 0
      BY Zenon, <3>1
    <3>3. Len(c_up') = 1 /\ c_up'[1] = r
      BY <1>4, <3>2
    <3> QED BY <1>2, <3>1, <3>3
  <2> QED BY Zenon, <2>1, <2>2, <2>3 DEF UnderWay
<1> QED BY Zenon, <1>5, <1>6, <1>7, <1>11 DEF ClkInv

\* A response is taken from the wire.  What is left is later than the sample it may have
\* brought.
LEMMA ClkTake ==
    ASSUME ClkInv, c_up # <<>>, c_up' = Tail(c_up),
           UNCHANGED <<c_now, stats_send_time, stats_send_time_high, last_pass>>,
           last_clock' \in Nat, ce_last_clock' \in Nat, connected' \in BOOLEAN,
           \/ UNCHANGED <<last_clock, connected>>
           \/ c_up[1].kind # "event" /\ last_clock' = c_up[1].at /\ connected',
           Sampled', Clk!ExtensionExact'
    PROVE  ClkInv'
<1>1. ClkTypes /\ StatsInTime /\ UnderWay
  BY Zenon DEF ClkInv
<1>2. /\ Len(c_up) \in Nat \ {0} /\ c_up' \in Seq(Response) /\ Len(c_up') = Len(c_up) - 1
      /\ \A k \in 1..Len(c_up') : c_up'[k] = c_up[k + 1]
  <2>1. c_up \in Seq(Response)
    BY Zenon, <1>1 DEF ClkTypes
  <2> QED BY Zenon, <2>1, SeqEmpty, SeqHeadTail, SeqLen
<1>3. ClkTypes'
  BY Zenon, <1>1, <1>2 DEF ClkTypes
<1>4. StatsInTime'
  BY Zenon, <1>1, StatsKept
<1>5. \A k \in 1..Len(c_up') : k + 1 \in 1..Len(c_up) /\ 1 < k + 1 /\ 1 \in 1..Len(c_up)
  BY <1>2
<1>6. (\A k \in 1..Len(c_up) : Travels(c_up[k]))'
  <2> SUFFICES ASSUME NEW k \in 1..Len(c_up') PROVE Travels(c_up[k])'
    BY Zenon
  <2> DEFINE r == c_up[k + 1]
             f == c_up[1]
  <2>1. Travels(r) /\ Travels(f) /\ c_up'[k] = r
    BY Zenon, <1>1, <1>2, <1>5 DEF UnderWay
  <2>2. f.kind = "clock" /\ r.kind = "clock" => f.at <= r.at
    BY Zenon, <1>1, <1>5 DEF UnderWay
  <2>3. connected
    BY <1>1, <1>2 DEF UnderWay
  <2>4. f.kind \in {"uptime", "clock", "event"} /\ r.kind \in {"uptime", "clock", "event"}
    BY Zenon, <1>1, <1>5, ResponseTypes
  <2>5. f.kind # "uptime" /\ r.kind # "uptime"
    BY Zenon, <2>1, <2>3 DEF Travels
  <2>6. last_clock' = last_clock \/ (f.kind = "clock" /\ last_clock' = f.at)
    BY Zenon, <2>4, <2>5
  <2>7. r.kind = "clock" => last_clock' <= r.at
    BY Zenon, <2>1, <2>2, <2>6 DEF Travels
  <2> HIDE DEF r, f
  <2> QED BY Zenon, <2>1, <2>5, <2>7 DEF Travels
<1>7. UnderWay'
  <2>2. \A j, k \in 1..Len(c_up') :
          j < k /\ c_up'[j].kind = "clock" /\ c_up'[k].kind = "clock" => c_up'[j].at <= c_up'[k].at
    <3> SUFFICES ASSUME NEW j \in 1..Len(c_up'), NEW k \in 1..Len(c_up'), j < k,
                        c_up'[j].kind = "clock", c_up'[k].kind = "clock"
                 PROVE  c_up'[j].at <= c_up'[k].at
      BY Zenon
    <3>1. j + 1 \in 1..Len(c_up) /\ k + 1 \in 1..Len(c_up) /\ j + 1 < k + 1
      BY <1>2
    <3> QED BY ZenonT(30), <1>1, <1>2, <3>1 DEF UnderWay
  <2>3. ~connected' => Len(c_up') <= 1 /\ \A k \in 1..Len(c_up') : c_up'[k].kind = "uptime"
    BY <1>1, <1>2, <1>5 DEF UnderWay
  <2> QED BY Zenon, <1>6, <2>2, <2>3 DEF UnderWay
<1> QED BY Zenon, <1>3, <1>4, <1>7 DEF ClkInv

\* The front of what is under way.
LEMMA FrontTravels ==
    ASSUME ClkInv, c_up # <<>>
    PROVE  /\ Head(c_up) = c_up[1] /\ c_up[1] \in Response /\ c_up[1].high \in Nat /\ c_up[1].at \in Nat
           /\ Travels(c_up[1])
<1>1. c_up \in Seq(Response)
  BY Zenon DEF ClkInv, ClkTypes
<1>2. 1 \in 1..Len(c_up) /\ Head(c_up) = c_up[1]
  BY <1>1, FrontOfSeq, SeqHeadTail
<1> QED BY Zenon, <1>2, ResponseTypes DEF ClkInv, UnderWay

\* connect() takes the uptime for the first sample.
LEMMA ClkConnect == ClkInv /\ Clk!connect => ClkInv'
<1> SUFFICES ASSUME ClkInv, Clk!connect PROVE ClkInv'
  BY Zenon
<1>1. /\ c_up # <<>> /\ Head(c_up).kind = "uptime" /\ c_up' = Tail(c_up) /\ connected' = TRUE
      /\ last_clock' = Head(c_up).high * ClockMod + Head(c_up).clock
      /\ ce_last_clock' = last_clock' /\ result' = [clock |-> last_clock', at |-> Head(c_up).at]
      /\ UNCHANGED <<c_now, stats_send_time, stats_send_time_high, last_pass>>
  BY Zenon DEF Clk!connect, Clk!mcu
<1> DEFINE r == c_up[1]
<1>2. Head(c_up) = r /\ r.at \in Nat /\ Travels(r)
  BY Zenon, <1>1, FrontTravels
<1>3. last_clock' = r.at
  BY Zenon, <1>1, <1>2 DEF Travels
<1>4. Clk!ExtensionExact'
  BY Zenon, <1>1, <1>2, <1>3 DEF Clk!ExtensionExact
<1>5. Sampled'
  BY <1>1, <1>2, <1>3, ClkConstants DEF Sampled, Travels
<1>6. r.kind # "event"
  BY Zenon, <1>1, <1>2
<1> QED BY Zenon, <1>1, <1>2, <1>3, <1>4, <1>5, <1>6, ClkTake

\* _handle_clock() extends a sample from the one before it.
LEMMA ClkHandle == ClkInv /\ Clk!_handle_clock => ClkInv'
<1> SUFFICES ASSUME ClkInv, Clk!_handle_clock PROVE ClkInv'
  BY Zenon
<1>1. /\ c_up # <<>> /\ Head(c_up).kind = "clock" /\ c_up' = Tail(c_up)
      /\ last_clock' = Clk!Extended(Head(c_up).clock)
      /\ \/ ce_last_clock' = last_clock'
         \/ Head(c_up).at - ce_last_clock <= Refused /\ UNCHANGED ce_last_clock
      /\ result' = [clock |-> last_clock', at |-> Head(c_up).at]
      /\ UNCHANGED <<c_now, stats_send_time, stats_send_time_high, last_pass, connected>>
  BY Zenon DEF Clk!_handle_clock, Clk!mcu
<1> DEFINE r == c_up[1]
<1>2. Head(c_up) = r /\ r.at \in Nat /\ Travels(r) /\ r.kind = "clock"
  BY Zenon, <1>1, FrontTravels
<1>3. connected
  <2>1. 1 \in 1..Len(c_up)
    BY Zenon, <1>1, FrontOfSeq DEF ClkInv, ClkTypes
  <2> QED BY Zenon, <1>2, <2>1 DEF ClkInv, UnderWay
<1>t. c_now \in Nat /\ last_clock \in Nat /\ ce_last_clock \in Nat /\ connected \in BOOLEAN
  BY Zenon DEF ClkInv, ClkTypes
<1>4. /\ last_clock <= r.at /\ r.at <= c_now /\ c_now <= r.at + Gap
      /\ c_now <= last_clock + Gap /\ ce_last_clock <= last_clock
  BY Zenon, <1>2, <1>3 DEF Travels, ClkInv, Sampled
<1>5. r.at < last_clock + ClockMod
  BY <1>2, <1>t, <1>4, ClkConstants
<1>6. last_clock' = r.at
  <2>1. r.clock = r.at % ClockMod
    BY Zenon, <1>2 DEF Travels
  <2> DEFINE base == (last_clock - (last_clock % ClockMod)) + (r.at % ClockMod)
  <2>2. (IF base < last_clock THEN base + ClockMod ELSE base) = r.at
    BY Zenon, <1>2, <1>t, <1>4, <1>5, ClkConstants, ModRecover
  <2> QED BY Zenon, <1>1, <1>2, <2>1, <2>2 DEF Clk!Extended
<1>7. Clk!ExtensionExact'
  BY Zenon, <1>1, <1>2, <1>6 DEF Clk!ExtensionExact
<1>8. Sampled'
  BY <1>1, <1>2, <1>t, <1>4, <1>6, ClkConstants DEF Sampled
<1>9. ce_last_clock' \in Nat /\ last_clock' \in Nat /\ connected' \in BOOLEAN
  BY Zenon, <1>1, <1>2, <1>t, <1>6
<1> QED BY Zenon, <1>1, <1>2, <1>3, <1>6, <1>7, <1>8, <1>9, ClkTake

\* clock32_to_clock64() and clock_from_clock32() extend the clock of an event.
LEMMA ClkEvent == ClkInv /\ Clk!handle_event => ClkInv'
<1> SUFFICES ASSUME ClkInv, Clk!handle_event PROVE ClkInv'
  BY Zenon
<1>1. /\ c_up # <<>> /\ Head(c_up).kind = "event" /\ c_up' = Tail(c_up)
      /\ UNCHANGED <<c_now, stats_send_time, stats_send_time_high, last_pass, connected,
                     last_clock, ce_last_clock>>
  BY Zenon DEF Clk!handle_event, Clk!mcu
<1>2. PICK last \in {last_clock, ce_last_clock} :
        result' = [clock |-> Clk!FromClock32(last, Head(c_up).clock), at |-> Head(c_up).at]
  BY Zenon DEF Clk!handle_event
<1> DEFINE r == c_up[1]
<1>3. Head(c_up) = r /\ r.at \in Nat /\ Travels(r) /\ r.kind = "event"
  BY Zenon, <1>1, FrontTravels
<1>4. connected
  <2>1. 1 \in 1..Len(c_up)
    BY Zenon, <1>1, FrontOfSeq DEF ClkInv, ClkTypes
  <2> QED BY Zenon, <1>3, <2>1 DEF ClkInv, UnderWay
<1>t. /\ c_now \in Nat /\ last_clock \in Nat /\ ce_last_clock \in Nat /\ connected \in BOOLEAN
      /\ last \in Nat
  BY Zenon DEF ClkInv, ClkTypes
<1>5. last <= c_now /\ c_now <= last + Gap + Refused
  BY <1>4, <1>t, ClkConstants DEF ClkInv, Sampled
<1>6. r.clock = r.at % ClockMod /\ c_now <= r.at + Gap + Offset /\ r.at <= c_now + Offset
  BY Zenon, <1>3 DEF Travels
<1>7. 2 * (last - r.at) < ClockMod /\ 2 * (r.at - last) < ClockMod
  BY <1>3, <1>t, <1>5, <1>6, ClkConstants
<1>8. Clk!FromClock32(last, r.at % ClockMod) = r.at
  BY Zenon, <1>3, <1>t, <1>7, FromClock32Exact
<1>9. Clk!ExtensionExact'
  BY Zenon, <1>2, <1>3, <1>6, <1>8 DEF Clk!ExtensionExact
<1>10. Sampled'
  BY Zenon, <1>1 DEF ClkInv, Sampled
<1> QED BY Zenon, <1>1, <1>t, <1>9, <1>10, ClkTake

\* Time passes.
LEMMA ClkTick == ClkInv /\ Clk!Tick => ClkInv'
<1> SUFFICES ASSUME ClkInv, Clk!Tick PROVE ClkInv'
  BY Zenon
<1>1. /\ c_now' = c_now + 1 /\ c_now' - last_pass <= PassTicks
      /\ connected => c_now' - last_clock <= Gap
      /\ \A k \in 1..Len(c_up) : c_now' - c_up[k].at <= Gap
      /\ UNCHANGED <<stats_send_time, stats_send_time_high, last_pass, c_up, connected,
                     last_clock, ce_last_clock, result>>
  BY Zenon DEF Clk!Tick, Clk!mcu
<1>2. ClkTypes /\ StatsInTime /\ UnderWay /\ Sampled /\ Clk!ExtensionExact
  BY Zenon DEF ClkInv
<1>t. c_now \in Nat /\ c_now' \in Nat /\ last_pass \in Nat /\ last_clock \in Nat
  BY <1>1, <1>2 DEF ClkTypes
<1>3. ClkTypes'
  BY <1>1, <1>2 DEF ClkTypes
<1>4. StatsInTime'
  <2>1. SendTime' = SendTime /\ SendTime \in Nat
    BY Zenon, <1>1, <1>2, UptimeKept DEF SendTime
  <2> QED BY <1>1, <1>2, <1>t, <2>1, ClkConstants DEF StatsInTime
<1>5. Sampled' /\ Clk!ExtensionExact'
  BY <1>1, <1>2, <1>t, ClkConstants DEF Sampled, Clk!ExtensionExact
<1>6. UnderWay'
  <2>1. \A k \in 1..Len(c_up) : Travels(c_up[k])'
    <3> SUFFICES ASSUME NEW k \in 1..Len(c_up) PROVE Travels(c_up[k])'
      BY Zenon
    <3>1. Travels(c_up[k]) /\ c_up'[k] = c_up[k] /\ c_up[k].at \in Nat /\ c_now' - c_up[k].at <= Gap
      BY Zenon, <1>1, <1>2, ResponseTypes DEF UnderWay
    <3> DEFINE r == c_up[k]
    <3> HIDE DEF r
    <3>2. /\ r.clock = r.at % ClockMod /\ c_now <= r.at + Gap + Offset /\ r.at <= c_now + Offset
          /\ r.kind # "event" => r.at <= c_now /\ c_now <= r.at + Gap
          /\ r.kind = "uptime" => ~connected /\ r.high * ClockMod + r.clock = r.at
          /\ r.kind = "clock" => last_clock <= r.at
      BY Zenon, <3>1 DEF Travels, r
    <3>3. /\ c_now' <= r.at + Gap + Offset /\ r.at <= c_now' + Offset
          /\ r.kind # "event" => r.at <= c_now' /\ c_now' <= r.at + Gap
      <4>1. PICK a \in Nat, c \in Nat, d \in Nat, g \in Nat, o \in Nat :
                 a = r.at /\ c = c_now /\ d = c_now' /\ g = Gap /\ o = Offset
        BY Zenon, <1>1, <1>t, <3>1, ClkConstants DEF r
      <4>2. d = c + 1 /\ d - a <= g /\ c <= a + g + o /\ a <= c + o
        BY Zenon, <1>1, <1>t, <3>1, <3>2, <4>1 DEF r
      <4>3. r.kind # "event" => a <= c /\ c <= a + g
        BY Zenon, <3>2, <4>1
      <4>4. d <= a + g + o /\ a <= d + o /\ d <= a + g /\ (a <= c => a <= d)
        BY <4>2
      <4> QED BY Zenon, <4>1, <4>3, <4>4
    <3> QED BY Zenon, <1>1, <3>1, <3>2, <3>3 DEF Travels, r
  <2> QED BY Zenon, <1>1, <1>2, <2>1 DEF UnderWay
<1> QED BY Zenon, <1>3, <1>4, <1>5, <1>6 DEF ClkInv

\* Every step keeps the invariant.
LEMMA ClkStep == ClkInv /\ [Clk!Next]_(Clk!vars) => ClkInv'
<1> SUFFICES ASSUME ClkInv, [Clk!Next]_(Clk!vars) PROVE ClkInv'
  BY Zenon
<1>1. CASE Clk!stats_update
  <2>1. UNCHANGED <<c_now, c_up, connected, last_clock, ce_last_clock, result>>
    BY Zenon, <1>1 DEF Clk!stats_update
  <2>2. /\ StatsInTime' /\ stats_send_time' \in 0 .. ClockMod - 1
        /\ stats_send_time_high' \in Nat /\ last_pass' \in Nat
    BY Zenon, <1>1, ClkStats DEF ClkInv
  <2>3. ClkTypes'
    BY Zenon, <2>1, <2>2 DEF ClkInv, ClkTypes
  <2>4. UnderWay' /\ Sampled' /\ Clk!ExtensionExact'
    BY ZenonT(30), <2>1 DEF ClkInv, UnderWay, Travels, Sampled, Clk!ExtensionExact
  <2> QED BY Zenon, <2>2, <2>3, <2>4 DEF ClkInv
<1>2. CASE Clk!command_get_uptime
  <2> DEFINE high == stats_send_time_high
                       + (IF c_now % ClockMod < stats_send_time THEN 1 ELSE 0)
  <2>1. ~connected /\ c_up = <<>> /\ Clk!Send("uptime", high, c_now)
    BY Zenon, <1>2 DEF Clk!command_get_uptime, Clk!timer_read_time
  <2>2. high \in Nat /\ c_now \in Nat
    BY DEF ClkInv, ClkTypes
  <2>3. high * ClockMod + (c_now % ClockMod) = c_now
    BY Zenon, UptimeKept DEF ClkInv, Clk!UptimeExact, Clk!timer_read_time
  <2> HIDE DEF high
  <2> QED BY <2>1, <2>2, <2>3, ClkConstants, ClkSend
<1>3. CASE Clk!command_get_clock
  <2>1. connected /\ Clk!Send("clock", 0, c_now) /\ c_now \in Nat
    BY Zenon, <1>3 DEF Clk!command_get_clock, ClkInv, ClkTypes
  <2> QED BY <2>1, ClkConstants, ClkSend
<1>4. CASE Clk!event_response
  <2>1. PICK at \in (c_now - Offset) .. (c_now + Offset) : at >= 0 /\ Clk!Send("event", 0, at)
    BY Zenon, <1>4 DEF Clk!event_response
  <2>2. connected /\ c_now \in Nat
    BY Zenon, <1>4 DEF Clk!event_response, ClkInv, ClkTypes
  <2>3. at \in Nat /\ c_now <= at + Offset /\ at <= c_now + Offset
    BY <2>1, <2>2, ClkConstants
  <2> QED BY Zenon, <2>1, <2>2, <2>3, ClkSend
<1>5. CASE Clk!lose
  <2>1. /\ c_up # <<>> /\ c_up' = Tail(c_up)
        /\ UNCHANGED <<c_now, stats_send_time, stats_send_time_high, last_pass, connected,
                       last_clock, ce_last_clock, result>>
    BY Zenon, <1>5 DEF Clk!lose, Clk!mcu
  <2>2. last_clock \in Nat /\ ce_last_clock \in Nat /\ connected \in BOOLEAN
    BY Zenon DEF ClkInv, ClkTypes
  <2>3. Sampled' /\ Clk!ExtensionExact'
    BY Zenon, <2>1 DEF ClkInv, Sampled, Clk!ExtensionExact
  <2> QED BY Zenon, <2>1, <2>2, <2>3, ClkTake
<1>6. CASE UNCHANGED Clk!vars
  <2>1. UNCHANGED clockVars
    BY Zenon, <1>6 DEF Clk!vars, clockVars
  <2>2. SendTime' = SendTime
    BY Zenon, <2>1 DEF clockVars, SendTime
  <2> QED BY Zenon, <2>1, <2>2 DEF clockVars, ClkInv, ClkTypes, StatsInTime, UnderWay, Travels,
                            Sampled, Clk!ExtensionExact
<1> QED BY Zenon, <1>1, <1>2, <1>3, <1>4, <1>5, <1>6, ClkConnect, ClkHandle, ClkEvent, ClkTick
        DEF Clk!Next

\* The micro-controller can tell its uptime at any moment and every clock the host extends
\* is the time it was taken at, for every length of the clock, delay and loss: statistics
\* are sent, and clocks are sampled, at least twice in every cycle of the clock.
THEOREM ClocksSafe == Clk!Spec => []ClocksExact
<1>1. ClkInv => ClocksExact
  BY Zenon, UptimeKept DEF ClkInv, ClocksExact
<1> QED BY <1>1, ClkInit, ClkStep, PTL DEF Clk!Spec

-----------------------------------------------------------------------------
\* The first head.

\* The list of limits has a place for the first head and the bed, and every limit
\* is that of an axis that is not homed or the range of its rail.
LimitsOf(n) ==
    /\ limits \in [1..n -> Int \X Int] /\ Len(limits) = n
    /\ \A i \in 1..n : limits[i] = Heads!NotHomed \/ limits[i] = Heads!get_range(i)

\* The inductive invariant: an axis with the range of its rail is referenced.
HeadsInv ==
    /\ LimitsOf(5) \/ LimitsOf(3)
    /\ \A i \in 1..3 : limits[i] = Heads!get_range(i) => i \in referenced
    /\ pos \in [Heads!Axes -> Int]
    /\ todo \subseteq Heads!Axes

\* A place within the limits of an axis is within the range of its rail, and the axis
\* is referenced.
LEMMA WithinLimits ==
    ASSUME Heads!TwoHeadsAssumption, HeadsInv, NEW c \in Int, NEW i \in 1..3, ~Heads!Outside(c, limits[i])
    PROVE  i \in referenced /\ c \in Heads!position_min .. Heads!position_max[i]
<1>1. Heads!position_max[i] \in Int
    BY DEF Heads!TwoHeadsAssumption, Heads!Axes
<1>2. limits[i] = Heads!NotHomed \/ limits[i] = Heads!get_range(i)
    BY DEF HeadsInv, LimitsOf
<1>3. limits[i] # Heads!NotHomed
    BY DEF Heads!Outside, Heads!NotHomed
<1>4. limits[i] = Heads!get_range(i)
    BY Zenon, <1>2, <1>3
<1> QED
    BY <1>1, <1>4 DEF HeadsInv, Heads!Outside, Heads!get_range, Heads!position_min

\* Turning the motors off leaves three limits, none of them a range.
LEMMA MotorsOffInv ==
    ASSUME Heads!MotorsOff
    PROVE  LimitsOf(3)' /\ \A i \in 1..3 : limits'[i] # Heads!get_range(i)
<1>1. limits' = [i \in 1..3 |-> Heads!NotHomed] /\ Heads!NotHomed \in Int \X Int
    BY DEF Heads!MotorsOff, Heads!NotHomed
<1>2. limits' \in [1..3 -> Int \X Int] /\ Len(limits') = 3 /\ \A i \in 1..3 : limits'[i] = Heads!NotHomed
    BY <1>1
<1>3. \A i \in 1..3 : Heads!NotHomed # Heads!get_range(i)
    BY DEF Heads!NotHomed, Heads!get_range, Heads!position_min
<1> QED
    BY Zenon, <1>2, <1>3 DEF LimitsOf

\* The invariant holds at start.
LEMMA HeadsInit == Heads!Init => HeadsInv
<1> SUFFICES ASSUME Heads!Init PROVE HeadsInv
    BY Zenon
<1>1. limits \in [1..5 -> Int \X Int] /\ Len(limits) = 5 /\ \A i \in 1..5 : limits[i] = Heads!NotHomed
    BY DEF Heads!Init, Heads!NotHomed, Heads!Axes
<1>2. \A i \in 1..3 : Heads!NotHomed # Heads!get_range(i)
    BY DEF Heads!NotHomed, Heads!get_range, Heads!position_min
<1> QED
    BY <1>1, <1>2 DEF HeadsInv, LimitsOf, Heads!Init

\* home_rails() gives the axis its range and makes it referenced.
LEMMA HomeRailsInv ==
    ASSUME Heads!TwoHeadsAssumption, HeadsInv, Heads!home_rails
    PROVE  HeadsInv'
<1>1. PICK a :
          /\ a \in 1..Len(limits) /\ limits' = [limits EXCEPT ![a] = Heads!get_range(a)]
          /\ referenced' = referenced \cup {a}
    BY Zenon DEF Heads!home_rails
<1>2. a \in 1..5
    <2>1. Len(limits) \in {3, 5}
        BY Zenon DEF HeadsInv, LimitsOf
    <2> QED
        BY <1>1, <2>1
<1>r. Heads!get_range(a) \in Int \X Int
    <2>1. Heads!position_max[a] \in Int
        BY <1>2 DEF Heads!TwoHeadsAssumption, Heads!Axes
    <2> QED
        BY <2>1 DEF Heads!get_range, Heads!position_min
<1>3. ASSUME NEW n \in {3, 5}, LimitsOf(n)
      PROVE  LimitsOf(n)'
    <2>1. limits \in [1..n -> Int \X Int] /\ n \in Nat /\ a \in 1..n
        BY <1>1, <1>3 DEF LimitsOf
    <2>2. limits' \in [1..n -> Int \X Int]
        BY Zenon, <1>1, <1>r, <2>1
    <2>3. Len(limits') = n
        BY Zenon, <2>1, <2>2, FunctionIsSeq
    <2>4. \A i \in 1..n : limits'[i] = Heads!NotHomed \/ limits'[i] = Heads!get_range(i)
        BY Zenon, <1>1, <1>3, <2>1 DEF LimitsOf
    <2> QED
        BY Zenon, <2>2, <2>3, <2>4 DEF LimitsOf
<1>4. LimitsOf(5)' \/ LimitsOf(3)'
    BY Zenon, <1>3 DEF HeadsInv
<1>5. \A i \in 1..3 : limits'[i] = Heads!get_range(i) => i \in referenced'
    <2> SUFFICES ASSUME NEW i \in 1..3, limits'[i] = Heads!get_range(i), i # a PROVE i \in referenced
        BY Zenon, <1>1
    <2>1. limits'[i] = limits[i]
        BY <1>1 DEF HeadsInv, LimitsOf
    <2> QED
        BY Zenon, <2>1 DEF HeadsInv
<1>6. pos' \in [Heads!Axes -> Int] /\ todo' \subseteq Heads!Axes
    <2>0. PICK c \in Heads!Coords : \E b : pos' = [pos EXCEPT ![b] = c]
        BY Zenon DEF Heads!home_rails
    <2>1. PICK b : pos' = [pos EXCEPT ![b] = c]
        BY Zenon, <2>0
    <2>2. c \in Int
        BY DEF Heads!TwoHeadsAssumption, Heads!Coords
    <2>3. todo' \subseteq todo
        BY Zenon DEF Heads!home_rails
    <2> QED
        BY Zenon, <2>1, <2>2, <2>3 DEF HeadsInv
<1> QED
    BY Zenon, <1>4, <1>5, <1>6 DEF HeadsInv

\* Every command keeps it.
LEMMA HeadsStep ==
    ASSUME Heads!TwoHeadsAssumption
    PROVE  HeadsInv /\ [Heads!Next]_(Heads!vars) => HeadsInv'
<1> SUFFICES ASSUME HeadsInv, [Heads!Next]_(Heads!vars) PROVE HeadsInv'
    BY Zenon
<1>1. ASSUME NEW newpos \in [Heads!Axes -> Heads!Coords], Heads!cmd_G1(newpos) PROVE HeadsInv'
    <2>1. pos' \in [Heads!Axes -> Int] /\ UNCHANGED <<limits, todo, referenced>>
        BY <1>1 DEF Heads!cmd_G1, HeadsInv, Heads!Coords
    <2> QED
        BY Zenon, <2>1 DEF HeadsInv, LimitsOf
<1>2. ASSUME NEW axes \in SUBSET Heads!Axes \ {{}}, Heads!cmd_G28(axes) PROVE HeadsInv'
    BY Zenon, <1>2 DEF Heads!cmd_G28, HeadsInv, LimitsOf
<1>3. CASE Heads!cmd_M18
    <2>1. Heads!MotorsOff /\ UNCHANGED <<pos, todo>>
        BY Zenon, <1>3 DEF Heads!cmd_M18
    <2> QED
        BY Zenon, <2>1, MotorsOffInv DEF HeadsInv
<1>4. CASE Heads!home_rails
    BY Zenon, <1>4, HomeRailsInv
<1>5. CASE Heads!home_rails_index_error
    BY Zenon, <1>5 DEF Heads!home_rails_index_error, HeadsInv, LimitsOf
<1>6. CASE Heads!home_rails_error
    <2>0. PICK c \in Heads!Coords : \E b : pos' = [pos EXCEPT ![b] = c]
        BY Zenon, <1>6 DEF Heads!home_rails_error
    <2>1. PICK b : pos' = [pos EXCEPT ![b] = c]
        BY Zenon, <2>0
    <2>2. c \in Int
        BY DEF Heads!TwoHeadsAssumption, Heads!Coords
    <2>3. pos' \in [Heads!Axes -> Int]
        BY Zenon, <2>1, <2>2 DEF HeadsInv
    <2>4. Heads!MotorsOff /\ todo' = {}
        BY Zenon, <1>6 DEF Heads!home_rails_error, Heads!AfterError
    <2> QED
        BY Zenon, <2>3, <2>4, MotorsOffInv DEF HeadsInv
<1>7. CASE Heads!home_done
    BY Zenon, <1>7 DEF Heads!home_done, HeadsInv, LimitsOf
<1>8. CASE UNCHANGED Heads!vars
    BY Zenon, <1>8 DEF Heads!vars, HeadsInv, LimitsOf
<1> QED
    BY Zenon, <1>1, <1>2, <1>3, <1>4, <1>5, <1>6, <1>7, <1>8 DEF Heads!Next

\* check_move() accepts a move only to places within the limits of the axes of the
\* first head and of the bed that it moves.
LEMMA CheckedMove ==
    ASSUME Heads!TwoHeadsAssumption, HeadsInv, NEW newpos \in [Heads!Axes -> Heads!Coords], Heads!check_move(newpos) = "ok",
           NEW i \in 1..3, newpos[i] # pos[i]
    PROVE  ~Heads!Outside(newpos[i], limits[i])
<1>1. CASE ~Heads!NeedCheck(newpos)
    BY <1>1 DEF Heads!NeedCheck
<1>2. CASE Heads!NeedCheck(newpos)
    <2>1. Heads!_check_endstops(newpos) = "ok"
        BY Zenon, <1>2 DEF Heads!check_move
    <2>2. \A j \in Heads!Axes : ~Heads!Refuses(j, newpos)
        BY Zenon, <2>1 DEF Heads!_check_endstops
    <2>3. ~Heads!Refuses(i, newpos)
        BY <2>2 DEF Heads!Axes
    <2> QED
        BY Zenon, <2>3 DEF Heads!Refuses
<1> QED
    BY Zenon, <1>1, <1>2

\* A move of the first head or of the bed that check_move() accepts is one of axes
\* homed since the motors were last off, to places between position_min and
\* position_max, for every range of the axes.
THEOREM FirstHeadSafe == Heads!Spec => FirstHeadVerified
<1> Heads!TwoHeadsAssumption
    BY Zenon, HostPartsAssumption
<1>1. HeadsInv /\ [Heads!Next]_(Heads!vars) => [\A i \in 1..3 : Heads!Accepted(i) => Heads!Verified(i)]_(Heads!vars)
    <2> SUFFICES ASSUME HeadsInv, [Heads!Next]_(Heads!vars), NEW i \in 1..3, Heads!Accepted(i)
                 PROVE  Heads!Verified(i)
        BY Zenon
    <2>1. PICK newpos \in [Heads!Axes -> Heads!Coords] : Heads!cmd_G1(newpos)
        BY Zenon DEF Heads!Next, Heads!vars, Heads!Accepted, Heads!cmd_G28, Heads!cmd_M18, Heads!home_rails, Heads!home_rails_index_error,
               Heads!home_rails_error, Heads!home_done
    <2>2. Heads!check_move(newpos) = "ok" /\ pos' = newpos
        BY Zenon, <2>1 DEF Heads!cmd_G1, Heads!Accepted
    <2>3. ~Heads!Outside(newpos[i], limits[i]) /\ newpos[i] \in Int
        BY <2>2, CheckedMove DEF Heads!Accepted, Heads!Coords, Heads!Axes
    <2> QED
        BY Zenon, <2>2, <2>3, WithinLimits DEF Heads!Verified
<1>2. HeadsInv /\ [Heads!Next]_(Heads!vars) => HeadsInv'
    BY Zenon, HeadsStep
<1> QED
    BY <1>1, <1>2, HeadsInit, PTL DEF Heads!Spec, Heads!FirstHeadVerified, FirstHeadVerified
=============================================================================
