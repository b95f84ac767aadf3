-------------------------------- MODULE Trsync ------------------------------
(***************************************************************************)
(* Stopping the steppers of several micro-controllers together: the trsync *)
(* objects of src/trsync.c and the dispatcher of                           *)
(* klippy/chelper/trdispatch.c, which runs in the threads of the serial    *)
(* links.  The end stop, the host's threads and the delays of the links    *)
(* are free.  Links deliver commands in order and may lose reports (see    *)
(* SerialLink).  All clocks are one clock: their synchronisation is not    *)
(* modelled.                                                               *)
(***************************************************************************)
EXTENDS Integers, Sequences, TLC

CONSTANTS
    Mcus,       \* the micro-controllers that have steppers of the move
    Expire,     \* expire_ticks: 25 ms (250 ms for one micro-controller) in the code
    Period,     \* report_ticks: 0.4 of it
    MinExtend,  \* min_extend_ticks: 0.32 of it
    MaxNow,     \* bound of the model: when time stops
    Cap         \* bound of the model: reports, and commands, under way on a link

VARIABLES
    now,           \* the clock
    ts,            \* the trsync of each micro-controller
    moving,        \* is the stepper stepping?
    down, up,      \* commands and reports under way
    td,            \* can_trigger of struct trdispatch
    last_status,   \* last_status_clock
    expire_clock,  \* expire_clock
    first          \* history: when a trsync triggered first

mcuVars == <<ts, moving, first>>
tdVars == <<td, last_status, expire_clock>>
vars == <<now, mcuVars, tdVars, down, up>>

ASSUME TrsyncAssumption == {Expire, Period, MinExtend} \subseteq Nat \ {0}

Never == -1
Due(t) == t # Never /\ t <= now

TimeoutCmd(at) == [c |-> "timeout", at |-> at]
TriggerCmd == [c |-> "trigger", at |-> Never]
Report(can, clock) == [can |-> can, clock |-> clock]
Command == [c : {"timeout", "trigger"}, at : Int]
ReportMsg == [can : BOOLEAN, clock : Int]

Trsync == [can : BOOLEAN, report : BOOLEAN, report_time : Int, expire_time : Int]

\* The move starts: MCU_trsync.start() of each micro-controller was executed well
\* before the time its commands name, and trdispatch_start().
Init ==
    /\ now = 0
    /\ ts = [m \in Mcus |-> [can |-> TRUE, report |-> FALSE,
                             report_time |-> 0, expire_time |-> Expire]]
    /\ moving = [m \in Mcus |-> TRUE]
    /\ down = [m \in Mcus |-> <<>>] /\ up = [m \in Mcus |-> <<>>]
    /\ td = TRUE
    /\ last_status = [m \in Mcus |-> 0]
    /\ expire_clock = [m \in Mcus |-> Expire]
    /\ first = Never

-----------------------------------------------------------------------------
\* trsync_do_trigger(): the trsync afterwards ...
do_trigger(t) == IF t.can THEN [t EXCEPT !.can = FALSE, !.report = TRUE] ELSE t

\* ... and its signals: the stepper stops.
Signalled(m) ==
    /\ moving' = [moving EXCEPT ![m] = @ /\ ~ts[m].can]
    /\ first' = IF ts[m].can /\ first = Never THEN now ELSE first

\* trsync_expire_event()
trsync_expire_event(m) ==
    /\ Due(ts[m].expire_time)
    /\ ts' = [ts EXCEPT ![m] = [do_trigger(@) EXCEPT !.expire_time = Never]]
    /\ Signalled(m)
    /\ UNCHANGED <<now, down, up, tdVars>>

\* trsync_report_event()
trsync_report_event(m) ==
    /\ Due(ts[m].report_time)
    /\ ts' = [ts EXCEPT ![m].report = TRUE, ![m].report_time = @ + Period]
    /\ UNCHANGED <<now, moving, first, down, up, tdVars>>

\* trsync_do_trigger() of the end stop
endstop_trigger(m) ==
    /\ ts[m].can
    /\ ts' = [ts EXCEPT ![m] = do_trigger(@)]
    /\ Signalled(m)
    /\ UNCHANGED <<now, down, up, tdVars>>

\* trsync_task(): the clock is read before interrupts are disabled to read the
\* state, so that it may be older.  The host's estimate of it may go back, too.
trsync_task(m) ==
    /\ ts[m].report
    /\ Len(up[m]) < Cap
    /\ ts' = [ts EXCEPT ![m].report = FALSE]
    /\ \E clock \in {now - 1, now} :
          /\ clock >= 0
          /\ up' = [up EXCEPT ![m] = Append(@, Report(ts[m].can, clock))]
    /\ UNCHANGED <<now, moving, first, down, tdVars>>

Execute(m, c) ==
    /\ down[m] # <<>> /\ Head(down[m]).c = c
    /\ down' = [down EXCEPT ![m] = Tail(@)]
    /\ UNCHANGED <<now, tdVars>>

\* Mutant: the timeout is set although the trsync has triggered.
TimeoutSet_Always(t) == TRUE

\* command_trsync_set_timeout() does nothing after the trigger.
TimeoutSet(t) == t.can

command_trsync_set_timeout(m) ==
    /\ Execute(m, "timeout")
    /\ ts' = [ts EXCEPT ![m].expire_time = IF TimeoutSet(ts[m]) THEN Head(down[m]).at ELSE @]
    /\ UNCHANGED <<moving, first, up>>

\* command_trsync_trigger()
command_trsync_trigger(m) ==
    /\ Execute(m, "trigger")
    /\ ts' = [ts EXCEPT ![m] = [can |-> FALSE, report |-> FALSE,
                                report_time |-> Never, expire_time |-> Never]]
    /\ Signalled(m)
    /\ up' = [up EXCEPT ![m] = Append(@, Report(FALSE, 0))]

-----------------------------------------------------------------------------
\* handle_trsync_state(), when a trigger or a timeout is reported: all are told.
DispatchTrigger ==
    /\ td' = FALSE
    /\ down' = [k \in Mcus |-> Append(down[k], TriggerCmd)]
    /\ UNCHANGED <<last_status, expire_clock>>

\* Mutant: the micro-controller's own report extends its timeout.
StatusOfOthers_Own(k, status) == status[k]

\* handle_trsync_state() gives the micro-controller with the oldest status
\* next_min_time and every other one min_time: the oldest status among the others,
\* its own if there is no other.
StatusOfOthers(k, status) ==
    LET others == IF Mcus = {k} THEN Mcus ELSE Mcus \ {k}
        oldest == CHOOSE m \in others : \A n \in others : status[m] <= status[n]
    IN  status[oldest]

\* Is the new timeout worth a message?
Extends(expire, old) == expire - old >= MinExtend

\* handle_trsync_state(), when m is still working: timeouts are extended.
DispatchStatus(m, clock) ==
    LET status == [last_status EXCEPT ![m] = clock]
        expire(k) == StatusOfOthers(k, status) + Expire
        extend(k) == Extends(expire(k), expire_clock[k])
    IN  /\ last_status' = status
        /\ expire_clock' = [k \in Mcus |-> IF extend(k) THEN expire(k) ELSE expire_clock[k]]
        /\ down' = [k \in Mcus |-> IF extend(k) THEN Append(down[k], TimeoutCmd(expire(k)))
                                                ELSE down[k]]
        /\ UNCHANGED td

\* A report arrives at the host: handle_trsync_state()
handle_trsync_state(m) ==
    /\ up[m] # <<>>
    /\ \A k \in Mcus : Len(down[k]) < Cap
    /\ up' = [up EXCEPT ![m] = Tail(@)]
    /\ \/ td /\ Head(up[m]).can /\ DispatchStatus(m, Head(up[m]).clock)
       \/ td /\ ~Head(up[m]).can /\ DispatchTrigger
       \/ ~td /\ UNCHANGED <<down, tdVars>>
    /\ UNCHANGED <<now, mcuVars>>

\* A report is damaged on its way.
lose(m) ==
    /\ up[m] # <<>>
    /\ up' = [up EXCEPT ![m] = Tail(@)]
    /\ UNCHANGED <<now, mcuVars, down, tdVars>>

\* The Python thread sends a trsync_trigger: MCU_trsync._handle_trsync_state() when
\* the end of the move has passed, or stop().  Bound of the model: not twice in a row.
send_trigger(m) ==
    /\ down[m] = <<>> /\ ts[m].report_time # Never
    /\ down' = [down EXCEPT ![m] = Append(@, TriggerCmd)]
    /\ UNCHANGED <<now, mcuVars, up, tdVars>>

\* Time passes.  Timers are run in time.  Bound of the model: until all have stopped.
Tick ==
    /\ now < MaxNow
    /\ \E m \in Mcus : moving[m]
    /\ \A m \in Mcus : ~Due(ts[m].report_time) /\ ~Due(ts[m].expire_time)
    /\ now' = now + 1
    /\ UNCHANGED <<mcuVars, down, up, tdVars>>

Next ==
    \/ Tick
    \/ \E m \in Mcus :
          \/ trsync_expire_event(m) \/ trsync_report_event(m) \/ endstop_trigger(m)
          \/ trsync_task(m)
          \/ command_trsync_set_timeout(m) \/ command_trsync_trigger(m)
          \/ handle_trsync_state(m) \/ lose(m) \/ send_trigger(m)

Spec == Init /\ [][Next]_vars

Symmetry == Permutations(Mcus)

-----------------------------------------------------------------------------
TypeOK ==
    /\ now \in Nat /\ first \in Int
    /\ ts \in [Mcus -> Trsync]
    /\ moving \in [Mcus -> BOOLEAN]
    /\ down \in [Mcus -> Seq(Command)] /\ up \in [Mcus -> Seq(ReportMsg)]
    /\ td \in BOOLEAN
    /\ last_status \in [Mcus -> Int] /\ expire_clock \in [Mcus -> Int]

\* The steppers of all micro-controllers stop within the expire time of the first
\* trigger (or timeout), however slow the links are and whatever they lose.
StopsInTime ==
    \A m \in Mcus : moving[m] /\ first # Never => now <= first + Expire

\* trsync_set_timeout never names a time in the past while the trsync can still
\* trigger: sched_add_timer() would shut the micro-controller down ("Timer too
\* close").
NeverTooClose ==
    \A m \in Mcus :
        down[m] # <<>> /\ Head(down[m]).c = "timeout" /\ ts[m].can => Head(down[m]).at >= now

\* A timeout the host sent before it knew of the trigger does not start a timer
\* again once trsync_trigger has deleted both.
NotRearmed ==
    \A m \in Mcus : ts[m].report_time = Never => ts[m].expire_time = Never

\* A trsync_set_timeout that comes late does no harm: it neither names a time in the
\* past nor starts a timer after the trigger.
TimeoutsSafe == NeverTooClose /\ NotRearmed
=============================================================================
