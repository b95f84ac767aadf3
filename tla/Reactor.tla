-------------------------------- MODULE Reactor -----------------------------
(***************************************************************************)
(* The reactor of klippy/reactor.py: timers, greenlets that pause in the   *)
(* middle of a callback, mutexes, completions and requests from other      *)
(* threads.  The code between two pauses is one step, since greenlets do   *)
(* not preempt each other.  Times are "now" (due), "later" and "never".    *)
(*                                                                         *)
(* Each user is a callback that takes the mutex, may sleep while it holds  *)
(* it, releases it and completes; then it waits for another user, if it    *)
(* has one to wait for.                                                    *)
(***************************************************************************)
EXTENDS Naturals, Sequences, SequencesExt

CONSTANTS
    Users,     \* callbacks: 1..n
    Greenlets, \* greenlets: numbers above n, as many as are needed
    Waits,     \* users that wait for the completion of another one at the end
    Awaited    \* whose completion

ReactorAssumption ==
    /\ Users \cap Greenlets = {} /\ Greenlets # {}
    /\ Awaited \in Users /\ Waits \subseteq Users \ {Awaited}

VARIABLES
    wake,          \* waketime of the timer of each callback and of each greenlet
    timers,        \* _timers
    next_timer,    \* _next_timer
    phase,         \* the dispatch loop: "loop", "scan", "poll", "drain"
    scan,          \* what _check_timers() still has to look at
    g_dispatch,    \* _g_dispatch
    cache,         \* _greenlets
    fresh,         \* greenlets that do not exist yet
    runs,          \* the user whose callback a paused greenlet is in: <<>> or <<u>>
    pc,            \* where each user is
    is_locked, next_pending, queue,  \* ReactorMutex
    waiting,       \* ReactorCompletion of each user: the greenlets that wait
    thread,        \* the thread that requests each user: "idle", "put" or "done"
    async_queue, pipe   \* requests, and is the pipe readable?

reactorVars == <<wake, timers, next_timer, phase, scan, g_dispatch, cache, fresh, runs>>
mutexVars == <<is_locked, next_pending, queue>>
asyncVars == <<thread, async_queue, pipe>>
vars == <<reactorVars, pc, mutexVars, waiting, asyncVars>>

NewGreenlet(gs) == CHOOSE g \in gs : TRUE

Init ==
    /\ wake = [t \in Users \cup Greenlets |-> "never"]
    /\ timers = <<>>
    /\ next_timer = "never"
    /\ phase = "loop" /\ scan = <<>>
    /\ g_dispatch = NewGreenlet(Greenlets) /\ fresh = Greenlets \ {g_dispatch}
    /\ cache = <<>>
    /\ runs = [g \in Greenlets |-> <<>>]
    /\ pc = [u \in Users |-> "new"]
    /\ is_locked = FALSE /\ next_pending = FALSE /\ queue = <<>>
    /\ waiting = [u \in Users |-> <<>>]
    /\ async_queue = <<>> /\ pipe = FALSE /\ thread = [u \in Users |-> "idle"]

Earlier(t1, t2) ==
    IF "now" \in {t1, t2} THEN "now" ELSE IF "later" \in {t1, t2} THEN "later" ELSE "never"

\* Timers woken with update_timer(t, NOW): all of ts
Woken(w, ts) == [t \in DOMAIN w |-> IF t \in ts THEN "now" ELSE w[t]]

-----------------------------------------------------------------------------
\* What a user does until it pauses or returns, as a record: the mutex, the waiting
\* lists, where the user is, the timers it wakes, and the time it pauses to (<<>>
\* when it returns).
Now(u) == [is_locked |-> is_locked, next_pending |-> next_pending, queue |-> queue,
           waiting |-> waiting, pc |-> pc[u], woken |-> {}, pause |-> <<>>]

\* ReactorCompletion.wait()
Wait(s, u, g) ==
    IF u \in Waits /\ pc[Awaited] \notin {"waiting", "done"}
    THEN [s EXCEPT !.waiting[Awaited] = Append(@, g), !.pc = "waiting", !.pause = <<"never">>]
    ELSE [s EXCEPT !.pc = "done"]

\* ReactorMutex.__exit__(): the mutex stays locked if it is handed over.
Exit(s) ==
    IF s.queue = <<>> THEN [s EXCEPT !.is_locked = FALSE]
    ELSE [s EXCEPT !.next_pending = TRUE, !.woken = {Head(s.queue)}]

\* __exit__(), and complete(), which wakes all who wait
Release(s, u, g) ==
    LET e == Exit(s)
    IN  Wait([e EXCEPT !.woken = @ \cup ToSet(e.waiting[u])], u, g)

\* The user holds the mutex: it may sleep.
Critical(s, u, g, nap) ==
    IF nap THEN [s EXCEPT !.pc = "critical", !.pause = <<"later">>] ELSE Release(s, u, g)

\* ReactorMutex.__enter__() succeeds at once.
Free == ~is_locked

\* ReactorMutex.__enter__()
Enter(s, u, g, nap) ==
    IF Free THEN Critical([s EXCEPT !.is_locked = TRUE], u, g, nap)
    ELSE [s EXCEPT !.queue = Append(@, g), !.pc = "queued", !.pause = <<"never">>]

\* __enter__() after a pause
EnterAgain(s, u, g, nap) ==
    IF next_pending /\ Head(queue) = g
    THEN Critical([s EXCEPT !.next_pending = FALSE, !.queue = Tail(@)], u, g, nap)
    ELSE [s EXCEPT !.pause = <<"never">>]

\* wait() after a pause
Waited(s, u, g) ==
    [s EXCEPT !.waiting[Awaited] = SelectSeq(@, LAMBDA h : h # g), !.pc = "done"]

Run(u, g, nap) ==
    CASE pc[u] = "new"      -> Enter(Now(u), u, g, nap)
      [] pc[u] = "queued"   -> EnterAgain(Now(u), u, g, nap)
      [] pc[u] = "critical" -> Release(Now(u), u, g)
      [] pc[u] = "waiting"  -> Waited(Now(u), u, g)

Apply(u, s) ==
    /\ is_locked' = s.is_locked /\ next_pending' = s.next_pending /\ queue' = s.queue
    /\ waiting' = s.waiting
    /\ pc' = [pc EXCEPT ![u] = s.pc]

-----------------------------------------------------------------------------
\* _check_timers() starts to look at all timers, if one is due.
check_timers ==
    /\ phase = "loop" /\ next_timer = "now"
    /\ next_timer' = "never"
    /\ scan' = timers /\ phase' = "scan"
    /\ UNCHANGED <<wake, timers, g_dispatch, cache, fresh, runs, pc, mutexVars, waiting, asyncVars>>

\* A timer that is not due
skip_timer ==
    /\ phase = "scan" /\ scan # <<>>
    /\ wake[Head(scan)] # "now"
    /\ next_timer' = Earlier(next_timer, wake[Head(scan)])
    /\ scan' = Tail(scan)
    /\ UNCHANGED <<wake, timers, phase, g_dispatch, cache, fresh, runs, pc, mutexVars, waiting,
                   asyncVars>>

\* Mutant: only the timer is changed.
update_timer_Only(woken) == next_timer

\* update_timer(): _next_timer after the timers in woken are set to NOW
update_timer(woken) == IF woken = {} THEN next_timer ELSE "now"

\* A callback is due: ReactorCallback.invoke().  If it pauses, its greenlet gets a
\* timer and another one, from the cache or new, becomes the dispatch greenlet.
invoke ==
    LET u == Head(scan)
        g == g_dispatch
        rest == SelectSeq(timers, LAMBDA t : t # u)
    IN  /\ phase = "scan" /\ scan # <<>>
        /\ u \in Users /\ wake[u] = "now"
        /\ \E nap \in BOOLEAN :
              LET s == Run(u, g, nap)
                  w == Woken([wake EXCEPT ![u] = "never"], s.woken)
              IN  /\ Apply(u, s)
                  /\ \/ /\ s.pause = <<>>
                        /\ wake' = w
                        /\ timers' = rest
                        /\ next_timer' = update_timer(s.woken)
                        /\ scan' = Tail(scan)
                        /\ UNCHANGED <<phase, g_dispatch, cache, fresh, runs>>
                     \/ /\ s.pause # <<>>
                        /\ runs' = [runs EXCEPT ![g] = <<u>>]
                        /\ wake' = [w EXCEPT ![g] = s.pause[1]]
                        /\ timers' = Append(rest, g)
                        /\ next_timer' = "now"
                        /\ \/ /\ cache # <<>>
                              /\ g_dispatch' = Last(cache) /\ cache' = Front(cache)
                              /\ UNCHANGED fresh
                           \/ /\ cache = <<>>
                              /\ g_dispatch' = NewGreenlet(fresh) /\ fresh' = fresh \ {g_dispatch'}
                              /\ UNCHANGED cache
                        /\ phase' = "poll" /\ scan' = <<>>
        /\ UNCHANGED asyncVars

unregister_timer(t) == SelectSeq(timers, LAMBDA x : x # t)

\* The timer of a paused greenlet is due: the greenlet goes on.  If it pauses again
\* its timer gets the time; if its callback returns it goes to the cache:
\* _end_greenlet()
switch ==
    LET g == Head(scan)
        u == runs[g][1]
    IN  /\ phase = "scan" /\ scan # <<>>
        /\ g \in Greenlets /\ wake[g] = "now"
        /\ \E nap \in BOOLEAN :
              LET s == Run(u, g, nap)
                  again == s.pause # <<>>
                  to == IF again THEN s.pause[1] ELSE "never"
              IN  /\ Apply(u, s)
                  /\ wake' = [Woken(wake, s.woken) EXCEPT ![g] = to]
                  /\ next_timer' = Earlier(update_timer(s.woken), to)
                  /\ timers' = IF again THEN timers ELSE unregister_timer(g)
                  /\ runs' = IF again THEN runs ELSE [runs EXCEPT ![g] = <<>>]
                  /\ cache' = IF again THEN cache ELSE Append(cache, g)
        /\ scan' = Tail(scan)
        /\ UNCHANGED <<phase, g_dispatch, fresh, asyncVars>>

\* All timers have been looked at, or none is due.
end_scan ==
    /\ \/ phase = "scan" /\ scan = <<>>
       \/ phase = "loop" /\ next_timer # "now"
    /\ phase' = "poll"
    /\ UNCHANGED <<wake, timers, next_timer, scan, g_dispatch, cache, fresh, runs, pc, mutexVars,
                   waiting, asyncVars>>

\* _dispatch_loop(): poll() returns without an event when the next timer is due.
poll ==
    /\ phase = "poll" /\ ~pipe /\ next_timer = "now"
    /\ phase' = "loop"
    /\ UNCHANGED <<wake, timers, next_timer, scan, g_dispatch, cache, fresh, runs, pc, mutexVars,
                   waiting, asyncVars>>

\* _got_pipe_signal(): the pipe is emptied ...
read_pipe ==
    /\ phase = "poll" /\ pipe
    /\ pipe' = FALSE
    /\ phase' = "drain"
    /\ UNCHANGED <<wake, timers, next_timer, scan, g_dispatch, cache, fresh, runs, pc, mutexVars,
                   waiting, thread, async_queue>>

\* Mutant: one request is taken for each signal.
PhaseAfterGet_One == "loop"

PhaseAfterGet == "drain"

\* ... and then the queue: each request becomes a ReactorCallback, due now.
get_nowait ==
    /\ phase = "drain"
    /\ \/ /\ async_queue # <<>>
          /\ async_queue' = Tail(async_queue)
          /\ timers' = Append(timers, Head(async_queue))
          /\ wake' = [wake EXCEPT ![Head(async_queue)] = "now"]
          /\ next_timer' = "now"
          /\ phase' = PhaseAfterGet
       \/ /\ async_queue = <<>>
          /\ phase' = "loop"
          /\ UNCHANGED <<async_queue, timers, wake, next_timer>>
    /\ UNCHANGED <<scan, g_dispatch, cache, fresh, runs, pc, mutexVars, waiting, thread, pipe>>

\* Time passes: a timer becomes due, and so does _next_timer, which is not later.
time_passes ==
    /\ \E t \in ToSet(timers) : wake[t] = "later" /\ wake' = [wake EXCEPT ![t] = "now"]
    /\ next_timer' = IF next_timer = "later" THEN "now" ELSE next_timer
    /\ UNCHANGED <<timers, phase, scan, g_dispatch, cache, fresh, runs, pc, mutexVars, waiting,
                   asyncVars>>

\* Another thread: register_async_callback() puts a request into the queue ...
put_nowait(u) ==
    /\ thread[u] = "idle"
    /\ thread' = [thread EXCEPT ![u] = "put"]
    /\ async_queue' = Append(async_queue, u)
    /\ UNCHANGED <<reactorVars, pc, mutexVars, waiting, pipe>>

\* ... and writes to the pipe.
write(u) ==
    /\ thread[u] = "put"
    /\ thread' = [thread EXCEPT ![u] = "done"]
    /\ pipe' = TRUE
    /\ UNCHANGED <<reactorVars, pc, mutexVars, waiting, async_queue>>

Dispatch ==
    \/ check_timers \/ skip_timer \/ invoke \/ switch \/ end_scan
    \/ poll \/ read_pipe \/ get_nowait

Next ==
    \/ Dispatch \/ time_passes
    \/ \E u \in Users : put_nowait(u) \/ write(u)

Spec == Init /\ [][Next]_vars

\* The main thread and the requesting threads go on, and time passes.
FairSpec == Spec /\ WF_vars(Dispatch) /\ WF_vars(time_passes)
                 /\ \A u \in Users : WF_vars(write(u))

-----------------------------------------------------------------------------
\* No two users hold the mutex, and it is locked while one does.
MutexExclusive ==
    LET owners == {u \in Users : pc[u] = "critical"}
    IN  /\ \A u, v \in owners : u = v
        /\ owners # {} => is_locked /\ ~next_pending

\* _next_timer is never later than a timer _check_timers() will not look at by
\* itself: the reactor does not sleep past a timer, whatever callbacks and
\* greenlets change while the timers are being looked at.
NoLostTimer ==
    \A t \in ToSet(timers) \ ToSet(scan) : Earlier(next_timer, wake[t]) = next_timer

\* Every greenlet is the dispatch greenlet, cached once, not yet created, or paused
\* in a callback with a timer that can wake it.
GreenletsAccounted ==
    \A g \in Greenlets :
        LET roles == <<g = g_dispatch, g \in ToSet(cache), g \in fresh,
                       runs[g] # <<>> /\ g \in ToSet(timers)>>
        IN  /\ \E i \in 1..4 : roles[i] /\ \A j \in 1..4 \ {i} : ~roles[j]
            /\ IsInjective(cache) /\ IsInjective(timers)

\* Every request of another thread is carried out to its end: no wake-up is lost
\* between the queue and the pipe, in the mutex or in a completion.
AllServed ==
    \A u \in Users : (thread[u] # "idle" /\ thread[Awaited] # "idle") ~> pc[u] = "done"
=============================================================================
