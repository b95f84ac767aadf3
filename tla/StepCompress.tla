--------------------------- MODULE StepCompress ----------------------------
(***************************************************************************)
(* Compression of step times into queue_step commands:                     *)
(* klippy/chelper/stepcompress.c.                                          *)
(*                                                                         *)
(* Step times are appended one by one; a queue of them is turned into      *)
(* moves of the form "count steps, the first after interval ticks, each    *)
(* interval longer than the one before by add".  A step may come earlier   *)
(* than asked for by at most max_error ticks.  The history of the moves    *)
(* answers where the stepper was at a past clock.                          *)
(*                                                                         *)
(* A stepcompress object is a record.  Clocks are absolute; the numbers    *)
(* stay far from the 32-bit limits, and the queue is never so long that    *)
(* queue_append_extend() flushes it.                                       *)
(***************************************************************************)
EXTENDS Integers, Sequences, FiniteSetsExt, SequencesExt

CONSTANTS
    max_error,
    MaxCount,       \* the most steps in one move (65535)
    DiffMax,        \* CLOCK_DIFF_MAX
    SdsFilter,      \* SDS_FILTER_TIME in ticks
    Gaps,           \* ticks between two step times
    MaxSteps,       \* bound on the steps
    MaxResets       \* bound on the resets

VARIABLES
    sc,             \* the object
    clock,          \* the last step time given to append()
    steps,          \* steps given to append()
    net,            \* their sum: where the stepper should be
    asked,          \* the steps that were queued: <<clock, direction>>
    resets

vars == <<sc, clock, steps, net, asked, resets>>

CompressAssumption ==
    /\ {max_error, DiffMax, SdsFilter, MaxSteps, MaxResets} \subseteq Nat
    /\ MaxCount \in Nat \ {0} /\ Gaps \subseteq Nat \ {0}

Signed(dir) == IF dir = 1 THEN 1 ELSE -1

Init ==
    /\ sc = [queue |-> <<>>, last_step_clock |-> 0, sdir |-> -1,
             next_step_clock |-> 0, next_step_dir |-> 0, last_position |-> 0,
             history |-> <<>>, error |-> FALSE]
    /\ clock = 0 /\ steps = 0 /\ net = 0 /\ asked = <<>> /\ resets = 0

-----------------------------------------------------------------------------
(* compress_bisect_add()                                                   *)

idiv_down(n, d) == n \div d
idiv_up(n, d) == -((-n) \div d)

\* How much earlier than asked for a step may come.
Early(half) == IF half > max_error THEN max_error ELSE half

\* The time range of the i-th queued step, relative to the last step.
minmax_point(s, i) ==
    LET point == s.queue[i] - s.last_step_clock
        prevpoint == IF i > 1 THEN s.queue[i - 1] - s.last_step_clock ELSE 0
    IN  [minp |-> point - Early((point - prevpoint) \div 2), maxp |-> point]

AddFactor(n) == (n * (n - 1)) \div 2

\* nextmininterval and nextmaxinterval, narrowed by the n-th step.
MinInterval(limit, n, min) == IF min * n < limit THEN idiv_up(limit, n) ELSE min
MaxInterval(limit, n, max) == IF max * n > limit THEN idiv_down(limit, n) ELSE max

\* The longest valid sequence with a given add: the inner loop, after count
\* steps.  `all' tells that it reached the end of the queue.
RECURSIVE Longest(_, _, _, _, _, _)
Longest(s, add, min, max, interval, count) ==
    LET n == count + 1
        p == minmax_point(s, n)
        c == add * AddFactor(n)
        nmin == MinInterval(p.minp - c, n, min)
        nmax == MaxInterval(p.maxp - c, n, max)
    IN  IF n > Len(s.queue) \/ n > MaxCount
        THEN [all |-> TRUE, interval |-> interval, count |-> count]
        ELSE IF nmin > nmax
        THEN [all |-> FALSE, interval |-> interval, count |-> count,
              min |-> nmin, max |-> nmax]
        ELSE Longest(s, add, nmin, nmax, nmax, n)

\* The best sequence so far, and the best one with an add of 0, after the
\* sequence r was found.
Better(b, r, reach) ==
    \/ b.best = <<>> \/ reach > b.bestreach
    \/ reach = b.bestreach /\ r.interval > b.best[1].interval
Move(b, r) == [interval |-> r.interval, count |-> r.count, add |-> b.add]
Remember(b, r, reach) ==
    IF ~Better(b, r, reach) THEN b
    ELSE [b EXCEPT !.best = <<Move(b, r)>>, !.bestreach = reach,
                   !.zero = IF b.add = 0 THEN <<Move(b, r)>> ELSE @]

\* A greater or a lesser add could extend the sequence: the one, if the next
\* step (at most minp) would come too early.
Toward(b, r, short) ==
    IF short THEN [b EXCEPT !.minadd = b.add + 1, !.max = r.max]
             ELSE [b EXCEPT !.maxadd = b.add - 1, !.min = r.min]

\* How far the add of another valid sequence of that length can be away.
Deviation(b, r, errdelta) ==
    IF r.count <= 1 THEN b
    ELSE [b EXCEPT !.minadd = IF @ < b.add - errdelta THEN b.add - errdelta ELSE @,
                   !.maxadd = IF @ > b.add + errdelta THEN b.add + errdelta ELSE @]

\* The next step, at p, limits the add further.
LimitedBy(b, p, n, f) ==
    [b EXCEPT
       !.minadd = IF @ * f < p.minp - b.max * n THEN idiv_up(p.minp - b.max * n, f) ELSE @,
       !.maxadd = IF @ * f > p.maxp - b.min * n THEN idiv_down(p.maxp - b.min * n, f) ELSE @]

Narrowed(b, r, p, n) ==
    LimitedBy(Deviation(Toward(b, r, b.add * AddFactor(n) + r.interval * n < p.minp), r,
                        (max_error * 11) \div (r.count * r.count)),
              p, n, AddFactor(n))

\* An add of 0 is preferred if it is similar to the best.
Chosen(best, zero) ==
    IF zero # <<>> /\ zero[1].count + zero[1].count \div 16 >= best[1].count
    THEN zero[1] ELSE best[1]

\* The outer loop: try an add, remember the best sequence, narrow the range
\* of add and of the interval, and bisect.  (A best sequence of more than 0x200
\* steps, which also ends the loop, is beyond MaxCount.)
RECURSIVE Bisect(_, _)
NextAdd(s, b) ==
    IF b.minadd > b.maxadd THEN Chosen(b.best, b.zero)
    ELSE Bisect(s, [b EXCEPT !.add = b.maxadd - (b.maxadd - b.minadd) \div 4])
Tried(s, b, r) ==
    IF r.all THEN Move(b, r)
    ELSE NextAdd(s, Narrowed(Remember(b, r, b.add * AddFactor(r.count) + r.interval * r.count),
                             r, minmax_point(s, r.count + 1), r.count + 1))
Bisect(s, b) == Tried(s, b, Longest(s, b.add, b.min, b.max, b.max, 1))

compress_bisect_add(s) ==
    LET p == minmax_point(s, 1)
    IN  Bisect(s, [add |-> 0, min |-> p.minp, max |-> p.maxp, minadd |-> -32768,
                   maxadd |-> 32767, best |-> <<>>, zero |-> <<>>, bestreach |-> 0])

-----------------------------------------------------------------------------
(* Moves and the queue                                                     *)

\* The time of the n-th step of a move, relative to the step before it.
StepTime(m, n) == m.interval * n + m.add * AddFactor(n)

\* check_line(): the move matches the step times.
check_line(s, m) ==
    /\ m.count > 0 /\ m.interval >= 0
    /\ m.interval # 0 \/ m.add # 0 \/ m.count = 1
    /\ \A n \in 1 .. m.count :
          /\ StepTime(m, n) >= minmax_point(s, n).minp
          /\ StepTime(m, n) <= minmax_point(s, n).maxp
          /\ m.interval + (n - 1) * m.add >= 0

\* From the first to the last step of a move.
Ticks(m) == m.add * AddFactor(m.count) + m.interval * (m.count - 1)

\* add_move(): the command goes out and is remembered, the latest first.
add_move(s, first_clock, m) ==
    LET last_clock == first_clock + Ticks(m)
        count == IF s.sdir = 1 THEN m.count ELSE -m.count
    IN  [s EXCEPT !.last_step_clock = last_clock,
                  !.last_position = @ + count,
                  !.history = <<[first_clock |-> first_clock, last_clock |-> last_clock,
                                 start_position |-> s.last_position, step_count |-> count,
                                 interval |-> m.interval, add |-> m.add]>> \o @]

\* queue_flush(): moves are sent until move_clock is reached; Never stands
\* for UINT64_MAX.
Never == 1000000

RECURSIVE Flushing(_, _)
SendMove(s, m, move_clock) ==
    LET sent == add_move(s, s.last_step_clock + m.interval, m)
    IN  IF ~check_line(s, m) THEN [s EXCEPT !.error = TRUE]
        ELSE IF m.count >= Len(s.queue) THEN [sent EXCEPT !.queue = <<>>]
        ELSE Flushing([sent EXCEPT !.queue = SubSeq(@, m.count + 1, Len(@))], move_clock)
Flushing(s, move_clock) ==
    IF s.last_step_clock >= move_clock THEN s
    ELSE SendMove(s, compress_bisect_add(s), move_clock)

queue_flush(s, move_clock) == IF s.queue = <<>> THEN s ELSE Flushing(s, move_clock)

set_next_step_dir(s, dir) ==
    IF s.sdir = dir THEN s ELSE [queue_flush(s, Never) EXCEPT !.sdir = dir]

\* queue_append_far(), after its flush: the step is sent by itself if it is still
\* far away.
AppendFar(s, c) ==
    IF c >= s.last_step_clock + DiffMax
    THEN add_move(s, c, [interval |-> c - s.last_step_clock, count |-> 1, add |-> 0])
    ELSE [s EXCEPT !.queue = Append(@, c)]

\* queue_append(), after the direction was set: the pending step is queued.
AppendNear(s, c) ==
    IF c >= s.last_step_clock + DiffMax
    THEN AppendFar(queue_flush(s, c - DiffMax + 1), c)
    ELSE [s EXCEPT !.queue = Append(@, c)]

queue_append(s) ==
    AppendNear([set_next_step_dir(s, s.next_step_dir) EXCEPT !.next_step_clock = 0],
               s.next_step_clock)

\* stepcompress_flush()
Flushed(s, move_clock) ==
    queue_flush(IF s.next_step_clock # 0 /\ move_clock >= s.next_step_clock
                THEN queue_append(s) ELSE s, move_clock)

\* What queue_append() of the pending step adds to the steps asked for.
Commits(s) == Append(asked, <<s.next_step_clock, s.next_step_dir>>)

-----------------------------------------------------------------------------
(* Actions                                                                 *)

\* Mutant: dropping only the pending step of a rapid reversal.
Rollback_One(dir, c) == [sc EXCEPT !.next_step_clock = c, !.next_step_dir = dir]

\* A rapid step+dir+step: both steps are dropped.
Rollback(dir, c) == [sc EXCEPT !.next_step_clock = 0, !.next_step_dir = dir]

\* stepcompress_append(): a step in a direction at clock c.
append(dir, gap) ==
    LET c == clock + gap
        pending == sc.next_step_clock # 0
        rapid == /\ pending /\ dir # sc.next_step_dir
                 /\ c - sc.next_step_clock < SdsFilter
    IN  /\ steps < MaxSteps /\ ~sc.error
        /\ steps' = steps + 1 /\ clock' = c /\ net' = net + Signed(dir)
        /\ IF rapid
           THEN sc' = Rollback(dir, c) /\ UNCHANGED asked
           ELSE /\ sc' = [(IF pending THEN queue_append(sc) ELSE sc)
                             EXCEPT !.next_step_clock = c, !.next_step_dir = dir]
                /\ asked' = IF pending THEN Commits(sc) ELSE asked
        /\ UNCHANGED resets

\* stepcompress_commit()
commit ==
    /\ sc.next_step_clock # 0 /\ ~sc.error
    /\ sc' = queue_append(sc) /\ asked' = Commits(sc)
    /\ UNCHANGED <<clock, steps, net, resets>>

\* stepcompress_flush() up to a clock.
flush(move_clock) ==
    /\ ~sc.error
    /\ sc' = Flushed(sc, move_clock)
    /\ asked' = IF sc.next_step_clock # 0 /\ move_clock >= sc.next_step_clock
                THEN Commits(sc) ELSE asked
    /\ UNCHANGED <<clock, steps, net, resets>>

\* stepcompress_reset() and stepcompress_set_last_position() at the end of
\* homing: everything is sent, although the micro-controller may have stopped
\* before, and the stepper is where it was found at some clock.
set_last_position(position, at) ==
    /\ ~sc.error /\ resets < MaxResets /\ resets' = resets + 1
    /\ sc' = [Flushed(sc, Never) EXCEPT
                 !.last_position = position, !.sdir = -1, !.last_step_clock = 0,
                 !.history = <<[first_clock |-> at, last_clock |-> at,
                                start_position |-> position, step_count |-> 0,
                                interval |-> 0, add |-> 0]>> \o @]
    /\ clock' = at /\ asked' = <<>> /\ net' = position
    /\ UNCHANGED steps

Next ==
    \/ \E dir \in {0, 1}, gap \in Gaps : append(dir, gap)
    \/ commit
    \/ \E c \in 1 .. clock + 1 : flush(c)
    \/ \E at \in {1, clock} \ {0} : set_last_position(1, at)

Spec == Init /\ [][Next]_vars

-----------------------------------------------------------------------------
(* stepcompress_find_past_position()                                       *)

\* Mutant: the root, rounded up.
Root_Rounded(interval, add, ticks, count) ==
    Min({n \in 0 .. count : StepTime([interval |-> interval, add |-> add], n) >= ticks} \cup {count})

\* The step count for an add other than 0: the root of the quadratic
\* formula, rounded towards 0.  With b = 2 * interval - add, the root is
\* (sqrt(b^2 + 8 * add * ticks) - b) / (2 * add); real numbers stand for the
\* double.
Root(interval, add, ticks, count) ==
    LET b == 2 * interval - add
        d == b * b + 8 * add * ticks
        AtMost(n) == IF add > 0 THEN (2 * add * n + b) * (2 * add * n + b) <= d
                     ELSE 2 * add * n + b >= 0 /\ (2 * add * n + b) * (2 * add * n + b) >= d
    IN  Max({n \in 0 .. count : AtMost(n)})

Abs(n) == IF n < 0 THEN -n ELSE n

\* The position in one entry of the history at clock c, within the move.
Within(h, c) ==
    LET ticks == c - h.first_clock + h.interval
        offset == IF h.add = 0 THEN ticks \div h.interval
                  ELSE Root(h.interval, h.add, ticks, Abs(h.step_count))
    IN  IF h.step_count < 0 THEN h.start_position - offset ELSE h.start_position + offset

\* The search from the latest entry back: the first one that starts by c.
find_past_position(c) ==
    LET started == {i \in DOMAIN sc.history : c >= sc.history[i].first_clock}
        h == sc.history[Min(started)]
    IN  IF started = {}
        THEN IF sc.history = <<>> THEN sc.last_position
             ELSE sc.history[Len(sc.history)].start_position
        ELSE IF c >= h.last_clock THEN h.start_position + h.step_count
        ELSE Within(h, c)

-----------------------------------------------------------------------------
(* Properties.                                                             *)

\* What the micro-controller makes of the commands since the last marker, each
\* of which starts where the one before ended: the clock and the direction of
\* every step, from the oldest on.
Since == SelectInSeq(sc.history, LAMBDA h : h.step_count = 0)
Sent == Reverse(IF Since = 0 THEN sc.history ELSE SubSeq(sc.history, 1, Since - 1))
StepsOf(h, start) ==
    [n \in 1 .. Abs(h.step_count) |->
       <<start + StepTime(h, n), IF h.step_count > 0 THEN 1 ELSE 0>>]
Length(h) == StepTime(h, Abs(h.step_count))
Played ==
    LET sent == Sent
    IN  FlattenSeq([i \in DOMAIN sent |->
           StepsOf(sent[i], MapThenSumSet(LAMBDA j : Length(sent[j]), 1 .. i - 1))])

\* compress_bisect_add() never returns a move that check_line() refuses:
\* there is no "Internal error in stepcompress", whatever the step times and
\* wherever the queue is cut by flushes.
NeverInvalid == ~sc.error

\* Every step that was asked for is played once, in order and in its
\* direction, at most max_error ticks early and after the step before it, or
\* is still in the queue.
StepsFaithful ==
    ~sc.error =>
      /\ Len(Played) + Len(sc.queue) = Len(asked)
      /\ \A i \in DOMAIN Played :
            /\ Played[i][2] = asked[i][2]
            /\ Played[i][1] <= asked[i][1] /\ Played[i][1] >= asked[i][1] - max_error
            /\ i > 1 => Played[i][1] > Played[i - 1][1]
      /\ \A i \in DOMAIN sc.queue : sc.queue[i] = asked[Len(Played) + i][1]

\* Steps that are filtered out, pending, queued or sent: together they always
\* add up to the position that was asked for (the step+dir+step filter).
PositionKept ==
    ~sc.error =>
      net = sc.last_position + Len(sc.queue) * Signed(sc.sdir)
              + (IF sc.next_step_clock = 0 THEN 0 ELSE Signed(sc.next_step_dir))

\* The position looked up for any clock since the last marker is the number
\* of steps played until then (stepcompress_find_past_position).
PastPositionExact ==
    \A c \in (IF Since = 0 THEN 0 ELSE sc.history[Since].last_clock) .. clock :
       LET past == {i \in DOMAIN Played : Played[i][1] <= c}
           base == IF Since = 0 THEN 0 ELSE sc.history[Since].start_position
       IN  find_past_position(c) =
              base + MapThenSumSet(LAMBDA i : Signed(Played[i][2]), past)
=============================================================================
