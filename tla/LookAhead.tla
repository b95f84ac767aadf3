----------------------------- MODULE LookAhead -----------------------------
(***************************************************************************)
(* The look-ahead queue of klippy/toolhead.py: moves are queued, the       *)
(* highest speed of each junction is determined backwards from a stop      *)
(* after the last move, and a lazy flush hands over the moves whose speeds *)
(* later moves can no longer change.                                       *)
(*                                                                         *)
(* Speeds are squared, as in the code (_v2).  The values of the constants  *)
(* are even, so that the halves taken by flush() are integers.  What the   *)
(* geometry of two moves allows at their junction is any element of        *)
(* Junctions, 0 standing for the moves of the extruder alone as well;      *)
(* whether junction_flush runs out is left open.                           *)
(***************************************************************************)
EXTENDS Integers, Sequences

CONSTANTS
    Cruises,      \* values of max_cruise_v2
    Deltas,       \* values of delta_v2
    Smooths,      \* values of smooth_delta_v2
    Junctions,    \* limits that calc_junction() derives from the geometry
    MaxQueue      \* bound on the queue

VARIABLES
    queue,        \* the moves in the queue
    speed         \* the speed the moves handed over so far end with

vars == <<queue, speed>>

EvenAssumption ==
    \A n \in Cruises \cup Deltas \cup Smooths \cup Junctions : n >= 0 /\ n % 2 = 0

Min2(a, b) == IF a < b THEN a ELSE b

Moves == {m \in [cruise : Cruises, delta : Deltas, smooth : Smooths] :
             m.smooth <= m.delta /\ m.delta > 0 /\ m.cruise > 0}

Init == queue = <<>> /\ speed = 0

-----------------------------------------------------------------------------
(* Move.calc_junction()                                                    *)

\* Mutant: the start of a junction without the reach of the move before it.
MaxStart_NoReach(prev, m, j) == Min2(j, Min2(m.cruise, prev.cruise))

\* max_start_v2
MaxStart(prev, m, j) ==
    Min2(j, Min2(Min2(m.cruise, prev.cruise), prev.max_start + prev.delta))

\* A move with max_start_v2 and max_smoothed_v2, at the end of the queue.
Queued(m, j) ==
    LET first == queue = <<>>
        prev == queue[Len(queue)]
        start == IF first THEN 0 ELSE MaxStart(prev, m, j)
    IN  [cruise |-> m.cruise, delta |-> m.delta, smooth |-> m.smooth,
         max_start |-> start,
         max_smoothed |-> IF first THEN 0
                          ELSE Min2(start, prev.max_smoothed + prev.smooth)]

-----------------------------------------------------------------------------
(* MoveQueue.flush()                                                       *)

\* The loop of flush() from the last move to the first: the state before
\* move i (1-based) is looked at is scan[i + 1].  `junction' maps the moves
\* that were given their speeds to <<start, cruise, end>>.
Start(n, lazy) ==
    [next_end |-> 0, next_smoothed |-> 0, peak |-> 0, delayed |-> <<>>,
     flush_count |-> n, update |-> lazy, junction |-> [i \in 1 .. n |-> <<>>]]

\* The delayed moves get their speeds in the order of the queue; each cruises
\* at most at the speed it starts with.
Propagated(s, peak) ==
    LET n == Len(s.delayed)
        mc[k \in 0 .. n] == IF k = 0 THEN peak
                            ELSE Min2(mc[k - 1], s.delayed[n + 1 - k].start)
        Speeds(k) == LET d == s.delayed[n + 1 - k]
                     IN  <<Min2(d.start, mc[k]), mc[k], Min2(d.end, mc[k])>>
    IN  [i \in DOMAIN s.junction |->
           IF \E k \in 1 .. n : s.delayed[n + 1 - k].index = i
           THEN Speeds(CHOOSE k \in 1 .. n : s.delayed[n + 1 - k].index = i)
           ELSE s.junction[i]]

\* cruise_v2
CruiseV2(start, reachable, m, peak) ==
    Min2(Min2((start + reachable) \div 2, m.cruise), peak)

\* One move.
Look(s, i, m) ==
    LET reachable_start == s.next_end + m.delta
        start == Min2(m.max_start, reachable_start)
        reachable_smoothed == s.next_smoothed + m.smooth
        smoothed == Min2(m.max_smoothed, reachable_smoothed)
        accelerates == smoothed < reachable_smoothed
        peaks == smoothed + m.smooth > s.next_smoothed \/ s.delayed # <<>>
        found == s.update /\ s.peak # 0
        flush_count == IF accelerates /\ peaks /\ found THEN i - 1 ELSE s.flush_count
        update == s.update /\ ~(accelerates /\ peaks /\ found)
        peak == IF accelerates /\ peaks
                THEN Min2(m.cruise, (smoothed + reachable_smoothed) \div 2) ELSE s.peak
        ready == ~update /\ i <= flush_count
        cruise == CruiseV2(start, reachable_start, m, peak)
        before == IF accelerates /\ peaks /\ ready
                  THEN Propagated(s, peak) ELSE s.junction
    IN  [next_end |-> start, next_smoothed |-> smoothed, peak |-> peak,
         delayed |-> IF ~accelerates
                     THEN Append(s.delayed, [index |-> i, start |-> start, end |-> s.next_end])
                     ELSE IF peaks THEN <<>> ELSE s.delayed,
         flush_count |-> flush_count, update |-> update,
         junction |-> IF accelerates /\ ready
                      THEN [before EXCEPT ![i] = <<Min2(start, cruise), cruise,
                                                   Min2(s.next_end, cruise)>>]
                      ELSE before]

\* The state after the loop.
Scan(q, lazy) ==
    LET n == Len(q)
        scan[i \in 1 .. n + 1] == IF i = n + 1 THEN Start(n, lazy)
                                  ELSE Look(scan[i + 1], i, q[i])
    IN  scan[1]

\* The moves flush() hands to _process_moves().
Count(s) == IF s.update THEN 0 ELSE s.flush_count

\* flush() of the queue q.
Flush(q, lazy) ==
    LET s == Scan(q, lazy)
    IN  /\ queue' = SubSeq(q, Count(s) + 1, Len(q))
        /\ speed' = IF Count(s) = 0 THEN speed ELSE s.junction[Count(s)][3]

-----------------------------------------------------------------------------
\* add_move(): the move is queued; a lazy flush may follow.
add_move(m, j) ==
    /\ Len(queue) < MaxQueue
    /\ LET q == Append(queue, Queued(m, j))
       IN  \/ queue' = q /\ UNCHANGED speed
           \/ Len(q) > 1 /\ Flush(q, TRUE)

\* flush() by the toolhead: everything is handed over.
flush == queue # <<>> /\ Flush(queue, FALSE)

\* reset(): a shutdown or the end of a drip move drops the queue; the next
\* move starts from rest.
reset == queue # <<>> /\ queue' = <<>> /\ speed' = 0

Next ==
    \/ \E m \in Moves, j \in Junctions : add_move(m, j)
    \/ flush
    \/ reset

Spec == Init /\ [][Next]_vars

-----------------------------------------------------------------------------
(* Properties.  Each is about both ways the queue of a state can be        *)
(* flushed; v[i] is what set_junction() is given for move i.               *)

\* Every move that is handed over was given its speeds in that very flush,
\* the delayed ones included: none is processed with the speeds of an
\* earlier attempt or with none.
AllComputed ==
    \A lazy \in BOOLEAN : LET s == Scan(queue, lazy) IN
       \A i \in 1 .. Count(s) : s.junction[i] # <<>>

\* Every move can be driven: its speeds are within its limits, and its
\* length suffices to accelerate and to decelerate (cruise_d >= 0 in
\* set_junction()).
Feasible ==
    \A lazy \in BOOLEAN : LET s == Scan(queue, lazy) IN
       \A i \in 1 .. Count(s) : LET v == s.junction[i] m == queue[i] IN
          /\ 0 <= v[1] /\ v[1] <= v[2] /\ v[1] <= m.max_start
          /\ 0 <= v[3] /\ v[3] <= v[2] /\ v[2] <= m.cruise
          /\ 2 * v[2] - v[1] - v[3] <= m.delta

\* The toolhead never jumps: every move starts with the speed the one before
\* it ended with, also across flushes, although a later flush computes the
\* junction anew from more moves; and it stands still after the last move.
Continuous ==
    /\ \A lazy \in BOOLEAN : LET s == Scan(queue, lazy) IN
          /\ \A i \in 1 .. Count(s) :
                s.junction[i][1] = IF i = 1 THEN speed ELSE s.junction[i - 1][3]
    /\ queue = <<>> => speed = 0
=============================================================================
