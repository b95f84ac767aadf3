--------------------------- MODULE FirmwareProofs ---------------------------
(***************************************************************************)
(* Proofs about the tasks, the buttons and the outputs of the              *)
(* micro-controller: the main loop loses no wake-up of a task, for every   *)
(* number of tasks; the reports that buttons_task() sends are handled once *)
(* and in order, for every number of buttons, delay and loss; and outputs  *)
(* change when they must, for every queue, duration and cycle.             *)
(*                                                                         *)
(* The code keeps counts of reports modulo CountMod and times modulo 2^32. *)
(* The invariants say which number each remainder stands for (how many     *)
(* reports had been acknowledged when a message was sent, the times of the *)
(* queued updates, the end of the current one), and that the numbers       *)
(* compared are so close that comparing remainders is comparing them.      *)
(***************************************************************************)
EXTENDS TaskLoop, Outputs, ButtonReports, NumbersAndSequences

\* Time limits of the provers: 30 seconds.
USE SMTT(30), ZenonT(30)

-----------------------------------------------------------------------------
\* The main loop.

\* A pass over the tasks is under way, and it will still look at the flag of t.
InPass == pc \in {"read", "clear", "run", "flag"}
StillToCome(t) == IF pc \in {"read", "clear"} THEN task <= t ELSE task < t

\* Work is announced by the flag of its task, but for the task that is running.
Announced ==
    \A t \in Tasks : work[t] => wake[t] \/ (pc \in {"run", "flag"} /\ task = t) \/ pc = "shutdown"

\* A flag is announced by tasks_status, but for one the pass will still come to.  A
\* shutdown cuts a pass short: flags are then left until the next pass.
Requested ==
    \A t \in Tasks :
        wake[t] => \/ tasks_status = "requested"
                   \/ InPass /\ StillToCome(t)
                   \/ ~InPass /\ shutdown_status # 0

\* The inductive invariant.
TaskInv ==
    /\ TasksAssumption /\ TypeOK /\ Announced /\ Requested
    /\ pc \in {"start", "flag"} => tasks_status = "requested"
    /\ pc = "shutdown" => shutdown_status = 2

\* The invariant holds at start.
LEMMA TaskInit == TasksAssumption /\ Init => TaskInv
    BY DEF TasksAssumption, Init, TaskInv, TypeOK, Announced, Requested, Tasks

\* It implies that no wake is lost.
LEMMA InvNoLostWake == TaskInv => NoLostWake
    BY Zenon DEF TaskInv, Announced, Requested, InPass, NoLostWake, Asleep

\* The loop outside a pass: poll, check, awake, start.
LEMMA LoopInv ==
    ASSUME TaskInv, poll \/ check \/ awake \/ start
    PROVE  TaskInv'
<1> USE DEF TaskInv, TypeOK
<1>0. wake' = wake /\ work' = work /\ shutdown_status' = shutdown_status
    BY Zenon DEF poll, check, awake, start
<1>1. CASE poll \/ check \/ awake
    <2>1. /\ pc \in {"poll", "check", "sleep"} /\ pc' \in {"check", "start", "sleep"}
          /\ task' = task
          /\ tasks_status' = tasks_status \/ (tasks_status # "requested" /\ tasks_status' = "idle")
          /\ pc' = "start" => tasks_status' = "requested"
        BY Zenon, <1>1 DEF poll, check, awake
    <2>2. Announced'
        BY Zenon, <1>0, <2>1 DEF Announced
    <2>3. Requested'
        BY Zenon, <1>0, <2>1 DEF Requested, InPass, StillToCome
    <2> QED
        BY Zenon, <1>0, <2>1, <2>2, <2>3
<1>2. CASE start
    <2>1. pc = "start" /\ pc' = "read" /\ task' = 1 /\ tasks_status' = "running"
        BY Zenon, <1>2 DEF start
    <2>2. 1 \in Tasks /\ \A t \in Tasks : 1 <= t
        BY DEF TasksAssumption, Tasks
    <2>3. Announced'
        BY Zenon, <1>0, <2>1 DEF Announced
    <2>4. Requested'
        BY Zenon, <1>0, <2>1, <2>2 DEF Requested, InPass, StillToCome
    <2> QED
        BY Zenon, <1>0, <2>1, <2>2, <2>3, <2>4
<1> QED
    BY Zenon, <1>1, <1>2

\* The end of a task function: the pass goes on with the next task, or it is over, and
\* every flag that is set was announced after the pass had looked at it.
LEMMA NextTaskInv ==
    ASSUME TasksAssumption, TypeOK, TypeOK', NextTask, InPass, tasks_status' = tasks_status,
           \A t \in Tasks : wake'[t] => tasks_status = "requested" \/ task < t,
           \A t \in Tasks : work'[t] => wake'[t]
    PROVE  Announced' /\ Requested'
<1>1. Announced'
    BY Zenon DEF Announced
<1>2. CASE task = N
    <2>1. pc' = "poll" /\ \A t \in Tasks : ~(task < t)
        BY <1>2 DEF TasksAssumption, NextTask, Tasks, TypeOK
    <2> QED
        BY Zenon, <1>1, <2>1 DEF Requested
<1>3. CASE task # N
    <2>1. pc' = "read" /\ task' = task + 1
        BY Zenon, <1>3 DEF NextTask
    <2>2. \A t \in Tasks : task < t => task' <= t
        BY <2>1 DEF TasksAssumption, Tasks, TypeOK
    <2> QED
        BY Zenon, <1>1, <2>1, <2>2 DEF Requested, InPass, StillToCome
<1> QED
    BY Zenon, <1>2, <1>3

\* A pass over the tasks.
LEMMA PassInv ==
    ASSUME TaskInv,
           check_wake \/ clear_wake \/ run_task \/ wake_self \/ wake_self_flag
    PROVE  TaskInv'
<1>1. ASSUME NextTask, InPass, wake' \in [Tasks -> BOOLEAN], work' \in [Tasks -> BOOLEAN],
             UNCHANGED <<tasks_status, shutdown_status>>,
             \A t \in Tasks : wake'[t] => tasks_status = "requested" \/ task < t,
             \A t \in Tasks : work'[t] => wake'[t]
      PROVE  TaskInv'
    <2>1. pc' \in {"poll", "read"} /\ task' \in Tasks
        BY <1>1 DEF TasksAssumption, NextTask, TaskInv, TypeOK, Tasks
    <2>2. TypeOK'
        BY Zenon, <1>1, <2>1 DEF TaskInv, TypeOK
    <2>3. Announced' /\ Requested'
        BY Zenon, <1>1, <2>2, NextTaskInv DEF TaskInv
    <2> QED
        BY Zenon, <2>1, <2>2, <2>3 DEF TaskInv
<1>2. CASE check_wake /\ ~wake[task]
    <2>1. NextTask /\ pc = "read" /\ UNCHANGED <<tasks_status, wake, work, shutdown_status>>
        BY Zenon, <1>2 DEF check_wake
    <2>2. \A t \in Tasks : wake[t] => tasks_status = "requested" \/ task < t
        <3> SUFFICES ASSUME NEW t \in Tasks, wake[t], tasks_status # "requested" PROVE task < t
            BY Zenon
        <3>1. task <= t
            BY Zenon, <2>1 DEF TaskInv, Requested, InPass, StillToCome
        <3>2. task # t
            BY Zenon, <1>2
        <3> QED
            BY <3>1, <3>2 DEF TaskInv, TasksAssumption, TypeOK, Tasks
    <2>3. \A t \in Tasks : work[t] => wake[t]
        BY Zenon, <2>1 DEF TaskInv, Announced
    <2> QED
        BY Zenon, <1>1, <2>1, <2>2, <2>3 DEF InPass, TaskInv, TypeOK
<1>3. CASE check_wake /\ wake[task]
    <2>1. /\ pc = "read" /\ pc' = "clear"
          /\ UNCHANGED <<task, tasks_status, wake, work, shutdown_status>>
        BY Zenon, <1>3 DEF check_wake
    <2> QED
        BY Zenon, <2>1 DEF TaskInv, TypeOK, Announced, Requested, InPass, StillToCome
<1>4. CASE clear_wake
    <2>1. /\ pc = "clear" /\ pc' = "run" /\ wake' = [wake EXCEPT ![task] = FALSE]
          /\ UNCHANGED <<task, tasks_status, work, shutdown_status>>
        BY Zenon, <1>4 DEF clear_wake
    <2>2. TypeOK'
        BY Zenon, <2>1 DEF TaskInv, TypeOK
    <2>3. \A t \in Tasks : IF t = task THEN ~wake'[t] ELSE wake'[t] = wake[t]
        BY Zenon, <2>1 DEF TaskInv, TypeOK
    <2>4. Announced'
        BY Zenon, <2>1, <2>3 DEF TaskInv, Announced
    <2>5. \A t \in Tasks : task <= t /\ t # task => task < t
        BY DEF TaskInv, TasksAssumption, TypeOK, Tasks
    <2>6. Requested'
        BY Zenon, <2>1, <2>3, <2>5 DEF TaskInv, Requested, InPass, StillToCome
    <2> QED
        BY Zenon, <2>1, <2>2, <2>4, <2>6 DEF TaskInv
<1>5. CASE run_task
    <2>1. /\ NextTask /\ pc = "run" /\ work' = [work EXCEPT ![task] = FALSE]
          /\ UNCHANGED <<tasks_status, wake, shutdown_status>>
        BY Zenon, <1>5 DEF run_task
    <2>2. work' \in [Tasks -> BOOLEAN]
          /\ \A t \in Tasks : IF t = task THEN ~work'[t] ELSE work'[t] = work[t]
        BY Zenon, <2>1 DEF TaskInv, TypeOK
    <2>3. \A t \in Tasks : work'[t] => wake'[t]
        BY Zenon, <2>1, <2>2 DEF TaskInv, Announced
    <2>4. \A t \in Tasks : wake'[t] => tasks_status = "requested" \/ task < t
        BY Zenon, <2>1 DEF TaskInv, Requested, InPass, StillToCome
    <2> QED
        BY Zenon, <1>1, <2>1, <2>2, <2>3, <2>4 DEF InPass, TaskInv, TypeOK
<1>6. CASE wake_self
    <2>1. /\ pc = "run" /\ pc' = "flag" /\ tasks_status' = "requested"
          /\ UNCHANGED <<task, wake, work, shutdown_status>>
        BY Zenon, <1>6 DEF wake_self
    <2> QED
        BY Zenon, <2>1 DEF TaskInv, TypeOK, Announced, Requested
<1>7. CASE wake_self_flag
    <2>1. /\ NextTask /\ pc = "flag" /\ wake' = [wake EXCEPT ![task] = TRUE]
          /\ work' = [work EXCEPT ![task] = TRUE]
          /\ UNCHANGED <<tasks_status, shutdown_status>>
        BY Zenon, <1>7 DEF wake_self_flag
    <2>2. /\ wake' \in [Tasks -> BOOLEAN] /\ work' \in [Tasks -> BOOLEAN]
          /\ \A t \in Tasks : IF t = task THEN wake'[t] ELSE wake'[t] = wake[t] /\ work'[t] = work[t]
        BY Zenon, <2>1 DEF TaskInv, TypeOK
    <2>3. \A t \in Tasks : work'[t] => wake'[t]
        BY Zenon, <2>1, <2>2 DEF TaskInv, Announced
    <2>4. tasks_status = "requested"
        BY Zenon, <2>1 DEF TaskInv
    <2> QED
        BY Zenon, <1>1, <2>1, <2>2, <2>3, <2>4 DEF InPass
<1> QED
    BY Zenon, <1>2, <1>3, <1>4, <1>5, <1>6, <1>7

\* Interrupts and shutdowns.
LEMMA InterruptInv ==
    ASSUME TaskInv,
           \/ periodic_event \/ (\E t \in Tasks : sched_wake_task(t))
           \/ sched_shutdown \/ run_shutdown \/ sched_clear_shutdown
    PROVE  TaskInv'
<1>1. CASE periodic_event
    <2>1. tasks_status' = "requested" /\ UNCHANGED <<pc, task, wake, work, shutdown_status>>
        BY Zenon, <1>1 DEF periodic_event
    <2> QED
        BY Zenon, <2>1 DEF TaskInv, TypeOK, Announced, Requested
<1>2. ASSUME NEW t \in Tasks, sched_wake_task(t) PROVE TaskInv'
    <2>1. /\ tasks_status' = "requested" /\ UNCHANGED <<pc, task, shutdown_status>>
          /\ wake' = [wake EXCEPT ![t] = TRUE] /\ work' = [work EXCEPT ![t] = TRUE]
        BY Zenon, <1>2 DEF sched_wake_task
    <2>2. TypeOK'
        BY Zenon, <2>1 DEF TaskInv, TypeOK
    <2>3. \A u \in Tasks : IF u = t THEN wake'[u] ELSE wake'[u] = wake[u] /\ work'[u] = work[u]
        BY Zenon, <2>1 DEF TaskInv, TypeOK
    <2>4. Announced'
        BY Zenon, <2>1, <2>3 DEF TaskInv, Announced
    <2> QED
        BY Zenon, <2>1, <2>2, <2>4 DEF TaskInv, Requested
<1>3. CASE sched_shutdown
    <2>1. /\ pc' = "shutdown" /\ shutdown_status' = 2
          /\ UNCHANGED <<task, tasks_status, wake, work>>
        BY Zenon, <1>3 DEF sched_shutdown
    <2> QED
        BY <2>1 DEF TaskInv, TypeOK, Announced, Requested, InPass
<1>4. CASE run_shutdown
    <2>1. /\ pc' = "poll" /\ shutdown_status' = 1 /\ UNCHANGED <<task, tasks_status, wake>>
          /\ work' = [t \in Tasks |-> work[t] /\ wake[t]]
        BY Zenon, <1>4 DEF run_shutdown
    <2>2. work' \in [Tasks -> BOOLEAN] /\ \A t \in Tasks : work'[t] => wake'[t]
        BY Zenon, <2>1 DEF TaskInv, TypeOK
    <2> QED
        BY <2>1, <2>2 DEF TaskInv, TypeOK, Announced, Requested, InPass
<1>5. CASE sched_clear_shutdown
    <2>1. /\ pc = "run" /\ shutdown_status' = 0
          /\ UNCHANGED <<pc, task, tasks_status, wake, work>>
        BY Zenon, <1>5 DEF sched_clear_shutdown
    <2> QED
        BY <2>1 DEF TaskInv, TypeOK, Announced, Requested, InPass, StillToCome
<1> QED
    BY Zenon, <1>1, <1>2, <1>3, <1>4, <1>5

\* Every step of the task loop and of an interrupt keeps it.
LEMMA TaskStep == TaskInv /\ [Next]_vars => TaskInv'
<1>1. CASE UNCHANGED vars
    BY Zenon, <1>1 DEF vars, TaskInv, TypeOK, Announced, Requested, InPass, StillToCome
<1>2. CASE Next
    BY Zenon, <1>2, LoopInv, PassInv, InterruptInv DEF Next, MainLoop
<1> QED
    BY Zenon, <1>1, <1>2

\* Whatever interrupts come between the steps of run_tasks(), the processor never
\* sleeps with work announced for a task, for every number of tasks, unless a
\* shutdown has cut a pass over the tasks short.
THEOREM NoLostWakeSafe == Spec => []NoLostWake
<1>1. Init => TaskInv
    BY Zenon, TasksAssumption, TaskInit
<1> QED
    BY <1>1, TaskStep, InvNoLostWake, PTL DEF Spec

\* Type correctness of the main loop, from the same invariant.
THEOREM TaskTypeSafe == Spec => []TypeOK
<1>1. Init => TaskInv
    BY Zenon, TasksAssumption, TaskInit
<1>2. TaskInv => TypeOK
    BY Zenon DEF TaskInv
<1> QED
    BY <1>1, <1>2, TaskStep, PTL DEF Spec

-----------------------------------------------------------------------------
\* Buttons.

\* A report, and a message with the reports that are not acknowledged.
ButReport == [n : Nat, state : SUBSET Pins]
ButMessage == [ack_count : Nat, state : Seq(ButReport)]

\* The reports of q have the numbers after b; the one with number k, the last that was made,
\* has the state p, unless a change was dropped (d).
Numbered(q, b, k, d, p) ==
    \A i \in 1..Len(q) : q[i].n = b + i /\ (q[i].n = k /\ ~d => q[i].state = p)

\* No report yet.
LEMMA NumberedEmpty ==
    ASSUME NEW b, NEW k, NEW d, NEW p
    PROVE  Numbered(<<>>, b, k, d, p)
BY DEF Numbered

\* A report is made.
LEMMA NumberedNewer ==
    ASSUME NEW q \in Seq(ButReport), NEW b \in Nat, NEW k \in Nat, NEW d, NEW p, NEW pp,
           b + Len(q) <= k, Numbered(q, b, k, d, p)
    PROVE  Numbered(q, b, k + 1, d, pp)
<1>1. Len(q) \in Nat
  BY Zenon, SeqLen
<1> SUFFICES ASSUME NEW i \in 1..Len(q) PROVE q[i].n = b + i /\ q[i].n # k + 1
  BY Zenon DEF Numbered
<1>2. q[i].n = b + i
  BY Zenon DEF Numbered
<1> QED BY <1>1, <1>2

\* buttons_event() adds a report.
LEMMA NumberedAppend ==
    ASSUME NEW q \in Seq(ButReport), NEW b \in Nat, NEW k \in Nat, NEW d, NEW p, NEW pp,
           b + Len(q) = k, Numbered(q, b, k, d, p), NEW e \in ButReport, e.n = k + 1, e.state = pp
    PROVE  Numbered(Append(q, e), b, k + 1, d, pp)
<1> DEFINE r == Append(q, e)
           n == Len(q)
<1>1. n \in Nat /\ Len(r) = n + 1 /\ (\A i \in 1..n : r[i] = q[i]) /\ r[n + 1] = e
  BY SeqAppend, SeqLen
<1> HIDE DEF r
<1>l. b + Len(q) <= k
  BY <1>1
<1>2. Numbered(q, b, k + 1, d, pp)
  BY Zenon, <1>l, NumberedNewer
<1> SUFFICES ASSUME NEW i \in 1..(n + 1)
             PROVE  r[i].n = b + i /\ (r[i].n = k + 1 /\ ~d => r[i].state = pp)
  BY Zenon, <1>1 DEF Numbered, r
<1>3. CASE i \in 1..n
  BY Zenon, <1>1, <1>2, <1>3 DEF Numbered
<1>4. CASE i = n + 1
  BY <1>1, <1>4
<1> QED BY <1>1, <1>3, <1>4

\* buttons_event() drops a change when the array is full.
LEMMA NumberedDropped ==
    ASSUME NEW q, NEW b, NEW k, NEW d, NEW p, NEW pp, Numbered(q, b, k, d, p)
    PROVE  Numbered(q, b, k, TRUE, pp)
BY Zenon DEF Numbered

\* The first x reports are removed.
LEMMA NumberedSuffix ==
    ASSUME NEW q \in Seq(ButReport), NEW b \in Nat, NEW k, NEW d, NEW p,
           Numbered(q, b, k, d, p), NEW x \in 0..Len(q)
    PROVE  /\ Numbered(SubSeq(q, x + 1, Len(q)), b + x, k, d, p)
           /\ SubSeq(q, x + 1, Len(q)) \in Seq(ButReport)
           /\ Len(SubSeq(q, x + 1, Len(q))) = Len(q) - x
<1> DEFINE r == SubSeq(q, x + 1, Len(q))
           n == Len(q)
<1>1. /\ n \in Nat /\ r \in Seq(ButReport) /\ Len(r) = n - x
      /\ \A i \in 1..(n - x) : r[i] = q[x + i]
  BY SuffixElements, SeqLen
<1>2. \A i \in 1..n : q[i].n = b + i /\ (q[i].n = k /\ ~d => q[i].state = p)
  BY Zenon DEF Numbered
<1> HIDE DEF r, n
<1>3. \A i \in 1..(n - x) : x + i \in 1..n /\ b + (x + i) = (b + x) + i
  BY <1>1 DEF n
<1>4. \A i \in 1..(n - x) : r[i].n = (b + x) + i /\ (r[i].n = k /\ ~d => r[i].state = p)
  BY ZenonT(30), <1>1, <1>2, <1>3
<1>5. Numbered(r, b + x, k, d, p)
  BY Zenon, <1>1, <1>4 DEF Numbered
<1> QED BY Zenon, <1>1, <1>5 DEF r, n

\* One report is removed from the front.
LEMMA NumberedTail ==
    ASSUME NEW q \in Seq(ButReport), q # <<>>, NEW b \in Nat, NEW k, NEW d, NEW p,
           Numbered(q, b, k, d, p)
    PROVE  Numbered(Tail(q), b + 1, k, d, p)
<1> DEFINE r == Tail(q)
           n == Len(q)
<1>1. n \in Nat \ {0} /\ Len(r) = n - 1 /\ \A i \in 1..(n - 1) : r[i] = q[i + 1]
  BY Zenon, SeqHeadTail, SeqLen, SeqEmpty
<1>2. \A i \in 1..n : q[i].n = b + i /\ (q[i].n = k /\ ~d => q[i].state = p)
  BY Zenon DEF Numbered
<1> HIDE DEF r, n
<1>3. \A i \in 1..(n - 1) : i + 1 \in 1..n /\ b + (i + 1) = (b + 1) + i
  BY <1>1
<1>4. ASSUME NEW i \in 1..(n - 1)
      PROVE  r[i].n = (b + 1) + i /\ (r[i].n = k /\ ~d => r[i].state = p)
  <2>1. r[i] = q[i + 1] /\ i + 1 \in 1..n /\ b + (i + 1) = (b + 1) + i
    BY Zenon, <1>1, <1>3
  <2> QED BY Zenon, <1>2, <2>1
<1>5. Numbered(r, b + 1, k, d, p)
  BY Zenon, <1>1, <1>4 DEF Numbered
<1> QED BY Zenon, <1>5 DEF r

\* Reports after each other.
LEMMA NumberedConcat ==
    ASSUME NEW q \in Seq(ButReport), NEW r \in Seq(ButReport), NEW b \in Nat, NEW k, NEW d, NEW p,
           Numbered(q, b, k, d, p), Numbered(r, b + Len(q), k, d, p)
    PROVE  Numbered(q \o r, b, k, d, p)
<1> DEFINE s == q \o r
           n == Len(q)
           m == Len(r)
<1>1. /\ n \in Nat /\ m \in Nat /\ Len(s) = n + m
      /\ \A i \in 1..n : s[i] = q[i]
      /\ \A i \in 1..m : s[n + i] = r[i]
  BY ConcatElements, SeqLen
<1>2. \A i \in 1..n : q[i].n = b + i /\ (q[i].n = k /\ ~d => q[i].state = p)
  BY Zenon DEF Numbered
<1>3. \A i \in 1..m : r[i].n = (b + n) + i /\ (r[i].n = k /\ ~d => r[i].state = p)
  BY Zenon DEF Numbered
<1> HIDE DEF s, n, m
<1> SUFFICES ASSUME NEW i \in 1..(n + m)
             PROVE  s[i].n = b + i /\ (s[i].n = k /\ ~d => s[i].state = p)
  BY Zenon, <1>1 DEF Numbered, s
<1>4. CASE i \in 1..n
  BY Zenon, <1>1, <1>2, <1>4
<1>5. CASE ~(i \in 1..n)
  <2>1. PICK j \in 1..m : i = n + j /\ (b + n) + j = b + i
    <3>1. (i - n) \in 1..m /\ i = n + (i - n) /\ (b + n) + (i - n) = b + i
      BY <1>1, <1>5
    <3> QED BY Zenon, <3>1
  <2> QED BY Zenon, <1>1, <1>3, <2>1
<1> QED BY Zenon, <1>4, <1>5

\* A message m that was sent when x reports had been acknowledged: it holds the reports after
\* them, among them the ones that the host, which has h, does not have.
Sent(m, x, h, k, d, p) ==
    /\ m.ack_count = x % CountMod
    /\ Numbered(m.state, x, k, d, p)
    /\ x <= h /\ h <= x + Len(m.state) /\ x + Len(m.state) <= k /\ Len(m.state) <= Size

\* The messages u to the host, sent in order when a[i] reports had been acknowledged.
SentUp(a, u, h, k, d, p) ==
    /\ a \in Seq(Nat) /\ Len(a) = Len(u)
    /\ \A i \in 1..Len(u) : Sent(u[i], a[i], h, k, d, p)
    /\ \A i, j \in 1..Len(u) : i < j => a[i] + Len(u[i].state) <= a[j] + Len(u[j].state)

\* No message is under way.
LEMMA UpEmpty ==
    ASSUME NEW h, NEW k, NEW d, NEW p
    PROVE  SentUp(<<>>, <<>>, h, k, d, p)
BY DEF SentUp

\* One message of those under way.
LEMMA UpElement ==
    ASSUME NEW a, NEW u \in Seq(ButMessage), NEW h, NEW k, NEW d, NEW p, SentUp(a, u, h, k, d, p),
           NEW i \in 1..Len(u)
    PROVE  a[i] \in Nat /\ u[i] \in ButMessage /\ u[i].state \in Seq(ButReport)
           /\ Len(u[i].state) \in Nat /\ Sent(u[i], a[i], h, k, d, p)
<1>1. a[i] \in Nat
  BY Zenon, SeqElement DEF SentUp
<1>2. u[i] \in ButMessage
  BY Zenon, SeqElement
<1>3. u[i].state \in Seq(ButReport)
  BY Zenon, <1>2 DEF ButMessage
<1>4. Len(u[i].state) \in Nat
  BY Zenon, <1>3, SeqLen
<1> QED BY Zenon, <1>1, <1>2, <1>3, <1>4 DEF SentUp

\* A report is made, or a change dropped, while the messages are under way.
LEMMA UpNewer ==
    ASSUME NEW a, NEW u \in Seq(ButMessage), NEW h \in Nat, NEW k \in Nat, NEW d, NEW p, NEW pp,
           SentUp(a, u, h, k, d, p)
    PROVE  SentUp(a, u, h, k + 1, d, pp) /\ SentUp(a, u, h, k, TRUE, pp)
<1>1. ASSUME NEW i \in 1..Len(u)
      PROVE  Sent(u[i], a[i], h, k + 1, d, pp) /\ Sent(u[i], a[i], h, k, TRUE, pp)
  <2>1. a[i] \in Nat /\ u[i].state \in Seq(ButReport) /\ Len(u[i].state) \in Nat
        /\ Sent(u[i], a[i], h, k, d, p)
    BY Zenon, UpElement
  <2>2. Numbered(u[i].state, a[i], k, d, p) /\ a[i] + Len(u[i].state) <= k
    BY Zenon, <2>1 DEF Sent
  <2>3. Numbered(u[i].state, a[i], k + 1, d, pp)
    BY Zenon, <2>1, <2>2, NumberedNewer
  <2>4. Numbered(u[i].state, a[i], k, TRUE, pp)
    BY Zenon, <2>2, NumberedDropped
  <2>5. a[i] + Len(u[i].state) <= k + 1
    BY <2>1, <2>2
  <2> QED BY Zenon, <2>1, <2>3, <2>4, <2>5 DEF Sent
<1> QED BY Zenon, <1>1 DEF SentUp

\* The first message is lost, or gives the host all that it holds.
LEMMA UpTail ==
    ASSUME NEW a, NEW u \in Seq(ButMessage), u # <<>>, NEW h \in Nat, NEW hh \in Nat, NEW k, NEW d,
           NEW p, SentUp(a, u, h, k, d, p), h <= hh, hh <= a[1] + Len(u[1].state)
    PROVE  SentUp(Tail(a), Tail(u), hh, k, d, p) /\ Tail(u) \in Seq(ButMessage)
<1> DEFINE v == Tail(u)
           b == Tail(a)
           n == Len(u)
<1>1. /\ n \in Nat \ {0} /\ v \in Seq(ButMessage) /\ Len(v) = n - 1
      /\ \A i \in 1..(n - 1) : v[i] = u[i + 1]
  BY Zenon, SeqHeadTail, SeqLen, SeqEmpty
<1>2. a \in Seq(Nat) /\ Len(a) = n
  BY Zenon DEF SentUp
<1>3. a # <<>>
  BY Zenon, <1>1, <1>2, SeqEmpty
<1>4. b \in Seq(Nat) /\ Len(b) = n - 1 /\ \A i \in 1..(n - 1) : b[i] = a[i + 1]
  BY Zenon, <1>2, <1>3, SeqHeadTail
<1>5. \A i, j \in 1..n : i < j => a[i] + Len(u[i].state) <= a[j] + Len(u[j].state)
  BY Zenon DEF SentUp
<1>6. \A i \in 1..n : a[i] \in Nat /\ Len(u[i].state) \in Nat /\ Sent(u[i], a[i], h, k, d, p)
  BY Zenon, UpElement
<1> HIDE DEF v, b, n
<1>7. \A i \in 1..(n - 1) : i + 1 \in 1..n /\ 1 \in 1..n /\ 1 < i + 1
  BY <1>1
<1>8. ASSUME NEW i \in 1..(n - 1) PROVE Sent(v[i], b[i], hh, k, d, p)
  <2> DEFINE j == i + 1
  <2>1. /\ v[i] = u[j] /\ b[i] = a[j] /\ j \in 1..n
        /\ a[1] + Len(u[1].state) <= a[j] + Len(u[j].state)
    BY Zenon, <1>1, <1>4, <1>5, <1>7
  <2> HIDE DEF j
  <2>2. a[j] \in Nat /\ Len(u[j].state) \in Nat /\ Sent(u[j], a[j], h, k, d, p)
    BY Zenon, <1>6, <2>1
  <2>3. a[1] \in Nat /\ Len(u[1].state) \in Nat
    BY ZenonT(30), <1>6, <1>7
  <2>4. a[j] <= h /\ a[j] <= hh /\ hh <= a[j] + Len(u[j].state)
    <3>1. a[j] <= h
      BY Zenon, <2>2 DEF Sent
    <3> DEFINE y == a[1] + Len(u[1].state)
               z == a[j] + Len(u[j].state)
    <3>2. y \in Nat /\ z \in Nat /\ y <= z /\ hh <= y
      <4>1. y \in Nat
        BY <2>3
      <4>2. z \in Nat
        BY <2>2
      <4> QED BY Zenon, <2>1, <4>1, <4>2
    <3> HIDE DEF y, z
    <3>3. a[j] <= hh
      BY <2>2, <3>1
    <3>4. hh <= z
      BY <3>2
    <3> QED BY Zenon, <3>1, <3>3, <3>4 DEF z
  <2> QED BY Zenon, <2>1, <2>2, <2>4 DEF Sent
<1>9. ASSUME NEW i \in 1..(n - 1), NEW j \in 1..(n - 1), i < j
      PROVE  b[i] + Len(v[i].state) <= b[j] + Len(v[j].state)
  <2>1. i + 1 \in 1..n /\ j + 1 \in 1..n /\ i + 1 < j + 1
    BY <1>1, <1>9
  <2>2. a[i + 1] + Len(u[i + 1].state) <= a[j + 1] + Len(u[j + 1].state)
    BY Zenon, <1>5, <2>1
  <2> QED BY Zenon, <1>1, <1>4, <2>2
<1>10. SentUp(b, v, hh, k, d, p)
  BY Zenon, <1>1, <1>4, <1>8, <1>9 DEF SentUp
<1> QED BY Zenon, <1>1, <1>10 DEF v, b

\* A message with everything since x is sent.
LEMMA UpAppend ==
    ASSUME NEW a, NEW u \in Seq(ButMessage), NEW h \in Nat, NEW k \in Nat, NEW d, NEW p,
           SentUp(a, u, h, k, d, p), NEW x \in Nat, NEW m \in ButMessage,
           Sent(m, x, h, k, d, p), x + Len(m.state) = k
    PROVE  SentUp(Append(a, x), Append(u, m), h, k, d, p)
<1> DEFINE v == Append(u, m)
           b == Append(a, x)
           n == Len(u)
<1>1. n \in Nat /\ Len(v) = n + 1 /\ (\A i \in 1..n : v[i] = u[i]) /\ v[n + 1] = m
  BY SeqAppend, SeqLen
<1>2. a \in Seq(Nat) /\ Len(a) = n
  BY Zenon DEF SentUp
<1>3. b \in Seq(Nat) /\ Len(b) = n + 1 /\ (\A i \in 1..n : b[i] = a[i]) /\ b[n + 1] = x
  BY <1>2, SeqAppend, SeqLen
<1>4. \A i, j \in 1..n : i < j => a[i] + Len(u[i].state) <= a[j] + Len(u[j].state)
  BY Zenon DEF SentUp
<1>5. \A i \in 1..n : Sent(u[i], a[i], h, k, d, p)
  BY Zenon DEF SentUp
<1> HIDE DEF v, b, n
<1>6. \A i \in 1..(n + 1) : i \in 1..n \/ i = n + 1
  BY <1>1
<1>7. \A i \in 1..(n + 1) : Sent(v[i], b[i], h, k, d, p)
  BY Zenon, <1>1, <1>3, <1>5, <1>6
<1>8. ASSUME NEW i \in 1..(n + 1), NEW j \in 1..(n + 1), i < j
      PROVE  b[i] + Len(v[i].state) <= b[j] + Len(v[j].state)
  <2>1. i \in 1..n
    BY <1>1, <1>8
  <2>2. CASE j \in 1..n
    BY Zenon, <1>1, <1>3, <1>4, <1>8, <2>1, <2>2
  <2>3. CASE j = n + 1
    <3>1. a[i] + Len(u[i].state) <= k
      BY Zenon, <1>5, <2>1 DEF Sent
    <3> QED BY Zenon, <1>1, <1>3, <2>1, <2>3, <3>1
  <2> QED BY Zenon, <1>6, <2>2, <2>3
<1>9. SentUp(b, v, h, k, d, p)
  BY Zenon, <1>1, <1>3, <1>7, <1>8 DEF SentUp
<1> QED BY Zenon, <1>9 DEF v, b

\* The acknowledgements w to the micro-controller add up: x reports are acknowledged now, c[i + 1]
\* after the first i, and the h reports that the host has after all of them.
AckedDown(c, w, x, h) ==
    /\ c \in Seq(Nat) /\ Len(c) = Len(w) + 1
    /\ c[1] = x /\ c[Len(w) + 1] = h
    /\ \A i \in 1..Len(w) : c[i + 1] = c[i] + w[i]
    /\ \A i \in 1..(Len(w) + 1) : c[i] <= h

\* The first of them is taken.
LEMMA DownTail ==
    ASSUME NEW c, NEW w \in Seq(Nat), w # <<>>, NEW x \in Nat, NEW h \in Nat, AckedDown(c, w, x, h)
    PROVE  x + w[1] <= h /\ AckedDown(Tail(c), Tail(w), x + w[1], h)
<1> DEFINE v == Tail(w)
           b == Tail(c)
           n == Len(w)
<1>1. /\ n \in Nat \ {0} /\ v \in Seq(Nat) /\ Len(v) = n - 1
      /\ \A i \in 1..(n - 1) : v[i] = w[i + 1]
  BY Zenon, SeqHeadTail, SeqLen, SeqEmpty
<1>2. c \in Seq(Nat) /\ Len(c) = n + 1
  BY Zenon DEF AckedDown
<1>3. c # <<>>
  BY <1>1, <1>2, SeqEmpty
<1>4. b \in Seq(Nat) /\ Len(b) = n /\ \A i \in 1..n : b[i] = c[i + 1]
  <2>1. b \in Seq(Nat) /\ Len(b) = Len(c) - 1 /\ \A i \in 1..(Len(c) - 1) : b[i] = c[i + 1]
    BY Zenon, <1>2, <1>3, SeqHeadTail
  <2> HIDE DEF b
  <2>2. Len(c) - 1 = n
    BY <1>1, <1>2
  <2> QED BY Zenon, <2>1, <2>2
<1>5. /\ c[1] = x /\ c[n + 1] = h
      /\ \A i \in 1..n : c[i + 1] = c[i] + w[i]
      /\ \A i \in 1..(n + 1) : c[i] <= h
  BY Zenon DEF AckedDown
<1> HIDE DEF v, b, n
<1>6. 1 \in 1..n /\ n \in 1..n /\ 2 \in 1..(n + 1) /\ 1 + 1 = 2
  BY <1>1
<1>7. c[2] = x + w[1] /\ c[2] <= h
  BY Zenon, <1>5, <1>6
<1>8. b[1] = x + w[1] /\ b[n] = h
  BY Zenon, <1>4, <1>5, <1>6, <1>7
<1>9. ASSUME NEW i \in 1..(n - 1) PROVE b[i + 1] = b[i] + v[i]
  <2>1. i \in 1..n /\ i + 1 \in 1..n
    BY <1>1
  <2>2. b[i + 1] = c[(i + 1) + 1] /\ b[i] = c[i + 1] /\ v[i] = w[i + 1]
    BY Zenon, <1>1, <1>4, <2>1
  <2> QED BY Zenon, <1>5, <2>1, <2>2
<1>10. \A i \in 1..n : b[i] <= h
  <2>1. \A i \in 1..n : i + 1 \in 1..(n + 1)
    BY <1>1
  <2> QED BY Zenon, <1>4, <1>5, <2>1
<1>11. (n - 1) + 1 = n
  BY <1>1
<1>12. AckedDown(b, v, x + w[1], h)
  BY Zenon, <1>1, <1>4, <1>8, <1>9, <1>10, <1>11 DEF AckedDown
<1> QED BY Zenon, <1>7, <1>12 DEF b, v

\* The host acknowledges e more.
LEMMA DownAppend ==
    ASSUME NEW c, NEW w \in Seq(Nat), NEW x \in Nat, NEW h \in Nat, AckedDown(c, w, x, h), NEW e \in Nat
    PROVE  AckedDown(Append(c, h + e), Append(w, e), x, h + e)
<1> DEFINE v == Append(w, e)
           b == Append(c, h + e)
           n == Len(w)
<1>1. n \in Nat /\ Len(v) = n + 1 /\ (\A i \in 1..n : v[i] = w[i]) /\ v[n + 1] = e
  BY SeqAppend, SeqLen
<1>2. c \in Seq(Nat) /\ Len(c) = n + 1 /\ h + e \in Nat
  BY DEF AckedDown
<1>3. /\ b \in Seq(Nat) /\ Len(b) = (n + 1) + 1 /\ (\A i \in 1..(n + 1) : b[i] = c[i])
      /\ b[(n + 1) + 1] = h + e
  BY <1>2, SeqAppend
<1>4. /\ c[1] = x /\ c[n + 1] = h
      /\ \A i \in 1..n : c[i + 1] = c[i] + w[i]
      /\ \A i \in 1..(n + 1) : c[i] <= h
  BY Zenon DEF AckedDown
<1>c. \A i \in 1..(n + 1) : c[i] \in Nat
  BY Zenon, <1>2, SeqElement
<1> HIDE DEF v, b, n
<1>5. /\ \A i \in 1..(n + 1) : i \in 1..n \/ i = n + 1
      /\ \A i \in 1..((n + 1) + 1) : i \in 1..(n + 1) \/ i = (n + 1) + 1
      /\ 1 \in 1..(n + 1)
      /\ \A i \in 1..n : i \in 1..(n + 1) /\ i + 1 \in 1..(n + 1)
      /\ n + 1 \in 1..(n + 1)
  BY <1>1
<1>6. b[1] = x
  BY Zenon, <1>3, <1>4, <1>5
<1>7. ASSUME NEW i \in 1..(n + 1) PROVE b[i + 1] = b[i] + v[i]
  <2>1. CASE i \in 1..n
    <3>1. b[i + 1] = c[i + 1] /\ b[i] = c[i] /\ v[i] = w[i]
      BY Zenon, <1>1, <1>3, <1>5, <2>1
    <3> QED BY Zenon, <1>4, <2>1, <3>1
  <2>2. CASE i = n + 1
    <3>1. b[i + 1] = h + e /\ b[i] = h /\ v[i] = e
      BY Zenon, <1>1, <1>3, <1>4, <1>5, <2>2
    <3> QED BY Zenon, <3>1
  <2> QED BY Zenon, <1>5, <2>1, <2>2
<1>8. \A i \in 1..((n + 1) + 1) : b[i] <= h + e
  <2> SUFFICES ASSUME NEW i \in 1..((n + 1) + 1) PROVE b[i] <= h + e
    BY Zenon
  <2>1. CASE i \in 1..(n + 1)
    <3>1. b[i] = c[i] /\ c[i] \in Nat /\ c[i] <= h
      BY Zenon, <1>3, <1>4, <1>c, <2>1
    <3> QED BY <3>1
  <2>2. CASE i = (n + 1) + 1
    BY <1>3, <2>2
  <2> QED BY Zenon, <1>5, <2>1, <2>2
<1>9. AckedDown(b, v, x, h + e)
  BY Zenon, <1>1, <1>3, <1>6, <1>7, <1>8 DEF AckedDown
<1> QED BY Zenon, <1>9 DEF b, v

\* Types.
ButTypes ==
    /\ made \in Nat /\ pressed \in SUBSET Pins
    /\ reports \in Seq(ButReport) /\ Len(reports) <= Size
    /\ up \in Seq(ButMessage) /\ down \in Seq(Nat)
    /\ async \in Seq(ButReport) /\ seen \in Seq(Nat)

\* x reports are acknowledged, and the host has h.
ButGood(x, h) ==
    /\ x + Len(reports) = made /\ h = Len(seen) + Len(async) /\ x <= h /\ h <= made
    /\ ack_count = x % CountMod /\ host_ack_count = h % CountMod
    /\ Numbered(reports, x, made, dropped, pressed)
    /\ Numbered(async, Len(seen), made, dropped, pressed)
    /\ \E a : SentUp(a, up, h, made, dropped, pressed)
    /\ \E c : AckedDown(c, down, x, h)

\* The inductive invariant.
ButInv ==
    /\ ButTypes
    /\ \E x, h \in Nat : ButGood(x, h)
    /\ But!SeenOnceInOrder /\ But!StateKnown

\* The numbers of the configuration.
LEMMA ButConstants ==
    /\ Size \in Nat \ {0} /\ CountMod \in Nat \ {0} /\ 2 * Size < CountMod
    /\ invert \in SUBSET Pins
BY ReportsAssumption DEF But!ButtonsAssumption

\* The lengths of the array and of the wires.
LEMMA ButLens ==
    ASSUME ButTypes
    PROVE  Len(reports) \in Nat /\ Len(seen) \in Nat /\ Len(async) \in Nat /\ Len(down) \in Nat
BY Zenon, SeqLen DEF ButTypes

\* command_buttons_query() before the first sample.
LEMMA ButInit ==
    ASSUME But!Init
    PROVE  ButInv
<1>1. /\ made = 0 /\ pressed = invert /\ reports = <<>> /\ up = <<>> /\ down = <<>>
      /\ async = <<>> /\ seen = <<>> /\ ack_count = 0 /\ host_ack_count = 0
      /\ last_button = {}
  BY Zenon DEF But!Init
<1>2. ButTypes
  <2>1. Len(reports) = 0
    BY Zenon, <1>1
  <2>2. reports \in Seq(ButReport) /\ async \in Seq(ButReport)
    BY <1>1
  <2>3. up \in Seq(ButMessage)
    BY <1>1
  <2>4. down \in Seq(Nat) /\ seen \in Seq(Nat)
    BY <1>1
  <2> QED BY <1>1, <2>1, <2>2, <2>3, <2>4, ButConstants DEF ButTypes
<1>3. ButGood(0, 0)
  <2>1. Numbered(reports, 0, made, dropped, pressed)
        /\ Numbered(async, Len(seen), made, dropped, pressed)
    BY Zenon, <1>1, NumberedEmpty
  <2>2. SentUp(<<>>, up, 0, made, dropped, pressed)
    BY Zenon, <1>1, UpEmpty
  <2>3. AckedDown(<<0>>, down, 0, 0)
    <3> DEFINE c == <<0>>
    <3>1. c \in Seq(Nat) /\ Len(c) = 1 /\ c[1] = 0
      OBVIOUS
    <3>2. Len(down) = 0 /\ 1..0 = {} /\ 1..(0 + 1) = {1}
      BY <1>1
    <3> HIDE DEF c
    <3>3. AckedDown(c, down, 0, 0)
      BY <3>1, <3>2 DEF AckedDown
    <3> QED BY Zenon, <3>3 DEF c
  <2>4. 0 % CountMod = 0
    BY ButConstants
  <2>5. Len(reports) = 0 /\ Len(seen) = 0 /\ Len(async) = 0
    BY Zenon, <1>1
  <2> QED BY <1>1, <2>1, <2>2, <2>3, <2>4, <2>5 DEF ButGood
<1>4. But!SeenOnceInOrder
  BY <1>1 DEF But!SeenOnceInOrder
<1>5. But!StateKnown
  BY Zenon, <1>1 DEF But!StateKnown, But!Xor
<1> QED BY Zenon, <1>2, <1>3, <1>4, <1>5 DEF ButInv

\* buttons_event() does one of three things.
NewReport ==
    /\ Len(reports) < Size
    /\ reports' = Append(reports, [n |-> made + 1, state |-> pressed'])
    /\ made' = made + 1 /\ dropped' = dropped

ButRest == UNCHANGED <<ack_count, up, down, host_ack_count, async, last_button, seen>>

ButEvent ==
    /\ pressed' \in SUBSET Pins
    /\ \/ NewReport
       \/ dropped' = TRUE /\ UNCHANGED <<reports, made>>
       \/ UNCHANGED <<pressed, reports, made, dropped>>
    /\ ButRest

\* buttons_event() makes a report, drops a change or has nothing to tell.
LEMMA ButEvents ==
    ASSUME ButTypes, NEW status \in SUBSET Pins, But!buttons_event(status)
    PROVE  ButEvent
<1>1. pressed' = pressed \/ pressed' = But!PressedAfter(status)
  BY Zenon DEF But!buttons_event
<1>2. pressed' \in SUBSET Pins
  BY Zenon, <1>1 DEF But!PressedAfter, ButTypes
<1>3. \/ NewReport
      \/ dropped' = TRUE /\ UNCHANGED <<reports, made>>
      \/ UNCHANGED <<pressed, reports, made, dropped>>
  BY Zenon DEF But!buttons_event, But!Reported, But!Report, NewReport
<1> QED BY Zenon, <1>2, <1>3 DEF But!buttons_event, But!host, ButEvent, ButRest

\* buttons_event() keeps it.
LEMMA ButEventStep ==
    ASSUME ButInv, ButEvent
    PROVE  ButInv'
<1>1. ButTypes /\ made \in Nat /\ reports \in Seq(ButReport) /\ async \in Seq(ButReport)
      /\ up \in Seq(ButMessage) /\ But!SeenOnceInOrder /\ But!StateKnown
  BY Zenon DEF ButInv, ButTypes
<1>2. PICK x \in Nat, h \in Nat : ButGood(x, h)
  BY Zenon DEF ButInv
<1>3. PICK a : SentUp(a, up, h, made, dropped, pressed)
  BY Zenon, <1>2 DEF ButGood
<1>4. PICK c : AckedDown(c, down, x, h)
  BY Zenon, <1>2 DEF ButGood
<1>5. /\ x + Len(reports) = made /\ h = Len(seen) + Len(async) /\ x <= h /\ h <= made
      /\ ack_count = x % CountMod /\ host_ack_count = h % CountMod
      /\ Numbered(reports, x, made, dropped, pressed)
      /\ Numbered(async, Len(seen), made, dropped, pressed)
  BY Zenon, <1>2 DEF ButGood
<1>6. Len(reports) \in Nat /\ Len(seen) \in Nat /\ Len(async) \in Nat /\ Len(down) \in Nat
  BY Zenon, <1>1, ButLens
<1>7. /\ pressed' \in SUBSET Pins
      /\ UNCHANGED <<ack_count, up, down, host_ack_count, async, last_button, seen>>
  BY Zenon DEF ButEvent, ButRest
<1>8. But!SeenOnceInOrder'
  BY Zenon, <1>1, <1>7 DEF But!SeenOnceInOrder
<1>9. AckedDown(c, down', x, h)
  BY Zenon, <1>4, <1>7
<1>10. CASE NewReport
  <2> DEFINE e == [n |-> made + 1, state |-> pressed']
  <2>1. /\ Len(reports) < Size /\ reports' = Append(reports, e)
        /\ made' = made + 1 /\ dropped' = dropped
    BY Zenon, <1>10 DEF NewReport
  <2>2. e \in ButReport /\ e.n = made + 1 /\ e.state = pressed'
    BY <1>1, <1>7 DEF ButReport
  <2> HIDE DEF e
  <2>3. reports' \in Seq(ButReport) /\ Len(reports') = Len(reports) + 1
    BY ZenonT(30), <1>1, <2>1, <2>2, SeqAppend
  <2>4. Numbered(Append(reports, e), x, made + 1, dropped, pressed')
    BY Zenon, <1>1, <1>5, <2>2, NumberedAppend
  <2>5. Len(seen) + Len(async) <= made
    BY Zenon, <1>5
  <2>6. Numbered(async, Len(seen), made + 1, dropped, pressed')
    BY Zenon, <1>1, <1>5, <1>6, <2>5, NumberedNewer
  <2>7. SentUp(a, up, h, made + 1, dropped, pressed')
    BY Zenon, <1>1, <1>3, UpNewer
  <2>8. ButTypes'
    <3>1. Len(reports') <= Size
      BY <1>6, <2>1, <2>3, ButConstants
    <3>2. made' \in Nat
      BY <1>1, <2>1
    <3> QED BY Zenon, <1>1, <1>7, <2>3, <3>1, <3>2 DEF ButTypes
  <2>9. ButGood(x, h)'
    <3>1. x + Len(reports') = made' /\ h <= made'
      <4>1. x + Len(reports) = made /\ h <= made
        BY Zenon, <1>5
      <4>2. made' = made + 1
        BY Zenon, <2>1
      <4>3. Len(reports') = Len(reports) + 1
        BY Zenon, <2>3
      <4> QED BY <1>1, <1>6, <4>1, <4>2, <4>3
    <3> QED BY Zenon, <1>5, <1>7, <1>9, <2>1, <2>4, <2>6, <2>7, <3>1 DEF ButGood
  <2>10. But!StateKnown'
    <3>1. Len(seen) # made + 1
      <4>1. Len(seen) <= Len(seen) + Len(async) /\ Len(seen) + Len(async) \in Nat
        BY Zenon, <1>6, NatOrder
      <4> QED BY Zenon, <1>1, <1>6, <2>5, <4>1, NatOrder, NatTransitive
    <3> QED BY Zenon, <1>7, <2>1, <3>1 DEF But!StateKnown
  <2> QED BY Zenon, <1>8, <2>8, <2>9, <2>10 DEF ButInv
<1>11. CASE dropped' = TRUE /\ UNCHANGED <<reports, made>>
  <2>1. Numbered(reports, x, made, TRUE, pressed') /\ Numbered(async, Len(seen), made, TRUE, pressed')
    BY Zenon, <1>5, NumberedDropped
  <2>2. SentUp(a, up, h, made, TRUE, pressed')
    BY Zenon, <1>1, <1>3, UpNewer
  <2>3. ButTypes'
    BY Zenon, <1>1, <1>7, <1>11 DEF ButTypes
  <2>4. ButGood(x, h)'
    BY Zenon, <1>5, <1>7, <1>9, <1>11, <2>1, <2>2 DEF ButGood
  <2>5. But!StateKnown'
    BY Zenon, <1>11 DEF But!StateKnown
  <2> QED BY ZenonT(30), <1>8, <2>3, <2>4, <2>5 DEF ButInv
<1>12. CASE UNCHANGED <<pressed, reports, made, dropped>>
  <2>1. ButTypes'
    BY Zenon, <1>1, <1>7, <1>12 DEF ButTypes
  <2>2. ButGood(x, h)'
    BY Zenon, <1>3, <1>5, <1>7, <1>9, <1>12 DEF ButGood
  <2>3. But!StateKnown'
    BY Zenon, <1>1, <1>7, <1>12 DEF But!StateKnown, But!Xor
  <2> QED BY Zenon, <1>8, <2>1, <2>2, <2>3 DEF ButInv
<1> QED BY Zenon, <1>10, <1>11, <1>12 DEF ButEvent

\* command_buttons_ack(): what the host has is dropped from the array, and no more.
LEMMA ButAck ==
    ASSUME ButInv, But!command_buttons_ack
    PROVE  ButInv'
<1>1. ButTypes /\ made \in Nat /\ reports \in Seq(ButReport) /\ async \in Seq(ButReport)
      /\ down \in Seq(Nat) /\ But!SeenOnceInOrder /\ But!StateKnown
  BY Zenon DEF ButInv, ButTypes
<1>2. PICK x \in Nat, h \in Nat : ButGood(x, h)
  BY Zenon DEF ButInv
<1>4. PICK c : AckedDown(c, down, x, h)
  BY Zenon, <1>2 DEF ButGood
<1>5. /\ x + Len(reports) = made /\ h = Len(seen) + Len(async) /\ x <= h /\ h <= made
      /\ ack_count = x % CountMod /\ host_ack_count = h % CountMod
      /\ Numbered(reports, x, made, dropped, pressed)
      /\ Numbered(async, Len(seen), made, dropped, pressed)
      /\ \E a : SentUp(a, up, h, made, dropped, pressed)
  BY Zenon, <1>2 DEF ButGood
<1>6. Len(reports) \in Nat
  BY Zenon, <1>1, ButLens
<1>7. UNCHANGED <<pressed, made, dropped, up, host_ack_count, async, last_button, seen>>
  BY Zenon DEF But!command_buttons_ack, But!host
<1>8. down # <<>> /\ down' = Tail(down)
  BY Zenon DEF But!command_buttons_ack
<1>9. Head(down) = down[1] /\ down[1] \in Nat /\ Tail(down) \in Seq(Nat)
  BY <1>1, <1>8, FrontOfSeq, SeqHeadTail
<1>10. PICK k \in Nat : k = down[1]
  BY Zenon, <1>9
<1>11. /\ ack_count' = (ack_count + k) % CountMod
       /\ reports' = IF k >= Len(reports) THEN <<>> ELSE SubSeq(reports, k + 1, Len(reports))
  BY Zenon, <1>9, <1>10 DEF But!command_buttons_ack
<1>12. x + k <= h /\ AckedDown(Tail(c), Tail(down), x + k, h)
  BY Zenon, <1>1, <1>4, <1>8, <1>10, DownTail
<1>13. x + k <= made /\ k <= Len(reports)
  <2>1. x + Len(reports) = made /\ h <= made
    BY Zenon, <1>5
  <2> QED BY <1>1, <1>6, <1>12, <2>1
<1>14. /\ Numbered(reports', x + k, made, dropped, pressed)
       /\ reports' \in Seq(ButReport) /\ Len(reports') = Len(reports) - k
  <2>1. CASE k >= Len(reports)
    <3>1. reports' = <<>>
      BY Zenon, <1>11, <2>1
    <3>2. reports' \in Seq(ButReport) /\ Len(reports') = 0
      BY <3>1
    <3>3. 0 = Len(reports) - k
      BY <1>6, <1>13, <2>1
    <3> QED BY Zenon, <3>1, <3>2, <3>3, NumberedEmpty
  <2>2. CASE ~(k >= Len(reports))
    <3>1. k \in 0..Len(reports)
      BY <1>6, <1>13
    <3>2. reports' = SubSeq(reports, k + 1, Len(reports))
      BY Zenon, <1>11, <2>2
    <3> QED BY Zenon, <1>1, <1>5, <3>1, <3>2, NumberedSuffix
  <2> QED BY Zenon, <2>1, <2>2
<1>15. ack_count' = (x + k) % CountMod
  BY Zenon, <1>5, <1>11, ButConstants, ClockAdd
<1>16. ButTypes'
  <2>1. Len(reports) <= Size
    BY Zenon, <1>1 DEF ButTypes
  <2>2. Len(reports) - k <= Size
    BY <1>6, <2>1, ButConstants
  <2>3. down' \in Seq(Nat)
    BY Zenon, <1>8, <1>9
  <2> QED BY Zenon, <1>1, <1>7, <1>14, <2>2, <2>3 DEF ButTypes
<1>17. ButGood(x + k, h)'
  <2>1. (x + k) + (Len(reports) - k) = made
    <3>1. x + Len(reports) = made
      BY Zenon, <1>5
    <3> QED BY <1>6, <3>1
  <2> QED BY Zenon, <1>5, <1>7, <1>8, <1>12, <1>14, <1>15, <2>1 DEF ButGood
<1>18. But!SeenOnceInOrder' /\ But!StateKnown'
  BY Zenon, <1>1, <1>7 DEF But!SeenOnceInOrder, But!StateKnown, But!Xor
<1>19. x + k \in Nat
  OBVIOUS
<1> QED BY Zenon, <1>16, <1>17, <1>18, <1>19 DEF ButInv

\* buttons_task(): all that is not acknowledged is sent.
LEMMA ButSend ==
    ASSUME ButInv, But!buttons_task_send
    PROVE  ButInv'
<1>1. ButTypes /\ made \in Nat /\ reports \in Seq(ButReport) /\ Len(reports) <= Size
      /\ up \in Seq(ButMessage) /\ But!SeenOnceInOrder /\ But!StateKnown
  BY Zenon DEF ButInv, ButTypes
<1>2. PICK x \in Nat, h \in Nat : ButGood(x, h)
  BY Zenon DEF ButInv
<1>3. PICK a : SentUp(a, up, h, made, dropped, pressed)
  BY Zenon, <1>2 DEF ButGood
<1>4. \E c : AckedDown(c, down, x, h)
  BY Zenon, <1>2 DEF ButGood
<1>5. /\ x + Len(reports) = made /\ h = Len(seen) + Len(async) /\ x <= h /\ h <= made
      /\ ack_count = x % CountMod /\ host_ack_count = h % CountMod
      /\ Numbered(reports, x, made, dropped, pressed)
      /\ Numbered(async, Len(seen), made, dropped, pressed)
  BY Zenon, <1>2 DEF ButGood
<1>6. UNCHANGED <<pressed, reports, ack_count, made, dropped, down, host_ack_count, async,
                  last_button, seen>>
  BY Zenon DEF But!buttons_task_send, But!host
<1> DEFINE m == [ack_count |-> ack_count, state |-> reports]
<1>7. up' = up \/ up' = Append(up, m)
  BY Zenon DEF But!buttons_task_send
<1>8. m \in ButMessage /\ m.state = reports /\ m.ack_count = ack_count
  <2>1. ack_count \in Nat
    BY <1>5, ButConstants
  <2> QED BY Zenon, <1>1, <2>1 DEF ButMessage
<1> HIDE DEF m
<1>9. Sent(m, x, h, made, dropped, pressed) /\ x + Len(m.state) = made
  <2>1. x + Len(reports) <= made
    BY <1>1, <1>5
  <2>2. h <= x + Len(reports)
    BY Zenon, <1>5
  <2> QED BY Zenon, <1>1, <1>5, <1>8, <2>1, <2>2 DEF Sent
<1>10. SentUp(Append(a, x), Append(up, m), h, made, dropped, pressed)
  BY Zenon, <1>1, <1>3, <1>8, <1>9, UpAppend
<1>11. Append(up, m) \in Seq(ButMessage)
  BY Zenon, <1>1, <1>8, SeqAppend
<1>12. ButTypes'
  BY Zenon, <1>1, <1>6, <1>7, <1>11 DEF ButTypes
<1>13. \E b : SentUp(b, up', h, made, dropped, pressed)
  BY Zenon, <1>3, <1>7, <1>10
<1>14. ButGood(x, h)'
  BY Zenon, <1>4, <1>5, <1>6, <1>13 DEF ButGood
<1>15. But!SeenOnceInOrder' /\ But!StateKnown'
  BY Zenon, <1>1, <1>6 DEF But!SeenOnceInOrder, But!StateKnown, But!Xor
<1> QED BY Zenon, <1>12, <1>14, <1>15 DEF ButInv

\* A message is lost.
LEMMA ButLose ==
    ASSUME ButInv, But!lose
    PROVE  ButInv'
<1>1. ButTypes /\ up \in Seq(ButMessage) /\ But!SeenOnceInOrder /\ But!StateKnown
  BY Zenon DEF ButInv, ButTypes
<1>2. PICK x \in Nat, h \in Nat : ButGood(x, h)
  BY Zenon DEF ButInv
<1>3. PICK a : SentUp(a, up, h, made, dropped, pressed)
  BY Zenon, <1>2 DEF ButGood
<1>4. up # <<>> /\ up' = Tail(up)
  BY Zenon DEF But!lose
<1>5. UNCHANGED <<pressed, reports, ack_count, made, dropped, down, host_ack_count, async,
                  last_button, seen>>
  BY Zenon DEF But!lose, But!mcu, But!host
<1>6. h <= a[1] + Len(up[1].state)
  <2>1. 1 \in 1..Len(up)
    BY Zenon, <1>1, <1>4, FrontOfSeq
  <2>2. Sent(up[1], a[1], h, made, dropped, pressed)
    BY Zenon, <1>3, <2>1 DEF SentUp
  <2> QED BY Zenon, <2>2 DEF Sent
<1>7. SentUp(Tail(a), Tail(up), h, made, dropped, pressed) /\ Tail(up) \in Seq(ButMessage)
  BY <1>1, <1>3, <1>4, <1>6, UpTail
<1>8. ButTypes'
  BY Zenon, <1>1, <1>4, <1>5, <1>7 DEF ButTypes
<1>9. ButGood(x, h)'
  BY Zenon, <1>2, <1>4, <1>5, <1>7 DEF ButGood
<1>10. But!SeenOnceInOrder' /\ But!StateKnown'
  BY Zenon, <1>1, <1>5 DEF But!SeenOnceInOrder, But!StateKnown, But!Xor
<1> QED BY ZenonT(30), <1>8, <1>9, <1>10 DEF ButInv

\* handle_buttons_state(): the difference of the counts tells what the host has already.
LEMMA ButHandle ==
    ASSUME ButInv, But!handle_buttons_state
    PROVE  ButInv'
<1>1. ButTypes /\ made \in Nat /\ async \in Seq(ButReport) /\ down \in Seq(Nat)
      /\ up \in Seq(ButMessage) /\ But!SeenOnceInOrder /\ But!StateKnown
  BY Zenon DEF ButInv, ButTypes
<1>2. PICK x \in Nat, h \in Nat : ButGood(x, h)
  BY Zenon DEF ButInv
<1>3. PICK a : SentUp(a, up, h, made, dropped, pressed)
  BY Zenon, <1>2 DEF ButGood
<1>4. PICK c : AckedDown(c, down, x, h)
  BY Zenon, <1>2 DEF ButGood
<1>5. /\ x + Len(reports) = made /\ h = Len(seen) + Len(async) /\ x <= h /\ h <= made
      /\ ack_count = x % CountMod /\ host_ack_count = h % CountMod
      /\ Numbered(reports, x, made, dropped, pressed)
      /\ Numbered(async, Len(seen), made, dropped, pressed)
  BY Zenon, <1>2 DEF ButGood
<1>6. Len(seen) \in Nat /\ Len(async) \in Nat
  BY Zenon, <1>1, ButLens
<1>7. up # <<>> /\ up' = Tail(up) /\ UNCHANGED <<pressed, reports, ack_count, made, dropped>>
  BY Zenon DEF But!handle_buttons_state, But!mcu
<1>8. Head(up) = up[1] /\ 1 \in 1..Len(up)
  BY <1>1, <1>7, FrontOfSeq
<1>9. PICK msg : msg = up[1]
  BY Zenon
<1>10. /\ a[1] \in Nat /\ msg.state \in Seq(ButReport) /\ Len(msg.state) \in Nat
       /\ Sent(msg, a[1], h, made, dropped, pressed)
  BY Zenon, <1>1, <1>3, <1>8, <1>9, UpElement
<1>11. PICK y \in Nat, n \in Nat : y = a[1] /\ n = Len(msg.state)
  BY Zenon, <1>10
<1>12. /\ msg.ack_count = y % CountMod /\ Numbered(msg.state, y, made, dropped, pressed)
       /\ y <= h /\ h <= y + n /\ y + n <= made /\ n <= Size
  BY Zenon, <1>10, <1>11 DEF Sent
<1>13. But!AckDiff(msg.ack_count) = h - y
  <2>1. h < y + CountMod /\ y < h + CountMod /\ ~(h < y) /\ ~(2 * (h - y) >= CountMod)
    BY <1>12, ButConstants
  <2>2. ((h % CountMod) - (y % CountMod)) % CountMod = h - y
    BY ZenonT(30), <2>1, ButConstants, ClockDifference
  <2> QED BY Zenon, <1>5, <1>12, <2>1, <2>2 DEF But!AckDiff
<1>14. But!NewCount(msg) = n - (h - y)
  BY Zenon, <1>11, <1>13 DEF But!NewCount
<1>15. PICK k \in Nat : k = n - (h - y) /\ h + k = y + n /\ k <= n /\ n - k = h - y
  BY <1>12
<1>16. But!NewCount(msg) = k
  BY Zenon, <1>14, <1>15
<1>17. CASE k <= 0
  <2>1. UNCHANGED <<down, host_ack_count, async, last_button, seen>>
    BY Zenon, <1>8, <1>9, <1>16, <1>17 DEF But!handle_buttons_state, But!host
  <2>2. h <= a[1] + Len(up[1].state)
    BY Zenon, <1>9, <1>11, <1>12
  <2>3. SentUp(Tail(a), Tail(up), h, made, dropped, pressed) /\ Tail(up) \in Seq(ButMessage)
    BY Zenon, <1>1, <1>3, <1>7, <2>2, NatOrder, UpTail
  <2>4. ButTypes'
    BY Zenon, <1>1, <1>7, <2>1, <2>3 DEF ButTypes
  <2>5. ButGood(x, h)'
    BY Zenon, <1>2, <1>7, <2>1, <2>3 DEF ButGood
  <2>6. But!SeenOnceInOrder' /\ But!StateKnown'
    BY Zenon, <1>1, <1>7, <2>1 DEF But!SeenOnceInOrder, But!StateKnown, But!Xor
  <2> QED BY Zenon, <2>4, <2>5, <2>6 DEF ButInv
<1>18. CASE ~(k <= 0)
  <2> DEFINE first == IF k < Len(msg.state) THEN Len(msg.state) - k + 1 ELSE 1
             z == SubSeq(msg.state, (h - y) + 1, Len(msg.state))
  <2>1. /\ down' = Append(down, k)
        /\ host_ack_count' = (host_ack_count + k) % CountMod
        /\ async' = async \o SubSeq(msg.state, first, Len(msg.state))
        /\ UNCHANGED <<last_button, seen>>
    BY Zenon, <1>8, <1>9, <1>16, <1>18 DEF But!handle_buttons_state, But!Acked
  <2>2. first = (h - y) + 1
    BY <1>11, <1>12, <1>15
  <2>3. async' = async \o z
    BY Zenon, <2>1, <2>2
  <2>4. (h - y) \in 0..Len(msg.state) /\ y + (h - y) = h /\ Len(msg.state) - (h - y) = k
    <3>1. (h - y) \in 0..n /\ y + (h - y) = h /\ n - (h - y) = k
      BY <1>12, <1>15
    <3> QED BY Zenon, <1>11, <3>1
  <2> DEFINE j == h - y
  <2> HIDE DEF first, j
  <2>5. j \in 0..Len(msg.state) /\ y + j = h /\ Len(msg.state) - j = k
        /\ z = SubSeq(msg.state, j + 1, Len(msg.state))
    BY Zenon, <2>4 DEF j
  <2> HIDE DEF z
  <2>6. Numbered(z, h, made, dropped, pressed) /\ z \in Seq(ButReport) /\ Len(z) = k
    BY Zenon, <1>10, <1>12, <2>5, NumberedSuffix
  <2>7. /\ async \o z \in Seq(ButReport) /\ Len(async \o z) = Len(async) + k
    BY Zenon, <1>1, <2>6, ConcatElements
  <2>8. Numbered(async \o z, Len(seen), made, dropped, pressed)
    <3>1. Numbered(z, Len(seen) + Len(async), made, dropped, pressed)
      BY Zenon, <1>5, <2>6
    <3> QED BY ZenonT(30), <1>1, <1>5, <1>6, <2>6, <3>1, NumberedConcat
  <2>9. PICK g \in Nat : g = h + k /\ h <= g /\ g = y + n /\ g <= made
    BY <1>12, <1>15
  <2>10. AckedDown(Append(c, g), Append(down, k), x, g)
    BY Zenon, <1>1, <1>4, <2>9, DownAppend
  <2>11. SentUp(Tail(a), Tail(up), g, made, dropped, pressed) /\ Tail(up) \in Seq(ButMessage)
    <3>1. g <= a[1] + Len(up[1].state)
      BY <1>9, <1>11, <2>9
    <3> QED BY Zenon, <1>1, <1>3, <1>7, <2>9, <3>1, UpTail
  <2>12. host_ack_count' = g % CountMod
    <3>1. ((h % CountMod) + k) % CountMod = (h + k) % CountMod
      BY Zenon, ButConstants, ClockAdd
    <3> QED BY Zenon, <1>5, <2>1, <2>9, <3>1
  <2>13. Append(down, k) \in Seq(Nat)
    BY Zenon, <1>1, SeqAppend
  <2>14. ButTypes'
    BY Zenon, <1>1, <1>7, <2>1, <2>3, <2>7, <2>11, <2>13 DEF ButTypes
  <2>15. ButGood(x, g)'
    <3>1. g = Len(seen) + Len(async')
      BY <1>5, <1>6, <2>3, <2>7, <2>9
    <3>2. x <= g
      BY <1>5, <2>9
    <3> QED BY ZenonT(30), <1>5, <1>7, <2>1, <2>3, <2>8, <2>9, <2>10, <2>11, <2>12, <3>1, <3>2 DEF ButGood
  <2>16. But!SeenOnceInOrder' /\ But!StateKnown'
    BY Zenon, <1>1, <1>7, <2>1 DEF But!SeenOnceInOrder, But!StateKnown, But!Xor
  <2> QED BY Zenon, <2>14, <2>15, <2>16 DEF ButInv
<1> QED BY Zenon, <1>17, <1>18

\* handle_button(): the next report is handled.
LEMMA ButButton ==
    ASSUME ButInv, But!handle_button
    PROVE  ButInv'
<1>1. ButTypes /\ made \in Nat /\ async \in Seq(ButReport) /\ seen \in Seq(Nat)
      /\ But!SeenOnceInOrder /\ But!StateKnown
  BY Zenon DEF ButInv, ButTypes
<1>2. PICK x \in Nat, h \in Nat : ButGood(x, h)
  BY Zenon DEF ButInv
<1>5. h = Len(seen) + Len(async) /\ Numbered(async, Len(seen), made, dropped, pressed)
  BY Zenon, <1>2 DEF ButGood
<1>6. Len(seen) \in Nat /\ Len(async) \in Nat
  BY Zenon, <1>1, ButLens
<1>7. /\ async # <<>> /\ async' = Tail(async)
      /\ last_button' = But!Xor(Head(async).state, invert)
      /\ seen' = Append(seen, Head(async).n)
      /\ UNCHANGED <<host_ack_count, pressed, reports, ack_count, made, dropped, up, down>>
  BY Zenon DEF But!handle_button, But!mcu
<1>8. Head(async) = async[1] /\ 1 \in 1..Len(async)
  BY <1>1, <1>7, FrontOfSeq
<1>r. PICK r : r = async[1]
  BY Zenon
<1>9. PICK k \in Nat : r = async[1] /\ k = Len(seen) + 1
  BY <1>6, <1>r
<1>10. r.n = k /\ (k = made /\ ~dropped => r.state = pressed)
  BY Zenon, <1>5, <1>8, <1>9 DEF Numbered
<1>11. seen' = Append(seen, k) /\ last_button' = But!Xor(r.state, invert)
  BY Zenon, <1>7, <1>8, <1>9, <1>10
<1>12. seen' \in Seq(Nat) /\ Len(seen') = k
  BY Zenon, <1>1, <1>9, <1>11, SeqAppend
<1>13. Tail(async) \in Seq(ButReport) /\ Len(Tail(async)) = Len(async) - 1
  BY Zenon, <1>1, <1>7, SeqHeadTail
<1>14. Numbered(Tail(async), k, made, dropped, pressed)
  BY Zenon, <1>1, <1>5, <1>6, <1>7, <1>9, NumberedTail
<1>15. ButTypes'
  BY ZenonT(30), <1>1, <1>7, <1>12, <1>13 DEF ButTypes
<1>16. ButGood(x, h)'
  <2>1. h = k + (Len(async) - 1)
    BY <1>5, <1>6, <1>9
  <2> QED BY Zenon, <1>2, <1>7, <1>12, <1>13, <1>14, <2>1 DEF ButGood
<1>17. But!SeenOnceInOrder'
  <2>1. \A i \in 1..Len(seen) : seen[i] = i /\ Append(seen, k)[i] = seen[i]
    BY <1>1, SeqAppend DEF But!SeenOnceInOrder
  <2>2. Append(seen, k)[k] = k
    BY <1>1, <1>9, SeqAppend
  <2>3. \A i \in 1..k : i \in 1..Len(seen) \/ i = k
    BY <1>6, <1>9
  <2> QED BY Zenon, <1>11, <1>12, <2>1, <2>2, <2>3 DEF But!SeenOnceInOrder
<1>18. But!StateKnown'
  BY Zenon, <1>7, <1>10, <1>11, <1>12 DEF But!StateKnown
<1> QED BY Zenon, <1>15, <1>16, <1>17, <1>18 DEF ButInv

\* A step that changes nothing keeps it.
LEMMA ButQuiet ==
    ASSUME ButInv,
           UNCHANGED <<pressed, reports, ack_count, made, dropped, up, down, host_ack_count, async,
                       last_button, seen>>
    PROVE  ButInv'
<1>1. ButEvent
  BY Zenon DEF ButEvent, ButRest, ButInv, ButTypes
<1> QED BY Zenon, <1>1, ButEventStep

\* Every step keeps it.
LEMMA ButStep ==
    ASSUME ButInv, [But!Next]_(But!vars)
    PROVE  ButInv'
<1>1. CASE But!buttons_task \/ UNCHANGED But!vars
  <2>1. UNCHANGED <<pressed, reports, ack_count, made, dropped, up, down, host_ack_count, async,
                    last_button, seen>>
    BY Zenon, <1>1 DEF But!buttons_task, But!vars, But!mcu, But!host
  <2> QED BY Zenon, <2>1, ButQuiet
<1>2. CASE \E status \in SUBSET Pins : But!buttons_event(status)
  <2>1. PICK status \in SUBSET Pins : But!buttons_event(status)
    BY Zenon, <1>2
  <2>2. ButTypes
    BY Zenon DEF ButInv
  <2>3. ButEvent
    BY Zenon, <2>1, <2>2, ButEvents
  <2> QED BY Zenon, <2>3, ButEventStep
<1> QED BY Zenon, <1>1, <1>2, ButAck, ButSend, ButLose, ButHandle, ButButton DEF But!Next

\* The reports are exact in every state of the invariant.
LEMMA ButExact ==
    ASSUME ButInv
    PROVE  But!SeenOnceInOrder /\ But!NothingForgotten /\ But!StateKnown
<1>1. ButTypes /\ made \in Nat /\ But!SeenOnceInOrder /\ But!StateKnown
  BY Zenon DEF ButInv, ButTypes
<1>2. PICK x \in Nat, h \in Nat : ButGood(x, h)
  BY Zenon DEF ButInv
<1>3. Len(reports) \in Nat /\ Len(seen) \in Nat /\ Len(async) \in Nat
  BY Zenon, <1>1, ButLens
<1>4. x + Len(reports) = made /\ h = Len(seen) + Len(async) /\ x <= h
  BY Zenon, <1>2 DEF ButGood
<1>5. made - Len(seen) - Len(async) <= Len(reports)
  BY <1>1, <1>3, <1>4
<1> QED BY Zenon, <1>1, <1>5 DEF But!NothingForgotten

\* Every report of the buttons is handled once and in order, for every number of buttons,
\* size of the array (smaller than half the range of the counts), delay and loss: the
\* difference of two counts modulo 256 tells handle_buttons_state() what it has already.
THEOREM ReportsSafe == But!Spec => []ReportsExact
<1>1. ButInv => ReportsExact
  BY Zenon, ButExact DEF ReportsExact
<1> QED BY <1>1, ButInit, ButStep, PTL DEF But!Spec

-----------------------------------------------------------------------------
\* Queued updates.

\* The updates of queue q are due at the times w, in order, from `now` to `last`; the code
\* keeps their remainders modulo m.
DueTimes(w, q, m, now, last) ==
    /\ w \in Seq(Nat) /\ Len(w) = Len(q)
    /\ \A i \in 1..Len(q) : q[i].waketime = w[i] % m /\ now <= w[i] /\ w[i] <= last
    /\ \A i, j \in 1..Len(q) : i < j => w[i] < w[j]

\* No update is queued.
LEMMA DueEmpty ==
    ASSUME NEW m, NEW now, NEW last
    PROVE  DueTimes(<<>>, <<>>, m, now, last)
BY DEF DueTimes

\* The first update of a queue.
LEMMA DueFirst ==
    ASSUME NEW S, NEW q \in Seq(S), q # <<>>, NEW w, NEW m, NEW now, NEW last,
           DueTimes(w, q, m, now, last)
    PROVE  w[1] \in Nat /\ q[1] \in S /\ q[1].waketime = w[1] % m /\ now <= w[1] /\ w[1] <= last
<1>1. 1 \in 1..Len(q) /\ q[1] \in S
  BY Zenon, FrontOfSeq
<1>2. w[1] \in Nat
  BY Zenon, <1>1, SeqElement DEF DueTimes
<1> QED BY Zenon, <1>1, <1>2 DEF DueTimes

\* The first update is taken off.
LEMMA DueTail ==
    ASSUME NEW S, NEW q \in Seq(S), q # <<>>, NEW w, NEW m, NEW now, NEW last,
           DueTimes(w, q, m, now, last)
    PROVE  /\ DueTimes(Tail(w), Tail(q), m, now, last)
           /\ Tail(q) \in Seq(S)
           /\ Tail(q) # <<>> => w[1] < Tail(w)[1]
<1> DEFINE n == Len(q)
           r == Tail(q)
           v == Tail(w)
<1>1. n \in Nat \ {0} /\ r \in Seq(S) /\ Len(r) = n - 1
      /\ \A i \in 1..(n - 1) : r[i] = q[i + 1]
  BY Zenon, SeqHeadTail, SeqLen, SeqEmpty
<1>2. w \in Seq(Nat) /\ Len(w) = n
  BY Zenon DEF DueTimes
<1>3. w # <<>>
  BY Zenon, <1>1, <1>2, SeqEmpty
<1>4. v \in Seq(Nat) /\ Len(v) = n - 1 /\ \A i \in 1..(n - 1) : v[i] = w[i + 1]
  BY Zenon, <1>2, <1>3, SeqHeadTail
<1>5. \A i \in 1..n : q[i].waketime = w[i] % m /\ now <= w[i] /\ w[i] <= last
  BY Zenon DEF DueTimes
<1>6. \A i, j \in 1..n : i < j => w[i] < w[j]
  BY Zenon DEF DueTimes
<1> HIDE DEF n, r, v
<1>7. \A i \in 1..(n - 1) : i + 1 \in 1..n
  BY <1>1
<1>8. \A i, j \in 1..(n - 1) : i < j => i + 1 < j + 1
  BY <1>1
<1>9. \A i \in 1..(n - 1) : r[i].waketime = v[i] % m /\ now <= v[i] /\ v[i] <= last
  BY ZenonT(30), <1>1, <1>4, <1>5, <1>7
<1>10. \A i, j \in 1..(n - 1) : i < j => v[i] < v[j]
  BY Zenon, <1>4, <1>6, <1>7, <1>8
<1>11. DueTimes(v, r, m, now, last)
  BY Zenon, <1>1, <1>4, <1>9, <1>10 DEF DueTimes
<1>12. r # <<>> => w[1] < v[1]
  <2> SUFFICES ASSUME r # <<>> PROVE w[1] < v[1]
    BY Zenon
  <2>1. 1 \in 1..(n - 1) /\ 1 \in 1..n /\ 2 \in 1..n /\ 1 < 2 /\ 1 + 1 = 2
    BY <1>1, SeqEmpty
  <2> QED BY Zenon, <1>4, <1>6, <2>1
<1> QED BY Zenon, <1>1, <1>11, <1>12 DEF r, v

\* An update e for time t may follow.
CanFollow(S, q, w, m, now, last, t, e) ==
    /\ q \in Seq(S) /\ DueTimes(w, q, m, now, last) /\ now \in Nat /\ last \in Nat
    /\ t \in Nat /\ now <= t /\ last < t /\ e \in S /\ e.waketime = t % m

\* An update is added at the end.
LEMMA DueAppend ==
    ASSUME NEW S, NEW q, NEW w, NEW m, NEW now, NEW last, NEW t, NEW e,
           CanFollow(S, q, w, m, now, last, t, e)
    PROVE  /\ DueTimes(Append(w, t), Append(q, e), m, now, t)
           /\ q # <<>> => Append(w, t)[1] = w[1] /\ Append(q, e)[1] = q[1]
           /\ q = <<>> => Append(w, t)[1] = t /\ Append(q, e)[1] = e
<1> DEFINE n == Len(q)
           r == Append(q, e)
           v == Append(w, t)
<1>0. /\ q \in Seq(S) /\ DueTimes(w, q, m, now, last) /\ now \in Nat /\ last \in Nat
      /\ t \in Nat /\ now <= t /\ last < t /\ e \in S /\ e.waketime = t % m
  BY Zenon DEF CanFollow
<1>1. w \in Seq(Nat) /\ Len(w) = n
  BY Zenon, <1>0 DEF DueTimes
<1>a. q \in Seq(S) /\ e \in S /\ n \in Nat
  BY Zenon, <1>0, SeqLen
<1>2. n \in Nat /\ Len(r) = n + 1 /\ (\A i \in 1..n : r[i] = q[i]) /\ r[n + 1] = e
  BY <1>a, SeqAppend
<1>b. t \in Nat
  BY Zenon, <1>0
<1>3. v \in Seq(Nat) /\ Len(v) = n + 1 /\ (\A i \in 1..n : v[i] = w[i]) /\ v[n + 1] = t
  BY <1>1, <1>b, SeqAppend
<1>4. \A i \in 1..n : w[i] \in Nat /\ q[i].waketime = w[i] % m /\ now <= w[i] /\ w[i] <= last
  BY Zenon, <1>0, <1>1, SeqElement DEF DueTimes
<1>5. \A i, j \in 1..n : i < j => w[i] < w[j]
  BY Zenon, <1>0 DEF DueTimes
<1>6. (q # <<>> => 1 \in 1..n) /\ (q = <<>> => n = 0)
  BY Zenon, <1>0, FrontOfSeq, SeqEmpty
<1> HIDE DEF n, r, v
<1>7. \A i \in 1..(n + 1) : i \in 1..n \/ i = n + 1
  BY <1>2
<1>8. \A i \in 1..(n + 1) : r[i].waketime = v[i] % m
  BY Zenon, <1>0, <1>2, <1>3, <1>4, <1>7
<1>9. \A i \in 1..(n + 1) : now <= v[i] /\ v[i] <= t
  <2> SUFFICES ASSUME NEW i \in 1..(n + 1) PROVE now <= v[i] /\ v[i] <= t
    BY Zenon
  <2>1. CASE i \in 1..n
    <3>1. w[i] \in Nat /\ now <= w[i] /\ w[i] <= last /\ v[i] = w[i]
      BY Zenon, <1>3, <1>4, <2>1
    <3> QED BY <1>0, <3>1
  <2>2. CASE i = n + 1
    BY <1>0, <1>3, <2>2
  <2> QED BY Zenon, <1>7, <2>1, <2>2
<1>10. \A i, j \in 1..(n + 1) : i < j => v[i] < v[j]
  <2> SUFFICES ASSUME NEW i \in 1..(n + 1), NEW j \in 1..(n + 1), i < j PROVE v[i] < v[j]
    BY Zenon
  <2>1. i \in 1..n
    BY <1>2
  <2>2. CASE j \in 1..n
    BY Zenon, <1>3, <1>5, <2>1, <2>2
  <2>3. CASE j = n + 1
    <3>1. w[i] \in Nat /\ w[i] <= last /\ v[i] = w[i] /\ v[j] = t
      BY Zenon, <1>3, <1>4, <2>1, <2>3
    <3> QED BY <1>0, <3>1
  <2> QED BY Zenon, <1>7, <2>2, <2>3
<1>11. DueTimes(v, r, m, now, t)
  BY Zenon, <1>2, <1>3, <1>8, <1>9, <1>10 DEF DueTimes
<1>12. /\ q # <<>> => v[1] = w[1] /\ r[1] = q[1]
       /\ q = <<>> => v[1] = t /\ r[1] = e
  BY <1>2, <1>3, <1>6
<1> QED BY Zenon, <1>11, <1>12 DEF v, r

\* Time passes, and the first update is not due.
LEMMA DueTick ==
    ASSUME NEW S, NEW q \in Seq(S), NEW w, NEW m, NEW now \in Nat, NEW last \in Nat,
           DueTimes(w, q, m, now, last), q # <<>> => q[1].waketime # now % m
    PROVE  DueTimes(w, q, m, now + 1, last)
<1> SUFFICES ASSUME NEW i \in 1..Len(q) PROVE now + 1 <= w[i]
  BY Zenon DEF DueTimes
<1>1. Len(q) \in Nat /\ q # <<>> /\ 1 \in 1..Len(q)
  BY SeqLen, SeqEmpty
<1>2. w[1] \in Nat /\ q[1].waketime = w[1] % m /\ now <= w[1]
  BY <1>1, DueFirst
<1>3. w[1] # now
  BY Zenon, <1>1, <1>2
<1>4. w[i] \in Nat
  BY Zenon, SeqElement DEF DueTimes
<1>5. i = 1 \/ w[1] < w[i]
  <2>1. i = 1 \/ 1 < i
    BY <1>1
  <2> QED BY Zenon, <1>1, <2>1 DEF DueTimes
<1> QED BY <1>2, <1>3, <1>4, <1>5

-----------------------------------------------------------------------------
\* Hardware PWM outputs.

\* A queued update.
PwmMove == [waketime : Nat, value : Values]

\* Types.
PwmTypes ==
    /\ p_now \in Nat /\ p_since \in Nat /\ p_since <= p_now
    /\ p_last \in Nat /\ p_last <= p_now + p_Ahead
    /\ p_mq \in Seq(PwmMove)
    /\ p_func \in {"event", "end"} /\ armed \in BOOLEAN

\* The timer is set for the first update, unless the command that queued it has not set it
\* yet; without an update it is set for the end of the duration, if there is one.
PwmTimer(w) ==
    /\ p_cmd = <<>> \/ (p_mq # <<>> /\ p_cmd = <<p_mq[1]>> /\ ~(armed /\ p_func = "event"))
    /\ p_cmd = <<>> /\ p_mq # <<>> => armed /\ p_func = "event"
    /\ armed /\ p_func = "event" => p_mq # <<>> /\ p_waketime = p_mq[1].waketime
    /\ p_func = "end" => /\ armed /\ p_now <= p_since + p_max_duration
                         /\ p_waketime = (p_since + p_max_duration) % p_ClockMod
    /\ p_pin # default_value /\ p_max_duration > 0 =>
          p_func = "end" \/ (armed /\ p_func = "event" /\ w[1] <= p_since + p_max_duration)

\* The inductive invariant.
PwmInv == PwmTypes /\ \E w : DueTimes(w, p_mq, p_ClockMod, p_now, p_last) /\ PwmTimer(w)

\* The numbers of the configuration.
LEMMA PwmConstants ==
    /\ p_ClockMod \in Nat \ {0} /\ p_max_duration \in Nat /\ p_Ahead \in Nat /\ p_Start \in Nat
    /\ 2 * (p_max_duration + p_Ahead) < p_ClockMod
BY OutputsAssumption DEF Pwm!PwmOutAssumption


\* An output that is configured.
LEMMA PwmInit ==
    ASSUME Pwm!Init
    PROVE  PwmInv
<1>1. PwmTypes
  <2>1. p_mq \in Seq(PwmMove)
    BY DEF Pwm!Init
  <2>2. /\ p_now \in Nat /\ p_since \in Nat /\ p_since <= p_now
        /\ p_last \in Nat /\ p_last <= p_now + p_Ahead
    BY PwmConstants DEF Pwm!Init
  <2>3. p_func \in {"event", "end"} /\ armed \in BOOLEAN
    BY Zenon DEF Pwm!Init
  <2> QED BY Zenon, <2>1, <2>2, <2>3 DEF PwmTypes
<1>2. DueTimes(<<>>, p_mq, p_ClockMod, p_now, p_last)
  BY Zenon, DueEmpty DEF Pwm!Init
<1>3. PwmTimer(<<>>)
  BY Zenon DEF Pwm!Init, PwmTimer
<1> QED BY Zenon, <1>1, <1>2, <1>3 DEF PwmInv

\* A shutdown, whatever came before it.
LEMMA PwmShut ==
    ASSUME PwmTypes, Pwm!run_shutdown, p_now' = p_now, p_last' = p_last,
           p_since' \in Nat, p_since' <= p_now
    PROVE  PwmInv'
<1>1. PwmTypes'
  <2>1. p_mq' = <<>> /\ p_func' = "event" /\ armed' = FALSE
    BY Zenon DEF Pwm!run_shutdown
  <2>2. p_mq' \in Seq(PwmMove)
    BY <2>1
  <2> QED BY Zenon, <2>1, <2>2 DEF PwmTypes
<1>2. DueTimes(<<>>, p_mq, p_ClockMod, p_now, p_last)'
  BY Zenon, DueEmpty DEF Pwm!run_shutdown
<1>3. PwmTimer(<<>>)'
  BY Zenon DEF Pwm!run_shutdown, PwmTimer
<1> QED BY Zenon, <1>1, <1>2, <1>3 DEF PwmInv

\* pwm_event(): the update is due now.
LEMMA PwmEvent ==
    ASSUME PwmInv, Pwm!pwm_event
    PROVE  PwmInv'
<1> DEFINE rest == Tail(p_mq)
           value == p_mq[1].value
           limit == (p_waketime + p_max_duration) % p_ClockMod
           late == rest # <<>> /\ Pwm!Limited(value) /\ Pwm!timer_is_before(limit, rest[1].waketime)
<1>1. PwmTypes /\ p_now \in Nat /\ p_since \in Nat /\ p_last \in Nat /\ p_last <= p_now + p_Ahead
  BY Zenon DEF PwmInv, PwmTypes
<1>2. PICK w : DueTimes(w, p_mq, p_ClockMod, p_now, p_last) /\ PwmTimer(w)
  BY Zenon DEF PwmInv
<1> DEFINE v == Tail(w)
<1>3. armed /\ p_func = "event" /\ p_waketime = p_now % p_ClockMod
      /\ p_since' = p_now /\ p_now' = p_now /\ p_last' = p_last
  BY Zenon DEF Pwm!pwm_event, Pwm!Clock
<1>4. p_mq # <<>> /\ p_cmd = <<>>
  BY Zenon, <1>2, <1>3 DEF PwmTimer
<1>5. p_mq \in Seq(PwmMove)
  BY Zenon, <1>1 DEF PwmTypes
<1>6. /\ DueTimes(v, rest, p_ClockMod, p_now, p_last)
      /\ rest \in Seq(PwmMove)
      /\ rest # <<>> => w[1] < v[1]
  BY ZenonT(30), <1>2, <1>4, <1>5, DueTail
<1>7. limit = (p_now + p_max_duration) % p_ClockMod
  BY Zenon, <1>1, <1>3, PwmConstants, ClockAdd
<1>8. CASE late /\ Pwm!run_shutdown
  BY Zenon, <1>1, <1>3, <1>8, NatOrder, PwmShut
<1>9. CASE /\ ~late
           /\ p_pin' = value
           /\ p_mq' = rest
           /\ armed' = (rest # <<>> \/ Pwm!Limited(value))
           /\ p_func' = IF rest = <<>> /\ Pwm!Limited(value) THEN "end" ELSE "event"
           /\ p_waketime' = IF rest # <<>> THEN rest[1].waketime
                            ELSE IF Pwm!Limited(value) THEN limit ELSE p_waketime
           /\ UNCHANGED <<p_cmd, p_shutdown>>
  <2> HIDE DEF rest, value, limit, v
  <2>1. PwmTypes'
    BY <1>1, <1>3, <1>6, <1>9 DEF PwmTypes
  <2>2. DueTimes(v, p_mq, p_ClockMod, p_now, p_last)'
    BY Zenon, <1>3, <1>6, <1>9
  <2>3. rest # <<>> /\ Pwm!Limited(value) => v[1] <= p_now + p_max_duration
    <3> SUFFICES ASSUME rest # <<>>, Pwm!Limited(value)
                 PROVE  v[1] <= p_now + p_max_duration
      BY Zenon
    <3> DEFINE t == v[1]
               e == p_now + p_max_duration
    <3>1. t \in Nat /\ rest[1].waketime = t % p_ClockMod /\ p_now <= t /\ t <= p_last
      BY <1>6, DueFirst
    <3>2. ~Pwm!timer_is_before(e % p_ClockMod, t % p_ClockMod)
      BY Zenon, <1>7, <1>9, <3>1
    <3>3. e \in Nat /\ e = p_now + p_max_duration
      BY <1>1, PwmConstants
    <3> HIDE DEF t, e
    <3>4. 2 * (e - t) < p_ClockMod /\ 2 * (t - e) < p_ClockMod
      BY <1>1, <3>1, <3>3, PwmConstants
    <3>5. 2 * (((e % p_ClockMod) - (t % p_ClockMod)) % p_ClockMod) >= p_ClockMod <=> e < t
      BY Zenon, <3>1, <3>3, <3>4, PwmConstants, ClockBefore
    <3>6. ~(e < t)
      BY Zenon, <3>2, <3>5 DEF Pwm!timer_is_before, Pwm!Clock
    <3>7. t <= e
      BY <3>1, <3>3, <3>6
    <3> QED BY Zenon, <3>7 DEF t, e
  <2>4. PwmTimer(v)'
    <3>1. p_cmd' = <<>>
      BY Zenon, <1>4, <1>9
    <3>2. armed' /\ p_func' = "event" => p_mq' # <<>> /\ p_waketime' = p_mq'[1].waketime
      BY Zenon, <1>9
    <3>3. p_mq' # <<>> => armed' /\ p_func' = "event"
      BY Zenon, <1>9
    <3>4. p_func' = "end" => /\ armed' /\ p_now' <= p_since' + p_max_duration
                             /\ p_waketime' = (p_since' + p_max_duration) % p_ClockMod
      <4> SUFFICES ASSUME p_func' = "end"
                   PROVE  /\ armed' /\ p_now' <= p_since' + p_max_duration
                          /\ p_waketime' = (p_since' + p_max_duration) % p_ClockMod
        BY Zenon
      <4>1. rest = <<>> /\ Pwm!Limited(value)
        BY Zenon, <1>9
      <4>2. armed' /\ p_waketime' = limit
        BY Zenon, <1>9, <4>1
      <4>3. p_now' <= p_since' + p_max_duration
        BY <1>1, <1>3, PwmConstants
      <4> QED BY Zenon, <1>3, <1>7, <4>2, <4>3
    <3>5. p_pin' # default_value /\ p_max_duration > 0 <=> Pwm!Limited(value)
      BY Zenon, <1>9 DEF Pwm!Limited
    <3>6. Pwm!Limited(value) => p_func' = "end"
            \/ (armed' /\ p_func' = "event" /\ v[1] <= p_since' + p_max_duration)
      BY Zenon, <1>3, <1>9, <2>3
    <3> QED BY ZenonT(30), <3>1, <3>2, <3>3, <3>4, <3>5, <3>6 DEF PwmTimer
  <2> QED BY Zenon, <2>1, <2>2, <2>4 DEF PwmInv
<1> QED BY Zenon, <1>8, <1>9 DEF Pwm!pwm_event, Pwm!Clock

\* command_queue_pwm_out() up to the point where it sets the timer.
LEMMA PwmCommand ==
    ASSUME PwmInv, Pwm!command_queue_pwm_out
    PROVE  PwmInv'
<1>1. PwmTypes /\ p_now \in Nat /\ p_since \in Nat /\ p_last \in Nat /\ p_last <= p_now + p_Ahead
  BY Zenon DEF PwmInv, PwmTypes
<1>2. PICK w : DueTimes(w, p_mq, p_ClockMod, p_now, p_last) /\ PwmTimer(w)
  BY Zenon DEF PwmInv
<1>3. PICK t \in p_now + 1 .. p_now + p_Ahead, value \in Values :
        LET m == [waketime |-> Pwm!Clock(t), value |-> value]
        IN  /\ t > p_last
            /\ p_last' = t
            /\ p_mq' = Append(p_mq, m)
            /\ p_cmd' = IF Pwm!NeedAddTimer THEN <<m>> ELSE <<>>
  BY Zenon DEF Pwm!command_queue_pwm_out
<1> DEFINE m == [waketime |-> Pwm!Clock(t), value |-> value]
<1>4. /\ t > p_last /\ p_last' = t /\ p_mq' = Append(p_mq, m)
      /\ p_cmd' = IF p_mq = <<>> THEN <<m>> ELSE <<>>
  BY Zenon, <1>3 DEF Pwm!NeedAddTimer
<1>5. p_cmd = <<>> /\ UNCHANGED <<p_now, p_pin, p_func, p_waketime, armed, p_since>>
  BY Zenon DEF Pwm!command_queue_pwm_out
<1>6. t \in Nat /\ p_now <= t /\ t <= p_now + p_Ahead
  BY <1>1, PwmConstants
<1>7. m \in PwmMove /\ m.waketime = t % p_ClockMod
  BY <1>6, PwmConstants DEF Pwm!Clock, PwmMove
<1> HIDE DEF m
<1>8. p_mq \in Seq(PwmMove)
  BY Zenon, <1>1 DEF PwmTypes
<1>9. /\ DueTimes(Append(w, t), Append(p_mq, m), p_ClockMod, p_now, t)
      /\ p_mq # <<>> => Append(w, t)[1] = w[1] /\ Append(p_mq, m)[1] = p_mq[1]
      /\ p_mq = <<>> => Append(p_mq, m)[1] = m
  <2>1. DueTimes(w, p_mq, p_ClockMod, p_now, p_last) /\ p_last < t /\ p_now \in Nat
        /\ p_last \in Nat /\ t \in Nat /\ p_now <= t
    BY Zenon, <1>1, <1>2, <1>4, <1>6
  <2>2. CanFollow(PwmMove, p_mq, w, p_ClockMod, p_now, p_last, t, m)
    BY Zenon, <1>7, <1>8, <2>1 DEF CanFollow
  <2> QED BY <2>2, DueAppend
<1>10. Append(p_mq, m) \in Seq(PwmMove) /\ Append(p_mq, m) # <<>>
  BY ZenonT(30), <1>7, <1>8, SeqAppend
<1>11. PwmTypes'
  BY Zenon, <1>1, <1>4, <1>5, <1>6, <1>10 DEF PwmTypes
<1>12. DueTimes(Append(w, t), p_mq, p_ClockMod, p_now, p_last)'
  BY Zenon, <1>4, <1>5, <1>9
<1>13. PwmTimer(Append(w, t))'
  <2>1. CASE p_mq = <<>>
    <3>1. ~(armed /\ p_func = "event")
      BY Zenon, <1>2, <2>1 DEF PwmTimer
    <3>2. p_mq' # <<>> /\ p_cmd' = <<p_mq'[1]>> /\ p_cmd' # <<>>
      BY Zenon, <1>4, <1>9, <1>10, <2>1
    <3> QED BY Zenon, <1>2, <1>5, <3>1, <3>2 DEF PwmTimer
  <2>2. CASE p_mq # <<>>
    <3>1. armed /\ p_func = "event" /\ p_waketime = p_mq[1].waketime
      BY Zenon, <1>2, <1>5, <2>2 DEF PwmTimer
    <3>2. p_mq' # <<>> /\ p_mq'[1] = p_mq[1] /\ p_cmd' = <<>>
      BY ZenonT(30), <1>4, <1>9, <1>10, <2>2
    <3> QED BY Zenon, <1>2, <1>5, <1>9, <2>2, <3>1, <3>2 DEF PwmTimer
  <2> QED BY Zenon, <2>1, <2>2
<1> QED BY Zenon, <1>11, <1>12, <1>13 DEF PwmInv

\* command_queue_pwm_out() sets the timer if the queue was empty.
LEMMA PwmSetTimer ==
    ASSUME PwmInv, Pwm!set_timer
    PROVE  PwmInv'
<1>1. PwmTypes /\ p_now \in Nat /\ p_since \in Nat /\ p_since <= p_now /\ p_last \in Nat
      /\ p_last <= p_now + p_Ahead
  BY Zenon DEF PwmInv, PwmTypes
<1>2. PICK w : DueTimes(w, p_mq, p_ClockMod, p_now, p_last) /\ PwmTimer(w)
  BY Zenon DEF PwmInv
<1> DEFINE late == p_func = "end" /\ Pwm!timer_is_before(p_waketime, p_cmd[1].waketime)
<1>3. p_cmd # <<>> /\ UNCHANGED <<p_now, p_last, p_since>>
  BY Zenon DEF Pwm!set_timer
<1>4. p_mq # <<>> /\ p_cmd[1] = p_mq[1] /\ ~(armed /\ p_func = "event")
  BY <1>2, <1>3 DEF PwmTimer
<1>5. CASE late /\ Pwm!run_shutdown
  BY Zenon, <1>1, <1>3, <1>5, PwmShut
<1>6. CASE /\ ~late
           /\ p_func' = "event"
           /\ p_waketime' = p_cmd[1].waketime
           /\ armed' = TRUE
           /\ p_cmd' = <<>>
           /\ UNCHANGED <<p_pin, p_mq, p_shutdown>>
  <2>1. PwmTypes'
    BY Zenon, <1>1, <1>3, <1>6 DEF PwmTypes
  <2>2. DueTimes(w, p_mq, p_ClockMod, p_now, p_last)'
    BY Zenon, <1>2, <1>3, <1>6
  <2>3. p_func = "end" => w[1] <= p_since + p_max_duration
    <3> SUFFICES ASSUME p_func = "end" PROVE w[1] <= p_since + p_max_duration
      BY Zenon
    <3> DEFINE t == w[1]
               e == p_since + p_max_duration
    <3>1. p_mq \in Seq(PwmMove)
      BY Zenon, <1>1 DEF PwmTypes
    <3>2. t \in Nat /\ p_mq[1].waketime = t % p_ClockMod /\ p_now <= t /\ t <= p_last
      BY <1>2, <1>4, <3>1, DueFirst
    <3>3. p_waketime = e % p_ClockMod /\ p_now <= e
      BY Zenon, <1>2 DEF PwmTimer
    <3>4. e \in Nat /\ e = p_since + p_max_duration
      BY <1>1, PwmConstants
    <3> HIDE DEF t, e
    <3>5. ~Pwm!timer_is_before(e % p_ClockMod, t % p_ClockMod)
      BY Zenon, <1>4, <1>6, <3>2, <3>3
    <3>6. 2 * (e - t) < p_ClockMod /\ 2 * (t - e) < p_ClockMod
      BY <1>1, <3>2, <3>3, <3>4, PwmConstants
    <3>7. 2 * (((e % p_ClockMod) - (t % p_ClockMod)) % p_ClockMod) >= p_ClockMod <=> e < t
      BY Zenon, <3>2, <3>4, <3>6, PwmConstants, ClockBefore
    <3>8. ~(e < t)
      BY Zenon, <3>5, <3>7 DEF Pwm!timer_is_before, Pwm!Clock
    <3>9. t <= e
      BY <3>2, <3>4, <3>8
    <3> QED BY Zenon, <3>9 DEF t, e
  <2>4. PwmTimer(w)'
    BY Zenon, <1>2, <1>3, <1>4, <1>6, <2>3 DEF PwmTimer
  <2> QED BY Zenon, <2>1, <2>2, <2>4 DEF PwmInv
<1> QED BY Zenon, <1>5, <1>6 DEF Pwm!set_timer

\* Time goes on while no timer is due.
LEMMA PwmTick ==
    ASSUME PwmInv, Pwm!Tick
    PROVE  PwmInv'
<1>1. PwmTypes /\ p_now \in Nat /\ p_since \in Nat /\ p_since <= p_now /\ p_last \in Nat
      /\ p_last <= p_now + p_Ahead
  BY Zenon DEF PwmInv, PwmTypes
<1>2. PICK w : DueTimes(w, p_mq, p_ClockMod, p_now, p_last) /\ PwmTimer(w)
  BY Zenon DEF PwmInv
<1>3. /\ armed => p_waketime # p_now % p_ClockMod
      /\ p_cmd # <<>> => p_cmd[1].waketime # p_now % p_ClockMod
      /\ p_now' = p_now + 1
      /\ UNCHANGED <<p_pin, p_func, p_waketime, armed, p_mq, p_cmd, p_shutdown, p_last, p_since>>
  BY Zenon DEF Pwm!Tick, Pwm!Clock, Pwm!pVars
<1>4. p_mq # <<>> => p_mq[1].waketime # p_now % p_ClockMod
  <2>1. CASE p_cmd = <<>>
    BY Zenon, <1>2, <1>3, <2>1 DEF PwmTimer
  <2>2. CASE p_cmd # <<>>
    <3>1. p_cmd[1] = p_mq[1]
      BY <1>2, <2>2 DEF PwmTimer
    <3> QED BY Zenon, <1>3, <2>2, <3>1
  <2> QED BY Zenon, <2>1, <2>2
<1>5. p_mq \in Seq(PwmMove)
  BY Zenon, <1>1 DEF PwmTypes
<1>6. DueTimes(w, p_mq, p_ClockMod, p_now + 1, p_last)
  BY Zenon, <1>1, <1>2, <1>4, <1>5, DueTick
<1>7. PwmTypes'
  <2>1. p_now' \in Nat /\ p_since' <= p_now' /\ p_last' <= p_now' + p_Ahead
    BY <1>1, <1>3, PwmConstants
  <2> QED BY Zenon, <1>1, <1>3, <2>1 DEF PwmTypes
<1>8. p_func = "end" => p_now + 1 <= p_since + p_max_duration
  <2> SUFFICES ASSUME p_func = "end" PROVE p_now + 1 <= p_since + p_max_duration
    BY Zenon
  <2>1. armed /\ p_now <= p_since + p_max_duration
        /\ p_waketime = (p_since + p_max_duration) % p_ClockMod
    BY Zenon, <1>2 DEF PwmTimer
  <2>2. p_now # p_since + p_max_duration
    BY Zenon, <1>3, <2>1
  <2> QED BY <1>1, <2>1, <2>2, PwmConstants
<1>9. PwmTimer(w)'
  BY Zenon, <1>2, <1>3, <1>8 DEF PwmTimer
<1> QED BY Zenon, <1>3, <1>6, <1>7, <1>9 DEF PwmInv

\* Every step keeps it.
LEMMA PwmStep ==
    ASSUME PwmInv, [Pwm!Next]_(Pwm!vars)
    PROVE  PwmInv'
<1>1. PwmTypes /\ p_since \in Nat /\ p_since <= p_now
  BY Zenon DEF PwmInv, PwmTypes
<1>2. CASE Pwm!pwm_end_event
  BY Zenon, <1>1, <1>2, PwmShut DEF Pwm!pwm_end_event
<1>3. CASE Pwm!sched_clear_shutdown \/ UNCHANGED Pwm!vars
  <2>1. UNCHANGED <<p_now, p_pin, p_func, p_waketime, armed, p_mq, p_cmd, p_last, p_since>>
    BY Zenon, <1>3 DEF Pwm!sched_clear_shutdown, Pwm!vars, Pwm!pVars
  <2>2. PwmTypes'
    BY Zenon, <1>1, <2>1 DEF PwmTypes
  <2>3. PICK w : DueTimes(w, p_mq, p_ClockMod, p_now, p_last) /\ PwmTimer(w)
    BY Zenon DEF PwmInv
  <2>4. DueTimes(w, p_mq, p_ClockMod, p_now, p_last)'
    BY Zenon, <2>1, <2>3
  <2>5. PwmTimer(w)'
    BY Zenon, <2>1, <2>3 DEF PwmTimer
  <2> QED BY Zenon, <2>2, <2>4, <2>5 DEF PwmInv
<1> QED BY ZenonT(30), <1>2, <1>3, PwmEvent, PwmCommand, PwmSetTimer, PwmTick DEF Pwm!Next

\* The output is in time in every state of the invariant.
LEMMA PwmOnTime ==
    ASSUME PwmInv
    PROVE  Pwm!EventHasUpdate /\ Pwm!MaxDuration
<1>1. PwmTypes /\ p_now \in Nat /\ p_since \in Nat
  BY Zenon DEF PwmInv, PwmTypes
<1>2. PICK w : DueTimes(w, p_mq, p_ClockMod, p_now, p_last) /\ PwmTimer(w)
  BY Zenon DEF PwmInv
<1>3. Pwm!EventHasUpdate
  BY Zenon, <1>2 DEF PwmTimer, Pwm!EventHasUpdate
<1>4. ASSUME p_max_duration > 0, p_pin # default_value
      PROVE  p_now <= p_since + p_max_duration
  <2>1. CASE p_func = "end"
    BY Zenon, <1>2, <2>1 DEF PwmTimer
  <2>2. CASE armed /\ p_func = "event" /\ w[1] <= p_since + p_max_duration
    <3>1. p_mq # <<>> /\ p_mq \in Seq(PwmMove)
      BY Zenon, <1>1, <1>2, <2>2 DEF PwmTimer, PwmTypes
    <3>2. w[1] \in Nat /\ p_now <= w[1]
      BY Zenon, <1>2, <3>1, DueFirst
    <3> QED BY <1>1, <2>2, <3>2, PwmConstants
  <2> QED BY Zenon, <1>2, <1>4, <2>1, <2>2 DEF PwmTimer
<1> QED BY Zenon, <1>3, <1>4 DEF Pwm!MaxDuration

-----------------------------------------------------------------------------
\* Digital outputs.

\* A queued update.
DigMove == [waketime : Nat, on : OnTicks]

\* Types.
DigTypes ==
    /\ d_now \in Nat /\ d_since \in Nat /\ d_since <= d_now /\ changed \in Nat /\ changed <= d_now
    /\ d_last \in Nat /\ d_last <= d_now + d_Ahead
    /\ d_mq \in Seq(DigMove)
    /\ d_func \in {"none", "load", "toggle"} /\ d_pin \in BOOLEAN /\ on_duration \in Nat

\* end_time is the remainder of a time e that is not over: the time of the first update, and
\* at most max_duration after the last one where that is limited.
DigEnd(w, e) ==
    /\ "check_end" \in flags => /\ end_time = e % d_ClockMod /\ d_now <= e
                                /\ e <= d_now + d_max_duration + d_Ahead
                                /\ d_func # "none"
    /\ d_mq # <<>> => "check_end" \in flags /\ e = w[1]
    /\ d_max_duration > 0 /\ (d_pin # default_on \/ "toggling" \in flags) =>
          "check_end" \in flags /\ e <= d_since + d_max_duration

\* The timer is set for a time t that is not over: end_time, or a toggle before it.
DigTimer(e, t) ==
    /\ "toggling" \in flags => d_func # "none"
    /\ d_func # "none" => d_waketime = t % d_ClockMod /\ d_now <= t
    /\ d_func = "load" => "check_end" \in flags /\ t = e
    /\ d_func = "toggle" =>
          /\ "toggling" \in flags /\ 0 < on_duration /\ on_duration < cycle_time
          /\ t = changed + (IF d_pin THEN on_duration ELSE cycle_time - on_duration)
          /\ "check_end" \in flags => t < e

\* The inductive invariant.
DigInv ==
    /\ DigTypes
    /\ \E w : \E e, t \in Nat :
          DueTimes(w, d_mq, d_ClockMod, d_now, d_last) /\ DigEnd(w, e) /\ DigTimer(e, t)

\* The numbers of the configuration.
LEMMA DigConstants ==
    /\ d_ClockMod \in Nat \ {0} /\ d_max_duration \in Nat /\ d_Ahead \in Nat /\ d_Start \in Nat
    /\ cycle_time \in Nat /\ default_on \in BOOLEAN
    /\ 2 * (d_max_duration + cycle_time + d_Ahead) < d_ClockMod
    /\ OnTicks \subseteq Nat
BY OutputsAssumption DEF Out!DigitalOutAssumption

\* Times from now on that the output compares are close.
DigSoon(now, t) == t \in Nat /\ now <= t /\ t <= now + d_max_duration + cycle_time + d_Ahead

\* timer_is_before() of two such times is their order.
LEMMA DigBefore ==
    ASSUME NEW now \in Nat, NEW a, NEW b, DigSoon(now, a), DigSoon(now, b)
    PROVE  Out!timer_is_before(a % d_ClockMod, b % d_ClockMod) <=> a < b
<1>1. a \in Nat /\ b \in Nat /\ 2 * (a - b) < d_ClockMod /\ 2 * (b - a) < d_ClockMod
  BY DigConstants DEF DigSoon
<1>2. 2 * (((a % d_ClockMod) - (b % d_ClockMod)) % d_ClockMod) >= d_ClockMod <=> a < b
  BY Zenon, <1>1, DigConstants, ClockBefore
<1> QED BY Zenon, <1>2 DEF Out!timer_is_before, Out!Clock

\* An output that is configured.
LEMMA DigInit ==
    ASSUME Out!Init
    PROVE  DigInv
<1>1. DigTypes
  <2>1. d_mq \in Seq(DigMove)
    BY DEF Out!Init
  <2>2. /\ d_now \in Nat /\ d_since \in Nat /\ d_since <= d_now /\ changed \in Nat
        /\ changed <= d_now /\ d_last \in Nat /\ d_last <= d_now + d_Ahead
    BY DigConstants DEF Out!Init
  <2>3. d_func \in {"none", "load", "toggle"} /\ d_pin \in BOOLEAN /\ on_duration \in Nat
    BY Zenon, DigConstants DEF Out!Init
  <2> QED BY Zenon, <2>1, <2>2, <2>3 DEF DigTypes
<1>2. DueTimes(<<>>, d_mq, d_ClockMod, d_now, d_last)
  BY Zenon, DueEmpty DEF Out!Init
<1>3. DigEnd(<<>>, 0) /\ DigTimer(0, 0)
  BY Zenon DEF Out!Init, DigEnd, DigTimer
<1> QED BY Zenon, <1>1, <1>2, <1>3 DEF DigInv

\* A shutdown, whatever came before it.
LEMMA DigShut ==
    ASSUME DigTypes, Out!run_shutdown, d_now' = d_now, d_since' \in Nat, d_since' <= d_now,
           d_last' \in Nat, d_last' <= d_now + d_Ahead
    PROVE  DigInv'
<1>0. /\ d_mq' = <<>> /\ d_func' = "none" /\ d_pin' = default_on /\ flags' = {}
      /\ on_duration' = on_duration /\ (changed' = changed \/ changed' = d_now)
  BY Zenon DEF Out!run_shutdown
<1>1. DigTypes'
  <2>1. d_mq' \in Seq(DigMove)
    BY <1>0
  <2>2. d_now \in Nat /\ changed' \in Nat /\ changed' <= d_now /\ on_duration \in Nat
    BY <1>0 DEF DigTypes
  <2> QED BY Zenon, <1>0, <2>1, <2>2, DigConstants DEF DigTypes
<1>2. DueTimes(<<>>, d_mq, d_ClockMod, d_now, d_last)'
  BY Zenon, <1>0, DueEmpty
<1>3. DigEnd(<<>>, 0)' /\ DigTimer(0, 0)'
  BY Zenon, <1>0 DEF DigEnd, DigTimer
<1> QED BY Zenon, <1>1, <1>2, <1>3 DEF DigInv

\* digital_load_event(): the update is due now.
LEMMA DigLoadEvent ==
    ASSUME DigInv, Out!digital_load_event
    PROVE  DigInv'
<1> DEFINE m == Tail(d_mq)
           on == d_mq[1].on
           limit == (d_waketime + d_max_duration) % d_ClockMod
           late == m # <<>> /\ Out!TooLate(Out!Limited(on), limit, m[1].waketime)
<1>1. /\ DigTypes /\ d_now \in Nat /\ d_since \in Nat /\ d_last \in Nat
      /\ d_last <= d_now + d_Ahead /\ d_mq \in Seq(DigMove)
  BY Zenon DEF DigInv, DigTypes
<1>2. PICK w : \E e, t \in Nat :
          DueTimes(w, d_mq, d_ClockMod, d_now, d_last) /\ DigEnd(w, e) /\ DigTimer(e, t)
  BY Zenon DEF DigInv
<1>3. d_waketime = d_now % d_ClockMod /\ d_since' = d_now /\ d_now' = d_now /\ d_last' = d_last
  BY Zenon DEF Out!digital_load_event, Out!Clock
<1>4. CASE Out!run_shutdown
  BY Zenon, <1>1, <1>3, <1>4, NatOrder, DigShut
<1>5. CASE d_mq # <<>> /\ ~late /\ Out!Load(on, m)
  <2> DEFINE v == Tail(w)
             lim == Out!Limited(on)
             ends == lim \/ m # <<>>
  <2>1. /\ DueTimes(v, m, d_ClockMod, d_now, d_last)
        /\ m \in Seq(DigMove)
    BY Zenon, <1>1, <1>2, <1>5, DueTail
  <2>2. on \in Nat
    <3>1. d_mq[1] \in DigMove
      BY Zenon, <1>1, <1>5, FrontOfSeq
    <3> QED BY Zenon, <3>1, DigConstants DEF DigMove
  <2>3. /\ limit = (d_now + d_max_duration) % d_ClockMod
        /\ (d_waketime + on) % d_ClockMod = (d_now + on) % d_ClockMod
    <3> HIDE DEF on
    <3> QED BY ZenonT(30), <1>1, <1>3, <2>2, DigConstants, ClockAdd
  <2> DEFINE end == IF m # <<>> THEN m[1].waketime ELSE IF lim THEN limit ELSE 0
             fall == (d_waketime + on) % d_ClockMod
             pulses == Out!Pulsing(on) /\ ~(ends /\ ~Out!timer_is_before(fall, end))
  <2>4. /\ d_pin' = (on > 0)
        /\ changed' = d_now
        /\ d_mq' = m
        /\ end_time' = end
        /\ flags' = (IF Out!Pulsing(on) THEN {"toggling"} ELSE {})
                    \cup (IF ends THEN {"check_end"} ELSE {})
        /\ d_func' = IF pulses THEN "toggle" ELSE IF ends THEN "load" ELSE "none"
        /\ d_waketime' = IF pulses THEN fall ELSE IF ends THEN end ELSE d_waketime
        /\ on_duration' = IF pulses THEN on ELSE on_duration
    BY Zenon, <1>5 DEF Out!Load, Out!Clock
  <2> HIDE DEF m, on, v
  <2>5. m # <<>> => v[1] \in Nat /\ m[1].waketime = v[1] % d_ClockMod /\ d_now <= v[1]
                    /\ v[1] <= d_last
    BY <2>1, DueFirst
  <2> HIDE DEF limit
  <2>6. PICK e \in Nat : /\ e = IF m # <<>> THEN v[1] ELSE d_now + d_max_duration
                         /\ d_now <= e /\ e <= d_now + d_max_duration + d_Ahead
    <3>1. CASE m # <<>>
      <4>1. v[1] \in Nat /\ v[1] <= d_now + d_Ahead
        <5>1. v[1] \in Nat /\ d_now + d_Ahead \in Nat
          BY Zenon, <1>1, <2>5, <3>1, DigConstants, NatOrder
        <5> QED BY Zenon, <1>1, <2>5, <3>1, <5>1, NatTransitive
      <4> QED BY Zenon, <1>1, <2>5, <3>1, <4>1, DigConstants, WithinSum
    <3>2. CASE m = <<>>
      BY <1>1, <3>2, DigConstants
    <3> QED BY Zenon, <3>1, <3>2
  <2>7. ends => end = e % d_ClockMod
    BY Zenon, <2>3, <2>5, <2>6
  <2>8. DigSoon(d_now, e) /\ DigSoon(d_now, d_now + d_max_duration)
    BY <1>1, <2>6, DigConstants DEF DigSoon
  <2>9. lim => e <= d_now + d_max_duration
    <3>1. CASE m = <<>>
      BY Zenon, <1>1, <2>6, <3>1, DigConstants, NatOrder
    <3>2. CASE m # <<>> /\ lim
      <4> DEFINE g == d_now + d_max_duration
      <4>1. g \in Nat /\ DigSoon(d_now, g)
        BY Zenon, <1>1, <2>8, DigConstants, NatOrder
      <4>2. ~Out!timer_is_before(g % d_ClockMod, e % d_ClockMod)
        BY Zenon, <1>5, <2>3, <2>5, <2>6, <3>2 DEF Out!TooLate
      <4> HIDE DEF g
      <4>3. Out!timer_is_before(g % d_ClockMod, e % d_ClockMod) <=> g < e
        BY Zenon, <1>1, <2>8, <4>1, DigBefore
      <4>4. e <= g
        BY Zenon, <2>6, <4>1, <4>2, <4>3, NatTotal
      <4> QED BY Zenon, <4>4 DEF g
    <3> QED BY Zenon, <3>1, <3>2
  <2>l. lim <=> (d_max_duration > 0 /\ ((on > 0) # default_on \/ Out!Pulsing(on)))
    BY Zenon DEF Out!Limited
  <2>p. (Out!Pulsing(on) <=> (on > 0 /\ on < cycle_time)) /\ Out!Pulsing(on) \in BOOLEAN
    BY Zenon DEF Out!Pulsing
  <2> HIDE DEF lim
  <2>10. PICK f \in Nat : f = d_now + on
    BY Zenon, <1>1, <2>2, NatOrder
  <2>11. Out!Pulsing(on) => d_now <= f /\ DigSoon(d_now, f)
    <3> SUFFICES ASSUME Out!Pulsing(on) PROVE d_now <= f /\ DigSoon(d_now, f)
      BY Zenon
    <3>1. on <= cycle_time /\ d_now <= d_now + on
      BY Zenon, <1>1, <2>2, <2>p, DigConstants, RestOfCycle, NatOrder
    <3>2. d_now + on <= d_now + cycle_time
      BY <1>1, <2>2, <3>1, DigConstants
    <3> QED BY Zenon, <1>1, <2>10, <3>1, <3>2, DigConstants, WithinSum DEF DigSoon
  <2>12. Out!Pulsing(on) =>
          (Out!timer_is_before(f % d_ClockMod, e % d_ClockMod) <=> f < e)
    BY Zenon, <1>1, <2>8, <2>11, DigBefore
  <2>13. fall = f % d_ClockMod
    BY Zenon, <2>3, <2>10
  <2> HIDE DEF end, fall
  <2>14. pulses <=> Out!Pulsing(on) /\ (ends => f < e)
    BY Zenon, <2>7, <2>12, <2>13
  <2> HIDE DEF pulses
  <2>15. PICK t \in Nat : t = IF pulses THEN f ELSE e
    BY Zenon
  <2>16. ("toggling" \in flags' <=> Out!Pulsing(on)) /\ ("check_end" \in flags' <=> ends)
    BY Zenon, <2>4, <2>p
  <2>17. DigTypes'
    <3>1. on_duration \in Nat
      BY Zenon, <1>1 DEF DigTypes
    <3>2. d_pin' \in BOOLEAN /\ on_duration' \in Nat /\ d_func' \in {"none", "load", "toggle"}
      BY Zenon, <2>2, <2>4, <3>1, NatCompare
    <3>3. /\ d_now' \in Nat /\ d_since' \in Nat /\ d_since' <= d_now' /\ changed' \in Nat
          /\ changed' <= d_now' /\ d_last' \in Nat /\ d_last' <= d_now' + d_Ahead
      BY <1>1, <1>3, <2>4
    <3>4. d_mq' \in Seq(DigMove)
      BY Zenon, <2>1, <2>4
    <3> QED BY Zenon, <3>2, <3>3, <3>4 DEF DigTypes
  <2>18. DueTimes(v, d_mq, d_ClockMod, d_now, d_last)'
    BY Zenon, <1>3, <2>1, <2>4 DEF v
  <2>19. DigEnd(v, e)'
    <3>1. ends => end_time' = e % d_ClockMod /\ d_func' # "none"
      BY Zenon, <2>4, <2>7
    <3>2. m # <<>> => ends /\ e = v[1]
      BY Zenon, <2>6
    <3>3. d_max_duration > 0 /\ (d_pin' # default_on \/ "toggling" \in flags') => lim
      BY Zenon, <2>l, <2>4, <2>16
    <3>4. lim => ends
      BY Zenon
    <3> HIDE DEF ends
    <3> QED BY Zenon, <1>3, <2>4, <2>6, <2>9, <2>16, <3>1, <3>2, <3>3, <3>4 DEF DigEnd, v
  <2> HIDE DEF ends
  <2>20. DigTimer(e, t)'
    <3>1. CASE pulses
      <4>1. t = f /\ Out!Pulsing(on) /\ (ends => f < e)
        BY Zenon, <2>14, <2>15, <3>1
      <4>2. d_func' = "toggle" /\ d_waketime' = f % d_ClockMod /\ on_duration' = on
        BY Zenon, <2>4, <2>13, <3>1
      <4>3. d_pin' = TRUE /\ 0 < on /\ on < cycle_time /\ d_now <= f
        BY Zenon, <2>2, <2>p, <2>4, <2>11, <4>1
      <4>4. changed' + (IF d_pin' THEN on_duration' ELSE cycle_time - on_duration') = f
        BY Zenon, <2>4, <2>10, <4>2, <4>3
      <4> QED BY Zenon, <1>3, <2>16, <4>1, <4>2, <4>3, <4>4 DEF DigTimer
    <3>2. CASE ~pulses /\ ends
      <4>1. t = e /\ d_func' = "load" /\ d_waketime' = e % d_ClockMod
        BY Zenon, <2>4, <2>7, <2>15, <3>2
      <4> QED BY Zenon, <1>3, <2>6, <2>16, <3>2, <4>1 DEF DigTimer
    <3>3. CASE ~pulses /\ ~ends
      <4>1. ~Out!Pulsing(on) /\ d_func' = "none"
        BY Zenon, <2>4, <2>14, <3>3
      <4> QED BY Zenon, <2>16, <4>1 DEF DigTimer
    <3> QED BY Zenon, <3>1, <3>2, <3>3
  <2> QED BY ZenonT(30), <2>17, <2>18, <2>19, <2>20 DEF DigInv
<1> QED BY Zenon, <1>4, <1>5 DEF Out!digital_load_event, Out!Clock

\* digital_toggle_event(): the next change is a toggle, or the end if that comes first.
LEMMA DigToggle ==
    ASSUME DigInv, Out!digital_toggle_event
    PROVE  DigInv'
<1>1. /\ DigTypes /\ d_now \in Nat /\ d_pin \in BOOLEAN /\ on_duration \in Nat
  BY Zenon DEF DigInv, DigTypes
<1>w. PICK w : \E e, t \in Nat :
          DueTimes(w, d_mq, d_ClockMod, d_now, d_last) /\ DigEnd(w, e) /\ DigTimer(e, t)
  BY Zenon DEF DigInv
<1>2. PICK e \in Nat, t \in Nat :
          DueTimes(w, d_mq, d_ClockMod, d_now, d_last) /\ DigEnd(w, e) /\ DigTimer(e, t)
  BY Zenon, <1>w
<1> DEFINE next == (d_waketime + Out!Duration(~d_pin)) % d_ClockMod
           ends == "check_end" \in flags /\ ~Out!timer_is_before(next, end_time)
<1>3. /\ d_func = "toggle" /\ d_waketime = d_now % d_ClockMod
      /\ d_pin' = ~d_pin /\ changed' = d_now
      /\ d_func' = IF ends THEN "load" ELSE "toggle"
      /\ d_waketime' = IF ends THEN end_time ELSE next
      /\ UNCHANGED <<d_now, flags, on_duration, end_time, d_mq, d_last, d_since>>
  BY Zenon DEF Out!digital_toggle_event, Out!Clock
<1>4. "toggling" \in flags /\ 0 < on_duration /\ on_duration < cycle_time
  BY Zenon, <1>2, <1>3 DEF DigTimer
<1>d. Out!Duration(~d_pin) = IF d_pin THEN cycle_time - on_duration ELSE on_duration
  BY Zenon, <1>1 DEF Out!Duration
<1>5. PICK k \in Nat : k = Out!Duration(~d_pin) /\ k <= cycle_time
  <2>1. CASE d_pin = TRUE
    BY Zenon, <1>1, <1>4, <1>d, <2>1, DigConstants, RestOfCycle
  <2>2. CASE d_pin = FALSE
    BY Zenon, <1>1, <1>4, <1>d, <2>2, DigConstants, RestOfCycle
  <2> QED BY Zenon, <1>1, <2>1, <2>2
<1>6. PICK f \in Nat : f = d_now + k /\ d_now <= f
  BY <1>1
<1>7. next = f % d_ClockMod
  <2>1. ((d_now % d_ClockMod) + k) % d_ClockMod = (d_now + k) % d_ClockMod
    BY Zenon, <1>1, DigConstants, ClockAdd
  <2> QED BY Zenon, <1>3, <1>5, <1>6, <2>1
<1>8. DigSoon(d_now, f)
  <2>1. d_now + k <= d_now + cycle_time
    BY <1>1, <1>5, DigConstants
  <2> QED BY Zenon, <1>1, <1>6, <2>1, DigConstants, WithinSum DEF DigSoon
<1>9. "check_end" \in flags => end_time = e % d_ClockMod /\ d_now <= e /\ DigSoon(d_now, e)
  <2> SUFFICES ASSUME "check_end" \in flags
               PROVE  end_time = e % d_ClockMod /\ d_now <= e /\ DigSoon(d_now, e)
    BY Zenon
  <2>1. end_time = e % d_ClockMod /\ d_now <= e /\ e <= d_now + d_max_duration + d_Ahead
    BY Zenon, <1>2 DEF DigEnd
  <2> QED BY <1>1, <2>1, DigConstants DEF DigSoon
<1> HIDE DEF next
<1>10. ends <=> "check_end" \in flags /\ ~(f < e)
  BY Zenon, <1>1, <1>7, <1>8, <1>9, DigBefore
<1> HIDE DEF ends
<1>11. DigTypes'
  BY <1>1, <1>3 DEF DigTypes
<1>12. DueTimes(w, d_mq, d_ClockMod, d_now, d_last)'
  BY Zenon, <1>2, <1>3
<1>13. DigEnd(w, e)'
  BY Zenon, <1>2, <1>3, <1>4 DEF DigEnd
<1>14. CASE ends
  <2>1. DigTimer(e, e)'
    BY Zenon, <1>3, <1>9, <1>10, <1>14 DEF DigTimer
  <2> QED BY Zenon, <1>11, <1>12, <1>13, <2>1 DEF DigInv
<1>15. CASE ~ends
  <2>1. f = changed' + (IF d_pin' THEN on_duration' ELSE cycle_time - on_duration')
    BY Zenon, <1>1, <1>3, <1>5, <1>6, <1>d
  <2>2. DigTimer(e, f)'
    BY ZenonT(30), <1>3, <1>4, <1>6, <1>7, <1>10, <1>15, <2>1 DEF DigTimer
  <2> QED BY ZenonT(30), <1>11, <1>12, <1>13, <2>2 DEF DigInv
<1> QED BY Zenon, <1>14, <1>15

\* command_queue_digital_out(): the update is queued, and is the end of what goes on if it is
\* the first.
LEMMA DigQueue ==
    ASSUME DigInv, Out!command_queue_digital_out
    PROVE  DigInv'
<1>1. /\ DigTypes /\ d_now \in Nat /\ d_since \in Nat /\ d_since <= d_now /\ d_last \in Nat
      /\ d_last <= d_now + d_Ahead /\ d_mq \in Seq(DigMove) /\ on_duration \in Nat
      /\ d_pin \in BOOLEAN /\ changed \in Nat /\ changed <= d_now
  BY Zenon DEF DigInv, DigTypes
<1>w. PICK w : \E e, t \in Nat :
          DueTimes(w, d_mq, d_ClockMod, d_now, d_last) /\ DigEnd(w, e) /\ DigTimer(e, t)
  BY Zenon DEF DigInv
<1>2. PICK e \in Nat, t \in Nat :
          DueTimes(w, d_mq, d_ClockMod, d_now, d_last) /\ DigEnd(w, e) /\ DigTimer(e, t)
  BY Zenon, <1>w
<1>3. PICK due \in d_now + 1 .. d_now + d_Ahead, on \in OnTicks :
        LET time == Out!Clock(due)
            m == [waketime |-> time, on |-> on]
        IN  /\ due > d_last
            /\ d_last' = due
            /\ \/ /\ d_mq # <<>>
                  /\ d_mq' = Append(d_mq, m)
                  /\ UNCHANGED <<d_pin, flags, d_func, d_waketime, on_duration, end_time,
                                 d_shutdown, changed>>
               \/ /\ d_mq = <<>> /\ Out!TooLate("check_end" \in flags, end_time, time)
                  /\ Out!run_shutdown
               \/ /\ d_mq = <<>> /\ ~Out!TooLate("check_end" \in flags, end_time, time)
                  /\ d_mq' = <<m>>
                  /\ end_time' = time
                  /\ flags' = flags \cup {"check_end"}
                  /\ d_func' = IF Out!LeftToToggle(time) THEN d_func ELSE "load"
                  /\ d_waketime' = IF Out!LeftToToggle(time) THEN d_waketime ELSE time
                  /\ UNCHANGED <<d_pin, on_duration, d_shutdown, changed>>
  BY Zenon DEF Out!command_queue_digital_out
<1> DEFINE time == Out!Clock(due)
           m == [waketime |-> time, on |-> on]
<1>4. due > d_last /\ d_last' = due
  BY Zenon, <1>3
<1>5. d_now' = d_now /\ d_since' = d_since
  BY Zenon DEF Out!command_queue_digital_out
<1>6. due \in Nat /\ d_now <= due /\ due <= d_now + d_Ahead
  BY <1>1, DigConstants
<1>7. m \in DigMove /\ m.waketime = due % d_ClockMod /\ time = due % d_ClockMod
  BY <1>6, DigConstants DEF Out!Clock, DigMove
<1>8. CASE d_mq = <<>> /\ Out!run_shutdown
  BY Zenon, <1>1, <1>4, <1>5, <1>6, <1>8, DigShut
<1>9. CASE /\ d_mq # <<>>
           /\ d_mq' = Append(d_mq, m)
           /\ UNCHANGED <<d_pin, flags, d_func, d_waketime, on_duration, end_time,
                          d_shutdown, changed>>
  <2> HIDE DEF m, time
  <2>1. /\ DueTimes(Append(w, due), Append(d_mq, m), d_ClockMod, d_now, due)
        /\ Append(w, due)[1] = w[1]
    <3>1. DueTimes(w, d_mq, d_ClockMod, d_now, d_last) /\ d_last < due
      BY Zenon, <1>1, <1>2, <1>4, <1>6
    <3>2. CanFollow(DigMove, d_mq, w, d_ClockMod, d_now, d_last, due, m)
      BY Zenon, <1>1, <1>6, <1>7, <3>1 DEF CanFollow
    <3> QED BY <1>9, <3>2, DueAppend
  <2>2. Append(d_mq, m) \in Seq(DigMove) /\ Append(d_mq, m) # <<>>
    BY ZenonT(30), <1>1, <1>7, SeqAppend
  <2>3. DigTypes'
    BY Zenon, <1>1, <1>4, <1>5, <1>6, <1>9, <2>2 DEF DigTypes
  <2>4. DueTimes(Append(w, due), d_mq, d_ClockMod, d_now, d_last)'
    BY Zenon, <1>4, <1>5, <1>9, <2>1
  <2>5. DigEnd(Append(w, due), e)'
    BY Zenon, <1>2, <1>5, <1>9, <2>1, <2>2 DEF DigEnd
  <2>6. DigTimer(e, t)'
    BY Zenon, <1>2, <1>5, <1>9 DEF DigTimer
  <2> QED BY Zenon, <2>3, <2>4, <2>5, <2>6 DEF DigInv
<1>10. CASE /\ d_mq = <<>> /\ ~Out!TooLate("check_end" \in flags, end_time, time)
            /\ d_mq' = <<m>>
            /\ end_time' = time
            /\ flags' = flags \cup {"check_end"}
            /\ d_func' = IF Out!LeftToToggle(time) THEN d_func ELSE "load"
            /\ d_waketime' = IF Out!LeftToToggle(time) THEN d_waketime ELSE time
            /\ UNCHANGED <<d_pin, on_duration, d_shutdown, changed>>
  <2> DEFINE v == <<due>>
             q == <<m>>
             toggles == Out!LeftToToggle(time)
  <2>0. v[1] = due /\ q # <<>>
    BY Zenon
  <2> HIDE DEF m, time
  <2>1. DueTimes(v, q, d_ClockMod, d_now, due) /\ q \in Seq(DigMove)
    <3>1. v \in Seq(Nat) /\ Len(v) = 1 /\ q \in Seq(DigMove) /\ Len(q) = 1 /\ q[1] = m
      BY <1>6, <1>7
    <3> HIDE DEF v, q
    <3>2. /\ \A i \in 1..1 : q[i].waketime = v[i] % d_ClockMod /\ d_now <= v[i] /\ v[i] <= due
          /\ \A i, j \in 1..1 : i < j => v[i] < v[j]
      BY Zenon, <1>6, <1>7, <2>0, <3>1, NatOrder, OnlyIndex
    <3> QED BY Zenon, <3>1, <3>2 DEF DueTimes
  <2> HIDE DEF v, q
  <2>2. DigSoon(d_now, due)
    BY Zenon, <1>1, <1>6, DigConstants, WithinSum DEF DigSoon
  <2>3. "check_end" \in flags => DigSoon(d_now, e) /\ due <= e
    <3> SUFFICES ASSUME "check_end" \in flags PROVE DigSoon(d_now, e) /\ due <= e
      BY Zenon
    <3>1. end_time = e % d_ClockMod /\ d_now <= e /\ e <= d_now + d_max_duration + d_Ahead
      BY Zenon, <1>2 DEF DigEnd
    <3>2. DigSoon(d_now, e)
      BY <1>1, <3>1, DigConstants DEF DigSoon
    <3>3. ~Out!timer_is_before(e % d_ClockMod, due % d_ClockMod)
      BY Zenon, <1>7, <1>10, <3>1 DEF Out!TooLate
    <3>4. ~(e < due)
      BY Zenon, <1>1, <2>2, <3>2, <3>3, DigBefore
    <3> QED BY <1>6, <3>2, <3>4
  <2>4. toggles => d_func = "toggle" /\ t < due
    <3> SUFFICES ASSUME toggles PROVE d_func = "toggle" /\ t < due
      BY Zenon
    <3>1. "toggling" \in flags /\ Out!timer_is_before(d_waketime, due % d_ClockMod)
      BY Zenon, <1>7 DEF Out!LeftToToggle
    <3>2. d_func # "none" /\ d_waketime = t % d_ClockMod /\ d_now <= t
      BY Zenon, <1>2, <3>1 DEF DigTimer
    <3>3. d_func \in {"load", "toggle"}
      BY Zenon, <1>1, <3>2 DEF DigTypes
    <3>4. CASE d_func = "load"
      <4>1. "check_end" \in flags /\ t = e
        BY Zenon, <1>2, <3>4 DEF DigTimer
      <4>2. DigSoon(d_now, t) /\ due <= t
        BY Zenon, <2>3, <4>1
      <4>3. t < due
        BY Zenon, <1>1, <2>2, <3>1, <3>2, <4>2, DigBefore
      <4> QED BY <1>6, <4>2, <4>3
    <3>5. CASE d_func = "toggle"
      <4>1. /\ 0 < on_duration /\ on_duration < cycle_time
            /\ t = changed + (IF d_pin THEN on_duration ELSE cycle_time - on_duration)
        BY Zenon, <1>2, <3>5 DEF DigTimer
      <4>2. t <= d_now + cycle_time
        BY <1>1, <4>1, DigConstants
      <4>3. DigSoon(d_now, t)
        BY Zenon, <1>1, <3>2, <4>2, DigConstants, WithinSum DEF DigSoon
      <4>4. t < due
        BY Zenon, <1>1, <2>2, <3>1, <3>2, <4>3, DigBefore
      <4> QED BY Zenon, <3>5, <4>4
    <3> QED BY Zenon, <3>3, <3>4, <3>5
  <2> HIDE DEF toggles
  <2>5. /\ d_mq' = q /\ end_time' = due % d_ClockMod /\ "check_end" \in flags'
        /\ ("toggling" \in flags' <=> "toggling" \in flags)
        /\ d_func' = IF toggles THEN d_func ELSE "load"
        /\ d_waketime' = IF toggles THEN d_waketime ELSE due % d_ClockMod
        /\ UNCHANGED <<d_pin, on_duration, d_shutdown, changed>>
    BY Zenon, <1>7, <1>10 DEF q, toggles
  <2>6. d_func' \in {"load", "toggle"} /\ d_func' # "none"
    BY Zenon, <2>4, <2>5
  <2>7. DigTypes'
    <3>1. d_last' \in Nat /\ d_last' <= d_now' + d_Ahead
      BY Zenon, <1>4, <1>5, <1>6
    <3> QED BY ZenonT(30), <1>1, <1>5, <2>1, <2>5, <2>6, <3>1 DEF DigTypes
  <2>8. DueTimes(v, d_mq, d_ClockMod, d_now, d_last)'
    BY Zenon, <1>4, <1>5, <2>1, <2>5 DEF v
  <2>9. DigEnd(v, due)'
    <3>1. d_max_duration > 0 /\ (d_pin # default_on \/ "toggling" \in flags) =>
            due <= d_since + d_max_duration
      <4> SUFFICES ASSUME d_max_duration > 0, d_pin # default_on \/ "toggling" \in flags
                   PROVE  due <= d_since + d_max_duration
        BY Zenon
      <4>1. "check_end" \in flags /\ e <= d_since + d_max_duration
        BY Zenon, <1>2 DEF DigEnd
      <4>2. d_since + d_max_duration \in Nat
        BY Zenon, <1>1, DigConstants, NatOrder
      <4> QED BY Zenon, <1>6, <2>3, <4>1, <4>2, NatTransitive
    <3>2. due <= d_now + d_max_duration + d_Ahead
      BY Zenon, <1>1, <1>6, DigConstants, WithinSum
    <3> QED BY ZenonT(30), <1>5, <1>6, <2>0, <2>5, <2>6, <3>1, <3>2 DEF DigEnd, v
  <2>10. CASE toggles
    <3>1. DigTimer(due, t)'
      BY Zenon, <1>2, <1>5, <2>4, <2>5, <2>10 DEF DigTimer
    <3> QED BY Zenon, <1>6, <2>7, <2>8, <2>9, <3>1 DEF DigInv
  <2>11. CASE ~toggles
    <3>1. DigTimer(due, due)'
      BY Zenon, <1>5, <1>6, <2>5, <2>11 DEF DigTimer
    <3> QED BY ZenonT(30), <1>6, <2>7, <2>8, <2>9, <3>1 DEF DigInv
  <2> QED BY Zenon, <2>10, <2>11
<1> QED BY Zenon, <1>3, <1>8, <1>9, <1>10

\* command_update_digital_out()
LEMMA DigUpdate ==
    ASSUME DigInv, Out!command_update_digital_out
    PROVE  DigInv'
<1>1. /\ DigTypes /\ d_now \in Nat /\ d_last \in Nat /\ d_last <= d_now + d_Ahead
      /\ on_duration \in Nat
  BY Zenon DEF DigInv, DigTypes
<1>2. PICK on \in {0, cycle_time} :
          LET limited == (on > 0) # default_on /\ d_max_duration > 0
          IN  \/ d_mq # <<>> /\ Out!run_shutdown
              \/ /\ d_mq = <<>>
                 /\ d_pin' = (on > 0)
                 /\ changed' = d_now
                 /\ flags' = IF limited THEN {"check_end"} ELSE {}
                 /\ end_time' = IF limited THEN Out!Clock(d_now + d_max_duration) ELSE end_time
                 /\ d_waketime' = IF limited THEN Out!Clock(d_now + d_max_duration)
                                  ELSE d_waketime
                 /\ d_func' = IF limited THEN "load" ELSE "none"
                 /\ UNCHANGED <<on_duration, d_mq, d_shutdown>>
  BY Zenon DEF Out!command_update_digital_out
<1>3. d_since' = d_now /\ d_now' = d_now /\ d_last' = d_last
  BY Zenon DEF Out!command_update_digital_out
<1> DEFINE limited == (on > 0) # default_on /\ d_max_duration > 0
<1>4. CASE Out!run_shutdown
  BY Zenon, <1>1, <1>3, <1>4, NatOrder, DigShut
<1>5. CASE /\ d_mq = <<>>
           /\ d_pin' = (on > 0)
           /\ changed' = d_now
           /\ flags' = IF limited THEN {"check_end"} ELSE {}
           /\ end_time' = IF limited THEN Out!Clock(d_now + d_max_duration) ELSE end_time
           /\ d_waketime' = IF limited THEN Out!Clock(d_now + d_max_duration) ELSE d_waketime
           /\ d_func' = IF limited THEN "load" ELSE "none"
           /\ UNCHANGED <<on_duration, d_mq, d_shutdown>>
  <2>1. DigTypes'
    <3>1. /\ d_now' \in Nat /\ d_since' \in Nat /\ d_since' <= d_now' /\ changed' \in Nat
          /\ changed' <= d_now' /\ d_last' \in Nat /\ d_last' <= d_now' + d_Ahead
      BY Zenon, <1>1, <1>3, <1>5, NatOrder
    <3>2. d_pin' \in BOOLEAN /\ on_duration' \in Nat /\ d_func' \in {"none", "load", "toggle"}
      <4>1. on \in Nat
        BY DigConstants
      <4> HIDE DEF limited
      <4> QED BY Zenon, <1>1, <1>5, <4>1, NatCompare
    <3>3. d_mq' \in Seq(DigMove)
      BY <1>5
    <3> QED BY Zenon, <3>1, <3>2, <3>3 DEF DigTypes
  <2>2. DueTimes(<<>>, d_mq, d_ClockMod, d_now, d_last)'
    BY Zenon, <1>5, DueEmpty
  <2>3. PICK e \in Nat : e = d_now + d_max_duration /\ d_now <= e
                         /\ e <= d_now + d_max_duration + d_Ahead
    BY <1>1, DigConstants
  <2> HIDE DEF limited
  <2>4. CASE limited
    <3>1. /\ flags' = {"check_end"} /\ end_time' = e % d_ClockMod
          /\ d_waketime' = e % d_ClockMod /\ d_func' = "load"
      BY Zenon, <1>5, <2>3, <2>4 DEF Out!Clock
    <3>2. DigEnd(<<>>, e)' /\ DigTimer(e, e)'
      BY Zenon, <1>3, <1>5, <2>3, <3>1, NatOrder DEF DigEnd, DigTimer
    <3> QED BY Zenon, <2>1, <2>2, <3>2 DEF DigInv
  <2>5. CASE ~limited
    <3>1. flags' = {} /\ d_func' = "none"
      BY Zenon, <1>5, <2>5
    <3>2. d_max_duration > 0 => d_pin' = default_on
      BY Zenon, <1>5, <2>5 DEF limited
    <3>3. DigEnd(<<>>, e)' /\ DigTimer(e, e)'
      BY Zenon, <1>5, <3>1, <3>2 DEF DigEnd, DigTimer
    <3> QED BY Zenon, <2>1, <2>2, <3>3 DEF DigInv
  <2> QED BY Zenon, <2>4, <2>5
<1> QED BY Zenon, <1>2, <1>4, <1>5

\* Time passes when no timer is due.
LEMMA DigTick ==
    ASSUME DigInv, Out!Tick
    PROVE  DigInv'
<1>1. /\ DigTypes /\ d_now \in Nat /\ d_since \in Nat /\ d_since <= d_now /\ d_last \in Nat
      /\ d_last <= d_now + d_Ahead /\ d_mq \in Seq(DigMove) /\ changed \in Nat /\ changed <= d_now
  BY Zenon DEF DigInv, DigTypes
<1>w. PICK w : \E e, t \in Nat :
          DueTimes(w, d_mq, d_ClockMod, d_now, d_last) /\ DigEnd(w, e) /\ DigTimer(e, t)
  BY Zenon DEF DigInv
<1>2. PICK e \in Nat, t \in Nat :
          DueTimes(w, d_mq, d_ClockMod, d_now, d_last) /\ DigEnd(w, e) /\ DigTimer(e, t)
  BY Zenon, <1>w
<1>3. /\ d_func # "none" => d_waketime # d_now % d_ClockMod
      /\ d_now' = d_now + 1
      /\ UNCHANGED <<d_pin, flags, d_func, d_waketime, on_duration, end_time, d_mq, d_last,
                     d_since, changed>>
  BY Zenon DEF Out!Tick, Out!Clock, Out!dVars
<1>4. d_func # "none" => d_now + 1 <= t
  <2> SUFFICES ASSUME d_func # "none" PROVE d_now + 1 <= t
    BY Zenon
  <2>1. d_waketime = t % d_ClockMod /\ d_now <= t
    BY Zenon, <1>2 DEF DigTimer
  <2>2. t # d_now
    BY Zenon, <1>3, <2>1
  <2> QED BY <1>1, <2>1, <2>2
<1>5. "check_end" \in flags => d_now + 1 <= e /\ e < d_now + d_ClockMod
  <2> SUFFICES ASSUME "check_end" \in flags PROVE d_now + 1 <= e /\ e < d_now + d_ClockMod
    BY Zenon
  <2>1. d_func # "none" /\ e <= d_now + d_max_duration + d_Ahead
    BY Zenon, <1>2 DEF DigEnd
  <2>2. t = e \/ t < e
    BY Zenon, <1>1, <1>2, <2>1 DEF DigTimer, DigTypes
  <2> QED BY Zenon, <1>1, <1>4, <2>1, <2>2, DigConstants, StillAhead
<1>6. d_mq # <<>> => d_mq[1].waketime # d_now % d_ClockMod
  <2> SUFFICES ASSUME d_mq # <<>>, d_mq[1].waketime = d_now % d_ClockMod PROVE FALSE
    BY Zenon
  <2>1. "check_end" \in flags /\ e = w[1]
    BY Zenon, <1>2 DEF DigEnd
  <2>2. d_mq[1].waketime = w[1] % d_ClockMod
    <3>1. d_mq \in Seq(DigMove) /\ DueTimes(w, d_mq, d_ClockMod, d_now, d_last)
      BY Zenon, <1>1, <1>2
    <3> QED BY <3>1, DueFirst
  <2>3. d_now <= e /\ e < d_now + d_ClockMod /\ d_now + 1 <= e
    BY <1>1, <1>5, <2>1
  <2>4. d_now % d_ClockMod = e % d_ClockMod
    BY Zenon, <2>1, <2>2
  <2>5. d_now = e
    BY ZenonT(30), <1>1, <2>3, <2>4, DigConstants, ModInjective
  <2> QED BY Zenon, <1>1, <2>3, <2>5, NatOrder
<1>7. DueTimes(w, d_mq, d_ClockMod, d_now + 1, d_last)
  BY Zenon, <1>1, <1>2, <1>6, DueTick
<1>8. DigTypes'
  <2>1. /\ d_now' \in Nat /\ d_since <= d_now' /\ changed <= d_now'
        /\ d_last <= d_now' + d_Ahead
    BY <1>1, <1>3, DigConstants
  <2> QED BY Zenon, <1>1, <1>3, <2>1 DEF DigTypes
<1>9. DigEnd(w, e)'
  <2>1. e <= d_now + d_max_duration + d_Ahead => e <= d_now + 1 + d_max_duration + d_Ahead
    BY <1>1, DigConstants
  <2> QED BY ZenonT(30), <1>2, <1>3, <1>5, <2>1 DEF DigEnd
<1>10. DigTimer(e, t)'
  BY Zenon, <1>2, <1>3, <1>4 DEF DigTimer
<1> QED BY Zenon, <1>3, <1>7, <1>8, <1>9, <1>10 DEF DigInv

\* Every step keeps it.
LEMMA DigStep ==
    ASSUME DigInv, [Out!Next]_(Out!vars)
    PROVE  DigInv'
<1>1. CASE Out!sched_clear_shutdown \/ UNCHANGED Out!vars
  <2>1. UNCHANGED <<d_now, d_pin, flags, d_func, d_waketime, on_duration, end_time, d_mq, d_last,
                    d_since, changed>>
    BY Zenon, <1>1 DEF Out!sched_clear_shutdown, Out!vars, Out!dVars
  <2>2. DigTypes'
    BY Zenon, <2>1 DEF DigInv, DigTypes
  <2>w. PICK w : \E e, t \in Nat :
            DueTimes(w, d_mq, d_ClockMod, d_now, d_last) /\ DigEnd(w, e) /\ DigTimer(e, t)
    BY Zenon DEF DigInv
  <2>3. PICK e \in Nat, t \in Nat :
            DueTimes(w, d_mq, d_ClockMod, d_now, d_last) /\ DigEnd(w, e) /\ DigTimer(e, t)
    BY Zenon, <2>w
  <2>4. DueTimes(w, d_mq, d_ClockMod, d_now, d_last)'
    BY Zenon, <2>1, <2>3
  <2>5. DigEnd(w, e)' /\ DigTimer(e, t)'
    BY Zenon, <2>1, <2>3 DEF DigEnd, DigTimer
  <2> QED BY Zenon, <2>2, <2>4, <2>5 DEF DigInv
<1> QED BY ZenonT(30), <1>1, DigLoadEvent, DigToggle, DigQueue, DigUpdate, DigTick DEF Out!Next

\* The output is in time in every state of the invariant.
LEMMA DigOnTime ==
    ASSUME DigInv
    PROVE  Out!QueueOnTime /\ Out!PulseWidth /\ Out!MaxDuration
<1>1. /\ DigTypes /\ d_now \in Nat /\ d_since \in Nat /\ d_last \in Nat
      /\ d_last <= d_now + d_Ahead /\ d_mq \in Seq(DigMove)
  BY Zenon DEF DigInv, DigTypes
<1>w. PICK w : \E e, t \in Nat :
          DueTimes(w, d_mq, d_ClockMod, d_now, d_last) /\ DigEnd(w, e) /\ DigTimer(e, t)
  BY Zenon DEF DigInv
<1>2. PICK e \in Nat, t \in Nat :
          DueTimes(w, d_mq, d_ClockMod, d_now, d_last) /\ DigEnd(w, e) /\ DigTimer(e, t)
  BY Zenon, <1>w
<1>3. ASSUME d_mq # <<>>
      PROVE  /\ d_func # "none"
             /\ Out!Clock(d_mq[1].waketime - d_now) <= d_Ahead
             /\ Out!Clock(d_waketime - d_now) <= Out!Clock(d_mq[1].waketime - d_now)
  <2>1. "check_end" \in flags /\ e = w[1] /\ d_func # "none"
    BY Zenon, <1>2, <1>3 DEF DigEnd
  <2>2. d_mq[1].waketime = e % d_ClockMod /\ d_now <= e /\ e <= d_last
    <3>1. d_mq \in Seq(DigMove) /\ DueTimes(w, d_mq, d_ClockMod, d_now, d_last)
      BY Zenon, <1>1, <1>2
    <3> QED BY <1>3, <2>1, <3>1, DueFirst
  <2>3. d_waketime = t % d_ClockMod /\ d_now <= t
    BY Zenon, <1>2, <2>1 DEF DigTimer
  <2>4. t = e \/ t < e
    BY Zenon, <1>1, <1>2, <2>1 DEF DigTimer, DigTypes
  <2>5. e < d_now + d_ClockMod /\ t < d_now + d_ClockMod /\ t <= e /\ e <= d_now + d_Ahead
    BY <1>1, <2>2, <2>4, DigConstants
  <2>6. ((e % d_ClockMod) - d_now) % d_ClockMod = e - d_now
    BY ZenonT(30), <1>1, <2>2, <2>5, DigConstants, ClockAway
  <2>7. ((t % d_ClockMod) - d_now) % d_ClockMod = t - d_now
    BY Zenon, <1>1, <2>3, <2>5, DigConstants, ClockAway
  <2>8. e - d_now <= d_Ahead /\ t - d_now <= e - d_now
    BY <1>1, <2>5, DigConstants
  <2> QED BY Zenon, <2>1, <2>2, <2>3, <2>6, <2>7, <2>8 DEF Out!Clock
<1>4. Out!PulseWidth
  BY Zenon, <1>2 DEF DigTimer, Out!PulseWidth
<1>5. ASSUME d_max_duration > 0, d_pin # default_on \/ "toggling" \in flags
      PROVE  d_now <= d_since + d_max_duration
  <2>1. d_now <= e /\ e <= d_since + d_max_duration
    BY Zenon, <1>2, <1>5 DEF DigEnd
  <2> QED BY <1>1, <2>1, DigConstants
<1> QED BY Zenon, <1>3, <1>4, <1>5 DEF Out!QueueOnTime, Out!MaxDuration

-----------------------------------------------------------------------------
\* Outputs change when they must, for every queue of updates, cycle and duration that a
\* 32-bit clock can tell apart: digital_load_event(), digital_toggle_event() and pwm_event()
\* find their update in time, and an output that has a max_duration is back at its default
\* by then.
THEOREM OutputsSafe == Out!Spec /\ Pwm!Spec => []OutputsOnTime
<1>1. DigInv /\ PwmInv => OutputsOnTime
  BY Zenon, DigOnTime, PwmOnTime DEF OutputsOnTime
<1> QED BY <1>1, DigInit, DigStep, PwmInit, PwmStep, PTL DEF Out!Spec, Pwm!Spec
=============================================================================
