------------------------------ MODULE TaskLoop ------------------------------
(***************************************************************************)
(* The main loop of the micro-controller, run_tasks() of src/sched.c, with *)
(* the interrupts that wake tasks, and the shutdown that jumps out of it.  *)
(* Interrupts come between any two steps except where the code disables    *)
(* them.                                                                   *)
(***************************************************************************)
EXTENDS Naturals

CONSTANT N      \* the number of tasks that wait for a task_wake

VARIABLES
    pc,              \* where the main loop is
    task,            \* the task ctr_run_taskfuncs() has come to
    tasks_status,    \* IDLE, REQUESTED or RUNNING
    wake,            \* the flag of each task's task_wake
    work,            \* is there something for the task to do?
    shutdown_status  \* 0, 1 or (while shutdown handlers run) 2

vars == <<pc, task, tasks_status, wake, work, shutdown_status>>

Tasks == 1..N

ASSUME TasksAssumption == N \in Nat \ {0}

Init ==
    /\ pc = "poll"
    /\ task = 1
    /\ tasks_status = "requested"
    /\ wake = [t \in Tasks |-> FALSE]
    /\ work = [t \in Tasks |-> FALSE]
    /\ shutdown_status = 0

-----------------------------------------------------------------------------
\* run_tasks(): the first look at tasks_status.
poll ==
    /\ pc = "poll"
    /\ pc' = IF tasks_status = "requested" THEN "start" ELSE "check"
    /\ UNCHANGED <<task, tasks_status, wake, work, shutdown_status>>

\* Mutant: the loop sleeps without a second look.
check_Once ==
    /\ pc = "check"
    /\ pc' = "sleep" /\ tasks_status' = "idle"
    /\ UNCHANGED <<task, wake, work, shutdown_status>>

\* ... and the second, with interrupts disabled.
check ==
    /\ pc = "check"
    /\ \/ /\ tasks_status = "requested"
          /\ pc' = "start"
          /\ UNCHANGED tasks_status
       \/ /\ tasks_status # "requested"
          /\ pc' = "sleep" /\ tasks_status' = "idle"
    /\ UNCHANGED <<task, wake, work, shutdown_status>>

\* irq_wait() returned and tasks are requested.
awake ==
    /\ pc = "sleep" /\ tasks_status = "requested"
    /\ pc' = "start"
    /\ UNCHANGED <<task, tasks_status, wake, work, shutdown_status>>

\* All tasks are about to be run, so the request is satisfied.
start ==
    /\ pc = "start"
    /\ tasks_status' = "running"
    /\ task' = 1
    /\ pc' = "read"
    /\ UNCHANGED <<wake, work, shutdown_status>>

\* The end of a task function.
NextTask ==
    IF task = N THEN pc' = "poll" /\ UNCHANGED task ELSE pc' = "read" /\ task' = task + 1

\* sched_check_wake(): the flag is read ...
check_wake ==
    /\ pc = "read"
    /\ \/ wake[task] /\ pc' = "clear" /\ UNCHANGED task
       \/ ~wake[task] /\ NextTask
    /\ UNCHANGED <<tasks_status, wake, work, shutdown_status>>

\* ... and cleared.  An interrupt may have set it again in between.
clear_wake ==
    /\ pc = "clear"
    /\ wake' = [wake EXCEPT ![task] = FALSE]
    /\ pc' = "run"
    /\ UNCHANGED <<task, tasks_status, work, shutdown_status>>

\* The body of the task: everything that is there to do is done.
run_task ==
    /\ pc = "run"
    /\ work' = [work EXCEPT ![task] = FALSE]
    /\ NextTask
    /\ UNCHANGED <<tasks_status, wake, shutdown_status>>

\* ... or some is left for the next time: sched_wake_task() outside interrupts is
\* two writes.
wake_self ==
    /\ pc = "run"
    /\ tasks_status' = "requested"
    /\ pc' = "flag"
    /\ UNCHANGED <<task, wake, work, shutdown_status>>

wake_self_flag ==
    /\ pc = "flag"
    /\ wake' = [wake EXCEPT ![task] = TRUE]
    /\ work' = [work EXCEPT ![task] = TRUE]
    /\ NextTask
    /\ UNCHANGED <<tasks_status, shutdown_status>>

-----------------------------------------------------------------------------
IrqEnabled == pc # "shutdown"

\* An interrupt finds work for a task: sched_wake_task().
sched_wake_task(t) ==
    /\ IrqEnabled
    /\ tasks_status' = "requested"
    /\ wake' = [wake EXCEPT ![t] = TRUE]
    /\ work' = [work EXCEPT ![t] = TRUE]
    /\ UNCHANGED <<pc, task, shutdown_status>>

\* Mutant: the periodic timer does not ask for the tasks.
periodic_event_NoWake ==
    /\ IrqEnabled
    /\ UNCHANGED vars

\* periodic_event() asks for the tasks to be run every 100 ms.
periodic_event ==
    /\ IrqEnabled
    /\ tasks_status' = "requested"
    /\ UNCHANGED <<pc, task, wake, work, shutdown_status>>

\* sched_shutdown(), in a task, an interrupt or a shutdown handler: longjmp.
\* A timer callback uses sched_try_shutdown() or only runs before a shutdown.
sched_shutdown ==
    /\ pc \in {"run", "shutdown"} \/ (IrqEnabled /\ shutdown_status = 0)
    /\ pc' = "shutdown"
    /\ shutdown_status' = 2
    /\ UNCHANGED <<task, tasks_status, wake, work>>

\* The shutdown handlers have run (what a task had begun is dropped by them) and
\* run_tasks() is called again.
run_shutdown ==
    /\ pc = "shutdown"
    /\ pc' = "poll"
    /\ shutdown_status' = 1
    /\ work' = [t \in Tasks |-> work[t] /\ wake[t]]
    /\ UNCHANGED <<task, tasks_status, wake>>

\* sched_clear_shutdown(), in a task.
sched_clear_shutdown ==
    /\ pc = "run"
    /\ shutdown_status = 1
    /\ shutdown_status' = 0
    /\ UNCHANGED <<pc, task, tasks_status, wake, work>>

MainLoop ==
    \/ poll \/ check \/ awake \/ start
    \/ check_wake \/ clear_wake \/ run_task \/ wake_self \/ wake_self_flag
    \/ run_shutdown

Next ==
    \/ MainLoop
    \/ sched_clear_shutdown \/ sched_shutdown \/ periodic_event
    \/ \E t \in Tasks : sched_wake_task(t)

Spec == Init /\ [][Next]_vars

\* The processor executes instructions, and the periodic timer is always armed.
Fairness == WF_vars(MainLoop) /\ WF_vars(periodic_event)
FairSpec == Spec /\ Fairness

-----------------------------------------------------------------------------
TypeOK ==
    /\ pc \in {"poll", "check", "sleep", "start", "read", "clear", "run", "flag", "shutdown"}
    /\ task \in Tasks
    /\ tasks_status \in {"idle", "requested", "running"}
    /\ wake \in [Tasks -> BOOLEAN] /\ work \in [Tasks -> BOOLEAN]
    /\ shutdown_status \in 0..2

Asleep == pc = "sleep" /\ tasks_status # "requested"

\* No wake-up is lost: while the processor sleeps in irq_wait(), whatever an
\* interrupt has left for a task has been done.  Only a shutdown, which cuts a
\* pass over the tasks short, leaves something undone.
NoLostWake == Asleep /\ shutdown_status = 0 => \A t \in Tasks : ~work[t]

\* A task that was woken is run, also the one whose flag was left set by a
\* shutdown (the periodic timer then starts the pass), unless another shutdown
\* comes.
EventuallyRun == \A t \in Tasks : wake[t] ~> ~wake[t] \/ pc = "shutdown"
=============================================================================
