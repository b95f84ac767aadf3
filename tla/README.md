# Klipper (corexyuv): a TLA+ verification project

Klipper drives 3D printers with two kinds of program. The *host* (`klippy/`,
Python with C helpers in `klippy/chelper/`) reads G-code, plans motion and sends
timed commands. One or more *micro-controllers* (`src/klipper-master/src/`) run
the commands at the clock ticks they name. This fork adds a second print head
(axes u and v) to the corexy kinematics.

This directory models the parts whose correctness depends on order, timing and
loss: what two threads, an interrupt and a serial line can do to each other.
Paths below are relative to `src/klipper-master/`.

## Inventory

| Part | State | Operations | What makes it hard |
|---|---|---|---|
| Serial link, host end: `klippy/chelper/serialqueue.c` | sequence numbers, sent_queue, notify_queue, retransmit timer, round trip estimate | input message, command timer, retransmit timer | 4-bit numbers, lost and duplicated blocks, needless timeouts, restart of the other end |
| Serial link, micro-controller end: `src/command.c`, `src/generic/serial_irq.c` | next_sequence, sync_state, receive_buf, transmit_buf | find block, dispatch, ack, nak, response, shutdown | damaged bytes, full buffers, longjmp out of a command |
| Host serial handling: `klippy/serialhdl.py` | pending notifications, handlers | identify, query with retries, wait for ack | waits without a timeout, answers to an older query |
| Message encoding: `klippy/chelper/msgblock.c`, `klippy/msgproto.py` | none | variable length integers, CRC, framing | sign and width of integers |
| Background event loop: `klippy/chelper/pollreactor.c` | timers, next_timer | update timer, check timers, poll | timer set while timers are checked |
| Scheduler: `src/sched.c` | timer_list, last_insert, deleted_timer, tasks_status, shutdown_status | add, delete, dispatch, reset, wake, sleep, shutdown | 32-bit clocks wrap, callbacks change the list, lost wake-ups |
| Trigger synchronisation: `src/trsync.c`, `src/endstop.c`, `klippy/chelper/trdispatch.c`, `klippy/mcu.py` | flags, reasons, timeouts, signals | start, trigger, expire, report, extend, stop | several micro-controllers, late messages, timeouts that race triggers |
| Stepper: `src/stepper.c` | position, count, move queue, flags | queue, load, step, stop, reset, query | direction in the sign of position, steps that arrive after a stop |
| Move pool and configuration: `src/basecmd.c` | free list, oids, CRC | alloc, free, finalize, reset | leaks, reset in shutdown |
| Outputs: `src/gpiocmds.c`, `src/pwmcmds.c` | value, end time, queue | set, queue, load, toggle | max_duration against late updates |
| Inputs: `src/adccmds.c`, `src/buttons.c` | state, samples, unacknowledged reports | sample, report, ack | reports retransmitted while new ones arrive |
| Host event loop: `klippy/reactor.py` | timers, greenlets, completions, mutexes | pause, wake, complete, lock | switches in the middle of a scan |
| Clock synchronisation: `klippy/clocksync.py` | 64-bit clock, estimate | handle clock answer | wraparound, late answers |
| Motion: `klippy/toolhead.py`, `klippy/chelper/*.c` | look-ahead queue, print time | add, flush, stall | real arithmetic |
| Two-head kinematics: `klippy/kinematics/corexyuv.py` | limits of five axes | home, move, motor off | limits and indices of two heads mixed |
| Printing: `klippy/gcode.py`, `klippy/extras/virtual_sdcard.py`, `pause_resume.py`, `homing.py` | command mutex, print state | run, pause, cancel, home | commands from several sources |

Everything else (device drivers, displays, calibration, ports to chips, tools) is
listed in `PROJECT.json` with the reason it is left out.

## What is modelled

| Module | Models | Content |
|---|---|---|
| `SerialWire` | the serial line | constants, their assumptions, the two wires and what can happen on them |
| `SerialQueue` | `serialqueue.c` | the host end, one operator per callback of the background thread |
| `McuConsole` | `command.c`, `serial_irq.c` | the micro-controller end, driven by `console_task()` |
| `SerialLink` | both | the composition; properties; fairness |
| `CommandStream` | | abstract specification: a stream of blocks executed in order |
| `CommandQueues` | `serialqueue.c` | which message goes into the next block, the ready and stalled queues, need_kick_clock and the pipe |
| `TimerList` | `sched.c`, `timer_irq.c` | the sorted timer list, its cache, dispatch, deferral and reset, clocks that wrap around |
| `AlarmClock` | | abstract specification of the timers: armed, cancelled, run in order of time |
| `TaskLoop` | `sched.c` | `run_tasks()`, the wake flags, sleep, shutdown and its clearing |
| `Stepper` | `stepper.c`, `basecmd.c` | steppers in the three modes of the build, and the pool of moves they share |
| `Endstop` | `endstop.c`, `mcu.py` | sampling, and the trigger time the host computes |
| `DigitalOut`, `PwmOut` | `gpiocmds.c`, `pwmcmds.c` | queued updates, toggling, max_duration, shutdown |
| `Buttons` | `buttons.c`, `extras/buttons.py` | reports that are repeated until they are acknowledged |
| `Trsync` | `trsync.c`, `trdispatch.c` | stopping several micro-controllers together, with times |
| `Homing` | `mcu.py`, `trdispatch.c`, `serialhdl.py`, `trsync.c` | the threads of the host around a homing move, without times |
| `PollReactor` | `pollreactor.c` | timers, the cached next_timer, the scan, the time `poll()` sleeps |
| `Reactor` | `reactor.py` | timers, the scan, `pause()`, the greenlet pool, completions, mutexes, the pipe |
| `Clocks` | `basecmd.c`, `clocksync.py`, `serialhdl.py` | uptime, and 32-bit clocks extended to 64 bits |
| `LookAhead` | `toolhead.py` | `LookAheadQueue` with lazy flushes |
| `StepCompress` | `stepcompress.c` | compression of step times, its check, the step+dir+step filter, the position history |
| `StepperSync` | `stepcompress.c`, `serialqueue.c`, `basecmd.c` | the heap by which the host keeps the move pool from overflowing |
| `SdPrint` | `virtual_sdcard.py`, `pause_resume.py`, `print_stats.py`, `filament_switch_sensor.py` | a print from the SD card with everything that stops it |
| `TwoHeads` | `docs/klippy/`: `corexyuv.py`, `homing.py`, `gcode_move.py`, `toolhead.py` | the limits of the five axes |
| `MotorsAndEndstops`, `Outputs`, `ButtonReports`, `HostParts` | | components that are proved about together, as instances with constants and variables of their own, and what is asked of them |
| `Firmware`, `MCProgress`, `MCHost` | | small instances of several components, side by side |
| `NumbersAndSequences` | | lemmas about residues, 32-bit clocks and sequences |
| `SerialLinkProofs`, `SerialLinkAnswers` | | proofs about the link: types, the host's books, delivery, the stream; answers and naks |
| `MotorProofs`, `FirmwareProofs` | | proofs about steppers, the pool and end stops; about the main loop, buttons and outputs |
| `HostProofs`, `HomingProofs`, `SdPrintProofs` | | proofs about stopping in time, the poll loop, clocks and the limits of the first head; about a homing move; about a print |

Which definition stands for which lines is in the `map` of `PROJECT.json`.

**Side by side is not a composition.** `Firmware`, `MCProgress` and `MCHost` put
the instances of several modules into one run. A selector that `Init` chooses says
which of them moves, and the others rest. These runs say nothing of how those
components interact. The modules that do compose several parts are `SerialLink`,
`Trsync`, `Homing`, `Stepper` (commands, interrupts and the pool), `Buttons` (both
ends), `StepperSync` (the host's heap and the micro-controller's pool),
`CommandQueues` (threads and the background thread) and `SdPrint`.

### How state corresponds to the code

Variables keep the names of the fields they stand for. A variable that has no
counterpart is commented `history` or `bound of the model`, or is a program counter
(`pc`, `phase`, `w`, `cmd`) that splits a function where others can run: where
interrupts are enabled, where a lock is released, where a greenlet yields.

*Serial link*

* The background thread of a serialqueue runs one callback at a time under
  `sq->lock`, so `handle_message()`, `command_event()` and `retransmit_event()` are
  one action each.
* `need_ack_bytes` is an operator: the code changes it exactly where it changes
  `sent_queue`.
* A timer is `NEVER`, `NOW` or `LATER`, and a `LATER` timer may expire at any moment
  at which the first unacknowledged block has left the UART (the code adds the
  transmission time of the block to the timeout). Of a sent time the model keeps
  whether it is exact or may belong to an older copy.
* A wire is a sequence of blocks. Damage turns a block into invalid bytes or removes
  it. `tcflush()` removes a suffix of what is under way and may cut one block.
  `Head(h2m)` while `dispatch` is not `idle` is the block in `receive_buf`.
* `console_task()` is split where its effects can be observed: finding a block,
  sending responses while its commands run, and the final pop and ack. A command may
  call `shutdown()`, whose `longjmp` leaves the block in `receive_buf`.
* `CommandQueues` has times: one tick is one unit, the background thread is never
  late, messages are added one at a time, and the frequency of the clock is known.

*Micro-controller*

* `TimerList` keeps full clocks and lets the code see them modulo `ClockMod`. The
  deferral of timers that cannot keep up is a nondeterministic choice where the code
  compares with `timer_repeat_until`. After a shutdown the processor keeps up with
  `wrap_timer`, and a second shutdown comes only when the timers are not behind.
* `TaskLoop` lets an interrupt come between any two accesses to `tasks_status` and
  the wake flags, but for the section in which the code disables interrupts.
* `Stepper` leaves step times to `TimerList`: a stepper whose timer is on the list
  may step. A pulse is one event or two, as the mode has it.
* `Endstop` assumes `(sample_count - 1) * sample_time <= rest_time`, as the values of
  `mcu.py` satisfy, and that `sample_count` fits its byte.
* `DigitalOut` and `PwmOut` assume that the clocks a queue can hold lie within half a
  cycle of the clock: `max_duration`, the cycle time and how far ahead the host sends
  are together less than that.
* `Buttons`: a full array drops changes, as in the code. `StateKnown` excepts it.

*Triggers and homing*

* `Trsync` has one clock for all. A report may carry a clock one tick old, since
  `trsync_task()` reads the clock before it disables interrupts. Reports may be lost
  and everything may be delayed for any time.
* `Homing` has no times. It has the threads: main thread, Python thread of each
  link, background thread of each link with its fast reader. The timeouts that
  `trdispatch.c` extends are in `Trsync` only.

*Host*

* `Reactor`: a greenlet runs until it switches. The scan of `_check_timers()` is
  split at every callback, so that a callback that pauses leaves the old scan behind.
* `Clocks` is exact as long as the time between two answers, the age of an answer
  and the error of the estimate are together less than half a cycle of the clock.
  `ClocksAssumption` states it.
* `LookAhead` uses squared speeds that are small even integers, so that the halves
  the code takes are integers.
* `StepCompress` does the integer arithmetic of `minmax_point()`,
  `compress_bisect_add()` and `check_line()` on small bounds. Step times are integers.
* `StepperSync` frees a slot at a clock before it looks at arrivals of that clock. A
  trsync stop frees slots earlier, which only helps.
* `SdPrint`: a file is a sequence of bytes. The read offset is kept only while the
  worker exists, because it seeks first. A last line without an end of line is never
  run, as in the code.
* `TwoHeads` models the five-axis host under `docs/klippy/`. The limits code of
  `klippy/kinematics/corexyuv.py` is the same, but the tool head and G-code under
  `klippy/` have three axes.

## The runs

| Run | Question | Distinct states |
|---|---|---|
| `link_loss` | Is every block dispatched once, in order, never acknowledged early, are answers truthful, and does the link implement `CommandStream`? | 249,033 |
| `link_reset` | Do the host's books survive a restart of the micro-controller, and does the receive buffer never overflow? | 506,009 |
| `link_live` | Is every block acknowledged and every waiting sender woken? | 60,678 |
| `timers` | Does the timer list stay sorted and complete while the clock wraps around, and does it implement `AlarmClock`? | 652,069 |
| `firmware` | Side by side: positions, the move pool, end stop sampling, outputs, button reports | 615,909 |
| `trsync` | Do all micro-controllers stop in time, and are timeouts harmless when they come late? | 1,704,751 |
| `homing` | Is nothing of a homing move left behind, is its result real, does it end? | 285,473 |
| `progress` | Side by side: are woken tasks run, requests to the reactor served, changes of buttons seen? | 34,251 |
| `host` | Side by side: the poll loop, clocks, look-ahead, step compression, the move heap, command queues, the limits of the first head | 606,473 |
| `sd_print` | Is the file printed as it is, does the status tell the truth, do pauses stop the print and return? | 274,495 |
| `two_heads_uv` | Is every move of all five axes verified? **No** | violation |
| `two_heads_again` | Can the axes be homed again after the motors were off? **No** | violation |

Several properties are conjunctions of parts that are stated one by one in their
modules (`ListKept`, `MovesAccounted`, `OutputsOnTime`, `FileConsistent`, ...). The
comment above each says what it promises.

### Bounds, and why they are enough

* **Serial link.** The code has `SeqMod = 16` and `MaxPending = 12`. The runs use 3
  and 2, or 4 and 3, which keeps the relation `MaxPending < SeqMod` at its tightest,
  and `MaxSeq` lets the numbering wrap around. The micro-controller starts at any
  number of the cycle. `WireCap`, `MaxLoss`, `MaxResp` and `MaxReset` bound what is
  under way, damaged, answered and restarted. The proofs are for all values.
* **Timers.** `ClockMod = 16` and `MaxNow = 16`: the clock wraps around once with
  timers on both sides. A timer list of the sentinel, `wrap_timer`, the deleted timer
  and one more reaches every branch of `insert_timer()` and the cache.
* **Firmware.** Two steppers and two moves, so that the pool runs dry. Three steps in
  each mode, so that a reversal and a stop fall into a pulse. Outputs start just
  before the wrap. Reports of the buttons wrap their counter (`CountMod`).
* **Trsync.** Two micro-controllers and one message each way per link. A third one
  adds no case to the argument; the theorem is for any number.
* **Homing.** One move, one loss, one retry: the second query is what a loss can
  cause. Two micro-controllers, because one of them is not the end stop's.
* **Host.** Each instance is the smallest at which every branch is taken. Larger ones
  were run by themselves and pass: StepCompress with `max_error` 1, counts to 4 and
  5 steps (153,810 states), `max_error` 2 and 6 steps (135,199), `max_error` 2 and
  gaps of 1, 3 and 5 (168,575); StepperSync to clock 5 (188,247); Clocks with two
  answers under way to clock 36 (1,532,268); CommandQueues to clock 5 (1,260,253).
* **SdPrint.** Two lines of two bytes, read three at a time: a read ends in the middle
  of a line, and, from another start, holds two lines. The user's commands are
  unlimited in number. With one user every command still meets the worker and the
  run-out handler in every state.

**Symmetry** is used where it is sound: the micro-controllers of `Trsync` and the
queues of `CommandQueues` are model values, and those runs check no liveness.

**Deadlock** is not checked. In each model the system may rest: all is acknowledged
and a bound is reached, the printer has shut down, nothing is left to do. What must
not stop is stated as liveness.

### Fairness

Weak fairness throughout, of these only:

* `link_live`: the input and retransmit callbacks (the background thread polls for
  ever), `console_task()` finding blocks (the task loop runs for ever), and commands
  that return or shut down. Nothing is assumed of the line except that `MaxLoss` is
  finite, and nothing of the application: it need not send another command.
* `homing`: the main thread, the threads of the links, the task loop and the report
  timer of each micro-controller; and that a timeout expires if another
  micro-controller no longer reports, because its reports are what extends it.
* `progress`: the processor executes instructions and the periodic timer stays armed;
  the reactor's main thread, the requesting threads and time go on; the sampling
  timer of the buttons, the tasks and both threads of the host go on.
* `sd_print`: the worker, and a command that holds the mutex, go on whenever they can.

### What the runs show that is worth knowing

* `AnswersTruthful` excepts number 1, where `wake_seq` wraps around
  (`serialqueue.c:245`).
* An ack lost after a response has acknowledged its block is not sent again: the
  sender is woken by the answer to later traffic (`serialhdl.py:252` waits without a
  timeout). `EventuallyAnswered` asks for that traffic.
* A block that was being dispatched when a command shut the micro-controller down is
  nak'ed, never run a second time.
* With two micro-controllers the loss of any one report does not keep a homing move
  from ending. With a single one there is no other whose timeout would end the move:
  if the one answer to the final trigger is lost, `home_wait()` waits on
  (`mcu.py:304`; `docs/Protocol.md:343-347` says that responses may be lost). No run
  checks this case.
* `ResultIsReal` holds if no report is lost.
* `PauseStopsPrint` leaves out a PAUSE that the run-out handler itself sends: a print
  started between its two halves runs on while the printer is marked as paused,
  because `pause_command_sent` is already set (`pause_resume.py:51`;
  `docs/G-Codes.md:873-874`). No run checks this case.
* After a CANCEL_PRINT that a line of the file issues, `file_position` is overwritten
  when the line ends.
* The read before the shutdown log moves the file's offset. No line is lost by it,
  since the worker stops and seeks when it is started again.

### Findings

* `two_heads_uv`: `check_move()` compares the second head's position with the limits
  of the first (`docs/klippy/kinematics/corexyuv.py:92`). Once X and Y are homed, U
  and V move without being homed, and past their own range if it is smaller.
  `docs/FAQ.md:176-179` says that each move is verified.
* `two_heads_again`: `_motor_off()` leaves three limits for five axes
  (`docs/klippy/kinematics/corexyuv.py:74`). Moving or homing U or V afterwards is an
  internal error and a shutdown. `docs/FAQ.md:179-181` says the axes are to be homed
  again.

## What is proved

TLAPS checks these for every value of the constants that satisfies the named
assumptions of the modules. The bounds of the model (`MaxSeq`, `MaxNow`, `Rounds`,
...) are constants as well, so that they limit nothing.

| Theorem | Statement |
|---|---|
| `SerialLinkProofs!TypeSafe` | `Spec => []TypeOK` |
| `SerialLinkProofs!HostConsistentSafe` | `Spec => []HostConsistent` |
| `SerialLinkProofs!NeverReconnectsSafe` | `Spec => NeverReconnects` |
| `SerialLinkProofs!DispatchSafe` | `Spec => []DispatchedOnceInOrder` |
| `SerialLinkProofs!AckSafe` | `Spec => []AckedWasDispatched` |
| `SerialLinkProofs!StreamImplemented` | `Spec => ImplementsStream`, if nothing restarts |
| `SerialLinkAnswers!AnswersSafe` | `Spec => []AnswersTruthful` |
| `SerialLinkAnswers!NoNeedlessSafe` | `Spec => []NoNeedlessFastRetransmit` |
| `MotorProofs!PositionSafe` | `Step!Spec => []PositionExact` |
| `MotorProofs!MovesSafe` | `Step!Spec => []MovesAccounted` |
| `MotorProofs!StoppedSafe` | `Step!Spec => StoppedStays` |
| `MotorProofs!TriggerSafe` | `Stop!Spec => []TriggerExact` |
| `FirmwareProofs!NoLostWakeSafe`, `TaskTypeSafe` | `Spec => []NoLostWake`, `Spec => []TypeOK` of `TaskLoop` |
| `FirmwareProofs!ReportsSafe` | `But!Spec => []ReportsExact` |
| `FirmwareProofs!OutputsSafe` | `Out!Spec /\ Pwm!Spec => []OutputsOnTime` |
| `HostProofs!StopsInTimeSafe` | `Spec => []StopsInTime` |
| `HostProofs!TimeoutsAlwaysSafe` | `Spec => []TimeoutsSafe` |
| `HostProofs!PollReactorSafe` | `Poll!Spec => []PollPunctual` |
| `HostProofs!ClocksSafe` | `Clk!Spec => []ClocksExact` |
| `HostProofs!FirstHeadSafe` | `Heads!Spec => FirstHeadVerified` |
| `HomingProofs!HomingClean` | `Spec => []CleanAfterwards` |
| `HomingProofs!HomingResult` | `Spec => []ResultIsReal` |
| `SdPrintProofs!PrintConsistent` | `Spec => []FileConsistent` |
| `SdPrintProofs!PrintStats` | `Spec => []StatsTruthful` |
| `SdPrintProofs!PauseStops` | `Spec => PauseStopsPrint` |

`Step`, `Stop`, `Out`, `Pwm`, `But`, `Poll`, `Clk` and `Heads` are the instances of
`Stepper`, `Endstop`, `DigitalOut`, `PwmOut`, `Buttons`, `PollReactor`, `Clocks` and
`TwoHeads` that the runs use too. Almost none of the properties is inductive. What each
proof had to add:

**Delivery** (assumption: `MaxPending < SeqMod`). Neither end sees a full number,
only its residue modulo `SeqMod`. The invariant `IInv` says where the full numbers on
both wires lie: a block on the way to the micro-controller is numbered above
`McuSeq - SeqMod` and below `send_seq`, a message on the way to the host carries a
number from `receive_seq` up to `McuSeq`, and these never decrease. Both windows are
shorter than `SeqMod`, so a residue names one number: a block whose residue is
`next_sequence` is the next block (`AcceptedIsDue`), and the number the host
reconstructs is the one that was meant (`AckIsMeant`). Before the connection is made
(`NotYetConnected`) the blocks on the wire are the old identify queries and none is
accepted. The order of the messages (`InOrder`) is what keeps an old ack from being
taken for one of the next cycle; it is why the wires are FIFOs in the model as in the
code.

**The stream.** The same invariant makes every step of the link a step of
`CommandStream` or a stutter: `handle_message()` acknowledges a prefix of what was
executed, dispatch executes the next block that was sent, and all else (losses, naks,
timeouts, flushes, responses) changes nothing of the stream.

**Answers and naks.** `AnswersInv` adds the order of the messages (`MessageOrder`: an
ack is sent only for a finished block, and none of a block is ahead of a response made
while it was dispatched) and what the woken senders were told (`NotesTruthful`).
`TimeBooks` says which sent times may belong to an older copy. That a line that
damages nothing provokes no needless retransmission needs `QuietInv`: every block on
the wire is a first copy behind older ones, or the nak that it provokes is one the host
ignores (`FreshOrIgnored`), nothing is missing on the wire (`NoGap`, `NothingLost`), and
an ack the host does not ignore is newer than all before it (`AcksFresh`).

**Steppers and the pool.** `MotionInv` relates, for each stepper and mode, `position`
with its direction bit, the count of the running move, the levels of the step and
direction pins, the steps taken, and the steps that were asked for. The counts of a
queue are added up by a witness function (`AddsUp`), which replaces a recursive sum.
`PoolInv`: the free list, the queues, the running moves and the move in the hands of a
command hold each node once. `TimerInv`: a timer is on the list only while a move is
under way, and a stopped stepper has neither.

**End stops** (assumptions as in `Endstop`). `StopInv` describes the series of samples
in the phase between two attempts, in the middle of a series, and after it. That the
time the host computes is that of the first sample is the arithmetic of `Series`.

**Wake-ups** (assumption: at least one task). `NoLostWake` is about the sleeping
processor only. The invariant `TaskInv` says where a wake-up is recorded at every
other moment: work is announced by the flag of its task, and a flag by
`tasks_status`, unless the pass under way has yet to come to that task (`Announced`,
`Requested`).

**Buttons** (assumption: two arrays of reports are less than the range of the counts).
The counts on the wires are residues. `ButInv` gives the full numbers as witnesses: how
many reports had been acknowledged when each message was sent (`SentUp`), and after
each acknowledgement under way (`AckedDown`).

**Outputs** (assumptions as in the modules). The code keeps remainders of times;
`DueTimes` gives the full times as a witness sequence, in order and within half a
cycle. `PwmTimer`, `DigEnd` and `DigTimer` say which of them the timer is set for,
between the two halves of a command too.

**Stopping in time** (assumption: the three times are positive). `TrsyncInv` has two
halves. `TimeoutInv`: the timeouts on their way are in ascending order, start no
earlier than the one that is set and end no later than `expire_clock`, and the one
that is set is not past. `Witness`: once something has triggered there is a
micro-controller `f` that can no longer send a status, the last status the host can
have of it is from before the first trigger, and hence no other one's `expire_clock`
is later than `first + Expire`, because `handle_trsync_state()` bases each extension
on the oldest status of the *others* (`OldestStatus`). `f` need not be known to the
host. That there is an oldest status among any number of them is an invariant of its
own (`Ordered`).

**The poll loop** (assumption: positive resolution and longest sleep). `PollInv` adds
to the two properties that a scan in which no callback has run yet has met only timers
of the future (`Scanning`). That is why the sleep computed at its end is not that of a
timer that is due. `SleepIsShort` is the rounding.

**Clocks** (assumption: delays and errors are together less than half a cycle). Every
answer under way is the remainder of a time that is less than half a cycle from the
last one (`UnderWay`), and `stats_update()` comes at least once in a cycle
(`StatsInTime`). `FromClock32Exact` is the extension itself.

**The first head** (assumption: the ends of the ranges are positive numbers).
`HeadsInv`: there are five or three limits, each that of an axis not homed or the
range of its rail, and only a referenced axis of the first three has the range.

**A homing move** (assumption: the end stop's micro-controller is one of them).
`HomeInv` follows a query through the threads: the answer to it comes right before its
acknowledgement, on the wire, in the queue to the Python thread or already noted
(`Told`), for each of any number of micro-controllers, with any number of moves, losses
and retries. From this `home_wait()` returns what its last query found, and nothing of
the move is left.

**A print** (assumptions: the file has a line, reads return something, the worker and
the run-out handler are no users). `SdInv`: who has the command mutex and what it
keeps from changing (`MutexInv`), that the buffer is the text of the file from the next
line to the offset (`BufferInv`), and that a pause that was announced and is not there
yet is the run-out handler's (`PauseInv`). Any number of users, and a file of any
length read in pieces of any size.

## What is only model-checked

* All liveness: `EventuallyAnswered`, `HomingEnds`, `EventuallyRun`, `AllServed`,
  `EventuallySeen`, `PauseReturns`. Liveness under fairness is beyond the prover.
* `ListKept` and `ImplementsAlarms` of `TimerList`: the list is taken apart and put
  together by filtering a sequence, and what a filter does to a sequence of any length
  needs induction over data, which the prover cannot do.
* `WindowRespected` of the link, `StepsFaithful`, `PastPositionExact`,
  `SpeedsDrivable`, `PoolSuffices`, `QueuesFaithful` and `NeverOversleeps`: sums over
  queues, heaps and recursive computations over lists, for the same reason.
* `ReactorSafe`: its lists of waiting greenlets and timers are filtered, too.

## What is not modelled

Most lines of the repository are vendor headers (`lib/`), per-chip register access,
and device drivers. There is no protocol in them. `PROJECT.json` lists every part with
the reason. Of the parts that are modelled:

* **Link**: blocking in `serialqueue_pull()`, the round trip estimate as a number, the
  debug file mode, byte framing and CRC, the encoding of arguments. CAN bus links are
  the case in which nothing is flushed.
* **Homing**: a shutdown of the host in the middle of a move, and several end stops in
  one move (`multi_complete()`).
* **Two heads**: `safe_z_home.py`, extrusion and the floating point solvers.
* **Move pool**: `StepperSync` leaves out the slots `mcu.py:781` reserves for outputs.
* **Step compression**: the flush inside `queue_append_extend()`,
  `stepcompress_set_invert_sdir()`, the expiry of the history, the 32-bit limits, and
  doubles.
* **Print time**: stalling, priming and drip mode of `toolhead.py`, all over floating
  point times.
* **Outputs**: `set_digital_out_pwm_cycle`, and the two commands that write a pin
  without an object.
* **Configuration, restart, heaters, API server, analog inputs**: sequential code, or
  arithmetic on real numbers.
