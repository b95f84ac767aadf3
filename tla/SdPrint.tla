------------------------------ MODULE SdPrint ------------------------------
(***************************************************************************)
(* Printing from the virtual SD card, and pausing, resuming and cancelling *)
(* it: klippy/extras/virtual_sdcard.py, klippy/extras/pause_resume.py and  *)
(* the run-out handler of klippy/extras/filament_switch_sensor.py.         *)
(*                                                                         *)
(* Three kinds of greenlets run.  The worker W is work_handler(): it reads *)
(* the file in chunks and runs each line under the G-code mutex.  Users    *)
(* run one command at a time under the mutex.  The run-out handler R asks  *)
(* for a pause WITHOUT the mutex and runs PAUSE under it later.  A         *)
(* greenlet runs until it yields; W has not yielded while w = "next".      *)
(*                                                                         *)
(* A file is a sequence of bytes in which NL ends a line.  `buffer' is     *)
(* what W has read and not run: its local `lines' and `partial_input'.     *)
(***************************************************************************)
EXTENDS Integers, Sequences

CONSTANTS
    Users,        \* greenlets that run G-code commands
    Runout,       \* whether there is a filament sensor
    Lines,        \* lines of the file, two bytes each
    Chunk,        \* bytes per read() (8192 in the code)
    Ahead         \* bytes handle_shutdown reads past the position (128)

VARIABLES
    w,                    \* "none" = work_timer is None, else where W is
    must_pause_work,
    cmd_from_sd,
    current_file,         \* whether a file is open
    offset,               \* read offset of the file; 0 without W, which seeks first
    file_position,
    next_file_position,
    line_end,             \* work_handler's local next_file_position; 0 between lines
    buffer,
    is_paused,
    pause_command_sent,
    sd_paused,
    stats,                \* print_stats.state
    started,              \* print_stats.print_start_time is not None
    owner,                \* who holds the G-code mutex: <<>> or <<g>>
    queue,                \* greenlets waiting for it
    pc,                   \* where each of the other greenlets is
    cmd,                  \* the command it runs
    is_shutdown

sdVars == <<must_pause_work, current_file, offset, file_position>>
filVars == <<must_pause_work, current_file, file_position>>
posVars == <<next_file_position, line_end>>
workVars == <<w, cmd_from_sd, posVars, buffer>>
pauseVars == <<is_paused, pause_command_sent, sd_paused>>
statVars == <<stats, started>>
mutexVars == <<owner, queue>>
userVars == <<pc, cmd>>
vars == <<sdVars, workVars, pauseVars, statVars, mutexVars, userVars, is_shutdown>>

W == "W"
R == "R"
NL == 0
Size == 2 * Lines

\* The file: line i is the byte i and the end of the line.
File == [b \in 1 .. Size |-> IF b % 2 = 0 THEN NL ELSE (b + 1) \div 2]
Others == Users \cup (IF Runout THEN {R} ELSE {})

\* The commands that touch the state modelled here.
Pausing == {"PAUSE", "M25", "CANCEL_PRINT", "SDCARD_RESET_FILE"}
Loading == {"SDCARD_PRINT_FILE", "M23"}
Commands == Pausing \cup Loading \cup {"RESUME", "M24", "M26", "CLEAR_PAUSE"}

\* What R does before it runs PAUSE: send_pause_command() by itself.
SendPause == "send_pause_command"
NoCommand == "none"

ASSUME SdAssumption ==
    /\ Lines \in Nat \ {0}
    /\ Chunk \in Nat \ {0} /\ Ahead \in Nat
    /\ {W, R} \cap Users = {}

TypeOK ==
    /\ w \in {"none", "start", "loop", "next", "line", "err"}
    /\ {must_pause_work, cmd_from_sd, current_file, is_paused, sd_paused,
        pause_command_sent, started, is_shutdown} \subseteq BOOLEAN
    /\ {offset, file_position, next_file_position, line_end} \subseteq 0 .. Size
    /\ buffer \in Seq(Nat)
    /\ stats \in {"standby", "printing", "paused", "complete", "error", "cancelled"}
    /\ owner \in {<<>>} \cup {<<g>> : g \in Others \cup {W}}
    /\ queue \in Seq(Others \cup {W})
    /\ pc \in [Others -> {"idle", "delay", "run", "restoring", "pausing"}]
    /\ cmd \in [Others -> Commands \cup {SendPause, NoCommand}]

Init ==
    /\ w = "none" /\ must_pause_work = FALSE /\ cmd_from_sd = FALSE
    /\ current_file = FALSE /\ offset = 0
    /\ file_position = 0 /\ next_file_position = 0 /\ line_end = 0 /\ buffer = <<>>
    /\ is_paused = FALSE /\ pause_command_sent = FALSE /\ sd_paused = FALSE
    /\ stats = "standby" /\ started = FALSE
    /\ owner = <<>> /\ queue = <<>>
    /\ pc = [g \in Others |-> "idle"] /\ cmd = [g \in Others |-> NoCommand]
    /\ is_shutdown = FALSE

work_timer == w # "none"

-----------------------------------------------------------------------------
(* The G-code mutex (ReactorMutex): first come, first served; a release    *)
(* hands it to the greenlet that has waited longest.                       *)

lock(g) ==
    IF owner = <<>> THEN owner' = <<g>> /\ UNCHANGED queue
                    ELSE queue' = Append(queue, g) /\ UNCHANGED owner

unlock ==
    IF queue = <<>> THEN owner' = <<>> /\ UNCHANGED queue
                    ELSE owner' = <<Head(queue)>> /\ queue' = Tail(queue)

-----------------------------------------------------------------------------
(* print_stats                                                             *)

note_start == stats' = "printing" /\ started' = TRUE

note_pause == stats' = (IF stats = "error" THEN stats ELSE "paused") /\ UNCHANGED started

note_finish(state) ==
    /\ stats' = IF started THEN state ELSE stats
    /\ started' = FALSE

reset_stats == stats' = "standby" /\ started' = FALSE

-----------------------------------------------------------------------------
(* Commands.  do_pause() asks W to stop and waits until W is gone, unless  *)
(* the command comes from the file itself.                                 *)

\* The wait of do_pause() is over.
Stopped == ~work_timer \/ cmd_from_sd

\* send_pause_command() acts.
Sends(c) == ~pause_command_sent /\ (c = SendPause \/ (c = "PAUSE" /\ ~is_paused))

\* cmd_CANCEL_PRINT calls do_cancel().
Cancels == work_timer \/ sd_paused

\* The command calls do_pause() while the worker is there.
AsksWorker(c) ==
    /\ work_timer
    /\ \/ c = "M25" \/ Sends(c)
       \/ c \in {"CANCEL_PRINT", "SDCARD_RESET_FILE"} /\ current_file

\* "SD busy", and SDCARD_RESET_FILE sent from the file.
Refused(c) ==
    \/ c \in Loading \cup {"M24", "M26"} /\ work_timer
    \/ c = "SDCARD_RESET_FILE" /\ cmd_from_sd

\* The pause_resume flags after a command; `sent': it called do_pause() or
\* would have, had the worker been there.
FlagsAfter(c, sent) ==
    /\ is_paused' = CASE c = "PAUSE" -> TRUE
                      [] c = "CANCEL_PRINT" -> FALSE
                      [] OTHER -> is_paused
    /\ pause_command_sent' = CASE c \in {"PAUSE", SendPause} -> pause_command_sent \/ sent
                               [] c = "CANCEL_PRINT" -> FALSE
                               [] OTHER -> pause_command_sent

\* The rest of a command of Pausing once do_pause() has returned, or at once
\* when it does not wait; `waited' tells which.
Finish(c, waited) ==
    /\ must_pause_work' = (must_pause_work \/ (~waited /\ AsksWorker(c)))
    /\ sd_paused' = IF ~waited /\ Sends(c) THEN work_timer ELSE sd_paused
    /\ FlagsAfter(c, waited \/ Sends(c))
    /\ CASE c = "CANCEL_PRINT" /\ (waited \/ Cancels) ->
              /\ current_file' = FALSE /\ file_position' = 0
              /\ IF current_file THEN note_finish("cancelled") ELSE UNCHANGED statVars
         [] c = "SDCARD_RESET_FILE" ->
              current_file' = FALSE /\ file_position' = 0 /\ reset_stats
         [] OTHER -> UNCHANGED <<current_file, file_position, statVars>>
    /\ UNCHANGED offset

\* do_pause() has to wait: the caller yields.
Wait(c) ==
    /\ must_pause_work' = TRUE
    /\ sd_paused' = (sd_paused \/ Sends(c))
    /\ UNCHANGED <<current_file, offset, file_position, is_paused,
                   pause_command_sent, statVars>>

\* do_resume(): a new worker is registered.
do_resume == w' = "start" /\ must_pause_work' = FALSE

-----------------------------------------------------------------------------
(* The worker.                                                             *)

\* Mutant: noting the start before the file is positioned.
work_start_NoteFirst ==
    /\ w = "start" /\ note_start
    /\ IF current_file
       THEN w' = "next" /\ offset' = file_position /\ buffer' = <<>>
       ELSE w' = "none" /\ UNCHANGED <<offset, buffer>>
    /\ UNCHANGED <<must_pause_work, current_file, file_position, cmd_from_sd,
                   posVars, pauseVars, mutexVars, userVars, is_shutdown>>

\* work_handler() up to its loop.
work_start ==
    /\ w = "start"
    /\ IF current_file
       THEN w' = "next" /\ offset' = file_position /\ note_start /\ buffer' = <<>>
       ELSE w' = "none" /\ UNCHANGED <<offset, statVars, buffer>>
    /\ UNCHANGED <<must_pause_work, current_file, file_position, cmd_from_sd,
                   posVars, pauseVars, mutexVars, userVars, is_shutdown>>

\* The end of work_handler(); `opened' tells whether a file is still loaded.
Exit(opened) ==
    /\ w' = "none" /\ cmd_from_sd' = FALSE /\ buffer' = <<>> /\ offset' = 0
    /\ IF opened THEN note_pause ELSE note_finish("complete")

Looping == w \in {"loop", "next"}

\* The loop ends because of a pause.
work_paused ==
    /\ Looping /\ must_pause_work
    /\ Exit(current_file)
    /\ UNCHANGED <<filVars, posVars, pauseVars, mutexVars, userVars,
                   is_shutdown>>

HasLine == \E i \in 1 .. Len(buffer) : buffer[i] = NL

\* The bytes up to the end of the first line of the buffer, and their number.
LineLength == CHOOSE n \in 1 .. Len(buffer) :
                 buffer[n] = NL /\ \A i \in 1 .. n - 1 : buffer[i] # NL

Data == SubSeq(File, offset + 1, IF offset + Chunk < Size THEN offset + Chunk ELSE Size)

\* Mutant: forgetting partial_input.
Joined_DataOnly == Data

\* The new lines, the first one joined with partial_input.
Joined == buffer \o Data

\* One read of the file; W yields after it.
work_read ==
    /\ Looping /\ ~must_pause_work /\ ~HasLine
    /\ current_file /\ Data # <<>>
    /\ w' = "loop" /\ buffer' = Joined /\ offset' = offset + Len(Data)
    /\ UNCHANGED <<must_pause_work, current_file, file_position, cmd_from_sd,
                   posVars, pauseVars, statVars, mutexVars, userVars,
                   is_shutdown>>

\* The end of the file.
work_eof ==
    /\ Looping /\ ~must_pause_work /\ ~HasLine
    /\ current_file /\ Data = <<>>
    /\ current_file' = FALSE /\ Exit(FALSE)
    /\ UNCHANGED <<must_pause_work, file_position, posVars, pauseVars,
                   mutexVars, userVars, is_shutdown>>

\* A read that fails.
work_read_error ==
    /\ Looping /\ ~must_pause_work /\ ~HasLine
    /\ Exit(current_file)
    /\ UNCHANGED <<filVars, posVars, pauseVars, mutexVars, userVars,
                   is_shutdown>>

\* The mutex is taken: W yields for 100 ms.
work_yield ==
    /\ w = "next" /\ ~must_pause_work /\ HasLine /\ owner # <<>>
    /\ w' = "loop"
    /\ UNCHANGED <<sdVars, cmd_from_sd, posVars, buffer, pauseVars,
                   statVars, mutexVars, userVars, is_shutdown>>

\* The local variables of a line are gone when it ends.
LineOver == line_end' = 0 /\ UNCHANGED next_file_position

\* A line is run, under the mutex.
work_dispatch ==
    /\ Looping /\ ~must_pause_work /\ HasLine /\ owner = <<>>
    /\ w' = "line" /\ cmd_from_sd' = TRUE /\ owner' = <<W>>
    /\ next_file_position' = file_position + LineLength
    /\ line_end' = file_position + LineLength
    /\ buffer' = SubSeq(buffer, LineLength + 1, Len(buffer))
    /\ UNCHANGED <<sdVars, pauseVars, statVars, queue, userVars, is_shutdown>>

\* Mutant: clearing the paused state and not the request.
Resumed_Requested == is_paused' = FALSE /\ UNCHANGED <<pause_command_sent, sd_paused>>

\* The paused state is cleared: CLEAR_PAUSE, or a RESUME of another print.
Resumed == /\ is_paused' = FALSE /\ pause_command_sent' = FALSE
           /\ UNCHANGED sd_paused

\* A command of the line (or of a macro it calls) that does not fail.  It
\* never waits: cmd_from_sd is set.
line_command(c) ==
    /\ w \in {"line", "err"} /\ owner = <<W>> /\ ~is_shutdown /\ ~Refused(c)
    /\ \/ c \in Pausing /\ Finish(c, FALSE)
       \/ /\ c = "CLEAR_PAUSE" \/ (c = "RESUME" /\ is_paused /\ ~sd_paused)
          /\ Resumed /\ UNCHANGED <<sdVars, statVars>>
    /\ UNCHANGED <<workVars, mutexVars, userVars, is_shutdown>>

\* SDCARD_LOOP_END: the next line is the one after SDCARD_LOOP_BEGIN.
line_loop ==
    /\ w = "line"
    /\ \E p \in {0} \cup {i \in 1 .. file_position : File[i] = NL} :
          next_file_position' = p
    /\ UNCHANGED <<sdVars, w, cmd_from_sd, line_end, buffer, pauseVars, statVars,
                   mutexVars, userVars, is_shutdown>>

\* The line is done; a loop makes W seek.
line_done ==
    /\ w = "line" /\ unlock
    /\ cmd_from_sd' = FALSE /\ file_position' = next_file_position
    /\ IF next_file_position = line_end
       THEN w' = "next" /\ UNCHANGED <<buffer, offset>>
       ELSE IF current_file
       THEN w' = "next" /\ offset' = next_file_position /\ buffer' = <<>>
       ELSE w' = "none" /\ buffer' = <<>> /\ offset' = 0
    /\ LineOver
    /\ UNCHANGED <<must_pause_work, current_file, pauseVars, statVars, userVars,
                   is_shutdown>>

\* Mutant: clearing the flag before the on_error script.
FromSdOnError_Cleared == FALSE

\* cmd_from_sd while the on_error script waits for the mutex and runs.
FromSdOnError == TRUE

\* The line fails: the mutex is released and taken again for on_error_gcode.
line_fail ==
    /\ w = "line"
    /\ cmd_from_sd' = FromSdOnError
    /\ w' = "err"
    /\ IF queue = <<>> THEN UNCHANGED mutexVars
       ELSE owner' = <<Head(queue)>> /\ queue' = Append(Tail(queue), W)
    /\ LineOver
    /\ UNCHANGED <<sdVars, buffer, pauseVars, statVars, userVars, is_shutdown>>

\* The on_error script is over, and with it the worker.
error_done ==
    /\ w = "err" /\ owner = <<W>> /\ unlock
    /\ w' = "none" /\ cmd_from_sd' = FALSE /\ buffer' = <<>> /\ offset' = 0
    /\ note_finish("error")
    /\ UNCHANGED <<filVars, posVars, pauseVars, userVars, is_shutdown>>

\* Where the file is after handle_shutdown() read its surroundings.
OffsetAfterLog == IF file_position + Ahead < Size THEN file_position + Ahead ELSE Size

\* What handle_shutdown() does to the print.
ShutdownSd ==
    /\ is_shutdown' = TRUE
    /\ must_pause_work' = (must_pause_work \/ work_timer)

\* An internal error in a line shuts the printer down and ends the worker.
line_crash ==
    /\ w = "line" /\ ~is_shutdown
    /\ ShutdownSd /\ unlock /\ Exit(current_file) /\ LineOver
    /\ UNCHANGED <<current_file, file_position, pauseVars, userVars>>

-----------------------------------------------------------------------------
(* The other greenlets; W has yielded when one of them runs.               *)

\* A user sends a command: it runs once the mutex is theirs.
request(g, c) ==
    /\ pc[g] = "idle" /\ lock(g)
    /\ pc' = [pc EXCEPT ![g] = "run"] /\ cmd' = [cmd EXCEPT ![g] = c]
    /\ UNCHANGED <<sdVars, workVars, pauseVars, statVars, is_shutdown>>

\* A command is over: a script goes on with its next one, or ends.
Done(g) ==
    \/ pc' = [pc EXCEPT ![g] = "idle"] /\ cmd' = [cmd EXCEPT ![g] = NoCommand] /\ unlock
    \/ /\ g \in Users /\ \E c \in Commands : cmd' = [cmd EXCEPT ![g] = c]
       /\ pc' = [pc EXCEPT ![g] = "run"] /\ UNCHANGED mutexVars

Running(g, c) == pc[g] = "run" /\ owner = <<g>> /\ cmd[g] = c

\* A command that is refused, or unknown after a shutdown.
run_refused(g) ==
    /\ \E c \in Commands : Running(g, c) /\ (Refused(c) \/ is_shutdown)
    /\ Done(g)
    /\ UNCHANGED <<sdVars, workVars, pauseVars, statVars, is_shutdown>>

\* PAUSE, M25, CANCEL_PRINT and SDCARD_RESET_FILE.
run_pausing(g) ==
    /\ ~is_shutdown
    /\ \E c \in Pausing :
          /\ Running(g, c) /\ ~Refused(c)
          /\ IF AsksWorker(c) /\ ~Stopped
             THEN Wait(c) /\ pc' = [pc EXCEPT ![g] = "pausing"] /\ UNCHANGED <<cmd, mutexVars>>
             ELSE Finish(c, FALSE) /\ Done(g)
    /\ UNCHANGED <<workVars, is_shutdown>>

\* The loop of do_pause() ends.
pause_over(g) ==
    /\ pc[g] = "pausing" /\ Stopped
    /\ Finish(cmd[g], TRUE)
    /\ IF cmd[g] = SendPause
       THEN pc' = [pc EXCEPT ![g] = "delay"] /\ UNCHANGED <<cmd, mutexVars>>
       ELSE Done(g)
    /\ UNCHANGED <<workVars, is_shutdown>>

\* SDCARD_PRINT_FILE and M23: the old file is dropped and a new one opened,
\* unless that fails; SDCARD_PRINT_FILE starts the print.
run_load(g) ==
    /\ ~is_shutdown
    /\ \E c \in Loading :
          /\ Running(g, c) /\ ~Refused(c)
          /\ reset_stats /\ file_position' = 0
          /\ \/ current_file' = FALSE /\ UNCHANGED <<offset, w, must_pause_work>>
             \/ /\ current_file' = TRUE /\ offset' = 0
                /\ IF c = "M23" THEN UNCHANGED <<w, must_pause_work>> ELSE do_resume
    /\ Done(g)
    /\ UNCHANGED <<cmd_from_sd, posVars, buffer, pauseVars, is_shutdown>>

\* M24 starts or resumes the print, with or without a file.
run_M24(g) ==
    /\ ~is_shutdown /\ Running(g, "M24") /\ ~Refused("M24")
    /\ do_resume /\ Done(g)
    /\ UNCHANGED <<current_file, offset, file_position, cmd_from_sd, posVars, buffer,
                   pauseVars, statVars, is_shutdown>>

\* M26 sets the position of a print that does not run.
run_M26(g) ==
    /\ ~is_shutdown /\ Running(g, "M26") /\ ~Refused("M26")
    /\ \E p \in 0 .. Size : file_position' = p
    /\ Done(g)
    /\ UNCHANGED <<must_pause_work, current_file, offset, workVars, pauseVars,
                   statVars, is_shutdown>>

\* CLEAR_PAUSE.
run_CLEAR_PAUSE(g) ==
    /\ ~is_shutdown /\ Running(g, "CLEAR_PAUSE")
    /\ Resumed /\ Done(g)
    /\ UNCHANGED <<sdVars, workVars, statVars, is_shutdown>>

\* RESUME: nothing to do, or the move back to the saved position, which yields.
run_RESUME(g) ==
    /\ ~is_shutdown /\ Running(g, "RESUME")
    /\ IF is_paused
       THEN pc' = [pc EXCEPT ![g] = "restoring"] /\ UNCHANGED <<cmd, mutexVars>>
       ELSE Done(g)
    /\ UNCHANGED <<sdVars, workVars, pauseVars, statVars, is_shutdown>>

\* The move failed, or the card is busy: RESUME ends with an error.
resume_failed(g) ==
    /\ pc[g] = "restoring"
    /\ Done(g)
    /\ UNCHANGED <<sdVars, workVars, pauseVars, statVars, is_shutdown>>

\* The move is done: send_resume_command().
resume(g) ==
    /\ pc[g] = "restoring" /\ ~is_shutdown
    /\ is_paused' = FALSE /\ pause_command_sent' = FALSE /\ sd_paused' = FALSE
    /\ IF sd_paused THEN ~work_timer /\ do_resume ELSE UNCHANGED <<w, must_pause_work>>
    /\ Done(g)
    /\ UNCHANGED <<current_file, offset, file_position, cmd_from_sd, posVars, buffer,
                   statVars, is_shutdown>>

\* The filament sensor: a pause request outside the mutex.
runout ==
    /\ Runout /\ pc[R] = "idle"
    /\ cmd' = [cmd EXCEPT ![R] = SendPause]
    /\ IF AsksWorker(SendPause) /\ ~Stopped
       THEN Wait(SendPause) /\ pc' = [pc EXCEPT ![R] = "pausing"]
       ELSE Finish(SendPause, FALSE) /\ pc' = [pc EXCEPT ![R] = "delay"]
    /\ UNCHANGED <<workVars, mutexVars, is_shutdown>>

\* After pause_delay the handler runs PAUSE.
runout_script ==
    /\ Runout /\ pc[R] = "delay" /\ lock(R)
    /\ pc' = [pc EXCEPT ![R] = "run"] /\ cmd' = [cmd EXCEPT ![R] = "PAUSE"]
    /\ UNCHANGED <<sdVars, workVars, pauseVars, statVars, is_shutdown>>

\* A shutdown from anywhere.
handle_shutdown ==
    /\ ~is_shutdown /\ ShutdownSd
    /\ offset' = IF work_timer /\ current_file THEN OffsetAfterLog ELSE offset
    /\ UNCHANGED <<current_file, file_position, workVars, pauseVars, statVars,
                   mutexVars, userVars>>

-----------------------------------------------------------------------------
WorkStep ==
    \/ work_start \/ work_paused \/ work_read \/ work_eof \/ work_read_error
    \/ work_yield \/ work_dispatch \/ line_done \/ line_fail \/ error_done

LineStep == line_loop \/ line_crash \/ \E c \in Commands : line_command(c)

CommandStep(g) ==
    \/ run_refused(g) \/ run_pausing(g) \/ pause_over(g) \/ run_load(g) \/ run_M24(g)
    \/ run_M26(g) \/ run_CLEAR_PAUSE(g) \/ run_RESUME(g) \/ resume(g) \/ resume_failed(g)

OtherStep ==
    \/ \E g \in Users, c \in Commands : request(g, c)
    \/ \E g \in Others : CommandStep(g)
    \/ runout \/ runout_script \/ handle_shutdown

Next == WorkStep \/ LineStep \/ (w # "next" /\ OtherStep)

Spec == Init /\ [][Next]_vars

\* A line ends, the reactor runs W and every waiting greenlet again, and a
\* command that has the mutex goes on.
FairSpec ==
    /\ Spec
    /\ WF_vars(WorkStep)
    /\ \A g \in Others : WF_vars(w # "next" /\ CommandStep(g))

-----------------------------------------------------------------------------
(* Properties.                                                             *)

\* What the worker has read ahead is the text of the file at the position it
\* will report and resume from: across chunks, loops, pauses, M26 and new
\* prints, no line is run twice or skipped (virtual_sdcard.py, work_handler).
BufferMatchesPosition ==
    (Looping /\ ~must_pause_work) => buffer = SubSeq(File, file_position + 1, offset)

\* The file is there whenever it is needed: a worker that may read on, and a
\* CANCEL_PRINT or SDCARD_RESET_FILE whose pause is over, find it open; no
\* other greenlet closed it under them (work_handler, do_cancel, _reset_file).
FileStillOpen ==
    /\ (Looping /\ ~must_pause_work) => current_file
    /\ \A g \in Others :
          (pc[g] = "pausing" /\ cmd[g] \in {"CANCEL_PRINT", "SDCARD_RESET_FILE"})
             => current_file

\* Both: what the worker has of the file is the file, and it is open.
FileConsistent == TypeOK /\ BufferMatchesPosition /\ FileStillOpen

\* print_stats never shows "printing" after the worker has gone, whichever
\* of its exits it took and whoever cancelled the print meanwhile.
StatsTruthful == ~work_timer => stats # "printing"

\* A PAUSE that takes effect leaves no worker that will run another line, by
\* whatever pauses, resumes and restarts it was preceded.  (It does if a print is
\* started between the two halves of the run-out handler: pause_command_sent
\* makes the handler's PAUSE leave the worker alone.)
PauseStopsPrint ==
    [][(~is_paused /\ is_paused' /\ (Runout => pc[R] = "idle"))
         => (w' = "none" \/ must_pause_work')]_vars

\* A command that waits for the worker to stop, holding the G-code mutex,
\* gets its answer, although the worker may itself be waiting for that mutex
\* to run its on_error script (do_pause, work_handler).
PauseReturns == \A g \in Users : pc[g] = "pausing" ~> pc[g] # "pausing"
=============================================================================
