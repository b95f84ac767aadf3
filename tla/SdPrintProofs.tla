---------------------------- MODULE SdPrintProofs ---------------------------
(***************************************************************************)
(* Proofs about printing a file, for every file, every set of users that   *)
(* send commands at any time, and every failure of a line or a read.       *)
(*                                                                         *)
(* The inductive invariant SdInv says where the text in the buffer of the  *)
(* worker is in the file (BufferInv), who may have the mutex of G-code and *)
(* what a command that waits in do_pause() can rely on (MutexInv), what a  *)
(* print that is shown as "printing" needs (StatsInv), and when a pause    *)
(* may be asked for already (PauseInv).                                    *)
(***************************************************************************)
EXTENDS SdPrint, NumbersAndSequences, WellFoundedInduction

\* Time limits of the provers: 30 seconds.
USE SMTT(30), ZenonT(30)

\* The types of the variables, as far as an action changes several of them.
SdTypes ==
    /\ w \in {"none", "start", "loop", "next", "line", "err"}
    /\ must_pause_work \in BOOLEAN /\ cmd_from_sd \in BOOLEAN /\ current_file \in BOOLEAN
    /\ is_paused \in BOOLEAN /\ sd_paused \in BOOLEAN /\ pause_command_sent \in BOOLEAN
    /\ started \in BOOLEAN /\ is_shutdown \in BOOLEAN
    /\ offset \in 0..Size /\ file_position \in 0..Size
    /\ next_file_position \in 0..Size /\ line_end \in 0..Size
    /\ buffer \in Seq(Nat)
    /\ stats \in {"standby", "printing", "paused", "complete", "error", "cancelled"}
    /\ owner \in {<<>>} \cup {<<g>> : g \in Others \cup {W}}
    /\ queue \in Seq(Others \cup {W})
    /\ pc \in [Others -> {"idle", "delay", "run", "restoring", "pausing"}]
    /\ cmd \in [Others -> Commands \cup {SendPause, NoCommand}]

\* g runs a command that has yielded, with the mutex.
Yielded(g) == pc[g] = "restoring" \/ (pc[g] = "pausing" /\ cmd[g] # SendPause)

\* Only the run-out handler asks for a pause without the mutex, and PAUSE is all it runs.
Handler ==
    /\ \A g \in Users : cmd[g] # SendPause
    /\ R \in Others =>
          /\ cmd[R] \in {"PAUSE", SendPause, NoCommand} /\ pc[R] # "restoring"
          /\ pc[R] = "run" => cmd[R] = "PAUSE"
          /\ pc[R] # "idle" => cmd[R] # NoCommand

\* The mutex: who has it, and what is not changed while a command that waits for the
\* worker has it.
MutexInv ==
    /\ cmd_from_sd <=> w \in {"line", "err"}
    /\ w = "line" => owner = <<W>>
    /\ \A g \in Others : Yielded(g) => owner = <<g>>
    /\ \A g \in Others : pc[g] = "pausing" /\ cmd[g] # SendPause =>
          /\ must_pause_work
          /\ cmd[g] \in Pausing
          /\ cmd[g] \in {"CANCEL_PRINT", "SDCARD_RESET_FILE"} => current_file

\* The buffer is the text of the file from p on.
Text(b, p, o) == p <= o /\ b = SubSeq(File, p + 1, o)
Reads(p) == current_file /\ Text(buffer, p, offset)

\* What the worker has of the file, from the line that it runs or will run next.
BufferInv ==
    ~must_pause_work =>
        /\ Looping => Reads(file_position)
        /\ w = "line" => Reads(line_end)

\* "printing" needs a worker, an open file and a start.
StatsInv == stats = "printing" => work_timer /\ current_file /\ started

\* A pause that was asked for and is not there yet is that of the run-out handler.
PauseInv == pause_command_sent /\ ~is_paused => is_shutdown \/ (R \in Others /\ pc[R] # "idle")

\* The inductive invariant.
SdInv == SdTypes /\ Handler /\ MutexInv /\ BufferInv /\ StatsInv /\ PauseInv

-----------------------------------------------------------------------------
\* The greenlets.
LEMMA Greenlet ==
    /\ W \notin Others /\ R \notin Users /\ \A g \in Others : g \in Users \/ g = R
    /\ \A g \in Users : g \in Others
    /\ Runout => R \in Others
    /\ ~Runout => R \notin Others
BY SdAssumption DEF Others, W, R

\* Who has the mutex.
LEMMA OneOwner == \A g, h : <<g>> = <<h>> => g = h
OBVIOUS

\* A mutex that somebody has is not free.
LEMMA OwnerThere == \A g : <<g>> # <<>>
OBVIOUS

\* The types of the mutex.
MutexTypes ==
    /\ owner \in {<<>>} \cup {<<g>> : g \in Others \cup {W}}
    /\ queue \in Seq(Others \cup {W})

\* Taking the mutex, or waiting for it, keeps them ...
LEMMA LockTypes ==
    ASSUME SdTypes, NEW g \in Others \cup {W}, lock(g)
    PROVE  MutexTypes' /\ \A h : owner = <<h>> => owner' = <<h>>
<1>1. MutexTypes
    BY Zenon DEF SdTypes, MutexTypes
<1>2. CASE owner = <<>>
    <2>1. owner' = <<g>> /\ queue' = queue
        BY Zenon, <1>2 DEF lock
    <2> QED
        BY Zenon, <1>1, <1>2, <2>1, OwnerThere DEF MutexTypes
<1>3. CASE owner # <<>>
    <2>1. owner' = owner /\ queue' = Append(queue, g)
        BY Zenon, <1>3 DEF lock
    <2>2. Append(queue, g) \in Seq(Others \cup {W})
        BY Zenon, <1>1, SeqAppend DEF MutexTypes
    <2> QED
        BY Zenon, <1>1, <2>1, <2>2 DEF MutexTypes
<1> QED
    BY Zenon, <1>2, <1>3

\* ... and so does handing it to the next.
LEMMA UnlockTypes ==
    ASSUME SdTypes, unlock
    PROVE  MutexTypes'
<1>1. MutexTypes
    BY Zenon DEF SdTypes, MutexTypes
<1>2. CASE queue = <<>>
    BY Zenon, <1>1, <1>2 DEF unlock, MutexTypes
<1>3. CASE queue # <<>>
    <2>1. owner' = <<Head(queue)>> /\ queue' = Tail(queue)
        BY Zenon, <1>3 DEF unlock
    <2>2. Head(queue) \in Others \cup {W} /\ Tail(queue) \in Seq(Others \cup {W})
        BY Zenon, <1>1, <1>3, SeqHeadTail DEF MutexTypes
    <2> QED
        BY Zenon, <1>1, <2>1, <2>2 DEF MutexTypes
<1> QED
    BY Zenon, <1>2, <1>3

\* The command of g is over.
Ended(g) ==
    /\ pc' \in [Others -> {"idle", "delay", "run", "restoring", "pausing"}]
    /\ cmd' \in [Others -> Commands \cup {SendPause, NoCommand}]
    /\ \A h \in Others \ {g} : pc'[h] = pc[h] /\ cmd'[h] = cmd[h]
    /\ pc'[g] \in {"idle", "run"}
    /\ g \in Users => cmd'[g] # SendPause
    /\ g = R => pc'[g] = "idle" /\ cmd'[g] = NoCommand

\* The names of commands differ from what stands for none.
LEMMA CommandNames ==
    /\ SendPause \notin Commands /\ NoCommand # SendPause
    /\ Pausing \subseteq Commands /\ Loading \subseteq Commands
BY DEF Commands, Pausing, Loading, SendPause, NoCommand

\* The end of a command keeps the types.
LEMMA DoneTypes ==
    ASSUME SdTypes, NEW g \in Others, Done(g)
    PROVE  MutexTypes' /\ Ended(g)
<1>1. /\ pc \in [Others -> {"idle", "delay", "run", "restoring", "pausing"}]
      /\ cmd \in [Others -> Commands \cup {SendPause, NoCommand}] /\ MutexTypes
    BY Zenon DEF SdTypes, MutexTypes
<1>2. CASE pc' = [pc EXCEPT ![g] = "idle"] /\ cmd' = [cmd EXCEPT ![g] = NoCommand] /\ unlock
    <2>1. MutexTypes'
        BY Zenon, <1>2, UnlockTypes
    <2>2. Ended(g)
        BY Zenon, <1>1, <1>2, CommandNames DEF Ended
    <2> QED
        BY Zenon, <2>1, <2>2
<1>3. ASSUME g \in Users, NEW c \in Commands, cmd' = [cmd EXCEPT ![g] = c],
             pc' = [pc EXCEPT ![g] = "run"], UNCHANGED mutexVars
      PROVE  MutexTypes' /\ Ended(g)
    <2>1. owner' = owner /\ queue' = queue
        BY Zenon, <1>3 DEF mutexVars
    <2>2. MutexTypes'
        BY Zenon, <1>1, <2>1 DEF MutexTypes
    <2>3. g # R /\ c # SendPause
        BY Zenon, <1>3, Greenlet, CommandNames
    <2>4. Ended(g)
        BY Zenon, <1>1, <1>3, <2>3 DEF Ended
    <2> QED
        BY Zenon, <2>2, <2>4
<1> QED
    BY Zenon, <1>2, <1>3 DEF Done

-----------------------------------------------------------------------------
\* The file.
LEMMA FileTypes ==
    /\ Size \in Nat /\ File \in Seq(Nat) /\ Len(File) = Size
<1>1. Size \in Nat
    BY SdAssumption DEF Size
<1>2. \A b \in 1..Size : b \in Nat /\ (b + 1) \div 2 \in Nat
    BY <1>1
<1>3. File \in [1..Size -> Nat]
    BY <1>2 DEF File, NL
<1> QED
    BY Zenon, <1>1, <1>3, FunctionIsSeq

\* A text, byte by byte.
Bytes(b, p, o) == b \in Seq(Nat) /\ Len(b) = o - p /\ \A i \in 1..(o - p) : b[i] = File[p + i]

\* The two ways to say it agree.
LEMMA TextBytes ==
    ASSUME NEW p \in 0..Size, NEW o \in 0..Size, NEW b, Text(b, p, o)
    PROVE  Bytes(b, p, o)
<1>1. Size \in Nat /\ File \in Seq(Nat) /\ Len(File) = Size
    BY FileTypes
<1>2. p \in 0..Len(File) /\ o \in p..Len(File)
    BY <1>1 DEF Text
<1> QED
    BY <1>1, <1>2, SubSeqElements DEF Text, Bytes

\* And the other way round.
LEMMA BytesText ==
    ASSUME NEW p \in 0..Size, NEW o \in 0..Size, NEW b, Bytes(b, p, o), p <= o
    PROVE  Text(b, p, o)
<1>1. PICK t : t = SubSeq(File, p + 1, o)
    BY Zenon
<1>2. Text(t, p, o)
    BY Zenon, <1>1 DEF Text
<1>3. Bytes(t, p, o)
    BY Zenon, <1>2, TextBytes
<1>4. /\ b \in Seq(Nat) /\ t \in Seq(Nat) /\ Len(b) = Len(t)
      /\ \A i \in 1..Len(b) : b[i] = t[i]
    BY Zenon, <1>3 DEF Bytes
<1>5. b = t
    BY Zenon, <1>4, SeqSame
<1> QED
    BY Zenon, <1>2, <1>5

\* A sequence after another, and what is left of one.
AfterThat(s, b, d) ==
    /\ s \in Seq(Nat) /\ Len(s) = Len(b) + Len(d)
    /\ \A i \in 1..Len(b) : s[i] = b[i]
    /\ \A i \in 1..Len(d) : s[Len(b) + i] = d[i]

\* The bytes of one after the other.
LEMMA Glued ==
    ASSUME NEW b \in Seq(Nat), NEW d \in Seq(Nat), NEW s, s = b \o d
    PROVE  AfterThat(s, b, d)
BY ConcatElements DEF AfterThat

LeftOf(s, b, n) ==
    s \in Seq(Nat) /\ Len(s) = Len(b) - n /\ \A i \in 1..(Len(b) - n) : s[i] = b[n + i]

\* The bytes of what is left.
LEMMA Shortened ==
    ASSUME NEW b \in Seq(Nat), NEW n \in 0..Len(b), NEW s, s = SubSeq(b, n + 1, Len(b))
    PROVE  LeftOf(s, b, n)
BY SuffixElements DEF LeftOf

\* A text and the one after it.
LEMMA ReadMore ==
    ASSUME NEW p \in 0..Size, NEW o \in 0..Size, NEW k \in 0..Size,
           NEW b, Text(b, p, o), NEW d, Text(d, o, k), NEW s, s = b \o d
    PROVE  Text(s, p, k)
<1>1. Bytes(b, p, o) /\ Bytes(d, o, k)
    BY Zenon, TextBytes
<1>2. b \in Seq(Nat) /\ d \in Seq(Nat) /\ Len(b) = o - p /\ Len(d) = k - o
    BY Zenon, <1>1 DEF Bytes
<1>3. /\ s \in Seq(Nat) /\ Len(s) = Len(b) + Len(d)
      /\ \A i \in 1..Len(b) : s[i] = b[i]
      /\ \A i \in 1..Len(d) : s[Len(b) + i] = d[i]
    <2>1. AfterThat(s, b, d)
        BY Zenon, <1>2, Glued
    <2> QED
        BY Zenon, <2>1 DEF AfterThat
<1>4. Size \in Nat /\ p <= o /\ o <= k
    BY Zenon, FileTypes DEF Text
<1>5. p <= k /\ Len(s) = k - p
    BY <1>2, <1>3, <1>4
<1>6. ASSUME NEW i \in 1..(k - p) PROVE s[i] = File[p + i]
    <2>1. CASE i <= o - p
        <3>1. i \in 1..(o - p)
            BY <1>4, <2>1
        <3>2. s[i] = b[i] /\ b[i] = File[p + i]
            BY Zenon, <1>1, <1>2, <1>3, <3>1 DEF Bytes
        <3> QED
            BY Zenon, <3>2
    <2>2. CASE ~(i <= o - p)
        <3>1. i - (o - p) \in 1..(k - o) /\ i = (o - p) + (i - (o - p)) /\ p + i = o + (i - (o - p))
            BY <1>4, <2>2
        <3>2. PICK j \in 1..(k - o) : i = (o - p) + j /\ p + i = o + j
            BY Zenon, <3>1
        <3>3. s[i] = d[j]
            BY Zenon, <1>2, <1>3, <3>2
        <3>4. d[j] = File[o + j]
            BY Zenon, <1>1 DEF Bytes
        <3> QED
            BY Zenon, <3>2, <3>3, <3>4
    <2> QED
        BY Zenon, <2>1, <2>2
<1>7. Bytes(s, p, k)
    BY Zenon, <1>3, <1>5, <1>6 DEF Bytes
<1> QED
    BY Zenon, <1>5, <1>7, BytesText

\* A text without its first n bytes.
RestOf(s, q, o) == q \in 0..Size /\ Text(s, q, o) /\ s \in Seq(Nat)

\* The buffer without the line that was taken from it.
LEMMA ReadLess ==
    ASSUME NEW p \in 0..Size, NEW o \in 0..Size, NEW b, Text(b, p, o), NEW n \in 1..Len(b),
           NEW q, q = p + n, NEW s, s = SubSeq(b, n + 1, Len(b))
    PROVE  RestOf(s, q, o)
<1>1. Size \in Nat /\ p <= o
    BY Zenon, FileTypes DEF Text
<1>2. b \in Seq(Nat) /\ Len(b) = o - p /\ \A i \in 1..(o - p) : b[i] = File[p + i]
    BY Zenon, TextBytes DEF Bytes
<1>3. q \in 0..Size /\ q <= o /\ n \in 0..Len(b)
    BY <1>1, <1>2
<1>4. s \in Seq(Nat) /\ Len(s) = Len(b) - n /\ \A i \in 1..(Len(b) - n) : s[i] = b[n + i]
    BY ZenonT(30), <1>2, <1>3, Shortened DEF LeftOf
<1>5. Len(b) - n = o - q
    BY <1>1, <1>2
<1>6. \A i \in 1..(o - q) : n + i \in 1..(o - p) /\ p + (n + i) = q + i
    BY <1>1, <1>2
<1>7. \A i \in 1..(o - q) : s[i] = b[n + i] /\ b[n + i] = File[p + (n + i)] /\ p + (n + i) = q + i
    BY Zenon, <1>2, <1>4, <1>5, <1>6
<1>8. Bytes(s, q, o)
    BY Zenon, <1>4, <1>5, <1>7 DEF Bytes
<1> QED
    BY Zenon, <1>3, <1>4, <1>8, BytesText DEF RestOf

\* Nothing is read between a place and itself.
LEMMA ReadNothing ==
    ASSUME NEW p \in 0..Size
    PROVE  Text(<<>>, p, p)
<1>1. p \in Nat /\ p <= p /\ p - p = 0 /\ Len(<<>>) = 0 /\ 1..0 = {}
    BY FileTypes
<1>2. Bytes(<<>>, p, p)
    BY Zenon, <1>1, SeqEmpty DEF Bytes
<1> QED
    BY Zenon, <1>1, <1>2, BytesText

-----------------------------------------------------------------------------
\* Parts of the invariant that a step leaves alone.
LEMMA CommandsKept ==
    ASSUME SdInv, pc' = pc, cmd' = cmd, is_paused' = is_paused, pause_command_sent' = pause_command_sent,
           is_shutdown' = is_shutdown \/ is_shutdown' = TRUE
    PROVE  Handler' /\ PauseInv'
<1>1. Handler'
    BY Zenon DEF SdInv, Handler
<1>2. PauseInv'
    BY Zenon DEF SdInv, PauseInv
<1> QED
    BY Zenon, <1>1, <1>2

\* What MutexInv talks about is unchanged.
LEMMA MutexKept ==
    ASSUME SdInv, pc' = pc, cmd' = cmd, owner' = owner,
           must_pause_work => must_pause_work' /\ (current_file => current_file'),
           cmd_from_sd' <=> w' \in {"line", "err"}, w' = "line" => owner' = <<W>>
    PROVE  MutexInv'
BY Zenon DEF SdInv, MutexInv, Yielded

\* When nobody has yielded, MutexInv is about the worker alone.
LEMMA MutexFree ==
    ASSUME \A g \in Others : ~Yielded(g)', cmd_from_sd' <=> w' \in {"line", "err"}, w' = "line" => owner' = <<W>>
    PROVE  MutexInv'
BY Zenon DEF MutexInv, Yielded

\* Only the owner of the mutex has a command that has yielded.
LEMMA OwnerAlone ==
    ASSUME SdInv, NEW h, owner = <<h>>, NEW g \in Others, g # h
    PROVE  ~Yielded(g)
BY Zenon, OneOwner DEF SdInv, MutexInv

\* Nobody else has yielded while the worker has the mutex.
LEMMA WorkerAlone ==
    ASSUME SdInv, owner = <<W>>, NEW g \in Others
    PROVE  ~Yielded(g)
BY Zenon, OwnerAlone, Greenlet

\* What StatsInv talks about is unchanged.
LEMMA StatsKept ==
    ASSUME SdInv, stats' = stats, started' = started, current_file' = current_file, w' # "none"
    PROVE  StatsInv'
BY Zenon DEF SdInv, StatsInv, work_timer

\* print_stats does not show "printing" after an end or a pause.
StatsTypes ==
    /\ stats \in {"standby", "printing", "paused", "complete", "error", "cancelled"}
    /\ started \in BOOLEAN

\* print_stats after note_complete(), note_cancel() and note_error(), ...
LEMMA FinishStats ==
    ASSUME SdInv, NEW state \in {"complete", "cancelled", "error"}, note_finish(state)
    PROVE  StatsTypes' /\ stats' # "printing"
<1>1. StatsTypes /\ StatsInv
    BY Zenon DEF SdInv, SdTypes, StatsTypes
<1>2. state # "printing" /\ state \in {"standby", "printing", "paused", "complete", "error", "cancelled"}
    OBVIOUS
<1>3. CASE started
    BY Zenon, <1>1, <1>2, <1>3 DEF note_finish, StatsTypes
<1>4. CASE ~started
    BY Zenon, <1>1, <1>4 DEF note_finish, StatsTypes, StatsInv
<1> QED
    BY Zenon, <1>3, <1>4

\* ... after note_pause() ...
LEMMA PauseStats ==
    ASSUME SdInv, note_pause
    PROVE  StatsTypes' /\ stats' # "printing"
<1>1. StatsTypes
    BY Zenon DEF SdInv, SdTypes, StatsTypes
<1>2. "paused" # "printing" /\ "error" # "printing"
    OBVIOUS
<1> QED
    BY Zenon, <1>1, <1>2 DEF note_pause, StatsTypes

\* ... and at the end of work_handler().
LEMMA ExitStats ==
    ASSUME SdInv, NEW opened \in BOOLEAN, Exit(opened)
    PROVE  /\ w' = "none" /\ cmd_from_sd' = FALSE /\ buffer' = <<>> /\ offset' = 0
           /\ StatsTypes' /\ stats' # "printing"
BY Zenon, FinishStats, PauseStats DEF Exit

\* The other greenlets, and the places in the file.
CommandTypes ==
    /\ pc \in [Others -> {"idle", "delay", "run", "restoring", "pausing"}]
    /\ cmd \in [Others -> Commands \cup {SendPause, NoCommand}]

PlaceTypes ==
    /\ offset \in 0..Size /\ file_position \in 0..Size
    /\ next_file_position \in 0..Size /\ line_end \in 0..Size

\* Where the worker is.
LEMMA Places ==
    /\ "none" \notin {"line", "err"} /\ "next" \notin {"line", "err"} /\ "loop" \notin {"line", "err"}
    /\ "start" \notin {"line", "err"}
    /\ "line" \notin {"loop", "next"} /\ "err" \notin {"loop", "next"} /\ "none" \notin {"loop", "next"}
    /\ "start" \notin {"loop", "next"}
    /\ "line" # "none" /\ "next" # "none" /\ "loop" # "none" /\ "start" # "none" /\ "err" # "none"
    /\ "next" # "line" /\ "loop" # "line" /\ "none" # "line" /\ "start" # "line" /\ "err" # "line"
    /\ 0 \in 0..Size
<1>1. 0 \in 0..Size
    BY FileTypes
<1> QED
    BY <1>1

\* The worker is gone, whatever the exit.
LEMMA WorkerGone ==
    ASSUME SdInv, SdTypes', w' = "none", cmd_from_sd' = FALSE, stats' # "printing",
           pc' = pc, cmd' = cmd, is_paused' = is_paused, pause_command_sent' = pause_command_sent,
           is_shutdown' = is_shutdown \/ is_shutdown' = TRUE,
           owner' = owner \/ owner = <<W>>, must_pause_work => must_pause_work',
           current_file' = current_file \/ ~must_pause_work
    PROVE  SdInv'
<1>1. Handler' /\ PauseInv'
    BY Zenon, CommandsKept
<1>2. MutexInv'
    <2>1. (cmd_from_sd' <=> w' \in {"line", "err"}) /\ (w' = "line" => owner' = <<W>>)
        BY Zenon, Places
    <2>2. CASE owner' = owner
        <3>1. must_pause_work => must_pause_work' /\ (current_file => current_file')
            BY Zenon
        <3> QED
            BY Zenon, <2>1, <2>2, <3>1, MutexKept
    <2>3. CASE owner = <<W>>
        <3>1. \A g \in Others : ~Yielded(g)'
            BY Zenon, <2>3, WorkerAlone DEF Yielded
        <3> QED
            BY Zenon, <2>1, <3>1, MutexFree
    <2> QED
        BY Zenon, <2>2, <2>3
<1>3. BufferInv'
    BY Zenon, Places DEF BufferInv, Looping
<1>4. StatsInv'
    BY Zenon DEF StatsInv
<1> QED
    BY Zenon, <1>1, <1>2, <1>3, <1>4 DEF SdInv

\* work_handler() up to its loop
LEMMA StartInv ==
    ASSUME SdInv, work_start
    PROVE  SdInv'
<1>1. /\ w = "start" /\ must_pause_work' = must_pause_work /\ current_file' = current_file
      /\ file_position' = file_position /\ cmd_from_sd' = cmd_from_sd
      /\ next_file_position' = next_file_position /\ line_end' = line_end
      /\ is_paused' = is_paused /\ pause_command_sent' = pause_command_sent /\ sd_paused' = sd_paused
      /\ owner' = owner /\ queue' = queue /\ pc' = pc /\ cmd' = cmd /\ is_shutdown' = is_shutdown
    BY DEF work_start, posVars, pauseVars, mutexVars, userVars
<1>2. Handler' /\ PauseInv'
    BY Zenon, <1>1, CommandsKept
<1>3. SdTypes /\ StatsInv /\ cmd_from_sd = FALSE
    <2>1. cmd_from_sd \in BOOLEAN /\ ~cmd_from_sd
        BY Zenon, <1>1, Places DEF SdInv, SdTypes, MutexInv
    <2> QED
        BY Zenon, <2>1 DEF SdInv
<1>4. CASE current_file
    <2>1. w' = "next" /\ offset' = file_position /\ stats' = "printing" /\ started' = TRUE /\ buffer' = <<>>
        BY Zenon, <1>4 DEF work_start, note_start
    <2>2. SdTypes'
        <3>1. <<>> \in Seq(Nat)
            BY Zenon, SeqEmpty
        <3> QED
            BY Zenon, <1>1, <1>3, <2>1, <3>1 DEF SdTypes
    <2>3. MutexInv'
        BY Zenon, <1>1, <1>3, <2>1, Places, MutexKept
    <2>4. BufferInv'
        <3>1. Text(buffer', file_position', offset')
            BY Zenon, <1>1, <1>3, <2>1, ReadNothing DEF SdTypes
        <3> QED
            BY Zenon, <1>1, <1>4, <2>1, <3>1, Places DEF BufferInv, Reads
    <2>5. StatsInv'
        BY Zenon, <1>1, <1>4, <2>1, Places DEF StatsInv, work_timer
    <2> QED
        BY Zenon, <1>2, <2>2, <2>3, <2>4, <2>5 DEF SdInv
<1>5. CASE ~current_file
    <2>1. w' = "none" /\ offset' = offset /\ stats' = stats /\ started' = started /\ buffer' = buffer
        BY Zenon, <1>5 DEF work_start, statVars
    <2>2. SdTypes'
        BY ZenonT(30), <1>1, <1>3, <2>1 DEF SdTypes
    <2>3. stats' # "printing" /\ cmd_from_sd' = FALSE
        BY Zenon, <1>1, <1>3, <1>5, <2>1 DEF StatsInv
    <2> QED
        BY Zenon, <1>1, <2>1, <2>2, <2>3, WorkerGone
<1> QED
    BY Zenon, <1>4, <1>5

\* The loop ends because of a pause, or because a read fails.
LEMMA ExitInv ==
    ASSUME SdInv, work_paused \/ work_read_error
    PROVE  SdInv'
<1>1. /\ Exit(current_file) /\ must_pause_work' = must_pause_work /\ current_file' = current_file
      /\ file_position' = file_position
      /\ next_file_position' = next_file_position /\ line_end' = line_end
      /\ is_paused' = is_paused /\ pause_command_sent' = pause_command_sent /\ sd_paused' = sd_paused
      /\ owner' = owner /\ queue' = queue /\ pc' = pc /\ cmd' = cmd /\ is_shutdown' = is_shutdown
    BY DEF work_paused, work_read_error, filVars, posVars, pauseVars, mutexVars, userVars
<1>2. SdTypes
    BY Zenon DEF SdInv
<1>3. /\ w' = "none" /\ cmd_from_sd' = FALSE /\ buffer' = <<>> /\ offset' = 0
      /\ StatsTypes' /\ stats' # "printing"
    BY Zenon, <1>1, <1>2, ExitStats DEF SdTypes
<1>4. SdTypes'
    BY Zenon, <1>1, <1>2, <1>3, SeqEmpty, Places DEF SdTypes, StatsTypes
<1> QED
    BY Zenon, <1>1, <1>3, <1>4, WorkerGone

\* The end of the file
LEMMA EofInv ==
    ASSUME SdInv, work_eof
    PROVE  SdInv'
<1>1. /\ Exit(FALSE) /\ must_pause_work' = must_pause_work /\ current_file' = FALSE /\ ~must_pause_work
      /\ file_position' = file_position
      /\ next_file_position' = next_file_position /\ line_end' = line_end
      /\ is_paused' = is_paused /\ pause_command_sent' = pause_command_sent /\ sd_paused' = sd_paused
      /\ owner' = owner /\ queue' = queue /\ pc' = pc /\ cmd' = cmd /\ is_shutdown' = is_shutdown
    BY Zenon DEF work_eof, posVars, pauseVars, mutexVars, userVars
<1>2. SdTypes
    BY Zenon DEF SdInv
<1>3. /\ w' = "none" /\ cmd_from_sd' = FALSE /\ buffer' = <<>> /\ offset' = 0
      /\ StatsTypes' /\ stats' # "printing"
    BY Zenon, <1>1, ExitStats
<1>4. SdTypes'
    BY Zenon, <1>1, <1>2, <1>3, SeqEmpty, Places DEF SdTypes, StatsTypes
<1> QED
    BY Zenon, <1>1, <1>3, <1>4, WorkerGone

\* A nonempty set of natural numbers has a least element.
LEMMA MinExists ==
    ASSUME NEW T, T \subseteq Nat, T # {}
    PROVE  \E x \in T : \A y \in T : x <= y
<1>1. PICK x \in T : \A y \in T : ~(<<y, x>> \in OpToRel(<, Nat))
  BY Zenon, WFMin, NatLessThanWellFounded
<1>2. \A y \in T : ~(y < x)
  BY Zenon, <1>1 DEF OpToRel
<1> QED
  BY <1>2

\* A line in the buffer ends in the buffer.
LEMMA LineThere ==
    ASSUME SdTypes, HasLine
    PROVE  LineLength \in 1..Len(buffer)
<1> DEFINE T == {i \in 1..Len(buffer) : buffer[i] = NL}
<1>1. Len(buffer) \in Nat
    BY SeqLen DEF SdTypes
<1>2. T # {}
    BY Zenon DEF HasLine
<1>3. T \subseteq Nat
    BY <1>1
<1>4. PICK n \in T : \A i \in T : n <= i
    BY Zenon, <1>2, <1>3, MinExists
<1>5. \A i \in 1..(n - 1) : i \in 1..Len(buffer) /\ ~(n <= i)
    BY <1>1, <1>4
<1>6. n \in 1..Len(buffer) /\ buffer[n] = NL /\ \A i \in 1..(n - 1) : buffer[i] # NL
    BY Zenon, <1>4, <1>5
<1> QED
    BY Zenon, <1>6 DEF LineLength

\* What one read returns, and where it ends.
LEMMA DataText ==
    ASSUME SdTypes
    PROVE  \E e \in 0..Size : Text(Data, offset, e) /\ offset + Len(Data) = e
<1>1. Size \in Nat /\ offset \in 0..Size /\ Chunk \in Nat \ {0}
    BY Zenon, FileTypes, SdAssumption DEF SdTypes
<1>2. PICK e : e = IF offset + Chunk < Size THEN offset + Chunk ELSE Size
    BY Zenon
<1>3. e \in 0..Size /\ offset <= e
    BY <1>1, <1>2
<1>4. Text(Data, offset, e)
    BY Zenon, <1>2, <1>3 DEF Data, Text
<1>5. Len(Data) = e - offset
    BY Zenon, <1>1, <1>3, <1>4, TextBytes DEF Bytes
<1>6. offset + Len(Data) = e
    BY <1>1, <1>3, <1>5
<1> QED
    BY Zenon, <1>3, <1>4, <1>6

\* One read of the file
LEMMA ReadInv ==
    ASSUME SdInv, work_read
    PROVE  SdInv'
<1>1. /\ Looping /\ ~must_pause_work /\ w' = "loop" /\ buffer' = Joined /\ offset' = offset + Len(Data)
      /\ must_pause_work' = must_pause_work /\ current_file' = current_file
      /\ file_position' = file_position /\ cmd_from_sd' = cmd_from_sd
      /\ next_file_position' = next_file_position /\ line_end' = line_end
      /\ is_paused' = is_paused /\ pause_command_sent' = pause_command_sent /\ sd_paused' = sd_paused
      /\ stats' = stats /\ started' = started
      /\ owner' = owner /\ queue' = queue /\ pc' = pc /\ cmd' = cmd /\ is_shutdown' = is_shutdown
    BY DEF work_read, posVars, pauseVars, statVars, mutexVars, userVars
<1>2. Handler' /\ PauseInv'
    BY Zenon, <1>1, CommandsKept
<1>3. SdTypes /\ current_file /\ Text(buffer, file_position, offset)
    BY Zenon, <1>1 DEF SdInv, BufferInv, Reads
<1>4. PICK e \in 0..Size : Text(Data, offset, e) /\ offset + Len(Data) = e
    BY Zenon, <1>3, DataText
<1>5. Text(buffer', file_position', offset')
    BY Zenon, <1>1, <1>3, <1>4, ReadMore DEF SdTypes, Joined
<1>6. buffer' \in Seq(Nat)
    <2>1. offset' \in 0..Size /\ file_position' \in 0..Size
        BY Zenon, <1>1, <1>3, <1>4 DEF SdTypes
    <2> QED
        BY Zenon, <1>5, <2>1, TextBytes DEF Bytes
<1>7. SdTypes'
    BY ZenonT(30), <1>1, <1>3, <1>4, <1>6 DEF SdTypes
<1>8. MutexInv'
    <2>1. ~cmd_from_sd
        BY Zenon, <1>1, Places DEF SdInv, MutexInv, Looping
    <2> QED
        BY Zenon, <1>1, <2>1, Places, MutexKept
<1>9. BufferInv'
    BY Zenon, <1>1, <1>3, <1>5, Places DEF BufferInv, Reads
<1>10. StatsInv'
    BY Zenon, <1>1, StatsKept, Places
<1> QED
    BY Zenon, <1>2, <1>7, <1>8, <1>9, <1>10 DEF SdInv

\* W yields because the mutex is taken.
LEMMA YieldInv ==
    ASSUME SdInv, work_yield
    PROVE  SdInv'
<1>0. w = "next"
    BY DEF work_yield
<1>1. /\ w' = "loop" /\ buffer' = buffer /\ offset' = offset
      /\ must_pause_work' = must_pause_work /\ current_file' = current_file
      /\ file_position' = file_position /\ cmd_from_sd' = cmd_from_sd
      /\ next_file_position' = next_file_position /\ line_end' = line_end
      /\ is_paused' = is_paused /\ pause_command_sent' = pause_command_sent /\ sd_paused' = sd_paused
      /\ stats' = stats /\ started' = started
      /\ owner' = owner /\ queue' = queue /\ pc' = pc /\ cmd' = cmd /\ is_shutdown' = is_shutdown
    BY DEF work_yield, sdVars, posVars, pauseVars, statVars, mutexVars, userVars
<1>2. Handler' /\ PauseInv'
    BY Zenon, <1>1, CommandsKept
<1>3. SdTypes'
    <2>1. SdTypes
        BY Zenon DEF SdInv
    <2>2. MutexTypes' /\ StatsTypes' /\ CommandTypes' /\ PlaceTypes'
        BY Zenon, <1>1, <2>1 DEF SdTypes, MutexTypes, StatsTypes, CommandTypes, PlaceTypes
    <2> QED
        BY Zenon, <1>1, <2>1, <2>2 DEF SdTypes, MutexTypes, StatsTypes, CommandTypes, PlaceTypes
<1>4. MutexInv'
    <2>1. ~cmd_from_sd
        BY Zenon, <1>0, Places DEF SdInv, MutexInv
    <2> QED
        BY Zenon, <1>1, <2>1, Places, MutexKept
<1>5. BufferInv'
    BY Zenon, <1>0, <1>1, Places DEF SdInv, BufferInv, Looping, Reads
<1>6. StatsInv'
    BY ZenonT(30), <1>1, StatsKept, Places
<1> QED
    BY Zenon, <1>2, <1>3, <1>4, <1>5, <1>6 DEF SdInv

\* A line is run.
LEMMA DispatchInv ==
    ASSUME SdInv, work_dispatch
    PROVE  SdInv'
<1>1. /\ Looping /\ ~must_pause_work /\ HasLine /\ owner = <<>>
      /\ w' = "line" /\ cmd_from_sd' = TRUE /\ owner' = <<W>>
      /\ next_file_position' = file_position + LineLength /\ line_end' = file_position + LineLength
      /\ buffer' = SubSeq(buffer, LineLength + 1, Len(buffer)) /\ offset' = offset
      /\ must_pause_work' = must_pause_work /\ current_file' = current_file
      /\ file_position' = file_position
      /\ is_paused' = is_paused /\ pause_command_sent' = pause_command_sent /\ sd_paused' = sd_paused
      /\ stats' = stats /\ started' = started
      /\ queue' = queue /\ pc' = pc /\ cmd' = cmd /\ is_shutdown' = is_shutdown
    BY DEF work_dispatch, sdVars, pauseVars, statVars, userVars
<1>2. Handler' /\ PauseInv'
    BY Zenon, <1>1, CommandsKept
<1>3. SdTypes /\ current_file /\ Text(buffer, file_position, offset)
    BY Zenon, <1>1 DEF SdInv, BufferInv, Reads
<1>4. LineLength \in 1..Len(buffer)
    BY Zenon, <1>1, <1>3, LineThere
<1>5. line_end' \in 0..Size /\ Text(buffer', line_end', offset) /\ buffer' \in Seq(Nat)
    <2>1. file_position \in 0..Size /\ offset \in 0..Size
        BY Zenon, <1>3 DEF SdTypes
    <2>2. RestOf(buffer', line_end', offset)
        BY Zenon, <1>1, <1>3, <1>4, <2>1, ReadLess
    <2> QED
        BY Zenon, <2>2 DEF RestOf
<1>6. SdTypes'
    BY Zenon, <1>1, <1>3, <1>5 DEF SdTypes
<1>7. MutexInv'
    <2>1. \A g \in Others : ~Yielded(g)'
        BY Zenon, <1>1, OwnerThere DEF SdInv, MutexInv, Yielded
    <2> QED
        BY Zenon, <1>1, <2>1, Places, MutexFree
<1>8. BufferInv'
    BY Zenon, <1>1, <1>3, <1>5, Places DEF BufferInv, Reads, Looping
<1>9. StatsInv'
    BY Zenon, <1>1, StatsKept, Places
<1> QED
    BY Zenon, <1>2, <1>6, <1>7, <1>8, <1>9 DEF SdInv

\* The line is done.
LEMMA LineDoneInv ==
    ASSUME SdInv, line_done
    PROVE  SdInv'
<1>1. /\ cmd_from_sd' = FALSE /\ file_position' = next_file_position
      /\ line_end' = 0 /\ next_file_position' = next_file_position
      /\ must_pause_work' = must_pause_work /\ current_file' = current_file
      /\ is_paused' = is_paused /\ pause_command_sent' = pause_command_sent /\ sd_paused' = sd_paused
      /\ stats' = stats /\ started' = started
      /\ pc' = pc /\ cmd' = cmd /\ is_shutdown' = is_shutdown
    BY DEF line_done, LineOver, pauseVars, statVars, userVars
<1>2. w = "line" /\ unlock
    BY Zenon DEF line_done
<1>3. Handler' /\ PauseInv'
    BY Zenon, <1>1, CommandsKept
<1>4. SdTypes /\ StatsInv /\ MutexTypes' /\ owner = <<W>>
    BY Zenon, <1>2, UnlockTypes DEF SdInv, MutexInv
<1>5. ASSUME w' \in {"none", "next"}, buffer' \in Seq(Nat), offset' \in 0..Size PROVE SdTypes'
    <2>1. w' \in {"none", "start", "loop", "next", "line", "err"}
        BY Zenon, <1>5
    <2> QED
        BY ZenonT(30), <1>1, <1>4, <1>5, <2>1, Places DEF SdTypes, MutexTypes
<1>6. ASSUME w' = "next" PROVE MutexInv' /\ StatsInv'
    <2>1. \A g \in Others : ~Yielded(g)'
        BY Zenon, <1>1, <1>4, WorkerAlone DEF Yielded
    <2> QED
        BY Zenon, <1>1, <1>6, <2>1, Places, MutexFree, StatsKept
<1>7. CASE next_file_position = line_end
    <2>1. w' = "next" /\ buffer' = buffer /\ offset' = offset
        BY Zenon, <1>7 DEF line_done
    <2>2. SdTypes'
        BY Zenon, <1>4, <1>5, <2>1 DEF SdTypes
    <2>3. BufferInv'
        BY Zenon, <1>1, <1>2, <1>7, <2>1, Places DEF SdInv, BufferInv, Reads
    <2> QED
        BY Zenon, <1>3, <1>6, <2>1, <2>2, <2>3 DEF SdInv
<1>8. CASE next_file_position # line_end /\ current_file
    <2>1. w' = "next" /\ buffer' = <<>> /\ offset' = next_file_position
        BY Zenon, <1>8 DEF line_done
    <2>2. next_file_position \in 0..Size
        BY Zenon, <1>4 DEF SdTypes
    <2>3. SdTypes'
        BY Zenon, <1>5, <2>1, <2>2, SeqEmpty
    <2>4. BufferInv'
        BY Zenon, <1>1, <1>8, <2>1, <2>2, ReadNothing, Places DEF BufferInv, Reads
    <2> QED
        BY Zenon, <1>3, <1>6, <2>1, <2>3, <2>4 DEF SdInv
<1>9. CASE next_file_position # line_end /\ ~current_file
    <2>1. w' = "none" /\ buffer' = <<>> /\ offset' = 0
        BY Zenon, <1>9 DEF line_done
    <2>2. SdTypes'
        BY Zenon, <1>5, <2>1, SeqEmpty, Places
    <2>3. stats' # "printing"
        BY Zenon, <1>1, <1>4, <1>9 DEF StatsInv
    <2> QED
        BY Zenon, <1>1, <1>4, <2>1, <2>2, <2>3, WorkerGone
<1> QED
    BY Zenon, <1>7, <1>8, <1>9

\* The line fails.
LEMMA LineFailInv ==
    ASSUME SdInv, line_fail
    PROVE  SdInv'
<1>1. /\ cmd_from_sd' = TRUE /\ w' = "err" /\ file_position' = file_position
      /\ line_end' = 0 /\ next_file_position' = next_file_position
      /\ must_pause_work' = must_pause_work /\ current_file' = current_file
      /\ buffer' = buffer /\ offset' = offset
      /\ is_paused' = is_paused /\ pause_command_sent' = pause_command_sent /\ sd_paused' = sd_paused
      /\ stats' = stats /\ started' = started
      /\ pc' = pc /\ cmd' = cmd /\ is_shutdown' = is_shutdown
    BY DEF line_fail, LineOver, FromSdOnError, sdVars, pauseVars, statVars, userVars
<1>2. w = "line"
    BY Zenon DEF line_fail
<1>3. Handler' /\ PauseInv'
    BY Zenon, <1>1, CommandsKept
<1>4. SdTypes /\ owner = <<W>>
    BY Zenon, <1>2 DEF SdInv, MutexInv
<1>5. MutexTypes'
    <2>1. MutexTypes
        BY Zenon, <1>4 DEF SdTypes, MutexTypes
    <2>2. CASE queue = <<>>
        <3>1. owner' = owner /\ queue' = queue
            BY Zenon, <2>2 DEF line_fail, mutexVars
        <3> QED
            BY Zenon, <2>1, <3>1 DEF MutexTypes
    <2>3. CASE queue # <<>>
        <3>1. owner' = <<Head(queue)>> /\ queue' = Append(Tail(queue), W)
            BY Zenon, <2>3 DEF line_fail
        <3>2. Head(queue) \in Others \cup {W} /\ Tail(queue) \in Seq(Others \cup {W})
            BY Zenon, <2>1, <2>3, SeqHeadTail DEF MutexTypes
        <3>3. Append(Tail(queue), W) \in Seq(Others \cup {W})
            BY Zenon, <3>2, SeqAppend
        <3> QED
            BY Zenon, <3>1, <3>2, <3>3 DEF MutexTypes
    <2> QED
        BY Zenon, <2>2, <2>3
<1>6. SdTypes'
    BY ZenonT(30), <1>1, <1>4, <1>5, Places DEF SdTypes, MutexTypes
<1>7. MutexInv'
    <2>1. \A g \in Others : ~Yielded(g)'
        BY Zenon, <1>1, <1>4, WorkerAlone DEF Yielded
    <2> QED
        BY Zenon, <1>1, <2>1, Places, MutexFree
<1>8. BufferInv'
    BY Zenon, <1>1, Places DEF BufferInv, Looping
<1>9. StatsInv'
    BY Zenon, <1>1, Places, StatsKept
<1> QED
    BY Zenon, <1>3, <1>6, <1>7, <1>8, <1>9 DEF SdInv

\* The on_error script is over.
LEMMA ErrorDoneInv ==
    ASSUME SdInv, error_done
    PROVE  SdInv'
<1>1. /\ must_pause_work' = must_pause_work /\ current_file' = current_file
      /\ file_position' = file_position /\ w' = "none" /\ cmd_from_sd' = FALSE
      /\ buffer' = <<>> /\ offset' = 0
      /\ next_file_position' = next_file_position /\ line_end' = line_end
      /\ is_paused' = is_paused /\ pause_command_sent' = pause_command_sent /\ sd_paused' = sd_paused
      /\ pc' = pc /\ cmd' = cmd /\ is_shutdown' = is_shutdown
    BY DEF error_done, filVars, posVars, pauseVars, userVars
<1>2. SdTypes /\ owner = <<W>> /\ MutexTypes'
    BY Zenon, UnlockTypes DEF SdInv, error_done
<1>3. StatsTypes' /\ stats' # "printing"
    BY Zenon, FinishStats DEF error_done
<1>4. SdTypes'
    BY Zenon, <1>1, <1>2, <1>3, SeqEmpty, Places DEF SdTypes, StatsTypes, MutexTypes
<1> QED
    BY Zenon, <1>1, <1>2, <1>3, <1>4, WorkerGone

\* An internal error in a line
LEMMA CrashInv ==
    ASSUME SdInv, line_crash
    PROVE  SdInv'
<1>1. /\ current_file' = current_file /\ file_position' = file_position
      /\ next_file_position' = next_file_position /\ line_end' = 0
      /\ is_paused' = is_paused /\ pause_command_sent' = pause_command_sent /\ sd_paused' = sd_paused
      /\ pc' = pc /\ cmd' = cmd /\ is_shutdown' = TRUE
    BY DEF line_crash, LineOver, ShutdownSd, pauseVars, userVars
<1>2. SdTypes /\ owner = <<W>> /\ MutexTypes'
    BY Zenon, UnlockTypes DEF SdInv, MutexInv, line_crash
<1>3. /\ w' = "none" /\ cmd_from_sd' = FALSE /\ buffer' = <<>> /\ offset' = 0
      /\ StatsTypes' /\ stats' # "printing"
    BY Zenon, <1>2, ExitStats DEF SdTypes, line_crash
<1>4. must_pause_work' \in BOOLEAN /\ (must_pause_work => must_pause_work')
    BY Zenon DEF line_crash, ShutdownSd
<1>5. SdTypes'
    BY Zenon, <1>1, <1>2, <1>3, <1>4, SeqEmpty, Places DEF SdTypes, StatsTypes, MutexTypes
<1> QED
    BY Zenon, <1>1, <1>2, <1>3, <1>4, <1>5, WorkerGone

\* SDCARD_LOOP_END
LEMMA LoopInv ==
    ASSUME SdInv, line_loop
    PROVE  SdInv'
<1>1. /\ w' = w /\ buffer' = buffer /\ offset' = offset
      /\ must_pause_work' = must_pause_work /\ current_file' = current_file
      /\ file_position' = file_position /\ cmd_from_sd' = cmd_from_sd /\ line_end' = line_end
      /\ is_paused' = is_paused /\ pause_command_sent' = pause_command_sent /\ sd_paused' = sd_paused
      /\ stats' = stats /\ started' = started
      /\ owner' = owner /\ queue' = queue /\ pc' = pc /\ cmd' = cmd /\ is_shutdown' = is_shutdown
    BY DEF line_loop, sdVars, pauseVars, statVars, mutexVars, userVars
<1>2. Handler' /\ PauseInv'
    BY Zenon, <1>1, CommandsKept
<1>3. SdTypes
    BY Zenon DEF SdInv
<1>4. next_file_position' \in 0..Size
    <2>1. PICK p \in {0} \cup {i \in 1..file_position : File[i] = NL} : next_file_position' = p
        BY Zenon DEF line_loop
    <2>2. file_position \in 0..Size /\ Size \in Nat
        BY Zenon, <1>3, FileTypes DEF SdTypes
    <2> QED
        BY <2>1, <2>2
<1>5. SdTypes'
    <2>1. MutexTypes' /\ StatsTypes' /\ CommandTypes'
        BY Zenon, <1>1, <1>3 DEF SdTypes, MutexTypes, StatsTypes, CommandTypes
    <2>2. offset' \in 0..Size /\ file_position' \in 0..Size /\ line_end' \in 0..Size
        BY Zenon, <1>1, <1>3 DEF SdTypes
    <2>3. PlaceTypes'
        BY Zenon, <1>4, <2>2 DEF PlaceTypes
    <2> QED
        BY ZenonT(30), <1>1, <1>3, <2>1, <2>3 DEF SdTypes, MutexTypes, StatsTypes, CommandTypes, PlaceTypes
<1>6. MutexInv'
    BY Zenon, <1>1 DEF SdInv, MutexInv, Yielded
<1>7. BufferInv' /\ StatsInv'
    BY Zenon, <1>1 DEF SdInv, BufferInv, Looping, Reads, StatsInv, work_timer
<1> QED
    BY Zenon, <1>2, <1>5, <1>6, <1>7 DEF SdInv

-----------------------------------------------------------------------------
\* What the end of a command of Pausing does to the file, the statistics and the flags.
FlagTypes ==
    /\ must_pause_work \in BOOLEAN /\ sd_paused \in BOOLEAN
    /\ is_paused \in BOOLEAN /\ pause_command_sent \in BOOLEAN
    /\ current_file \in BOOLEAN /\ file_position \in 0..Size /\ offset \in 0..Size

\* The file after CANCEL_PRINT, SDCARD_RESET_FILE and the others.
LEMMA FinishFile ==
    ASSUME SdInv, NEW c, NEW waited \in BOOLEAN, Finish(c, waited)
    PROVE  \/ /\ current_file' = current_file /\ file_position' = file_position
              /\ stats' = stats /\ started' = started
           \/ /\ c \in {"CANCEL_PRINT", "SDCARD_RESET_FILE"}
              /\ current_file' = FALSE /\ file_position' = 0
              /\ StatsTypes' /\ stats' # "printing"
<1>1. StatsTypes /\ StatsInv
    BY Zenon DEF SdInv, SdTypes, StatsTypes
<1>2. CASE c = "CANCEL_PRINT" /\ (waited \/ Cancels)
    <2>1. /\ current_file' = FALSE /\ file_position' = 0
          /\ IF current_file THEN note_finish("cancelled") ELSE stats' = stats /\ started' = started
        BY <1>2 DEF Finish, statVars
    <2>2. CASE current_file
        BY Zenon, <1>2, <2>1, <2>2, FinishStats
    <2>3. CASE ~current_file
        <3>1. stats' = stats /\ started' = started
            BY Zenon, <2>1, <2>3
        <3> QED
            BY Zenon, <1>1, <1>2, <2>1, <2>3, <3>1 DEF StatsInv, StatsTypes
    <2> QED
        BY Zenon, <2>2, <2>3
<1>3. CASE c = "SDCARD_RESET_FILE"
    <2>1. current_file' = FALSE /\ file_position' = 0 /\ stats' = "standby" /\ started' = FALSE
        BY <1>3 DEF Finish, reset_stats
    <2>2. "standby" # "printing"
        OBVIOUS
    <2> QED
        BY Zenon, <1>3, <2>1, <2>2 DEF StatsTypes
<1>4. CASE ~(c = "CANCEL_PRINT" /\ (waited \/ Cancels)) /\ c # "SDCARD_RESET_FILE"
    BY <1>4 DEF Finish, statVars
<1> QED
    BY Zenon, <1>2, <1>3, <1>4

\* The types after them.
LEMMA FinishTypes ==
    ASSUME SdInv, NEW c, NEW waited \in BOOLEAN, Finish(c, waited)
    PROVE  StatsTypes' /\ FlagTypes'
<1>1. StatsTypes /\ FlagTypes
    BY Zenon DEF SdInv, SdTypes, StatsTypes, FlagTypes
<1>2. StatsTypes' /\ current_file' \in BOOLEAN /\ file_position' \in 0..Size
    BY Zenon, <1>1, FinishFile, Places DEF StatsTypes, FlagTypes
<1>3. offset' = offset
    BY Zenon DEF Finish
<1>4. must_pause_work' \in BOOLEAN
    BY Zenon DEF Finish
<1>5. sd_paused' \in BOOLEAN
    BY Zenon, <1>1 DEF Finish, FlagTypes, work_timer
<1>6. is_paused' \in BOOLEAN
    BY Zenon, <1>1 DEF Finish, FlagTypes, FlagsAfter
<1>7. pause_command_sent' \in BOOLEAN
    BY Zenon, <1>1 DEF Finish, FlagTypes, FlagsAfter
<1> QED
    BY Zenon, <1>1, <1>2, <1>3, <1>4, <1>5, <1>6, <1>7 DEF FlagTypes

\* The end of a command that has waited for the worker keeps the invariant.
LEMMA FinishInv ==
    ASSUME SdInv, NEW c, NEW waited \in BOOLEAN, Finish(c, waited),
           waited => must_pause_work \/ c = SendPause,
           w' = w, buffer' = buffer, line_end' = line_end
    PROVE  BufferInv' /\ StatsInv'
<1>1. BufferInv /\ StatsInv
    BY Zenon DEF SdInv
<1>2. must_pause_work' <=> (must_pause_work \/ (~waited /\ AsksWorker(c)))
    BY Zenon DEF Finish
<1>3. offset' = offset
    BY Zenon DEF Finish
<1>4. SendPause \notin {"CANCEL_PRINT", "SDCARD_RESET_FILE"}
    BY DEF SendPause
<1>5. CASE /\ current_file' = current_file /\ file_position' = file_position
           /\ stats' = stats /\ started' = started
    <2>1. BufferInv'
        BY Zenon, <1>1, <1>2, <1>3, <1>5 DEF BufferInv, Reads, Looping
    <2>2. StatsInv'
        BY Zenon, <1>1, <1>5 DEF StatsInv, work_timer
    <2> QED
        BY Zenon, <2>1, <2>2
<1>6. CASE /\ c \in {"CANCEL_PRINT", "SDCARD_RESET_FILE"}
           /\ current_file' = FALSE /\ file_position' = 0 /\ stats' # "printing"
    <2>1. ASSUME ~must_pause_work', Looping' \/ w' = "line" PROVE FALSE
        <3>1. ~must_pause_work /\ ~waited /\ ~AsksWorker(c)
            BY Zenon, <1>2, <1>4, <1>6, <2>1
        <3>2. Looping \/ w = "line"
            BY Zenon, <2>1 DEF Looping
        <3>3. current_file
            BY Zenon, <1>1, <3>1, <3>2 DEF BufferInv, Reads
        <3>4. work_timer
            BY Zenon, <3>2, Places DEF Looping, work_timer
        <3> QED
            BY Zenon, <1>6, <3>1, <3>3, <3>4 DEF AsksWorker
    <2> QED
        BY Zenon, <1>6, <2>1 DEF BufferInv, StatsInv
<1> QED
    BY Zenon, <1>5, <1>6, FinishFile

\* The flags of a pause after it.
LEMMA FlagsPause ==
    ASSUME SdInv, NEW c \in Pausing, NEW sent, FlagsAfter(c, sent), is_shutdown' = is_shutdown,
           (R \in Others /\ pc[R] # "idle" /\ c # "PAUSE") => pc'[R] # "idle"
    PROVE  PauseInv'
<1>1. PauseInv
    BY Zenon DEF SdInv
<1>2. CASE c = "PAUSE"
    <2>1. is_paused' = TRUE
        BY <1>2 DEF FlagsAfter
    <2> QED
        BY Zenon, <2>1 DEF PauseInv
<1>3. CASE c = "CANCEL_PRINT"
    <2>1. pause_command_sent' = FALSE
        BY <1>3 DEF FlagsAfter, SendPause
    <2> QED
        BY Zenon, <2>1 DEF PauseInv
<1>4. CASE c \notin {"PAUSE", "CANCEL_PRINT"}
    <2>1. is_paused' = is_paused /\ pause_command_sent' = pause_command_sent
        BY Zenon, <1>4 DEF FlagsAfter, SendPause, Pausing
    <2> QED
        BY Zenon, <1>1, <1>4, <2>1 DEF PauseInv
<1> QED
    BY Zenon, <1>2, <1>3, <1>4

\* A command of a line of the file
LEMMA LineCommandInv ==
    ASSUME SdInv, NEW c \in Commands, line_command(c)
    PROVE  SdInv'
<1>1. /\ w' = w /\ buffer' = buffer /\ cmd_from_sd' = cmd_from_sd
      /\ next_file_position' = next_file_position /\ line_end' = line_end
      /\ owner' = owner /\ queue' = queue /\ pc' = pc /\ cmd' = cmd /\ is_shutdown' = is_shutdown
    BY DEF line_command, workVars, posVars, mutexVars, userVars
<1>2. owner = <<W>> /\ SdTypes /\ Handler
    BY Zenon DEF line_command, SdInv
<1>3. Handler'
    BY Zenon, <1>1, <1>2 DEF Handler
<1>4. MutexInv'
    <2>1. \A g \in Others : ~Yielded(g)'
        BY Zenon, <1>1, <1>2, WorkerAlone DEF Yielded
    <2>2. (cmd_from_sd' <=> w' \in {"line", "err"}) /\ (w' = "line" => owner' = <<W>>)
        BY Zenon, <1>1 DEF SdInv, MutexInv
    <2> QED
        BY Zenon, <2>1, <2>2, MutexFree
<1>5. ASSUME StatsTypes', FlagTypes' PROVE SdTypes'
    <2>1. MutexTypes' /\ CommandTypes'
        BY Zenon, <1>1, <1>2 DEF SdTypes, MutexTypes, CommandTypes
    <2>2. next_file_position' \in 0..Size /\ line_end' \in 0..Size
        BY Zenon, <1>1, <1>2 DEF SdTypes
    <2>3. PlaceTypes'
        BY Zenon, <1>5, <2>2 DEF PlaceTypes, FlagTypes
    <2> QED
        BY Zenon, <1>1, <1>2, <1>5, <2>1, <2>3
           DEF SdTypes, MutexTypes, StatsTypes, CommandTypes, PlaceTypes, FlagTypes
<1>6. CASE c \in Pausing /\ Finish(c, FALSE)
    <2>1. FlagsAfter(c, FALSE \/ Sends(c))
        BY Zenon, <1>6 DEF Finish
    <2>2. PauseInv'
        BY Zenon, <1>1, <1>6, <2>1, FlagsPause
    <2>3. FALSE \in BOOLEAN
        OBVIOUS
    <2>4. StatsTypes' /\ FlagTypes'
        BY Zenon, <1>6, <2>3, FinishTypes
    <2>5. BufferInv' /\ StatsInv'
        BY Zenon, <1>1, <1>6, <2>3, FinishInv
    <2> QED
        BY Zenon, <1>3, <1>4, <1>5, <2>2, <2>4, <2>5 DEF SdInv
<1>7. CASE Resumed /\ UNCHANGED <<sdVars, statVars>>
    <2>1. /\ is_paused' = FALSE /\ pause_command_sent' = FALSE /\ sd_paused' = sd_paused
          /\ must_pause_work' = must_pause_work /\ current_file' = current_file
          /\ file_position' = file_position /\ offset' = offset /\ stats' = stats /\ started' = started
        BY <1>7 DEF Resumed, sdVars, statVars
    <2>2. StatsTypes' /\ FlagTypes'
        BY Zenon, <1>2, <2>1 DEF SdTypes, StatsTypes, FlagTypes
    <2>3. BufferInv' /\ StatsInv' /\ PauseInv'
        BY Zenon, <1>1, <2>1 DEF SdInv, BufferInv, Looping, Reads, StatsInv, work_timer, PauseInv
    <2> QED
        BY Zenon, <1>3, <1>4, <1>5, <2>2, <2>3 DEF SdInv
<1> QED
    BY Zenon, <1>6, <1>7 DEF line_command

-----------------------------------------------------------------------------
\* The other greenlets.  Who holds the mutex is not the worker, which runs no line then.
LEMMA NotTheWorker ==
    ASSUME SdInv, NEW g \in Others, owner = <<g>>
    PROVE  w # "line"
BY Zenon, OneOwner, Greenlet DEF SdInv, MutexInv

\* What R may run
LEMMA HandlerRuns ==
    ASSUME SdInv, NEW g \in Others, pc[g] # "idle", cmd[g] \notin {"PAUSE", SendPause}
    PROVE  g # R
BY Zenon DEF SdInv, Handler

\* A command with the mutex ends.
LEMMA EndedInv ==
    ASSUME SdInv, NEW g \in Others, owner = <<g>>, Ended(g), cmd_from_sd' = cmd_from_sd,
           w' = w \/ (w = "none" /\ w' = "start")
    PROVE  Handler' /\ MutexInv' /\ CommandTypes' /\ w' # "line"
<1>1. CommandTypes'
    BY Zenon DEF Ended, CommandTypes
<1>2. Handler
    BY Zenon DEF SdInv
<1>3. Handler'
    <2>1. ASSUME NEW h \in Users PROVE cmd'[h] # SendPause
        BY Zenon, <1>2, Greenlet DEF Ended, Handler
    <2>2. ASSUME R \in Others, g # R
          PROVE  /\ cmd'[R] \in {"PAUSE", SendPause, NoCommand} /\ pc'[R] # "restoring"
                 /\ pc'[R] = "run" => cmd'[R] = "PAUSE"
                 /\ pc'[R] # "idle" => cmd'[R] # NoCommand
        <3>1. pc'[R] = pc[R] /\ cmd'[R] = cmd[R]
            BY Zenon, <2>2 DEF Ended
        <3> QED
            BY Zenon, <1>2, <2>2, <3>1 DEF Handler
    <2>3. ASSUME g = R
          PROVE  /\ cmd'[R] \in {"PAUSE", SendPause, NoCommand} /\ pc'[R] # "restoring"
                 /\ pc'[R] = "run" => cmd'[R] = "PAUSE"
                 /\ pc'[R] # "idle" => cmd'[R] # NoCommand
        <3>1. pc'[R] = "idle" /\ cmd'[R] = NoCommand
            BY Zenon, <2>3 DEF Ended
        <3>2. "idle" # "restoring" /\ "idle" # "run"
            OBVIOUS
        <3> QED
            BY Zenon, <3>1, <3>2
    <2> QED
        BY Zenon, <2>1, <2>2, <2>3 DEF Handler
<1>4. w # "line"
    BY Zenon, NotTheWorker
<1>5. w' # "line" /\ (cmd_from_sd' <=> w' \in {"line", "err"})
    BY Zenon, <1>4, Places DEF SdInv, MutexInv
<1>6. ASSUME NEW h \in Others PROVE ~Yielded(h)'
    <2>1. CASE h = g
        <3>1. "idle" \notin {"restoring", "pausing"} /\ "run" \notin {"restoring", "pausing"}
            OBVIOUS
        <3> QED
            BY Zenon, <2>1, <3>1 DEF Ended, Yielded
    <2>2. CASE h # g
        <3>1. ~Yielded(h)
            BY Zenon, <2>2, OwnerAlone
        <3>2. pc'[h] = pc[h] /\ cmd'[h] = cmd[h]
            BY Zenon, <2>2 DEF Ended
        <3> QED
            BY Zenon, <3>1, <3>2 DEF Yielded
    <2> QED
        BY Zenon, <2>1, <2>2
<1>7. MutexInv'
    BY Zenon, <1>5, <1>6, MutexFree
<1> QED
    BY Zenon, <1>1, <1>3, <1>5, <1>7

\* The end of a command that leaves the request for a pause alone
LEMMA EndedPause ==
    ASSUME SdInv, NEW g \in Others, Ended(g), g # R \/ is_shutdown, is_shutdown' = is_shutdown,
           is_paused' = is_paused, pause_command_sent' = pause_command_sent
    PROVE  PauseInv'
<1>1. PauseInv
    BY Zenon DEF SdInv
<1>2. CASE is_shutdown
    BY Zenon, <1>2 DEF PauseInv
<1>3. CASE g # R
    <2>1. R \in Others => pc'[R] = pc[R]
        BY Zenon, <1>3 DEF Ended
    <2> QED
        BY Zenon, <1>1, <2>1 DEF PauseInv
<1> QED
    BY Zenon, <1>2, <1>3

\* The flags stay, and the run-out handler does not come to its end.
LEMMA PauseKept ==
    ASSUME PauseInv, is_shutdown' = is_shutdown, is_paused' = is_paused,
           pause_command_sent' = pause_command_sent,
           (R \in Others /\ pc[R] # "idle") => pc'[R] # "idle"
    PROVE  PauseInv'
BY Zenon DEF PauseInv

\* The types, when only a command and the mutex change.
LEMMA TypesTogether ==
    ASSUME SdInv, MutexTypes', CommandTypes', StatsTypes', FlagTypes',
           w' = w \/ w' = "start", buffer' = buffer, cmd_from_sd' = cmd_from_sd,
           next_file_position' = next_file_position, line_end' = line_end,
           is_shutdown' = is_shutdown \/ is_shutdown' = TRUE
    PROVE  SdTypes'
<1>1. SdTypes
    BY Zenon DEF SdInv
<1>2. next_file_position' \in 0..Size /\ line_end' \in 0..Size
    BY Zenon, <1>1 DEF SdTypes
<1>3. w' \in {"none", "start", "loop", "next", "line", "err"} /\ is_shutdown' \in BOOLEAN
    BY Zenon, <1>1 DEF SdTypes
<1>4. buffer' \in Seq(Nat) /\ cmd_from_sd' \in BOOLEAN
    BY Zenon, <1>1 DEF SdTypes
<1> QED
    BY Zenon, <1>2, <1>3, <1>4 DEF SdTypes, MutexTypes, StatsTypes, CommandTypes, FlagTypes

\* What a command does not touch stays as it is.
SamePrint ==
    /\ w' = w /\ cmd_from_sd' = cmd_from_sd /\ buffer' = buffer
    /\ must_pause_work' = must_pause_work /\ current_file' = current_file
    /\ offset' = offset /\ file_position' = file_position
    /\ next_file_position' = next_file_position /\ line_end' = line_end
    /\ stats' = stats /\ started' = started /\ is_shutdown' = is_shutdown

\* The invariant of the print does not depend on anything else.
LEMMA SamePrintInv ==
    ASSUME SdInv, SamePrint
    PROVE  BufferInv' /\ StatsInv' /\ StatsTypes'
<1>1. BufferInv'
    BY Zenon DEF SdInv, SamePrint, BufferInv, Looping, Reads
<1>2. StatsInv'
    BY Zenon DEF SdInv, SamePrint, StatsInv, work_timer
<1>3. StatsTypes'
    BY Zenon DEF SdInv, SdTypes, SamePrint, StatsTypes
<1> QED
    BY Zenon, <1>1, <1>2, <1>3

\* The types of the flags, of which pause_resume may change some ...
LEMMA SamePrintTypes ==
    ASSUME SdInv, SamePrint, is_paused' \in BOOLEAN, pause_command_sent' \in BOOLEAN, sd_paused' \in BOOLEAN
    PROVE  FlagTypes'
<1>1. SdTypes
    BY Zenon DEF SdInv
<1>2. must_pause_work' \in BOOLEAN /\ current_file' \in BOOLEAN
    BY Zenon, <1>1 DEF SdTypes, SamePrint
<1>3. file_position' \in 0..Size /\ offset' \in 0..Size
    BY Zenon, <1>1 DEF SdTypes, SamePrint
<1> QED
    BY Zenon, <1>2, <1>3 DEF FlagTypes

SameFlags ==
    is_paused' = is_paused /\ pause_command_sent' = pause_command_sent /\ sd_paused' = sd_paused

\* ... or none.
LEMMA SameFlagTypes ==
    ASSUME SdInv, SameFlags
    PROVE  is_paused' \in BOOLEAN /\ pause_command_sent' \in BOOLEAN /\ sd_paused' \in BOOLEAN
BY Zenon DEF SdInv, SdTypes, SameFlags

\* A command that changes nothing of the print ends with the mutex.
LEMMA EndQuietly ==
    ASSUME SdInv, NEW g \in Others, owner = <<g>>, Done(g), SamePrint, SameFlags, g # R \/ is_shutdown
    PROVE  SdInv'
<1>1. MutexTypes' /\ Ended(g)
    BY Zenon, DoneTypes DEF SdInv
<1>2. /\ w' = w /\ buffer' = buffer /\ cmd_from_sd' = cmd_from_sd
      /\ next_file_position' = next_file_position /\ line_end' = line_end
      /\ is_shutdown' = is_shutdown
    BY Zenon DEF SamePrint
<1>3. Handler' /\ MutexInv' /\ CommandTypes'
    BY Zenon, <1>1, <1>2, EndedInv
<1>4. PauseInv'
    BY Zenon, <1>1, <1>2, EndedPause DEF SameFlags
<1>5. BufferInv' /\ StatsInv' /\ StatsTypes' /\ FlagTypes'
    BY Zenon, SamePrintInv, SamePrintTypes, SameFlagTypes
<1>6. SdTypes'
    BY Zenon, <1>1, <1>2, <1>3, <1>5, TypesTogether
<1> QED
    BY Zenon, <1>3, <1>4, <1>5, <1>6 DEF SdInv

\* A command that is refused
LEMMA RefusedInv ==
    ASSUME SdInv, NEW g \in Others, run_refused(g)
    PROVE  SdInv'
<1>1. SamePrint /\ SameFlags
    BY DEF run_refused, SamePrint, SameFlags, sdVars, workVars, posVars, pauseVars, statVars
<1>2. PICK c \in Commands : Running(g, c) /\ (Refused(c) \/ is_shutdown)
    BY Zenon DEF run_refused
<1>3. g # R \/ is_shutdown
    <2>1. CASE Refused(c)
        <3>1. c \notin {"PAUSE", SendPause} /\ "run" # "idle"
            BY <2>1 DEF Refused, Loading, SendPause
        <3> QED
            BY Zenon, <1>2, <3>1, HandlerRuns DEF Running
    <2> QED
        BY Zenon, <1>2, <2>1
<1>4. Done(g) /\ owner = <<g>>
    BY Zenon, <1>2 DEF run_refused, Running
<1> QED
    BY Zenon, <1>1, <1>3, <1>4, EndQuietly

\* RESUME that failed
LEMMA ResumeFailedInv ==
    ASSUME SdInv, NEW g \in Others, resume_failed(g)
    PROVE  SdInv'
<1>1. SamePrint /\ SameFlags
    BY DEF resume_failed, SamePrint, SameFlags, sdVars, workVars, posVars, pauseVars, statVars
<1>2. Done(g) /\ pc[g] = "restoring"
    BY Zenon DEF resume_failed
<1>3. owner = <<g>> /\ g # R
    BY Zenon, <1>2 DEF SdInv, MutexInv, Yielded, Handler
<1> QED
    BY Zenon, <1>1, <1>2, <1>3, EndQuietly

\* A command of Pausing ends, with the mutex.
LEMMA FinishDone ==
    ASSUME SdInv, NEW g \in Others, owner = <<g>>, pc[g] # "idle", NEW c \in Pausing, cmd[g] = c,
           NEW waited \in BOOLEAN, Finish(c, waited), waited => must_pause_work, Done(g),
           UNCHANGED <<workVars, is_shutdown>>
    PROVE  SdInv'
<1>1. MutexTypes' /\ Ended(g)
    BY Zenon, DoneTypes DEF SdInv
<1>2. /\ w' = w /\ buffer' = buffer /\ cmd_from_sd' = cmd_from_sd
      /\ next_file_position' = next_file_position /\ line_end' = line_end
      /\ is_shutdown' = is_shutdown
    BY DEF workVars, posVars
<1>3. Handler' /\ MutexInv' /\ CommandTypes'
    BY Zenon, <1>1, <1>2, EndedInv
<1>4. PauseInv'
    <2>1. FlagsAfter(c, waited \/ Sends(c))
        BY Zenon DEF Finish
    <2>2. ASSUME R \in Others, pc[R] # "idle", c # "PAUSE" PROVE pc'[R] # "idle"
        <3>1. c # SendPause
            BY Zenon, CommandNames
        <3>2. g # R
            BY Zenon, <2>2, <3>1, HandlerRuns
        <3> QED
            BY Zenon, <2>2, <3>2, <1>1 DEF Ended
    <2> QED
        BY Zenon, <1>2, <2>1, <2>2, FlagsPause
<1>5. StatsTypes' /\ FlagTypes'
    BY Zenon, FinishTypes
<1>6. BufferInv' /\ StatsInv'
    BY Zenon, <1>2, FinishInv
<1>7. SdTypes'
    BY Zenon, <1>1, <1>2, <1>3, <1>5, TypesTogether
<1> QED
    BY Zenon, <1>3, <1>4, <1>6, <1>7 DEF SdInv

\* A command stays with its greenlet and comes to a new place.
LEMMA MovedOn ==
    ASSUME SdInv, NEW g \in Others, NEW p \in {"idle", "delay", "run", "restoring", "pausing"},
           pc' = [pc EXCEPT ![g] = p], cmd' = cmd
    PROVE  CommandTypes' /\ pc'[g] = p /\ \A h \in Others \ {g} : pc'[h] = pc[h]
<1>1. CommandTypes
    BY Zenon DEF SdInv, SdTypes, CommandTypes
<1> QED
    BY Zenon, <1>1 DEF CommandTypes

\* do_pause() has to wait for the worker, with the mutex.
LEMMA WaitInv ==
    ASSUME SdInv, NEW g \in Others, owner = <<g>>, pc[g] = "run", NEW c \in Pausing, cmd[g] = c,
           AsksWorker(c), Wait(c), pc' = [pc EXCEPT ![g] = "pausing"], UNCHANGED <<cmd, mutexVars>>,
           UNCHANGED <<workVars, is_shutdown>>
    PROVE  SdInv'
<1>1. /\ w' = w /\ buffer' = buffer /\ cmd_from_sd' = cmd_from_sd
      /\ next_file_position' = next_file_position /\ line_end' = line_end
      /\ is_shutdown' = is_shutdown /\ cmd' = cmd /\ owner' = owner /\ queue' = queue
      /\ must_pause_work' = TRUE /\ current_file' = current_file /\ offset' = offset
      /\ file_position' = file_position /\ is_paused' = is_paused
      /\ pause_command_sent' = pause_command_sent /\ stats' = stats /\ started' = started
    BY DEF workVars, posVars, mutexVars, statVars, Wait
<1>2. CommandTypes' /\ pc'[g] = "pausing" /\ \A h \in Others \ {g} : pc'[h] = pc[h]
    BY Zenon, <1>1, MovedOn
<1>3. SdTypes /\ Handler /\ MutexInv /\ PauseInv
    BY Zenon DEF SdInv
<1>4. /\ "run" # "idle" /\ "pausing" # "idle" /\ "pausing" # "restoring" /\ "pausing" # "run"
      /\ SendPause \notin Pausing /\ NoCommand \notin Pausing
    BY DEF SendPause, NoCommand, Pausing
<1>5. Handler'
    BY Zenon, <1>1, <1>2, <1>3, <1>4 DEF Handler
<1>6. MutexInv'
    <2>1. (cmd_from_sd' <=> w' \in {"line", "err"}) /\ (w' = "line" => owner' = <<W>>)
        BY Zenon, <1>1, <1>3 DEF MutexInv
    <2>2. \A h \in Others : h # g => ~Yielded(h)'
        BY Zenon, <1>1, <1>2, OwnerAlone DEF Yielded
    <2>3. c \in {"CANCEL_PRINT", "SDCARD_RESET_FILE"} => current_file
        <3>1. c \in {"CANCEL_PRINT", "SDCARD_RESET_FILE"} => c # "M25" /\ c # "PAUSE" /\ c # SendPause
            BY DEF SendPause
        <3> QED
            BY Zenon, <3>1 DEF AsksWorker, Sends
    <2> QED
        BY Zenon, <1>1, <1>2, <2>1, <2>2, <2>3 DEF MutexInv, Yielded
<1>7. PauseInv'
    <2>1. (R \in Others /\ pc[R] # "idle") => pc'[R] # "idle"
        BY Zenon, <1>2, <1>4
    <2>2. is_shutdown' = is_shutdown /\ is_paused' = is_paused /\ pause_command_sent' = pause_command_sent
        BY Zenon, <1>1
    <2> QED
        BY Zenon, <1>3, <2>1, <2>2, PauseKept
<1>8. BufferInv' /\ StatsInv'
    BY Zenon, <1>1 DEF SdInv, BufferInv, StatsInv, work_timer
<1>9. StatsTypes' /\ MutexTypes'
    BY Zenon, <1>1, <1>3 DEF SdTypes, StatsTypes, MutexTypes
<1>10. FlagTypes'
    <2>1. sd_paused' \in BOOLEAN
        BY Zenon DEF Wait
    <2> QED
        BY Zenon, <1>1, <1>3, <2>1 DEF SdTypes, FlagTypes
<1>11. SdTypes'
    BY Zenon, <1>1, <1>2, <1>9, <1>10, TypesTogether
<1> QED
    BY ZenonT(30), <1>5, <1>6, <1>7, <1>8, <1>11 DEF SdInv

\* PAUSE, M25, CANCEL_PRINT and SDCARD_RESET_FILE
LEMMA PausingInv ==
    ASSUME SdInv, NEW g \in Others, run_pausing(g)
    PROVE  SdInv'
<1>1. PICK c \in Pausing :
          /\ Running(g, c)
          /\ IF AsksWorker(c) /\ ~Stopped
             THEN Wait(c) /\ pc' = [pc EXCEPT ![g] = "pausing"] /\ UNCHANGED <<cmd, mutexVars>>
             ELSE Finish(c, FALSE) /\ Done(g)
    BY Zenon DEF run_pausing
<1>2. UNCHANGED <<workVars, is_shutdown>>
    BY Zenon DEF run_pausing
<1>3. owner = <<g>> /\ pc[g] = "run" /\ cmd[g] = c
    BY Zenon, <1>1 DEF Running
<1>4. CASE AsksWorker(c) /\ ~Stopped
    <2>1. Wait(c) /\ pc' = [pc EXCEPT ![g] = "pausing"] /\ UNCHANGED <<cmd, mutexVars>>
        BY Zenon, <1>1, <1>4
    <2> QED
        BY Zenon, <1>2, <1>3, <1>4, <2>1, WaitInv
<1>5. CASE ~(AsksWorker(c) /\ ~Stopped)
    <2>1. Finish(c, FALSE) /\ Done(g)
        BY Zenon, <1>1, <1>5
    <2>2. "run" # "idle" /\ FALSE \in BOOLEAN
        OBVIOUS
    <2> QED
        BY Zenon, <1>2, <1>3, <2>1, <2>2, FinishDone
<1> QED
    BY Zenon, <1>4, <1>5

\* The wait of do_pause() is over.
LEMMA PauseOverInv ==
    ASSUME SdInv, NEW g \in Others, pause_over(g)
    PROVE  SdInv'
<1>1. pc[g] = "pausing" /\ Finish(cmd[g], TRUE) /\ UNCHANGED <<workVars, is_shutdown>>
    BY Zenon DEF pause_over
<1>2. SdTypes /\ Handler /\ MutexInv /\ PauseInv
    BY Zenon DEF SdInv
<1>3. CASE cmd[g] # SendPause
    <2>1. Done(g)
        BY Zenon, <1>3 DEF pause_over
    <2>2. owner = <<g>> /\ must_pause_work
        BY Zenon, <1>1, <1>2, <1>3 DEF MutexInv, Yielded
    <2>3. "pausing" # "idle" /\ TRUE \in BOOLEAN
        OBVIOUS
    <2>4. cmd[g] \in Pausing
        BY Zenon, <1>1, <1>2, <1>3 DEF MutexInv
    <2> QED
        BY ZenonT(30), <1>1, <2>1, <2>2, <2>3, <2>4, FinishDone
<1>4. CASE cmd[g] = SendPause
    <2>1. pc' = [pc EXCEPT ![g] = "delay"] /\ UNCHANGED <<cmd, mutexVars>>
        BY Zenon, <1>4 DEF pause_over
    <2>2. /\ w' = w /\ buffer' = buffer /\ cmd_from_sd' = cmd_from_sd
          /\ next_file_position' = next_file_position /\ line_end' = line_end
          /\ is_shutdown' = is_shutdown /\ cmd' = cmd /\ owner' = owner /\ queue' = queue
        BY <1>1, <2>1 DEF workVars, posVars, mutexVars
    <2>3. CommandTypes' /\ pc'[g] = "delay" /\ \A h \in Others \ {g} : pc'[h] = pc[h]
        BY Zenon, <2>1, <2>2, MovedOn
    <2>4. g = R
        BY Zenon, <1>2, <1>4, Greenlet DEF Handler
    <2>5. "delay" # "idle" /\ "delay" # "run" /\ "delay" # "restoring" /\ "delay" # "pausing" /\ "pausing" # "idle"
        OBVIOUS
    <2>6. Handler'
        BY ZenonT(30), <1>1, <1>2, <2>2, <2>3, <2>4, <2>5 DEF Handler
    <2>7. must_pause_work' = must_pause_work /\ current_file' = current_file
        BY <1>1, <1>2, <1>4 DEF Finish, SendPause, SdTypes
    <2>8. MutexInv'
        <3>1. ASSUME NEW h \in Others, Yielded(h)' PROVE h # g /\ pc'[h] = pc[h] /\ cmd'[h] = cmd[h]
            BY Zenon, <2>2, <2>3, <2>5, <3>1 DEF Yielded
        <3> QED
            BY ZenonT(30), <1>2, <2>2, <2>3, <2>5, <2>7, <3>1 DEF MutexInv, Yielded
    <2>9. PauseInv'
        BY Zenon, <2>3, <2>4, <2>5 DEF PauseInv
    <2>10. BufferInv' /\ StatsInv' /\ StatsTypes' /\ FlagTypes'
        <3>1. TRUE \in BOOLEAN
            OBVIOUS
        <3> QED
            BY Zenon, <1>1, <1>4, <2>2, <3>1, FinishInv, FinishTypes
    <2>11. MutexTypes'
        BY Zenon, <1>2, <2>2 DEF SdTypes, MutexTypes
    <2>12. SdTypes'
        BY Zenon, <2>2, <2>3, <2>10, <2>11, TypesTogether
    <2> QED
        BY Zenon, <2>6, <2>8, <2>9, <2>10, <2>12 DEF SdInv
<1> QED
    BY Zenon, <1>3, <1>4

\* A command starts the print, or changes the file while there is no worker.
LEMMA StartedInv ==
    ASSUME SdInv, NEW g \in Others, owner = <<g>>, pc[g] # "idle", cmd[g] \notin {"PAUSE", SendPause}, Done(g),
           w = "none", w' \in {"none", "start"}, StatsTypes', stats' # "printing", FlagTypes',
           buffer' = buffer, cmd_from_sd' = cmd_from_sd,
           next_file_position' = next_file_position, line_end' = line_end,
           is_shutdown' = is_shutdown, pause_command_sent' => pause_command_sent /\ is_paused' = is_paused
    PROVE  SdInv'
<1>1. MutexTypes' /\ Ended(g)
    BY Zenon, DoneTypes DEF SdInv
<1>2. w' = w \/ (w = "none" /\ w' = "start")
    BY Zenon
<1>3. Handler' /\ MutexInv' /\ CommandTypes' /\ w' # "line"
    BY Zenon, <1>1, <1>2, EndedInv
<1>4. PauseInv'
    <2>1. g # R
        BY Zenon, HandlerRuns
    <2>2. R \in Others => pc'[R] = pc[R]
        BY Zenon, <1>1, <2>1 DEF Ended
    <2> QED
        BY Zenon, <2>2 DEF SdInv, PauseInv
<1>5. BufferInv' /\ StatsInv'
    BY Zenon, Places DEF BufferInv, StatsInv, Looping
<1>6. SdTypes'
    BY Zenon, <1>1, <1>2, <1>3, TypesTogether
<1> QED
    BY Zenon, <1>3, <1>4, <1>5, <1>6 DEF SdInv

\* SDCARD_PRINT_FILE and M23
LEMMA LoadInv ==
    ASSUME SdInv, NEW g \in Others, run_load(g)
    PROVE  SdInv'
<1>1. PICK c \in Loading :
          /\ Running(g, c) /\ ~Refused(c)
          /\ reset_stats /\ file_position' = 0
          /\ \/ current_file' = FALSE /\ UNCHANGED <<offset, w, must_pause_work>>
             \/ /\ current_file' = TRUE /\ offset' = 0
                /\ IF c = "M23" THEN UNCHANGED <<w, must_pause_work>> ELSE do_resume
    BY Zenon DEF run_load
<1>2. /\ buffer' = buffer /\ cmd_from_sd' = cmd_from_sd
      /\ next_file_position' = next_file_position /\ line_end' = line_end
      /\ is_shutdown' = is_shutdown /\ SameFlags
    BY DEF run_load, posVars, pauseVars, SameFlags
<1>3. Done(g) /\ owner = <<g>> /\ pc[g] = "run" /\ cmd[g] = c
    BY Zenon, <1>1 DEF run_load, Running
<1>4. w = "none"
    BY Zenon, <1>1 DEF Refused, work_timer
<1>5. c \notin {"PAUSE", SendPause} /\ "run" # "idle" /\ "standby" # "printing"
    BY DEF Loading, SendPause
<1>6. SdTypes
    BY Zenon DEF SdInv
<1>7. /\ w' \in {"none", "start"} /\ must_pause_work' \in BOOLEAN
      /\ current_file' \in BOOLEAN /\ offset' \in 0..Size
    <2>1. must_pause_work \in BOOLEAN /\ offset \in 0..Size
        BY Zenon, <1>6 DEF SdTypes
    <2>2. (w' = w /\ must_pause_work' = must_pause_work) \/ (w' = "start" /\ must_pause_work' = FALSE)
        BY <1>1 DEF do_resume
    <2>3. (current_file' = FALSE /\ offset' = offset) \/ (current_file' = TRUE /\ offset' = 0)
        BY <1>1
    <2>4. w' \in {"none", "start"} /\ must_pause_work' \in BOOLEAN
        BY Zenon, <1>4, <2>1, <2>2
    <2> QED
        BY Zenon, <2>1, <2>3, <2>4, Places
<1>8. FlagTypes'
    BY Zenon, <1>1, <1>2, <1>7, SameFlagTypes, Places DEF FlagTypes
<1>9. StatsTypes' /\ stats' # "printing"
    BY Zenon, <1>1, <1>5 DEF StatsTypes, reset_stats
<1> QED
    BY ZenonT(30), <1>2, <1>3, <1>4, <1>5, <1>7, <1>8, <1>9, StartedInv DEF SameFlags

\* M24
LEMMA M24Inv ==
    ASSUME SdInv, NEW g \in Others, run_M24(g)
    PROVE  SdInv'
<1>1. /\ buffer' = buffer /\ cmd_from_sd' = cmd_from_sd
      /\ next_file_position' = next_file_position /\ line_end' = line_end
      /\ is_shutdown' = is_shutdown /\ SameFlags /\ w' = "start" /\ must_pause_work' = FALSE
      /\ current_file' = current_file /\ offset' = offset /\ file_position' = file_position
      /\ stats' = stats /\ started' = started
    BY DEF run_M24, posVars, pauseVars, statVars, SameFlags, do_resume
<1>2. Done(g) /\ owner = <<g>> /\ pc[g] = "run" /\ cmd[g] = "M24"
    BY Zenon DEF run_M24, Running
<1>3. w = "none"
    BY Zenon DEF run_M24, Refused, work_timer
<1>4. "M24" \notin {"PAUSE", SendPause} /\ "run" # "idle"
    BY DEF SendPause
<1>5. SdTypes /\ StatsInv
    BY Zenon DEF SdInv
<1>6. FlagTypes'
    BY ZenonT(30), <1>1, <1>5, SameFlagTypes DEF FlagTypes, SdTypes
<1>7. StatsTypes' /\ stats' # "printing"
    BY ZenonT(30), <1>1, <1>3, <1>5 DEF SdTypes, StatsTypes, StatsInv, work_timer
<1> QED
    BY ZenonT(30), <1>1, <1>2, <1>3, <1>4, <1>6, <1>7, StartedInv DEF SameFlags

\* M26
LEMMA M26Inv ==
    ASSUME SdInv, NEW g \in Others, run_M26(g)
    PROVE  SdInv'
<1>1. /\ buffer' = buffer /\ cmd_from_sd' = cmd_from_sd
      /\ next_file_position' = next_file_position /\ line_end' = line_end
      /\ is_shutdown' = is_shutdown /\ SameFlags /\ w' = w /\ must_pause_work' = must_pause_work
      /\ current_file' = current_file /\ offset' = offset
      /\ stats' = stats /\ started' = started
    BY DEF run_M26, workVars, posVars, pauseVars, statVars, SameFlags
<1>2. Done(g) /\ owner = <<g>> /\ pc[g] = "run" /\ cmd[g] = "M26" /\ file_position' \in 0..Size
    BY Zenon DEF run_M26, Running
<1>3. w = "none"
    BY Zenon DEF run_M26, Refused, work_timer
<1>4. "M26" \notin {"PAUSE", SendPause} /\ "run" # "idle"
    BY DEF SendPause
<1>5. SdTypes /\ StatsInv
    BY Zenon DEF SdInv
<1>6. FlagTypes'
    BY Zenon, <1>1, <1>2, <1>5, SameFlagTypes DEF FlagTypes, SdTypes
<1>7. StatsTypes' /\ stats' # "printing"
    BY Zenon, <1>1, <1>3, <1>5 DEF SdTypes, StatsTypes, StatsInv, work_timer
<1> QED
    BY ZenonT(30), <1>1, <1>2, <1>3, <1>4, <1>6, <1>7, StartedInv DEF SameFlags

\* The pause is over for pause_resume, and nothing of the print changes.
LEMMA ClearedInv ==
    ASSUME SdInv, NEW g \in Others, owner = <<g>>, Done(g), SamePrint,
           is_paused' = FALSE, pause_command_sent' = FALSE, sd_paused' \in BOOLEAN
    PROVE  SdInv'
<1>1. MutexTypes' /\ Ended(g)
    BY Zenon, DoneTypes DEF SdInv
<1>2. /\ w' = w /\ buffer' = buffer /\ cmd_from_sd' = cmd_from_sd
      /\ next_file_position' = next_file_position /\ line_end' = line_end
      /\ is_shutdown' = is_shutdown
    BY Zenon DEF SamePrint
<1>3. Handler' /\ MutexInv' /\ CommandTypes'
    BY Zenon, <1>1, <1>2, EndedInv
<1>4. PauseInv'
    BY Zenon DEF PauseInv
<1>5. BufferInv' /\ StatsInv' /\ StatsTypes' /\ FlagTypes'
    BY Zenon, SamePrintInv, SamePrintTypes
<1>6. SdTypes'
    BY ZenonT(30), <1>1, <1>2, <1>3, <1>5, TypesTogether
<1> QED
    BY Zenon, <1>3, <1>4, <1>5, <1>6 DEF SdInv

\* CLEAR_PAUSE
LEMMA ClearPauseInv ==
    ASSUME SdInv, NEW g \in Others, run_CLEAR_PAUSE(g)
    PROVE  SdInv'
<1>1. SamePrint /\ is_paused' = FALSE /\ pause_command_sent' = FALSE /\ sd_paused' = sd_paused
    BY DEF run_CLEAR_PAUSE, Resumed, SamePrint, sdVars, workVars, posVars, statVars
<1>2. Done(g) /\ owner = <<g>> /\ sd_paused \in BOOLEAN
    BY Zenon DEF run_CLEAR_PAUSE, Running, SdInv, SdTypes
<1> QED
    BY Zenon, <1>1, <1>2, ClearedInv

\* RESUME ends, and with it the pause.
LEMMA ResumeInv ==
    ASSUME SdInv, NEW g \in Others, resume(g)
    PROVE  SdInv'
<1>1. /\ buffer' = buffer /\ cmd_from_sd' = cmd_from_sd
      /\ next_file_position' = next_file_position /\ line_end' = line_end
      /\ is_shutdown' = is_shutdown
      /\ is_paused' = FALSE /\ pause_command_sent' = FALSE /\ sd_paused' = FALSE
      /\ current_file' = current_file /\ offset' = offset /\ file_position' = file_position
      /\ stats' = stats /\ started' = started
    BY DEF resume, posVars, statVars
<1>2. Done(g) /\ pc[g] = "restoring"
    BY Zenon DEF resume
<1>3. SdTypes /\ StatsInv
    BY Zenon DEF SdInv
<1>4. owner = <<g>> /\ g # R
    BY Zenon, <1>2 DEF SdInv, MutexInv, Yielded, Handler
<1>5. CASE sd_paused
    <2>1. w = "none" /\ w' = "start" /\ must_pause_work' = FALSE
        BY Zenon, <1>5 DEF resume, work_timer, do_resume
    <2>2. MutexTypes' /\ Ended(g)
        BY Zenon, <1>2, <1>3, DoneTypes
    <2>3. Handler' /\ MutexInv' /\ CommandTypes'
        BY Zenon, <1>1, <1>4, <2>1, <2>2, EndedInv
    <2>4. FlagTypes'
        BY Zenon, <1>1, <1>3, <2>1 DEF FlagTypes, SdTypes
    <2>5. StatsTypes' /\ stats' # "printing"
        BY Zenon, <1>1, <1>3, <2>1 DEF SdTypes, StatsTypes, StatsInv, work_timer
    <2>6. SdTypes'
        BY ZenonT(30), <1>1, <2>1, <2>2, <2>3, <2>4, <2>5, TypesTogether
    <2>7. BufferInv' /\ StatsInv' /\ PauseInv'
        BY Zenon, <1>1, <2>1, <2>5, Places DEF BufferInv, StatsInv, PauseInv, Looping
    <2> QED
        BY Zenon, <2>3, <2>6, <2>7 DEF SdInv
<1>6. CASE ~sd_paused
    <2>1. w' = w /\ must_pause_work' = must_pause_work
        BY Zenon, <1>6 DEF resume
    <2>2. SamePrint
        BY Zenon, <1>1, <2>1 DEF SamePrint
    <2> QED
        BY Zenon, <1>1, <1>2, <1>4, <2>2, ClearedInv
<1> QED
    BY Zenon, <1>5, <1>6

\* RESUME moves back to the saved position, or has nothing to do.
LEMMA RunResumeInv ==
    ASSUME SdInv, NEW g \in Others, run_RESUME(g)
    PROVE  SdInv'
<1>1. SamePrint /\ SameFlags
    BY DEF run_RESUME, SamePrint, SameFlags, sdVars, workVars, posVars, pauseVars, statVars
<1>2. owner = <<g>> /\ pc[g] = "run" /\ cmd[g] = "RESUME"
    BY Zenon DEF run_RESUME, Running
<1>3. "RESUME" \notin {"PAUSE", SendPause} /\ "run" # "idle" /\ "restoring" # "pausing"
    BY DEF SendPause
<1>4. g # R
    BY Zenon, <1>2, <1>3, HandlerRuns
<1>5. CASE ~is_paused
    <2>1. Done(g)
        BY ZenonT(30), <1>5 DEF run_RESUME
    <2> QED
        BY Zenon, <1>1, <1>2, <1>4, <2>1, EndQuietly
<1>6. CASE is_paused
    <2>1. pc' = [pc EXCEPT ![g] = "restoring"] /\ UNCHANGED <<cmd, mutexVars>>
        BY Zenon, <1>6 DEF run_RESUME
    <2>2. cmd' = cmd /\ owner' = owner /\ queue' = queue
        BY <2>1 DEF mutexVars
    <2>3. CommandTypes' /\ pc'[g] = "restoring" /\ \A h \in Others \ {g} : pc'[h] = pc[h]
        BY Zenon, <2>1, <2>2, MovedOn
    <2>4. SdTypes /\ Handler /\ MutexInv /\ PauseInv
        BY Zenon DEF SdInv
    <2>5. R \in Others => pc'[R] = pc[R]
        BY Zenon, <1>4, <2>3
    <2>6. Handler'
        BY Zenon, <2>2, <2>4, <2>5 DEF Handler
    <2>7. w' = w /\ cmd_from_sd' = cmd_from_sd
        BY Zenon, <1>1 DEF SamePrint
    <2>8. MutexInv'
        <3>1. (cmd_from_sd' <=> w' \in {"line", "err"}) /\ (w' = "line" => owner' = <<W>>)
            BY Zenon, <2>2, <2>4, <2>7 DEF MutexInv
        <3>2. \A h \in Others : h # g => ~Yielded(h)'
            BY Zenon, <1>2, <2>2, <2>3, OwnerAlone DEF Yielded
        <3>3. ~(pc'[g] = "pausing") /\ owner' = <<g>>
            BY Zenon, <1>2, <1>3, <2>2, <2>3
        <3> QED
            BY Zenon, <3>1, <3>2, <3>3 DEF MutexInv, Yielded
    <2>9. PauseInv'
        BY Zenon, <1>1, <2>4, <2>5, PauseKept DEF SamePrint, SameFlags
    <2>10. BufferInv' /\ StatsInv' /\ StatsTypes' /\ FlagTypes'
        BY Zenon, <1>1, SamePrintInv, SamePrintTypes, SameFlagTypes
    <2>11. MutexTypes'
        BY Zenon, <2>2, <2>4 DEF SdTypes, MutexTypes
    <2>12. SdTypes'
        BY Zenon, <1>1, <2>3, <2>10, <2>11, TypesTogether DEF SamePrint
    <2> QED
        BY Zenon, <2>6, <2>8, <2>9, <2>10, <2>12 DEF SdInv
<1> QED
    BY Zenon, <1>5, <1>6

\* A greenlet asks for the mutex to run a command.
LEMMA LockInv ==
    ASSUME SdInv, NEW g \in Others, NEW c \in Commands, g = R => c = "PAUSE", lock(g),
           pc' = [pc EXCEPT ![g] = "run"], cmd' = [cmd EXCEPT ![g] = c], SamePrint, SameFlags
    PROVE  SdInv'
<1>1. MutexTypes' /\ \A h : owner = <<h>> => owner' = <<h>>
    BY Zenon, LockTypes DEF SdInv
<1>2. CommandTypes
    BY Zenon DEF SdInv, SdTypes, CommandTypes
<1>3. /\ CommandTypes' /\ pc'[g] = "run" /\ cmd'[g] = c
      /\ \A h \in Others \ {g} : pc'[h] = pc[h] /\ cmd'[h] = cmd[h]
    BY Zenon, <1>2 DEF CommandTypes
<1>4. Handler /\ MutexInv /\ PauseInv
    BY Zenon DEF SdInv
<1>5. c # SendPause /\ "run" # "restoring" /\ "run" # "idle" /\ "run" # "pausing" /\ "PAUSE" # NoCommand
    <2>1. "run" # "restoring" /\ "run" # "idle" /\ "run" # "pausing" /\ "PAUSE" # NoCommand
        BY DEF NoCommand
    <2> QED
        BY Zenon, <2>1, CommandNames
<1>6. Handler'
    <2>1. \A h \in Users : cmd'[h] # SendPause
        BY Zenon, <1>3, <1>4, <1>5, Greenlet DEF Handler
    <2>2. ASSUME R \in Others, g = R
          PROVE  /\ cmd'[R] \in {"PAUSE", SendPause, NoCommand} /\ pc'[R] # "restoring"
                 /\ pc'[R] = "run" => cmd'[R] = "PAUSE"
                 /\ pc'[R] # "idle" => cmd'[R] # NoCommand
        <3>1. pc'[R] = "run" /\ cmd'[R] = "PAUSE"
            BY Zenon, <1>3, <2>2
        <3> QED
            BY Zenon, <1>5, <3>1
    <2>3. ASSUME R \in Others, g # R
          PROVE  /\ cmd'[R] \in {"PAUSE", SendPause, NoCommand} /\ pc'[R] # "restoring"
                 /\ pc'[R] = "run" => cmd'[R] = "PAUSE"
                 /\ pc'[R] # "idle" => cmd'[R] # NoCommand
        <3>1. pc'[R] = pc[R] /\ cmd'[R] = cmd[R]
            BY Zenon, <1>3, <2>3
        <3> QED
            BY Zenon, <1>4, <2>3, <3>1 DEF Handler
    <2> QED
        BY Zenon, <2>1, <2>2, <2>3 DEF Handler
<1>7. MutexInv'
    <2>1. /\ w' = w /\ cmd_from_sd' = cmd_from_sd /\ must_pause_work' = must_pause_work
          /\ current_file' = current_file
        BY Zenon DEF SamePrint
    <2>2. (cmd_from_sd' <=> w' \in {"line", "err"}) /\ (w' = "line" => owner' = <<W>>)
        BY Zenon, <1>1, <1>4, <2>1 DEF MutexInv
    <2>3. pc'[g] # "pausing" /\ pc'[g] # "restoring"
        BY Zenon, <1>3, <1>5
    <2>4. ASSUME NEW h \in Others, Yielded(h)'
          PROVE  /\ owner' = <<h>>
                 /\ pc'[h] = "pausing" /\ cmd'[h] # SendPause =>
                       /\ must_pause_work' /\ cmd'[h] \in Pausing
                       /\ cmd'[h] \in {"CANCEL_PRINT", "SDCARD_RESET_FILE"} => current_file'
        <3>1. h # g
            BY Zenon, <2>3, <2>4 DEF Yielded
        <3>2. pc'[h] = pc[h] /\ cmd'[h] = cmd[h]
            BY Zenon, <1>3, <3>1
        <3>3. Yielded(h)
            BY Zenon, <2>4, <3>2 DEF Yielded
        <3> QED
            BY ZenonT(30), <1>1, <1>4, <2>1, <3>2, <3>3 DEF MutexInv
    <2> QED
        BY Zenon, <2>2, <2>4 DEF MutexInv, Yielded
<1>8. PauseInv'
    <2>1. (R \in Others /\ pc[R] # "idle") => pc'[R] # "idle"
        BY Zenon, <1>3, <1>5
    <2>2. is_shutdown' = is_shutdown /\ is_paused' = is_paused /\ pause_command_sent' = pause_command_sent
        BY Zenon DEF SamePrint, SameFlags
    <2> QED
        BY Zenon, <1>4, <2>1, <2>2, PauseKept
<1>9. BufferInv' /\ StatsInv' /\ StatsTypes' /\ FlagTypes'
    BY Zenon, SamePrintInv, SamePrintTypes, SameFlagTypes
<1>10. SdTypes'
    BY Zenon, <1>1, <1>3, <1>9, TypesTogether DEF SamePrint
<1> QED
    BY Zenon, <1>6, <1>7, <1>8, <1>9, <1>10 DEF SdInv

\* A user sends a command.
LEMMA RequestInv ==
    ASSUME SdInv, NEW g \in Users, NEW c \in Commands, request(g, c)
    PROVE  SdInv'
<1>1. SamePrint /\ SameFlags
    BY DEF request, SamePrint, SameFlags, sdVars, workVars, posVars, pauseVars, statVars
<1>2. /\ lock(g) /\ pc' = [pc EXCEPT ![g] = "run"] /\ cmd' = [cmd EXCEPT ![g] = c] /\ pc[g] = "idle"
    BY Zenon DEF request
<1>3. g \in Others /\ g # R
    BY Zenon, Greenlet
<1> QED
    BY Zenon, <1>1, <1>2, <1>3, LockInv

\* The run-out handler runs PAUSE.
LEMMA RunoutScriptInv ==
    ASSUME SdInv, runout_script
    PROVE  SdInv'
<1>1. SamePrint /\ SameFlags
    BY DEF runout_script, SamePrint, SameFlags, sdVars, workVars, posVars, pauseVars, statVars
<1>2. /\ lock(R) /\ pc' = [pc EXCEPT ![R] = "run"] /\ cmd' = [cmd EXCEPT ![R] = "PAUSE"]
      /\ pc[R] = "delay" /\ Runout
    BY Zenon DEF runout_script
<1>3. R \in Others /\ "PAUSE" \in Commands
    BY Zenon, <1>2, Greenlet DEF Commands, Pausing
<1> QED
    BY Zenon, <1>1, <1>2, <1>3, LockInv

\* The run-out handler asks for a pause.
LEMMA RunoutInv ==
    ASSUME SdInv, runout
    PROVE  SdInv'
<1>1. /\ w' = w /\ buffer' = buffer /\ cmd_from_sd' = cmd_from_sd
      /\ next_file_position' = next_file_position /\ line_end' = line_end
      /\ is_shutdown' = is_shutdown /\ owner' = owner /\ queue' = queue
      /\ cmd' = [cmd EXCEPT ![R] = SendPause]
    BY DEF runout, workVars, posVars, mutexVars
<1>2. R \in Others /\ pc[R] = "idle"
    BY Zenon, Greenlet DEF runout
<1>3. SdTypes /\ Handler /\ MutexInv /\ CommandTypes
    BY Zenon DEF SdInv, SdTypes, CommandTypes
<1>4. PICK p \in {"pausing", "delay"} : pc' = [pc EXCEPT ![R] = p]
    BY Zenon DEF runout
<1>5. /\ p \in {"idle", "delay", "run", "restoring", "pausing"}
      /\ p # "idle" /\ p # "run" /\ p # "restoring" /\ SendPause # NoCommand
    BY <1>4 DEF NoCommand, SendPause
<1>6. /\ CommandTypes' /\ pc'[R] = p /\ cmd'[R] = SendPause
      /\ \A h \in Others \ {R} : pc'[h] = pc[h] /\ cmd'[h] = cmd[h]
    BY Zenon, <1>1, <1>2, <1>3, <1>4, <1>5 DEF CommandTypes
<1>7. Handler'
    <2>1. \A h \in Users : cmd'[h] # SendPause
        BY Zenon, <1>3, <1>6, Greenlet DEF Handler
    <2> QED
        BY Zenon, <1>5, <1>6, <2>1 DEF Handler
<1>8. /\ must_pause_work => must_pause_work'
      /\ current_file' = current_file
      /\ BufferInv' /\ StatsInv' /\ StatsTypes' /\ FlagTypes'
    <2>1. CASE AsksWorker(SendPause) /\ ~Stopped
        <3>1. /\ must_pause_work' = TRUE /\ current_file' = current_file /\ offset' = offset
              /\ file_position' = file_position /\ is_paused' = is_paused
              /\ pause_command_sent' = pause_command_sent /\ stats' = stats /\ started' = started
            BY <2>1 DEF runout, Wait, statVars
        <3>2. sd_paused' \in BOOLEAN
            BY Zenon, <2>1 DEF runout, Wait
        <3>3. BufferInv' /\ StatsInv'
            BY Zenon, <1>1, <3>1 DEF SdInv, BufferInv, StatsInv, work_timer
        <3>4. StatsTypes' /\ FlagTypes'
            BY Zenon, <1>3, <3>1, <3>2 DEF SdTypes, StatsTypes, FlagTypes
        <3> QED
            BY Zenon, <3>1, <3>3, <3>4
    <2>2. CASE ~(AsksWorker(SendPause) /\ ~Stopped)
        <3>1. Finish(SendPause, FALSE) /\ FALSE \in BOOLEAN
            BY Zenon, <2>2 DEF runout
        <3>2. SendPause \notin {"CANCEL_PRINT", "SDCARD_RESET_FILE"}
            BY DEF SendPause
        <3>3. current_file' = current_file
            BY Zenon, <3>1, <3>2, FinishFile
        <3>4. must_pause_work => must_pause_work'
            BY Zenon, <3>1 DEF Finish
        <3> QED
            BY ZenonT(30), <1>1, <3>1, <3>3, <3>4, FinishInv, FinishTypes
    <2> QED
        BY Zenon, <2>1, <2>2
<1>9. MutexInv'
    <2>1. (cmd_from_sd' <=> w' \in {"line", "err"}) /\ (w' = "line" => owner' = <<W>>)
        BY Zenon, <1>1, <1>3 DEF MutexInv
    <2>2. ASSUME NEW h \in Others, Yielded(h)'
          PROVE  /\ owner' = <<h>>
                 /\ pc'[h] = "pausing" /\ cmd'[h] # SendPause =>
                       /\ must_pause_work' /\ cmd'[h] \in Pausing
                       /\ cmd'[h] \in {"CANCEL_PRINT", "SDCARD_RESET_FILE"} => current_file'
        <3>1. h # R
            BY Zenon, <1>5, <1>6, <2>2 DEF Yielded
        <3>2. pc'[h] = pc[h] /\ cmd'[h] = cmd[h]
            BY Zenon, <1>6, <3>1
        <3>3. Yielded(h)
            BY Zenon, <2>2, <3>2 DEF Yielded
        <3>4. owner' = owner
            BY Zenon, <1>1
        <3> QED
            BY Zenon, <1>3, <1>8, <3>2, <3>3, <3>4 DEF MutexInv
    <2> QED
        BY Zenon, <2>1, <2>2 DEF MutexInv, Yielded
<1>10. PauseInv'
    BY Zenon, <1>2, <1>5, <1>6 DEF PauseInv
<1>11. MutexTypes'
    BY Zenon, <1>1, <1>3 DEF SdTypes, MutexTypes
<1>12. SdTypes'
    BY ZenonT(30), <1>1, <1>6, <1>8, <1>11, TypesTogether
<1> QED
    BY Zenon, <1>7, <1>8, <1>9, <1>10, <1>12 DEF SdInv

\* A shutdown
LEMMA ShutdownInv ==
    ASSUME SdInv, handle_shutdown
    PROVE  SdInv'
<1>1. /\ w' = w /\ buffer' = buffer /\ cmd_from_sd' = cmd_from_sd
      /\ next_file_position' = next_file_position /\ line_end' = line_end
      /\ current_file' = current_file /\ file_position' = file_position
      /\ stats' = stats /\ started' = started /\ SameFlags
      /\ is_shutdown' = TRUE /\ owner' = owner /\ queue' = queue /\ pc' = pc /\ cmd' = cmd
    BY DEF handle_shutdown, ShutdownSd, SameFlags, workVars, posVars, pauseVars, statVars, mutexVars, userVars
<1>2. SdTypes
    BY Zenon DEF SdInv
<1>3. must_pause_work' <=> (must_pause_work \/ work_timer)
    BY Zenon DEF handle_shutdown, ShutdownSd
<1>4. must_pause_work' \in BOOLEAN
    BY Zenon DEF handle_shutdown, ShutdownSd
<1>5. offset' \in 0..Size
    <2>1. Size \in Nat /\ file_position \in 0..Size /\ offset \in 0..Size /\ Ahead \in Nat
        BY Zenon, <1>2, FileTypes, SdAssumption DEF SdTypes
    <2>2. OffsetAfterLog \in 0..Size
        BY <2>1 DEF OffsetAfterLog
    <2> QED
        BY Zenon, <2>1, <2>2 DEF handle_shutdown
<1>6. FlagTypes'
    <2>1. current_file' \in BOOLEAN /\ file_position' \in 0..Size
        BY Zenon, <1>1, <1>2 DEF SdTypes
    <2> QED
        BY Zenon, <1>1, <1>4, <1>5, <2>1, SameFlagTypes DEF FlagTypes
<1>7. StatsTypes' /\ MutexTypes' /\ CommandTypes'
    BY Zenon, <1>1, <1>2 DEF SdTypes, StatsTypes, MutexTypes, CommandTypes
<1>8. SdTypes'
    BY Zenon, <1>1, <1>6, <1>7, TypesTogether
<1>9. Handler' /\ PauseInv'
    BY Zenon, <1>1, CommandsKept DEF SameFlags
<1>10. MutexInv'
    BY Zenon, <1>1, <1>3 DEF SdInv, MutexInv, Yielded
<1>11. BufferInv'
    <2>1. ~must_pause_work' => w' = "none"
        BY Zenon, <1>1, <1>3 DEF work_timer
    <2> QED
        BY Zenon, <2>1, Places DEF BufferInv, Looping
<1>12. StatsInv'
    BY Zenon, <1>1 DEF SdInv, StatsInv, work_timer
<1> QED
    BY ZenonT(30), <1>8, <1>9, <1>10, <1>11, <1>12 DEF SdInv

-----------------------------------------------------------------------------
\* At the start there is no file, no worker and no command.
LEMMA SdInit == Init => SdInv
<1> SUFFICES ASSUME Init PROVE SdInv
    OBVIOUS
<1>1. /\ w = "none" /\ must_pause_work = FALSE /\ cmd_from_sd = FALSE /\ current_file = FALSE /\ offset = 0
      /\ file_position = 0 /\ next_file_position = 0 /\ line_end = 0 /\ buffer = <<>>
      /\ is_paused = FALSE /\ pause_command_sent = FALSE /\ sd_paused = FALSE
      /\ stats = "standby" /\ started = FALSE /\ owner = <<>> /\ queue = <<>> /\ is_shutdown = FALSE
    BY Zenon DEF Init
<1>2. pc = [g \in Others |-> "idle"] /\ cmd = [g \in Others |-> NoCommand]
    BY Zenon DEF Init
<1>3. CommandTypes /\ \A g \in Others : pc[g] = "idle" /\ cmd[g] = NoCommand
    BY Zenon, <1>2 DEF CommandTypes
<1>4. <<>> \in Seq(Nat) /\ <<>> \in Seq(Others \cup {W})
    BY Zenon, SeqEmpty
<1>5. "standby" # "printing" /\ "idle" # "restoring" /\ "idle" # "pausing" /\ "idle" # "run" /\ NoCommand # SendPause
    BY DEF NoCommand, SendPause
<1>6. SdTypes
    BY Zenon, <1>1, <1>3, <1>4, Places DEF SdTypes, CommandTypes
<1>7. Handler
    BY Zenon, <1>3, <1>5, Greenlet DEF Handler
<1>8. MutexInv
    BY Zenon, <1>1, <1>3, <1>5, Places DEF MutexInv, Yielded
<1>9. BufferInv /\ StatsInv /\ PauseInv
    BY Zenon, <1>1, <1>5, Places DEF BufferInv, StatsInv, PauseInv, Looping
<1> QED
    BY Zenon, <1>6, <1>7, <1>8, <1>9 DEF SdInv

\* A step that changes nothing keeps it.
LEMMA SdStutter ==
    ASSUME SdInv, UNCHANGED vars
    PROVE  SdInv'
<1>1. SamePrint /\ SameFlags /\ owner' = owner /\ queue' = queue /\ pc' = pc /\ cmd' = cmd
    BY DEF vars, SamePrint, SameFlags, sdVars, workVars, posVars, pauseVars, statVars, mutexVars, userVars
<1>2. SdTypes /\ MutexInv
    BY Zenon DEF SdInv
<1>3. MutexTypes' /\ CommandTypes'
    BY Zenon, <1>1, <1>2 DEF SdTypes, MutexTypes, CommandTypes
<1>4. Handler' /\ PauseInv'
    BY Zenon, <1>1, CommandsKept DEF SamePrint, SameFlags
<1>5. BufferInv' /\ StatsInv' /\ StatsTypes' /\ FlagTypes'
    BY ZenonT(30), <1>1, SamePrintInv, SamePrintTypes, SameFlagTypes
<1>6. SdTypes'
    BY Zenon, <1>1, <1>3, <1>5, TypesTogether DEF SamePrint
<1>7. MutexInv'
    BY Zenon, <1>1, <1>2 DEF MutexInv, Yielded, SamePrint
<1> QED
    BY ZenonT(30), <1>4, <1>5, <1>6, <1>7 DEF SdInv

\* Every step keeps it.
LEMMA SdStep ==
    ASSUME SdInv, Next
    PROVE  SdInv'
<1>1. CASE WorkStep
    BY ZenonT(30), <1>1, StartInv, ExitInv, EofInv, ReadInv, YieldInv, DispatchInv, LineDoneInv, LineFailInv,
       ErrorDoneInv DEF WorkStep
<1>2. CASE LineStep
    BY Zenon, <1>2, LoopInv, CrashInv, LineCommandInv DEF LineStep
<1>3. ASSUME NEW g \in Others, CommandStep(g) PROVE SdInv'
    BY ZenonT(30), <1>3, RefusedInv, PausingInv, PauseOverInv, LoadInv, M24Inv, M26Inv, ClearPauseInv,
       RunResumeInv, ResumeInv, ResumeFailedInv DEF CommandStep
<1>4. CASE OtherStep
    BY ZenonT(30), <1>3, <1>4, RequestInv, RunoutInv, RunoutScriptInv, ShutdownInv DEF OtherStep
<1> QED
    BY Zenon, <1>1, <1>2, <1>4 DEF Next

\* It holds at all times.
LEMMA SdInvariant == Spec => []SdInv
<1>1. SdInv /\ [Next]_vars => SdInv'
    BY Zenon, SdStep, SdStutter
<1> QED
    BY SdInit, <1>1, PTL DEF Spec

\* It implies what the run checks of the file.
LEMMA SdConsistent == SdInv => FileConsistent
<1> SUFFICES ASSUME SdInv PROVE FileConsistent
    OBVIOUS
<1>1. SdTypes /\ MutexInv /\ BufferInv
    BY Zenon DEF SdInv
<1>2. TypeOK
    BY Zenon, <1>1 DEF SdTypes, TypeOK
<1>3. BufferMatchesPosition
    BY Zenon, <1>1 DEF BufferInv, Reads, Text, BufferMatchesPosition
<1>4. SendPause \notin {"CANCEL_PRINT", "SDCARD_RESET_FILE"}
    BY DEF SendPause
<1>5. FileStillOpen
    BY Zenon, <1>1, <1>4 DEF MutexInv, BufferInv, Reads, FileStillOpen
<1> QED
    BY Zenon, <1>2, <1>3, <1>5 DEF FileConsistent

\* What the worker has read ahead is the text of the file at the position it will
\* resume from, and the file is there whenever it is needed.
THEOREM PrintConsistent == Spec => []FileConsistent
BY SdInvariant, SdConsistent, PTL

\* print_stats does not show "printing" without a worker.
THEOREM PrintStats == Spec => []StatsTruthful
<1>1. SdInv => StatsTruthful
    BY Zenon DEF SdInv, StatsInv, StatsTruthful
<1> QED
    BY SdInvariant, <1>1, PTL

-----------------------------------------------------------------------------
\* A pause takes effect only in PAUSE, and PAUSE asks the worker to stop unless a
\* request for a pause is already there.
LEMMA FinishStops ==
    ASSUME NEW c, NEW waited \in BOOLEAN, Finish(c, waited), waited => must_pause_work,
           w' = w, ~is_paused, is_paused', ~waited => ~pause_command_sent
    PROVE  w' = "none" \/ must_pause_work'
<1>1. c = "PAUSE"
    <2>1. CASE c # "PAUSE"
        <3>1. is_paused' = FALSE \/ is_paused' = is_paused
            BY <2>1 DEF Finish, FlagsAfter
        <3> QED
            BY Zenon, <3>1
    <2> QED
        BY Zenon, <2>1
<1>2. must_pause_work' <=> (must_pause_work \/ (~waited /\ AsksWorker(c)))
    BY Zenon DEF Finish
<1>3. ~waited => Sends(c)
    BY Zenon, <1>1 DEF Sends
<1> QED
    BY Zenon, <1>2, <1>3 DEF AsksWorker, work_timer

\* Without the run-out handler every request for a pause is a pause.
LEMMA NoneRequested ==
    ASSUME SdInv, ~is_paused, ~is_shutdown, Runout => pc[R] = "idle"
    PROVE  ~pause_command_sent
BY Zenon, Greenlet DEF SdInv, PauseInv

\* The worker itself does not pause the printer.
LEMMA WorkFlags == WorkStep => is_paused' = is_paused
<1>1. work_start \/ work_paused \/ work_read \/ work_eof => is_paused' = is_paused
    BY Zenon DEF work_start, work_paused, work_read, work_eof, pauseVars
<1>2. work_read_error \/ work_yield \/ work_dispatch => is_paused' = is_paused
    BY DEF work_read_error, work_yield, work_dispatch, pauseVars
<1>3. line_done \/ line_fail \/ error_done => is_paused' = is_paused
    BY DEF line_done, line_fail, error_done, pauseVars
<1> QED
    BY ZenonT(30), <1>1, <1>2, <1>3 DEF WorkStep

\* Commands that do not pause leave is_paused as it is, or clear it.
LEMMA OtherFlags ==
    ASSUME NEW g, NEW c,
           \/ line_loop \/ line_crash \/ request(g, c) \/ runout_script \/ handle_shutdown
           \/ run_refused(g) \/ run_load(g) \/ run_M24(g) \/ run_M26(g) \/ run_CLEAR_PAUSE(g)
           \/ run_RESUME(g) \/ resume(g) \/ resume_failed(g)
    PROVE  is_paused' = is_paused \/ is_paused' = FALSE
<1>1. line_loop \/ line_crash \/ request(g, c) => is_paused' = is_paused
    BY DEF line_loop, line_crash, request, pauseVars
<1>2. runout_script \/ handle_shutdown \/ run_refused(g) => is_paused' = is_paused
    BY DEF runout_script, handle_shutdown, run_refused, pauseVars
<1>3. run_load(g) \/ run_M24(g) \/ run_M26(g) => is_paused' = is_paused
    BY DEF run_load, run_M24, run_M26, pauseVars
<1>4. run_RESUME(g) \/ resume_failed(g) => is_paused' = is_paused
    BY DEF run_RESUME, resume_failed, pauseVars
<1>5. run_CLEAR_PAUSE(g) \/ resume(g) => is_paused' = FALSE
    BY DEF run_CLEAR_PAUSE, resume, Resumed
<1> QED
    BY Zenon, <1>1, <1>2, <1>3, <1>4, <1>5

\* A step that pauses the printer leaves no worker, or one that was told to stop.
LEMMA PauseStep ==
    ASSUME SdInv, Next, ~is_paused, is_paused', Runout => pc[R] = "idle"
    PROVE  w' = "none" \/ must_pause_work'
<1>1. CASE WorkStep
    BY Zenon, <1>1, WorkFlags
<1>2. ASSUME NEW c \in Commands, line_command(c) PROVE w' = "none" \/ must_pause_work'
    <2>1. w' = w /\ ~is_shutdown
        BY <1>2 DEF line_command, workVars
    <2>2. CASE Finish(c, FALSE)
        <3>1. FALSE \in BOOLEAN
            OBVIOUS
        <3> QED
            BY Zenon, <2>1, <2>2, <3>1, NoneRequested, FinishStops
    <2>3. CASE Resumed
        BY Zenon, <2>3 DEF Resumed
    <2> QED
        BY Zenon, <1>2, <2>2, <2>3 DEF line_command
<1>3. CASE LineStep
    <2>1. CASE line_loop \/ line_crash
        BY Zenon, <2>1, OtherFlags
    <2> QED
        BY Zenon, <1>2, <1>3, <2>1 DEF LineStep
<1>4. ASSUME NEW g \in Others, run_pausing(g) PROVE w' = "none" \/ must_pause_work'
    <2>1. w' = w /\ ~is_shutdown
        BY <1>4 DEF run_pausing, workVars
    <2>2. PICK c : Wait(c) \/ Finish(c, FALSE)
        BY Zenon, <1>4 DEF run_pausing
    <2>3. CASE Wait(c)
        BY <2>3 DEF Wait
    <2>4. CASE Finish(c, FALSE)
        <3>1. FALSE \in BOOLEAN
            OBVIOUS
        <3> QED
            BY Zenon, <2>1, <2>4, <3>1, NoneRequested, FinishStops
    <2> QED
        BY Zenon, <2>2, <2>3, <2>4
<1>5. ASSUME NEW g \in Others, pause_over(g) PROVE w' = "none" \/ must_pause_work'
    <2>1. w' = w
        BY <1>5 DEF pause_over, workVars
    <2>2. pc[g] = "pausing" /\ Finish(cmd[g], TRUE) /\ TRUE \in BOOLEAN
        BY Zenon, <1>5 DEF pause_over
    <2>3. CASE cmd[g] = SendPause
        <3>1. is_paused' = is_paused
            BY <2>2, <2>3 DEF Finish, FlagsAfter, SendPause
        <3> QED
            BY Zenon, <3>1
    <2>4. CASE cmd[g] # SendPause
        <3>1. must_pause_work
            BY Zenon, <2>2, <2>4 DEF SdInv, MutexInv
        <3> QED
            BY ZenonT(30), <2>1, <2>2, <3>1, FinishStops
    <2> QED
        BY Zenon, <2>3, <2>4
<1>6. ASSUME runout PROVE w' = "none" \/ must_pause_work'
    <2>1. is_paused' = is_paused
        <3>1. CASE Wait(SendPause)
            BY <3>1 DEF Wait
        <3>2. CASE Finish(SendPause, FALSE)
            BY <3>2 DEF Finish, FlagsAfter, SendPause
        <3> QED
            BY Zenon, <1>6, <3>1, <3>2 DEF runout
    <2> QED
        BY Zenon, <2>1
<1>7. ASSUME NEW g \in Others, CommandStep(g) PROVE w' = "none" \/ must_pause_work'
    BY Zenon, <1>4, <1>5, <1>7, OtherFlags DEF CommandStep
<1>8. CASE OtherStep
    BY Zenon, <1>6, <1>7, <1>8, OtherFlags DEF OtherStep
<1> QED
    BY Zenon, <1>1, <1>3, <1>8 DEF Next

\* A PAUSE that takes effect leaves no worker that will run another line, unless the
\* run-out handler is at work.
THEOREM PauseStops == Spec => PauseStopsPrint
<1>1. SdInv /\ [Next]_vars =>
        [(~is_paused /\ is_paused' /\ (Runout => pc[R] = "idle")) => (w' = "none" \/ must_pause_work')]_vars
    BY Zenon, PauseStep
<1> QED
    BY SdInvariant, <1>1, PTL DEF Spec, PauseStopsPrint
=============================================================================
