------------------------------ MODULE Logging ------------------------------
(***************************************************************************)
(* The way of a log line from a thread to the disk: Logger and LogBuffer   *)
(* (log.h, log.cc), LogThread (logThread.cc) and LogFile (log.cc).         *)
(*                                                                         *)
(* A Logger lives for one statement of one thread; its destructor appends  *)
(* the line to g_logBuffers under g_logMutex, so the whole statement is    *)
(* one step.  The log thread swaps the vector for its own and writes that  *)
(* to the file and to stdout, one line per step.  A line that was written  *)
(* but not flushed is lost when the process aborts.                        *)
(*                                                                         *)
(* Sizes are bytes, times seconds; append, flush and rollFile, which each  *)
(* ask for the time, see one time within a step.                           *)
(***************************************************************************)
EXTENDS Naturals, Sequences, FiniteSets

CONSTANTS
    Texts,          \* the sizes of what a statement logs
    Prefix,         \* what the constructor of Logger puts in front
    BufSize,        \* sizeof LogBuffer::m_buffer
    RollSize,       \* m_rollSize
    RollPerSeconds, \* m_rollPerSeconds
    FlushInterval,  \* m_flushInterval
    CheckEveryN,    \* m_checkEveryN
    ToFile,         \* m_appendToFile
    ToStdout,       \* m_appendToStdout
    Start,          \* the time when LogThread is constructed
    MaxLines,       \* bound: lines ever logged
    MaxNow          \* bound: the time when the model ends

ASSUME LoggingAssumption ==
    /\ Texts \subseteq Nat /\ Prefix \in Nat /\ BufSize \in Nat \ {0}
    /\ RollSize \in Nat /\ RollPerSeconds \in Nat \ {0}
    /\ FlushInterval \in Nat /\ CheckEveryN \in Nat \ {0}
    /\ ToFile \in BOOLEAN /\ ToStdout \in BOOLEAN
    /\ MaxLines \in Nat /\ MaxNow \in Nat
    \* m_lastFlushTime is 0, and the epoch is long ago.
    /\ Start \in Nat /\ Start > FlushInterval

VARIABLES
    queue,     \* g_logBuffers
    batch,     \* m_buffers
    at,        \* where the log thread's loop over m_buffers is
    running,   \* LogThread::m_running
    pc,        \* where the log thread is
    file,      \* LogFile: the open file, named by the second it was opened in,
               \* m_writtenBytes, m_count, m_startOfPeriod, m_lastFlushTime,
               \* and a ghost: how many rolls there were before
    out,       \* what was written to files: lines, each with its roll, its
               \* file's name and its time
    flushed,   \* how much of it the kernel has got
    printed,   \* what was written to stdout
    dying,     \* some thread has logged a FATAL line, and will abort
    aborted,
    now,
    logged     \* ghost: all lines, in the order in which g_logMutex was taken

threadVars == <<batch, at, running, pc>>
fileVars == <<file, out, flushed>>
vars == <<queue, threadVars, fileVars, printed, dying, aborted, now, logged>>

\* A line is its size here.
Line == 0..BufSize
Entry == [line : Line, roll : Nat, name : Nat, when : Nat]
File == [name : Nat, bytes : Nat, count : 0..(CheckEveryN - 1),
         period : Nat, lastFlush : Nat, rolls : Nat]
Period(t) == t \div RollPerSeconds

TypeOK ==
    /\ queue \in Seq(Line) /\ batch \in Seq(Line) /\ logged \in Seq(Line)
    /\ printed \in Seq(Line) /\ out \in Seq(Entry)
    /\ running \in BOOLEAN
    /\ pc \in {"none", "loop", "wait", "file", "stdout", "ended"}
    /\ at \in Nat
    /\ pc \in {"file", "stdout"} => at \in 1..(Len(batch) + 1)
    /\ file \in File /\ file.name <= now /\ file.lastFlush <= now
    /\ flushed \in 0..Len(out)
    /\ dying \in BOOLEAN /\ aborted \in BOOLEAN
    /\ now \in Nat

Init ==
    /\ queue = <<>> /\ batch = <<>> /\ at = 0
    /\ running = FALSE /\ pc = "none"
    \* The constructor does not initialise m_startOfPeriod; the last value
    \* stands for all that are no period of the run.
    /\ file \in [name : {Start}, bytes : {0}, count : {0},
                 period : Period(Start)..(Period(MaxNow) + 1), lastFlush : {0}, rolls : {0}]
    /\ out = <<>> /\ flushed = 0 /\ printed = <<>>
    /\ dying = FALSE /\ aborted = FALSE
    /\ now = Start
    /\ logged = <<>>

-----------------------------------------------------------------------------
(* Loggers.                                                                *)

\* LogBuffer::append: what does not fit is dropped.
Fit(size, len) == IF size + len > BufSize THEN size ELSE size + len

\* Prefix, text, and the newline of the destructor.
NewLine(text) == Fit(Fit(Fit(0, Prefix), text), 1)

\* Any thread; the others go on when one is about to abort.
Log(text, fatal) ==
    /\ ~aborted /\ Len(logged) < MaxLines
    /\ queue' = Append(queue, NewLine(text))
    /\ logged' = Append(logged, NewLine(text))
    /\ dying' = (dying \/ fatal)
    /\ UNCHANGED <<threadVars, fileVars, printed, aborted, now>>

\* ~Logger of a FATAL line, after it has released g_logMutex.
Abort ==
    /\ ~aborted /\ dying
    /\ aborted' = TRUE
    /\ UNCHANGED <<queue, threadVars, fileVars, printed, dying, now, logged>>

Second ==
    /\ ~aborted /\ now < MaxNow
    /\ now' = now + 1
    /\ UNCHANGED <<queue, threadVars, fileVars, printed, dying, aborted, logged>>

-----------------------------------------------------------------------------
(* The log thread.                                                         *)

StartThread ==
    /\ ~aborted /\ pc = "none"
    /\ running' = TRUE /\ pc' = "loop"
    /\ UNCHANGED <<queue, batch, at, fileVars, printed, dying, aborted, now, logged>>

Stop ==
    /\ ~aborted /\ running
    /\ running' = FALSE
    /\ UNCHANGED <<queue, batch, at, pc, fileVars, printed, dying, aborted, now, logged>>

\* A mutant: m_buffers keeps what has been written.
LoopKeeps ==
    /\ ~aborted /\ pc = "loop"
    /\ pc' = IF running THEN "wait" ELSE "ended"
    /\ UNCHANGED <<queue, batch, at, running, fileVars, printed, dying, aborted,
                   now, logged>>

Loop ==
    /\ ~aborted /\ pc = "loop"
    /\ IF running THEN pc' = "wait" /\ batch' = <<>>
                  ELSE pc' = "ended" /\ UNCHANGED batch
    /\ UNCHANGED <<queue, at, running, fileVars, printed, dying, aborted, now, logged>>

\* A mutant: wait instead of wait_for, so that the notification is needed.
SwapNotified ==
    /\ ~aborted /\ pc = "wait" /\ Len(queue) > 20
    /\ batch' = queue /\ queue' = batch
    /\ at' = 1 /\ pc' = "file"
    /\ UNCHANGED <<running, fileVars, printed, dying, aborted, now, logged>>

\* wait_for ends when more than 20 lines are queued, after 3 seconds, or
\* spuriously: at any time.
Swap ==
    /\ ~aborted /\ pc = "wait"
    /\ batch' = queue /\ queue' = batch
    /\ at' = 1 /\ pc' = "file"
    /\ UNCHANGED <<running, fileVars, printed, dying, aborted, now, logged>>

\* rollFile: closes the file, which flushes it, and opens another, which is the
\* same one if it was opened in this second.
Rolled(f) == [f EXCEPT !.name = now, !.bytes = 0, !.period = Period(now),
                       !.rolls = @ + 1]

Written(f) == [f EXCEPT !.bytes = @ + batch[at]]
\* A mutant: m_count is not set back.
CountedOn(f) == [f EXCEPT !.count = @ + 1]
Counted(f) == [f EXCEPT !.count = (@ + 1) % CheckEveryN]
Flushed(f) == [f EXCEPT !.lastFlush = now]
TooBig(f) == f.bytes > RollSize
FlushDue == now - file.lastFlush > FlushInterval
\* A mutant: > for >=.
CheckNever == file.count + 1 > CheckEveryN /\ Period(now) # file.period
CheckDue == file.count + 1 >= CheckEveryN /\ Period(now) # file.period

Kept(f) == IF FlushDue THEN Flushed(Counted(f)) ELSE Counted(f)

\* LogFile::append.
AppendToFile ==
    /\ ~aborted /\ pc = "file" /\ ToFile /\ at <= Len(batch)
    /\ out' = Append(out, [line |-> batch[at], roll |-> file.rolls,
                           name |-> file.name, when |-> now])
    /\ LET f == Written(file)
       IN  \/ TooBig(f) /\ file' = Rolled(f) /\ flushed' = Len(out')
           \/ ~TooBig(f) /\ CheckDue /\ file' = Rolled(Kept(f)) /\ flushed' = Len(out')
           \/ /\ ~TooBig(f) /\ ~CheckDue /\ file' = Kept(f)
              /\ flushed' = IF FlushDue THEN Len(out') ELSE flushed
    /\ at' = at + 1
    /\ UNCHANGED <<queue, batch, running, pc, printed, dying, aborted, now, logged>>

\* A mutant: the batch is flushed only when the interval is over.
FlushFileLater ==
    /\ ~aborted /\ pc = "file" /\ (ToFile => at = Len(batch) + 1)
    /\ IF ToFile /\ FlushDue THEN flushed' = Len(out) /\ file' = Flushed(file)
                             ELSE UNCHANGED <<flushed, file>>
    /\ at' = 1 /\ pc' = "stdout"
    /\ UNCHANGED <<queue, batch, running, out, printed, dying, aborted, now, logged>>

\* The end of the loop: flush.
FlushFile ==
    /\ ~aborted /\ pc = "file" /\ (ToFile => at = Len(batch) + 1)
    /\ IF ToFile THEN flushed' = Len(out) /\ file' = Flushed(file)
                 ELSE UNCHANGED <<flushed, file>>
    /\ at' = 1 /\ pc' = "stdout"
    /\ UNCHANGED <<queue, batch, running, out, printed, dying, aborted, now, logged>>

PrintLine ==
    /\ ~aborted /\ pc = "stdout" /\ ToStdout /\ at <= Len(batch)
    /\ printed' = Append(printed, batch[at])
    /\ at' = at + 1
    /\ UNCHANGED <<queue, batch, running, pc, fileVars, dying, aborted, now, logged>>

Printed ==
    /\ ~aborted /\ pc = "stdout" /\ (ToStdout => at = Len(batch) + 1)
    /\ pc' = "loop"
    /\ UNCHANGED <<queue, batch, at, running, fileVars, printed, dying, aborted,
                   now, logged>>

LogThread ==
    Loop \/ Swap \/ AppendToFile \/ FlushFile \/ PrintLine \/ Printed

Next ==
    \/ \E text \in Texts, fatal \in BOOLEAN : Log(text, fatal)
    \/ Abort \/ Second \/ StartThread \/ Stop
    \/ LogThread

Spec == Init /\ [][Next]_vars
FairSpec == Spec /\ WF_vars(LogThread)

-----------------------------------------------------------------------------
Lines(s) == [i \in 1..Len(s) |-> s[i].line]
Rest(done) == SubSeq(batch, done, Len(batch))

\* The lines that the log thread has taken, written or still to be written.
TakenForFile == IF pc = "file" THEN Lines(out) \o Rest(at) ELSE Lines(out)
TakenForStdout ==
    CASE pc = "file"   -> printed \o batch
      [] pc = "stdout" -> printed \o Rest(at)
      [] OTHER         -> printed

(* No line is lost, repeated or overtaken on its way through g_logBuffers   *)
(* and m_buffers, from any number of threads: what is in the file, what is  *)
(* left of the batch and what is queued are, in this order, all lines that  *)
(* were logged; and so for stdout (log.cc:30-31, logThread.cc:58-76).       *)
NoLineLost ==
    /\ ToFile => TakenForFile \o queue = logged
    /\ ToStdout => TakenForStdout \o queue = logged

(* Lines that are not flushed are of the batch under way: an abort while    *)
(* the log thread waits loses nothing it has taken (logThread.cc:69, and    *)
(* the fclose of rollFile, log.cc:134).                                     *)
OnDisk == pc # "file" => flushed = Len(out)

\* The lines of a later period than that in which their file was opened.
LateIn(roll) ==
    {i \in 1..Len(out) : out[i].roll = roll /\ Period(out[i].when) # Period(out[i].name)}

(* A file that was opened by a roll gets at most m_checkEveryN lines of a   *)
(* later period.  The first file may get more: the m_startOfPeriod it is    *)
(* compared with is not initialised (log.cc:58-64, 85-91).                  *)
PeriodsApart == \A roll \in 1..file.rolls : Cardinality(LateIn(roll)) <= CheckEveryN

(* A line is written in the end, to all sinks, unless stop is called or the *)
(* process aborts: what is queued when the log thread sees m_running false  *)
(* stays there (logThread.cc:56-62).                                        *)
EveryLineWritten ==
    \A n \in 1..MaxLines :
        n <= Len(logged) ~> \/ ~running \/ aborted
                           \/ /\ ToFile => n <= flushed
                              /\ ToStdout => n <= Len(printed)
=============================================================================
