----------------------------- MODULE AsyncLog ------------------------------
(* Logger and its two AsyncLoggers (src/common/log.cc): any thread appends  *)
(* lines to one of the Logger's two buffers; the main thread hands them     *)
(* over in batches, from a repeating timer event while its loop runs and    *)
(* once more in flushAndStop; a thread of each AsyncLogger writes them to a *)
(* file named by date and number. A Logger of type SyncLog has neither the  *)
(* timer event nor the AsyncLoggers: it prints the rpc log at once. Lines   *)
(* of a log are numbered in the order in which they took the Logger's lock, *)
(* and the directory has no files of an earlier process.                    *)
EXTENDS Integers, Sequences, SequencesExt

CONSTANTS MaxLines,            \* bound: lines of each log
          Days,                \* bound: the days that pass, counted from 1
          m_log_max_file_size  \* the size from which another file is opened, in lines

Logs     == {"rpc", "app"}
Other(k) == IF k = "rpc" THEN "app" ELSE "rpc"

ASSUME MaxLinesAssumption == MaxLines \in [Logs -> Nat]
ASSUME DaysAssumption == Days \in Nat \ {0}
ASSUME MaxFileSizeAssumption == m_log_max_file_size \in Nat \ {0}

VARIABLES
  day,       \* the calendar
  m_log_type,
  logged,    \* how many lines each log has had
  m_buffer,  \* Logger: m_buffer and m_app_buffer
  main,      \* [at, log]: where the main thread is in syncLogs or flushAndStop
  stopping,  \* it is in flushAndStop
  tmp,       \* syncLogs: the lines swapped out and not yet pushed
  pc,        \* where each writer is in AsyncLogger::loop
  queue,     \* AsyncLogger: m_buffer, a queue of batches
  m_stop_flag,
  output,    \* the batch a writer is writing, what is left of it
  now,       \* the day each writer has got from gettimeofday
  date,      \* the static buffer strftime fills, shared by both writers
  m_date, m_no,
  file,      \* the file each writer has open
  size,      \* lines in each file of each log
  before,    \* history: how many lines each log had had when flushAndStop began
  misread    \* history: writers that have read a date that is not theirs

loggerVars == <<m_log_type, logged, m_buffer, before>>
mainVars   == <<main, stopping, tmp>>
fileVars   == <<m_date, m_no, file, size, misread>>
writerVars == <<output, now, date, fileVars>>
vars == <<day, loggerVars, mainVars, pc, queue, m_stop_flag, writerVars>>

(* What strftime may leave to be read while it is at work: neither the old  *)
(* date nor the new one.                                                    *)
Mixed   == 0
NoDate  == -1
Date    == 0..Days
MaxNo   == IF MaxLines["rpc"] > MaxLines["app"] THEN MaxLines["rpc"] ELSE MaxLines["app"]
File    == [date : Date, no : 0..MaxNo]
NoFile  == [date |-> NoDate, no |-> 0]

Init ==
  /\ day = 1
  /\ m_log_type \in {"AsyncLog", "SyncLog"}
  /\ logged = [k \in Logs |-> 0]
  /\ m_buffer = [k \in Logs |-> <<>>]
  /\ main = [at |-> "idle", log |-> "rpc"]
  /\ stopping = FALSE
  /\ tmp = <<>>
  /\ pc = [k \in Logs |-> IF m_log_type = "AsyncLog" THEN "wait" ELSE "none"]
  /\ queue = [k \in Logs |-> <<>>]
  /\ m_stop_flag = [k \in Logs |-> FALSE]
  /\ output = [k \in Logs |-> <<>>]
  /\ now = [k \in Logs |-> NoDate]
  /\ date = NoDate
  /\ m_date = [k \in Logs |-> NoDate]
  /\ m_no = [k \in Logs |-> 0]
  /\ file = [k \in Logs |-> NoFile]
  /\ size = [k \in Logs |-> [f \in File |-> 0]]
  /\ before = [k \in Logs |-> 0]
  /\ misread = {}

Midnight ==
  /\ day < Days
  /\ day' = day + 1
  /\ UNCHANGED <<loggerVars, mainVars, pc, queue, m_stop_flag, writerVars>>

(* pushLog and pushAppLog, by any thread, before or after flushAndStop.     *)
(* Only pushLog asks for the type, and prints.                              *)
PushLog(k) ==
  /\ logged[k] < MaxLines[k]
  /\ logged' = [logged EXCEPT ![k] = @ + 1]
  /\ IF k = "rpc" /\ m_log_type = "SyncLog" THEN UNCHANGED m_buffer
     ELSE m_buffer' = [m_buffer EXCEPT ![k] = Append(@, logged'[k])]
  /\ UNCHANGED <<day, m_log_type, before, mainVars, pc, queue, m_stop_flag, writerVars>>

-----------------------------------------------------------------------------
(* The main thread.                                                         *)

At(point, k) == main = [at |-> point, log |-> k]
GoTo(point, k) == main' = [at |-> point, log |-> k]

(* notify_one: each condition variable has one waiter.                      *)
Notify(k) == pc' = IF pc[k] = "asleep" THEN [pc EXCEPT ![k] = "wait"] ELSE pc

(* The timer event calls syncLogs.                                          *)
SyncLogs ==
  /\ At("idle", "rpc")
  /\ m_log_type = "AsyncLog"
  /\ GoTo("swap", "rpc")
  /\ UNCHANGED <<day, loggerVars, stopping, tmp, pc, queue, m_stop_flag, writerVars>>

(* The loop has ended; flushAndStop calls syncLogs first, unless the type   *)
(* leaves it nothing to do.                                                 *)
FlushAndStop ==
  /\ At("idle", "rpc")
  /\ GoTo(IF m_log_type = "AsyncLog" THEN "swap" ELSE "stopped", "rpc")
  /\ stopping' = TRUE
  /\ before' = logged
  /\ UNCHANGED <<day, m_log_type, logged, m_buffer, tmp, pc, queue, m_stop_flag, writerVars>>

(* Mutant: the lines are copied, and cleared only when they are pushed.     *)
SwapWithoutClear(k) ==
  /\ At("swap", k)
  /\ tmp' = m_buffer[k]
  /\ GoTo("push", k)
  /\ UNCHANGED <<day, loggerVars, stopping, pc, queue, m_stop_flag, writerVars>>

Swap(k) ==
  /\ At("swap", k)
  /\ tmp' = m_buffer[k]
  /\ m_buffer' = [m_buffer EXCEPT ![k] = <<>>]
  /\ GoTo("push", k)
  /\ UNCHANGED <<day, m_log_type, logged, before, stopping, pc, queue, m_stop_flag, writerVars>>

AfterPush(k) ==
  IF k = "rpc" THEN GoTo("swap", "app")
  ELSE GoTo(IF stopping THEN "stop" ELSE "idle", "rpc")

(* Mutant: pushLogs wakes nobody.                                           *)
PushLogsSilently(k) ==
  /\ At("push", k)
  /\ tmp' = <<>>
  /\ queue' = IF tmp = <<>> THEN queue ELSE [queue EXCEPT ![k] = Append(@, tmp)]
  /\ AfterPush(k)
  /\ UNCHANGED <<day, loggerVars, stopping, pc, m_stop_flag, writerVars>>

(* pushLogs, unless there is nothing to push.                               *)
PushLogs(k) ==
  /\ At("push", k)
  /\ tmp' = <<>>
  /\ IF tmp = <<>> THEN UNCHANGED <<queue, pc>>
     ELSE queue' = [queue EXCEPT ![k] = Append(@, tmp)] /\ Notify(k)
  /\ AfterPush(k)
  /\ UNCHANGED <<day, loggerVars, stopping, m_stop_flag, writerVars>>

(* Mutant: stop() wakes nobody.                                             *)
StopSilently(k) ==
  /\ At("stop", k)
  /\ m_stop_flag' = [m_stop_flag EXCEPT ![k] = TRUE]
  /\ GoTo("join", k)
  /\ UNCHANGED <<day, loggerVars, stopping, tmp, pc, queue, writerVars>>

(* AsyncLogger::stop sets the flag, and joins the writer.                   *)
Stop(k) ==
  /\ At("stop", k)
  /\ m_stop_flag' = [m_stop_flag EXCEPT ![k] = TRUE]
  /\ Notify(k)
  /\ GoTo("join", k)
  /\ UNCHANGED <<day, loggerVars, stopping, tmp, queue, writerVars>>

Join(k) ==
  /\ At("join", k)
  /\ pc[k] = "done"
  /\ IF k = "rpc" THEN GoTo("stop", "app") ELSE GoTo("stopped", k)
  /\ UNCHANGED <<day, loggerVars, stopping, tmp, pc, queue, m_stop_flag, writerVars>>

MainStep == \E k \in Logs : SyncLogs \/ Swap(k) \/ PushLogs(k) \/ Stop(k) \/ Join(k)

-----------------------------------------------------------------------------
(* A writer: AsyncLogger::loop.                                             *)

Step(k, from, to) == pc[k] = from /\ pc' = [pc EXCEPT ![k] = to]

(* The predicate of the condition variable does not hold.                   *)
Sleep(k) ==
  /\ queue[k] = <<>>
  /\ ~m_stop_flag[k]
  /\ Step(k, "wait", "asleep")
  /\ UNCHANGED <<day, loggerVars, mainVars, queue, m_stop_flag, writerVars>>

PopBatch(k) ==
  /\ queue[k] # <<>>
  /\ Step(k, "wait", "clock")
  /\ output' = [output EXCEPT ![k] = Head(queue[k])]
  /\ queue' = [queue EXCEPT ![k] = Tail(@)]
  /\ UNCHANGED <<day, loggerVars, mainVars, m_stop_flag, now, date, fileVars>>

(* Mutant: the writer leaves as soon as it is told to.                      *)
LeaveAtOnce(k) ==
  /\ m_stop_flag[k]
  /\ Step(k, "wait", "done")
  /\ UNCHANGED <<day, loggerVars, mainVars, queue, m_stop_flag, writerVars>>

(* Told to stop, with nothing left to write.                                *)
Leave(k) ==
  /\ queue[k] = <<>>
  /\ m_stop_flag[k]
  /\ Step(k, "wait", "done")
  /\ UNCHANGED <<day, loggerVars, mainVars, queue, m_stop_flag, writerVars>>

GetTime(k) ==
  /\ Step(k, "clock", "format")
  /\ now' = [now EXCEPT ![k] = day]
  /\ UNCHANGED <<day, loggerVars, mainVars, queue, m_stop_flag, output, date, fileVars>>

Format(k) ==
  /\ Step(k, "format", "open")
  /\ date' = now[k]
  /\ UNCHANGED <<day, loggerVars, mainVars, queue, m_stop_flag, output, now, fileVars>>

(* What a read of the static buffer may give.                               *)
Read(k) ==
  {date} \cup IF pc[Other(k)] = "format" /\ now[Other(k)] # date THEN {now[Other(k)], Mixed} ELSE {}

Use(k, d, no) ==
  /\ m_date' = [m_date EXCEPT ![k] = d]
  /\ m_no' = [m_no EXCEPT ![k] = no]
  /\ file' = [file EXCEPT ![k] = [date |-> d, no |-> no]]

(* Mutant: the first file is opened on the next day.                        *)
OpenOnRoll(k) ==
  /\ Step(k, "open", "write")
  /\ IF file[k] \in File /\ size[k][file[k]] >= m_log_max_file_size
     THEN Use(k, m_date[k], m_no[k] + 1)
     ELSE UNCHANGED <<m_date, m_no, file>>
  /\ UNCHANGED <<day, loggerVars, mainVars, queue, m_stop_flag, output, now, date, size, misread>>

(* Mutant: a full file takes one more batch.                                *)
OpenFileLate(k) ==
  /\ Step(k, "open", "write")
  /\ IF date # m_date[k] THEN Use(k, date, 0)
     ELSE IF size[k][file[k]] > m_log_max_file_size THEN Use(k, m_date[k], m_no[k] + 1)
     ELSE UNCHANGED <<m_date, m_no, file>>
  /\ misread' = IF date # now[k] THEN misread \cup {k} ELSE misread
  /\ UNCHANGED <<day, loggerVars, mainVars, queue, m_stop_flag, output, now, date, size>>

(* The date is read twice, to be compared and to be kept; a new date starts *)
(* at number 0, a full file is followed by the next number.                 *)
OpenFile(k) ==
  /\ Step(k, "open", "write")
  /\ \E compared, kept \in Read(k) :
       /\ IF compared # m_date[k] THEN Use(k, kept, 0)
          ELSE IF size[k][file[k]] >= m_log_max_file_size THEN Use(k, m_date[k], m_no[k] + 1)
          ELSE UNCHANGED <<m_date, m_no, file>>
       /\ misread' = IF {compared, kept} # {now[k]} THEN misread \cup {k} ELSE misread
  /\ UNCHANGED <<day, loggerVars, mainVars, queue, m_stop_flag, output, now, date, size>>

(* One fwrite.                                                              *)
WriteLine(k) ==
  /\ pc[k] = "write"
  /\ output[k] # <<>>
  /\ output' = [output EXCEPT ![k] = Tail(@)]
  /\ size' = [size EXCEPT ![k][file[k]] = @ + 1]
  /\ UNCHANGED <<day, loggerVars, mainVars, pc, queue, m_stop_flag, now, date, m_date, m_no, file, misread>>

BatchDone(k) ==
  /\ output[k] = <<>>
  /\ Step(k, "write", "wait")
  /\ UNCHANGED <<day, loggerVars, mainVars, queue, m_stop_flag, writerVars>>

WriterStep(k) ==
  \/ Sleep(k) \/ PopBatch(k) \/ Leave(k) \/ GetTime(k) \/ Format(k)
  \/ OpenFile(k) \/ WriteLine(k) \/ BatchDone(k)

-----------------------------------------------------------------------------
Next ==
  \/ Midnight \/ FlushAndStop \/ MainStep
  \/ \E k \in Logs : PushLog(k) \/ WriterStep(k)

Spec == Init /\ [][Next]_vars

(* The main thread's loop runs the timer event, and every thread goes on    *)
(* with what it has begun. Nobody has to log, or to stop.                   *)
Fairness == WF_vars(MainStep) /\ \A k \in Logs : WF_vars(WriterStep(k))

FairSpec == Spec /\ Fairness

-----------------------------------------------------------------------------
(* Properties.                                                              *)

Line == 1..MaxNo

(* The types of the log's state; a writer writes only to an open file.      *)
TypeOK ==
  /\ day \in 1..Days
  /\ m_log_type \in {"AsyncLog", "SyncLog"}
  /\ logged \in [Logs -> Nat]
  /\ m_buffer \in [Logs -> Seq(Line)]
  /\ main \in [at : {"idle", "swap", "push", "stop", "join", "stopped"}, log : Logs]
  /\ stopping \in BOOLEAN
  /\ tmp \in Seq(Line)
  /\ pc \in [Logs -> {"none", "wait", "asleep", "clock", "format", "open", "write", "done"}]
  /\ queue \in [Logs -> Seq(Seq(Line))]
  /\ m_stop_flag \in [Logs -> BOOLEAN]
  /\ output \in [Logs -> Seq(Line)]
  /\ now \in [Logs -> Date \cup {NoDate}]
  /\ date \in Date \cup {NoDate}
  /\ m_date \in [Logs -> Date \cup {NoDate}]
  /\ m_no \in [Logs -> 0..MaxNo]
  /\ file \in [Logs -> File \cup {NoFile}]
  /\ \A k \in Logs : pc[k] = "write" => file[k] \in File
  /\ size \in [Logs -> [File -> Nat]]
  /\ before \in [Logs -> Nat]
  /\ misread \subseteq Logs

Handed(k)  == output[k] \o FlattenSeq(queue[k])
Unwritten(k) == Handed(k) \o (IF At("push", k) THEN tmp ELSE <<>>) \o m_buffer[k]

(* From the buffer through the hands of the main thread and the queue of    *)
(* batches to the file, the lines of a log are a FIFO: none is lost,        *)
(* doubled or written out of order, whatever the days and files.            *)
RpcLog == INSTANCE TaskQueue WITH
  Task <- Line, queue <- Unwritten("rpc"), closed <- pc["rpc"] = "done"
LogInOrder == RpcLog!Spec

(* When flushAndStop returns, every line logged before it was called is in  *)
(* the files, and so is all else it took over, although the stop flag and   *)
(* the batches reach the writers separately and the threads go on logging.  *)
StopDrains ==
  main.at = "stopped" /\ m_log_type = "AsyncLog" =>
    \A k \in Logs : Handed(k) = <<>> /\ logged[k] - Len(m_buffer[k]) >= before[k]

(* flushAndStop returns: no writer sleeps through the stop.                 *)
StopReturns == stopping ~> main.at = "stopped"

(* Once the threads pause, every line they have logged gets written or      *)
(* printed, unless the process stops. Not so for the app log of a SyncLog   *)
(* Logger: it stays in its buffer.                                          *)
LineWritten ==
  \A k \in Logs : Unwritten(k) # <<>> ~>
    \/ Unwritten(k) = <<>> \/ stopping
    \/ k = "app" /\ m_log_type = "SyncLog"

(* While a writer reads no date but its own, the files fill up and follow   *)
(* one another: each batch goes to a file that has room, and that is the    *)
(* last one or comes after it in date and number.                           *)
After(f, g) == f.date > g.date \/ (f.date = g.date /\ f.no > g.no)
Rolls ==
  [][\A k \in Logs \ misread' : pc[k] = "open" /\ pc'[k] = "write" =>
       /\ size[k][file'[k]] < m_log_max_file_size
       /\ file'[k] = file[k] \/ After(file'[k], file[k])]_vars

(* log.h: m_date is the date of the file printed to. A batch is written to  *)
(* a file of the day its writer has determined for it.                      *)
DatedRight == \A k \in Logs : pc[k] = "write" => m_date[k] = now[k]
=============================================================================
