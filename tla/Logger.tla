------------------------------- MODULE Logger -------------------------------
(***************************************************************************)
(* The log: tasks print into one buffer, whole lines go through a queue to *)
(* LoggerTask, which appends them to the file, sends the file to an FTP    *)
(* server when it has grown too big, and clears it (Logger.cpp).           *)
(*                                                                         *)
(* Lines are counted, not told apart: the queue and the file are numbers of *)
(* lines, the buffer holds a line that has been begun or nothing.  println *)
(* makes two calls of write, one with the text and one with the line end;  *)
(* printf makes one with both.  The program may restart at any step; the   *)
(* file and the preferences are what it finds again.                       *)
(***************************************************************************)
EXTENDS Naturals, FiniteSets

CONSTANTS Writers,      \* tasks that print
          WebTask,      \* the one of them that can clear the file
          LoggerTask, Nobody,
          QueueLen,     \* LOG_QUEUE_MAX_ENTRYS
          MaxSize,      \* _maxLogFileSize, in lines
          Disk,         \* lines for which there is room
          MaxMessages   \* bound on the messages of Writers and clearings by WebTask

Tasks == Writers \cup {LoggerTask}

ASSUME LoggerAssumption ==
  /\ IsFiniteSet(Writers) /\ WebTask \in Writers
  /\ LoggerTask \notin Writers /\ Nobody \notin Tasks
  /\ QueueLen \in Nat \ {0} /\ MaxSize \in Nat \ {0} /\ MaxMessages \in Nat
  /\ Disk \in Nat /\ Disk > MaxSize

VARIABLES
  backupEnabled,  \* _backupEnabled
  fileWrite,      \* _fileWriteEnabled
  backupRunning,  \* _logBackupIsRunning
  fallBack,       \* _logFallBack
  holder,         \* of _bufferMutex
  begun,          \* _buffer is not empty
  queue,          \* lines in _logQueue
  size,           \* lines in the file
  sent,           \* lines of it given to the FTP client for the line in hand
  call, waiting,  \* per task: the call of write it makes; whether it waits for the mutex
  step,           \* of LoggerTask in processQueue
  webClear,       \* of WebTask in clear()
  openFailed,     \* history: clear() could not open the file
  found,          \* history: lines in the file as the program found it, or one line
                  \* more than its limit if there were fewer
  messages

settingVars == <<backupEnabled, fileWrite>>
fileVars == <<size, sent>>
printVars == <<call, waiting>>
vars == <<settingVars, backupRunning, fallBack, holder, begun, queue, fileVars, printVars,
          step, webClear, openFailed, found, messages>>

-----------------------------------------------------------------------------
(***************************************************************************)
(* print, println, printf and write                                        *)
(***************************************************************************)
Prints(t, c) == call' = [call EXCEPT ![t] = c]

StartPrint(t) ==
  /\ call[t] = "none" /\ (t = WebTask => webClear = "no")
  /\ messages < MaxMessages /\ messages' = messages + 1
  /\ \E c \in {"text", "whole"} : Prints(t, c)
  /\ UNCHANGED <<settingVars, backupRunning, fallBack, holder, begun, queue,
                 fileVars, waiting, step, webClear, openFailed, found>>

ToSerial == ~fileWrite \/ backupRunning \/ fallBack

\* println goes on with the line end.
CallDone(t) == Prints(t, IF call[t] = "text" THEN "newline" ELSE "none")

\* The beginning of write: nothing protects the flags.
SeeFlags(t) ==
  /\ call[t] # "none" /\ ~waiting[t]
  /\ IF ToSerial THEN CallDone(t) /\ UNCHANGED waiting
     ELSE waiting' = [waiting EXCEPT ![t] = TRUE] /\ UNCHANGED call
  /\ UNCHANGED <<settingVars, backupRunning, fallBack, holder, begun, queue, fileVars,
                 step, webClear, openFailed, found, messages>>

EnqueueOneMore == queue' = IF queue <= QueueLen THEN queue + 1 ELSE queue  \* mutant

\* toQueue: does not wait for room.
Enqueue == queue' = IF queue < QueueLen THEN queue + 1 ELSE queue

\* The rest of write, under the mutex.  Texts of several tasks make one line; a call
\* with a whole line drops what has been begun.
WriteBuffer(t) ==
  /\ waiting[t] /\ holder = Nobody
  /\ waiting' = [waiting EXCEPT ![t] = FALSE] /\ CallDone(t)
  /\ \/ call[t] = "text" /\ begun' = TRUE /\ UNCHANGED queue
     \/ call[t] = "newline" /\ begun /\ begun' = FALSE /\ Enqueue
     \/ call[t] = "newline" /\ ~begun /\ UNCHANGED <<begun, queue>>
     \/ call[t] = "whole" /\ begun' = FALSE /\ Enqueue
  /\ UNCHANGED <<settingVars, backupRunning, fallBack, holder, fileVars, step,
                 webClear, openFailed, found, messages>>

-----------------------------------------------------------------------------
(***************************************************************************)
(* clear(): the mutex is given back only if the new file could be opened.  *)
(***************************************************************************)
TakeMutex(t) == holder = Nobody /\ holder' = t

EmptyFile(opens) ==
  /\ size' = 0 /\ sent' = 0
  /\ holder' = IF opens THEN Nobody ELSE holder
  /\ openFailed' = (openFailed \/ ~opens)

\* The page "clearlog".
WebClearStart == /\ webClear = "no" /\ call[WebTask] = "none"
                 /\ messages < MaxMessages /\ messages' = messages + 1
                 /\ \/ TakeMutex(WebTask) /\ webClear' = "file"
                    \/ holder # Nobody /\ UNCHANGED <<holder, webClear>>  \* after 500 ms
                 /\ UNCHANGED <<settingVars, backupRunning, fallBack, begun, queue,
                                fileVars, printVars, step, openFailed, found>>

WebClearKeeps(opens) ==  \* mutant: the mutex is not given back
  /\ webClear = "file" /\ webClear' = "no"
  /\ size' = 0 /\ sent' = 0 /\ UNCHANGED <<holder, openFailed>>
  /\ UNCHANGED <<settingVars, backupRunning, fallBack, begun, queue, printVars,
                 step, found, messages>>

WebClearFile(opens) == /\ webClear = "file" /\ webClear' = "no"
                       /\ EmptyFile(opens)
                       /\ UNCHANGED <<settingVars, backupRunning, fallBack, begun, queue,
                                      printVars, step, found, messages>>

-----------------------------------------------------------------------------
(***************************************************************************)
(* LoggerTask: processQueue and backupFileToFTPServer.  What it prints     *)
(* during a backup goes to the serial port and is left out.                *)
(***************************************************************************)

\* The next line of the queue, which may be below the level.  Before a backup
\* LoggerTask says "Log file too large" into its own queue.
Receive ==
  /\ step = "receive" /\ queue > 0 /\ queue' = queue - 1
  /\ \/ UNCHANGED <<step, call>>
     \/ size <= MaxSize /\ step' = "append" /\ UNCHANGED call
     \/ size > MaxSize /\ step' = "backup" /\ Prints(LoggerTask, "text")
  /\ UNCHANGED <<settingVars, backupRunning, fallBack, holder, begun, fileVars,
                 waiting, webClear, openFailed, found, messages>>

\* Already running: taken for a success.  Not enabled: "Backup failed".
\* No server, user or password in the preferences, which the page may change at any
\* time: the file is cleared and the flag stays.
Backup ==
  /\ step = "backup" /\ call[LoggerTask] = "none"
  /\ \/ backupRunning /\ step' = "clear" /\ UNCHANGED <<backupRunning, call>>
     \/ /\ ~backupRunning /\ ~backupEnabled
        /\ step' = "append" /\ Prints(LoggerTask, "text") /\ UNCHANGED backupRunning
     \/ /\ ~backupRunning /\ backupEnabled
        /\ step' \in {"connect", "clear"}
        /\ backupRunning' = TRUE /\ UNCHANGED call
  /\ UNCHANGED <<settingVars, fallBack, holder, begun, queue, fileVars, waiting,
                 webClear, openFailed, found, messages>>

Transferred == /\ sent' = size /\ step' = "clear" /\ UNCHANGED fallBack

TransferKeepsLogging(works) ==  \* mutant: a failure does not switch to the serial port
  /\ step = "connect" /\ backupRunning' = FALSE
  /\ IF works THEN Transferred ELSE step' = "append" /\ UNCHANGED <<sent, fallBack>>
  /\ UNCHANGED <<settingVars, holder, begun, queue, size, printVars, webClear,
                 openFailed, found, messages>>

TransferClears(works) ==  \* mutant: a failure is taken for a success
  /\ step = "connect" /\ backupRunning' = FALSE
  /\ IF works THEN Transferred ELSE step' = "clear" /\ UNCHANGED <<sent, fallBack>>
  /\ UNCHANGED <<settingVars, holder, begun, queue, size, printVars, webClear,
                 openFailed, found, messages>>

\* The whole file is given to the FTP client, or there is no connection or no file
\* to read: logging to the file is over.
Transfer(works) ==
  /\ step = "connect" /\ backupRunning' = FALSE
  /\ IF works THEN Transferred
     ELSE step' = "append" /\ fallBack' = TRUE /\ UNCHANGED sent
  /\ UNCHANGED <<settingVars, holder, begun, queue, size, printVars, webClear,
                 openFailed, found, messages>>

ClearStart == /\ step = "clear"
              /\ \/ TakeMutex(LoggerTask) /\ step' = "clearing"
                 \/ holder # Nobody /\ step' = "append" /\ UNCHANGED holder  \* after 500 ms
              /\ UNCHANGED <<settingVars, backupRunning, fallBack, begun, queue,
                             fileVars, printVars, webClear, openFailed, found, messages>>

ClearFile(opens) == /\ step = "clearing" /\ step' = "append"
                    /\ EmptyFile(opens)
                    /\ UNCHANGED <<settingVars, backupRunning, fallBack, begun, queue,
                                   printVars, webClear, found, messages>>

\* A line is appended, if the file can be opened and there is room.
AppendLine(opens) ==
  /\ step = "append" /\ call[LoggerTask] = "none" /\ step' = "receive"
  /\ size' = IF opens /\ size < Disk THEN size + 1 ELSE size
  /\ fallBack' = (fallBack \/ ~opens) /\ sent' = 0
  /\ UNCHANGED <<settingVars, backupRunning, holder, begun, queue, printVars,
                 webClear, openFailed, found, messages>>

LoggerNext == \/ Receive \/ Backup \/ ClearStart
              \/ SeeFlags(LoggerTask) \/ WriteBuffer(LoggerTask)
              \/ \E ok \in BOOLEAN : Transfer(ok) \/ ClearFile(ok) \/ AppendLine(ok)

-----------------------------------------------------------------------------
\* Settings: a change of the backup setting disables it until the next start,
\* and each restart begins with disableFileLog.
Settings ==
  /\ \/ backupEnabled' = FALSE /\ UNCHANGED fileWrite
     \/ fileWrite' = FALSE /\ UNCHANGED backupEnabled
  /\ UNCHANGED <<backupRunning, fallBack, holder, begun, queue, fileVars,
                 printVars, step, webClear, openFailed, found, messages>>

WriterNext(t) == SeeFlags(t) \/ WriteBuffer(t)

WebClearing == \E opens \in BOOLEAN : WebClearFile(opens)

\* The first start finds no file.  The file system may have failed to mount.
Init ==
  /\ backupEnabled \in BOOLEAN /\ fileWrite = TRUE
  /\ backupRunning = FALSE /\ fallBack \in BOOLEAN
  /\ holder = Nobody /\ begun = FALSE /\ queue = 0 /\ size = 0 /\ sent = 0
  /\ call = [t \in Tasks |-> "none"] /\ waiting = [t \in Tasks |-> FALSE]
  /\ step = "receive" /\ webClear = "no" /\ openFailed = FALSE
  /\ found = MaxSize + 1 /\ messages = 0

\* A restart, or a loss of power, at any moment.  The constructor reads whether
\* backups are enabled, begins to write to the file again and clears nothing.
Reboot ==
  /\ backupEnabled' \in BOOLEAN /\ fileWrite' = TRUE
  /\ backupRunning' = FALSE /\ fallBack' \in BOOLEAN
  /\ holder' = Nobody /\ begun' = FALSE /\ queue' = 0 /\ UNCHANGED size /\ sent' = 0
  /\ call' = [t \in Tasks |-> "none"] /\ waiting' = [t \in Tasks |-> FALSE]
  /\ step' = "receive" /\ webClear' = "no" /\ openFailed' = FALSE
  /\ found' = (IF size > MaxSize + 1 THEN size ELSE MaxSize + 1) /\ messages' = 0

Next == \/ LoggerNext \/ Settings \/ WebClearStart \/ WebClearing \/ Reboot
        \/ \E t \in Writers : StartPrint(t) \/ WriterNext(t)

Spec == Init /\ [][Next]_vars

\* The mutex goes to the waiting task of the highest priority when it is given back,
\* and nobody takes it again and again but LoggerTask, whose priority is the lowest.
\* Strong fairness: a writer gets it although LoggerTask keeps taking it.
FairSpec ==
  /\ Spec /\ WF_vars(LoggerNext) /\ WF_vars(WebClearing)
  /\ \A t \in Writers : WF_vars(SeeFlags(t)) /\ SF_vars(WriteBuffer(t))

-----------------------------------------------------------------------------
FlagsOK == /\ backupEnabled \in BOOLEAN /\ fileWrite \in BOOLEAN
           /\ backupRunning \in BOOLEAN /\ fallBack \in BOOLEAN
           /\ waiting \in [Tasks -> BOOLEAN] /\ openFailed \in BOOLEAN /\ begun \in BOOLEAN

DataOK ==
  /\ holder \in {Nobody, WebTask, LoggerTask} /\ queue \in 0..QueueLen
  /\ size \in 0..Disk /\ sent \in 0..Disk /\ found \in (MaxSize + 1)..(Disk + 1)
  /\ messages \in 0..MaxMessages
  /\ call \in [Tasks -> {"none", "text", "newline", "whole"}]
  /\ step \in {"receive", "backup", "connect", "clear", "clearing", "append"}
  /\ webClear \in {"no", "file"}

TypeOK == FlagsOK /\ DataOK

-----------------------------------------------------------------------------
(***************************************************************************)
(* Properties                                                              *)
(***************************************************************************)

\* What the program found, the line that is being handled when a backup fails, those
\* in the queue, and one of each task that has seen the flags before that.
Limit == found + 1 + QueueLen + Cardinality(Writers)

\* While backups are enabled, the file gets only a few lines longer than it was when
\* the program started, or than its limit, whatever becomes of the backups
\* (processQueue, backupFileToFTPServer).  Each start may add these lines again.
SizeBounded == backupEnabled => size <= Limit

\* LoggerTask does not clear lines that have not been given to the FTP client,
\* unless no server was set (then the flag is still up).
ClearedAfterSent ==
  [][step = "clearing" /\ size' < size /\ ~backupRunning => sent = size]_vars

\* Printing ends: no task waits for the mutex for ever, unless clear() has kept it
\* because the new file could not be opened (write, lock, clear).
WritersReturn == \A t \in Writers : []<>(call[t] = "none" \/ openFailed)

\* LoggerTask comes to rest when the others do, although it prints into its own
\* queue (processQueue), as long as backups are enabled.
LoggerRests == []<>((queue = 0 /\ step = "receive") \/ ~backupEnabled \/ openFailed)
=============================================================================
