---------------------------- MODULE Logger_proofs ----------------------------
(***************************************************************************)
(* Proofs about Logger, for any number of writers and lengths of queue and *)
(* file: the types, that no line is cleared before it was sent, that the   *)
(* mutex is given back, and that the file gets only a few lines longer     *)
(* than the program found it, or than its limit, while backups are         *)
(* enabled.  The program may restart at every step.                        *)
(***************************************************************************)
EXTENDS Logger, FiniteSetTheorems, TLAPS

USE LoggerAssumption DEF LoggerAssumption
USE DEF settingVars, fileVars, printVars

-----------------------------------------------------------------------------
(***************************************************************************)
(* The invariants                                                          *)
(***************************************************************************)

\* LoggerTask prints only where processQueue says so.
LoggerPrints ==
  /\ waiting[LoggerTask] => call[LoggerTask] # "none"
  /\ step \notin {"backup", "append"} => call[LoggerTask] = "none"

\* What is cleared has been sent.
SentFirst == step \in {"clear", "clearing"} => backupRunning \/ sent = size

\* The line LoggerTask has in hand; the writers that have seen the flags.
InHand == IF step = "receive" THEN 0 ELSE 1
Waiters == {t \in Writers : waiting[t]}

\* While all is well a line is appended only to a file within its limit.
WithinLimit ==
  ~fallBack /\ holder = Nobody => /\ size <= found
                                  /\ step = "append" => size <= MaxSize

\* While somebody clears nothing is queued.
NothingQueued == ~fallBack => size + queue + InHand <= found + 1 + QueueLen

\* After a failure only those that had seen the flags before queue a line.
FewMore ==
  fallBack => /\ size + queue + InHand + Cardinality(Waiters) <= Limit
              /\ ~waiting[LoggerTask]

Growth == backupEnabled => WithinLimit /\ NothingQueued /\ FewMore

IInv == TypeOK /\ LoggerPrints /\ SentFirst /\ Growth

-----------------------------------------------------------------------------
(***************************************************************************)
(* Types                                                                   *)
(***************************************************************************)

\* The steps, those of one kind by any task together.
LEMMA Steps ==
  [Next]_vars => \/ \E t \in Writers : StartPrint(t)
                 \/ \E t \in Tasks : SeeFlags(t) \/ WriteBuffer(t)
                 \/ WebClearStart \/ Receive \/ Backup \/ ClearStart \/ Settings \/ Reboot
                 \/ \E ok \in BOOLEAN : \/ WebClearFile(ok) \/ Transfer(ok)
                                       \/ ClearFile(ok) \/ AppendLine(ok)
                 \/ UNCHANGED vars
  BY DEF Next, LoggerNext, WriterNext, WebClearing, Tasks

LEMMA FlagsKept == TypeOK /\ [Next]_vars => FlagsOK'
<1> SUFFICES ASSUME FlagsOK, DataOK, [Next]_vars PROVE FlagsOK'
  BY DEF TypeOK
<1> USE DEF FlagsOK
<1>1. ASSUME NEW t \in Writers, StartPrint(t) PROVE FlagsOK'
  BY <1>1 DEF StartPrint
<1>2. ASSUME NEW t \in Tasks, SeeFlags(t) PROVE FlagsOK'
  BY <1>2 DEF SeeFlags
<1>3. ASSUME NEW t \in Tasks, WriteBuffer(t) PROVE FlagsOK'
  BY <1>3 DEF WriteBuffer
<1>4. CASE WebClearStart \/ Receive \/ Backup \/ ClearStart
  BY <1>4 DEF WebClearStart, Receive, Backup, ClearStart
<1>5. CASE Settings
  BY <1>5 DEF Settings
<1>6. ASSUME NEW ok \in BOOLEAN, WebClearFile(ok) \/ ClearFile(ok) PROVE FlagsOK'
  BY <1>6 DEF WebClearFile, ClearFile, EmptyFile
<1>7. ASSUME NEW ok \in BOOLEAN, Transfer(ok) PROVE FlagsOK'
  BY <1>7 DEF Transfer, Transferred
<1>8. ASSUME NEW ok \in BOOLEAN, AppendLine(ok) PROVE FlagsOK'
  BY <1>8 DEF AppendLine
<1>9. CASE UNCHANGED vars
  BY <1>9 DEF vars
<1>10. CASE Reboot
  BY <1>10 DEF Reboot, Tasks
<1> QED
  BY <1>1, <1>2, <1>3, <1>4, <1>5, <1>6, <1>7, <1>8, <1>9, <1>10, Steps

LEMMA DataKept == TypeOK /\ [Next]_vars => DataOK'
<1> SUFFICES ASSUME FlagsOK, DataOK, [Next]_vars PROVE DataOK'
  BY DEF TypeOK
<1> USE DEF DataOK
<1>1. ASSUME NEW t \in Writers, StartPrint(t) PROVE DataOK'
  BY <1>1 DEF StartPrint, Prints, Tasks
<1>2. ASSUME NEW t \in Tasks, SeeFlags(t) PROVE DataOK'
  BY <1>2 DEF SeeFlags, CallDone, Prints
<1>3. ASSUME NEW t \in Tasks, WriteBuffer(t) PROVE DataOK'
  BY <1>3 DEF WriteBuffer, CallDone, Prints, Enqueue
<1>4. CASE WebClearStart
  BY <1>4 DEF WebClearStart, TakeMutex
<1>5. CASE Receive
  BY <1>5 DEF Receive, Prints, Tasks
<1>6. CASE Backup
  BY <1>6 DEF Backup, Prints, Tasks
<1>7. CASE ClearStart \/ Settings
  BY <1>7 DEF ClearStart, TakeMutex, Settings
<1>8. ASSUME NEW ok \in BOOLEAN, WebClearFile(ok) \/ ClearFile(ok) PROVE DataOK'
  BY <1>8 DEF WebClearFile, ClearFile, EmptyFile
<1>9. ASSUME NEW ok \in BOOLEAN, Transfer(ok) PROVE DataOK'
  BY <1>9 DEF Transfer, Transferred
<1>10. ASSUME NEW ok \in BOOLEAN, AppendLine(ok) PROVE DataOK'
  BY <1>10 DEF AppendLine
<1>11. CASE UNCHANGED vars
  BY <1>11 DEF vars
<1>12. CASE Reboot
  BY <1>12 DEF Reboot, Tasks
<1> QED
  BY <1>1, <1>2, <1>3, <1>4, <1>5, <1>6, <1>7, <1>8, <1>9, <1>10, <1>11, <1>12, Steps

LEMMA InitTypes == Init => TypeOK
<1> SUFFICES ASSUME Init PROVE FlagsOK /\ DataOK
  BY DEF TypeOK
<1>1. FlagsOK
  BY DEF Init, FlagsOK
<1>2. DataOK
  BY DEF Init, DataOK
<1> QED
  BY <1>1, <1>2

\* Every variable of the log keeps its type: the queue never holds more lines than
\* it was made for, and only WebTask and LoggerTask keep the mutex (Logger.cpp).
THEOREM TypeCorrect == Spec => []TypeOK
<1>1. TypeOK /\ [Next]_vars => TypeOK'
  BY FlagsKept, DataKept DEF TypeOK
<1> QED
  BY InitTypes, <1>1, PTL DEF Spec

-----------------------------------------------------------------------------
(***************************************************************************)
(* What LoggerTask prints and clears                                       *)
(***************************************************************************)
LEMMA PrintsKept == TypeOK /\ LoggerPrints /\ [Next]_vars => LoggerPrints'
<1> SUFFICES ASSUME FlagsOK, DataOK, LoggerPrints, [Next]_vars PROVE LoggerPrints'
  BY DEF TypeOK
<1> USE DEF LoggerPrints
<1>0. LoggerTask \in Tasks /\ call \in [Tasks -> {"none", "text", "newline", "whole"}]
      /\ waiting \in [Tasks -> BOOLEAN]
  BY DEF Tasks, DataOK, FlagsOK
<1>1. ASSUME NEW t \in Writers, StartPrint(t) PROVE LoggerPrints'
  BY <1>0, <1>1 DEF StartPrint, Prints
<1>2. ASSUME NEW t \in Tasks, SeeFlags(t) PROVE LoggerPrints'
  BY <1>0, <1>2 DEF SeeFlags, CallDone, Prints
<1>3. ASSUME NEW t \in Tasks, WriteBuffer(t) PROVE LoggerPrints'
  BY <1>0, <1>3 DEF WriteBuffer, CallDone, Prints
<1>4. CASE WebClearStart \/ Settings
  BY <1>4 DEF WebClearStart, Settings
<1>5. CASE Receive
  BY <1>0, <1>5 DEF Receive, Prints
<1>6. CASE Backup
  BY <1>0, <1>6 DEF Backup, Prints
<1>7. CASE ClearStart
  BY <1>7 DEF ClearStart
<1>8. ASSUME NEW ok \in BOOLEAN, WebClearFile(ok) \/ ClearFile(ok) PROVE LoggerPrints'
  BY <1>8 DEF WebClearFile, ClearFile
<1>9. ASSUME NEW ok \in BOOLEAN, Transfer(ok) PROVE LoggerPrints'
  BY <1>9 DEF Transfer, Transferred
<1>10. ASSUME NEW ok \in BOOLEAN, AppendLine(ok) PROVE LoggerPrints'
  BY <1>10 DEF AppendLine
<1>11. CASE UNCHANGED vars
  BY <1>11 DEF vars
<1>12. CASE Reboot
  BY <1>12 DEF Reboot, Tasks
<1> QED
  BY <1>1, <1>2, <1>3, <1>4, <1>5, <1>6, <1>7, <1>8, <1>9, <1>10, <1>11, <1>12, Steps

LEMMA SentKept == TypeOK /\ SentFirst /\ [Next]_vars => SentFirst'
<1> SUFFICES ASSUME FlagsOK, DataOK, SentFirst, [Next]_vars PROVE SentFirst'
  BY DEF TypeOK
<1> USE DEF SentFirst
<1>1. ASSUME NEW t \in Writers, StartPrint(t) PROVE SentFirst'
  BY <1>1 DEF StartPrint
<1>2. ASSUME NEW t \in Tasks, SeeFlags(t) PROVE SentFirst'
  BY <1>2 DEF SeeFlags
<1>3. ASSUME NEW t \in Tasks, WriteBuffer(t) PROVE SentFirst'
  BY <1>3 DEF WriteBuffer
<1>4. CASE WebClearStart \/ Settings \/ Receive \/ ClearStart
  BY <1>4 DEF WebClearStart, Settings, Receive, ClearStart
<1>5. CASE Backup
  BY <1>5 DEF Backup
<1>6. ASSUME NEW ok \in BOOLEAN, WebClearFile(ok) \/ ClearFile(ok) PROVE SentFirst'
  BY <1>6 DEF WebClearFile, ClearFile, EmptyFile
<1>7. ASSUME NEW ok \in BOOLEAN, Transfer(ok) PROVE SentFirst'
  BY <1>7 DEF Transfer, Transferred
<1>8. ASSUME NEW ok \in BOOLEAN, AppendLine(ok) PROVE SentFirst'
  BY <1>8 DEF AppendLine
<1>9. CASE UNCHANGED vars
  BY <1>9 DEF vars
<1>10. CASE Reboot
  BY <1>10 DEF Reboot, Tasks
<1> QED
  BY <1>1, <1>2, <1>3, <1>4, <1>5, <1>6, <1>7, <1>8, <1>9, <1>10, Steps

\* LoggerTask clears no line that was not given to the FTP client, whoever prints
\* or clears in the meantime (processQueue, backupFileToFTPServer).
THEOREM NothingUnsentCleared == Spec => ClearedAfterSent
<1>1. Init => SentFirst
  BY DEF Init, SentFirst
<1>2. SentFirst /\ [Next]_vars
        => [step = "clearing" /\ size' < size /\ ~backupRunning => sent = size]_vars
  BY DEF SentFirst
<1>3. TypeOK /\ SentFirst /\ [Next]_vars => TypeOK' /\ SentFirst'
  BY FlagsKept, DataKept, SentKept DEF TypeOK
<1> QED
  BY InitTypes, <1>1, <1>2, <1>3, PTL DEF Spec, ClearedAfterSent

-----------------------------------------------------------------------------
(***************************************************************************)
(* The mutex                                                               *)
(***************************************************************************)
\* Whoever has the mutex is about to give it back: LoggerTask and WebTask do not both
\* clear, and a mutex nobody is clearing under is free, unless the new file could not
\* be opened (lock, unlock, clear).
MutexHeld ==
  /\ step = "clearing" => holder = LoggerTask
  /\ webClear = "file" => holder = WebTask
  /\ holder # Nobody /\ ~openFailed => step = "clearing" \/ webClear = "file"

LEMMA HeldKept == TypeOK /\ MutexHeld /\ [Next]_vars => MutexHeld'
<1> SUFFICES ASSUME FlagsOK, DataOK, MutexHeld, [Next]_vars PROVE MutexHeld'
  BY DEF TypeOK
<1> USE DEF MutexHeld
<1>0. WebTask # LoggerTask /\ WebTask # Nobody /\ LoggerTask # Nobody
  BY DEF Tasks
<1>1. ASSUME NEW t \in Writers, StartPrint(t) PROVE MutexHeld'
  BY <1>1 DEF StartPrint
<1>2. ASSUME NEW t \in Tasks, SeeFlags(t) \/ WriteBuffer(t) PROVE MutexHeld'
  BY <1>2 DEF SeeFlags, WriteBuffer
<1>3. CASE WebClearStart
  BY <1>0, <1>3 DEF WebClearStart, TakeMutex
<1>4. CASE ClearStart
  BY <1>0, <1>4 DEF ClearStart, TakeMutex
<1>5. CASE Receive \/ Backup \/ Settings
  BY <1>5 DEF Receive, Backup, Settings
<1>6. ASSUME NEW ok \in BOOLEAN, WebClearFile(ok) PROVE MutexHeld'
  <2>1. holder = WebTask /\ step # "clearing"
    BY <1>0, <1>6 DEF WebClearFile
  <2> QED
    BY <1>6, <2>1 DEF WebClearFile, EmptyFile
<1>7. ASSUME NEW ok \in BOOLEAN, ClearFile(ok) PROVE MutexHeld'
  <2>1. holder = LoggerTask /\ webClear # "file"
    BY <1>0, <1>7 DEF ClearFile
  <2> QED
    BY <1>7, <2>1 DEF ClearFile, EmptyFile
<1>8. ASSUME NEW ok \in BOOLEAN, Transfer(ok) \/ AppendLine(ok) PROVE MutexHeld'
  BY <1>8 DEF Transfer, Transferred, AppendLine
<1>9. CASE UNCHANGED vars
  BY <1>9 DEF vars
<1>10. CASE Reboot
  BY <1>10 DEF Reboot, Tasks
<1> QED
  BY <1>1, <1>2, <1>3, <1>4, <1>5, <1>6, <1>7, <1>8, <1>9, <1>10, Steps

\* LoggerTask and the clear page never clear at the same time, and the mutex is kept
\* only while one of them clears or after the new file could not be opened (clear).
THEOREM MutexGivenBack == Spec => []MutexHeld
<1>1. Init => MutexHeld
  BY DEF Init, MutexHeld
<1>2. TypeOK /\ MutexHeld /\ [Next]_vars => TypeOK' /\ MutexHeld'
  BY FlagsKept, DataKept, HeldKept DEF TypeOK
<1> QED
  BY InitTypes, <1>1, <1>2, PTL DEF Spec

-----------------------------------------------------------------------------
(***************************************************************************)
(* The size of the file                                                    *)
(***************************************************************************)
LEMMA WaitersCounted ==
  /\ Cardinality(Writers) \in Nat
  /\ IsFiniteSet(Waiters)
  /\ Cardinality(Waiters) \in Nat /\ Cardinality(Waiters) <= Cardinality(Writers)
<1>1. IsFiniteSet(Writers) /\ Waiters \in SUBSET Writers
  BY DEF Waiters
<1>2. IsFiniteSet(Waiters) /\ Cardinality(Waiters) <= Cardinality(Writers)
  BY <1>1, FS_Subset
<1> QED
  BY <1>1, <1>2, FS_CardinalityType

\* A writer that has written does not wait any more.
LEMMA WriterLeaves ==
  ASSUME FlagsOK, NEW t \in Writers, WriteBuffer(t)
  PROVE  Cardinality(Waiters)' = Cardinality(Waiters) - 1
<1>1. Waiters' = Waiters \ {t} /\ t \in Waiters
  BY DEF FlagsOK, WriteBuffer, Waiters, Tasks
<1> QED
  BY <1>1, WaitersCounted, FS_RemoveElement

\* While the flags send lines to the serial port, nobody begins to wait.
LEMMA NobodyJoins ==
  ASSUME FlagsOK, NEW t \in Tasks, SeeFlags(t), fallBack
  PROVE  waiting' = waiting
  BY DEF SeeFlags, ToSerial, FlagsOK

\* There is room for a line of each writer above what others can leave.
LEMMA Room ==
  ASSUME TypeOK, NEW n \in Nat, NEW k \in Nat,
         n <= found + 1 + QueueLen, k <= Cardinality(Writers)
  PROVE  n + k <= Limit
<1> DEFINE w == Cardinality(Writers)
<1>1. w \in Nat /\ found \in Nat /\ Limit = found + 1 + QueueLen + w
  BY WaitersCounted DEF Limit, TypeOK, DataOK
<1> HIDE DEF w
<1>2. n + k <= found + 1 + QueueLen + w
  BY <1>1 DEF w
<1> QED  BY <1>1, <1>2

\* The program finds a file and queues nothing yet.
LEMMA RebootGrowth == TypeOK /\ Reboot => Growth'
<1> SUFFICES ASSUME TypeOK, Reboot PROVE (WithinLimit /\ NothingQueued /\ FewMore)'
  BY DEF Growth
<1>1. /\ size \in Nat /\ size' = size /\ queue' = 0 /\ step' = "receive"
      /\ found' = IF size > MaxSize + 1 THEN size ELSE MaxSize + 1
      /\ waiting' = [t \in Tasks |-> FALSE]
  BY DEF Reboot, TypeOK, DataOK
<1>2. InHand' = 0 /\ found' \in Nat /\ size' <= found'
  BY <1>1 DEF InHand
<1>3. Waiters' = {}
  BY <1>1 DEF Waiters, Tasks
<1>4. Cardinality(Waiters)' = 0 /\ Cardinality(Writers) \in Nat
  BY <1>3, WaitersCounted, FS_EmptySet
<1>5. Limit' = found' + 1 + QueueLen + Cardinality(Writers)
  BY DEF Limit
<1>6. ~waiting'[LoggerTask]
  BY <1>1 DEF Tasks
<1>7. WithinLimit' /\ NothingQueued'
  BY <1>1, <1>2 DEF WithinLimit, NothingQueued
<1>8. size' + queue' + InHand' + Cardinality(Waiters)' <= Limit'
  <2> DEFINE c == Cardinality(Waiters)'
             w == Cardinality(Writers)
             l == Limit'
  <2>1. c = 0 /\ w \in Nat /\ l = found' + 1 + QueueLen + w  BY <1>4, <1>5
  <2> HIDE DEF c, w, l
  <2>2. size' + queue' + InHand' + c <= l  BY <1>1, <1>2, <2>1
  <2> QED  BY <2>2 DEF c, l
<1> QED
  BY <1>6, <1>7, <1>8 DEF FewMore

LEMMA FoundKept == [Next]_vars => Reboot \/ found' = found
<1> SUFFICES ASSUME [Next]_vars, ~Reboot PROVE found' = found
  OBVIOUS
<1>1. ASSUME NEW t \in Writers, StartPrint(t) PROVE found' = found
  BY <1>1 DEF StartPrint
<1>2. ASSUME NEW t \in Tasks, SeeFlags(t) \/ WriteBuffer(t) PROVE found' = found
  BY <1>2 DEF SeeFlags, WriteBuffer
<1>3. CASE WebClearStart \/ Receive \/ Backup \/ ClearStart \/ Settings
  BY <1>3 DEF WebClearStart, Receive, Backup, ClearStart, Settings
<1>4. ASSUME NEW ok \in BOOLEAN,
             WebClearFile(ok) \/ Transfer(ok) \/ ClearFile(ok) \/ AppendLine(ok)
      PROVE found' = found
  BY <1>4 DEF WebClearFile, Transfer, ClearFile, AppendLine
<1>5. CASE UNCHANGED vars
  BY <1>5 DEF vars
<1> QED
  BY <1>1, <1>2, <1>3, <1>4, <1>5, Steps

LEMMA GrowthKept == TypeOK /\ LoggerPrints /\ Growth /\ [Next]_vars => Growth'
<1> SUFFICES ASSUME TypeOK, LoggerPrints, Growth, [Next]_vars, backupEnabled'
             PROVE (WithinLimit /\ NothingQueued /\ FewMore)'
  BY DEF Growth
<1>0. SUFFICES ASSUME ~Reboot PROVE (WithinLimit /\ NothingQueued /\ FewMore)'
  BY RebootGrowth DEF Growth
<1> DEFINE c == Cardinality(Waiters)
           w == Cardinality(Writers)
<1>a. /\ found' = found /\ found \in Nat /\ MaxSize + 1 <= found /\ Limit' = Limit
  <2>1. found' = found  BY <1>0, FoundKept
  <2> QED  BY <2>1 DEF TypeOK, DataOK, Limit
<1>i. /\ FlagsOK /\ DataOK /\ queue \in Nat /\ queue <= QueueLen /\ size \in Nat
      /\ fallBack \in BOOLEAN /\ InHand \in Nat /\ InHand <= 1
  BY DEF TypeOK, DataOK, FlagsOK, InHand
<1>b. w \in Nat /\ c \in Nat /\ c <= w /\ Limit = found + 1 + QueueLen + w
  BY WaitersCounted DEF Limit
<1>c. backupEnabled =>
        /\ ~fallBack /\ holder = Nobody => /\ size <= found
                                           /\ step = "append" => size <= MaxSize
        /\ ~fallBack => size + queue + InHand <= found + 1 + QueueLen
        /\ fallBack => size + queue + InHand + c <= Limit /\ ~waiting[LoggerTask]
  BY DEF Growth, WithinLimit, NothingQueued, FewMore
<1>d. waiting' = waiting => c' = c
  BY DEF Waiters
<1>e. PICK s2 \in Nat, q2 \in Nat, h2 \in {0, 1}, c2 \in {c'} :
        size' = s2 /\ queue' = q2 /\ InHand' = h2 /\ c' = c2 /\ q2 <= QueueLen
  <2>1. size' \in Nat /\ queue' \in 0..QueueLen
    BY DataKept DEF DataOK
  <2>2. InHand' \in {0, 1}
    BY DEF InHand
  <2>3. \A q \in 0..QueueLen : q \in Nat /\ q <= QueueLen
    OBVIOUS
  <2> QED  BY <2>1, <2>2, <2>3
<1> DEFINE Goal ==
             /\ ~fallBack' /\ holder' = Nobody => /\ s2 <= found
                                                  /\ step' = "append" => s2 <= MaxSize
             /\ ~fallBack' => s2 + q2 + h2 <= found + 1 + QueueLen
             /\ fallBack' => s2 + q2 + h2 + c2 <= Limit /\ ~waiting'[LoggerTask]
<1>f. SUFFICES Goal
  BY <1>a, <1>e DEF WithinLimit, NothingQueued, FewMore
<1> HIDE DEF c, w
<1>g. step' = step => h2 = InHand
  BY <1>e DEF InHand
<1>h. waiting' = waiting => c2 = c
  BY <1>d, <1>e
<1>1. ASSUME NEW t \in Writers, StartPrint(t) PROVE Goal
  <2>1. /\ UNCHANGED <<backupEnabled, fallBack, holder, step, waiting>>
        /\ s2 = size /\ q2 = queue /\ h2 = InHand /\ c2 = c
    BY <1>1, <1>e, <1>g, <1>h DEF StartPrint
  <2> QED  BY <1>c, <2>1
<1>2. ASSUME NEW t \in Tasks, SeeFlags(t) PROVE Goal
  <2>1. /\ UNCHANGED <<backupEnabled, fallBack, holder, step>>
        /\ s2 = size /\ q2 = queue /\ h2 = InHand
    BY <1>2, <1>e, <1>g DEF SeeFlags
  <2>2. CASE fallBack
    <3>1. waiting' = waiting /\ c2 = c  BY <1>2, <1>a, <1>i, <1>h, <2>2, NobodyJoins
    <3> QED  BY <1>c, <2>1, <2>2, <3>1
  <2>3. CASE ~fallBack
    BY <1>c, <2>1, <2>3
  <2> QED  BY <2>2, <2>3
<1>3. ASSUME NEW t \in Tasks, WriteBuffer(t) PROVE Goal
  <2>1. /\ UNCHANGED <<backupEnabled, fallBack, holder, step>>
        /\ s2 = size /\ q2 <= queue + 1 /\ h2 = InHand
        /\ holder = Nobody /\ waiting[t]
    <3>1. q2 \in {queue, queue + 1}
      BY <1>3, <1>e DEF WriteBuffer, Enqueue
    <3>2. q2 <= queue + 1
      BY <1>a, <1>i, <3>1
    <3> QED
      BY <1>3, <1>e, <1>g, <3>2 DEF WriteBuffer
  <2>2. CASE fallBack
    <3>1. ~waiting[LoggerTask] /\ t \in Writers
      BY <1>c, <2>1, <2>2 DEF Tasks
    <3>2. c2 = c - 1
      BY <1>3, <1>a, <1>i, <1>e, <3>1, WriterLeaves DEF c
    <3>3. ~waiting'[LoggerTask]
      BY <1>3, <1>a, <1>i, <3>1 DEF WriteBuffer, FlagsOK, Tasks
    <3>4. size + queue + InHand + c <= Limit
      BY <1>c, <2>1, <2>2
    <3>5. s2 + q2 + h2 + c2 <= Limit
      BY <1>a, <1>i, <1>b, <2>1, <3>2, <3>4
    <3> QED  BY <2>1, <2>2, <3>3, <3>5
  <2>3. CASE ~fallBack
    <3>1. size <= found /\ (step = "append" => size <= MaxSize)
      BY <1>c, <2>1, <2>3
    <3>2. s2 + q2 + h2 <= found + 1 + QueueLen
      BY <1>a, <1>i, <1>e, <2>1, <3>1
    <3> QED  BY <2>1, <2>3, <3>1, <3>2
  <2> QED  BY <2>2, <2>3
<1>4. CASE WebClearStart
  <2>1. /\ UNCHANGED <<backupEnabled, fallBack, step, waiting>>
        /\ s2 = size /\ q2 = queue /\ h2 = InHand /\ c2 = c
        /\ holder' = Nobody => holder = Nobody
    BY <1>4, <1>e, <1>g, <1>h DEF WebClearStart, TakeMutex
  <2> QED  BY <1>c, <2>1
<1>5. CASE Receive
  <2>1. /\ UNCHANGED <<backupEnabled, fallBack, holder, waiting>> /\ c2 = c
        /\ s2 = size /\ q2 = queue - 1 /\ InHand = 0
        /\ step' = "append" => size <= MaxSize
    BY <1>5, <1>e, <1>h DEF Receive, InHand
  <2>2. s2 + q2 + h2 <= size + queue + InHand
    BY <1>a, <1>i, <1>e, <2>1
  <2>3. CASE fallBack
    <3>1. size + queue + InHand + c <= Limit
      BY <1>c, <2>1, <2>3
    <3>2. s2 + q2 + h2 + c2 <= Limit
      BY <1>a, <1>i, <1>b, <1>e, <2>1, <2>2, <3>1
    <3> QED  BY <1>c, <2>1, <2>3, <3>2
  <2>4. CASE ~fallBack
    <3>1. size + queue + InHand <= found + 1 + QueueLen
      BY <1>c, <2>1, <2>4
    <3>2. s2 + q2 + h2 <= found + 1 + QueueLen
      BY <1>a, <1>i, <1>e, <2>1, <2>2, <3>1
    <3> QED  BY <1>c, <2>1, <2>4, <3>2
  <2> QED  BY <2>3, <2>4
<1>6. CASE Backup
  <2>1. UNCHANGED <<fallBack, holder, waiting>>  BY <1>6 DEF Backup
  <2>2. /\ UNCHANGED backupEnabled /\ c2 = c
        /\ s2 = size /\ q2 = queue /\ h2 = InHand
    BY <1>6, <1>e, <1>h, <2>1 DEF Backup, InHand
  <2>3. step' # "append"
    BY <1>6, <2>2 DEF Backup
  <2> QED  BY <1>c, <2>1, <2>2, <2>3
<1>7. CASE ClearStart
  <2>1. /\ UNCHANGED <<backupEnabled, fallBack, waiting>> /\ c2 = c
        /\ s2 = size /\ q2 = queue /\ h2 = InHand
        /\ holder' # Nobody
    BY <1>7, <1>e, <1>h DEF ClearStart, TakeMutex, InHand, Tasks
  <2> QED  BY <1>c, <2>1
<1>8. CASE Settings
  <2>1. /\ UNCHANGED <<fallBack, holder, step, waiting>> /\ backupEnabled
        /\ s2 = size /\ q2 = queue /\ h2 = InHand /\ c2 = c
    BY <1>8, <1>e, <1>g, <1>h DEF Settings
  <2> QED  BY <1>c, <2>1
<1>9. ASSUME NEW ok \in BOOLEAN, WebClearFile(ok) \/ ClearFile(ok) PROVE Goal
  <2>1. /\ UNCHANGED <<backupEnabled, fallBack, waiting>> /\ c2 = c
        /\ s2 = 0 /\ q2 = queue /\ h2 = InHand
    BY <1>9, <1>e, <1>h DEF WebClearFile, ClearFile, EmptyFile, InHand
  <2>2. s2 <= MaxSize /\ s2 <= found /\ s2 + q2 + h2 <= found + 1 + QueueLen
    BY <1>a, <1>i, <1>e, <2>1
  <2>3. s2 + q2 + h2 + c2 <= Limit
    <3>1. s2 + q2 + h2 \in Nat /\ c2 \in Nat /\ c2 <= Cardinality(Writers)
      BY <1>a, <1>i, <1>b, <1>e, <2>1 DEF w
    <3> QED  BY <2>2, <3>1, Room
  <2> QED  BY <1>c, <2>1, <2>2, <2>3
<1>10. ASSUME NEW ok \in BOOLEAN, Transfer(ok) PROVE Goal
  <2>1. /\ UNCHANGED <<backupEnabled, holder, waiting>> /\ c2 = c
        /\ s2 = size /\ q2 = queue /\ h2 = InHand
    BY <1>10, <1>e, <1>h DEF Transfer, Transferred, InHand
  <2>2. ~waiting[LoggerTask]
    BY <1>10 DEF Transfer, LoggerPrints
  <2>3. CASE fallBack' = fallBack
    <3>1. fallBack \/ step' # "append"
      BY <1>10, <2>3 DEF Transfer, Transferred
    <3> QED  BY <1>c, <2>1, <2>3, <3>1
  <2>4. CASE ~fallBack /\ fallBack'
    <3>1. size + queue + InHand <= found + 1 + QueueLen
      BY <1>c, <2>1, <2>4
    <3>2. size + queue + InHand \in Nat /\ c \in Nat /\ c <= Cardinality(Writers)
      BY <1>a, <1>i, <1>b DEF w
    <3>3. size + queue + InHand + c <= Limit
      BY <3>1, <3>2, Room
    <3> QED  BY <2>1, <2>2, <2>4, <3>1, <3>3
  <2>5. fallBack' = fallBack \/ (~fallBack /\ fallBack')
    BY <1>10, <1>a, <1>i DEF Transfer, Transferred
  <2> QED  BY <2>3, <2>4, <2>5
<1>11. ASSUME NEW ok \in BOOLEAN, AppendLine(ok) PROVE Goal
  <2>1. /\ UNCHANGED <<backupEnabled, holder, waiting>> /\ c2 = c
        /\ s2 <= size + 1 /\ q2 = queue /\ InHand = 1 /\ h2 = 0
        /\ step = "append" /\ step' # "append"
    <3>1. s2 \in {size, size + 1}
      BY <1>11, <1>e DEF AppendLine
    <3>2. s2 <= size + 1
      BY <1>a, <1>i, <3>1
    <3> QED
      BY <1>11, <1>e, <1>h, <3>2 DEF AppendLine, InHand
  <2>2. fallBack => fallBack'
    BY <1>11 DEF AppendLine
  <2>3. ~waiting[LoggerTask]
    BY <1>11 DEF AppendLine, LoggerPrints
  <2>4. s2 + q2 + h2 <= size + queue + InHand
    BY <1>a, <1>i, <1>e, <2>1
  <2>5. CASE ~fallBack'
    <3>1. size + queue + InHand <= found + 1 + QueueLen
      BY <1>c, <2>1, <2>2, <2>5
    <3>2. s2 + q2 + h2 <= found + 1 + QueueLen
      BY <1>a, <1>i, <1>e, <2>4, <3>1
    <3>3. holder = Nobody => size <= MaxSize
      BY <1>c, <2>1, <2>2, <2>5
    <3>4. holder = Nobody => s2 <= found
      BY <1>a, <1>i, <1>e, <2>1, <3>3
    <3> QED  BY <2>1, <2>5, <3>2, <3>4
  <2>6. CASE fallBack'
    <3>1. size + queue + InHand + c <= Limit
      <4>1. CASE fallBack  BY <4>1, <1>c, <2>1
      <4>2. CASE ~fallBack
        <5>1. size + queue + InHand <= found + 1 + QueueLen  BY <4>2, <1>c, <2>1
        <5> QED  BY <1>a, <1>i, <1>b, <5>1
      <4> QED  BY <4>1, <4>2
    <3>2. s2 + q2 + h2 + c2 <= Limit
      BY <1>a, <1>i, <1>b, <1>e, <2>1, <2>4, <3>1
    <3> QED  BY <2>1, <2>3, <2>6, <3>2
  <2> QED  BY <2>5, <2>6
<1>12. CASE UNCHANGED vars
  <2>1. /\ UNCHANGED <<backupEnabled, fallBack, holder, step, waiting>>
        /\ s2 = size /\ q2 = queue /\ h2 = InHand /\ c2 = c
    BY <1>12, <1>e, <1>g, <1>h DEF vars
  <2> QED  BY <1>c, <2>1
<1> QED
  BY <1>0, <1>1, <1>2, <1>3, <1>4, <1>5, <1>6, <1>7, <1>8, <1>9, <1>10, <1>11, <1>12,
     Steps

LEMMA WithinBounds == TypeOK /\ Growth => SizeBounded
<1> SUFFICES ASSUME TypeOK, Growth, backupEnabled PROVE size <= Limit
  BY DEF SizeBounded
<1>1. /\ queue \in Nat /\ size \in Nat /\ InHand \in Nat /\ fallBack \in BOOLEAN
      /\ Cardinality(Waiters) \in Nat /\ Cardinality(Writers) \in Nat /\ found \in Nat
  BY WaitersCounted DEF TypeOK, DataOK, FlagsOK, InHand
<1>2. Limit = found + 1 + QueueLen + Cardinality(Writers)
  BY DEF Limit
<1>3. CASE fallBack
  <2>1. size + queue + InHand + Cardinality(Waiters) <= Limit
    BY <1>3 DEF Growth, FewMore
  <2> QED  BY <1>1, <1>2, <2>1
<1>4. CASE ~fallBack
  <2>1. size + queue + InHand <= found + 1 + QueueLen
    BY <1>4 DEF Growth, NothingQueued
  <2> QED  BY <1>1, <1>2, <2>1
<1> QED
  BY <1>1, <1>3, <1>4

\* While backups are enabled the file gets only a few lines longer than the program
\* found it, or than its limit, for any number of tasks that print, of restarts, and
\* whatever becomes of the backups (processQueue, backupFileToFTPServer).
THEOREM SizeStaysBounded == Spec => []SizeBounded
<1>1. Init => IInv
  <2> SUFFICES ASSUME Init PROVE LoggerPrints /\ SentFirst /\ Growth
    BY InitTypes DEF IInv
  <2>1. LoggerPrints /\ SentFirst
    BY DEF Init, LoggerPrints, SentFirst, Tasks
  <2>2. InHand = 0 /\ size = 0 /\ queue = 0 /\ found = MaxSize + 1 /\ step = "receive"
    BY DEF Init, InHand
  <2>3. Waiters = {} /\ ~waiting[LoggerTask]
    BY DEF Init, Waiters, Tasks
  <2>4. Cardinality(Waiters) = 0 /\ Cardinality(Writers) \in Nat
    BY <2>3, WaitersCounted, FS_EmptySet
  <2>5. size + queue + InHand + Cardinality(Waiters) <= Limit
    BY <2>2, <2>4 DEF Limit
  <2>6. WithinLimit /\ NothingQueued
    BY <2>2 DEF WithinLimit, NothingQueued
  <2> QED  BY <2>1, <2>3, <2>5, <2>6 DEF Growth, FewMore
<1>2. IInv /\ [Next]_vars => IInv'
  BY FlagsKept, DataKept, PrintsKept, SentKept, GrowthKept DEF IInv, TypeOK
<1>3. IInv => SizeBounded
  BY WithinBounds DEF IInv
<1> QED
  BY <1>1, <1>2, <1>3, PTL DEF Spec
=============================================================================
