---------------------- MODULE LockStatePolling_proofs ----------------------
(***************************************************************************)
(* Proofs about LockStatePolling: the types, the longest time a change of  *)
(* the lock stays unread, and what is shown while every report arrives.    *)
(***************************************************************************)
EXTENDS LockStatePolling, TLAPS

USE PollingAssumption DEF PollingAssumption

USE DEF lockVars, stateVars, signalVars, pollVars, queryVars, harVars

-----------------------------------------------------------------------------
\* Every delay is a number of ticks.
LEMMA DelayTyped ==
  ASSUME NEW n \in Failures PROVE Delay(n) \in Nat
BY DEF Delay

LEMMA CountTyped ==
  ASSUME NEW n \in Failures PROVE OneMore(n) \in Failures
BY DEF OneMore

\* A wait is at least a tick, at least the time to the next poll after a failure,
\* and the interval as long as no poll has failed.
LEMMA WaitBounds ==
  ASSUME retryLockstateCount \in Failures
  PROVE  /\ Wait \in Nat /\ Wait >= 1
         /\ retryLockstateCount = 0 => Wait = Interval
         /\ retryLockstateCount # 0 => Wait >= Delay(retryLockstateCount)
BY DelayTyped DEF Wait, Most

\* Every step keeps the flags Boolean.
LEMMA FlagsKept ==
  ASSUME FlagsOK, [Next]_vars
  PROVE  FlagsOK'
<1> USE DEF FlagsOK
<1>1. CASE TurnWithoutAction
  BY <1>1 DEF TurnWithoutAction, StartTurn
<1>2. CASE TurnWithAction
  BY <1>2 DEF TurnWithAction, StartTurn
<1>3. CASE ReadLock
  BY <1>3 DEF ReadLock
<1>4. CASE FinishPoll
  BY <1>4 DEF FinishPoll, Report
<1>5. CASE PollFails
  BY <1>5 DEF PollFails, Report
<1>6. CASE FinishTurn
  BY <1>6 DEF FinishTurn
<1>7. CASE Beacon
  BY <1>7 DEF Beacon
<1>8. CASE World
  BY <1>8 DEF World, LockMoves, ReachChanges, HarChanges, Query
<1>9. CASE Tick
  BY <1>9 DEF Tick
<1>10. CASE UNCHANGED vars
  BY <1>10 DEF vars
<1> QED
  BY <1>1, <1>2, <1>3, <1>4, <1>5, <1>6, <1>7, <1>8, <1>9, <1>10 DEF Next, NukiNext

\* Every step keeps the other variables in their sets.
LEMMA DataKept ==
  ASSUME DataOK, [Next]_vars
  PROVE  DataOK'
<1> USE DEF DataOK
<1>1. CASE TurnWithoutAction
  BY <1>1 DEF TurnWithoutAction, StartTurn
<1>2. CASE TurnWithAction
  BY <1>2 DEF TurnWithAction, StartTurn
<1>3. CASE ReadLock
  BY <1>3 DEF ReadLock, Known
<1>4. ASSUME NEW now \in Known, NEW last \in Known, Report(now, last)
      PROVE  shown' \in Shown
  BY <1>4 DEF Report, Shown
<1>5. CASE FinishPoll
  <2>1. shown' \in Shown /\ har' = har
    BY <1>4, <1>5 DEF FinishPoll, Report
  <2> QED
    BY <1>5, <2>1 DEF FinishPoll, Least
<1>6. CASE PollFails
  <2>1. shown' \in Shown /\ har' = har
    BY <1>4, <1>6 DEF PollFails, Report
  <2>2. retryLockstateCount' \in Failures /\ nextPoll' \in Nat
    BY <1>6, CountTyped, DelayTyped DEF PollFails
  <2> QED
    BY <1>6, <2>1, <2>2 DEF PollFails
<1>7. CASE FinishTurn
  BY <1>7 DEF FinishTurn
<1>8. CASE Beacon
  BY <1>8 DEF Beacon
<1>9. CASE World
  BY <1>9 DEF World, LockMoves, ReachChanges, HarChanges, Query
<1>10. CASE Tick
  BY <1>10, WaitBounds DEF Tick, Less, Least
<1>11. CASE UNCHANGED vars
  BY <1>11 DEF vars
<1> QED
  BY <1>1, <1>2, <1>3, <1>5, <1>6, <1>7, <1>8, <1>9, <1>10, <1>11 DEF Next, NukiNext

\* TypeOK: the variables of update(), notify() and sendKeyTurnerState keep to
\* their types.
THEOREM TypeCorrect == Spec => []TypeOK
<1>1. Init => TypeOK
  <2>1. Unknown \in Known /\ Unknown \in Shown
    BY DEF Known, Shown, Unknown
  <2>2. Init => FlagsOK
    BY DEF Init, FlagsOK
  <2>3. Init => DataOK
    BY <2>1 DEF Init, DataOK
  <2> QED
    BY <2>2, <2>3 DEF TypeOK
<1>2. TypeOK /\ [Next]_vars => TypeOK'
  BY FlagsKept, DataKept DEF TypeOK
<1> QED
  BY <1>1, <1>2, PTL DEF Spec

-----------------------------------------------------------------------------
\* What keeps a change from staying unread: the time it has been unread and the
\* time to the next poll never add up to more than the wait that was set last, except
\* for the tick in which the poll falls due.  Between the exchange and its result
\* that wait is the interval.
Pending == IF pc = "finish" THEN Interval ELSE Wait

Budget ==
  /\ pc \in {"top", "finish", "others"} =>
       \/ unseen + nextPoll =< Pending
       \/ pc = "top" /\ ~turned /\ nextPoll = 0 /\ unseen =< Wait + 1
  /\ pc = "exchange" => unseen =< (IF turned THEN Wait ELSE Wait + 1)
  /\ pc = "exchange" =>
       nextPoll =< Interval /\ (turned => nextPoll = Interval)
  /\ pc = "finish" =>
       unseen =< 1 /\ (turned => unseen = 0 /\ nextPoll >= 1)
  /\ pc = "others" /\ turned /\ nextPoll = 0 => unseen < Wait

\* Steps that leave the number of failures alone leave the wait alone.
LEMMA WaitKept ==
  ASSUME UNCHANGED retryLockstateCount PROVE Wait' = Wait
BY DEF Wait, Delay

LEMMA BudgetKept ==
  ASSUME TypeOK, TypeOK', Budget, [Next]_vars
  PROVE  Budget'
<1>0. /\ Wait \in Nat /\ Wait >= 1
      /\ Wait' \in Nat /\ Wait' >= 1
      /\ retryLockstateCount' = 0 => Wait' = Interval
      /\ retryLockstateCount' # 0 => Wait' >= Delay(retryLockstateCount')
  <2>1. retryLockstateCount \in Failures /\ retryLockstateCount' \in Failures
    BY DEF TypeOK, DataOK
  <2>2. Delay(retryLockstateCount') \in Nat
    BY <2>1, DelayTyped
  <2>3. Wait' = Most(1, IF retryLockstateCount' = 0 THEN Interval
                        ELSE Delay(retryLockstateCount'))
    BY DEF Wait, Delay, Most
  <2>4. /\ Wait' \in Nat /\ Wait' >= 1
        /\ retryLockstateCount' = 0 => Wait' = Interval
        /\ retryLockstateCount' # 0 => Wait' >= Delay(retryLockstateCount')
    BY <2>2, <2>3 DEF Most
  <2> QED
    BY <2>1, <2>4, WaitBounds
<1> USE <1>0 DEF TypeOK, FlagsOK, DataOK, Budget, Pending
<1>1. CASE TurnWithoutAction
  <2>1. Wait' = Wait
    BY <1>1, WaitKept DEF TurnWithoutAction, StartTurn
  <2> QED
    <3>1. CASE pc' = "exchange"
      BY <1>1, <2>1, <3>1 DEF TurnWithoutAction, StartTurn
    <3>2. CASE pc' = "others"
      BY <1>1, <2>1, <3>2 DEF TurnWithoutAction, StartTurn, PollDue
    <3> QED
      BY <1>1, <3>1, <3>2 DEF TurnWithoutAction, StartTurn
<1>2. CASE TurnWithAction
  <2>1. Wait' = Wait
    BY <1>2, WaitKept DEF TurnWithAction, StartTurn
  <2> QED
    BY <1>2, <2>1 DEF TurnWithAction, StartTurn, PollDue
<1>3. CASE ReadLock
  BY <1>3, WaitKept DEF ReadLock
<1>4. CASE FinishPoll
  BY <1>4 DEF FinishPoll, Least
<1>5. CASE PollFails
  <2>1. retryLockstateCount' # 0
    BY <1>5 DEF PollFails, OneMore
  <2>2. nextPoll' =< Wait'
    BY <1>5, <2>1 DEF PollFails
  <2> QED
    BY <1>5, <2>2 DEF PollFails
<1>6. CASE FinishTurn
  BY <1>6, WaitKept DEF FinishTurn
<1>7. CASE Beacon
  BY <1>7, WaitKept DEF Beacon
<1>8. CASE World
  BY <1>8, WaitKept DEF World, LockMoves, ReachChanges, HarChanges, Query
<1>9. CASE Tick
  BY <1>9, WaitKept DEF Tick, Less, Least
<1>10. CASE UNCHANGED vars
  BY <1>10, WaitKept DEF vars
<1> QED
  BY <1>1, <1>2, <1>3, <1>4, <1>5, <1>6, <1>7, <1>8, <1>9, <1>10 DEF Next, NukiNext

\* ChangeReadInTime: no change of the lock stays unread for longer than the wait that
\* was set last and the tick in which the poll is made, for any number of failures.
THEOREM ChangesReadInTime == Spec => []ChangeReadInTime
<1>1. Init => Budget
  <2> SUFFICES ASSUME Init PROVE Budget
    OBVIOUS
  <2>1. Wait \in Nat /\ Wait >= 1
    BY WaitBounds DEF Init
  <2> QED
    BY <2>1 DEF Init, Budget, Pending
<1>2. TypeOK /\ TypeOK' /\ Budget /\ [Next]_vars => Budget'
  BY BudgetKept
<1>3. TypeOK /\ Budget => ChangeReadInTime
  <2> SUFFICES ASSUME TypeOK, Budget PROVE ChangeReadInTime
    OBVIOUS
  <2>1. Wait \in Nat /\ Wait >= 1
    BY WaitBounds DEF TypeOK, DataOK
  <2> QED
    BY <2>1 DEF TypeOK, DataOK, Budget, Pending, ChangeReadInTime
<1> QED
  BY TypeCorrect, <1>1, <1>2, <1>3, PTL DEF Spec

-----------------------------------------------------------------------------
\* While every report arrives: the state for the comparison is the one before the
\* poll, and the home automation system shows it until the result is reported.
Reported ==
  /\ pc \in {"top", "exchange"} => lastKeyTurnerState = keyTurnerState
  /\ ~firstTurnerStateSent =>
       LET l == IF pc = "finish" THEN lastKeyTurnerState ELSE keyTurnerState
       IN  shown.state = l.state /\ shown.door = l.door

LEMMA ReportedKept ==
  ASSUME TypeOK, Reported, har = "ok", [Next]_vars
  PROVE  Reported'
<1> USE DEF Reported
<1>0. firstTurnerStateSent \in BOOLEAN
  BY DEF TypeOK, FlagsOK
<1>1. CASE TurnWithoutAction \/ TurnWithAction
  BY <1>1 DEF TurnWithoutAction, TurnWithAction, StartTurn
<1>2. CASE ReadLock
  BY <1>2 DEF ReadLock
<1>3. CASE FinishPoll
  <2>1. /\ pc = "finish" /\ pc' = "others" /\ keyTurnerState' = keyTurnerState
        /\ shown'.state = keyTurnerState.state
        /\ shown'.door = IF firstTurnerStateSent \/ keyTurnerState.door # lastKeyTurnerState.door
                         THEN keyTurnerState.door ELSE shown.door
    BY <1>3 DEF FinishPoll, Report
  <2> QED
    BY <2>1
<1>4. CASE PollFails
  <2>1. /\ pc = "exchange" /\ pc' = "others" /\ keyTurnerState' = keyTurnerState
        /\ shown'.state = keyTurnerState.state
        /\ shown'.door = IF firstTurnerStateSent \/ keyTurnerState.door # lastKeyTurnerState.door
                         THEN keyTurnerState.door ELSE shown.door
    BY <1>4 DEF PollFails, Report
  <2> QED
    BY <2>1
<1>5. CASE FinishTurn
  BY <1>5 DEF FinishTurn
<1>6. CASE Beacon
  BY <1>6 DEF Beacon
<1>7. CASE World
  BY <1>7 DEF World, LockMoves, ReachChanges, HarChanges, Query
<1>8. CASE Tick
  BY <1>8 DEF Tick
<1>9. CASE UNCHANGED vars
  BY <1>9 DEF vars
<1> QED
  BY <1>1, <1>2, <1>3, <1>4, <1>5, <1>6, <1>7, <1>8, <1>9 DEF Next, NukiNext

\* ShownIsRead: as long as the home automation system answers, it shows what was
\* read last (sendKeyTurnerState, update).
THEOREM ReportsComplete == Spec => ShownIsRead
<1>1. Init => Reported
  BY DEF Init, Reported
<1>2. TypeOK /\ Reported /\ har = "ok" /\ [Next]_vars => Reported'
  BY ReportedKept
<1>3. Reported => (pc # "finish" /\ ~firstTurnerStateSent =>
         shown.state = keyTurnerState.state /\ shown.door = keyTurnerState.door)
  BY DEF Reported
<1> QED
  BY TypeCorrect, <1>1, <1>2, <1>3, PTL DEF Spec, ShownIsRead
=============================================================================
