-------------------------- MODULE LockStatePolling --------------------------
(***************************************************************************)
(* How the bridge follows the state of the lock.                           *)
(*                                                                         *)
(* nukiTask runs NukiWrapper::update in a loop.  It asks the lock for its  *)
(* state when a timer is due, a REST request wants it, an action has been  *)
(* carried out or the lock has announced a change in a beacon; the BLE     *)
(* task hears the beacons and calls NukiWrapper::notify at any time, also  *)
(* while an exchange is going on.  What was read is reported to the home   *)
(* automation system (HarClient::sendKeyTurnerState).                      *)
(*                                                                         *)
(* A time stamp is the number of ticks until it is reached.  A tick is     *)
(* longer than a turn of update(), so that a turn begins and ends between  *)
(* two of them; that update() goes on using the time it read at the start  *)
(* of a turn makes a difference of less than a tick.                       *)
(***************************************************************************)
EXTENDS Naturals, FiniteSets

CONSTANTS LockStatus,   \* what the lock can be in: [state, door], where door
                        \* stands for all that is reported on change only
          Terminal,     \* lock states that need no rapid polling
          Interval,     \* _intervalLockstate, in ticks
          Rapid,        \* ticks of rapid polling (10 s)
          Undefined,    \* ticks to the next poll in state "Undefined" (60 s)
          RetryDelay,   \* _retryDelay, in ticks
          NrOfRetries,  \* failed polls that are repeated after _retryDelay
          Failures,     \* the failed polls that are counted, Nat in the code; an
                        \* instance for TLC bounds the numbers
          Backoff,      \* ticks to the poll after so many failures (333 ms for each)
          SignalCap,    \* the 5 of notify()
          Requests      \* the query requests that are sent

ASSUME PollingAssumption ==
  /\ \A l \in LockStatus : DOMAIN l = {"state", "door"}
  /\ Interval \in Nat \ {0} /\ Rapid \in Nat \ {0} /\ Undefined \in Nat
  /\ RetryDelay \in Nat /\ NrOfRetries \in Nat /\ SignalCap \in Nat \ {0}
  /\ Failures \subseteq Nat /\ 0..(NrOfRetries + 1) \subseteq Failures
  /\ Backoff \in [Failures -> Nat]
  /\ Requests \subseteq {"lockstate", "battery"}

VARIABLES
  \* the lock: what it is in, and whether its beacons announce a change
  lock, announces,
  reachable,            \* an exchange over BLE works
  \* NukiWrapper
  pc,                   \* where nukiTask is in update()
  keyTurnerState, lastKeyTurnerState,
  statusUpdated, newSignal,
  nextPoll,             \* _nextLockStateUpdateTs
  rapidFor,             \* _statusUpdatedTs + 10 s
  retryLockstateCount,
  queries,              \* the local copy of the query bits, as far as it is still
                        \* to be looked at
  \* RestApiServer and HarClient
  queryCommands,
  har,                  \* "ok", "dead" (the server is gone), "off" (!_isOk)
  firstTurnerStateSent,
  shown,                \* what the home automation system shows
  \* history
  turned,               \* update() has returned since the last tick
  unseen                \* ticks for which the lock has differed from
                        \* keyTurnerState without a failed exchange

lockVars == <<lock, announces, reachable>>
stateVars == <<keyTurnerState, lastKeyTurnerState>>
signalVars == <<statusUpdated, newSignal, rapidFor>>
pollVars == <<nextPoll, retryLockstateCount>>
queryVars == <<queries, queryCommands>>
harVars == <<har, firstTurnerStateSent, shown>>
vars == <<pc, lockVars, stateVars, signalVars, pollVars, queryVars, harVars, turned,
          unseen>>

Unknown == [state |-> "Uninitialized", door |-> "Unavailable"]
Known == LockStatus \cup {Unknown}
Shown == [state : {l.state : l \in Known}, door : {l.door : l \in Known}]

Least(a, b) == IF a < b THEN a ELSE b
Most(a, b) == IF a < b THEN b ELSE a
Less(a) == IF a = 0 THEN 0 ELSE a - 1

-----------------------------------------------------------------------------
(***************************************************************************)
(* nukiTask: NukiWrapper::update                                           *)
(***************************************************************************)

\* Mutant of PollDue: there is no timer.
PollDueOnSignal(asked) == statusUpdated' \/ asked

\* Whether this turn polls, after an action and the query bits have been seen.
PollDue(asked) == statusUpdated' \/ nextPoll = 0 \/ asked

\* A turn begins: the query bits are taken over, an action in the queue is tried
\* (LockCommandPath), and the next poll set as soon as this one is due.
StartTurn ==
  /\ pc = "top"
  /\ queries' = queryCommands \ {"lockstate"} /\ queryCommands' = {}
  /\ IF PollDue("lockstate" \in queryCommands)
     THEN pc' = "exchange" /\ nextPoll' = Interval
     ELSE pc' = "others" /\ UNCHANGED nextPoll
  /\ UNCHANGED <<reachable, stateVars, newSignal, retryLockstateCount, harVars,
                 turned, unseen>>

\* No action, or the lock has not carried it out.
TurnWithoutAction == /\ UNCHANGED <<lock, announces, statusUpdated, rapidFor>>
                     /\ StartTurn

\* The lock has carried out an action and is in some state of it.  The poll ten
\* seconds later that the code asks for first is overruled by the one at once.
TurnWithAction == /\ reachable
                  /\ lock' \in LockStatus /\ lock'.door = lock.door
                  /\ announces' = TRUE
                  /\ statusUpdated' = TRUE /\ rapidFor' = Rapid
                  /\ StartTurn

\* Mutant of Report: the last state has been overwritten before it is compared.
ReportLate(now, last) ==
  /\ firstTurnerStateSent' = (firstTurnerStateSent /\ har = "off")
  /\ shown' = IF har # "ok" THEN shown
              ELSE [state |-> now.state,
                    door |-> IF firstTurnerStateSent THEN now.door ELSE shown.door]
  /\ UNCHANGED har

\* Mutant of Report: the lock state is sent on change only, too.
ReportOnChange(now, last) ==
  /\ firstTurnerStateSent' = (firstTurnerStateSent /\ har = "off")
  /\ shown' = IF har # "ok" THEN shown
              ELSE [state |-> IF firstTurnerStateSent \/ now.state # last.state
                              THEN now.state ELSE shown.state,
                    door |-> IF firstTurnerStateSent \/ now.door # last.door
                             THEN now.door ELSE shown.door]
  /\ UNCHANGED har

\* HarClient::sendKeyTurnerState: the lock state each time, the door state and
\* the like only when they have changed.
Report(now, last) ==
  /\ firstTurnerStateSent' = (firstTurnerStateSent /\ har = "off")
  /\ shown' = IF har # "ok" THEN shown
              ELSE [state |-> now.state,
                    door |-> IF firstTurnerStateSent \/ now.door # last.door
                             THEN now.door ELSE shown.door]
  /\ UNCHANGED har

\* requestKeyTurnerState succeeds; the lock stops announcing what has been read.
ReadLock == /\ pc = "exchange" /\ pc' = "finish"
            /\ reachable
            /\ keyTurnerState' = lock /\ announces' = FALSE /\ unseen' = 0
            /\ UNCHANGED <<lock, reachable, lastKeyTurnerState, signalVars, pollVars,
                           queryVars, harVars, turned>>

\* The result is stored, whatever notify() has stored since.
FinishPoll ==
  /\ pc = "finish" /\ pc' = "others"
  /\ retryLockstateCount' = 0
  /\ LET now == keyTurnerState.state
         rapid == IF now # lastKeyTurnerState.state THEN Rapid ELSE rapidFor
     IN  /\ rapidFor' = rapid
         /\ statusUpdated' = (now \notin Terminal /\ rapid > 0)
         /\ nextPoll' = IF now = "Undefined" /\ rapid = 0
                        THEN Least(nextPoll, Undefined) ELSE nextPoll
  /\ Report(keyTurnerState, lastKeyTurnerState)
  /\ UNCHANGED <<lockVars, stateVars, newSignal, queryVars, turned, unseen>>

\* The wait after so many failed polls in a row.
Delay(failures) == IF failures =< NrOfRetries THEN RetryDelay ELSE Backoff[failures]

OneMore(failures) == IF failures + 1 \in Failures THEN failures + 1 ELSE failures

\* All tries of the exchange have failed.
PollFails ==
  /\ pc = "exchange" /\ pc' = "others"
  /\ ~reachable
  /\ retryLockstateCount' = OneMore(retryLockstateCount)
  /\ nextPoll' = Delay(retryLockstateCount')
  /\ statusUpdated' = FALSE
  /\ Report(keyTurnerState, lastKeyTurnerState)
  /\ unseen' = 0
  /\ UNCHANGED <<lockVars, stateVars, newSignal, rapidFor, queryVars, turned>>

\* The rest of update().  While no rapid polling is going on, and the services
\* are up (taken for granted here), timers and the query bits ask for the battery
\* state, the configuration and the keypad.  The state is kept for the next turn.
AsksTheRest == pc = "others" /\ pc' = "top" /\ ~statusUpdated

FinishTurn ==
  /\ pc = "others" /\ pc' = "top"
  /\ lastKeyTurnerState' = keyTurnerState
  /\ turned' = TRUE
  /\ UNCHANGED <<lockVars, keyTurnerState, signalVars, pollVars, queryVars, harVars,
                 unseen>>

-----------------------------------------------------------------------------
(***************************************************************************)
(* The BLE task: NukiWrapper::notify, called for each beacon heard         *)
(***************************************************************************)

\* Mutant of Beacon: signals are not limited.
BeaconUnlimited ==
  /\ IF announces
     THEN /\ statusUpdated' = TRUE /\ newSignal' = newSignal
          /\ rapidFor' = IF statusUpdated THEN rapidFor ELSE Rapid
     ELSE newSignal' = 0 /\ UNCHANGED <<statusUpdated, rapidFor>>
  /\ UNCHANGED <<pc, lockVars, stateVars, pollVars, queryVars, harVars,
                 turned, unseen>>

\* Mutant of Beacon: one signal more is taken.
BeaconOneMore ==
  /\ IF announces
     THEN IF ~statusUpdated /\ newSignal =< SignalCap
          THEN statusUpdated' = TRUE /\ newSignal' = newSignal + 1 /\ rapidFor' = Rapid
          ELSE UNCHANGED signalVars
     ELSE newSignal' = 0 /\ UNCHANGED <<statusUpdated, rapidFor>>
  /\ UNCHANGED <<pc, lockVars, stateVars, pollVars, queryVars, harVars,
                 turned, unseen>>

Beacon ==
  /\ IF announces
     THEN IF ~statusUpdated /\ newSignal < SignalCap
          THEN statusUpdated' = TRUE /\ newSignal' = newSignal + 1 /\ rapidFor' = Rapid
          ELSE UNCHANGED signalVars
     ELSE newSignal' = 0 /\ UNCHANGED <<statusUpdated, rapidFor>>
  /\ UNCHANGED <<pc, lockVars, stateVars, pollVars, queryVars, harVars,
                 turned, unseen>>

-----------------------------------------------------------------------------
(***************************************************************************)
(* networkTask and the world                                               *)
(***************************************************************************)

\* lock/query/lockstate and lock/query/battery.
Query(q) == /\ queryCommands' = queryCommands \cup {q}
            /\ UNCHANGED <<pc, lockVars, stateVars, signalVars, pollVars, queries,
                           harVars, turned, unseen>>

\* Somebody turns the key or moves the door.
LockMoves == /\ lock' \in LockStatus /\ lock' # lock
             /\ announces' = TRUE
             /\ UNCHANGED <<pc, reachable, stateVars, signalVars, pollVars, queryVars,
                            harVars, turned, unseen>>

ReachChanges == /\ reachable' = ~reachable
                /\ UNCHANGED <<pc, lock, announces, stateVars, signalVars, pollVars,
                               queryVars, harVars, turned, unseen>>

\* The health check and its restarts (NetworkServices), and the server itself.
HarChanges == /\ har' \in {"ok", "dead", "off"} \ {har}
              /\ UNCHANGED <<pc, lockVars, stateVars, signalVars, pollVars, queryVars,
                             firstTurnerStateSent, shown,
                             turned, unseen>>

\* The time for which the next poll is put off; after a failure, however long that
\* is.  Less than a tick counts as one.
Wait == Most(1, IF retryLockstateCount = 0 THEN Interval ELSE Delay(retryLockstateCount))

Tick == /\ turned
        /\ turned' = FALSE
        /\ nextPoll' = Less(nextPoll) /\ rapidFor' = Less(rapidFor)
        /\ unseen' = IF lock = keyTurnerState THEN 0 ELSE Least(unseen + 1, Wait + 2)
        /\ UNCHANGED <<pc, lockVars, stateVars, statusUpdated, newSignal,
                       retryLockstateCount, queryVars, harVars>>

-----------------------------------------------------------------------------
Init ==
  /\ lock \in LockStatus /\ announces \in BOOLEAN /\ reachable \in BOOLEAN
  /\ pc = "top" /\ keyTurnerState = Unknown /\ lastKeyTurnerState = Unknown
  /\ statusUpdated = FALSE /\ newSignal = 0 /\ rapidFor = 0
  /\ nextPoll = 0 /\ retryLockstateCount = 0
  /\ queries = {} /\ queryCommands = {}
  /\ har \in {"ok", "dead", "off"}
  /\ firstTurnerStateSent = TRUE /\ shown = Unknown
  /\ turned = FALSE /\ unseen = 0

NukiNext == TurnWithoutAction \/ TurnWithAction \/ ReadLock \/ FinishPoll
            \/ PollFails \/ FinishTurn

World == \/ LockMoves \/ ReachChanges \/ HarChanges
         \/ \E q \in Requests : Query(q)

Next == NukiNext \/ Beacon \/ World \/ Tick

Spec == Init /\ [][Next]_vars

\* nukiTask is an endless loop whose exchanges time out, and time passes.
FairSpec == Spec /\ WF_vars(NukiNext) /\ WF_vars(Tick)

-----------------------------------------------------------------------------
FlagsOK == /\ announces \in BOOLEAN /\ reachable \in BOOLEAN
           /\ statusUpdated \in BOOLEAN /\ firstTurnerStateSent \in BOOLEAN
           /\ turned \in BOOLEAN

DataOK == /\ pc \in {"top", "exchange", "finish", "others"}
          /\ lock \in LockStatus
          /\ keyTurnerState \in Known /\ lastKeyTurnerState \in Known /\ shown \in Shown
          /\ newSignal \in 0..SignalCap /\ nextPoll \in Nat /\ rapidFor \in 0..Rapid
          /\ retryLockstateCount \in Failures
          /\ queries \subseteq Requests /\ queryCommands \subseteq Requests
          /\ har \in {"ok", "dead", "off"} /\ unseen \in Nat

TypeOK == FlagsOK /\ DataOK

-----------------------------------------------------------------------------
(***************************************************************************)
(* Properties                                                              *)
(***************************************************************************)

\* Whatever becomes of the beacons and the signals made of them, no change of the lock
\* stays unread for longer than the interval; after failed polls for no longer than
\* the delay of the last failure, although signals, actions and queries poll in
\* between and set the timer anew (NukiWrapper::update, updateKeyTurnerState).  That
\* delay has no bound, so that after many failures it passes the interval.
ChangeReadInTime == unseen =< Wait + 1

\* Once the lock stays as it is and can be reached and the home automation
\* system answers, its lock state becomes right and stays right, although
\* reports were lost before (HarClient::sendKeyTurnerState).
Disturbed == LockMoves \/ TurnWithAction

Calm == <>[][~Disturbed]_vars

StateCatchesUp ==
  Calm /\ <>[](reachable /\ har = "ok") => <>[](shown.state = lock.state)

\* While the home automation system answers, it shows what was read last, also the
\* values that are sent on change only: between two polls no state is lost for the
\* comparison, whatever failed and whatever notify() did (sendKeyTurnerState,
\* memcpy of the last state in update).
ShownIsRead ==
  [](har = "ok") =>
    [](pc # "finish" /\ ~firstTurnerStateSent =>
         shown.state = keyTurnerState.state /\ shown.door = keyTurnerState.door)

\* Rapid polling ends: battery, configuration and keypad are not put off for
\* ever by a lock that has come to rest in some state, nor by one that goes on
\* announcing a change but cannot be asked (notify, updateKeyTurnerState).
OthersServed == Calm => []<><<AsksTheRest>>_vars
=============================================================================
