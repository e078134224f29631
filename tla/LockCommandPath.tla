-------------------------- MODULE LockCommandPath --------------------------
(***************************************************************************)
(* The way of a lock command from an HTTP request to the BLE link.         *)
(*                                                                         *)
(* networkTask (core 1) answers at most one REST request per loop: a lock  *)
(* action goes into a FreeRTOS queue of depth 1, a query sets a bit of the *)
(* byte _queryCommands, a lock reboot sets a flag that the same loop then  *)
(* copies into the global rebootLock.  nukiTask (core 0) runs              *)
(* NukiWrapper::update(rebootLock) in its own loop, which takes the bits   *)
(* and the action and talks to the lock.  Only the queue is a              *)
(* synchronised object; the byte and the two flags are plain variables, so *)
(* their reads and writes are steps of their own here.                     *)
(*                                                                         *)
(* The lock is paired over BLE by the first update() that succeeds; the    *)
(* lock itself (the NukiBleEsp32 library) is external: every exchange may  *)
(* succeed or fail.                                                        *)
(***************************************************************************)
EXTENDS Naturals, Sequences

CONSTANTS Action,        \* lock actions known to lockActionToEnum
          NoAction,      \* kNoLockAction: nothing pending / unknown string
          Query,         \* the QUERY_COMMAND_* bits in use
          NrOfRetries,   \* _nrOfRetries of the NukiRetryHandler
          MaxReboots,    \* bound: lock reboots asked for over REST
          MaxRestarts    \* bound: restarts of the BLE services

\* The query bit that is not subject to the state of the network services.
LockState == "lockstate"

ASSUME PathAssumption ==
  /\ NoAction \notin Action
  /\ LockState \in Query
  /\ Query \subseteq {LockState, "battery", "config", "keypad"}
  /\ NrOfRetries \in Nat
  /\ MaxReboots \in Nat
  /\ MaxRestarts \in Nat

VARIABLES
  \* networkTask
  netPc,             \* where networkTask is in its loop
  request,           \* the query being stored, and the byte loaded for it
  rebootLockPending, \* RestApiServer::_rebootLockPending
  apiOk,             \* RestApiServer::_isOk
  retestPending,     \* NukiNetwork::_serviceRetestPending
  answer,            \* the last answer to a lock action
  \* shared between the tasks
  queryCommands,     \* RestApiServer::_queryCommands, as a set of bits
  rebootLock,        \* the global rebootLock of main.cpp
  netwGateOpen,      \* the global netwGateOpen of main.cpp
  services,          \* NukiNetwork::_networkServicesState
  lockActionQueue,   \* NukiWrapper::_lockActionQueue: its item or NoAction
  \* nukiTask
  nukiPc,            \* where nukiTask is in its loop
  reboot,            \* the parameter of update()
  qc,                \* the local queryCommands of update()
  pendingAction,     \* the local pendingAction of update()
  tries,             \* failed tries of pendingAction in retryComm
  result,            \* the result of the last lockAction exchange
  sent,              \* commands sent to the lock by the current update()
  paired,            \* NukiWrapper::_paired
  statusUpdated,     \* NukiWrapper::_statusUpdated
  restartDue,        \* NukiWrapper::_bleControllerRestartReason # None
  \* history
  rebootsAccepted,   \* lock reboots answered with 200
  rebootsSent,       \* requestReboot commands sent to the lock
  restarts           \* restarts of the BLE services

netVars  == <<netPc, request, rebootLockPending, apiOk, retestPending, answer,
              rebootsAccepted>>
nukiVars == <<nukiPc, reboot, qc, pendingAction, tries, result, sent, paired,
              rebootsSent>>
bleVars == <<restartDue, restarts>>
sharedVars == <<queryCommands, rebootLock, netwGateOpen, services,
                lockActionQueue, statusUpdated>>
vars == <<bleVars, netVars, nukiVars, sharedVars>>

ServiceStates == {"OK", "ERROR_REST_API_SERVER", "ERROR_HAR_CLIENT",
                  "ERROR_BOTH"}
\* testNetworkServices(): what its result says of RestApiServer::_isOk.
RestOk(s) == s \in {"OK", "ERROR_HAR_CLIENT"}

NoRequest == [bit |-> "none", loaded |-> {}]

-----------------------------------------------------------------------------
(***************************************************************************)
(* networkTask: RestApiServer::onRequestReceived.                          *)
(***************************************************************************)

\* onRequestReceived gets past its guards: the API is not in error state.
\* API disabled, lock disabled and failed authentication end as NetNoRequest.
Serving == netPc = "handle" /\ apiOk

NetNoRequest == /\ netPc = "handle"
                /\ netPc' = "health"
                /\ UNCHANGED <<request, rebootLockPending, apiOk, retestPending, answer,
                               rebootsAccepted, nukiVars, sharedVars, bleVars>>

\* lock/action: NukiWrapper::onLockActionReceived, then the HTTP answer.  The
\* access level is read at that moment and may deny any action: the web
\* configurator changes it at any time.
NetLockAction(a) ==
  /\ Serving
  /\ \/ /\ a = NoAction
        /\ answer' = "refused"                        \* 404 unknown_action
        /\ UNCHANGED lockActionQueue
     \/ /\ a \in Action
        /\ answer' = "refused"                        \* 403 denied
        /\ UNCHANGED lockActionQueue
     \/ /\ a \in Action /\ lockActionQueue # NoAction
        /\ answer' = "busy"                           \* 429 device_busy
        /\ UNCHANGED lockActionQueue
     \/ /\ a \in Action /\ lockActionQueue = NoAction
        /\ lockActionQueue' = a
        /\ answer' = "success"
  /\ netPc' = "health"
  /\ UNCHANGED <<request, rebootLockPending, apiOk, retestPending, rebootsAccepted, nukiVars,
                 queryCommands, rebootLock, netwGateOpen, services,
                 statusUpdated, bleVars>>

\* lock/reboot
NetLockReboot ==
  /\ Serving
  /\ rebootsAccepted < MaxReboots
  /\ rebootLockPending' = TRUE
  /\ rebootsAccepted' = rebootsAccepted + 1
  /\ netPc' = "health"
  /\ UNCHANGED <<request, apiOk, retestPending, answer, nukiVars, sharedVars, bleVars>>

\* lock/query/*: "_queryCommands |= bit" is a load ...
NetQueryLoad(q) ==
  /\ Serving
  /\ request' = [bit |-> q, loaded |-> queryCommands]
  /\ netPc' = "store"
  /\ UNCHANGED <<rebootLockPending, apiOk, retestPending, answer, rebootsAccepted, nukiVars,
                 sharedVars, bleVars>>

\* ... and a store; between them nukiTask may take and clear the byte.
NetQueryStore ==
  /\ netPc = "store"
  /\ queryCommands' = request.loaded \cup {request.bit}
  /\ request' = NoRequest
  /\ netPc' = "health"
  /\ UNCHANGED <<rebootLockPending, apiOk, retestPending, answer, rebootsAccepted, nukiVars,
                 rebootLock, netwGateOpen, services, lockActionQueue,
                 statusUpdated, bleVars>>

-----------------------------------------------------------------------------
(***************************************************************************)
(* networkTask: the rest of NukiNetwork::update and of the task's loop.    *)
(***************************************************************************)

\* No health check is due, or the bridge is not connected.
NetNoCheck == /\ netPc = "health"
              /\ netPc' = "gate"
              /\ UNCHANGED <<request, rebootLockPending, apiOk, retestPending, answer,
                             rebootsAccepted, nukiVars, sharedVars, bleVars>>

\* The regular check: testNetworkServices(), and on any failure at once
\* restartNetworkServices(), whose RestApiServer::restart sets _isOk again.
NetHealthCheck(s) ==
  /\ netPc = "health"
  /\ ~retestPending
  /\ services' = s
  /\ apiOk' = TRUE
  /\ retestPending' = (s # "OK")
  /\ netPc' = "gate"
  /\ UNCHANGED <<request, rebootLockPending, answer, rebootsAccepted, nukiVars,
                 queryCommands, rebootLock, netwGateOpen, lockActionQueue,
                 statusUpdated, bleVars>>

\* The retest one second after a restart, which only tests.
NetRetest(s) ==
  /\ netPc = "health"
  /\ retestPending
  /\ services' = s
  /\ apiOk' = RestOk(s)
  /\ retestPending' = FALSE
  /\ UNCHANGED <<netPc, request, rebootLockPending, answer, rebootsAccepted,
                 nukiVars, queryCommands, rebootLock, netwGateOpen,
                 lockActionQueue, statusUpdated, bleVars>>

\* Mutant of NetGate: the pending flag is read but not cleared.
NetGateKeepsPending(open) ==
  /\ netPc = "gate"
  /\ netwGateOpen' = open
  /\ rebootLock' = IF open THEN rebootLockPending ELSE rebootLock
  /\ netPc' = "handle"
  /\ UNCHANGED <<request, rebootLockPending, apiOk, retestPending, answer,
                 rebootsAccepted, nukiVars, queryCommands, services,
                 lockActionQueue, statusUpdated, bleVars>>

\* netwGateOpen = networkGateOpen(); with the gate open,
\* rebootLock = consumeRebootLockRequest(), whatever rebootLock was.
NetGate(open) ==
  /\ netPc = "gate"
  /\ netwGateOpen' = open
  /\ \/ /\ open
        /\ rebootLock' = rebootLockPending
        /\ rebootLockPending' = FALSE
     \/ /\ ~open
        /\ UNCHANGED <<rebootLock, rebootLockPending>>
  /\ netPc' = "handle"
  /\ UNCHANGED <<request, apiOk, retestPending, answer, rebootsAccepted, nukiVars,
                 queryCommands, services, lockActionQueue, statusUpdated, bleVars>>

-----------------------------------------------------------------------------
(***************************************************************************)
(* nukiTask: its loop and NukiWrapper::update.                             *)
(***************************************************************************)

NukiStep(from, to) == nukiPc = from /\ nukiPc' = to

\* A restart reason is set: restartServices(false) replaces the wrapper, and
\* with it the queue and whatever waits in it.
NukiRestart ==
  /\ NukiStep("top", "top")
  /\ netwGateOpen /\ restartDue /\ restarts < MaxRestarts
  /\ restarts' = restarts + 1 /\ restartDue' = FALSE
  /\ paired' = FALSE /\ statusUpdated' = FALSE
  /\ lockActionQueue' = NoAction
  /\ UNCHANGED <<reboot, qc, pendingAction, tries, result, sent, rebootsSent,
                 netVars, queryCommands, rebootLock, netwGateOpen, services>>

\* The loop body runs: update(rebootLock) is called.
NukiCall == /\ NukiStep("top", "pair")
            /\ netwGateOpen /\ ~restartDue
            /\ reboot' = rebootLock
            /\ UNCHANGED <<qc, pendingAction, tries, result, sent, paired,
                           rebootsSent, netVars, sharedVars, bleVars>>

NukiIsPaired == /\ NukiStep("pair", "read")
                /\ paired
                /\ UNCHANGED <<reboot, qc, pendingAction, tries, result, sent,
                               paired, rebootsSent, netVars, sharedVars, bleVars>>

NukiPair == /\ ~paired
            /\ \/ NukiStep("pair", "read") /\ paired' = TRUE
               \/ NukiStep("pair", "clear") /\ UNCHANGED paired
            /\ UNCHANGED <<reboot, qc, pendingAction, tries, result, sent,
                           rebootsSent, netVars, sharedVars, bleVars>>

\* RestApiServer::queryCommands(): "qc = _queryCommands" ...
NukiReadQuery == /\ NukiStep("read", "reset")
                 /\ qc' = queryCommands
                 /\ UNCHANGED <<reboot, pendingAction, tries, result, sent,
                                paired, rebootsSent, netVars, sharedVars, bleVars>>

\* ... "_queryCommands = 0".
NukiResetQuery == /\ NukiStep("reset", "take")
                  /\ queryCommands' = {}
                  /\ UNCHANGED <<reboot, qc, pendingAction, tries, result, sent,
                                 paired, rebootsSent, netVars, rebootLock,
                                 netwGateOpen, services, lockActionQueue,
                                 statusUpdated, bleVars>>

\* Mutant of NukiTakeAction: xQueuePeek instead of xQueueReceive.
NukiPeekAction ==
  /\ nukiPc = "take"
  /\ nukiPc' = IF lockActionQueue = NoAction THEN "poll" ELSE "act"
  /\ pendingAction' = lockActionQueue
  /\ UNCHANGED <<reboot, qc, tries, result, sent, paired, rebootsSent, netVars,
                 sharedVars, bleVars>>

\* Mutant of NukiTakeAction: no action is taken while the status is followed.
NukiTakeActionWhenQuiet ==
  /\ \/ /\ lockActionQueue = NoAction \/ statusUpdated
        /\ NukiStep("take", "poll")
        /\ UNCHANGED <<lockActionQueue, pendingAction>>
     \/ /\ lockActionQueue # NoAction /\ ~statusUpdated
        /\ NukiStep("take", "act")
        /\ pendingAction' = lockActionQueue
        /\ lockActionQueue' = NoAction
  /\ UNCHANGED <<reboot, qc, tries, result, sent, paired, rebootsSent, netVars,
                 queryCommands, rebootLock, netwGateOpen, services,
                 statusUpdated, bleVars>>

\* xQueueReceive(_lockActionQueue, &pendingAction, 0)
NukiTakeAction ==
  /\ \/ /\ lockActionQueue = NoAction
        /\ NukiStep("take", "poll")
        /\ UNCHANGED <<lockActionQueue, pendingAction>>
     \/ /\ lockActionQueue # NoAction
        /\ NukiStep("take", "act")
        /\ pendingAction' = lockActionQueue
        /\ lockActionQueue' = NoAction
  /\ UNCHANGED <<reboot, qc, tries, result, sent, paired, rebootsSent, netVars,
                 queryCommands, rebootLock, netwGateOpen, services,
                 statusUpdated, bleVars>>

\* One turn of retryComm around lockAction(pendingAction).
NukiActionSucceeds ==
  /\ NukiStep("act", "poll")
  /\ sent' = sent \cup {"action"}
  /\ result' = "success"
  /\ pendingAction' = NoAction
  /\ tries' = 0
  /\ statusUpdated' = TRUE
  /\ UNCHANGED <<reboot, qc, paired, rebootsSent, netVars, queryCommands,
                 rebootLock, netwGateOpen, services, lockActionQueue, bleVars>>

\* Mutant of NukiActionFails: "<=" instead of "<" in the loop of retryComm.
NukiActionFailsOnceMore ==
  /\ sent' = sent \cup {"action"}
  /\ result' = "failed"
  /\ \/ /\ tries + 1 <= NrOfRetries + 1
        /\ NukiStep("act", "act")
        /\ tries' = tries + 1
        /\ UNCHANGED pendingAction
     \/ /\ tries + 1 > NrOfRetries + 1
        /\ NukiStep("act", "poll")
        /\ tries' = 0
        /\ pendingAction' = NoAction
  /\ UNCHANGED <<reboot, qc, paired, rebootsSent, netVars, sharedVars, bleVars>>

NukiActionFails ==
  /\ sent' = sent \cup {"action"}
  /\ result' = "failed"
  /\ \/ /\ tries + 1 < NrOfRetries + 1
        /\ NukiStep("act", "act")
        /\ tries' = tries + 1
        /\ UNCHANGED pendingAction
     \/ /\ tries + 1 = NrOfRetries + 1
        /\ NukiStep("act", "poll")
        /\ tries' = 0
        /\ pendingAction' = NoAction
  /\ UNCHANGED <<reboot, qc, paired, rebootsSent, netVars, sharedVars, bleVars>>

\* Mutant of NukiPoll: the query bit is not looked at.
NukiPollIgnoresQuery(timerDue) ==
  /\ NukiStep("poll", "report")
  /\ \/ /\ statusUpdated \/ timerDue
        /\ sent' = sent \cup {LockState}
        /\ statusUpdated' \in BOOLEAN
     \/ /\ ~(statusUpdated \/ timerDue)
        /\ UNCHANGED <<sent, statusUpdated, bleVars>>
  /\ UNCHANGED <<reboot, qc, pendingAction, tries, result, paired, rebootsSent,
                 netVars, queryCommands, rebootLock, netwGateOpen, services,
                 lockActionQueue, bleVars>>

\* The lock state is requested when its status changed, its timer is due or
\* it was queried; updateKeyTurnerState() says whether to go on polling.
NukiPoll(timerDue) ==
  /\ NukiStep("poll", "report")
  /\ \/ /\ statusUpdated \/ timerDue \/ LockState \in qc
        /\ sent' = sent \cup {LockState}
        /\ statusUpdated' \in BOOLEAN
     \/ /\ ~(statusUpdated \/ timerDue \/ LockState \in qc)
        /\ UNCHANGED <<sent, statusUpdated, bleVars>>
  /\ UNCHANGED <<reboot, qc, pendingAction, tries, result, paired, rebootsSent,
                 netVars, queryCommands, rebootLock, netwGateOpen, services,
                 lockActionQueue, bleVars>>

\* The block of update() that needs the REST side of the network services:
\* the other queries unless the status is being followed, then the reboot.
ReportsEnabled == services \in {"OK", "ERROR_REST_API_SERVER"}

NukiReport(due, pinValid) ==
  /\ NukiStep("report", "clear")
  /\ LET asked   == IF ReportsEnabled /\ ~statusUpdated
                    THEN due \cup (qc \ {LockState}) ELSE {}
         reboots == ReportsEnabled /\ reboot /\ pinValid
     IN  /\ sent' = sent \cup asked \cup (IF reboots THEN {"reboot"} ELSE {})
         /\ rebootsSent' = IF reboots THEN rebootsSent + 1 ELSE rebootsSent
  /\ UNCHANGED <<reboot, qc, pendingAction, tries, result, paired, netVars,
                 sharedVars, bleVars>>

\* update() has returned, its locals are gone; nukiTask: rebootLock = false.
NukiClearReboot == /\ NukiStep("clear", "top")
                   /\ rebootLock' = FALSE
                   /\ reboot' = FALSE /\ qc' = {} /\ sent' = {}
                   /\ UNCHANGED <<pendingAction, tries, result, paired,
                                  rebootsSent, netVars, queryCommands,
                                  netwGateOpen, services, lockActionQueue,
                                  statusUpdated, bleVars>>

-----------------------------------------------------------------------------
(***************************************************************************)
(* The other writers: the BLE side (NukiWrapper::notify and the beacon     *)
(* watchdog).                                                              *)
(***************************************************************************)
BleNotify == /\ ~statusUpdated
             /\ statusUpdated' = TRUE
             /\ UNCHANGED <<netVars, nukiVars, queryCommands, rebootLock,
                            netwGateOpen, services, lockActionQueue, bleVars>>

BleFault == /\ ~restartDue
            /\ restarts < MaxRestarts
            /\ restartDue' = TRUE
            /\ UNCHANGED <<restarts, netVars, nukiVars, sharedVars>>

-----------------------------------------------------------------------------
Init ==
  /\ netPc = "handle" /\ request = NoRequest
  /\ rebootLockPending = FALSE /\ answer = "none" /\ rebootsAccepted = 0
  /\ services \in ServiceStates
  /\ apiOk = RestOk(services)
  /\ retestPending = FALSE
  /\ queryCommands = {} /\ rebootLock = FALSE /\ netwGateOpen = FALSE
  /\ lockActionQueue = NoAction
  /\ nukiPc = "top" /\ reboot = FALSE /\ qc = {} /\ sent = {}
  /\ pendingAction = NoAction /\ tries = 0 /\ result = "none"
  /\ paired = FALSE /\ statusUpdated = FALSE /\ rebootsSent = 0
  /\ restartDue = FALSE /\ restarts = 0

NetNext ==
  \/ NetNoRequest
  \/ \E a \in Action \cup {NoAction} : NetLockAction(a)
  \/ NetLockReboot
  \/ \E q \in Query : NetQueryLoad(q)
  \/ NetQueryStore
  \/ NetNoCheck
  \/ \E s \in ServiceStates : NetHealthCheck(s) \/ NetRetest(s)
  \/ \E open \in BOOLEAN : NetGate(open)

NukiNext ==
  \/ NukiRestart \/ NukiCall \/ NukiIsPaired \/ NukiPair
  \/ NukiReadQuery \/ NukiResetQuery
  \/ NukiTakeAction \/ NukiActionSucceeds \/ NukiActionFails
  \/ \E timerDue \in BOOLEAN : NukiPoll(timerDue)
  \/ \E due \in SUBSET (Query \ {LockState}), pinValid \in BOOLEAN :
        NukiReport(due, pinValid)
  \/ NukiClearReboot

EnvNext == BleNotify \/ BleFault

Next == NetNext \/ NukiNext \/ EnvNext

Spec == Init /\ [][Next]_vars

\* Both tasks are endless loops on cores of their own: each keeps stepping.
FairSpec == Spec /\ WF_vars(NetNext) /\ WF_vars(NukiNext)

-----------------------------------------------------------------------------
FlagsOK ==
  /\ rebootLockPending \in BOOLEAN /\ apiOk \in BOOLEAN
  /\ retestPending \in BOOLEAN /\ rebootLock \in BOOLEAN
  /\ netwGateOpen \in BOOLEAN /\ reboot \in BOOLEAN
  /\ paired \in BOOLEAN /\ statusUpdated \in BOOLEAN /\ restartDue \in BOOLEAN

NetOK ==
  /\ netPc \in {"handle", "store", "health", "gate"}
  /\ request \in [bit : Query \cup {"none"}, loaded : SUBSET Query]
  /\ (netPc = "store") => (request.bit \in Query)
  /\ answer \in {"none", "success", "busy", "refused"}
  /\ queryCommands \in SUBSET Query /\ services \in ServiceStates
  /\ lockActionQueue \in Action \cup {NoAction}
  /\ rebootsAccepted \in 0..MaxReboots

NukiOK ==
  /\ nukiPc \in {"top", "pair", "read", "reset", "take", "act", "poll",
                 "report", "clear"}
  /\ qc \in SUBSET Query
  /\ pendingAction \in Action \cup {NoAction}
  /\ tries \in 0..NrOfRetries
  /\ result \in {"none", "success", "failed"}
  /\ sent \in SUBSET (Query \cup {"action", "reboot"})
  /\ rebootsSent \in Nat /\ restarts \in 0..MaxRestarts

TypeOK == FlagsOK /\ NetOK /\ NukiOK

-----------------------------------------------------------------------------
(***************************************************************************)
(* Properties                                                              *)
(***************************************************************************)

\* The actions answered with 200 and not finished yet: the one update() is
\* trying (NukiWrapper::update) and the one in the queue, in that order.
OneOrNone(a) == IF a = NoAction THEN << >> ELSE <<a>>
Unfinished == OneOrNone(pendingAction) \o OneOrNone(lockActionQueue)

Service == INSTANCE LockActionService
             WITH pending <- Unfinished, Capacity <- 2, MaxTries <- NrOfRetries + 1

\* The hand-over through the depth-1 queue (NukiWrapper.cpp, onLockActionReceived
\* and update) implements the service: every action answered with 200 is tried,
\* in order, up to NrOfRetries + 1 times, never again after a success; only a
\* restart of the BLE services drops it; and 429 is answered only while another
\* action is unfinished.
ActionsServed == Service!Spec

\* Every answered action is taken by update() once the network gate stays open
\* and the lock is paired, unless a restart of the BLE services drops the queue:
\* beacons, queries and health checks cannot starve it (NukiWrapper::update takes
\* it in every round, whatever the rest of the round does).
ActionTaken ==
  (<>[](netwGateOpen /\ paired))
    => \A a \in Action, n \in 0..MaxRestarts :
         (lockActionQueue = a /\ restarts = n) ~> (pendingAction = a \/ restarts > n)

\* When update() returns, the lock state has been requested if an action
\* succeeded in it or a lock state query was taken by it, whatever the timers,
\* the services and the beacons did meanwhile (NukiWrapper::update).
ActionDone == "action" \in sent /\ result = "success"

LockStateRefreshed ==
  (nukiPc = "clear" /\ (LockState \in qc \/ ActionDone)) => LockState \in sent

\* Why: each stage of update() hands the need for a refresh on to the next.
RefreshHandedOn ==
  /\ (nukiPc \in {"top", "pair", "read"}) => (qc = {})
  /\ (nukiPc \in {"top", "pair", "read", "reset", "take", "act"}) => ~ActionDone
  /\ (nukiPc \in {"top", "pair", "read", "reset", "take"}) => ("action" \notin sent)
  /\ (nukiPc = "poll" /\ ActionDone) => statusUpdated
  /\ (nukiPc \in {"report", "clear"} /\ (LockState \in qc \/ ActionDone))
        => (LockState \in sent)

\* The lock is never rebooted more often than lock/reboot was answered with 200,
\* although the request passes through two flags that both tasks write
\* (_rebootLockPending and rebootLock in main.cpp).
RebootAtMostOnce == rebootsSent <= rebootsAccepted

\* Why: a request is in one place only, the pending flag, then rebootLock until
\* update() is called, then the parameter until update() has sent it.
OneIf(flag) == IF flag THEN 1 ELSE 0
RebootInFlight == IF nukiPc = "top" THEN OneIf(rebootLock)
                                    ELSE OneIf(nukiPc # "clear" /\ reboot)
RebootsCovered ==
  rebootsSent + OneIf(rebootLockPending) + RebootInFlight <= rebootsAccepted

\* update() works on an action exactly while it is in the retry loop, and the
\* loop starts with a fresh count for every action (NukiRetryHandler::retryComm).
RetryLoopClean ==
  /\ (pendingAction # NoAction) <=> (nukiPc = "act")
  /\ (nukiPc # "act") => (tries = 0)
=============================================================================
