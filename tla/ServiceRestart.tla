--------------------------- MODULE ServiceRestart ---------------------------
(***************************************************************************)
(* Restarting the BLE services while the other tasks go on.                *)
(*                                                                         *)
(* When the BLE stack fails, nukiTask (core 0) runs restartServices(false) *)
(* of main.cpp: it deletes the web configurator, the NukiWrapper and the   *)
(* scanner, waits, and creates them anew; after four such restarts without *)
(* a lock state in between it restarts the ESP.  Meanwhile networkTask     *)
(* calls into the wrapper through the global nukiInst when a REST command  *)
(* comes in, and webCfgTask serves pages through the pointer _nuki that    *)
(* the web configurator was created with.  Only the web configurator is    *)
(* guarded, by webCfgServerMutex; nukiTask waits for it for 500 ms.        *)
(*                                                                         *)
(* bleDone is left out: it is FALSE only while nukiTask itself is inside   *)
(* restartServices.  So is forceEnableWebCfgServer: it is set together     *)
(* with lockEnabled = FALSE, when there is no nukiTask.                    *)
(***************************************************************************)
EXTENDS Naturals

CONSTANT LockSwitch   \* the page "Nuki Lock enabled" is used while running

ASSUME RestartAssumption == LockSwitch \in BOOLEAN

MaxAttempts == 4

VARIABLES
  \* nukiTask
  nukiPc,         \* where nukiTask is in its loop and in restartServices
  attempts,       \* lockBleRestartAttemptCount
  wrapper,        \* what nuki and nukiInst point to: "live" or "deleted"
  lockStarted,    \* the global lockStarted
  lockEnabled,    \* the global lockEnabled
  webCfgStarted,  \* the global webCfgStarted
  \* NukiWrapper
  restartReason,  \* _bleControllerRestartReason
  hasConnected,   \* _hasConnected
  heard,          \* the last beacon heard by its lock object
  \* webCfgTask
  mutex,          \* webCfgServerMutex: "free" or held by webCfgTask, "web"
  webPc,          \* "idle" or "handling" a page
  webServer,      \* "none", or what _nuki of the web configurator points to
  \* networkTask
  netPc,          \* "idle" or in a "callback" of the wrapper
  netwGateOpen,   \* the global netwGateOpen
  restLock,       \* RestApiServer::_lockEnabled, read at boot
  \* outside
  stack,          \* the BLE stack: "ok" or "silent"
  lockPref,       \* preference_lock_enabled
  webPref,        \* preference_webcfgserver_enabled
  \* history
  overran         \* a page has kept the mutex from stopWebCfgServer

taskVars    == <<nukiPc, attempts, lockStarted, lockEnabled, webCfgStarted>>
wrapperVars == <<wrapper, restartReason, hasConnected, heard>>
webVars     == <<mutex, webPc, webServer>>
netVars     == <<netPc, netwGateOpen, restLock>>
prefVars    == <<lockPref, webPref>>
vars == <<taskVars, wrapperVars, webVars, netVars, stack, prefVars, overran>>

-----------------------------------------------------------------------------
(***************************************************************************)
(* nukiTask                                                                *)
(***************************************************************************)
NukiStep(from, to) == nukiPc = from /\ nukiPc' = to

\* A turn with the gate open: nuki->isPaired() and what follows need a wrapper.
Turn == nukiPc = "top" /\ netwGateOpen /\ lockStarted

\* isPaired() on a null pointer: the task panics.
NukiPanics == /\ Turn /\ wrapper = "deleted"
              /\ nukiPc' = "panic"
              /\ UNCHANGED <<attempts, lockStarted, lockEnabled, webCfgStarted,
                             wrapperVars, webVars, netVars, stack, prefVars, overran>>

\* Mutant of NukiSeesReason: one attempt more.
NukiSeesReasonLate ==
  /\ Turn /\ wrapper = "live" /\ restartReason # "None"
  /\ \/ /\ attempts > 4
        /\ nukiPc' = "esp"
        /\ UNCHANGED <<attempts, lockEnabled>>
     \/ /\ attempts <= 4
        /\ nukiPc' = "stop"
        /\ attempts' = attempts + 1
        /\ lockEnabled' = lockPref
  /\ UNCHANGED <<lockStarted, webCfgStarted, wrapperVars, webVars, netVars,
                 stack, prefVars, overran>>

\* A restart reason is set: restartEsp after four attempts, else
\* restartServices(false) begins, which reads preference_lock_enabled again.
NukiSeesReason ==
  /\ Turn /\ wrapper = "live" /\ restartReason # "None"
  /\ \/ /\ attempts > 3
        /\ nukiPc' = "esp"
        /\ UNCHANGED <<attempts, lockEnabled>>
     \/ /\ attempts <= 3
        /\ nukiPc' = "stop"
        /\ attempts' = attempts + 1
        /\ lockEnabled' = lockPref
  /\ UNCHANGED <<lockStarted, webCfgStarted, wrapperVars, webVars, netVars,
                 stack, prefVars, overran>>

\* Mutant of NukiQuietTurn: a turn without a reason counts as a success.
NukiQuietTurnForgets ==
  /\ Turn /\ wrapper = "live" /\ restartReason = "None"
  /\ attempts' = 0
  /\ nukiPc' = "update"
  /\ UNCHANGED <<lockStarted, lockEnabled, webCfgStarted, wrapperVars, webVars,
                 netVars, stack, prefVars, overran>>

\* No reason: the attempts are forgotten once the lock has answered.
NukiQuietTurn ==
  /\ Turn /\ wrapper = "live" /\ restartReason = "None"
  /\ attempts' = IF hasConnected THEN 0 ELSE attempts
  /\ nukiPc' = "update"
  /\ UNCHANGED <<lockStarted, lockEnabled, webCfgStarted, wrapperVars, webVars,
                 netVars, stack, prefVars, overran>>

\* NukiWrapper::update: the beacon watchdog, then perhaps a lock state
\* (updateKeyTurnerState), which sets _hasConnected.
NukiUpdate(answered) ==
  /\ NukiStep("update", "top")
  /\ restartReason' = IF heard = "overdue" THEN "BeaconWatchdog" ELSE restartReason
  /\ answered => stack = "ok"
  /\ hasConnected' = (hasConnected \/ answered)
  /\ UNCHANGED <<attempts, lockStarted, lockEnabled, webCfgStarted, wrapper,
                 heard, webVars, netVars, stack, prefVars, overran>>

\* Mutant of NukiStopWeb: the web configurator is deleted without the mutex.
NukiStopWebUnguarded ==
  /\ NukiStep("stop", "delete")
  /\ webServer' = IF webCfgStarted THEN "none" ELSE webServer
  /\ overran' = FALSE
  /\ UNCHANGED <<attempts, lockStarted, lockEnabled, webCfgStarted, wrapperVars,
                 mutex, webPc, netVars, stack, prefVars>>

\* stopWebCfgServer: with the mutex, the web configurator is deleted; when a
\* page keeps the mutex for 500 ms, it is not.
NukiStopWeb ==
  /\ NukiStep("stop", "delete")
  /\ \/ ~webCfgStarted /\ UNCHANGED webServer
     \/ webCfgStarted /\ mutex = "free" /\ webServer' = "none"
     \/ webCfgStarted /\ mutex # "free" /\ UNCHANGED webServer
  /\ overran' = (webCfgStarted /\ mutex # "free")
  /\ UNCHANGED <<attempts, lockStarted, lockEnabled, webCfgStarted, wrapperVars,
                 mutex, webPc, netVars, stack, prefVars>>

\* delete nuki, the scanner, BLEDevice::deinit; lockStarted stays as it is.
\* What still points to the wrapper, points to freed memory now.
NukiDelete ==
  /\ NukiStep("delete", "create")
  /\ wrapper' = "deleted"
  /\ webServer' = IF webServer = "live" THEN "stale" ELSE webServer
  /\ UNCHANGED <<attempts, lockStarted, lockEnabled, webCfgStarted,
                 restartReason, hasConnected, heard, mutex, webPc, netVars,
                 stack, prefVars, overran>>

\* Mutant of NukiCreate: the preference is read again.
NukiCreateByPreference(works) ==
  /\ NukiStep("create", "start")
  /\ stack' = IF lockPref THEN works ELSE stack
  /\ wrapper' = IF lockPref THEN "live" ELSE "deleted"
  /\ restartReason' = "None" /\ hasConnected' = FALSE /\ heard' = "never"
  /\ UNCHANGED <<attempts, lockStarted, lockEnabled, webCfgStarted, webVars,
                 netVars, prefVars, overran>>

\* Two seconds later, if lockEnabled: a new scanner and a new NukiWrapper.
\* The new BLE stack may work or not.
NukiCreate(works) ==
  /\ NukiStep("create", "start")
  /\ stack' = IF lockEnabled THEN works ELSE stack
  /\ wrapper' = IF lockEnabled THEN "live" ELSE "deleted"
  /\ restartReason' = "None" /\ hasConnected' = FALSE /\ heard' = "never"
  /\ UNCHANGED <<attempts, lockStarted, lockEnabled, webCfgStarted, webVars,
                 netVars, prefVars, overran>>

\* startWebCfgServer: a new web configurator unless there is one still.
WebPointer == IF wrapper = "live" THEN "live" ELSE "null"

\* Mutant of NukiStartWeb: only the preference is looked at.
NukiStartWebByPreference ==
  /\ NukiStep("start", "top")
  /\ \/ /\ ~webPref
        /\ UNCHANGED <<webServer, webCfgStarted>>
     \/ /\ webPref
        /\ mutex = "free" /\ webServer = "none"
        /\ webServer' = WebPointer /\ webCfgStarted' = TRUE
     \/ /\ webPref
        /\ \/ mutex = "free" /\ webServer # "none"
           \/ mutex # "free"
        /\ UNCHANGED <<webServer, webCfgStarted>>
  /\ UNCHANGED <<attempts, lockStarted, lockEnabled, wrapperVars, mutex, webPc,
                 netVars, stack, prefVars, overran>>

NukiStartWeb ==
  /\ NukiStep("start", "top")
  /\ \/ /\ ~webCfgStarted /\ ~webPref
        /\ UNCHANGED <<webServer, webCfgStarted>>
     \/ /\ webCfgStarted \/ webPref
        /\ mutex = "free" /\ webServer = "none"
        /\ webServer' = WebPointer /\ webCfgStarted' = TRUE
     \/ /\ webCfgStarted \/ webPref
        /\ \/ mutex = "free" /\ webServer # "none"
           \/ mutex # "free"
        /\ UNCHANGED <<webServer, webCfgStarted>>
  /\ UNCHANGED <<attempts, lockStarted, lockEnabled, wrapperVars, mutex, webPc,
                 netVars, stack, prefVars, overran>>

\* After restartEsp or a panic, setup() starts everything as preferred.
Boot ==
  /\ nukiPc \in {"esp", "panic"}
  /\ nukiPc' = IF lockPref THEN "top" ELSE "off"
  /\ attempts' = 0
  /\ lockEnabled' = lockPref /\ lockStarted' = lockPref /\ restLock' = lockPref
  /\ wrapper' = IF lockPref THEN "live" ELSE "deleted"
  /\ restartReason' = "None" /\ hasConnected' = FALSE /\ heard' = "never"
  /\ webCfgStarted' = webPref
  /\ webServer' = IF ~webPref THEN "none" ELSE IF lockPref THEN "live" ELSE "null"
  /\ mutex' = "free" /\ webPc' = "idle" /\ netPc' = "idle"
  /\ netwGateOpen' = FALSE
  /\ stack' \in {"ok", "silent"}
  /\ overran' = FALSE
  /\ UNCHANGED prefVars

-----------------------------------------------------------------------------
(***************************************************************************)
(* webCfgTask, networkTask and the BLE side                                *)
(***************************************************************************)
Running == nukiPc \notin {"esp", "panic"}

\* The mutex is taken and handleClient() begins.
WebTake == /\ Running /\ webPc = "idle" /\ mutex = "free" /\ webServer # "none"
           /\ mutex' = "web" /\ webPc' = "handling"
           /\ UNCHANGED <<taskVars, wrapperVars, webServer, netVars, stack, prefVars, overran>>

\* Mutant of WebDone: the mutex is not given back.
WebDoneKeepsMutex ==
  /\ Running /\ webPc = "handling"
  /\ webPc' = "idle"
  /\ webPref' \in BOOLEAN
  /\ IF LockSwitch THEN lockPref' \in BOOLEAN ELSE UNCHANGED lockPref
  /\ UNCHANGED <<taskVars, wrapperVars, mutex, webServer, netVars, stack, overran>>

\* The page is done; LOCKENA and an import store preferences without a reboot.
WebDone ==
  /\ Running /\ webPc = "handling"
  /\ mutex' = "free" /\ webPc' = "idle"
  /\ webPref' \in BOOLEAN
  /\ IF LockSwitch THEN lockPref' \in BOOLEAN ELSE UNCHANGED lockPref
  /\ UNCHANGED <<taskVars, wrapperVars, webServer, netVars, stack, overran>>

NetGate(open) == /\ Running /\ netPc = "idle"
                 /\ netwGateOpen' = open
                 /\ UNCHANGED <<taskVars, wrapperVars, webVars, netPc, restLock,
                                stack, prefVars, overran>>

\* A lock command over REST: the callback the wrapper registered, on nukiInst.
NetCallback == /\ Running /\ netPc = "idle" /\ restLock
               /\ netPc' = "callback"
               /\ UNCHANGED <<taskVars, wrapperVars, webVars, netwGateOpen,
                              restLock, stack, prefVars, overran>>

NetReturn == /\ Running /\ netPc = "callback"
             /\ netPc' = "idle"
             /\ UNCHANGED <<taskVars, wrapperVars, webVars, netwGateOpen,
                            restLock, stack, prefVars, overran>>

Beacon == /\ Running /\ wrapper = "live" /\ stack = "ok"
          /\ heard' = "recently"
          /\ UNCHANGED <<taskVars, wrapper, restartReason, hasConnected, webVars,
                         netVars, stack, prefVars, overran>>

\* _restartBeaconTimeout seconds pass after the last beacon.
BeaconOverdue == /\ Running /\ heard = "recently"
                 /\ heard' = "overdue"
                 /\ UNCHANGED <<taskVars, wrapper, restartReason, hasConnected,
                                webVars, netVars, stack, prefVars, overran>>

StackFails == /\ Running /\ stack = "ok"
              /\ stack' = "silent"
              /\ UNCHANGED <<taskVars, wrapperVars, webVars, netVars, prefVars,
                             overran>>

\* NukiWrapper::notify(BLE_ERROR_ON_DISCONNECT)
BleError == /\ Running /\ wrapper = "live"
            /\ restartReason' = "DisconnectError"
            /\ UNCHANGED <<taskVars, wrapper, hasConnected, heard, webVars,
                           netVars, stack, prefVars, overran>>

-----------------------------------------------------------------------------
Init ==
  /\ lockPref = TRUE /\ webPref \in BOOLEAN
  /\ nukiPc = "top" /\ attempts = 0
  /\ lockEnabled = TRUE /\ lockStarted = TRUE /\ restLock = TRUE
  /\ wrapper = "live"
  /\ restartReason = "None" /\ hasConnected = FALSE /\ heard = "never"
  /\ webCfgStarted = webPref
  /\ webServer = IF webPref THEN "live" ELSE "none"
  /\ mutex = "free" /\ webPc = "idle" /\ netPc = "idle"
  /\ netwGateOpen = FALSE
  /\ stack \in {"ok", "silent"} /\ overran = FALSE

NukiNext ==
  \/ NukiPanics \/ NukiSeesReason \/ NukiQuietTurn
  \/ \E answered \in BOOLEAN : NukiUpdate(answered)
  \/ NukiStopWeb \/ NukiDelete
  \/ \E works \in {"ok", "silent"} : NukiCreate(works)
  \/ NukiStartWeb

WebNext == WebTake \/ WebDone
NetNext == (\E open \in BOOLEAN : NetGate(open)) \/ NetCallback \/ NetReturn
BleNext == Beacon \/ BeaconOverdue \/ StackFails \/ BleError

Next == NukiNext \/ WebNext \/ NetNext \/ BleNext \/ Boot

Spec == Init /\ [][Next]_vars

\* Each task keeps running and every page ends; webCfgTask polls every 10 or
\* 50 ms, more often than nukiTask can restart the services, so it finds the
\* mutex free again and again; the ESP boots after a restart; a silent stack
\* delivers no further beacon, so the last one gets old.
FairSpec ==
  /\ Spec
  /\ WF_vars(NukiNext) /\ SF_vars(WebTake) /\ WF_vars(WebDone)
  /\ WF_vars(NetReturn) /\ WF_vars(Boot)
  /\ WF_vars(stack = "silent" /\ BeaconOverdue)

-----------------------------------------------------------------------------
TypeOK ==
  /\ nukiPc \in {"top", "update", "stop", "delete", "create", "start", "esp",
                 "panic", "off"}
  /\ attempts \in 0..MaxAttempts
  /\ lockStarted \in BOOLEAN /\ lockEnabled \in BOOLEAN
  /\ webCfgStarted \in BOOLEAN
  /\ wrapper \in {"live", "deleted"}
  /\ restartReason \in {"None", "DisconnectError", "BeaconWatchdog"}
  /\ hasConnected \in BOOLEAN /\ heard \in {"never", "recently", "overdue"}
  /\ mutex \in {"free", "web"} /\ webPc \in {"idle", "handling"}
  /\ webServer \in {"none", "live", "stale", "null"}
  /\ netPc \in {"idle", "callback"} /\ netwGateOpen \in BOOLEAN
  /\ restLock \in BOOLEAN
  /\ stack \in {"ok", "silent"} /\ lockPref \in BOOLEAN /\ webPref \in BOOLEAN
  /\ overran \in BOOLEAN

\* No page is served through a wrapper that nukiTask has deleted, nor by a web
\* configurator it has deleted, unless a page kept the mutex from the last stop
\* for 500 ms (restartServices: stop the web server, delete the wrapper, create
\* it, start the web server; main.cpp).
PagesUseLiveObjects ==
  (webPc = "handling" /\ ~overran) => (webServer \notin {"stale", "none"})

\* A web configurator that was started survives every restart of the services,
\* whatever has become of its preference and of the mutex in the meantime
\* (startWebCfgServer and stopWebCfgServer in main.cpp).
WebServerKept == (nukiPc \in {"top", "update"} /\ webCfgStarted) => webServer # "none"

\* networkTask's callbacks and nukiTask itself are without a wrapper only for the
\* two seconds in which a restart of the services has deleted it and not yet
\* created it, or after the lock was switched off without a reboot, which the REST
\* server and lockStarted do not notice; switching it off while the services restart
\* does not lose the wrapper (restartServices in main.cpp).
WrapperKept ==
  wrapper = "deleted" => nukiPc = "create" \/ (LockSwitch /\ ~lockEnabled)

\* A BLE stack that keeps failing without a single lock state in between ends
\* in a restart of the ESP, as often as that happens (nukiTask in main.cpp).
BleEscalates ==
  (<>[](netwGateOpen /\ lockPref /\ ~hasConnected) /\ []<>(restartReason # "None"))
    => []<>(nukiPc = "esp")

\* The web configurator keeps being served through every restart: webCfgTask
\* gets the mutex back from nukiTask (stopWebCfgServer, startWebCfgServer).
WebServed == webCfgStarted ~> (webPc = "handling" \/ ~webCfgStarted)

\* The README says of "Restart if bluetooth beacons not received": "restart the
\* Nuki Bridge after the set amount of seconds has passed without receiving a
\* bluetooth beacon", "because the bluetooth stack of the ESP32 can silently
\* fail": a stack that has been heard of and then stays silent ends in a restart.
BeaconLossRestarts ==
  (<>[]netwGateOpen /\ <>[](stack = "silent") /\ <>(heard = "overdue"))
    => <>(nukiPc = "esp")
=============================================================================
