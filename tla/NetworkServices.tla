-------------------------- MODULE NetworkServices --------------------------
(***************************************************************************)
(* The two network services: the REST API server and the client of Home    *)
(* Automation Reporting (HAR).                                             *)
(*                                                                         *)
(* networkTask runs NukiNetwork::update in a loop: it serves REST, tests   *)
(* both services every 30 s, deletes and recreates the ones that fail,     *)
(* tests again a second later, sends reports of its own and restarts the   *)
(* ESP when the services have been failing for _networkTimeout seconds.    *)
(* Meanwhile nukiTask sends reports through the HAR client, and webCfgTask *)
(* disables a service when its setting is saved.                           *)
(*                                                                         *)
(* Time is counted in ticks.  A tick is longer than a turn of update() and *)
(* than the second before a retest, and CheckEvery ticks are 30 s; ages    *)
(* are counted up to the value that matters.                               *)
(***************************************************************************)
EXTENDS Naturals

CONSTANTS CheckEvery,  \* ticks between two health checks
          Timeout,     \* preference_network_timeout in ticks, if it is on
          Grace        \* ticks of uptime before the watchdog acts

ASSUME ServicesAssumption ==
  /\ CheckEvery \in Nat \ {0} /\ Timeout \in Nat \ {0} /\ Grace \in Nat

VARIABLES
  \* networkTask
  netPc,          \* where networkTask is in update()
  services,       \* _networkServicesState
  retest,         \* no retest is "none", else it is "pending" or "due"
  sinceCheck,     \* ticks since _lastNetworkServiceTs
  sinceOk,        \* ticks since _lastConnectedTs
  uptime,         \* ticks since the boot
  looped,         \* update() has returned since the last tick
  \* RestApiServer and HarClient, reached by all three tasks
  apiEnabled, apiOk,   \* RestApiServer::_enabled, _isOk
  server,              \* RestApiServer::_server: "none" or "live"
  harEnabled, harOk,   \* HarClient::_enabled, _isOk
  transport,           \* HarClient::_httpClient or _udpClient
  \* the other tasks
  nukiPc,         \* nukiTask: "idle" or in "sendData"
  webPc,          \* webCfgTask: "idle" or in the "stop" of disableAPI
  \* outside
  connected,      \* the network device is connected and has an address
  harUp,          \* the home automation server answers
  \* settings, read again whenever the web server saves any
  timeoutOn,      \* _networkTimeout > 0
  restartOnDisconnect,
  \* history
  goodFor,        \* ticks for which every enabled service could work
  sinceGood,      \* ticks since that lasted for longer than Patience
  hopelessFor     \* ticks for which the timeout was on and HAR could not work

historyVars == <<goodFor, sinceGood, hopelessFor>>
timeVars == <<sinceCheck, sinceOk, uptime, looped, historyVars>>
apiVars  == <<apiEnabled, apiOk, server>>
harVars  == <<harEnabled, harOk, transport>>
taskVars == <<nukiPc, webPc>>
envVars  == <<connected, harUp, timeoutOn, restartOnDisconnect>>
vars == <<netPc, services, retest, timeVars, apiVars, harVars, taskVars, envVars>>

\* Mutant of State: the last case falls through to the initial value.
StateFallsThrough(api, har) == IF api THEN IF har THEN "OK" ELSE "ERROR_HAR_CLIENT"
                               ELSE IF har THEN "ERROR_REST_API_SERVER" ELSE "UNKNOWN"

State(api, har) == IF api THEN IF har THEN "OK" ELSE "ERROR_HAR_CLIENT"
                   ELSE IF har THEN "ERROR_REST_API_SERVER" ELSE "ERROR_BOTH"

ServiceStates == {"OK", "ERROR_REST_API_SERVER", "ERROR_HAR_CLIENT", "ERROR_BOTH"}

\* RestApiServer::test and HarClient::test; a disabled service has not failed.
ApiTest == apiEnabled => (server = "live" /\ connected)
HarTest == harEnabled => (transport = "live" /\ connected /\ harUp)

\* testNetworkServices
TestServices == /\ apiOk' = ApiTest /\ harOk' = HarTest
                /\ services' = State(ApiTest, HarTest)

-----------------------------------------------------------------------------
(***************************************************************************)
(* networkTask: NukiNetwork::update                                        *)
(***************************************************************************)
NetStep(from, to) == netPc = from /\ netPc' = to

AnyEnabled == apiEnabled \/ harEnabled

\* No service is enabled: update() returns at once.
NetOff == /\ netPc = "top" /\ ~AnyEnabled
          /\ looped' = TRUE
          /\ UNCHANGED <<netPc, services, retest, sinceCheck, sinceOk, uptime,
                         historyVars, apiVars, harVars, taskVars, envVars>>

\* No connection: update() returns too, or restartEsp(RestartOnDisconnectWatchdog).
NetDisconnected ==
  /\ netPc = "top" /\ AnyEnabled /\ ~connected
  /\ netPc' = IF restartOnDisconnect /\ uptime >= Grace THEN "esp" ELSE "top"
  /\ looped' = TRUE
  /\ UNCHANGED <<services, retest, sinceCheck, sinceOk, uptime, historyVars,
                 apiVars, harVars, taskVars, envVars>>

\* handleClient() of the web server, if there is one.
NetServe == /\ netPc = "top" /\ AnyEnabled /\ connected
            /\ netPc' = IF apiEnabled /\ server = "live" THEN "serving" ELSE "retest"
            /\ UNCHANGED <<services, retest, timeVars, apiVars, harVars, taskVars,
                           envVars>>

\* A request has been answered; bridge/disableApi leaves the server as it is.
NetServed(disable) ==
  /\ NetStep("serving", "retest")
  /\ apiEnabled' = (apiEnabled /\ ~disable)
  /\ UNCHANGED <<services, retest, timeVars, apiOk, server, harVars, taskVars,
                 envVars>>

\* Mutant of NetRetest: the result of the retest is thrown away.
NetRetestForgets ==
  /\ NetStep("retest", "check")
  /\ retest' = IF retest = "due" THEN "none" ELSE retest
  /\ UNCHANGED <<services, apiOk, harOk, timeVars, apiEnabled, server, harEnabled,
                 transport, taskVars, envVars>>

NetRetest ==
  /\ NetStep("retest", "check")
  /\ \/ retest = "due" /\ retest' = "none" /\ TestServices
     \/ retest # "due" /\ UNCHANGED <<retest, services, apiOk, harOk>>
  /\ UNCHANGED <<timeVars, apiEnabled, server, harEnabled, transport, taskVars,
                 envVars>>

CheckDue == retest = "none" /\ AnyEnabled /\ sinceCheck >= CheckEvery

NetNoCheck == /\ NetStep("check", "har") /\ ~CheckDue
              /\ UNCHANGED <<services, retest, timeVars, apiVars, harVars, taskVars,
                             envVars>>

\* The regular health check; whatever fails is restarted and tested again.
NetCheck ==
  /\ CheckDue
  /\ sinceCheck' = 0
  /\ TestServices
  /\ \/ services' = "OK" /\ NetStep("check", "har") /\ UNCHANGED retest
     \/ services' # "OK" /\ NetStep("check", "restartHar") /\ retest' = "pending"
  /\ UNCHANGED <<sinceOk, uptime, looped, historyVars, apiEnabled, server, harEnabled,
                 transport, taskVars, envVars>>

HarFailed == harEnabled /\ services \in {"ERROR_HAR_CLIENT", "ERROR_BOTH"}
ApiFailed == apiEnabled /\ services \in {"ERROR_REST_API_SERVER", "ERROR_BOTH"}

\* HarClient::restart: the old transport is deleted ...
NetDeleteHar ==
  /\ netPc = "restartHar"
  /\ \/ HarFailed /\ netPc' = "createHar" /\ transport' = "none"
     \/ ~HarFailed /\ netPc' = "restartApi" /\ UNCHANGED transport
  /\ UNCHANGED <<services, retest, timeVars, apiVars, harEnabled, harOk, taskVars,
                 envVars>>

\* Mutant of NetCreateHar: it reports success for the state, too.
NetCreateHarOk ==
  /\ NetStep("createHar", "restartApi")
  /\ transport' = "live" /\ harOk' = TRUE /\ services' = "OK"
  /\ UNCHANGED <<retest, timeVars, apiVars, harEnabled, taskVars, envVars>>

\* Mutant of NetCreateHar: no transport is created if there was none.
NetCreateHarNot == /\ NetStep("createHar", "restartApi")
                   /\ UNCHANGED <<transport, harOk, services, retest, timeVars,
                                  apiVars, harEnabled, taskVars, envVars>>

\* ... and a new one created.
NetCreateHar == /\ NetStep("createHar", "restartApi")
                /\ transport' = "live" /\ harOk' = TRUE
                /\ UNCHANGED <<services, retest, timeVars, apiVars, harEnabled,
                               taskVars, envVars>>

\* RestApiServer::restart in the same two steps.
NetDeleteApi ==
  /\ netPc = "restartApi"
  /\ \/ ApiFailed /\ netPc' = "createApi" /\ server' = "none"
     \/ ~ApiFailed /\ netPc' = "har" /\ UNCHANGED server
  /\ UNCHANGED <<services, retest, timeVars, apiEnabled, apiOk, harVars, taskVars,
                 envVars>>

\* Mutant of NetCreateApi: no server is created if there was none.
NetCreateApiNot == /\ NetStep("createApi", "har")
                   /\ UNCHANGED <<server, apiOk, services, retest, timeVars,
                                  apiEnabled, harVars, taskVars, envVars>>

NetCreateApi == /\ NetStep("createApi", "har")
                /\ server' = "live" /\ apiOk' = TRUE
                /\ UNCHANGED <<services, retest, timeVars, apiEnabled, harVars,
                               taskVars, envVars>>

\* HarClient::update: reports of networkTask itself, if any is due.
NetReport(due) ==
  /\ NetStep("har", IF due /\ harEnabled /\ harOk THEN "sendData" ELSE "watchdog")
  /\ UNCHANGED <<services, retest, timeVars, apiVars, harVars, taskVars, envVars>>

NetReported == /\ NetStep("sendData", "watchdog")
               /\ UNCHANGED <<services, retest, timeVars, apiVars, harVars, taskVars,
                              envVars>>

Expired == timeoutOn /\ uptime >= Grace /\ sinceOk > Timeout

\* Mutant of NetWatchdog: the time of the last success is not noted.
NetWatchdogForgets ==
  /\ netPc = "watchdog"
  /\ \/ services = "OK" /\ netPc' = "top"
     \/ services # "OK" /\ ~Expired /\ netPc' = "top"
     \/ services # "OK" /\ Expired /\ netPc' = "esp"
  /\ looped' = TRUE
  /\ UNCHANGED <<services, sinceOk, retest, sinceCheck, uptime, historyVars, apiVars,
                 harVars, taskVars, envVars>>

\* The network service timeout: restartEsp(NetworkTimeoutWatchdog).
NetWatchdog ==
  /\ netPc = "watchdog"
  /\ \/ services = "OK" /\ netPc' = "top" /\ sinceOk' = 0
     \/ services # "OK" /\ ~Expired /\ netPc' = "top" /\ UNCHANGED sinceOk
     \/ services # "OK" /\ Expired /\ netPc' = "esp" /\ UNCHANGED sinceOk
  /\ looped' = TRUE
  /\ UNCHANGED <<services, retest, sinceCheck, uptime, historyVars, apiVars, harVars,
                 taskVars, envVars>>

\* NukiNetwork::initialize: ten seconds for the connection, then both services
\* are started (REST only with an address) and tested.  The settings may have
\* been changed in the meantime.
Started(api, har) ==
  /\ apiEnabled' = api /\ harEnabled' = har
  /\ server' = IF api /\ connected THEN "live" ELSE "none"
  /\ transport' = IF har THEN "live" ELSE "none"
  /\ apiOk' = (api => connected)
  /\ harOk' = (har => connected /\ harUp)
  /\ services' = State(apiOk', harOk')
  /\ retest' = "none" /\ sinceCheck' = 0 /\ sinceOk' = 0 /\ uptime' = 0
  /\ looped' = FALSE /\ nukiPc' = "idle" /\ webPc' = "idle"
  /\ goodFor' = 0 /\ sinceGood' = 0 /\ hopelessFor' = 0

Boot(api, har) == /\ NetStep("esp", "top")
                  /\ Started(api, har)
                  /\ UNCHANGED envVars

-----------------------------------------------------------------------------
(***************************************************************************)
(* The other tasks                                                         *)
(***************************************************************************)
Up == netPc # "esp"

\* HarClient::sendData called by NukiWrapper::update, past its guard.
NukiSend == /\ Up /\ nukiPc = "idle" /\ harEnabled /\ harOk
            /\ nukiPc' = "sendData"
            /\ UNCHANGED <<netPc, services, retest, timeVars, apiVars, harVars, webPc,
                           envVars>>

NukiSent == /\ Up /\ nukiPc = "sendData"
            /\ nukiPc' = "idle"
            /\ UNCHANGED <<netPc, services, retest, timeVars, apiVars, harVars, webPc,
                           envVars>>

\* Saving the setting APIENA: RestApiServer::disable takes two steps.
WebDisableApi == /\ Up /\ webPc = "idle" /\ apiEnabled
                 /\ apiEnabled' = FALSE /\ webPc' = "stop"
                 /\ UNCHANGED <<netPc, services, retest, timeVars, apiOk, server,
                                harVars, nukiPc, envVars>>

WebStopApi == /\ Up /\ webPc = "stop"
              /\ server' = "none" /\ webPc' = "idle"
              /\ UNCHANGED <<netPc, services, retest, timeVars, apiEnabled, apiOk,
                             harVars, nukiPc, envVars>>

\* Saving the setting HARENA.
WebDisableHar == /\ Up /\ webPc = "idle" /\ harEnabled
                 /\ harEnabled' = FALSE /\ hopelessFor' = 0
                 /\ UNCHANGED <<netPc, services, retest, sinceCheck, sinceOk, uptime,
                                looped, goodFor, sinceGood, apiVars, harOk, transport,
                                taskVars, envVars>>

\* Saving a network setting: NukiNetwork::readSettings.
WebSaveSettings ==
  /\ Up /\ webPc = "idle"
  /\ \/ timeoutOn' = ~timeoutOn /\ hopelessFor' = 0 /\ UNCHANGED restartOnDisconnect
     \/ restartOnDisconnect' = ~restartOnDisconnect
        /\ UNCHANGED <<timeoutOn, hopelessFor>>
  /\ UNCHANGED <<netPc, services, retest, sinceCheck, sinceOk, uptime, looped, goodFor,
                 sinceGood, apiVars, harVars, taskVars, connected, harUp>>

-----------------------------------------------------------------------------
\* The connection and the home automation server come and go.
Change == /\ \/ connected' = ~connected /\ UNCHANGED harUp
             \/ harUp' = ~harUp /\ UNCHANGED connected
          /\ goodFor' = 0 /\ hopelessFor' = 0
          /\ UNCHANGED <<netPc, services, retest, sinceCheck, sinceOk, uptime, looped,
                         sinceGood, apiVars, harVars, taskVars, timeoutOn,
                         restartOnDisconnect>>

\* By then both a check and a retest have seen what works.
Patience == CheckEvery + 3

\* HAR cannot work, and the watchdog is there for that.
Hopeless == timeoutOn /\ connected /\ harEnabled /\ ~harUp

\* A check has seen it, the timeout is over and so is the grace.
Deadline == IF CheckEvery + Timeout + 1 > Grace THEN CheckEvery + Timeout + 1 ELSE Grace

Older(age, bound) == IF age < bound THEN age + 1 ELSE age

Tick ==
  /\ Up /\ looped
  /\ looped' = FALSE
  /\ retest' = IF retest = "pending" THEN "due" ELSE retest
  /\ sinceCheck' = Older(sinceCheck, CheckEvery)
  /\ sinceOk' = Older(sinceOk, Timeout + 1)
  /\ uptime' = Older(uptime, Grace)
  /\ goodFor' = IF connected /\ (harEnabled => harUp)
                THEN Older(goodFor, Patience + 1) ELSE 0
  /\ sinceGood' = IF goodFor' > Patience THEN 0 ELSE Older(sinceGood, Timeout + 1)
  /\ hopelessFor' = IF Hopeless THEN Older(hopelessFor, Deadline + 1) ELSE 0
  /\ UNCHANGED <<netPc, services, apiVars, harVars, taskVars, envVars>>

Init ==
  /\ netPc = "top"
  /\ connected \in BOOLEAN /\ harUp \in BOOLEAN /\ timeoutOn \in BOOLEAN
  /\ restartOnDisconnect \in BOOLEAN
  /\ apiEnabled \in BOOLEAN /\ harEnabled \in BOOLEAN
  /\ server = IF apiEnabled /\ connected THEN "live" ELSE "none"
  /\ transport = IF harEnabled THEN "live" ELSE "none"
  /\ apiOk = ApiTest /\ harOk = HarTest /\ services = State(ApiTest, HarTest)
  /\ retest = "none" /\ sinceCheck = 0 /\ sinceOk = 0 /\ uptime = 0
  /\ looped = FALSE /\ nukiPc = "idle" /\ webPc = "idle"
  /\ goodFor = 0 /\ sinceGood = 0 /\ hopelessFor = 0

NetNext ==
  \/ NetOff \/ NetDisconnected \/ NetServe \/ NetRetest \/ NetNoCheck
  \/ NetCheck \/ NetDeleteHar \/ NetCreateHar \/ NetDeleteApi \/ NetCreateApi
  \/ NetReported \/ NetWatchdog
  \/ \E disable \in BOOLEAN : NetServed(disable)
  \/ \E due \in BOOLEAN : NetReport(due)
  \/ \E api, har \in BOOLEAN : Boot(api, har)

NukiNext == NukiSend \/ NukiSent
WebNext == WebDisableApi \/ WebStopApi \/ WebDisableHar \/ WebSaveSettings

Next == NetNext \/ NukiNext \/ WebNext \/ Change \/ Tick

Spec == Init /\ [][Next]_vars

\* networkTask is an endless loop, the other tasks come out of the calls they
\* are in, and time passes.
FairSpec == Spec /\ WF_vars(NetNext) /\ WF_vars(NukiSent) /\ WF_vars(WebStopApi)
                 /\ WF_vars(Tick)

-----------------------------------------------------------------------------
FlagsOK ==
  /\ looped \in BOOLEAN /\ apiEnabled \in BOOLEAN /\ apiOk \in BOOLEAN
  /\ harEnabled \in BOOLEAN /\ harOk \in BOOLEAN
  /\ connected \in BOOLEAN /\ harUp \in BOOLEAN
  /\ timeoutOn \in BOOLEAN /\ restartOnDisconnect \in BOOLEAN

DataOK ==
  /\ netPc \in {"top", "serving", "retest", "check", "restartHar", "createHar",
                "restartApi", "createApi", "har", "sendData", "watchdog", "esp"}
  /\ services \in ServiceStates /\ retest \in {"none", "pending", "due"}
  /\ sinceCheck \in 0..CheckEvery /\ sinceOk \in 0..(Timeout + 1)
  /\ uptime \in 0..Grace /\ goodFor \in 0..(Patience + 1)
  /\ sinceGood \in 0..(Timeout + 1) /\ hopelessFor \in 0..(Deadline + 1)
  /\ server \in {"none", "live"} /\ transport \in {"none", "live"}
  /\ nukiPc \in {"idle", "sendData"} /\ webPc \in {"idle", "stop"}

TypeOK == FlagsOK /\ DataOK

-----------------------------------------------------------------------------
(***************************************************************************)
(* Properties                                                              *)
(***************************************************************************)

\* The watchdog restarts the ESP only if the enabled services have not been able
\* to work for Timeout, except for spells too short to be seen by a check and a
\* retest, although it acts on a state that only those bring up to date
\* (NukiNetwork::update).
WatchdogJustified ==
  [][(netPc = "watchdog" /\ netPc' = "esp") => sinceGood >= Timeout]_vars

\* A HAR client that stays enabled without reaching its server is not left like that
\* for longer than a check interval, the timeout and a turn of update(), however often
\* it is recreated and whenever the failure began: then the ESP is restarted, or as
\* soon as the grace after the boot is over (NukiNetwork::update).
WatchdogPunctual == hopelessFor <= Deadline

\* REST requests are served for good while the API is enabled and the bridge is
\* connected, whatever happens to HAR: "A dead HAR/HA target must never block
\* the REST API" (NukiNetwork::update, RestApiServer::restart).
ApiServed ==
  <>[](connected /\ apiEnabled) => []<>(netPc = "serving" /\ apiOk)

\* Reports are sent again, and for good, once the server answers
\* (NukiNetwork::update, HarClient::restart).
HarRecovers ==
  <>[](connected /\ harEnabled /\ harUp) => <>[](harOk /\ transport = "live")
=============================================================================
