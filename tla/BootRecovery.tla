---------------------------- MODULE BootRecovery ----------------------------
(***************************************************************************)
(* What survives a reboot, and what each boot makes of it.                 *)
(*                                                                         *)
(* setup() of main.cpp runs in stages: the restart reason, the RTC flags   *)
(* and the bootloop counter, the choice of the network device              *)
(* (NukiNetwork::setupDevice), its hardware (EthernetDevice or WifiDevice  *)
(* ::initialize) and the web configurator.  Any stage may crash, and       *)
(* several end in restartEsp, so what one boot leaves in RTC memory        *)
(* (wifiFallback, ethCriticalFailure, forceEnableWebCfgServer, the         *)
(* bootloop counter, the restart reason) and in the preferences decides    *)
(* about the next.                                                         *)
(*                                                                         *)
(* ESP_RST_PANIC and the watchdog resets are one reset reason here,        *)
(* "panic"; disableNetwork is FALSE after every power-on and never set.    *)
(***************************************************************************)
EXTENDS Naturals

CONSTANTS BootloopLimit,  \* bootloopCounter at which a bootloop is detected
          Crashes,        \* the firmware may crash outside ETH.begin()
          BadDumps,       \* a crash may leave an invalid core dump
          UserActs        \* settings are changed while the bridge is running

ASSUME BootAssumption ==
  /\ BootloopLimit \in Nat \ {0}
  /\ Crashes \in BOOLEAN /\ BadDumps \in BOOLEAN /\ UserActs \in BOOLEAN

VARIABLES
  \* preferences (NVS)
  hardware,       \* preference_network_hardware: "WiFi" or "ETH"
  reconfigure,    \* preference_ntw_reconfigure
  wifiConfigured, \* SSID and password are stored
  webPref,        \* preference_webcfgserver_enabled
  limits,         \* the buffer, stack and entry limits: "custom" or "default"
  \* RTC memory
  espRunning,     \* espRunning = 1
  force,          \* forceEnableWebCfgServer
  fallback,       \* wifiFallback
  ethCritical,    \* ethCriticalFailure
  loopValid,      \* bootloopValidDetect holds the magic value
  loopCounter,    \* bootloopCounter
  reasonValid,    \* restartReasonValidDetect holds the magic value
  reason,         \* restartReason
  \* RAM
  pc,             \* the stage of setup(), or "running"
  reset,          \* esp_reset_reason()
  currentReason,  \* currentRestartReason
  device,         \* the network device: "none", "WiFi" or "ETH"
  webStarted,     \* webCfgStarted
  webEnabled,     \* NukiNetwork::_webCfgEnabled
  connected,      \* the network device is connected
  late,           \* the bridge has been up for two minutes
  \* outside
  eth,            \* what ETH.begin() does: "ok", "fails" or "crashes"
  dump,           \* the core dump of the last crash is valid
  \* history
  begunBadly,     \* ETH.begin() crashed and no boot has given up Ethernet since
  owed            \* restartEsp was called and its reason not yet reported

prefVars == <<hardware, reconfigure, wifiConfigured, webPref, limits>>
flagVars == <<espRunning, force, fallback, ethCritical>>
loopVars == <<loopValid, loopCounter>>
reasonVars == <<reasonValid, reason, currentReason, owed>>
upVars == <<device, webStarted, webEnabled, connected, late>>
vars == <<prefVars, flagVars, loopVars, reasonVars, upVars, pc, reset, eth,
          dump, begunBadly>>

Stages == {"reason", "flags", "device", "hardware", "services"}

\* restartEsp(r): the reason is stored, the next boot begins.
Restart(r) ==
  /\ reason' = r /\ reasonValid' = TRUE /\ owed' = TRUE
  /\ pc' = "reason" /\ reset' = "sw"
  /\ UNCHANGED currentReason

\* A panic or a watchdog reset: RTC memory survives it.
Panic ==
  /\ pc' = "reason" /\ reset' = "panic"
  /\ IF BadDumps THEN dump' \in BOOLEAN ELSE dump' = TRUE
  /\ UNCHANGED reasonVars

-----------------------------------------------------------------------------
(***************************************************************************)
(* The stages of setup()                                                   *)
(***************************************************************************)

\* Mutant of AdoptReason: the mark stays.
AdoptReasonKeepsMark ==
  /\ currentReason' = IF reasonValid THEN reason ELSE "NotApplicable"
  /\ owed' = FALSE
  /\ UNCHANGED <<reason, reasonValid>>

\* initializeRestartReason: the reason is taken over and its mark removed.
AdoptReason ==
  /\ currentReason' = IF reasonValid THEN reason ELSE "NotApplicable"
  /\ reasonValid' = FALSE /\ owed' = FALSE
  /\ UNCHANGED reason

\* After a panic the core dump is saved; an invalid one is erased, and that
\* ends in a restart of its own (logCoreDump).
BootReason ==
  /\ pc = "reason"
  /\ device' = "none" /\ webStarted' = FALSE /\ connected' = FALSE /\ late' = FALSE
  /\ \/ /\ reset = "panic" => dump
        /\ AdoptReason
        /\ pc' = "flags"
        /\ UNCHANGED <<reset, dump>>
     \/ /\ reset = "panic" /\ ~dump
        /\ Restart("EraseInvalidCoreDump")
        /\ dump' = TRUE
  /\ UNCHANGED <<prefVars, flagVars, loopVars, webEnabled, eth, begunBadly>>

\* Mutant of DetectBootloop: the counter may reach the limit unnoticed.
DetectBootloopPastLimit ==
  \/ /\ ~loopValid
     /\ loopValid' = TRUE /\ loopCounter' = 0
     /\ UNCHANGED limits
  \/ /\ loopValid /\ reset # "panic"
     /\ UNCHANGED <<loopValid, loopCounter, limits>>
  \/ /\ loopValid /\ reset = "panic" /\ loopCounter < BootloopLimit
     /\ loopCounter' = loopCounter + 1
     /\ UNCHANGED <<loopValid, limits>>
  \/ /\ loopValid /\ reset = "panic" /\ loopCounter = BootloopLimit
     /\ limits' = "default" /\ loopCounter' = 0
     /\ UNCHANGED loopValid

\* Mutant of DetectBootloop: the magic value is not stored.
DetectBootloopUnmarked ==
  \/ /\ ~loopValid
     /\ loopCounter' = 0
     /\ UNCHANGED <<limits, loopValid>>
  \/ /\ loopValid /\ reset # "panic"
     /\ UNCHANGED <<loopValid, loopCounter, limits>>
  \/ /\ loopValid /\ reset = "panic" /\ loopCounter + 1 < BootloopLimit
     /\ loopCounter' = loopCounter + 1
     /\ UNCHANGED <<loopValid, limits>>
  \/ /\ loopValid /\ reset = "panic" /\ loopCounter + 1 = BootloopLimit
     /\ limits' = "default" /\ loopCounter' = 0
     /\ UNCHANGED loopValid

\* bootloopDetection
DetectBootloop ==
  \/ /\ ~loopValid
     /\ loopValid' = TRUE /\ loopCounter' = 0
     /\ UNCHANGED limits
  \/ /\ loopValid /\ reset # "panic"
     /\ UNCHANGED <<loopValid, loopCounter, limits>>
  \/ /\ loopValid /\ reset = "panic" /\ loopCounter + 1 < BootloopLimit
     /\ loopCounter' = loopCounter + 1
     /\ UNCHANGED <<loopValid, limits>>
  \/ /\ loopValid /\ reset = "panic" /\ loopCounter + 1 = BootloopLimit
     /\ limits' = "default" /\ loopCounter' = 0
     /\ UNCHANGED loopValid

\* Power-on leaves RTC memory undefined: the flags are reset, then bootloops
\* are looked for (preference_enable_bootloop_reset is on).
BootFlags ==
  /\ pc = "flags" /\ pc' = "device"
  /\ \/ espRunning /\ UNCHANGED flagVars
     \/ /\ ~espRunning /\ espRunning' = TRUE
        /\ force' = FALSE /\ fallback' = FALSE /\ ethCritical' = FALSE
  /\ DetectBootloop
  /\ UNCHANGED <<hardware, reconfigure, wifiConfigured, webPref, reasonVars,
                 upVars, reset, eth, dump, begunBadly>>

\* Mutant of BootDevice: the Wi-Fi fallback does not ask for the first boot.
BootDeviceAlwaysFallback ==
  /\ pc = "device"
  /\ webEnabled' = webPref
  /\ device' = IF fallback THEN "WiFi" ELSE hardware
  /\ pc' = "hardware"
  /\ UNCHANGED <<prefVars, flagVars, loopVars, reasonVars, webStarted, connected,
                 late, reset, eth, dump, begunBadly>>

\* Mutant of BootDevice: the fallback is refused but not forgotten.
BootDeviceKeepsFallback ==
  /\ pc = "device"
  /\ webEnabled' = webPref
  /\ \/ /\ fallback /\ ~reconfigure
        /\ Restart("NetworkDeviceCriticalFailureNoWifiFallback")
        /\ UNCHANGED device
     \/ /\ fallback => reconfigure
        /\ device' = IF fallback THEN "WiFi" ELSE hardware
        /\ pc' = "hardware"
        /\ UNCHANGED <<reasonVars, reset>>
  /\ UNCHANGED <<prefVars, flagVars, loopVars, webStarted, connected, late, eth,
                 dump, begunBadly>>

\* NukiNetwork::setupDevice: the fallback to Wi-Fi is used on the first boot
\* after a change of the hardware only.
BootDevice ==
  /\ pc = "device"
  /\ webEnabled' = webPref
  /\ \/ /\ fallback /\ ~reconfigure
        /\ fallback' = FALSE
        /\ Restart("NetworkDeviceCriticalFailureNoWifiFallback")
        /\ UNCHANGED device
     \/ /\ fallback => reconfigure
        /\ device' = IF fallback THEN "WiFi" ELSE hardware
        /\ pc' = "hardware"
        /\ UNCHANGED <<fallback, reasonVars, reset>>
  /\ UNCHANGED <<prefVars, espRunning, force, ethCritical, loopVars, webStarted,
                 connected, late, eth, dump, begunBadly>>

\* WifiDevice::initialize; without credentials it opens the access point.
WifiInit ==
  /\ pc = "hardware" /\ device = "WiFi"
  /\ pc' = "services"
  /\ UNCHANGED <<prefVars, flagVars, loopVars, reasonVars, upVars, reset, eth,
                 dump, begunBadly>>

\* EthernetDevice::initialize: the previous ETH.begin() crashed.
EthGiveUp ==
  /\ pc = "hardware" /\ device = "ETH" /\ ethCritical
  /\ ethCritical' = FALSE /\ fallback' = TRUE /\ begunBadly' = FALSE
  /\ Restart("NetworkDeviceCriticalFailure")
  /\ UNCHANGED <<prefVars, espRunning, force, loopVars, upVars, eth, dump>>

\* Mutant of EthBegin: ethCriticalFailure is set after ETH.begin(), if at all.
EthBeginUnguarded ==
  /\ pc = "hardware" /\ device = "ETH" /\ ~ethCritical
  /\ \/ /\ eth = "ok" /\ fallback' = FALSE /\ pc' = "services"
        /\ UNCHANGED <<begunBadly, reset, dump, reasonVars>>
     \/ /\ eth = "fails" /\ fallback' = TRUE
        /\ Restart("NetworkDeviceCriticalFailure")
        /\ UNCHANGED <<begunBadly, dump>>
     \/ /\ eth = "crashes" /\ begunBadly' = TRUE
        /\ Panic
        /\ UNCHANGED fallback
  /\ UNCHANGED <<prefVars, espRunning, force, ethCritical, loopVars, upVars, eth>>

\* EthernetDevice::initialize: ethCriticalFailure is set around ETH.begin(), so
\* a crash inside leaves it set.
EthBegin ==
  /\ pc = "hardware" /\ device = "ETH" /\ ~ethCritical
  /\ \/ /\ eth = "ok" /\ fallback' = FALSE /\ pc' = "services"
        /\ UNCHANGED <<ethCritical, begunBadly, reset, dump, reasonVars>>
     \/ /\ eth = "fails" /\ fallback' = TRUE
        /\ Restart("NetworkDeviceCriticalFailure")
        /\ UNCHANGED <<ethCritical, begunBadly, dump>>
     \/ /\ eth = "crashes" /\ ethCritical' = TRUE /\ begunBadly' = TRUE
        /\ Panic
        /\ UNCHANGED fallback
  /\ UNCHANGED <<prefVars, espRunning, force, loopVars, upVars, eth>>

ApOpen == device = "WiFi" /\ ~wifiConfigured

\* Mutant of BootServices: an open access point does not force the web server.
BootServicesUnforced ==
  /\ pc = "services" /\ pc' = "running"
  /\ webStarted' = (force \/ webPref)
  /\ UNCHANGED <<prefVars, flagVars, loopVars, reasonVars, device, webEnabled,
                 connected, late, reset, eth, dump, begunBadly>>

\* An open access point forces the web configurator; startWebCfgServer.
BootServices ==
  /\ pc = "services" /\ pc' = "running"
  /\ force' = (force \/ ApOpen)
  /\ webStarted' = (force' \/ webPref)
  /\ UNCHANGED <<prefVars, espRunning, fallback, ethCritical, loopVars,
                 reasonVars, device, webEnabled, connected, late, reset, eth,
                 dump, begunBadly>>

-----------------------------------------------------------------------------
(***************************************************************************)
(* The running bridge                                                      *)
(***************************************************************************)
Running == pc = "running"

\* The device gets its address; Ethernet has now proved itself.
Connect ==
  /\ Running /\ ~connected /\ ~ApOpen
  /\ connected' = TRUE
  /\ reconfigure' = IF device = "ETH" THEN FALSE ELSE reconfigure
  /\ UNCHANGED <<hardware, wifiConfigured, webPref, limits, flagVars, loopVars,
                 reasonVars, device, webStarted, webEnabled, late, pc, reset,
                 eth, dump, begunBadly>>

\* The link is lost; with "Restart on disconnect" that is a restart.
Disconnect ==
  /\ Running /\ connected
  /\ \/ /\ connected' = FALSE
        /\ UNCHANGED <<reasonVars, pc, reset>>
     \/ /\ Restart("RestartOnDisconnectWatchdog")
        /\ UNCHANGED connected
  /\ UNCHANGED <<prefVars, flagVars, loopVars, device, webStarted, webEnabled,
                 late, eth, dump, begunBadly>>

\* NukiNetwork::update: a forced web configurator that is disabled.
WebCfgRequest == Running /\ connected /\ force /\ ~webEnabled

UnforceWeb ==
  /\ WebCfgRequest
  /\ force' = FALSE
  /\ Restart("ReconfigureWebCfgServer")
  /\ UNCHANGED <<prefVars, espRunning, fallback, ethCritical, loopVars, upVars,
                 eth, dump, begunBadly>>

\* NukiNetwork::update: the services have been failing for _networkTimeout.
NetworkTimeout ==
  /\ Running /\ connected /\ ~WebCfgRequest
  /\ force' = (force \/ ~webEnabled)
  /\ Restart("NetworkTimeoutWatchdog")
  /\ UNCHANGED <<prefVars, espRunning, fallback, ethCritical, loopVars, upVars,
                 eth, dump, begunBadly>>

\* bridge/enableWebServer
EnableWebServer(on) ==
  /\ UserActs /\ Running /\ connected
  /\ on # (webPref \/ force)
  /\ webPref' = on /\ fallback' = FALSE
  /\ Restart("ReconfigureWebCfgServer")
  /\ UNCHANGED <<hardware, reconfigure, wifiConfigured, limits, espRunning, force,
                 ethCritical, loopVars, upVars, eth, dump, begunBadly>>

\* The hardware is stored first, and a first boot announced for Ethernet; Wi-Fi
\* credentials are stored if they work.  The connection page then restarts the
\* bridge, unless the credentials failed; the network page leaves that for later.
SaveConnection(mode, works) ==
  /\ UserActs /\ Running /\ webStarted
  /\ hardware' = mode
  /\ reconfigure' = (reconfigure \/ (mode # hardware /\ mode = "ETH"))
  /\ wifiConfigured' = (wifiConfigured \/ (mode = "WiFi" /\ works))
  /\ \/ /\ mode = "ETH" \/ works
        /\ Restart("Reconfigure")
     \/ UNCHANGED <<reasonVars, pc, reset>>
  /\ UNCHANGED <<webPref, limits, flagVars, loopVars, upVars, eth, dump, begunBadly>>

\* processFactoryReset: the preferences are cleared, RTC memory is not.
FactoryReset(keepWifi) ==
  /\ UserActs /\ Running /\ webStarted
  /\ hardware' = "WiFi" /\ reconfigure' = FALSE /\ webPref' = TRUE
  /\ wifiConfigured' = (wifiConfigured /\ keepWifi) /\ limits' = "default"
  /\ Restart("NukiBridgeReset")
  /\ UNCHANGED <<flagVars, loopVars, upVars, eth, dump, begunBadly>>

\* networkTask resets the bootloop counter if a turn of its loop begins between
\* 120 s and 125 s of uptime.
TwoMinutes(turn) ==
  /\ Running /\ ~late
  /\ late' = TRUE
  /\ loopCounter' = IF turn THEN 0 ELSE loopCounter
  /\ UNCHANGED <<prefVars, flagVars, loopValid, reasonVars, device, webStarted,
                 webEnabled, connected, pc, reset, eth, dump, begunBadly>>

\* A limit is raised in the advanced configuration.
RaiseLimits == /\ UserActs /\ Running /\ webStarted
               /\ limits' = "custom"
               /\ UNCHANGED <<hardware, reconfigure, wifiConfigured, webPref,
                              flagVars, loopVars, reasonVars, upVars, pc, reset,
                              eth, dump, begunBadly>>

-----------------------------------------------------------------------------
Crash == /\ Crashes /\ pc \in Stages \cup {"running"}
         /\ Panic
         /\ UNCHANGED <<prefVars, flagVars, loopVars, upVars, eth, begunBadly>>

\* RTC memory is lost: marks do not hold their magic values, flags are random.
PowerCycle ==
  /\ pc' = "reason" /\ reset' = "poweron"
  /\ espRunning' = FALSE /\ reasonValid' = FALSE /\ loopValid' = FALSE
  /\ force' \in BOOLEAN /\ fallback' \in BOOLEAN /\ ethCritical' \in BOOLEAN
  /\ begunBadly' = FALSE /\ owed' = FALSE
  /\ UNCHANGED <<prefVars, loopCounter, reason, currentReason, upVars, eth, dump>>

EthChanges == /\ eth' \in {"ok", "fails", "crashes"}
              /\ UNCHANGED <<prefVars, flagVars, loopVars, reasonVars, upVars, pc,
                             reset, dump, begunBadly>>

Init ==
  /\ hardware \in {"WiFi", "ETH"} /\ reconfigure = (hardware = "ETH")
  /\ wifiConfigured \in BOOLEAN /\ webPref \in BOOLEAN /\ limits = "custom"
  /\ espRunning = FALSE /\ force = FALSE /\ fallback = FALSE /\ ethCritical = FALSE
  /\ loopValid = FALSE /\ loopCounter = 0
  /\ reasonValid = FALSE /\ reason = "NotApplicable"
  /\ pc = "reason" /\ reset = "poweron" /\ currentReason = "NotApplicable"
  /\ device = "none" /\ webStarted = FALSE /\ webEnabled = FALSE
  /\ connected = FALSE /\ late = FALSE
  /\ eth \in {"ok", "fails", "crashes"} /\ dump = TRUE
  /\ begunBadly = FALSE /\ owed = FALSE

Boot == BootReason \/ BootFlags \/ BootDevice \/ WifiInit \/ EthGiveUp
          \/ EthBegin \/ BootServices

Run == \/ Connect \/ Disconnect \/ UnforceWeb \/ NetworkTimeout
       \/ \E turn \in BOOLEAN : TwoMinutes(turn)
       \/ \E on \in BOOLEAN : EnableWebServer(on)
       \/ \E mode \in {"WiFi", "ETH"}, works \in BOOLEAN : SaveConnection(mode, works)
       \/ \E keepWifi \in BOOLEAN : FactoryReset(keepWifi)
       \/ RaiseLimits

Next == Boot \/ Run \/ Crash \/ PowerCycle \/ EthChanges

Spec == Init /\ [][Next]_vars

\* setup() goes on by itself.
FairSpec == Spec /\ WF_vars(Boot)

-----------------------------------------------------------------------------
Reasons == {"NotApplicable", "EraseInvalidCoreDump", "NetworkDeviceCriticalFailure",
            "NetworkDeviceCriticalFailureNoWifiFallback", "Reconfigure",
            "RestartOnDisconnectWatchdog", "ReconfigureWebCfgServer",
            "NetworkTimeoutWatchdog", "NukiBridgeReset"}

FlagsOK ==
  /\ reconfigure \in BOOLEAN /\ wifiConfigured \in BOOLEAN /\ webPref \in BOOLEAN
  /\ espRunning \in BOOLEAN /\ force \in BOOLEAN /\ fallback \in BOOLEAN
  /\ ethCritical \in BOOLEAN /\ loopValid \in BOOLEAN /\ reasonValid \in BOOLEAN
  /\ webStarted \in BOOLEAN /\ webEnabled \in BOOLEAN /\ connected \in BOOLEAN
  /\ late \in BOOLEAN /\ dump \in BOOLEAN
  /\ begunBadly \in BOOLEAN /\ owed \in BOOLEAN

DataOK ==
  /\ hardware \in {"WiFi", "ETH"} /\ limits \in {"custom", "default"}
  /\ loopCounter \in 0..(BootloopLimit - 1)
  /\ reason \in Reasons /\ currentReason \in Reasons
  /\ pc \in Stages \cup {"running"} /\ reset \in {"poweron", "sw", "panic"}
  /\ device \in {"none", "WiFi", "ETH"} /\ eth \in {"ok", "fails", "crashes"}

TypeOK == FlagsOK /\ DataOK

-----------------------------------------------------------------------------
(***************************************************************************)
(* Properties                                                              *)
(***************************************************************************)

\* A bridge that has worked with its Ethernet hardware never ends up on Wi-Fi,
\* or with an open access point, because that hardware fails: the fallback is
\* for the first boots after a change of hardware (NukiNetwork::setupDevice,
\* EthernetDevice::initialize and the GOT_IP event).
NoWifiForProvenEthernet ==
  (pc = "running" /\ device = "WiFi" /\ hardware = "ETH") => reconfigure

\* After a crash in ETH.begin() no boot calls it again before one has given
\* Ethernet up, however many other crashes and restarts come in between
\* (ethCriticalFailure in EthernetDevice::initialize).
CrashGuarded ==
  (pc = "hardware" /\ device = "ETH" /\ begunBadly) => ethCritical

\* The reason of a restart is reported by one boot at most, also when boots
\* crash (initializeRestartReason in RestartReason.h).
ReasonReportedOnce ==
  [][(pc = "reason" /\ pc' = "flags" /\ currentReason' # "NotApplicable") => owed]_vars

\* A bridge with an open access point can be configured: its web configurator
\* runs, also if it is disabled and whatever the RTC flags say (setup).
ApCanBeConfigured == (pc = "running" /\ ApOpen) => webStarted

\* The supply stays on, and in the end nothing but ETH.begin() crashes.
Undisturbed == <>[][~PowerCycle]_vars
CrashFree   == <>[][~Crash]_vars

\* Once Ethernet works, a bridge that has worked with it before comes back to
\* it from any fallback or crash flag (setupDevice, EthernetDevice::initialize).
EthernetComesBack ==
  (Undisturbed /\ CrashFree /\ <>[](eth = "ok" /\ hardware = "ETH" /\ ~reconfigure))
    => []<>(device = "ETH" /\ pc = "running")

\* main.cpp says of bootloopDetection: "Detects bootloops based on reset reasons
\* and increments a counter. If a bootloop is detected, resets certain
\* preferences to default values.": a bridge that crashes again and again within
\* two minutes, after bootloopDetection, ends up with the default limits.
BootloopEnds ==
  (Undisturbed /\ <>[]~late /\ []<>(reset = "panic") /\ []<>(pc = "device"))
    => <>(limits = "default")
=============================================================================
