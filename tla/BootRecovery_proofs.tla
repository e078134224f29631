------------------------ MODULE BootRecovery_proofs ------------------------
(***************************************************************************)
(* Proofs about BootRecovery, for every limit of the bootloop counter and  *)
(* every choice of what may go wrong.                                      *)
(***************************************************************************)
EXTENDS BootRecovery, TLAPS

USE BootAssumption DEF BootAssumption

USE DEF prefVars, flagVars, loopVars, reasonVars, upVars, Stages, Reasons

-----------------------------------------------------------------------------
\* The flags and the other variables keep their types with every step; they are
\* proved apart because a flag may be set to a condition.
LEMMA FlagsKept ==
  ASSUME FlagsOK, [Next]_vars
  PROVE  FlagsOK'
<1>1. CASE BootReason
  BY <1>1 DEF FlagsOK, BootReason, AdoptReason, Restart
<1>2. CASE BootFlags
  <2>1. espRunning' \in BOOLEAN /\ force' \in BOOLEAN /\ fallback' \in BOOLEAN
        /\ ethCritical' \in BOOLEAN
    BY <1>2 DEF FlagsOK, BootFlags
  <2>2. loopValid' \in BOOLEAN
    BY <1>2 DEF FlagsOK, BootFlags, DetectBootloop
  <2> QED
    BY <1>2, <2>1, <2>2 DEF FlagsOK, BootFlags
<1>3. CASE BootDevice
  <2>1. CASE fallback /\ ~reconfigure
    BY <1>3, <2>1 DEF FlagsOK, BootDevice, Restart
  <2>2. CASE fallback => reconfigure
    BY <1>3, <2>2 DEF FlagsOK, BootDevice
  <2> QED
    BY <2>1, <2>2
<1>4. CASE WifiInit
  BY <1>4 DEF FlagsOK, WifiInit
<1>5. CASE EthGiveUp
  BY <1>5 DEF FlagsOK, EthGiveUp, Restart
<1>6. CASE EthBegin
  <2>1. CASE eth = "ok"
    <3>1. fallback' \in BOOLEAN /\ UNCHANGED <<ethCritical, begunBadly, dump, reasonVars>>
      BY <1>6, <2>1 DEF EthBegin
    <3> QED
      BY <1>6, <3>1 DEF FlagsOK, EthBegin
  <2>2. CASE eth = "fails"
    BY <1>6, <2>2 DEF FlagsOK, EthBegin, Restart
  <2>3. CASE eth = "crashes"
    <3>1. /\ ethCritical' \in BOOLEAN /\ begunBadly' \in BOOLEAN /\ dump' \in BOOLEAN
          /\ UNCHANGED <<fallback, reasonVars>>
      BY <1>6, <2>3 DEF EthBegin, Panic
    <3> QED
      BY <1>6, <3>1 DEF FlagsOK, EthBegin
  <2> QED
    BY <1>6, <2>1, <2>2, <2>3 DEF EthBegin
<1>7. CASE BootServices
  BY <1>7 DEF FlagsOK, BootServices, ApOpen
<1>8. CASE Connect
  <2>1. reconfigure' \in BOOLEAN
    BY <1>8 DEF FlagsOK, Connect
  <2>2. connected' \in BOOLEAN
    BY <1>8 DEF Connect
  <2>3. UNCHANGED <<wifiConfigured, webPref, flagVars, loopVars, reasonVars,
                    webStarted, webEnabled, late, dump, begunBadly>>
    BY <1>8 DEF Connect
  <2> QED
    BY <2>1, <2>2, <2>3 DEF FlagsOK
<1>9. CASE Disconnect
  <2>1. CASE UNCHANGED <<reasonVars, pc, reset>> /\ connected' = FALSE
    <3>1. connected' \in BOOLEAN
      BY <2>1
    <3> QED
      BY <1>9, <2>1, <3>1 DEF FlagsOK, Disconnect
  <2>2. CASE Restart("RestartOnDisconnectWatchdog") /\ UNCHANGED connected
    BY <1>9, <2>2 DEF FlagsOK, Disconnect, Restart
  <2> QED
    BY <1>9, <2>1, <2>2 DEF Disconnect
<1>10. CASE UnforceWeb
  <2>1. force' \in BOOLEAN /\ reasonValid' \in BOOLEAN /\ owed' \in BOOLEAN
    BY <1>10 DEF UnforceWeb, Restart
  <2>2. UNCHANGED <<prefVars, espRunning, fallback, ethCritical, loopVars, upVars,
                    dump, begunBadly>>
    BY <1>10 DEF UnforceWeb
  <2> QED
    BY <2>1, <2>2 DEF FlagsOK
<1>11. CASE NetworkTimeout
  BY <1>11 DEF FlagsOK, NetworkTimeout, Restart
<1>12. ASSUME NEW turn \in BOOLEAN, TwoMinutes(turn)
       PROVE  FlagsOK'
  BY <1>12 DEF FlagsOK, TwoMinutes
<1>13. ASSUME NEW on \in BOOLEAN, EnableWebServer(on)
       PROVE  FlagsOK'
  BY <1>13 DEF FlagsOK, EnableWebServer, Restart
<1>14. ASSUME NEW mode \in {"WiFi", "ETH"}, NEW works \in BOOLEAN, SaveConnection(mode, works)
       PROVE  FlagsOK'
  <2>1. reconfigure' \in BOOLEAN /\ wifiConfigured' \in BOOLEAN
    BY <1>14 DEF FlagsOK, SaveConnection
  <2>2. reasonValid' \in BOOLEAN /\ owed' \in BOOLEAN
    BY <1>14 DEF FlagsOK, SaveConnection, Restart
  <2> QED
    BY <1>14, <2>1, <2>2 DEF FlagsOK, SaveConnection
<1>15. ASSUME NEW keepWifi \in BOOLEAN, FactoryReset(keepWifi)
       PROVE  FlagsOK'
  BY <1>15 DEF FlagsOK, FactoryReset, Restart
<1>16. CASE RaiseLimits
  BY <1>16 DEF FlagsOK, RaiseLimits
<1>17. CASE Crash
  <2>1. dump' \in BOOLEAN
    BY <1>17 DEF Crash, Panic
  <2> QED
    BY <1>17, <2>1 DEF FlagsOK, Crash, Panic
<1>18. CASE PowerCycle
  BY <1>18 DEF FlagsOK, PowerCycle
<1>19. CASE EthChanges
  BY <1>19 DEF FlagsOK, EthChanges
<1>20. CASE UNCHANGED vars
  BY <1>20 DEF FlagsOK, vars
<1> QED
  BY <1>1, <1>2, <1>3, <1>4, <1>5, <1>6, <1>7, <1>8, <1>9, <1>10,
     <1>11, <1>12, <1>13, <1>14, <1>15, <1>16, <1>17, <1>18, <1>19, <1>20 DEF Next, Boot, Run

\* The other variables keep their types; the counter of bootloopDetection is
\* reset where it would reach its limit.
LEMMA DataKept ==
  ASSUME FlagsOK, DataOK, [Next]_vars
  PROVE  DataOK'
<1>1. CASE BootReason
  BY <1>1 DEF DataOK, BootReason, AdoptReason, Restart
<1>2. CASE BootFlags
  BY <1>2 DEF DataOK, BootFlags, DetectBootloop
<1>3. CASE BootDevice
  BY <1>3 DEF DataOK, BootDevice, Restart
<1>4. CASE WifiInit
  BY <1>4 DEF DataOK, WifiInit
<1>5. CASE EthGiveUp
  BY <1>5 DEF DataOK, EthGiveUp, Restart
<1>6. CASE EthBegin
  BY <1>6 DEF DataOK, EthBegin, Restart, Panic
<1>7. CASE BootServices
  BY <1>7 DEF DataOK, BootServices, ApOpen
<1>8. CASE Connect
  BY <1>8 DEF DataOK, Connect, Running
<1>9. CASE Disconnect
  <2>1. CASE UNCHANGED <<reasonVars, pc, reset>> /\ connected' = FALSE
    BY <1>9, <2>1 DEF DataOK, Disconnect
  <2>2. CASE Restart("RestartOnDisconnectWatchdog") /\ UNCHANGED connected
    BY <1>9, <2>2 DEF DataOK, Disconnect, Restart
  <2> QED
    BY <1>9, <2>1, <2>2 DEF Disconnect
<1>10. CASE UnforceWeb
  BY <1>10 DEF DataOK, UnforceWeb, Restart
<1>11. CASE NetworkTimeout
  BY <1>11 DEF DataOK, NetworkTimeout, Restart
<1>12. ASSUME NEW turn \in BOOLEAN, TwoMinutes(turn)
       PROVE  DataOK'
  BY <1>12 DEF DataOK, TwoMinutes
<1>13. ASSUME NEW on \in BOOLEAN, EnableWebServer(on)
       PROVE  DataOK'
  BY <1>13 DEF DataOK, EnableWebServer, Restart
<1>14. ASSUME NEW mode \in {"WiFi", "ETH"}, NEW works \in BOOLEAN, SaveConnection(mode, works)
       PROVE  DataOK'
  BY <1>14 DEF DataOK, SaveConnection, Restart
<1>15. ASSUME NEW keepWifi \in BOOLEAN, FactoryReset(keepWifi)
       PROVE  DataOK'
  BY <1>15 DEF DataOK, FactoryReset, Restart
<1>16. CASE RaiseLimits
  BY <1>16 DEF DataOK, RaiseLimits
<1>17. CASE Crash
  BY <1>17 DEF DataOK, Crash, Panic
<1>18. CASE PowerCycle
  BY <1>18 DEF DataOK, PowerCycle
<1>19. CASE EthChanges
  BY <1>19 DEF DataOK, EthChanges
<1>20. CASE UNCHANGED vars
  BY <1>20 DEF DataOK, vars
<1> QED
  BY <1>1, <1>2, <1>3, <1>4, <1>5, <1>6, <1>7, <1>8, <1>9, <1>10,
     <1>11, <1>12, <1>13, <1>14, <1>15, <1>16, <1>17, <1>18, <1>19, <1>20 DEF Next, Boot, Run

\* Every variable keeps its type (setup, NukiNetwork, EthernetDevice,
\* RestApiServer and WebCfgServer, as far as they write what outlives a boot).
\* The counter of bootloopDetection stays below its limit.
THEOREM TypeCorrect == Spec => []TypeOK
<1>1. Init => TypeOK
  <2>1. Init => FlagsOK
    BY DEF Init, FlagsOK
  <2>2. Init => DataOK
    BY DEF Init, DataOK
  <2> QED
    BY <2>1, <2>2 DEF TypeOK
<1>2. TypeOK /\ [Next]_vars => TypeOK'
  BY FlagsKept, DataKept DEF TypeOK
<1> QED
  BY <1>1, <1>2, PTL DEF Spec

-----------------------------------------------------------------------------
\* Ethernet has a crash on its account only while the flags in RTC memory are
\* valid, and then ethCriticalFailure is one of them; the stages after BootFlags
\* run with valid flags, so BootFlags cannot wipe it.
CrashNoted ==
  /\ begunBadly => ethCritical /\ espRunning
  /\ pc \notin {"reason", "flags"} => espRunning

\* Every step keeps CrashNoted; only EthGiveUp and PowerCycle take it back.
LEMMA CrashNotedKept ==
  ASSUME FlagsOK, CrashNoted, [Next]_vars
  PROVE  CrashNoted'
<1>1. CASE BootReason
  BY <1>1 DEF CrashNoted, BootReason, AdoptReason, Restart
<1>2. CASE BootFlags
  BY <1>2 DEF CrashNoted, BootFlags
<1>3. CASE BootDevice
  BY <1>3 DEF CrashNoted, BootDevice, Restart
<1>4. CASE WifiInit
  BY <1>4 DEF CrashNoted, WifiInit
<1>5. CASE EthGiveUp
  BY <1>5 DEF CrashNoted, EthGiveUp, Restart
<1>6. CASE EthBegin
  <2>1. CASE eth = "ok"
    BY <1>6, <2>1 DEF CrashNoted, EthBegin
  <2>2. CASE eth = "fails"
    BY <1>6, <2>2 DEF CrashNoted, EthBegin, Restart
  <2>3. CASE eth = "crashes"
    BY <1>6, <2>3 DEF CrashNoted, EthBegin, Panic
  <2> QED
    BY <1>6, <2>1, <2>2, <2>3 DEF EthBegin
<1>7. CASE BootServices
  BY <1>7 DEF CrashNoted, BootServices
<1>8. CASE Connect
  BY <1>8 DEF CrashNoted, Connect
<1>9. CASE Disconnect
  BY <1>9 DEF CrashNoted, Disconnect, Running, Restart
<1>10. CASE UnforceWeb
  BY <1>10 DEF CrashNoted, UnforceWeb, Restart
<1>11. CASE NetworkTimeout
  BY <1>11 DEF CrashNoted, NetworkTimeout, Restart
<1>12. ASSUME NEW turn \in BOOLEAN, TwoMinutes(turn)
       PROVE  CrashNoted'
  BY <1>12 DEF CrashNoted, TwoMinutes
<1>13. ASSUME NEW on \in BOOLEAN, EnableWebServer(on)
       PROVE  CrashNoted'
  BY <1>13 DEF CrashNoted, EnableWebServer, Restart
<1>14. ASSUME NEW mode \in {"WiFi", "ETH"}, NEW works \in BOOLEAN, SaveConnection(mode, works)
       PROVE  CrashNoted'
  BY <1>14 DEF CrashNoted, SaveConnection, Running, Restart
<1>15. ASSUME NEW keepWifi \in BOOLEAN, FactoryReset(keepWifi)
       PROVE  CrashNoted'
  BY <1>15 DEF CrashNoted, FactoryReset, Restart
<1>16. CASE RaiseLimits
  BY <1>16 DEF CrashNoted, RaiseLimits
<1>17. CASE Crash
  BY <1>17 DEF CrashNoted, Crash, Panic
<1>18. CASE PowerCycle
  BY <1>18 DEF CrashNoted, PowerCycle
<1>19. CASE EthChanges
  BY <1>19 DEF CrashNoted, EthChanges
<1>20. CASE UNCHANGED vars
  BY <1>20 DEF CrashNoted, vars
<1> QED
  BY <1>1, <1>2, <1>3, <1>4, <1>5, <1>6, <1>7, <1>8, <1>9, <1>10,
     <1>11, <1>12, <1>13, <1>14, <1>15, <1>16, <1>17, <1>18, <1>19, <1>20 DEF Next, Boot, Run

\* No boot calls ETH.begin() again after it crashed, before one has given
\* Ethernet up (ethCriticalFailure in EthernetDevice::initialize).
THEOREM EthCrashGuarded == Spec => []CrashGuarded
<1>1. Init => CrashNoted
  BY DEF Init, CrashNoted
<1>2. FlagsOK /\ CrashNoted /\ [Next]_vars => CrashNoted'
  BY CrashNotedKept
<1>3. TypeOK => FlagsOK
  BY DEF TypeOK
<1>4. CrashNoted => CrashGuarded
  BY DEF CrashNoted, CrashGuarded
<1> QED
  BY <1>1, <1>2, <1>3, <1>4, TypeCorrect, PTL DEF Spec

-----------------------------------------------------------------------------
\* The Wi-Fi fallback of an Ethernet bridge is decided on in BootDevice and
\* kept from then on, and only ETH itself takes the first boot back.
FallbackExcused ==
  (pc \in {"hardware", "services", "running"} /\ device = "WiFi" /\ hardware = "ETH")
    => reconfigure

\* Every step keeps FallbackExcused; SaveConnection because it announces a first
\* boot with the change to Ethernet.
LEMMA FallbackExcusedKept ==
  ASSUME TypeOK, FallbackExcused, [Next]_vars
  PROVE  FallbackExcused'
<1> USE DEF FallbackExcused
<1>1. CASE BootReason
  BY <1>1 DEF BootReason, AdoptReason, Restart
<1>2. CASE BootFlags
  BY <1>2 DEF BootFlags
<1>3. CASE BootDevice
  <2>1. CASE fallback /\ ~reconfigure
    BY <1>3, <2>1 DEF BootDevice, Restart
  <2>2. CASE fallback => reconfigure
    <3>1. /\ device' = IF fallback THEN "WiFi" ELSE hardware
          /\ UNCHANGED <<hardware, reconfigure>>
      BY <1>3, <2>2 DEF BootDevice
    <3> QED
      BY <2>2, <3>1
  <2> QED
    BY <2>1, <2>2
<1>4. CASE WifiInit
  BY <1>4 DEF WifiInit
<1>5. CASE EthGiveUp
  BY <1>5 DEF EthGiveUp, Restart
<1>6. CASE EthBegin
  BY <1>6 DEF EthBegin, Restart, Panic
<1>7. CASE BootServices
  BY <1>7 DEF BootServices
<1>8. CASE Connect
  BY <1>8 DEF Connect, Running
<1>9. CASE Disconnect
  BY <1>9 DEF Disconnect, Running, Restart
<1>10. CASE UnforceWeb
  BY <1>10 DEF UnforceWeb, Restart
<1>11. CASE NetworkTimeout
  BY <1>11 DEF NetworkTimeout, Restart
<1>12. ASSUME NEW turn \in BOOLEAN, TwoMinutes(turn)
       PROVE  FallbackExcused'
  BY <1>12 DEF TwoMinutes
<1>13. ASSUME NEW on \in BOOLEAN, EnableWebServer(on)
       PROVE  FallbackExcused'
  BY <1>13 DEF EnableWebServer, Restart
<1>14. ASSUME NEW mode \in {"WiFi", "ETH"}, NEW works \in BOOLEAN, SaveConnection(mode, works)
       PROVE  FallbackExcused'
  BY <1>14 DEF SaveConnection, Running, Restart, TypeOK, DataOK
<1>15. ASSUME NEW keepWifi \in BOOLEAN, FactoryReset(keepWifi)
       PROVE  FallbackExcused'
  BY <1>15 DEF FactoryReset, Restart
<1>16. CASE RaiseLimits
  BY <1>16 DEF RaiseLimits
<1>17. CASE Crash
  BY <1>17 DEF Crash, Panic
<1>18. CASE PowerCycle
  BY <1>18 DEF PowerCycle
<1>19. CASE EthChanges
  BY <1>19 DEF EthChanges
<1>20. CASE UNCHANGED vars
  BY <1>20 DEF vars
<1> QED
  BY <1>1, <1>2, <1>3, <1>4, <1>5, <1>6, <1>7, <1>8, <1>9, <1>10,
     <1>11, <1>12, <1>13, <1>14, <1>15, <1>16, <1>17, <1>18, <1>19, <1>20 DEF Next, Boot, Run

\* A bridge that has worked with its Ethernet hardware never runs on Wi-Fi
\* because that hardware fails (NukiNetwork::setupDevice).
THEOREM ProvenEthernetStays == Spec => []NoWifiForProvenEthernet
<1>1. Init => FallbackExcused
  BY DEF Init, FallbackExcused
<1>2. TypeOK /\ FallbackExcused /\ [Next]_vars => FallbackExcused'
  BY FallbackExcusedKept
<1>3. FallbackExcused => NoWifiForProvenEthernet
  BY DEF FallbackExcused, NoWifiForProvenEthernet
<1> QED
  BY <1>1, <1>2, <1>3, TypeCorrect, PTL DEF Spec
-----------------------------------------------------------------------------
\* Every step keeps the web configurator of an open access point running.
LEMMA ApStaysConfigurable ==
  ASSUME FlagsOK, ApCanBeConfigured, [Next]_vars
  PROVE  ApCanBeConfigured'
<1> USE DEF ApCanBeConfigured, ApOpen
<1>1. CASE BootReason
  BY <1>1 DEF BootReason, AdoptReason, Restart
<1>2. CASE BootFlags
  BY <1>2 DEF BootFlags
<1>3. CASE BootDevice
  BY <1>3 DEF BootDevice, Restart
<1>4. CASE WifiInit
  BY <1>4 DEF WifiInit
<1>5. CASE EthGiveUp
  BY <1>5 DEF EthGiveUp, Restart
<1>6. CASE EthBegin
  BY <1>6 DEF EthBegin, Restart, Panic
<1>7. CASE BootServices
  BY <1>7 DEF BootServices
<1>8. CASE Connect
  BY <1>8 DEF Connect, Running
<1>9. CASE Disconnect
  BY <1>9 DEF Disconnect, Running, Restart
<1>10. CASE UnforceWeb
  BY <1>10 DEF UnforceWeb, Restart
<1>11. CASE NetworkTimeout
  BY <1>11 DEF NetworkTimeout, Restart
<1>12. ASSUME NEW turn \in BOOLEAN, TwoMinutes(turn)
       PROVE  ApCanBeConfigured'
  BY <1>12 DEF TwoMinutes
<1>13. ASSUME NEW on \in BOOLEAN, EnableWebServer(on)
       PROVE  ApCanBeConfigured'
  BY <1>13 DEF EnableWebServer, Restart
<1>14. ASSUME NEW mode \in {"WiFi", "ETH"}, NEW works \in BOOLEAN, SaveConnection(mode, works)
       PROVE  ApCanBeConfigured'
  BY <1>14 DEF SaveConnection, Running, Restart
<1>15. ASSUME NEW keepWifi \in BOOLEAN, FactoryReset(keepWifi)
       PROVE  ApCanBeConfigured'
  BY <1>15 DEF FactoryReset, Restart
<1>16. CASE RaiseLimits
  BY <1>16 DEF RaiseLimits
<1>17. CASE Crash
  BY <1>17 DEF Crash, Panic
<1>18. CASE PowerCycle
  BY <1>18 DEF PowerCycle
<1>19. CASE EthChanges
  BY <1>19 DEF EthChanges
<1>20. CASE UNCHANGED vars
  BY <1>20 DEF vars
<1> QED
  BY <1>1, <1>2, <1>3, <1>4, <1>5, <1>6, <1>7, <1>8, <1>9, <1>10,
     <1>11, <1>12, <1>13, <1>14, <1>15, <1>16, <1>17, <1>18, <1>19, <1>20 DEF Next, Boot, Run

\* A bridge with an open access point runs its web configurator, whatever the
\* preferences and the RTC flags say (setup of main.cpp).
THEOREM OpenApConfigurable == Spec => []ApCanBeConfigured
<1>1. Init => ApCanBeConfigured
  BY DEF Init, ApCanBeConfigured
<1>2. TypeOK /\ ApCanBeConfigured /\ [Next]_vars => ApCanBeConfigured'
  BY ApStaysConfigurable DEF TypeOK
<1> QED
  BY <1>1, <1>2, TypeCorrect, PTL DEF Spec

-----------------------------------------------------------------------------
\* A reason in RTC memory is one that restartEsp left and no boot has taken.
ReasonOwed == reasonValid => owed

\* Every step that sets the mark of a reason owes a report.
LEMMA ReasonOwedKept ==
  ASSUME FlagsOK, ReasonOwed, [Next]_vars
  PROVE  ReasonOwed'
<1> USE DEF ReasonOwed
<1>1. CASE BootReason
  BY <1>1 DEF BootReason, AdoptReason, Restart
<1>2. CASE BootFlags
  BY <1>2 DEF BootFlags
<1>3. CASE BootDevice
  BY <1>3 DEF BootDevice, Restart
<1>4. CASE WifiInit
  BY <1>4 DEF WifiInit
<1>5. CASE EthGiveUp
  BY <1>5 DEF EthGiveUp, Restart
<1>6. CASE EthBegin
  <2>1. owed' = TRUE \/ UNCHANGED reasonVars
    BY <1>6 DEF EthBegin, Restart, Panic
  <2> QED
    BY <2>1
<1>7. CASE BootServices
  BY <1>7 DEF BootServices
<1>8. CASE Connect
  BY <1>8 DEF Connect, Running
<1>9. CASE Disconnect
  <2>1. owed' = TRUE \/ UNCHANGED reasonVars
    BY <1>9 DEF Disconnect, Restart
  <2> QED
    BY <2>1
<1>10. CASE UnforceWeb
  BY <1>10 DEF UnforceWeb, Restart
<1>11. CASE NetworkTimeout
  BY <1>11 DEF NetworkTimeout, Restart
<1>12. ASSUME NEW turn \in BOOLEAN, TwoMinutes(turn)
       PROVE  ReasonOwed'
  BY <1>12 DEF TwoMinutes
<1>13. ASSUME NEW on \in BOOLEAN, EnableWebServer(on)
       PROVE  ReasonOwed'
  BY <1>13 DEF EnableWebServer, Restart
<1>14. ASSUME NEW mode \in {"WiFi", "ETH"}, NEW works \in BOOLEAN, SaveConnection(mode, works)
       PROVE  ReasonOwed'
  <2>1. owed' = TRUE \/ UNCHANGED reasonVars
    BY <1>14 DEF SaveConnection, Restart
  <2> QED
    BY <2>1
<1>15. ASSUME NEW keepWifi \in BOOLEAN, FactoryReset(keepWifi)
       PROVE  ReasonOwed'
  BY <1>15 DEF FactoryReset, Restart
<1>16. CASE RaiseLimits
  BY <1>16 DEF RaiseLimits
<1>17. CASE Crash
  BY <1>17 DEF Crash, Panic
<1>18. CASE PowerCycle
  BY <1>18 DEF PowerCycle
<1>19. CASE EthChanges
  BY <1>19 DEF EthChanges
<1>20. CASE UNCHANGED vars
  BY <1>20 DEF vars
<1> QED
  BY <1>1, <1>2, <1>3, <1>4, <1>5, <1>6, <1>7, <1>8, <1>9, <1>10,
     <1>11, <1>12, <1>13, <1>14, <1>15, <1>16, <1>17, <1>18, <1>19, <1>20 DEF Next, Boot, Run

\* A boot that reports a reason takes it from a restart that no other boot has
\* reported, crashes of boots included (initializeRestartReason).
THEOREM ReasonOnce == Spec => ReasonReportedOnce
<1>1. Init => ReasonOwed
  BY DEF Init, ReasonOwed
<1>2. TypeOK /\ ReasonOwed /\ [Next]_vars => ReasonOwed'
  BY ReasonOwedKept DEF TypeOK
<1>3. ASSUME TypeOK, ReasonOwed, [Next]_vars,
             pc = "reason", pc' = "flags", currentReason' # "NotApplicable"
      PROVE  owed
  <2>1. CASE BootReason
    BY <1>3, <2>1 DEF BootReason, AdoptReason, Restart, ReasonOwed
  <2>2. CASE Panic \/ pc # "reason" \/ pc' \in {"reason", pc}
    BY <1>3, <2>2 DEF Panic
  <2> QED
    BY <1>3, <2>1, <2>2 DEF Next, Boot, Run, vars, BootFlags, BootDevice, WifiInit,
       EthGiveUp, EthBegin, BootServices, Connect, Disconnect, UnforceWeb,
       WebCfgRequest, NetworkTimeout, TwoMinutes, EnableWebServer, SaveConnection,
       FactoryReset, RaiseLimits, Running, Crash, PowerCycle, EthChanges
<1>4. TypeOK /\ ReasonOwed /\ [Next]_vars =>
        [(pc = "reason" /\ pc' = "flags" /\ currentReason' # "NotApplicable") => owed]_vars
  BY <1>3
<1> QED
  BY <1>1, <1>2, <1>4, TypeCorrect, PTL DEF Spec, ReasonReportedOnce
=============================================================================
