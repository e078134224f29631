----------------------- MODULE ServiceRestart_proofs -----------------------
(***************************************************************************)
(* Proofs about ServiceRestart: the types, what the mutex of the web       *)
(* configurator buys, and when there is no wrapper.                        *)
(***************************************************************************)
EXTENDS ServiceRestart, TLAPS

USE RestartAssumption DEF RestartAssumption

USE DEF taskVars, wrapperVars, webVars, netVars, prefVars, MaxAttempts

-----------------------------------------------------------------------------
\* The flags and the other variables, proved apart because a flag may be set to
\* a condition.
FlagsOK ==
  /\ lockStarted \in BOOLEAN /\ lockEnabled \in BOOLEAN
  /\ webCfgStarted \in BOOLEAN /\ hasConnected \in BOOLEAN
  /\ netwGateOpen \in BOOLEAN /\ restLock \in BOOLEAN
  /\ lockPref \in BOOLEAN /\ webPref \in BOOLEAN /\ overran \in BOOLEAN

DataOK ==
  /\ nukiPc \in {"top", "update", "stop", "delete", "create", "start", "esp",
                 "panic", "off"}
  /\ attempts \in 0..MaxAttempts
  /\ wrapper \in {"live", "deleted"}
  /\ restartReason \in {"None", "DisconnectError", "BeaconWatchdog"}
  /\ heard \in {"never", "recently", "overdue"}
  /\ mutex \in {"free", "web"} /\ webPc \in {"idle", "handling"}
  /\ webServer \in {"none", "live", "stale", "null"}
  /\ netPc \in {"idle", "callback"} /\ stack \in {"ok", "silent"}

\* Every step keeps the flags Boolean.
LEMMA FlagsKept ==
  ASSUME FlagsOK, [Next]_vars
  PROVE  FlagsOK'
<1> USE DEF FlagsOK
<1>1. CASE NukiPanics
  BY <1>1 DEF NukiPanics
<1>2. CASE NukiSeesReason
  BY <1>2 DEF NukiSeesReason
<1>3. CASE NukiQuietTurn
  BY <1>3 DEF NukiQuietTurn
<1>4. ASSUME NEW answered \in BOOLEAN, NukiUpdate(answered)
       PROVE  FlagsOK'
  BY <1>4 DEF NukiUpdate, NukiStep
<1>5. CASE NukiStopWeb
  BY <1>5 DEF NukiStopWeb, NukiStep
<1>6. CASE NukiDelete
  BY <1>6 DEF NukiDelete, NukiStep
<1>7. ASSUME NEW works \in {"ok", "silent"}, NukiCreate(works)
       PROVE  FlagsOK'
  BY <1>7 DEF NukiCreate, NukiStep
<1>8. CASE NukiStartWeb
  BY <1>8 DEF NukiStartWeb, NukiStep, WebPointer
<1>9. CASE WebTake
  BY <1>9 DEF WebTake
<1>10. CASE WebDone
  BY <1>10 DEF WebDone
<1>11. ASSUME NEW open \in BOOLEAN, NetGate(open)
       PROVE  FlagsOK'
  BY <1>11 DEF NetGate
<1>12. CASE NetCallback
  BY <1>12 DEF NetCallback
<1>13. CASE NetReturn
  BY <1>13 DEF NetReturn
<1>14. CASE Beacon
  BY <1>14 DEF Beacon
<1>15. CASE BeaconOverdue
  BY <1>15 DEF BeaconOverdue
<1>16. CASE StackFails
  BY <1>16 DEF StackFails
<1>17. CASE BleError
  BY <1>17 DEF BleError
<1>18. CASE Boot
  BY <1>18 DEF Boot
<1>19. CASE UNCHANGED vars
  BY <1>19 DEF vars
<1> QED
  BY <1>1, <1>2, <1>3, <1>4, <1>5, <1>6, <1>7, <1>8, <1>9, <1>10,
     <1>11, <1>12, <1>13, <1>14, <1>15, <1>16, <1>17, <1>18, <1>19 DEF Next, NukiNext, WebNext, NetNext, BleNext

\* Every step keeps the other types; nukiTask restarts the ESP rather than
\* count a fifth attempt.
LEMMA DataKept ==
  ASSUME FlagsOK, DataOK, [Next]_vars
  PROVE  DataOK'
<1> USE DEF DataOK
<1>1. CASE NukiPanics
  BY <1>1 DEF NukiPanics
<1>2. CASE NukiSeesReason
  BY <1>2 DEF NukiSeesReason
<1>3. CASE NukiQuietTurn
  BY <1>3 DEF NukiQuietTurn
<1>4. ASSUME NEW answered \in BOOLEAN, NukiUpdate(answered)
       PROVE  DataOK'
  BY <1>4 DEF NukiUpdate, NukiStep
<1>5. CASE NukiStopWeb
  BY <1>5 DEF NukiStopWeb, NukiStep
<1>6. CASE NukiDelete
  BY <1>6 DEF NukiDelete, NukiStep
<1>7. ASSUME NEW works \in {"ok", "silent"}, NukiCreate(works)
       PROVE  DataOK'
  BY <1>7 DEF NukiCreate, NukiStep
<1>8. CASE NukiStartWeb
  BY <1>8 DEF NukiStartWeb, NukiStep, WebPointer
<1>9. CASE WebTake
  BY <1>9 DEF WebTake
<1>10. CASE WebDone
  BY <1>10 DEF WebDone
<1>11. ASSUME NEW open \in BOOLEAN, NetGate(open)
       PROVE  DataOK'
  BY <1>11 DEF NetGate
<1>12. CASE NetCallback
  BY <1>12 DEF NetCallback
<1>13. CASE NetReturn
  BY <1>13 DEF NetReturn
<1>14. CASE Beacon
  BY <1>14 DEF Beacon
<1>15. CASE BeaconOverdue
  BY <1>15 DEF BeaconOverdue
<1>16. CASE StackFails
  BY <1>16 DEF StackFails
<1>17. CASE BleError
  BY <1>17 DEF BleError
<1>18. CASE Boot
  BY <1>18 DEF Boot
<1>19. CASE UNCHANGED vars
  BY <1>19 DEF vars
<1> QED
  BY <1>1, <1>2, <1>3, <1>4, <1>5, <1>6, <1>7, <1>8, <1>9, <1>10,
     <1>11, <1>12, <1>13, <1>14, <1>15, <1>16, <1>17, <1>18, <1>19 DEF Next, NukiNext, WebNext, NetNext, BleNext

\* Every variable keeps its type, and lockBleRestartAttemptCount never exceeds
\* four (nukiTask in main.cpp).
THEOREM TypeCorrect == Spec => []TypeOK
<1>1. Init => FlagsOK /\ DataOK
  <2>1. Init => FlagsOK
    BY DEF Init, FlagsOK
  <2>2. Init => DataOK
    BY DEF Init, DataOK
  <2> QED
    BY <2>1, <2>2
<1>2. FlagsOK /\ DataOK /\ [Next]_vars => FlagsOK' /\ DataOK'
  BY FlagsKept, DataKept
<1>3. FlagsOK /\ DataOK => TypeOK
  BY DEF FlagsOK, DataOK, TypeOK
<1> QED
  BY <1>1, <1>2, <1>3, PTL DEF Spec

-----------------------------------------------------------------------------
\* What the mutex and the order stop, delete, create, start establish together:
\* a page is served by a web configurator that exists and under the mutex; one
\* that outlives the stop has overrun it, and so has one with a dead wrapper.
StopOrder ==
  /\ webPc = "handling" => mutex = "web" /\ webServer # "none"
  /\ mutex = "web" => webPc = "handling"
  /\ ~webCfgStarted => webServer = "none"
  /\ nukiPc = "delete" => overran \/ webServer = "none"
  /\ webServer = "stale" => overran
  /\ nukiPc \in {"top", "update"} /\ webCfgStarted => webServer # "none"

LEMMA StopOrderKept ==
  ASSUME FlagsOK, DataOK, StopOrder, [Next]_vars
  PROVE  StopOrder'
<1> USE DEF StopOrder, DataOK
<1>1. CASE NukiPanics
  BY <1>1 DEF NukiPanics
<1>2. CASE NukiSeesReason
  BY <1>2 DEF NukiSeesReason
<1>3. CASE NukiQuietTurn
  <2>1. /\ nukiPc = "top" /\ nukiPc' = "update"
        /\ UNCHANGED <<webCfgStarted, webVars, overran>>
    BY <1>3 DEF NukiQuietTurn, Turn
  <2> QED
    BY <2>1
<1>4. ASSUME NEW answered \in BOOLEAN, NukiUpdate(answered)
       PROVE  StopOrder'
  BY <1>4 DEF NukiUpdate, NukiStep
<1>5. CASE NukiStopWeb
  BY <1>5 DEF NukiStopWeb, NukiStep
<1>6. CASE NukiDelete
  BY <1>6 DEF NukiDelete, NukiStep
<1>7. ASSUME NEW works \in {"ok", "silent"}, NukiCreate(works)
       PROVE  StopOrder'
  BY <1>7 DEF NukiCreate, NukiStep
<1>8. CASE NukiStartWeb
  BY <1>8 DEF NukiStartWeb, NukiStep, WebPointer
<1>9. CASE WebTake
  BY <1>9 DEF WebTake
<1>10. CASE WebDone
  BY <1>10 DEF WebDone
<1>11. ASSUME NEW open \in BOOLEAN, NetGate(open)
       PROVE  StopOrder'
  BY <1>11 DEF NetGate
<1>12. CASE NetCallback
  BY <1>12 DEF NetCallback
<1>13. CASE NetReturn
  BY <1>13 DEF NetReturn
<1>14. CASE Beacon
  BY <1>14 DEF Beacon
<1>15. CASE BeaconOverdue
  BY <1>15 DEF BeaconOverdue
<1>16. CASE StackFails
  BY <1>16 DEF StackFails
<1>17. CASE BleError
  BY <1>17 DEF BleError
<1>18. CASE Boot
  BY <1>18 DEF Boot
<1>19. CASE UNCHANGED vars
  BY <1>19 DEF vars
<1> QED
  BY <1>1, <1>2, <1>3, <1>4, <1>5, <1>6, <1>7, <1>8, <1>9, <1>10,
     <1>11, <1>12, <1>13, <1>14, <1>15, <1>16, <1>17, <1>18, <1>19 DEF Next, NukiNext, WebNext, NetNext, BleNext

\* The strengthening invariant holds in every state of the specification.
LEMMA StopOrderHolds == Spec => []StopOrder
<1>1. Init => FlagsOK /\ DataOK /\ StopOrder
  <2>1. Init => FlagsOK
    BY DEF Init, FlagsOK
  <2>2. Init => DataOK
    BY DEF Init, DataOK
  <2>3. ASSUME Init
        PROVE  StopOrder
    <3>1. CASE webPref
      BY <2>3, <3>1 DEF Init, StopOrder
    <3>2. CASE ~webPref
      BY <2>3, <3>2 DEF Init, StopOrder
    <3> QED
      BY <3>1, <3>2
  <2> QED
    BY <2>1, <2>2, <2>3
<1>2. FlagsOK /\ DataOK /\ [Next]_vars => FlagsOK' /\ DataOK'
  BY FlagsKept, DataKept
<1>3. FlagsOK /\ DataOK /\ StopOrder /\ [Next]_vars => StopOrder'
  BY StopOrderKept
<1> QED
  BY <1>1, <1>2, <1>3, PTL DEF Spec

\* No page is served through a deleted wrapper or by a deleted web configurator,
\* unless a page kept the mutex from the last stopWebCfgServer.
THEOREM PagesSafe == Spec => []PagesUseLiveObjects
<1>1. StopOrder => PagesUseLiveObjects
  BY DEF StopOrder, PagesUseLiveObjects
<1> QED
  BY <1>1, StopOrderHolds, PTL

\* A started web configurator survives every restart of the services.
THEOREM WebServerSurvives == Spec => []WebServerKept
<1>1. StopOrder => WebServerKept
  BY DEF StopOrder, WebServerKept
<1> QED
  BY <1>1, StopOrderHolds, PTL

-----------------------------------------------------------------------------
\* Without the switch the lock stays enabled; only nukiTask's delete, and a create
\* or a boot with the lock disabled, leave no wrapper.
WrapperInv == WrapperKept /\ (~LockSwitch => lockPref /\ lockEnabled)

LEMMA WrapperInvKept ==
  ASSUME FlagsOK, DataOK, WrapperInv, [Next]_vars
  PROVE  WrapperInv'
<1> USE DEF WrapperInv, WrapperKept, FlagsOK, DataOK
<1>1. CASE NukiPanics \/ NukiSeesReason \/ NukiQuietTurn
  <2>1. CASE NukiPanics
    BY <2>1 DEF NukiPanics, Turn
  <2>2. CASE NukiSeesReason
    BY <2>2 DEF NukiSeesReason, Turn
  <2>3. CASE NukiQuietTurn
    <3>1. nukiPc = "top" /\ UNCHANGED <<wrapper, lockEnabled, lockPref>>
      BY <2>3 DEF NukiQuietTurn, Turn
    <3> QED
      BY <3>1
  <2> QED
    BY <1>1, <2>1, <2>2, <2>3
<1>2. ASSUME NEW answered \in BOOLEAN, NukiUpdate(answered)
      PROVE  WrapperInv'
  BY <1>2 DEF NukiUpdate, NukiStep
<1>3. CASE NukiStopWeb \/ NukiDelete \/ NukiStartWeb
  <2>1. CASE NukiStopWeb \/ NukiStartWeb
    <3>1. nukiPc # "create" /\ UNCHANGED <<wrapper, lockEnabled, lockPref>>
      BY <2>1 DEF NukiStopWeb, NukiStartWeb, NukiStep
    <3> QED
      BY <3>1
  <2>2. CASE NukiDelete
    BY <2>2 DEF NukiDelete, NukiStep
  <2> QED
    BY <1>3, <2>1, <2>2
<1>4. ASSUME NEW works \in {"ok", "silent"}, NukiCreate(works)
      PROVE  WrapperInv'
  <2>1. wrapper' = "deleted" => ~lockEnabled
    BY <1>4 DEF NukiCreate
  <2>2. UNCHANGED <<lockEnabled, lockPref>> /\ nukiPc = "create"
    BY <1>4 DEF NukiCreate, NukiStep
  <2>3. wrapper' = "deleted" => LockSwitch
    BY <2>1
  <2> QED
    BY <2>1, <2>2, <2>3
<1>5. CASE WebNext
  BY <1>5 DEF WebNext, WebTake, WebDone
<1>6. CASE NetNext
  BY <1>6 DEF NetNext, NetGate, NetCallback, NetReturn
<1>7. CASE BleNext
  BY <1>7 DEF BleNext, Beacon, BeaconOverdue, StackFails, BleError
<1>8. CASE Boot
  BY <1>8 DEF Boot
<1>9. CASE UNCHANGED vars
  BY <1>9 DEF vars
<1> QED
  BY <1>1, <1>2, <1>3, <1>4, <1>5, <1>6, <1>7, <1>8, <1>9 DEF Next, NukiNext

\* A restart of the services always brings the wrapper back, unless the lock was
\* switched off (restartServices in main.cpp).
THEOREM WrapperSurvives == Spec => []WrapperKept
<1>1. Init => FlagsOK /\ DataOK /\ WrapperInv
  <2>1. Init => FlagsOK
    BY DEF Init, FlagsOK
  <2>2. Init => DataOK
    BY DEF Init, DataOK
  <2>3. Init => WrapperInv
    BY DEF Init, WrapperInv, WrapperKept
  <2> QED
    BY <2>1, <2>2, <2>3
<1>2. FlagsOK /\ DataOK /\ WrapperInv /\ [Next]_vars => FlagsOK' /\ DataOK' /\ WrapperInv'
  BY FlagsKept, DataKept, WrapperInvKept
<1>3. WrapperInv => WrapperKept
  BY DEF WrapperInv
<1> QED
  BY <1>1, <1>2, <1>3, PTL DEF Spec
=============================================================================
