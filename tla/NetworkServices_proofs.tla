----------------------- MODULE NetworkServices_proofs -----------------------
(***************************************************************************)
(* Proofs about NetworkServices for every length of the check, of the      *)
(* timeout and of the grace: the types, that the watchdog restarts the ESP *)
(* only when the services have not been able to work, and that it does so  *)
(* in time when HAR cannot work.                                           *)
(***************************************************************************)
EXTENDS NetworkServices, TLAPS

USE ServicesAssumption DEF ServicesAssumption

\* The state of the services is one of the four whatever the tests say.
LEMMA StateTyped ==
  ASSUME NEW api, NEW har PROVE State(api, har) \in ServiceStates
BY DEF State, ServiceStates

\* An age counted up to a bound stays within it.
LEMMA OlderBounded ==
  ASSUME NEW bound \in Nat, NEW age \in 0..bound
  PROVE  Older(age, bound) \in 0..bound
BY DEF Older

\* testNetworkServices leaves flags of the right type and one of the states.
LEMMA TestTyped ==
  ASSUME TestServices
  PROVE  /\ apiOk' \in BOOLEAN /\ harOk' \in BOOLEAN
         /\ services' \in ServiceStates
BY StateTyped DEF TestServices, ApiTest, HarTest

LEMMA InitTyped == Init => TypeOK
<1> SUFFICES ASSUME Init PROVE TypeOK OBVIOUS
<1>1. FlagsOK BY DEF Init, FlagsOK, ApiTest, HarTest
<1>2. services \in ServiceStates BY StateTyped DEF Init
<1>3. Deadline + 1 \in Nat BY DEF Deadline
<1>4. DataOK BY <1>2, <1>3 DEF Init, DataOK, Patience
<1> QED BY <1>1, <1>4 DEF TypeOK

\* No step takes a flag out of BOOLEAN.
LEMMA FlagsKept == FlagsOK /\ [Next]_vars => FlagsOK'
<1> SUFFICES ASSUME FlagsOK, [Next]_vars PROVE FlagsOK' OBVIOUS
<1> USE DEF FlagsOK, timeVars, historyVars, apiVars, harVars, taskVars, envVars
<1>1. CASE NetOff BY <1>1 DEF NetOff
<1>2. CASE NetDisconnected BY <1>2 DEF NetDisconnected
<1>3. CASE NetServe BY <1>3 DEF NetServe
<1>4. ASSUME NEW disable \in BOOLEAN, NetServed(disable) PROVE FlagsOK'
  BY <1>4 DEF NetServed
<1>5. CASE NetRetest BY <1>5, TestTyped DEF NetRetest
<1>6. CASE NetNoCheck BY <1>6 DEF NetNoCheck
<1>7. CASE NetCheck BY <1>7, TestTyped DEF NetCheck
<1>8. CASE NetDeleteHar BY <1>8 DEF NetDeleteHar
<1>9. CASE NetCreateHar BY <1>9 DEF NetCreateHar
<1>10. CASE NetDeleteApi BY <1>10 DEF NetDeleteApi
<1>11. CASE NetCreateApi BY <1>11 DEF NetCreateApi
<1>12. ASSUME NEW due \in BOOLEAN, NetReport(due) PROVE FlagsOK'
  BY <1>12 DEF NetReport
<1>13. CASE NetReported BY <1>13 DEF NetReported
<1>14. CASE NetWatchdog BY <1>14 DEF NetWatchdog
<1>15. ASSUME NEW api \in BOOLEAN, NEW har \in BOOLEAN, Boot(api, har)
       PROVE FlagsOK'
  BY <1>15 DEF Boot, Started
<1>16. CASE NukiNext BY <1>16 DEF NukiNext, NukiSend, NukiSent
<1>17. CASE WebNext
  BY <1>17 DEF WebNext, WebDisableApi, WebStopApi, WebDisableHar, WebSaveSettings
<1>18. CASE Change BY <1>18 DEF Change
<1>19. CASE Tick BY <1>19 DEF Tick
<1>20. CASE UNCHANGED vars BY <1>20 DEF vars
<1> QED
  BY <1>1, <1>2, <1>3, <1>4, <1>5, <1>6, <1>7, <1>8, <1>9, <1>10, <1>11, <1>12,
     <1>13, <1>14, <1>15, <1>16, <1>17, <1>18, <1>19, <1>20 DEF Next, NetNext

\* No step takes a program counter, an age or a state out of its range.
LEMMA DataKept == DataOK /\ [Next]_vars => DataOK'
<1> SUFFICES ASSUME DataOK, [Next]_vars PROVE DataOK' OBVIOUS
<1> USE DEF DataOK, NetStep, timeVars, historyVars, apiVars, harVars, taskVars, envVars
<1>0. Deadline + 1 \in Nat BY DEF Deadline
<1>1. CASE NetOff BY <1>1 DEF NetOff
<1>2. CASE NetDisconnected BY <1>2 DEF NetDisconnected
<1>3. CASE NetServe BY <1>3 DEF NetServe
<1>4. ASSUME NEW disable \in BOOLEAN, NetServed(disable) PROVE DataOK'
  BY <1>4 DEF NetServed
<1>5. CASE NetRetest BY <1>5, TestTyped DEF NetRetest
<1>6. CASE NetNoCheck BY <1>6 DEF NetNoCheck
<1>7. CASE NetCheck BY <1>7, TestTyped DEF NetCheck
<1>8. CASE NetDeleteHar BY <1>8 DEF NetDeleteHar
<1>9. CASE NetCreateHar BY <1>9 DEF NetCreateHar
<1>10. CASE NetDeleteApi BY <1>10 DEF NetDeleteApi
<1>11. CASE NetCreateApi BY <1>11 DEF NetCreateApi
<1>12. ASSUME NEW due \in BOOLEAN, NetReport(due) PROVE DataOK'
  BY <1>12 DEF NetReport
<1>13. CASE NetReported BY <1>13 DEF NetReported
<1>14. CASE NetWatchdog BY <1>14 DEF NetWatchdog
<1>15. ASSUME NEW api \in BOOLEAN, NEW har \in BOOLEAN, Boot(api, har)
       PROVE DataOK'
  <2>1. services' \in ServiceStates BY <1>15, StateTyped DEF Boot, Started
  <2> QED BY <1>0, <1>15, <2>1 DEF Boot, Started, Patience
<1>16. CASE NukiNext BY <1>16 DEF NukiNext, NukiSend, NukiSent
<1>17. CASE WebNext
  BY <1>0, <1>17 DEF WebNext, WebDisableApi, WebStopApi, WebDisableHar, WebSaveSettings
<1>18. CASE Change BY <1>0, <1>18 DEF Change, Patience
<1>19. CASE Tick
  <2>1. sinceCheck' \in 0..CheckEvery /\ sinceOk' \in 0..(Timeout + 1)
        /\ uptime' \in 0..Grace
    BY <1>19, OlderBounded DEF Tick
  <2>2. Patience + 1 \in Nat BY DEF Patience
  <2>3. goodFor' \in 0..(Patience + 1) BY <1>19, <2>2, OlderBounded DEF Tick
  <2>4. sinceGood' \in 0..(Timeout + 1) BY <1>19, OlderBounded DEF Tick
  <2>5. hopelessFor' \in 0..(Deadline + 1) BY <1>0, <1>19, OlderBounded DEF Tick
  <2> QED BY <1>19, <2>1, <2>3, <2>4, <2>5 DEF Tick
<1>20. CASE UNCHANGED vars BY <1>20 DEF vars
<1> QED
  BY <1>1, <1>2, <1>3, <1>4, <1>5, <1>6, <1>7, <1>8, <1>9, <1>10, <1>11, <1>12,
     <1>13, <1>14, <1>15, <1>16, <1>17, <1>18, <1>19, <1>20 DEF Next, NetNext

\* Every reachable state has the types of the C++ members, and every age stays
\* below the bound at which NukiNetwork::update acts on it.
THEOREM TypeCorrect == Spec => []TypeOK
<1>1. TypeOK /\ [Next]_vars => TypeOK' BY FlagsKept, DataKept DEF TypeOK
<1> QED BY <1>1, InitTyped, PTL DEF Spec
-----------------------------------------------------------------------------
(***************************************************************************)
(* Why the watchdog is justified.  While everything outside works, a       *)
(* service that fails is found, recreated and tested again after a number  *)
(* of ticks that the place of update() and the state of the retest bound.  *)
(***************************************************************************)

\* Nothing is enabled and update() has nothing to do any more.
Off == ~AnyEnabled /\ netPc = "top"

BeforeRetest == {"top", "serving", "retest"}
BeforeCheck == BeforeRetest \cup {"check"}
Recreating == {"restartHar", "createHar", "restartApi", "createApi"}

\* What has been good for a tick still is.
GoodNow == goodFor > 0 => connected /\ (harEnabled => harUp)

\* The web server stops only what it has disabled.
StopDisabled == webPc = "stop" => ~apiEnabled

\* An enabled service without its object is known to have failed, and is
\* recreated before the retest.
ApiBuilt == apiEnabled /\ server = "none" =>
              /\ services \in {"ERROR_REST_API_SERVER", "ERROR_BOTH"}
              /\ retest = "none" \/ netPc \in Recreating
HarBuilt == harEnabled /\ transport = "none" =>
              /\ services \in {"ERROR_HAR_CLIENT", "ERROR_BOTH"}
              /\ retest = "none" \/ netPc \in {"restartHar", "createHar"}

\* A whole loop since the last tick cannot have passed a retest or a check that
\* was due.
RetestMet == retest = "due" /\ looped => netPc \in BeforeRetest \cup {"esp"}
CheckMet == retest = "none" /\ AnyEnabled /\ sinceCheck = CheckEvery /\ looped
              => netPc \in BeforeCheck \cup {"esp"}

\* How long everything can have been good with the services still failing.
Unchecked == \/ /\ goodFor <= CheckEvery
                /\ AnyEnabled => goodFor <= sinceCheck
             \/ /\ goodFor = CheckEvery + 1 /\ ~looped
                /\ AnyEnabled => sinceCheck = CheckEvery /\ netPc \in BeforeCheck
Unretested == \/ goodFor <= CheckEvery + 2
              \/ goodFor = CheckEvery + 3 /\ ~looped /\ netPc \in BeforeRetest
Failing == services # "OK" /\ ~Off /\ Up =>
             /\ retest = "none" => Unchecked
             /\ retest = "pending" => goodFor <= CheckEvery + 1
             /\ retest = "due" => Unretested

\* The watchdog has noted the success by then, and so never runs ahead of the
\* time without one by more than a tick.
SuccessNoted == goodFor >= Patience /\ looped /\ ~Off /\ Up => sinceOk = 0
Ahead == ~Off /\ Up => sinceOk <= sinceGood + 1

IInv == /\ TypeOK /\ GoodNow /\ StopDisabled /\ ApiBuilt /\ HarBuilt
        /\ RetestMet /\ CheckMet
        /\ Failing /\ SuccessNoted /\ Ahead

\* What the tests find: a working service passes, one without its object fails.
LEMMA TestFinds ==
  ASSUME TypeOK, TestServices
  PROVE  /\ ApiTest /\ HarTest => services' = "OK"
         /\ ~ApiTest => services' \in {"ERROR_REST_API_SERVER", "ERROR_BOTH"}
         /\ ~HarTest => services' \in {"ERROR_HAR_CLIENT", "ERROR_BOTH"}
BY DEF TestServices, State

\* Only Tick counts, and Change starts again.
LEMMA GoodNowKept ==
  ASSUME TypeOK, GoodNow, [Next]_vars PROVE GoodNow'
<1> USE DEF TypeOK, FlagsOK, GoodNow, NetStep, AnyEnabled, timeVars, historyVars, apiVars,
            harVars, taskVars, envVars
<1>1. CASE NetOff BY <1>1 DEF NetOff
<1>2. CASE NetDisconnected BY <1>2 DEF NetDisconnected
<1>3. CASE NetServe BY <1>3 DEF NetServe
<1>4. ASSUME NEW disable \in BOOLEAN, NetServed(disable) PROVE GoodNow'
  BY <1>4 DEF NetServed
<1>5. CASE NetRetest BY <1>5 DEF NetRetest
<1>6. CASE NetNoCheck BY <1>6 DEF NetNoCheck, CheckDue
<1>7. CASE NetCheck BY <1>7 DEF NetCheck, CheckDue
<1>8. CASE NetDeleteHar BY <1>8 DEF NetDeleteHar, HarFailed
<1>9. CASE NetCreateHar BY <1>9 DEF NetCreateHar
<1>10. CASE NetDeleteApi BY <1>10 DEF NetDeleteApi, ApiFailed
<1>11. CASE NetCreateApi BY <1>11 DEF NetCreateApi
<1>12. ASSUME NEW due \in BOOLEAN, NetReport(due) PROVE GoodNow'
  BY <1>12 DEF NetReport
<1>13. CASE NetReported BY <1>13 DEF NetReported
<1>14. CASE NetWatchdog BY <1>14 DEF NetWatchdog
<1>15. ASSUME NEW api \in BOOLEAN, NEW har \in BOOLEAN, Boot(api, har)
       PROVE GoodNow'
  BY <1>15 DEF Boot, Started
<1>16. CASE NukiNext BY <1>16 DEF NukiNext, NukiSend, NukiSent
<1>17. CASE WebNext
  BY <1>17 DEF WebNext, WebDisableApi, WebStopApi, WebDisableHar,
         WebSaveSettings
<1>18. CASE Change BY <1>18 DEF Change
<1>19. CASE Tick
  <2>1. CASE connected /\ (harEnabled => harUp) BY <1>19, <2>1 DEF Tick
  <2>2. CASE ~(connected /\ (harEnabled => harUp)) BY <1>19, <2>2 DEF Tick
  <2> QED BY <2>1, <2>2
<1>20. CASE UNCHANGED vars BY <1>20 DEF vars
<1> QED
  BY <1>1, <1>2, <1>3, <1>4, <1>5, <1>6, <1>7, <1>8, <1>9, <1>10, <1>11, <1>12,
     <1>13, <1>14, <1>15, <1>16, <1>17, <1>18, <1>19, <1>20 DEF Next, NetNext

\* A disabled service is never enabled again before the next boot.
LEMMA StopDisabledKept ==
  ASSUME StopDisabled, [Next]_vars PROVE StopDisabled'
<1> USE DEF StopDisabled, NetStep, AnyEnabled, timeVars, historyVars, apiVars, harVars,
            taskVars, envVars
<1>1. CASE NetOff BY <1>1 DEF NetOff
<1>2. CASE NetDisconnected BY <1>2 DEF NetDisconnected
<1>3. CASE NetServe BY <1>3 DEF NetServe
<1>4. ASSUME NEW disable \in BOOLEAN, NetServed(disable) PROVE StopDisabled'
  BY <1>4 DEF NetServed
<1>5. CASE NetRetest BY <1>5 DEF NetRetest
<1>6. CASE NetNoCheck BY <1>6 DEF NetNoCheck, CheckDue
<1>7. CASE NetCheck BY <1>7 DEF NetCheck, CheckDue
<1>8. CASE NetDeleteHar BY <1>8 DEF NetDeleteHar, HarFailed
<1>9. CASE NetCreateHar BY <1>9 DEF NetCreateHar
<1>10. CASE NetDeleteApi BY <1>10 DEF NetDeleteApi, ApiFailed
<1>11. CASE NetCreateApi BY <1>11 DEF NetCreateApi
<1>12. ASSUME NEW due \in BOOLEAN, NetReport(due) PROVE StopDisabled'
  BY <1>12 DEF NetReport
<1>13. CASE NetReported BY <1>13 DEF NetReported
<1>14. CASE NetWatchdog BY <1>14 DEF NetWatchdog
<1>15. ASSUME NEW api \in BOOLEAN, NEW har \in BOOLEAN, Boot(api, har)
       PROVE StopDisabled'
  BY <1>15 DEF Boot, Started
<1>16. CASE NukiNext BY <1>16 DEF NukiNext, NukiSend, NukiSent
<1>17. CASE WebNext
  BY <1>17 DEF WebNext, WebDisableApi, WebStopApi, WebDisableHar,
         WebSaveSettings
<1>18. CASE Change BY <1>18 DEF Change
<1>19. CASE Tick BY <1>19 DEF Tick
<1>20. CASE UNCHANGED vars BY <1>20 DEF vars
<1> QED
  BY <1>1, <1>2, <1>3, <1>4, <1>5, <1>6, <1>7, <1>8, <1>9, <1>10, <1>11, <1>12,
     <1>13, <1>14, <1>15, <1>16, <1>17, <1>18, <1>19, <1>20 DEF Next, NetNext

\* A missing server is known and recreated.
LEMMA ApiBuiltKept ==
  ASSUME TypeOK, StopDisabled, ApiBuilt, [Next]_vars PROVE ApiBuilt'
<1> USE DEF ApiBuilt, Recreating, StopDisabled, NetStep, AnyEnabled, timeVars, historyVars,
            apiVars, harVars, taskVars, envVars
<1>1. CASE NetOff BY <1>1 DEF NetOff
<1>2. CASE NetDisconnected BY <1>2 DEF NetDisconnected
<1>3. CASE NetServe BY <1>3 DEF NetServe
<1>4. ASSUME NEW disable \in BOOLEAN, NetServed(disable) PROVE ApiBuilt'
  BY <1>4 DEF NetServed
<1>5. CASE NetRetest
  BY <1>5, TestFinds DEF NetRetest, ApiTest, TypeOK, FlagsOK
<1>6. CASE NetNoCheck BY <1>6 DEF NetNoCheck, CheckDue
<1>7. CASE NetCheck
  BY <1>7, TestFinds DEF NetCheck, CheckDue, ApiTest, TypeOK, FlagsOK
<1>8. CASE NetDeleteHar BY <1>8 DEF NetDeleteHar, HarFailed
<1>9. CASE NetCreateHar BY <1>9 DEF NetCreateHar
<1>10. CASE NetDeleteApi BY <1>10 DEF NetDeleteApi, ApiFailed
<1>11. CASE NetCreateApi BY <1>11 DEF NetCreateApi
<1>12. ASSUME NEW due \in BOOLEAN, NetReport(due) PROVE ApiBuilt'
  BY <1>12 DEF NetReport
<1>13. CASE NetReported BY <1>13 DEF NetReported
<1>14. CASE NetWatchdog BY <1>14 DEF NetWatchdog
<1>15. ASSUME NEW api \in BOOLEAN, NEW har \in BOOLEAN, Boot(api, har)
       PROVE ApiBuilt'
  BY <1>15 DEF Boot, Started, State
<1>16. CASE NukiNext BY <1>16 DEF NukiNext, NukiSend, NukiSent
<1>17. CASE WebNext
  BY <1>17 DEF WebNext, WebDisableApi, WebStopApi, WebDisableHar,
         WebSaveSettings
<1>18. CASE Change BY <1>18 DEF Change
<1>19. CASE Tick BY <1>19 DEF Tick
<1>20. CASE UNCHANGED vars BY <1>20 DEF vars
<1> QED
  BY <1>1, <1>2, <1>3, <1>4, <1>5, <1>6, <1>7, <1>8, <1>9, <1>10, <1>11, <1>12,
     <1>13, <1>14, <1>15, <1>16, <1>17, <1>18, <1>19, <1>20 DEF Next, NetNext

\* A missing transport is known and recreated.
LEMMA HarBuiltKept ==
  ASSUME TypeOK, HarBuilt, [Next]_vars PROVE HarBuilt'
<1> USE DEF HarBuilt, NetStep, AnyEnabled, timeVars, historyVars, apiVars, harVars, taskVars,
            envVars
<1>1. CASE NetOff BY <1>1 DEF NetOff
<1>2. CASE NetDisconnected BY <1>2 DEF NetDisconnected
<1>3. CASE NetServe BY <1>3 DEF NetServe
<1>4. ASSUME NEW disable \in BOOLEAN, NetServed(disable) PROVE HarBuilt'
  BY <1>4 DEF NetServed
<1>5. CASE NetRetest
  BY <1>5, TestFinds DEF NetRetest, HarTest, TypeOK, FlagsOK
<1>6. CASE NetNoCheck BY <1>6 DEF NetNoCheck, CheckDue
<1>7. CASE NetCheck
  BY <1>7, TestFinds DEF NetCheck, CheckDue, HarTest, TypeOK, FlagsOK
<1>8. CASE NetDeleteHar BY <1>8 DEF NetDeleteHar, HarFailed
<1>9. CASE NetCreateHar BY <1>9 DEF NetCreateHar
<1>10. CASE NetDeleteApi BY <1>10 DEF NetDeleteApi, ApiFailed
<1>11. CASE NetCreateApi BY <1>11 DEF NetCreateApi
<1>12. ASSUME NEW due \in BOOLEAN, NetReport(due) PROVE HarBuilt'
  BY <1>12 DEF NetReport
<1>13. CASE NetReported BY <1>13 DEF NetReported
<1>14. CASE NetWatchdog BY <1>14 DEF NetWatchdog
<1>15. ASSUME NEW api \in BOOLEAN, NEW har \in BOOLEAN, Boot(api, har)
       PROVE HarBuilt'
  BY <1>15 DEF Boot, Started
<1>16. CASE NukiNext BY <1>16 DEF NukiNext, NukiSend, NukiSent
<1>17. CASE WebNext
  BY <1>17 DEF WebNext, WebDisableApi, WebStopApi, WebDisableHar,
         WebSaveSettings
<1>18. CASE Change BY <1>18 DEF Change
<1>19. CASE Tick BY <1>19 DEF Tick
<1>20. CASE UNCHANGED vars BY <1>20 DEF vars
<1> QED
  BY <1>1, <1>2, <1>3, <1>4, <1>5, <1>6, <1>7, <1>8, <1>9, <1>10, <1>11, <1>12,
     <1>13, <1>14, <1>15, <1>16, <1>17, <1>18, <1>19, <1>20 DEF Next, NetNext

\* A loop that starts with a retest due makes it.
LEMMA RetestMetKept ==
  ASSUME TypeOK, RetestMet, [Next]_vars PROVE RetestMet'
<1> USE DEF RetestMet, BeforeRetest, NetStep, AnyEnabled, timeVars, historyVars, apiVars,
            harVars, taskVars, envVars
<1>1. CASE NetOff BY <1>1 DEF NetOff
<1>2. CASE NetDisconnected BY <1>2 DEF NetDisconnected
<1>3. CASE NetServe BY <1>3 DEF NetServe
<1>4. ASSUME NEW disable \in BOOLEAN, NetServed(disable) PROVE RetestMet'
  BY <1>4 DEF NetServed
<1>5. CASE NetRetest BY <1>5 DEF NetRetest
<1>6. CASE NetNoCheck BY <1>6 DEF NetNoCheck, CheckDue
<1>7. CASE NetCheck BY <1>7 DEF NetCheck, CheckDue
<1>8. CASE NetDeleteHar BY <1>8 DEF NetDeleteHar, HarFailed
<1>9. CASE NetCreateHar BY <1>9 DEF NetCreateHar
<1>10. CASE NetDeleteApi BY <1>10 DEF NetDeleteApi, ApiFailed
<1>11. CASE NetCreateApi BY <1>11 DEF NetCreateApi
<1>12. ASSUME NEW due \in BOOLEAN, NetReport(due) PROVE RetestMet'
  BY <1>12 DEF NetReport
<1>13. CASE NetReported BY <1>13 DEF NetReported
<1>14. CASE NetWatchdog BY <1>14 DEF NetWatchdog
<1>15. ASSUME NEW api \in BOOLEAN, NEW har \in BOOLEAN, Boot(api, har)
       PROVE RetestMet'
  BY <1>15 DEF Boot, Started
<1>16. CASE NukiNext BY <1>16 DEF NukiNext, NukiSend, NukiSent
<1>17. CASE WebNext
  BY <1>17 DEF WebNext, WebDisableApi, WebStopApi, WebDisableHar,
         WebSaveSettings
<1>18. CASE Change BY <1>18 DEF Change
<1>19. CASE Tick BY <1>19 DEF Tick
<1>20. CASE UNCHANGED vars BY <1>20 DEF vars
<1> QED
  BY <1>1, <1>2, <1>3, <1>4, <1>5, <1>6, <1>7, <1>8, <1>9, <1>10, <1>11, <1>12,
     <1>13, <1>14, <1>15, <1>16, <1>17, <1>18, <1>19, <1>20 DEF Next, NetNext

\* A loop that starts with a check due makes it.
LEMMA CheckMetKept ==
  ASSUME TypeOK, CheckMet, [Next]_vars PROVE CheckMet'
<1> USE DEF TypeOK, FlagsOK, DataOK, CheckMet, BeforeCheck, BeforeRetest, NetStep,
            AnyEnabled, timeVars, historyVars, apiVars, harVars, taskVars, envVars
<1>1. CASE NetOff BY <1>1 DEF NetOff
<1>2. CASE NetDisconnected BY <1>2 DEF NetDisconnected
<1>3. CASE NetServe BY <1>3 DEF NetServe
<1>4. ASSUME NEW disable \in BOOLEAN, NetServed(disable) PROVE CheckMet'
  BY <1>4 DEF NetServed
<1>5. CASE NetRetest BY <1>5 DEF NetRetest
<1>6. CASE NetNoCheck BY <1>6 DEF NetNoCheck, CheckDue
<1>7. CASE NetCheck BY <1>7 DEF NetCheck, CheckDue
<1>8. CASE NetDeleteHar BY <1>8 DEF NetDeleteHar, HarFailed
<1>9. CASE NetCreateHar BY <1>9 DEF NetCreateHar
<1>10. CASE NetDeleteApi BY <1>10 DEF NetDeleteApi, ApiFailed
<1>11. CASE NetCreateApi BY <1>11 DEF NetCreateApi
<1>12. ASSUME NEW due \in BOOLEAN, NetReport(due) PROVE CheckMet'
  BY <1>12 DEF NetReport
<1>13. CASE NetReported BY <1>13 DEF NetReported
<1>14. CASE NetWatchdog BY <1>14 DEF NetWatchdog
<1>15. ASSUME NEW api \in BOOLEAN, NEW har \in BOOLEAN, Boot(api, har)
       PROVE CheckMet'
  BY <1>15 DEF Boot, Started
<1>16. CASE NukiNext BY <1>16 DEF NukiNext, NukiSend, NukiSent
<1>17. CASE WebNext
  BY <1>17 DEF WebNext, WebDisableApi, WebStopApi, WebDisableHar,
         WebSaveSettings
<1>18. CASE Change BY <1>18 DEF Change
<1>19. CASE Tick BY <1>19 DEF Tick
<1>20. CASE UNCHANGED vars BY <1>20 DEF vars
<1> QED
  BY <1>1, <1>2, <1>3, <1>4, <1>5, <1>6, <1>7, <1>8, <1>9, <1>10, <1>11, <1>12,
     <1>13, <1>14, <1>15, <1>16, <1>17, <1>18, <1>19, <1>20 DEF Next, NetNext

\* While everything outside works, a retest finds it working: the services that
\* had failed have been recreated.
LEMMA RetestSucceeds ==
  ASSUME IInv, NetRetest, retest = "due", goodFor > 0
  PROVE  services' = "OK"
<1>1. connected /\ (harEnabled => harUp) BY DEF IInv, GoodNow
<1>2. netPc = "retest" BY DEF NetRetest, NetStep
<1>3. apiEnabled => server = "live"
  BY <1>2 DEF IInv, ApiBuilt, Recreating, TypeOK, DataOK
<1>4. harEnabled => transport = "live"
  BY <1>2 DEF IInv, HarBuilt, TypeOK, DataOK
<1>5. ApiTest /\ HarTest BY <1>1, <1>3, <1>4 DEF ApiTest, HarTest
<1> QED BY <1>5, TestFinds DEF NetRetest, IInv

\* The services do not fail for longer than the check and the retest take.
LEMMA FailingKept ==
  ASSUME IInv, [Next]_vars PROVE Failing'
<1> USE DEF Failing, Off, Up, Unchecked, Unretested, BeforeCheck, BeforeRetest,
            IInv, TypeOK, FlagsOK, DataOK, NetStep, AnyEnabled, timeVars, historyVars, apiVars,
            harVars, taskVars, envVars
<1>1. CASE NetOff BY <1>1 DEF NetOff
<1>2. CASE NetDisconnected
  <2>1. goodFor = 0 BY <1>2 DEF NetDisconnected, GoodNow
  <2> QED BY <1>2, <2>1 DEF NetDisconnected
<1>3. CASE NetServe BY <1>3 DEF NetServe
<1>4. ASSUME NEW disable \in BOOLEAN, NetServed(disable) PROVE Failing'
  BY <1>4 DEF NetServed
<1>5. CASE NetRetest
  <2>1. CASE retest = "due" /\ goodFor > 0
    BY <1>5, <2>1, RetestSucceeds
  <2>2. CASE retest = "due" /\ goodFor = 0
    BY <1>5, <2>2 DEF NetRetest
  <2>3. CASE retest # "due"
    BY <1>5, <2>3 DEF NetRetest
  <2> QED BY <2>1, <2>2, <2>3
<1>6. CASE NetNoCheck BY <1>6 DEF NetNoCheck, CheckDue
<1>7. CASE NetCheck
  <2>1. goodFor <= CheckEvery + 1 \/ services = "OK"
    BY <1>7 DEF NetCheck, CheckDue
  <2>2. goodFor <= CheckEvery + 1 \/ services' = "OK"
    <3>1. CASE services = "OK" /\ goodFor > 0
      <4>1. connected /\ (harEnabled => harUp) BY <3>1 DEF GoodNow
      <4>2. apiEnabled => server = "live" BY <3>1 DEF ApiBuilt
      <4>3. harEnabled => transport = "live" BY <3>1 DEF HarBuilt
      <4>4. ApiTest /\ HarTest BY <4>1, <4>2, <4>3 DEF ApiTest, HarTest
      <4> QED BY <1>7, <4>4, TestFinds DEF NetCheck
    <3> QED BY <2>1, <3>1
  <2> QED BY <1>7, <2>2 DEF NetCheck, CheckDue
<1>8. CASE NetDeleteHar BY <1>8 DEF NetDeleteHar, HarFailed
<1>9. CASE NetCreateHar BY <1>9 DEF NetCreateHar
<1>10. CASE NetDeleteApi BY <1>10 DEF NetDeleteApi, ApiFailed
<1>11. CASE NetCreateApi BY <1>11 DEF NetCreateApi
<1>12. ASSUME NEW due \in BOOLEAN, NetReport(due) PROVE Failing'
  BY <1>12 DEF NetReport
<1>13. CASE NetReported BY <1>13 DEF NetReported
<1>14. CASE NetWatchdog BY <1>14 DEF NetWatchdog
<1>15. ASSUME NEW api \in BOOLEAN, NEW har \in BOOLEAN, Boot(api, har)
       PROVE Failing'
  BY <1>15 DEF Boot, Started
<1>16. CASE NukiNext BY <1>16 DEF NukiNext, NukiSend, NukiSent
<1>17. CASE WebNext
  BY <1>17 DEF WebNext, WebDisableApi, WebStopApi, WebDisableHar,
         WebSaveSettings
<1>18. CASE Change BY <1>18 DEF Change
<1>19. CASE Tick
  <2>1. PICK g \in Nat : g = goodFor' /\ g <= goodFor + 1
    BY <1>19, DataKept DEF Tick, Older
  <2>2. PICK s \in Nat : s = sinceCheck'
                       /\ s = (IF sinceCheck < CheckEvery THEN sinceCheck + 1
                              ELSE sinceCheck)
    BY <1>19 DEF Tick, Older
  <2>3. SUFFICES ASSUME services # "OK", ~Off PROVE Failing'
    BY <1>19 DEF Tick
  <2>4. CASE retest = "none"
    <3>1. goodFor <= CheckEvery /\ (AnyEnabled => goodFor <= sinceCheck)
      BY <1>19, <2>3, <2>4 DEF Tick
    <3>2. \/ g <= CheckEvery /\ (AnyEnabled => g <= s)
          \/ /\ g = CheckEvery + 1
             /\ AnyEnabled => s = CheckEvery /\ netPc \in BeforeCheck
      BY <1>19, <2>1, <2>2, <2>3, <2>4, <3>1 DEF Tick, CheckMet
    <3> QED BY <1>19, <2>1, <2>2, <2>4, <3>2 DEF Tick
  <2>5. CASE retest = "pending"
    <3>1. g <= CheckEvery + 2 BY <1>19, <2>1, <2>3, <2>5 DEF Tick
    <3> QED BY <1>19, <2>1, <2>5, <3>1 DEF Tick
  <2>6. CASE retest = "due"
    <3>1. \/ g <= CheckEvery + 2
          \/ g = CheckEvery + 3 /\ netPc \in BeforeRetest
      BY <1>19, <2>1, <2>3, <2>6 DEF Tick, RetestMet
    <3> QED BY <1>19, <2>1, <2>6, <3>1 DEF Tick
  <2> QED BY <2>4, <2>5, <2>6
<1>20. CASE UNCHANGED vars BY <1>20 DEF vars
<1> QED
  BY <1>1, <1>2, <1>3, <1>4, <1>5, <1>6, <1>7, <1>8, <1>9, <1>10, <1>11, <1>12,
     <1>13, <1>14, <1>15, <1>16, <1>17, <1>18, <1>19, <1>20 DEF Next, NetNext

\* A loop with the services working notes it.
LEMMA NotedKept ==
  ASSUME IInv, [Next]_vars PROVE SuccessNoted'
<1> USE DEF SuccessNoted, Off, Up, IInv, TypeOK, FlagsOK, DataOK, Patience,
            NetStep, AnyEnabled, timeVars, historyVars, apiVars, harVars, taskVars, envVars
<1>1. CASE NetOff BY <1>1 DEF NetOff
<1>2. CASE NetDisconnected
  <2>1. goodFor = 0 BY <1>2 DEF NetDisconnected, GoodNow
  <2> QED BY <1>2, <2>1 DEF NetDisconnected
<1>3. CASE NetServe BY <1>3 DEF NetServe
<1>4. ASSUME NEW disable \in BOOLEAN, NetServed(disable) PROVE SuccessNoted'
  BY <1>4 DEF NetServed
<1>5. CASE NetRetest BY <1>5 DEF NetRetest
<1>6. CASE NetNoCheck BY <1>6 DEF NetNoCheck, CheckDue
<1>7. CASE NetCheck BY <1>7 DEF NetCheck, CheckDue
<1>8. CASE NetDeleteHar BY <1>8 DEF NetDeleteHar, HarFailed
<1>9. CASE NetCreateHar BY <1>9 DEF NetCreateHar
<1>10. CASE NetDeleteApi BY <1>10 DEF NetDeleteApi, ApiFailed
<1>11. CASE NetCreateApi BY <1>11 DEF NetCreateApi
<1>12. ASSUME NEW due \in BOOLEAN, NetReport(due) PROVE SuccessNoted'
  BY <1>12 DEF NetReport
<1>13. CASE NetReported BY <1>13 DEF NetReported
<1>14. CASE NetWatchdog
  <2>1. goodFor >= CheckEvery + 3 => services = "OK"
    BY <1>14 DEF NetWatchdog, Failing, Unchecked, Unretested, BeforeRetest
  <2> QED BY <1>14, <2>1 DEF NetWatchdog
<1>15. ASSUME NEW api \in BOOLEAN, NEW har \in BOOLEAN, Boot(api, har)
       PROVE SuccessNoted'
  BY <1>15 DEF Boot, Started
<1>16. CASE NukiNext BY <1>16 DEF NukiNext, NukiSend, NukiSent
<1>17. CASE WebNext
  BY <1>17 DEF WebNext, WebDisableApi, WebStopApi, WebDisableHar,
         WebSaveSettings
<1>18. CASE Change BY <1>18 DEF Change
<1>19. CASE Tick BY <1>19 DEF Tick
<1>20. CASE UNCHANGED vars BY <1>20 DEF vars
<1> QED
  BY <1>1, <1>2, <1>3, <1>4, <1>5, <1>6, <1>7, <1>8, <1>9, <1>10, <1>11, <1>12,
     <1>13, <1>14, <1>15, <1>16, <1>17, <1>18, <1>19, <1>20 DEF Next, NetNext

\* Both ages grow with the ticks.
LEMMA AheadKept ==
  ASSUME IInv, [Next]_vars PROVE Ahead'
<1> USE DEF Ahead, Off, Up, IInv, TypeOK, FlagsOK, DataOK, NetStep, AnyEnabled,
            timeVars, historyVars, apiVars, harVars, taskVars, envVars
<1>1. CASE NetOff BY <1>1 DEF NetOff
<1>2. CASE NetDisconnected BY <1>2 DEF NetDisconnected
<1>3. CASE NetServe BY <1>3 DEF NetServe
<1>4. ASSUME NEW disable \in BOOLEAN, NetServed(disable) PROVE Ahead'
  BY <1>4 DEF NetServed
<1>5. CASE NetRetest BY <1>5 DEF NetRetest
<1>6. CASE NetNoCheck BY <1>6 DEF NetNoCheck, CheckDue
<1>7. CASE NetCheck BY <1>7 DEF NetCheck, CheckDue
<1>8. CASE NetDeleteHar BY <1>8 DEF NetDeleteHar, HarFailed
<1>9. CASE NetCreateHar BY <1>9 DEF NetCreateHar
<1>10. CASE NetDeleteApi BY <1>10 DEF NetDeleteApi, ApiFailed
<1>11. CASE NetCreateApi BY <1>11 DEF NetCreateApi
<1>12. ASSUME NEW due \in BOOLEAN, NetReport(due) PROVE Ahead'
  BY <1>12 DEF NetReport
<1>13. CASE NetReported BY <1>13 DEF NetReported
<1>14. CASE NetWatchdog BY <1>14 DEF NetWatchdog
<1>15. ASSUME NEW api \in BOOLEAN, NEW har \in BOOLEAN, Boot(api, har)
       PROVE Ahead'
  BY <1>15 DEF Boot, Started
<1>16. CASE NukiNext BY <1>16 DEF NukiNext, NukiSend, NukiSent
<1>17. CASE WebNext
  BY <1>17 DEF WebNext, WebDisableApi, WebStopApi, WebDisableHar,
         WebSaveSettings
<1>18. CASE Change BY <1>18 DEF Change
<1>19. CASE Tick
  <2>1. PICK s \in Nat : s = sinceOk' /\ s <= sinceOk + 1 /\ s <= Timeout + 1
    BY <1>19 DEF Tick, Older
  <2>2. PICK o \in Nat : o = sinceGood'
                       /\ (o >= sinceGood + 1 \/ o = Timeout + 1
                             \/ (o = 0 /\ goodFor >= Patience))
    BY <1>19 DEF Tick, Older, Patience
  <2>3. ~Off => s <= o + 1
    BY <1>19, <2>1, <2>2 DEF Tick, SuccessNoted
  <2> QED BY <1>19, <2>1, <2>2, <2>3 DEF Tick
<1>20. CASE UNCHANGED vars BY <1>20 DEF vars
<1> QED
  BY <1>1, <1>2, <1>3, <1>4, <1>5, <1>6, <1>7, <1>8, <1>9, <1>10, <1>11, <1>12,
     <1>13, <1>14, <1>15, <1>16, <1>17, <1>18, <1>19, <1>20 DEF Next, NetNext

LEMMA InitIInv == Init => IInv
<1> SUFFICES ASSUME Init PROVE IInv OBVIOUS
<1>1. TypeOK BY InitTyped
<1>2. GoodNow /\ StopDisabled /\ RetestMet /\ CheckMet
  BY DEF Init, GoodNow, StopDisabled, RetestMet, CheckMet
<1>3. ApiBuilt BY DEF Init, ApiBuilt, ApiTest, State
<1>4. HarBuilt BY DEF Init, HarBuilt, HarTest, State
<1>5. Failing BY DEF Init, Failing, Unchecked
<1>6. SuccessNoted /\ Ahead BY DEF Init, SuccessNoted, Ahead
<1> QED BY <1>1, <1>2, <1>3, <1>4, <1>5, <1>6 DEF IInv

LEMMA IInvKept == IInv /\ [Next]_vars => IInv'
<1> SUFFICES ASSUME IInv, [Next]_vars PROVE IInv' OBVIOUS
<1>1. TypeOK' BY FlagsKept, DataKept DEF TypeOK, IInv
<1>2. GoodNow' BY GoodNowKept DEF IInv
<1>3. StopDisabled' /\ ApiBuilt' /\ HarBuilt'
  BY StopDisabledKept, ApiBuiltKept, HarBuiltKept DEF IInv
<1>4. RetestMet' /\ CheckMet' BY RetestMetKept, CheckMetKept DEF IInv
<1>5. Failing' /\ SuccessNoted' /\ Ahead' BY FailingKept, NotedKept, AheadKept
<1> QED BY <1>1, <1>2, <1>3, <1>4, <1>5 DEF IInv

\* The watchdog restarts the ESP only if the enabled services have not been able
\* to work for Timeout (NukiNetwork::update): whenever it acts, it is not ahead of
\* the time without a success.
THEOREM RestartJustified == Spec => WatchdogJustified
<1>1. IInv /\ [Next]_vars
        => [(netPc = "watchdog" /\ netPc' = "esp") => sinceGood >= Timeout]_vars
  <2> SUFFICES ASSUME IInv, Next, netPc = "watchdog", netPc' = "esp"
               PROVE  sinceGood >= Timeout
    BY DEF vars
  <2>1. NetWatchdog
    BY DEF Next, NetNext, NukiNext, WebNext, NetOff, NetDisconnected, NetServe,
           NetServed, NetRetest, NetNoCheck, NetCheck, NetDeleteHar, NetCreateHar,
           NetDeleteApi, NetCreateApi, NetReport, NetReported, Boot, NukiSend,
           NukiSent, WebDisableApi, WebStopApi, WebDisableHar, WebSaveSettings,
           Change, Tick, NetStep
  <2>2. sinceOk > Timeout BY <2>1 DEF NetWatchdog, Expired
  <2>3. sinceOk <= sinceGood + 1 BY DEF IInv, Ahead, Off, Up
  <2> QED BY <2>2, <2>3 DEF IInv, TypeOK, DataOK
<1> QED BY <1>1, InitIInv, IInvKept, PTL DEF Spec, WatchdogJustified
-----------------------------------------------------------------------------
(***************************************************************************)
(* Why the watchdog is punctual.  A failure of HAR is found by the next    *)
(* check, or by the retest that is owed, and from then on the age of the   *)
(* last success grows with each tick.                                      *)
(***************************************************************************)

\* What has been hopeless for a tick still is.
HopelessNow == hopelessFor > 0 => Hopeless

\* The grace begins with the boot, as everything else.
GraceCounted == hopelessFor <= uptime \/ uptime = Grace

\* Only what has failed is tested again.
RetestOwed == retest # "none" => services # "OK"

\* As long as nothing has been found, the check cannot be far.
Undetected ==
  services = "OK" =>
    \/ hopelessFor <= sinceCheck
    \/ /\ hopelessFor = CheckEvery + 1 /\ sinceCheck = CheckEvery
       /\ ~looped /\ netPc \in BeforeCheck /\ sinceOk >= 1

\* Afterwards no success is noted.
Detected ==
  services # "OK" => hopelessFor <= CheckEvery + sinceOk \/ sinceOk = Timeout + 1

\* A whole loop since the last tick cannot have passed an expired timeout.
ExpiryMet == hopelessFor > 0 /\ looped /\ Up => ~Expired

PInv == /\ TypeOK /\ CheckMet /\ HopelessNow /\ GraceCounted /\ RetestOwed
        /\ Undetected /\ Detected /\ ExpiryMet /\ WatchdogPunctual

\* What a successful test says about HAR.
LEMMA TestHopeless ==
  ASSUME TypeOK, TestServices, Hopeless PROVE services' # "OK"
BY TestFinds DEF HarTest, Hopeless, TypeOK, FlagsOK

\* With nothing to wait for no bound is passed.
LEMMA NoWait ==
  ASSUME NEW c \in Nat, NEW o \in Nat PROVE 0 <= c /\ 0 <= CheckEvery + o
OBVIOUS

LEMMA PunctualKept ==
  ASSUME PInv, [Next]_vars
  PROVE  /\ HopelessNow' /\ GraceCounted' /\ RetestOwed' /\ Undetected'
         /\ Detected' /\ ExpiryMet' /\ WatchdogPunctual'
<1> DEFINE Kept == /\ HopelessNow' /\ GraceCounted' /\ RetestOwed' /\ Undetected'
                   /\ Detected' /\ ExpiryMet' /\ WatchdogPunctual'
<1> SUFFICES Kept OBVIOUS
<1> USE DEF PInv, TypeOK, FlagsOK, DataOK, HopelessNow, Hopeless, GraceCounted,
            RetestOwed, Undetected, Detected, ExpiryMet, WatchdogPunctual, Expired, Up,
            BeforeCheck, BeforeRetest, NetStep, AnyEnabled, timeVars, historyVars,
            apiVars, harVars, taskVars, envVars
<1>0. Deadline \in Nat /\ Deadline >= CheckEvery + Timeout + 1 /\ Deadline >= Grace
  BY DEF Deadline
<1>1. CASE NetOff BY <1>1 DEF NetOff
<1>2. CASE NetDisconnected BY <1>2 DEF NetDisconnected
<1>3. CASE NetServe BY <1>3 DEF NetServe
<1>4. ASSUME NEW disable \in BOOLEAN, NetServed(disable) PROVE Kept
  BY <1>4 DEF NetServed
<1>5. CASE NetRetest
  <2>1. CASE retest = "due" /\ Hopeless
    BY <1>5, <2>1, TestHopeless DEF NetRetest
  <2>2. CASE retest = "due" /\ ~Hopeless
    BY <1>5, <2>2 DEF NetRetest
  <2>3. CASE retest # "due"
    BY <1>5, <2>3 DEF NetRetest
  <2> QED BY <2>1, <2>2, <2>3
<1>6. CASE NetNoCheck BY <1>6 DEF NetNoCheck, CheckDue
<1>7. CASE NetCheck
  <2>1. CASE Hopeless
    BY <1>7, <2>1, TestHopeless DEF NetCheck, CheckDue
  <2>2. CASE ~Hopeless
    BY <1>7, <2>2 DEF NetCheck, CheckDue
  <2> QED BY <2>1, <2>2
<1>8. CASE NetDeleteHar BY <1>8 DEF NetDeleteHar, HarFailed
<1>9. CASE NetCreateHar BY <1>9 DEF NetCreateHar
<1>10. CASE NetDeleteApi BY <1>10 DEF NetDeleteApi, ApiFailed
<1>11. CASE NetCreateApi BY <1>11 DEF NetCreateApi
<1>12. ASSUME NEW due \in BOOLEAN, NetReport(due) PROVE Kept
  BY <1>12 DEF NetReport
<1>13. CASE NetReported BY <1>13 DEF NetReported
<1>14. CASE NetWatchdog BY <1>14 DEF NetWatchdog
<1>15. ASSUME NEW api \in BOOLEAN, NEW har \in BOOLEAN, Boot(api, har) PROVE Kept
  BY <1>0, <1>15 DEF Boot, Started
<1>16. CASE NukiNext BY <1>16 DEF NukiNext, NukiSend, NukiSent
<1>17. CASE WebNext
  BY <1>0, <1>17 DEF WebNext, WebDisableApi, WebStopApi, WebDisableHar,
         WebSaveSettings
<1>18. CASE Change BY <1>0, <1>18 DEF Change
<1>19. CASE Tick
  <2>0. /\ looped /\ ~looped' /\ Up /\ UNCHANGED <<services, netPc, Hopeless>>
        /\ retest' # "none" => retest # "none"
        /\ UNCHANGED Deadline
    BY <1>19 DEF Tick
  <2>1. CASE ~Hopeless
    <3>1. hopelessFor' = 0 BY <1>19, <2>1 DEF Tick
    <3>2. sinceCheck' \in Nat /\ sinceOk' \in Nat /\ uptime' \in Nat
      BY <1>19, OlderBounded DEF Tick
    <3>3. HopelessNow' /\ RetestOwed' /\ ExpiryMet'
      BY <2>0, <3>1
    <3>4. GraceCounted' /\ WatchdogPunctual'
      BY <1>0, <2>0, <3>1, <3>2
    <3>5. 0 <= sinceCheck' /\ 0 <= CheckEvery + sinceOk'
      BY <3>2, NoWait
    <3>6. Undetected' /\ Detected'
      BY <3>1, <3>5
    <3> QED BY <3>3, <3>4, <3>6
  <2>2. CASE Hopeless
    <3>1. PICK h \in Nat : h = hopelessFor' /\ h <= hopelessFor + 1
      BY <1>0, <1>19, <2>2 DEF Tick, Older
    <3>2. PICK c \in Nat : c = sinceCheck'
            /\ c = IF sinceCheck < CheckEvery THEN sinceCheck + 1 ELSE sinceCheck
      BY <1>19 DEF Tick, Older
    <3>3. PICK o \in Nat : o = sinceOk' /\ o >= 1
            /\ o = IF sinceOk < Timeout + 1 THEN sinceOk + 1 ELSE sinceOk
      BY <1>19 DEF Tick, Older
    <3>4. PICK u \in Nat : u = uptime'
            /\ u = IF uptime < Grace THEN uptime + 1 ELSE uptime
      BY <1>19 DEF Tick, Older
    <3>6. h <= u \/ u = Grace
      BY <3>1, <3>4
    <3>7. services = "OK" =>
            \/ h <= c
            \/ h = CheckEvery + 1 /\ c = CheckEvery /\ netPc \in BeforeCheck
      BY <2>0, <2>2, <3>1, <3>2 DEF CheckMet
    <3>8. services # "OK" => h <= CheckEvery + o \/ o = Timeout + 1
      BY <3>1, <3>3
    <3>9. h <= Deadline
      BY <1>0, <2>0, <2>2, <3>1
    <3>10. HopelessNow' /\ RetestOwed' /\ ExpiryMet'
      BY <2>0, <2>2
    <3>11. GraceCounted' /\ WatchdogPunctual'
      BY <2>0, <3>1, <3>4, <3>6, <3>9
    <3>12. Undetected' /\ Detected'
      BY <2>0, <3>1, <3>2, <3>3, <3>7, <3>8
    <3> QED BY <3>10, <3>11, <3>12
  <2> QED BY <2>1, <2>2
<1>20. CASE UNCHANGED vars BY <1>20 DEF vars
<1> QED
  BY <1>1, <1>2, <1>3, <1>4, <1>5, <1>6, <1>7, <1>8, <1>9, <1>10, <1>11, <1>12,
     <1>13, <1>14, <1>15, <1>16, <1>17, <1>18, <1>19, <1>20 DEF Next, NetNext

\* While HAR cannot work the watchdog comes in time, for every length of the check,
\* the timeout and the grace (NukiNetwork::update).
THEOREM RestartPunctual == Spec => []WatchdogPunctual
<1>1. Init => PInv
  <2> SUFFICES ASSUME Init PROVE PInv OBVIOUS
  <2>1. TypeOK BY InitTyped
  <2>2. CheckMet /\ HopelessNow /\ GraceCounted /\ RetestOwed
    BY DEF Init, CheckMet, HopelessNow, GraceCounted, RetestOwed
  <2>3. Undetected /\ Detected /\ ExpiryMet
    BY DEF Init, Undetected, Detected, ExpiryMet
  <2>4. WatchdogPunctual BY DEF Init, WatchdogPunctual, Deadline
  <2> QED BY <2>1, <2>2, <2>3, <2>4 DEF PInv
<1>2. PInv /\ [Next]_vars => PInv'
  <2> SUFFICES ASSUME PInv, [Next]_vars PROVE PInv' OBVIOUS
  <2>1. TypeOK' BY FlagsKept, DataKept DEF TypeOK, PInv
  <2>2. CheckMet' BY CheckMetKept DEF PInv
  <2> QED BY <2>1, <2>2, PunctualKept DEF PInv
<1>3. PInv => WatchdogPunctual BY DEF PInv
<1> QED BY <1>1, <1>2, <1>3, PTL DEF Spec
=============================================================================
