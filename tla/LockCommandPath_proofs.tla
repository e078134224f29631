---------------------- MODULE LockCommandPath_proofs ----------------------
(***************************************************************************)
(* Proofs about LockCommandPath for any set of actions and queries, any    *)
(* number of retries and any number of requests.                           *)
(***************************************************************************)
EXTENDS LockCommandPath, SequenceTheorems, TLAPS

USE PathAssumption DEF PathAssumption, LockState, ServiceStates

LEMMA RestOkType == \A s : RestOk(s) \in BOOLEAN
  BY DEF RestOk

\* Every variable of the command path keeps its type; in particular retryComm
\* never counts past NrOfRetries.
THEOREM TypeCorrect == Spec => []TypeOK
<1>1. Init => TypeOK
  <2>1. Init => FlagsOK
    BY RestOkType DEF Init, FlagsOK
  <2>2. Init => NetOK /\ NukiOK
    BY DEF Init, NetOK, NukiOK, NoRequest
  <2> QED
    BY <2>1, <2>2 DEF TypeOK
<1>2. TypeOK /\ [Next]_vars => TypeOK'
  <2> SUFFICES ASSUME TypeOK, [Next]_vars PROVE TypeOK'
    OBVIOUS
  <2> USE DEF TypeOK, nukiVars, sharedVars, netVars, bleVars
  <2>1. CASE NetNext
    <3>1. CASE NetNoRequest
      <4>1. FlagsOK'
        BY <3>1 DEF FlagsOK, NetNoRequest
      <4>2. NetOK' /\ NukiOK'
        BY <3>1 DEF NetOK, NukiOK, NetNoRequest
      <4> QED
        BY <4>1, <4>2
    <3>2. ASSUME NEW a \in Action \cup {NoAction}, NetLockAction(a)
          PROVE  TypeOK'
      <4>1. FlagsOK'
        BY <3>2 DEF FlagsOK, NetLockAction, Serving
      <4>2. NetOK' /\ NukiOK'
        BY <3>2 DEF NetOK, NukiOK, NetLockAction, Serving
      <4> QED
        BY <4>1, <4>2
    <3>3. CASE NetLockReboot
      <4>1. FlagsOK'
        BY <3>3 DEF FlagsOK, NetLockReboot, Serving
      <4>2. NetOK' /\ NukiOK'
        BY <3>3 DEF NetOK, NukiOK, NetLockReboot, Serving
      <4> QED
        BY <4>1, <4>2
    <3>4. ASSUME NEW q \in Query, NetQueryLoad(q)
          PROVE  TypeOK'
      <4>1. FlagsOK'
        BY <3>4 DEF FlagsOK, NetQueryLoad, Serving
      <4>2. NetOK' /\ NukiOK'
        BY <3>4 DEF NetOK, NukiOK, NetQueryLoad, Serving
      <4> QED
        BY <4>1, <4>2
    <3>5. CASE NetQueryStore
      <4>1. FlagsOK'
        BY <3>5 DEF FlagsOK, NetQueryStore, NoRequest
      <4>2. NetOK' /\ NukiOK'
        BY <3>5 DEF NetOK, NukiOK, NetQueryStore, NoRequest
      <4> QED
        BY <4>1, <4>2
    <3>6. CASE NetNoCheck
      <4>1. FlagsOK'
        BY <3>6 DEF FlagsOK, NetNoCheck
      <4>2. NetOK' /\ NukiOK'
        BY <3>6 DEF NetOK, NukiOK, NetNoCheck
      <4> QED
        BY <4>1, <4>2
    <3>7. ASSUME NEW s \in ServiceStates, NetHealthCheck(s)
          PROVE  TypeOK'
      <4>1. FlagsOK'
        BY <3>7 DEF FlagsOK, NetHealthCheck
      <4>2. NetOK' /\ NukiOK'
        BY <3>7 DEF NetOK, NukiOK, NetHealthCheck
      <4> QED
        BY <4>1, <4>2
    <3>8. ASSUME NEW s \in ServiceStates, NetRetest(s)
          PROVE  TypeOK'
      <4>1. FlagsOK'
        BY <3>8, RestOkType DEF FlagsOK, NetRetest
      <4>2. NetOK' /\ NukiOK'
        BY <3>8 DEF NetOK, NukiOK, NetRetest
      <4> QED
        BY <4>1, <4>2
    <3>9. ASSUME NEW open \in BOOLEAN, NetGate(open)
          PROVE  TypeOK'
      <4>1. FlagsOK'
        BY <3>9 DEF FlagsOK, NetGate
      <4>2. NetOK' /\ NukiOK'
        BY <3>9 DEF NetOK, NukiOK, NetGate
      <4> QED
        BY <4>1, <4>2
    <3> QED
      BY <2>1, <3>1, <3>2, <3>3, <3>4, <3>5, <3>6, <3>7, <3>8, <3>9 DEF NetNext
  <2>2. CASE NukiNext
    <3> USE DEF NukiStep
    <3>1. CASE NukiCall
      <4>1. FlagsOK'
        BY <3>1 DEF FlagsOK, NukiCall
      <4>2. NetOK' /\ NukiOK'
        BY <3>1 DEF NetOK, NukiOK, NukiCall
      <4> QED
        BY <4>1, <4>2
    <3>2. CASE NukiIsPaired
      <4>1. FlagsOK'
        BY <3>2 DEF FlagsOK, NukiIsPaired
      <4>2. NetOK' /\ NukiOK'
        BY <3>2 DEF NetOK, NukiOK, NukiIsPaired
      <4> QED
        BY <4>1, <4>2
    <3>3. CASE NukiPair
      <4>1. FlagsOK'
        BY <3>3 DEF FlagsOK, NukiPair
      <4>2. NetOK' /\ NukiOK'
        BY <3>3 DEF NetOK, NukiOK, NukiPair
      <4> QED
        BY <4>1, <4>2
    <3>4. CASE NukiReadQuery
      <4>1. FlagsOK'
        BY <3>4 DEF FlagsOK, NukiReadQuery
      <4>2. NetOK' /\ NukiOK'
        BY <3>4 DEF NetOK, NukiOK, NukiReadQuery
      <4> QED
        BY <4>1, <4>2
    <3>5. CASE NukiResetQuery
      <4>1. FlagsOK'
        BY <3>5 DEF FlagsOK, NukiResetQuery
      <4>2. NetOK' /\ NukiOK'
        BY <3>5 DEF NetOK, NukiOK, NukiResetQuery
      <4> QED
        BY <4>1, <4>2
    <3>6. CASE NukiTakeAction
      <4>1. FlagsOK'
        BY <3>6 DEF FlagsOK, NukiTakeAction
      <4>2. NetOK' /\ NukiOK'
        BY <3>6 DEF NetOK, NukiOK, NukiTakeAction
      <4> QED
        BY <4>1, <4>2
    <3>7. CASE NukiActionSucceeds
      <4>1. FlagsOK'
        BY <3>7 DEF FlagsOK, NukiActionSucceeds
      <4>2. NetOK' /\ NukiOK'
        BY <3>7 DEF NetOK, NukiOK, NukiActionSucceeds
      <4> QED
        BY <4>1, <4>2
    <3>8. CASE NukiActionFails
      <4>1. FlagsOK'
        BY <3>8 DEF FlagsOK, NukiActionFails
      <4>2. NetOK' /\ NukiOK'
        BY <3>8 DEF NetOK, NukiOK, NukiActionFails
      <4> QED
        BY <4>1, <4>2
    <3>9. ASSUME NEW timerDue \in BOOLEAN, NukiPoll(timerDue)
          PROVE  TypeOK'
      <4>1. FlagsOK'
        BY <3>9 DEF FlagsOK, NukiPoll
      <4>2. NetOK' /\ NukiOK'
        <5>1. sent' \in SUBSET (Query \cup {"action", "reboot"})
          BY <3>9 DEF NukiOK, NukiPoll
        <5>2. UNCHANGED <<netVars, queryCommands, services, lockActionQueue>>
          BY <3>9 DEF NukiPoll
        <5>3. UNCHANGED <<qc, pendingAction, tries, result, rebootsSent, restarts>> /\ nukiPc' = "report"
          BY <3>9 DEF NukiPoll
        <5> QED
          BY <5>1, <5>2, <5>3 DEF NetOK, NukiOK
      <4> QED
        BY <4>1, <4>2
    <3>10. ASSUME NEW due \in SUBSET (Query \ {LockState}), NEW pinValid \in BOOLEAN, NukiReport(due, pinValid)
          PROVE  TypeOK'
      <4>1. FlagsOK'
        BY <3>10 DEF FlagsOK, NukiReport
      <4>2. NetOK' /\ NukiOK'
        BY <3>10 DEF NetOK, NukiOK, NukiReport
      <4> QED
        BY <4>1, <4>2
    <3>11. CASE NukiClearReboot
      <4>1. FlagsOK'
        BY <3>11 DEF FlagsOK, NukiClearReboot
      <4>2. NetOK' /\ NukiOK'
        BY <3>11 DEF NetOK, NukiOK, NukiClearReboot
      <4> QED
        BY <4>1, <4>2
    <3>12. CASE NukiRestart
      <4>1. FlagsOK'
        BY <3>12 DEF FlagsOK, NukiRestart
      <4>2. NetOK' /\ NukiOK'
        BY <3>12 DEF NetOK, NukiOK, NukiRestart
      <4> QED
        BY <4>1, <4>2
    <3> QED
      BY <2>2, <3>1, <3>2, <3>3, <3>4, <3>5, <3>6, <3>7, <3>8, <3>9, <3>10, <3>11,
         <3>12 DEF NukiNext
  <2>3. CASE EnvNext
    <3>1. CASE BleNotify
      <4>1. FlagsOK'
        BY <3>1 DEF FlagsOK, BleNotify
      <4>2. NetOK' /\ NukiOK'
        BY <3>1 DEF NetOK, NukiOK, BleNotify
      <4> QED
        BY <4>1, <4>2
    <3>2. CASE BleFault
      <4>1. FlagsOK'
        BY <3>2 DEF FlagsOK, BleFault
      <4>2. NetOK' /\ NukiOK'
        BY <3>2 DEF NetOK, NukiOK, BleFault
      <4> QED
        BY <4>1, <4>2
    <3> QED
      BY <2>3, <3>1, <3>2 DEF EnvNext
  <2>4. CASE UNCHANGED vars
    BY <2>4 DEF vars, FlagsOK, NetOK, NukiOK
  <2> QED
    BY <2>1, <2>2, <2>3, <2>4 DEF Next
<1> QED
  BY <1>1, <1>2, PTL DEF Spec

-----------------------------------------------------------------------------
(***************************************************************************)
(* A lock reboot is sent at most once per answer.                          *)
(***************************************************************************)

USE DEF nukiVars, sharedVars, netVars, bleVars, NukiStep

\* The steps of the rest of the system leave alone what covers the reboots.
LEMMA RebootUntouched ==
  ASSUME UNCHANGED <<rebootsSent, rebootsAccepted, rebootLockPending, rebootLock,
                     reboot, nukiPc>>,
         RebootsCovered
  PROVE  RebootsCovered'
  BY DEF RebootsCovered, RebootInFlight, OneIf

\* The lock is never rebooted more often than lock/reboot was answered with 200.
THEOREM RebootsBounded == Spec => []RebootAtMostOnce
<1>1. Init => RebootsCovered
  BY DEF Init, RebootsCovered, RebootInFlight, OneIf
<1>2. TypeOK /\ RebootsCovered /\ [Next]_vars => RebootsCovered'
  <2> SUFFICES ASSUME TypeOK, RebootsCovered, [Next]_vars PROVE RebootsCovered'
    OBVIOUS
  <2>t. /\ rebootsSent \in Nat /\ rebootsAccepted \in Nat
    BY DEF TypeOK, NetOK, NukiOK
  <2> USE DEF RebootsCovered, RebootInFlight, OneIf
  <2>1. CASE NetLockReboot
    BY <2>1, <2>t DEF NetLockReboot
  <2>2. ASSUME NEW open \in BOOLEAN, NetGate(open) PROVE RebootsCovered'
    BY <2>2, <2>t DEF NetGate
  <2>3. CASE NukiCall
    BY <2>3, <2>t DEF NukiCall
  <2>4. ASSUME NEW due \in SUBSET (Query \ {LockState}), NEW pinValid \in BOOLEAN,
               NukiReport(due, pinValid)
        PROVE  RebootsCovered'
    <3>1. CASE ReportsEnabled /\ reboot /\ pinValid
      BY <2>4, <2>t, <3>1 DEF NukiReport
    <3>2. CASE ~(ReportsEnabled /\ reboot /\ pinValid)
      BY <2>4, <2>t, <3>2 DEF NukiReport
    <3> QED
      BY <3>1, <3>2
  <2>5. CASE NukiClearReboot
    BY <2>5, <2>t DEF NukiClearReboot
  <2>6. CASE NukiTakeAction \/ NukiActionSucceeds \/ NukiActionFails \/ NukiPair
             \/ NukiIsPaired \/ NukiReadQuery \/ NukiResetQuery \/ NukiRestart
    BY <2>6, <2>t DEF NukiRestart, NukiTakeAction, NukiActionSucceeds, NukiActionFails, NukiPair,
                NukiIsPaired, NukiReadQuery, NukiResetQuery
  <2>7. ASSUME NEW timerDue \in BOOLEAN, NukiPoll(timerDue) PROVE RebootsCovered'
    BY <2>7, <2>t DEF NukiPoll
  <2>8. ASSUME NEW a \in Action \cup {NoAction}, NetLockAction(a) PROVE RebootsCovered'
    BY <2>8, RebootUntouched DEF NetLockAction
  <2>9. ASSUME NEW q \in Query, NetQueryLoad(q) PROVE RebootsCovered'
    BY <2>9, RebootUntouched DEF NetQueryLoad
  <2>10. ASSUME NEW s \in ServiceStates, NetHealthCheck(s) \/ NetRetest(s)
         PROVE  RebootsCovered'
    BY <2>10, RebootUntouched DEF NetHealthCheck, NetRetest
  <2>11. CASE NetNoRequest \/ NetQueryStore \/ NetNoCheck
    BY <2>11, RebootUntouched DEF NetNoRequest, NetQueryStore, NetNoCheck
  <2>12. CASE EnvNext
    BY <2>12, RebootUntouched DEF EnvNext, BleNotify, BleFault
  <2>13. CASE UNCHANGED vars
    BY <2>13, RebootUntouched DEF vars
  <2> QED
    BY <2>1, <2>2, <2>3, <2>4, <2>5, <2>6, <2>7, <2>8, <2>9, <2>10, <2>11, <2>12,
       <2>13 DEF Next, NetNext, NukiNext
<1>3. TypeOK /\ RebootsCovered => RebootAtMostOnce
  BY DEF TypeOK, NetOK, NukiOK, RebootsCovered, RebootInFlight, OneIf, RebootAtMostOnce
<1> QED
  BY <1>1, <1>2, <1>3, TypeCorrect, PTL DEF Spec

-----------------------------------------------------------------------------
(***************************************************************************)
(* The hand-over through the queue implements the service.                 *)
(***************************************************************************)

LEMMA OneOrNoneEmpty == OneOrNone(NoAction) = << >>
  BY DEF OneOrNone

LEMMA OneOrNoneSingle == ASSUME NEW a \in Action PROVE OneOrNone(a) = <<a>>
  BY DEF OneOrNone

\* What Unfinished is in each state of the two places an action can be in.
LEMMA UnfinishedForms ==
  ASSUME NEW p \in Action, NEW q \in Action
  PROVE  /\ OneOrNone(NoAction) \o OneOrNone(NoAction) = << >>
         /\ OneOrNone(p) \o OneOrNone(NoAction) = <<p>>
         /\ OneOrNone(NoAction) \o OneOrNone(q) = <<q>>
         /\ OneOrNone(p) \o OneOrNone(q) = Append(<<p>>, q)
<1>1. << >> \o << >> = << >>
  OBVIOUS
<1>2. <<p>> \o << >> = <<p>> /\ << >> \o <<q>> = <<q>>
  OBVIOUS
<1>3. Append(<<p>>, q) = <<p>> \o <<q>>
  <2>1. <<p>> \in Seq(Action)
    OBVIOUS
  <2> QED
    BY <2>1, AppendIsConcat
<1> QED
  BY <1>1, <1>2, <1>3, OneOrNoneEmpty, OneOrNoneSingle

\* Something is unfinished while the queue or update() holds an action ...
LEMMA SomethingUnfinished ==
  ASSUME NEW p \in Action \cup {NoAction}, NEW q \in Action \cup {NoAction},
         p # NoAction \/ q # NoAction
  PROVE  OneOrNone(p) \o OneOrNone(q) # << >>
<1>1. CASE p \in Action /\ q \in Action
  <2>1. <<p>> \in Seq(Action)
    BY <1>1
  <2>2. Append(<<p>>, q) # << >>
    BY <1>1, <2>1, AppendProperties
  <2> QED
    BY <1>1, <2>2, UnfinishedForms
<1>2. CASE p = NoAction /\ q \in Action
  <2>1. <<q>> # << >>
    OBVIOUS
  <2> QED
    BY <1>2, <2>1, UnfinishedForms
<1>3. CASE p \in Action /\ q = NoAction
  <2>1. <<p>> # << >>
    OBVIOUS
  <2> QED
    BY <1>3, <2>1, UnfinishedForms
<1> QED
  BY <1>1, <1>2, <1>3

\* ... and when update() lets go of its action the one in the queue is left.
LEMMA QueuedIsLeft ==
  ASSUME NEW p \in Action, NEW q \in Action \cup {NoAction}
  PROVE  Tail(OneOrNone(p) \o OneOrNone(q)) = OneOrNone(NoAction) \o OneOrNone(q)
<1>1. Tail(<<p>>) = << >>
  OBVIOUS
<1>2. CASE q = NoAction
  BY <1>1, <1>2, UnfinishedForms
<1>3. CASE q \in Action
  <2>1. <<p>> \in Seq(Action) /\ <<p>> # << >>
    OBVIOUS
  <2>2. Tail(Append(<<p>>, q)) = Append(Tail(<<p>>), q)
    BY <2>1, <1>3, HeadTailAppend
  <2>3. Append(<< >>, q) = <<q>>
    OBVIOUS
  <2>4. Tail(Append(<<p>>, q)) = <<q>>
    BY ONLY <1>1, <2>2, <2>3
  <2> QED
    BY <1>3, <2>4, UnfinishedForms
<1> QED
  BY <1>2, <1>3

\* retryComm is entered with a fresh count, and only it holds an action.
LEMMA RetryLoopCleanAlways == Spec => []RetryLoopClean
<1>1. Init => RetryLoopClean
  BY DEF Init, RetryLoopClean
<1>2. TypeOK /\ RetryLoopClean /\ [Next]_vars => RetryLoopClean'
  <2> SUFFICES ASSUME TypeOK, RetryLoopClean, [Next]_vars PROVE RetryLoopClean'
    OBVIOUS
  <2> USE DEF RetryLoopClean
  <2>1. CASE NetNext
    <3>1. UNCHANGED <<pendingAction, nukiPc, tries>>
      BY <2>1 DEF NetNext, NetNoRequest, NetLockAction, NetLockReboot, NetQueryLoad,
                  NetQueryStore, NetNoCheck, NetHealthCheck, NetRetest, NetGate
    <3> QED
      BY <3>1
  <2>2. CASE NukiTakeAction
    BY <2>2 DEF NukiTakeAction
  <2>3. CASE NukiActionSucceeds
    BY <2>3 DEF NukiActionSucceeds
  <2>4. CASE NukiActionFails
    BY <2>4 DEF NukiActionFails
  <2>5. CASE NukiCall \/ NukiIsPaired \/ NukiPair \/ NukiReadQuery \/ NukiResetQuery
             \/ NukiClearReboot \/ NukiRestart
    BY <2>5 DEF NukiRestart, NukiCall, NukiIsPaired, NukiPair, NukiReadQuery, NukiResetQuery,
                NukiClearReboot
  <2>6. ASSUME NEW timerDue \in BOOLEAN, NukiPoll(timerDue) PROVE RetryLoopClean'
    BY <2>6 DEF NukiPoll
  <2>7. ASSUME NEW due \in SUBSET (Query \ {LockState}), NEW pinValid \in BOOLEAN,
               NukiReport(due, pinValid)
        PROVE  RetryLoopClean'
    BY <2>7 DEF NukiReport
  <2>8. CASE EnvNext
    BY <2>8 DEF EnvNext, BleNotify, BleFault
  <2>9. CASE UNCHANGED vars
    BY <2>9 DEF vars
  <2> QED
    BY <2>1, <2>2, <2>3, <2>4, <2>5, <2>6, <2>7, <2>8, <2>9 DEF Next, NukiNext
<1> QED
  BY <1>1, <1>2, TypeCorrect, PTL DEF Spec

\* The hand-over refines the service: initial states map to initial states and
\* every step is a step of the service or leaves it alone.
THEOREM ServiceImplemented == Spec => ActionsServed
<1>1. Init => Service!Init
  BY OneOrNoneEmpty DEF Init, Service!Init, Unfinished
<1>2. TypeOK /\ RetryLoopClean /\ [Next]_vars => [Service!Next]_(Service!serviceVars)
  <2> SUFFICES ASSUME TypeOK, RetryLoopClean, [Next]_vars
               PROVE  [Service!Next]_(Service!serviceVars)
    OBVIOUS
  <2> USE DEF Unfinished
  <2>p. /\ pendingAction \in Action \cup {NoAction}
        /\ lockActionQueue \in Action \cup {NoAction}
        /\ tries \in 0..NrOfRetries
    BY DEF TypeOK, NetOK, NukiOK
  <2>s. ASSUME UNCHANGED <<pendingAction, lockActionQueue, tries, result, answer,
                           restarts>>
        PROVE  [Service!Next]_(Service!serviceVars)
    BY <2>s DEF Service!serviceVars
  <2>1. ASSUME NEW a \in Action \cup {NoAction}, NetLockAction(a)
        PROVE  [Service!Next]_(Service!serviceVars)
    <3>1. CASE answer' = "refused" /\ UNCHANGED lockActionQueue
      <4>1. Service!Refuse
        BY <2>1, <3>1 DEF NetLockAction, Service!Refuse
      <4> QED
        BY <4>1 DEF Service!Next
    <3>2. CASE /\ answer' = "busy" /\ lockActionQueue # NoAction
               /\ UNCHANGED lockActionQueue
      <4>1. Unfinished # << >>
        BY <2>p, <3>2, SomethingUnfinished
      <4>2. Service!Busy
        BY <2>1, <3>2, <4>1 DEF NetLockAction, Service!Busy
      <4> QED
        BY <4>2 DEF Service!Next
    <3>3. CASE /\ a \in Action /\ lockActionQueue = NoAction
               /\ lockActionQueue' = a /\ answer' = "success"
      <4>1. a \in Action /\ UNCHANGED <<pendingAction, tries, result, restarts>>
        BY <2>1, <2>p, <3>3 DEF NetLockAction
      <4>2. Len(Unfinished) < 2 /\ Unfinished' = Append(Unfinished, a)
        <5>1. CASE pendingAction = NoAction
          <6>1. Unfinished = << >> /\ Unfinished' = <<a>>
            BY <3>3, <4>1, <5>1, UnfinishedForms
          <6>2. Append(<< >>, a) = <<a>> /\ Len(<< >>) < 2
            OBVIOUS
          <6> QED
            BY ONLY <6>1, <6>2
        <5>2. CASE pendingAction \in Action
          <6>1. Unfinished = <<pendingAction>> /\ Unfinished' = Append(<<pendingAction>>, a)
            BY <3>3, <4>1, <5>2, UnfinishedForms
          <6>2. Len(<<pendingAction>>) < 2
            OBVIOUS
          <6> QED
            BY ONLY <6>1, <6>2
        <5> QED
          BY <5>1, <5>2, <2>p
      <4>3. Service!Accept(a)
        BY <3>3, <4>1, <4>2 DEF Service!Accept
      <4> QED
        BY <4>1, <4>3 DEF Service!Next
    <3> QED
      BY <2>1, <3>1, <3>2, <3>3 DEF NetLockAction
  <2>2. CASE NukiTakeAction
    <3>1. UNCHANGED <<tries, result, answer, restarts>>
      BY <2>2 DEF NukiTakeAction
    <3>2. CASE lockActionQueue = NoAction
      BY <2>2, <3>2, <2>s DEF NukiTakeAction
    <3>3. CASE lockActionQueue \in Action
      <4>1. /\ pendingAction = NoAction /\ lockActionQueue' = NoAction
            /\ pendingAction' = lockActionQueue
        BY <2>2, <2>p, <3>3 DEF NukiTakeAction, RetryLoopClean
      <4>2. UNCHANGED Unfinished
        BY <3>3, <4>1, UnfinishedForms
      <4> QED
        BY <3>1, <4>2 DEF Service!serviceVars
    <3> QED
      BY <3>2, <3>3, <2>p
  <2>3. ASSUME nukiPc = "act", pendingAction' = NoAction, UNCHANGED lockActionQueue
        PROVE  Unfinished # << >> /\ Unfinished' = Tail(Unfinished)
    <3>1. pendingAction \in Action
      BY <2>3, <2>p DEF RetryLoopClean
    <3>2. Unfinished # << >>
      BY <2>p, <3>1, SomethingUnfinished
    <3> QED
      BY <2>3, <2>p, <3>1, <3>2, QueuedIsLeft
  <2>4. CASE NukiActionSucceeds
    <3>1. Service!Succeed
      BY <2>3, <2>4 DEF NukiActionSucceeds, Service!Succeed
    <3> QED
      BY <3>1 DEF Service!Next
  <2>5. CASE NukiActionFails
    <3>1. CASE tries + 1 < NrOfRetries + 1
      <4>1. Unfinished # << >>
        <5>1. nukiPc = "act"
          BY <2>5, <2>p, <3>1 DEF NukiActionFails
        <5>2. pendingAction \in Action
          BY <2>p, <5>1 DEF RetryLoopClean
        <5> QED
          BY <2>p, <5>2, SomethingUnfinished
      <4>2. /\ tries' = tries + 1 /\ result' = "failed"
            /\ UNCHANGED <<pendingAction, lockActionQueue, answer, restarts>>
        BY <2>5, <2>p, <3>1 DEF NukiActionFails
      <4>3. Service!Fail
        BY <3>1, <4>1, <4>2 DEF Service!Fail
      <4> QED
        BY <4>3 DEF Service!Next
    <3>2. CASE tries + 1 = NrOfRetries + 1
      <4>1. /\ nukiPc = "act" /\ pendingAction' = NoAction
            /\ tries' = 0 /\ result' = "failed"
            /\ UNCHANGED <<lockActionQueue, answer, restarts>>
        BY <2>5, <2>p, <3>2 DEF NukiActionFails
      <4>2. Service!GiveUp
        BY <2>3, <3>2, <4>1 DEF Service!GiveUp
      <4> QED
        BY <4>2 DEF Service!Next
    <3> QED
      BY <2>5, <3>1, <3>2 DEF NukiActionFails
  <2>6. CASE NukiCall \/ NukiIsPaired \/ NukiPair \/ NukiReadQuery \/ NukiResetQuery
             \/ NukiClearReboot
    BY <2>6, <2>s DEF NukiCall, NukiIsPaired, NukiPair, NukiReadQuery, NukiResetQuery,
                NukiClearReboot
  <2>7. ASSUME NEW timerDue \in BOOLEAN, NukiPoll(timerDue)
        PROVE  [Service!Next]_(Service!serviceVars)
    BY <2>7, <2>s DEF NukiPoll
  <2>8. ASSUME NEW due \in SUBSET (Query \ {LockState}), NEW pinValid \in BOOLEAN,
               NukiReport(due, pinValid)
        PROVE  [Service!Next]_(Service!serviceVars)
    BY <2>8, <2>s DEF NukiReport
  <2>9. CASE EnvNext
    BY <2>9, <2>s DEF EnvNext, BleNotify, BleFault
  <2>10. CASE NetNoRequest \/ NetLockReboot \/ NetQueryStore \/ NetNoCheck
    BY <2>10, <2>s DEF NetNoRequest, NetLockReboot, NetQueryStore, NetNoCheck
  <2>11. ASSUME NEW q \in Query, NetQueryLoad(q)
         PROVE  [Service!Next]_(Service!serviceVars)
    BY <2>11, <2>s DEF NetQueryLoad
  <2>12. ASSUME NEW s \in ServiceStates, NetHealthCheck(s) \/ NetRetest(s)
         PROVE  [Service!Next]_(Service!serviceVars)
    BY <2>12, <2>s DEF NetHealthCheck, NetRetest
  <2>13. ASSUME NEW open \in BOOLEAN, NetGate(open)
         PROVE  [Service!Next]_(Service!serviceVars)
    BY <2>13, <2>s DEF NetGate
  <2>14. CASE NukiRestart
    <3>1. pendingAction = NoAction /\ lockActionQueue' = NoAction
          /\ restarts' = restarts + 1
          /\ UNCHANGED <<pendingAction, tries, result, answer>>
      BY <2>14, <2>p DEF NukiRestart, RetryLoopClean
    <3>2. OneOrNone(NoAction) \o OneOrNone(NoAction) = << >>
      BY OneOrNoneEmpty
    <3>3. Service!Restart
      BY <3>1, <3>2 DEF Service!Restart
    <3> QED
      BY <3>3 DEF Service!Next
  <2>15. CASE UNCHANGED vars
    BY <2>15, <2>s DEF vars
  <2> QED
    BY <2>1, <2>2, <2>4, <2>5, <2>6, <2>7, <2>8, <2>9, <2>10, <2>11, <2>12, <2>13,
       <2>14, <2>15 DEF Next, NetNext, NukiNext
<1> QED
  BY <1>1, <1>2, TypeCorrect, RetryLoopCleanAlways, PTL
     DEF Spec, ActionsServed, Service!Spec

-----------------------------------------------------------------------------
(***************************************************************************)
(* A successful action and a lock state query refresh the lock state.      *)
(***************************************************************************)

\* update() does not return from a successful lock action, nor from a lock state
\* query it took, without having requested the lock state.
THEOREM RefreshCertain == Spec => []LockStateRefreshed
<1>1. Init => RefreshHandedOn
  BY DEF Init, RefreshHandedOn, ActionDone
<1>2. TypeOK /\ RefreshHandedOn /\ [Next]_vars => RefreshHandedOn'
  <2> SUFFICES ASSUME TypeOK, RefreshHandedOn, [Next]_vars PROVE RefreshHandedOn'
    OBVIOUS
  <2> USE DEF RefreshHandedOn, ActionDone
  <2>u. ASSUME UNCHANGED <<nukiPc, qc, sent, result, statusUpdated>>
        PROVE  RefreshHandedOn'
    BY <2>u
  <2>1. CASE NetNext
    <3>1. UNCHANGED <<nukiPc, qc, sent, result, statusUpdated>>
      BY <2>1 DEF NetNext, NetNoRequest, NetLockAction, NetLockReboot, NetQueryLoad,
                  NetQueryStore, NetNoCheck, NetHealthCheck, NetRetest, NetGate
    <3> QED
      BY <3>1, <2>u
  <2>2. CASE NukiCall \/ NukiIsPaired \/ NukiRestart
    BY <2>2 DEF NukiCall, NukiIsPaired, NukiRestart
  <2>3. CASE NukiPair
    BY <2>3 DEF NukiPair
  <2>4. CASE NukiReadQuery \/ NukiResetQuery
    BY <2>4 DEF NukiReadQuery, NukiResetQuery
  <2>5. CASE NukiTakeAction
    BY <2>5 DEF NukiTakeAction
  <2>6. CASE NukiActionSucceeds
    BY <2>6 DEF NukiActionSucceeds
  <2>7. CASE NukiActionFails
    BY <2>7 DEF NukiActionFails
  <2>8. ASSUME NEW timerDue \in BOOLEAN, NukiPoll(timerDue) PROVE RefreshHandedOn'
    BY <2>8 DEF NukiPoll
  <2>9. ASSUME NEW due \in SUBSET (Query \ {LockState}), NEW pinValid \in BOOLEAN,
               NukiReport(due, pinValid)
        PROVE  RefreshHandedOn'
    <3>1. sent \subseteq sent' /\ (("action" \in sent') => ("action" \in sent))
      <4>1. PICK asked \in SUBSET Query, more \in SUBSET {"reboot"} :
              sent' = sent \cup asked \cup more
        <5>1. "action" \notin Query /\ qc \subseteq Query
          BY DEF TypeOK, NukiOK
        <5> DEFINE asked == IF ReportsEnabled /\ ~statusUpdated
                              THEN due \cup (qc \ {LockState}) ELSE {}
                   more  == IF ReportsEnabled /\ reboot /\ pinValid THEN {"reboot"} ELSE {}
        <5>2. sent' = sent \cup asked \cup more
          BY <2>9 DEF NukiReport
        <5>3. asked \subseteq Query /\ more \subseteq {"reboot"}
          BY <5>1
        <5> QED
          BY <5>2, <5>3
      <4> QED
        BY <4>1
    <3>2. UNCHANGED <<qc, result>> /\ nukiPc = "report" /\ nukiPc' = "clear"
      BY <2>9 DEF NukiReport
    <3> QED
      BY <3>1, <3>2
  <2>10. CASE NukiClearReboot
    BY <2>10 DEF NukiClearReboot
  <2>11. CASE EnvNext
    BY <2>11 DEF EnvNext, BleNotify, BleFault
  <2>12. CASE UNCHANGED vars
    BY <2>12, <2>u DEF vars
  <2> QED
    BY <2>1, <2>2, <2>3, <2>4, <2>5, <2>6, <2>7, <2>8, <2>9, <2>10, <2>11, <2>12
       DEF Next, NukiNext
<1>3. RefreshHandedOn => LockStateRefreshed
  BY DEF RefreshHandedOn, LockStateRefreshed
<1> QED
  BY <1>1, <1>2, <1>3, TypeCorrect, PTL DEF Spec
=============================================================================
