------------------------- MODULE LockActionService -------------------------
(***************************************************************************)
(* What the REST bridge promises about lock actions, independent of how    *)
(* the two tasks hand them over: an action answered with "success" is      *)
(* worked off in the order of the answers, it is tried at least once and   *)
(* at most MaxTries times, it is given up only after MaxTries failed       *)
(* tries, and it is not tried again once a try succeeded.  "busy" is       *)
(* answered only while an earlier action is still unfinished.  Nothing but *)
(* a restart of the BLE services drops an action that was answered.        *)
(***************************************************************************)
EXTENDS Naturals, Sequences

CONSTANTS Action,    \* the lock actions a client may ask for
          Capacity,  \* unfinished actions the service may hold, at least 1
          MaxTries   \* tries an action gets before it is given up, at least 1

VARIABLES pending,   \* unfinished actions, oldest first
          tries,     \* failed tries of the oldest action
          result,    \* result of the last try
          answer,    \* what the last client was told
          restarts   \* restarts of the BLE services so far

serviceVars == <<pending, tries, result, answer, restarts>>

Init == /\ pending = << >> /\ tries = 0 /\ result = "none" /\ answer = "none"
        /\ restarts = 0

Accept(a) == /\ Len(pending) < Capacity
             /\ pending' = Append(pending, a)
             /\ answer' = "success"
             /\ UNCHANGED <<tries, result, restarts>>

Busy == /\ pending # << >>
        /\ answer' = "busy"
        /\ UNCHANGED <<pending, tries, result, restarts>>

Refuse == answer' = "refused" /\ UNCHANGED <<pending, tries, result, restarts>>

Succeed == /\ pending # << >>
           /\ pending' = Tail(pending)
           /\ tries' = 0 /\ result' = "success"
           /\ UNCHANGED <<answer, restarts>>

\* A failed try that is not the last one the action gets.
Fail == /\ pending # << >>
        /\ tries + 1 < MaxTries
        /\ tries' = tries + 1 /\ result' = "failed"
        /\ UNCHANGED <<pending, answer, restarts>>

GiveUp == /\ pending # << >>
          /\ tries + 1 = MaxTries
          /\ pending' = Tail(pending)
          /\ tries' = 0 /\ result' = "failed"
          /\ UNCHANGED <<answer, restarts>>

Restart == /\ restarts' = restarts + 1
           /\ pending' = << >>
           /\ UNCHANGED <<tries, result, answer>>

Next == \/ \E a \in Action : Accept(a)
        \/ Busy \/ Refuse \/ Succeed \/ Fail \/ GiveUp \/ Restart

Spec == Init /\ [][Next]_serviceVars
=============================================================================
