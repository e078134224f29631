---------------------------- MODULE EntryService ----------------------------
(***************************************************************************)
(* What the REST bridge promises about a command on the entries of the     *)
(* lock, independent of how the handler gets at the values it sends and of *)
(* what the other task retrieves meanwhile: one command is handled at a    *)
(* time; each exchange with the lock has the effect that the command asks  *)
(* for, or none; there are no more exchanges than the setting allows and   *)
(* none after one that succeeded; and a command that needs no value from   *)
(* the lock is not given up before it succeeds or has had all of them.     *)
(*                                                                         *)
(* An update that does not name all values keeps those that the entry had  *)
(* at some time since the command arrived; it is no promise to keep an     *)
(* edit that the Nuki app makes meanwhile.                                 *)
(***************************************************************************)
EXTENDS Naturals

CONSTANTS Ids, None,            \* ids of entries, and no entry
          Request, NoRequest,   \* commands (cmd, id, enabled, when), and none
          NrOfRetries           \* the setting

VARIABLES kind,     \* of the entries: "keypad", "timecontrol" or "auth"
          table,    \* the entries in the lock
          request,  \* the command that is handled
          tries,    \* exchanges made for it
          result,   \* of the last one
          seen      \* what the entry has been that the command needs values of

serviceVars == <<kind, table, request, tries, result, seen>>

Limit == IF kind = "auth" THEN NrOfRetries ELSE NrOfRetries + 1

\* 2: not named by the request.
Kept(asked, old) == IF asked = 2 THEN old ELSE asked

NeedsValues(r) == r.cmd = "update" /\ kind # "keypad"

Watched(r, t) == IF NeedsValues(r) THEN {t[r.id]} ELSE {}

\* What update r makes of an entry.  A keypad code is given anew, and nothing is
\* promised about its "enabled" if the request does not name it; the others keep of
\* one earlier entry what is not named, but a disabled authorisation has no limits.
Updated(r) ==
  IF kind = "keypad"
  THEN {[enabled |-> b, when |-> r.when] : b \in IF r.enabled = 2 THEN {0, 1} ELSE {r.enabled}}
  ELSE LET enabled(e) == Kept(r.enabled, e.enabled)
           limits(e) == IF kind = "auth" /\ enabled(e) = 0 THEN 0 ELSE Kept(r.when, e.when)
       IN {[enabled |-> enabled(e), when |-> limits(e)] : e \in seen \ {None}}

Present == {i \in Ids : table[i] # None}

\* The tables after r was carried out; none if it cannot be.
Effects(r) ==
  CASE r.cmd = "add" -> {[table EXCEPT ![i] = [enabled |-> 1, when |-> Kept(r.when, 0)]] :
                           i \in {j \in Ids \ Present : kind # "auth"}}
    [] r.cmd = "delete" -> {[table EXCEPT ![i] = None] : i \in Present \cap {r.id}}
    [] r.cmd = "update" -> {[table EXCEPT ![r.id] = e] :
                              e \in {d \in Updated(r) : r.id \in Present}}

-----------------------------------------------------------------------------
Init == request = NoRequest /\ tries = 0 /\ result = "none" /\ seen = {}

Ask(r) == /\ request = NoRequest /\ request' = r /\ seen' = Watched(r, table)
          /\ UNCHANGED <<kind, table, tries, result>>

Exchange == /\ request # NoRequest /\ result # "success" /\ tries < Limit
            /\ tries' = tries + 1 /\ seen' = seen \cup Watched(request, table')
            /\ UNCHANGED <<kind, request>>

Succeed == Exchange /\ result' = "success" /\ table' \in Effects(request)

\* Carried out or not: the acknowledgement may be what was lost.
Fail == Exchange /\ result' = "failure" /\ table' \in Effects(request) \cup {table}

End == /\ request # NoRequest
       /\ request' = NoRequest /\ tries' = 0 /\ result' = "none" /\ seen' = {}
       /\ UNCHANGED <<kind, table>>

\* Refused, done or tried often enough.
Answer == End /\ (tries = 0 \/ result = "success" \/ tries = Limit)

\* A command that needs values has no promise of its retries: the values may not be
\* had, and the handler breaks off the retries of some (RetryRefused of
\* EntryCommands_proofs), contrary to what the README says of the setting.
GiveUp == End /\ NeedsValues(request)

\* The Nuki app changes an entry, at any time.
AppChange == /\ \E i \in Ids : \A j \in Ids \ {i} : table'[j] = table[j]
             /\ seen' = seen \cup Watched(request, table')
             /\ UNCHANGED <<kind, request, tries, result>>

Next == Succeed \/ Fail \/ Answer \/ GiveUp \/ AppChange \/ \E r \in Request : Ask(r)

Spec == Init /\ [][Next]_serviceVars
=============================================================================
