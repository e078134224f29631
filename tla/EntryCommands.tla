--------------------------- MODULE EntryCommands ---------------------------
(***************************************************************************)
(* Commands on the entries of the lock - keypad codes, time control        *)
(* entries, authorisations - and the list of their ids in the bridge.      *)
(*                                                                         *)
(* networkTask runs the handler of a REST request (NukiWrapper::           *)
(* onKeypadCommandReceived and its like): access checks, a look into the   *)
(* list of ids, then tries over BLE, and one answer.  nukiTask retrieves   *)
(* the entries by timer: a request to the lock clears the list in the BLE  *)
(* library, which the lock fills; five seconds later nukiTask copies the   *)
(* list and rebuilds the ids from it.  An update of a time control entry   *)
(* or an authorisation uses the same list of the library, in the other     *)
(* task.                                                                   *)
(*                                                                         *)
(* An entry has two fields: enabled stands for the values that an update   *)
(* takes from the entry if the request does not name them, when for those  *)
(* it also marks as taken ("old"): the time of a time control entry, the   *)
(* period and limits of an authorisation (0: not limited).  For a keypad   *)
(* code, when stands for name and code.  Left out are the weekdays, the    *)
(* lock action and the name of an authorisation: what a request does not   *)
(* name of these is read anew by each try, not by the first alone.         *)
(***************************************************************************)
EXTENDS Naturals, FiniteSets

CONSTANTS Ids,          \* ids of entries, the lock's table has no others
          NrOfRetries,  \* the setting
          MaxEntries,   \* the setting: entries that the bridge asks for and takes note of
          MaxRequests,  \* bound on the number of requests
          MaxChanges,   \* bound on the number of edits in the Nuki app
          Tables,       \* bound on the tables that the lock may have at boot
          Edits,        \* bound on what the app makes of which entry
          Commands      \* bound on the requests that arrive

Bit == {0, 1}
Entry == [enabled : Bit, when : Bit]
None == [enabled |-> 2, when |-> 2]
Table == [Ids -> Entry \cup {None}]
Kinds == {"keypad", "timecontrol", "auth"}

\* A request: enabled 2 and when 2 mean that it does not name them.  What its
\* command does not look at is left out.
Request ==
  [cmd : {"add"}, id : {0}, enabled : {2}, when : Bit \cup {2}]
    \cup [cmd : {"delete"}, id : Ids, enabled : {2}, when : {2}]
    \cup [cmd : {"update"}, id : Ids, enabled : Bit \cup {2}, when : Bit \cup {2}]

ASSUME EntryAssumption ==
  /\ Ids \subseteq Nat \ {0} /\ NrOfRetries \in Nat \ {0}
  /\ MaxEntries \in Nat \ {0} /\ MaxRequests \in Nat /\ MaxChanges \in Nat
  /\ Tables \subseteq Table /\ Commands \subseteq Request
  /\ Edits \subseteq [id : Ids, entry : Entry \cup {None}]

VARIABLES
  kind,       \* which of the three handlers and lists, for good
  \* the lock and the BLE library
  table,      \* the entries in the lock
  received,   \* the library's list of entries
  pending,    \* entries the lock has still to send
  reachable,  \* exchanges work
  servicesOK, \* what nukiTask does all of this under: the network services are up, the
              \* REST server aside, and no status report waits
  \* settings and state of NukiWrapper
  pinValid,   \* isPinValid()
  configValid, hasKeypad,
  ids,        \* _keypadCodeIds, _timeControlIds or _authIds
  wait,       \* _wait...UpdateTs: "none" (0), "armed", "due"
  refreshDue, \* the config or keypad timer is due
  \* nukiTask
  nukiPc, copy,
  \* networkTask: the handler and its locals
  netPc, request,
  named,      \* enabled and time, which the handler writes to, 3 standing for "old"
  idExists,
  held,       \* timeAr and its like
  tries, result,
  \* history
  seen,       \* for a command that reads its entry first, all that this entry has
              \* been since the command arrived
  requests, changes

lockVars == <<table, received, pending>>
flagVars == <<pinValid, configValid, hasKeypad>>
nukiVars == <<nukiPc, copy, ids>>
worldVars == <<reachable, servicesOK>>
handlerVars == <<request, named, idExists, held, tries, result>>
localVars == <<handlerVars, seen>>
countVars == <<requests, changes>>
vars == <<kind, lockVars, worldVars, flagVars, wait, refreshDue, nukiVars, netPc,
          localVars, countVars>>

Used(t) == {i \in Ids : t[i] # None}

\* The list after sort and resize to the setting.
FirstEntries(s) == {i \in s : Cardinality({j \in s : j < i}) < MaxEntries}

\* nrOfRetries more tries; the handler of authorisations makes one less.
MaxTries == IF kind = "auth" THEN NrOfRetries ELSE NrOfRetries + 1

-----------------------------------------------------------------------------
(***************************************************************************)
(* The BLE library: retrieve...Entries clears its list and has the lock    *)
(* send entries again, one by one: all for time control, for the others at *)
(* most the number asked for, and which ones is the lock's affair.         *)
(***************************************************************************)
Asked(t) ==
  IF kind = "timecontrol" \/ Cardinality(Used(t)) <= MaxEntries THEN {Used(t)}
  ELSE {s \in SUBSET Used(t) : Cardinality(s) = MaxEntries}

Retrieve == /\ received' = [i \in Ids |-> None]
            /\ pending' \in Asked(table)

Receive(i) == /\ i \in pending
              /\ received' = [received EXCEPT ![i] = table[i]]
              /\ pending' = pending \ {i}
              /\ UNCHANGED <<kind, table, worldVars, flagVars, wait, refreshDue,
                             nukiVars, netPc, localVars, countVars>>

\* updateTimeControl(false) and its like, with the outcome of the exchange.
StartRetrieval(works) ==
  IF pinValid /\ works THEN Retrieve /\ wait' = "armed"
  ELSE UNCHANGED <<received, pending, wait>>

-----------------------------------------------------------------------------
(***************************************************************************)
(* networkTask: the handler                                                *)
(***************************************************************************)
Outcomes == IF reachable THEN {TRUE} ELSE BOOLEAN

NoRequest == [cmd |-> "none", id |-> 0, enabled |-> 2, when |-> 2]

ClearLocals == /\ named' = [enabled |-> 2, when |-> 2] /\ idExists' = FALSE
               /\ held' = 0 /\ tries' = 0 /\ result' = "none"

\* What the handler of r can read of its entry in table t.
Watched(r, t) == IF r.cmd = "update" /\ kind # "keypad" THEN {t[r.id]} ELSE {}

\* A request arrives.
Arrive(r) == /\ netPc = "idle" /\ requests < MaxRequests
             /\ netPc' = "access" /\ request' = r
             /\ named' = [enabled |-> r.enabled, when |-> r.when]
             /\ seen' = Watched(r, table)
             /\ requests' = requests + 1
             /\ UNCHANGED <<kind, lockVars, worldVars, flagVars, wait, refreshDue, nukiVars,
                            idExists, held, tries, result, changes>>

\* The handler returns, with an answer or without.
Return == netPc' = "idle" /\ request' = NoRequest /\ ClearLocals /\ seen' = {}

\* The access checks of the handlers: "control" is the setting that allows
\* commands of the kind.
Admitted(control) ==
  control /\ IF kind = "keypad" THEN hasKeypad ELSE configValid /\ pinValid

\* The id is looked up in the list, whatever nukiTask is doing to it.
CheckAccess(control) ==
  /\ netPc = "access"
  /\ IF Admitted(control)
     THEN /\ netPc' = "try" /\ idExists' = (request.id \in ids)
          /\ UNCHANGED <<request, named, held, tries, result, seen>>
     ELSE Return
  /\ UNCHANGED <<kind, lockVars, worldVars, flagVars, wait, refreshDue, nukiVars,
                 countVars>>

\* A time that is none: the mark "old" (3) of an earlier try.  The handler of
\* authorisations looks at it only if the authorisation is limited.
BadTime == named.when = 3 /\ (kind = "auth" => held = 1)

\* The command is refused: a parameter is missing or wrong, the id is unknown.
Refused ==
  IF kind = "keypad"
  THEN \/ request.cmd # "delete" /\ named.when = 2
       \/ request.cmd # "add" /\ ~idExists
  ELSE \/ request.cmd # "delete" /\ BadTime
       \/ IF request.cmd = "add" THEN kind = "auth" ELSE ~idExists

\* An update of a keypad code takes what the request says; the others read the
\* entry first.
ReadsFirst == request.cmd = "update" /\ kind # "keypad"

\* A try begins.
TryRefused == /\ netPc = "try" /\ Refused
              /\ Return
              /\ UNCHANGED <<kind, lockVars, worldVars, flagVars, wait, refreshDue, nukiVars,
                             countVars>>

TryWrite == /\ netPc = "try" /\ ~Refused /\ ~ReadsFirst
            /\ netPc' = "write"
            /\ UNCHANGED <<kind, lockVars, worldVars, flagVars, wait, refreshDue,
                           nukiVars, localVars, countVars>>

TryReadCached(works) ==  \* mutant: takes the values from the last retrieval
  /\ netPc = "try" /\ ~Refused /\ ReadsFirst /\ works
  /\ netPc' = "read"
  /\ UNCHANGED <<kind, lockVars, worldVars, flagVars, wait, refreshDue, nukiVars,
                 localVars, countVars>>

TryRead(works) ==
  /\ netPc = "try" /\ ~Refused /\ ReadsFirst
  /\ works \in Outcomes
  /\ \/ works /\ Retrieve /\ netPc' = "read" /\ UNCHANGED localVars
     \/ ~works /\ Return /\ UNCHANGED <<received, pending>>
  /\ UNCHANGED <<kind, table, worldVars, flagVars, wait, refreshDue, nukiVars, countVars>>

\* Five seconds later, whether or not the lock has sent all: what is not named is
\* taken from the entry.
Taken(e) ==
  /\ named' = [enabled |-> IF named.enabled = 2 THEN e.enabled ELSE named.enabled,
               when |-> IF named.when = 2 THEN 3 ELSE named.when]
  /\ held' = IF named.when = 2 THEN e.when
             ELSE IF named.when = 3 THEN held ELSE named.when

Read ==
  /\ netPc = "read"
  /\ \/ /\ received[request.id] # None
        /\ Taken(received[request.id])
        /\ netPc' = "write" /\ UNCHANGED <<request, idExists, tries, result, seen>>
     \/ received[request.id] = None /\ Return
  /\ UNCHANGED <<kind, lockVars, worldVars, flagVars, wait, refreshDue, nukiVars,
                 countVars>>

\* The entry that is sent: a new one is enabled; for keypad codes what is not
\* named counts as 0; the limits of an authorisation that is disabled are left out.
Sent ==
  IF request.cmd = "add"
  THEN [enabled |-> 1, when |-> IF named.when = 2 THEN 0 ELSE named.when]
  ELSE IF kind = "keypad"
  THEN [enabled |-> IF named.enabled = 1 THEN 1 ELSE 0, when |-> named.when]
  ELSE [enabled |-> named.enabled,
        when |-> IF kind = "auth" /\ named.enabled = 0 THEN 0 ELSE held]

\* What the lock does with it: the tables it may have afterwards.  It refuses
\* what it has no entry or no room for.
Carried ==
  IF request.cmd = "add"
  THEN {[table EXCEPT ![i] = Sent] : i \in Ids \ Used(table)}
  ELSE IF table[request.id] = None THEN {}
  ELSE {[table EXCEPT ![request.id] = IF request.cmd = "delete" THEN None ELSE Sent]}

WriteUncounted ==  \* mutant: the try is not counted
  /\ netPc = "write" /\ netPc' = "written"
  /\ \/ table' \in Carried /\ result' = "success"
     \/ (~reachable \/ Carried = {}) /\ UNCHANGED table /\ result' = "failure"
  /\ seen' = seen \cup Watched(request, table')
  /\ UNCHANGED <<kind, received, pending, worldVars, flagVars, wait, refreshDue,
                 nukiVars, request, named, idExists, held, tries, countVars>>

\* One exchange: carried out and acknowledged, or the acknowledgement is lost, or
\* the command.
Write ==
  /\ netPc = "write" /\ netPc' = "written"
  /\ tries' = tries + 1
  /\ \/ table' \in Carried /\ result' = "success"
     \/ ~reachable /\ table' \in Carried /\ result' = "failure"
     \/ (~reachable \/ Carried = {}) /\ UNCHANGED table /\ result' = "failure"
  /\ seen' = seen \cup Watched(request, table')
  /\ UNCHANGED <<kind, received, pending, worldVars, flagVars, wait, refreshDue,
                 nukiVars, request, named, idExists, held, countVars>>

GivesUpLate == result = "success" \/ tries > MaxTries  \* mutant: one try too many

GivesUp == result = "success" \/ tries >= MaxTries

\* Another try, or the answer.  Keypad codes are retrieved after each try,
\* authorisations at the end; time control entries with the configuration.
Written(works) ==
  /\ netPc = "written"
  /\ works \in Outcomes
  /\ \/ ~GivesUp /\ netPc' = "try" /\ UNCHANGED localVars
     \/ GivesUp /\ Return
  /\ refreshDue' = (refreshDue \/ (GivesUp /\ kind = "timecontrol"))
  /\ IF kind = "keypad" \/ (kind = "auth" /\ GivesUp)
     THEN StartRetrieval(works) ELSE UNCHANGED <<received, pending, wait>>
  /\ UNCHANGED <<kind, table, worldVars, flagVars, nukiVars, countVars>>

NetNext == \/ TryRefused \/ TryWrite \/ Read \/ Write
           \/ \E control \in BOOLEAN : CheckAccess(control)
           \/ \E works \in BOOLEAN : TryRead(works) \/ Written(works)

-----------------------------------------------------------------------------
(***************************************************************************)
(* nukiTask: NukiWrapper::update                                           *)
(***************************************************************************)

\* A pass of nukiTask.  updateConfig: without the configuration nothing else happens; the retrieval
\* comes before the PIN is verified, and a failed exchange makes it invalid.  Keypad
\* codes are retrieved by a timer of their own; here one that is due together with
\* the configuration after it.  A wait that is due already is seen by the same pass.
UpdateConfig(reads, retrieves, verifies) ==
  /\ nukiPc = "idle" /\ servicesOK /\ refreshDue
  /\ {reads, retrieves, verifies} \subseteq Outcomes
  /\ refreshDue' = FALSE
  /\ configValid' = reads
  /\ IF reads
     THEN /\ hasKeypad' = (kind = "keypad") /\ pinValid' = verifies
          /\ IF kind # "keypad" \/ hasKeypad THEN StartRetrieval(retrieves)
             ELSE UNCHANGED <<received, pending, wait>>
     ELSE UNCHANGED <<hasKeypad, pinValid, received, pending, wait>>
  /\ nukiPc' \in {"idle"} \cup IF wait' = "due" THEN {"clear"} ELSE {}
  /\ UNCHANGED <<kind, table, worldVars, copy, ids, netPc, localVars, countVars>>

SeeWaitEarly ==  \* mutant: does not wait for the lock to send
  /\ nukiPc = "idle" /\ servicesOK /\ wait # "none" /\ nukiPc' = "clear"
  /\ UNCHANGED <<kind, lockVars, worldVars, flagVars, wait, refreshDue, copy,
                 ids, netPc, localVars, countVars>>

SeeWait == /\ nukiPc = "idle" /\ servicesOK /\ wait = "due"
           /\ nukiPc' = "clear"
           /\ UNCHANGED <<kind, lockVars, worldVars, flagVars, wait, refreshDue, copy,
                          ids, netPc, localVars, countVars>>

\* _wait...UpdateTs = 0, whoever has set it since.
ClearWait == /\ nukiPc = "clear"
             /\ nukiPc' = IF pinValid THEN "copy" ELSE "idle"
             /\ wait' = "none"
             /\ UNCHANGED <<kind, lockVars, worldVars, flagVars, refreshDue, copy, ids,
                            netPc, localVars, countVars>>

\* updateTimeControl(true) and its like: the list is copied and the ids cleared ...
CopyList == /\ nukiPc = "copy" /\ nukiPc' = "fill"
            /\ copy' = FirstEntries(Used(received)) /\ ids' = {}
            /\ UNCHANGED <<kind, lockVars, worldVars, flagVars, wait, refreshDue,
                           netPc, localVars, countVars>>

\* ... and filled again, nobody waiting for it.
FillIds == /\ nukiPc = "fill" /\ nukiPc' = "idle"
           /\ ids' = copy /\ copy' = {}
           /\ UNCHANGED <<kind, lockVars, worldVars, flagVars, wait, refreshDue,
                          netPc, localVars, countVars>>

NukiNext == \/ SeeWait \/ ClearWait \/ CopyList \/ FillIds
            \/ \E a, b, c \in BOOLEAN : UpdateConfig(a, b, c)

-----------------------------------------------------------------------------
(***************************************************************************)
(* Time and the world                                                      *)
(***************************************************************************)

\* The five seconds are over; the lock has sent its entries by then, unless the
\* handler has had it start again.
WaitOver == /\ wait = "armed" /\ (pending = {} \/ netPc = "read")
            /\ wait' = "due"
            /\ UNCHANGED <<kind, lockVars, worldVars, flagVars, refreshDue, nukiVars,
                           netPc, localVars, countVars>>

\* The config or keypad timer.  Both intervals are longer than the five seconds
\* that either task waits for a retrieval, by default an hour and half an hour; but
\* nukiTask may not look at the end of its wait for longer.
TimerDue == /\ ~refreshDue /\ nukiPc = "idle" /\ netPc # "read"
            /\ wait = "none" \/ (wait = "due" /\ ~servicesOK)
            /\ refreshDue' = TRUE
            /\ UNCHANGED <<kind, lockVars, worldVars, flagVars, wait, nukiVars, netPc,
                           localVars, countVars>>

\* The lock goes out of reach or comes back, a network service fails or recovers, a
\* status report arrives or is dealt with.
WorldChanges == /\ \/ reachable' = ~reachable /\ UNCHANGED servicesOK
                   \/ servicesOK' = ~servicesOK /\ UNCHANGED reachable
                /\ UNCHANGED <<kind, lockVars, flagVars, wait, refreshDue, nukiVars,
                               netPc, localVars, countVars>>

\* Somebody edits an entry in the Nuki app, at any time: nothing keeps this out of the
\* five seconds between the read and the write of a command.
AppChanges == /\ changes < MaxChanges
              /\ \E e \in Edits : table' = [table EXCEPT ![e.id] = e.entry]
              /\ seen' = seen \cup Watched(request, table')
              /\ changes' = changes + 1
              /\ UNCHANGED <<kind, received, pending, worldVars, flagVars, wait, refreshDue,
                             nukiVars, netPc, handlerVars, requests>>

Init ==
  /\ kind \in Kinds
  /\ table \in Tables /\ received = [i \in Ids |-> None] /\ pending = {}
  /\ reachable \in BOOLEAN /\ servicesOK \in BOOLEAN
  /\ pinValid \in BOOLEAN /\ configValid = FALSE /\ hasKeypad = FALSE
  /\ ids = {} /\ wait = "none" /\ refreshDue = TRUE
  /\ nukiPc = "idle" /\ copy = {}
  /\ netPc = "idle" /\ request = NoRequest
  /\ named = [enabled |-> 2, when |-> 2] /\ idExists = FALSE /\ held = 0 /\ tries = 0
  /\ result = "none" /\ seen = {} /\ requests = 0 /\ changes = 0

Next ==
  \/ NetNext \/ NukiNext \/ WaitOver \/ TimerDue \/ WorldChanges \/ AppChanges
  \/ \E r \in Commands : Arrive(r)
  \/ \E i \in Ids : Receive(i)

Spec == Init /\ [][Next]_vars

FairSpec == /\ Spec /\ WF_vars(NetNext) /\ WF_vars(NukiNext) /\ WF_vars(WaitOver)
            /\ WF_vars(TimerDue) /\ \A i \in Ids : WF_vars(Receive(i))

-----------------------------------------------------------------------------
FlagsOK == /\ reachable \in BOOLEAN /\ servicesOK \in BOOLEAN /\ pinValid \in BOOLEAN
           /\ configValid \in BOOLEAN /\ hasKeypad \in BOOLEAN
           /\ refreshDue \in BOOLEAN /\ idExists \in BOOLEAN

DataOK ==
  /\ kind \in Kinds
  /\ table \in Table /\ received \in Table /\ pending \subseteq Ids
  /\ ids \subseteq Ids /\ copy \subseteq Ids
  /\ wait \in {"none", "armed", "due"}
  /\ nukiPc \in {"idle", "clear", "copy", "fill"}
  /\ netPc \in {"idle", "access", "try", "read", "write", "written"}
  /\ request \in Request \cup {NoRequest}
  /\ (netPc # "idle") = (request # NoRequest)
  /\ named \in [enabled : 0..2, when : 0..3] /\ held \in Bit
  /\ seen \subseteq Entry \cup {None}
  /\ tries \in 0..MaxTries /\ result \in {"none", "success", "failure"}
  /\ requests \in 0..MaxRequests /\ changes \in 0..MaxChanges

TypeOK == FlagsOK /\ DataOK

-----------------------------------------------------------------------------
(***************************************************************************)
(* Properties                                                              *)
(***************************************************************************)

\* Each exchange does what the request asks for and nothing else: what it names is
\* set, what it does not name is as the entry had it at one time since the command
\* arrived, though both tasks have the lock fill one list, an acknowledgement was lost
\* or the app edits the entry meanwhile (an edit between the read and the write is
\* overwritten).  None follows a success, and a command that reads no values makes all
\* its tries (the loops over retryCount, "old").
Service == INSTANCE EntryService

EntriesServed == Service!Spec

\* The ids that the bridge knows become those that the lock sends and stay so, once
\* the lock can be reached and the services are up: whatever was lost by retrievals
\* of both tasks into one list, by a timer reset of the other task's retrieval, by
\* exchanges that failed and made the PIN or the configuration invalid (updateConfig,
\* updateKeypad, updateTimeControl, updateAuth).
IdsConverge ==
  <>[](reachable /\ servicesOK)
    => <>[](nukiPc # "fill" => ids \in {FirstEntries(s) : s \in Asked(table)})

\* Every request is done with in the end, even if no exchange works
\* (the loops over retryCount).
HandlerReturns == []<>(netPc = "idle")
=============================================================================
