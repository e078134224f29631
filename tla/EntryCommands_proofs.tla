------------------------ MODULE EntryCommands_proofs ------------------------
(***************************************************************************)
(* Proofs about EntryCommands: the types; that the update of a time        *)
(* control entry changes what the request names and nothing else; that the *)
(* handlers implement EntryService; and that they come to an end.          *)
(***************************************************************************)
EXTENDS EntryCommands, TLAPS

USE EntryAssumption DEF EntryAssumption

USE DEF lockVars, worldVars, flagVars, nukiVars, handlerVars, localVars, countVars

-----------------------------------------------------------------------------
\* What the handler relies on when it goes on: a read is for an update, what it
\* sends is an entry, and there is a try left.
Locals ==
  /\ kind = "keypad" => named.when # 3
  /\ netPc = "read" => request.cmd = "update" /\ kind # "keypad"
  /\ netPc = "write" /\ request.cmd # "delete" => Sent \in Entry

Tries ==
  /\ netPc \in {"idle", "access"} => tries = 0
  /\ netPc \in {"try", "read", "write"} => tries < MaxTries

IInv == FlagsOK /\ DataOK /\ Locals /\ Tries

\* Every step keeps the flags Boolean.
LEMMA FlagsKept ==
  ASSUME FlagsOK, DataOK, [Next]_vars
  PROVE  FlagsOK'
<1> USE DEF FlagsOK
<1>1. CASE TryRefused
  BY <1>1 DEF TryRefused, Return, ClearLocals
<1>2. CASE TryWrite
  BY <1>2 DEF TryWrite
<1>3. CASE Read
  BY <1>3 DEF Read, Return, ClearLocals
<1>4. CASE Write
  BY <1>4 DEF Write
<1>5. ASSUME NEW control \in BOOLEAN, CheckAccess(control)
      PROVE  FlagsOK'
  <2>1. idExists' \in BOOLEAN
    <3>1. CASE Admitted(control)
      <4>1. idExists' = (request.id \in ids)
        BY <1>5, <3>1, Zenon DEF CheckAccess
      <4>2. CASE request.id \in ids
        BY <4>1, <4>2
      <4>3. CASE request.id \notin ids
        BY <4>1, <4>3
      <4> QED
        BY <4>2, <4>3
    <3>2. CASE ~Admitted(control)
      BY <1>5, <3>2, Zenon DEF CheckAccess, Return, ClearLocals
    <3> QED
      BY <3>1, <3>2
  <2>2. UNCHANGED <<reachable, servicesOK, pinValid, configValid, hasKeypad, refreshDue>>
    BY <1>5 DEF CheckAccess
  <2> QED
    BY <2>1, <2>2
<1>6. ASSUME NEW works \in BOOLEAN, TryRead(works)
      PROVE  FlagsOK'
  BY <1>6 DEF TryRead, Return, ClearLocals
<1>7. ASSUME NEW works \in BOOLEAN, Written(works)
      PROVE  FlagsOK'
  BY <1>7 DEF Written, Return, ClearLocals, DataOK
<1>8. CASE SeeWait \/ ClearWait \/ CopyList \/ FillIds
  BY <1>8 DEF SeeWait, ClearWait, CopyList, FillIds
<1>9. ASSUME NEW a \in BOOLEAN, NEW b \in BOOLEAN, NEW c \in BOOLEAN, UpdateConfig(a, b, c)
      PROVE  FlagsOK'
  BY <1>9 DEF UpdateConfig
<1>10. CASE WaitOver \/ TimerDue \/ WorldChanges \/ AppChanges
  BY <1>10 DEF WaitOver, TimerDue, WorldChanges, AppChanges
<1>11. ASSUME NEW r \in Commands, Arrive(r)
       PROVE  FlagsOK'
  BY <1>11 DEF Arrive
<1>12. ASSUME NEW i \in Ids, Receive(i)
       PROVE  FlagsOK'
  BY <1>12 DEF Receive
<1>13. CASE UNCHANGED vars
  BY <1>13 DEF vars
<1> QED
  BY <1>1, <1>2, <1>3, <1>4, <1>5, <1>6, <1>7, <1>8, <1>9, <1>10, <1>11, <1>12, <1>13
     DEF Next, NetNext, NukiNext

\* The helpers keep to the types.
LEMMA RequestTypes ==
  ASSUME NEW r \in Request
  PROVE  /\ r.cmd \in {"add", "delete", "update"}
         /\ r.cmd # "add" => r.id \in Ids
         /\ r.enabled \in 0..2 /\ r.when \in 0..2
         /\ r.cmd # "update" => r.enabled = 2
         /\ r # NoRequest
BY DEF Request, NoRequest, Bit

LEMMA MaxTriesPositive == MaxTries \in Nat \ {0}
BY DEF MaxTries

LEMMA CarriedTypes ==
  ASSUME DataOK, Locals, netPc = "write", NEW t \in Carried
  PROVE  t \in Table
<1>1. table \in Table /\ request \in Request
  BY DEF DataOK
<1>2. CASE request.cmd = "add"
  <2>1. Sent \in Entry
    BY <1>2 DEF Locals
  <2>2. PICK i \in Ids : t = [table EXCEPT ![i] = Sent]
    BY <1>2 DEF Carried
  <2> QED
    BY <1>1, <2>1, <2>2 DEF Table
<1>3. CASE request.cmd # "add"
  <2>1. PICK e \in Entry \cup {None} : t = [table EXCEPT ![request.id] = e]
    BY <1>3 DEF Carried, Locals
  <2> QED
    BY <1>1, <2>1 DEF Table
<1> QED
  BY <1>2, <1>3

LEMMA RetrieveTypes ==
  ASSUME Retrieve
  PROVE  received' \in Table /\ pending' \subseteq Ids
BY DEF Retrieve, Table, Asked, Used

LEMMA RetrievalTypes ==
  ASSUME DataOK, NEW works \in BOOLEAN, StartRetrieval(works)
  PROVE  received' \in Table /\ pending' \subseteq Ids /\ wait' \in {"none", "armed", "due"}
BY RetrieveTypes DEF DataOK, StartRetrieval

\* What can be read of a table is an entry or that there is none.
LEMMA WatchedTypes ==
  ASSUME NEW r \in Request \cup {NoRequest}, NEW t \in Table
  PROVE  Watched(r, t) \subseteq Entry \cup {None}
<1>1. CASE r = NoRequest
  BY <1>1 DEF Watched, NoRequest
<1>2. CASE r \in Request
  BY <1>2, RequestTypes DEF Watched, Table
<1> QED
  BY <1>1, <1>2

\* Every step keeps the other variables in their sets.
LEMMA DataKept ==
  ASSUME IInv, [Next]_vars
  PROVE  DataOK'
<1> USE RequestTypes, MaxTriesPositive DEF DataOK
<1>0. DataOK /\ Locals /\ Tries /\ MaxTries' = (IF kind' = "auth" THEN NrOfRetries ELSE NrOfRetries + 1)
  BY DEF IInv, MaxTries
<1>a. ASSUME NEW control \in BOOLEAN, CheckAccess(control)
      PROVE  DataOK'
  BY <1>0, <1>a DEF CheckAccess, Return, ClearLocals, MaxTries, Bit
<1>b. ASSUME NEW works \in BOOLEAN, TryRead(works)
      PROVE  DataOK'
  <2>1. received' \in Table /\ pending' \subseteq Ids
    BY <1>0, <1>b, RetrieveTypes DEF TryRead
  <2> QED
    BY <1>0, <1>b, <2>1 DEF TryRead, Return, ClearLocals, MaxTries, Bit
<1>c. ASSUME NEW works \in BOOLEAN, Written(works)
      PROVE  DataOK'
  <2>1. received' \in Table /\ pending' \subseteq Ids /\ wait' \in {"none", "armed", "due"}
    BY <1>0, <1>c, RetrievalTypes DEF Written
  <2> QED
    BY <1>0, <1>c, <2>1 DEF Written, Return, ClearLocals, MaxTries, Bit
<1>1. CASE TryRefused
  BY <1>0, <1>1 DEF TryRefused, Return, ClearLocals, MaxTries, Bit
<1>2. CASE TryWrite
  BY <1>0, <1>2 DEF TryWrite, MaxTries
<1>3. CASE Read
  <2>1. CASE received[request.id] = None
    BY <1>0, <1>3, <2>1 DEF Read, Return, ClearLocals, MaxTries, Bit
  <2>2. CASE received[request.id] # None
    <3>1. received[request.id] \in Entry
      BY <1>0, <1>3, <2>2 DEF Read, Locals, Table
    <3>2. named' \in [enabled : 0..2, when : 0..3] /\ held' \in Bit
      BY <1>0, <1>3, <2>2, <3>1 DEF Read, Taken, Entry, Bit
    <3> QED
      BY <1>0, <1>3, <2>2, <3>2 DEF Read, MaxTries
  <2> QED
    BY <2>1, <2>2
<1>4. CASE Write
  <2>1. table' \in Table
    BY <1>0, <1>4, CarriedTypes DEF Write
  <2>2. tries' \in 0..MaxTries'
    BY <1>0, <1>4 DEF Write, Tries, MaxTries
  <2>3. seen' \subseteq Entry \cup {None}
    BY <1>0, <1>4, <2>1, WatchedTypes DEF Write
  <2> QED
    BY <1>0, <1>4, <2>1, <2>2, <2>3 DEF Write
<1>8. CASE SeeWait \/ ClearWait \/ CopyList \/ FillIds
  BY <1>0, <1>8 DEF SeeWait, ClearWait, CopyList, FillIds, FirstEntries, Used, MaxTries
<1>9. ASSUME NEW a \in BOOLEAN, NEW b \in BOOLEAN, NEW c \in BOOLEAN, UpdateConfig(a, b, c)
      PROVE  DataOK'
  <2>1. received' \in Table /\ pending' \subseteq Ids /\ wait' \in {"none", "armed", "due"}
    BY <1>0, <1>9, RetrievalTypes DEF UpdateConfig
  <2> QED
    BY <1>0, <1>9, <2>1 DEF UpdateConfig, MaxTries
<1>10. CASE WaitOver \/ TimerDue \/ WorldChanges
  BY <1>0, <1>10 DEF WaitOver, TimerDue, WorldChanges, MaxTries
<1>11. CASE AppChanges
  <2>1. table' \in Table
    BY <1>0, <1>11 DEF AppChanges, Table
  <2>2. seen' \subseteq Entry \cup {None}
    BY <1>0, <1>11, <2>1, WatchedTypes DEF AppChanges
  <2>3. changes' \in 0..MaxChanges
    BY <1>0, <1>11 DEF AppChanges
  <2>4. UNCHANGED <<kind, received, pending, wait, nukiVars, netPc, handlerVars, requests>>
    BY <1>11 DEF AppChanges
  <2> QED
    BY <1>0, <2>1, <2>2, <2>3, <2>4 DEF MaxTries
<1>12. ASSUME NEW r \in Commands, Arrive(r)
       PROVE  DataOK'
  <2>1. seen' \subseteq Entry \cup {None}
    BY <1>0, <1>12, WatchedTypes DEF Arrive
  <2> QED
    BY <1>0, <1>12, <2>1 DEF Arrive, MaxTries
<1>13. ASSUME NEW i \in Ids, Receive(i)
       PROVE  DataOK'
  <2>1. received' \in Table
    BY <1>0, <1>13 DEF Receive, Table
  <2> QED
    BY <1>0, <1>13, <2>1 DEF Receive, MaxTries
<1>14. CASE UNCHANGED vars
  BY <1>0, <1>14 DEF vars, MaxTries
<1> QED
  BY <1>a, <1>b, <1>c, <1>1, <1>2, <1>3, <1>4, <1>8, <1>9, <1>10, <1>11, <1>12, <1>13, <1>14
     DEF Next, NetNext, NukiNext

\* Every step keeps what the handler relies on.
LEMMA LocalsKept ==
  ASSUME IInv, [Next]_vars
  PROVE  Locals' /\ Tries'
<1> USE RequestTypes, MaxTriesPositive
<1>0. FlagsOK /\ DataOK /\ Locals /\ Tries
  BY DEF IInv
<1>a. ASSUME NEW control \in BOOLEAN, CheckAccess(control)
      PROVE  Locals' /\ Tries'
  BY <1>0, <1>a DEF CheckAccess, Return, ClearLocals, Locals, Tries, MaxTries
<1>b. ASSUME NEW works \in BOOLEAN, TryRead(works)
      PROVE  Locals' /\ Tries'
  BY <1>0, <1>b DEF TryRead, ReadsFirst, Return, ClearLocals, Locals, Tries, MaxTries
<1>c. ASSUME NEW works \in BOOLEAN, Written(works)
      PROVE  Locals' /\ Tries'
  <2>1. tries \in 0..MaxTries
    BY <1>0 DEF DataOK
  <2> QED
    BY <1>0, <1>c, <2>1 DEF Written, GivesUp, Return, ClearLocals, Locals, Tries, MaxTries
<1>1. CASE TryRefused
  BY <1>0, <1>1 DEF TryRefused, Return, ClearLocals, Locals, Tries, MaxTries
<1>2. CASE TryWrite
  <2>1. Tries'
    BY <1>0, <1>2 DEF TryWrite, Tries, MaxTries
  <2>2. /\ request \in Request /\ kind \in Kinds
        /\ named \in [enabled : 0..2, when : 0..3] /\ held \in Bit
    BY <1>0, <1>2 DEF TryWrite, DataOK
  <2>3. request.cmd # "delete" => Sent \in Entry
    <3>1. CASE kind = "keypad"
      BY <1>0, <1>2, <2>2, <3>1 DEF TryWrite, Refused, Locals, Sent, Entry, Bit
    <3>2. CASE kind # "keypad"
      BY <1>2, <2>2, <3>2
         DEF TryWrite, Refused, BadTime, ReadsFirst, Kinds, Sent, Entry, Bit
    <3> QED
      BY <3>1, <3>2
  <2>4. Sent' = Sent
    BY <1>2 DEF TryWrite, Sent
  <2> QED
    BY <1>0, <1>2, <2>1, <2>3, <2>4 DEF TryWrite, Locals
<1>3. CASE Read
  <2>1. CASE received[request.id] = None
    BY <1>0, <1>3, <2>1 DEF Read, Return, ClearLocals, Locals, Tries, MaxTries
  <2>2. CASE received[request.id] # None
    <3>1. received[request.id] \in Entry
      BY <1>0, <1>3, <2>2 DEF Read, Locals, DataOK, Table
    <3>2. named'.enabled \in Bit /\ held' \in Bit
      BY <1>0, <1>3, <2>2, <3>1 DEF Read, Taken, DataOK, Entry, Bit
    <3>3. Sent' \in Entry
      BY <1>0, <1>3, <2>2, <3>2 DEF Read, Locals, Sent, Entry, Bit
    <3> QED
      BY <1>0, <1>3, <2>2, <3>3 DEF Read, Locals, Tries, MaxTries
  <2> QED
    BY <2>1, <2>2
<1>4. CASE Write
  BY <1>0, <1>4 DEF Write, Locals, Tries
<1>8. CASE SeeWait \/ ClearWait \/ CopyList \/ FillIds
  BY <1>0, <1>8 DEF SeeWait, ClearWait, CopyList, FillIds, Locals, Sent, Tries, MaxTries
<1>9. ASSUME NEW a \in BOOLEAN, NEW b \in BOOLEAN, NEW c \in BOOLEAN, UpdateConfig(a, b, c)
      PROVE  Locals' /\ Tries'
  BY <1>0, <1>9 DEF UpdateConfig, Locals, Sent, Tries, MaxTries
<1>10. CASE WaitOver \/ TimerDue \/ WorldChanges \/ AppChanges
  BY <1>0, <1>10
     DEF WaitOver, TimerDue, WorldChanges, AppChanges, Locals, Sent, Tries, MaxTries
<1>12. ASSUME NEW r \in Commands, Arrive(r)
       PROVE  Locals' /\ Tries'
  BY <1>0, <1>12 DEF Arrive, Locals, Tries, MaxTries, DataOK
<1>13. ASSUME NEW i \in Ids, Receive(i)
       PROVE  Locals' /\ Tries'
  BY <1>0, <1>13 DEF Receive, Locals, Sent, Tries, MaxTries
<1>14. CASE UNCHANGED vars
  BY <1>0, <1>14 DEF vars, Locals, Sent, Tries, MaxTries
<1> QED
  BY <1>a, <1>b, <1>c, <1>1, <1>2, <1>3, <1>4, <1>8, <1>9, <1>10, <1>12, <1>13, <1>14
     DEF Next, NetNext, NukiNext

LEMMA IInvHolds == Spec => []IInv
<1>1. Init => IInv
  <2> SUFFICES ASSUME Init PROVE IInv
    OBVIOUS
  <2>1. FlagsOK
    BY DEF Init, FlagsOK
  <2>2. DataOK
    BY MaxTriesPositive DEF Init, DataOK, Kinds, Table, Bit
  <2>3. Locals /\ Tries
    BY DEF Init, Locals, Tries
  <2> QED
    BY <2>1, <2>2, <2>3 DEF IInv
<1>2. IInv /\ [Next]_vars => IInv'
  BY FlagsKept, DataKept, LocalsKept DEF IInv
<1> QED
  BY <1>1, <1>2, PTL DEF Spec

\* TypeOK: the handlers' locals, the retries and the lists keep to their types,
\* and no more tries are made than the setting allows.
THEOREM TypeCorrect == Spec => []TypeOK
<1>1. IInv => TypeOK
  BY DEF IInv, TypeOK
<1> QED
  BY <1>1, IInvHolds, PTL

-----------------------------------------------------------------------------
\* What the handler holds of the values that the request does not name is from e.
From(e) == /\ request.enabled = 2 => named.enabled = e.enabled
           /\ request.when = 2 => named.when = 3 /\ held = e.when

\* None of them is taken yet.
Open == /\ request.enabled = 2 => named.enabled = 2
        /\ request.when = 2 => named.when = 2

\* While an update that reads first is handled: what the entry is has been seen, and so
\* has what the list has of it when it is read; what the request names is in the
\* handler's locals as it was asked for; and anything else is still open or all from
\* one of the entries seen.
Exact ==
  netPc # "idle" /\ ReadsFirst =>
    /\ table[request.id] \in seen
    /\ netPc = "read" => received[request.id] \in seen \cup {None}
    /\ request.enabled # 2 => named.enabled = request.enabled
    /\ request.when # 2 => named.when = request.when
    /\ Open \/ \E e \in seen \ {None} : From(e)
    /\ netPc \in {"write", "written"} =>
         /\ \E e \in seen \ {None} : From(e)
         /\ request.when # 2 => held = request.when

\* A command that does not read first is sent as it was asked for and is not refused
\* after a try; a success is the last try.
Plain ==
  /\ netPc # "idle" /\ ~ReadsFirst =>
       named.enabled = request.enabled /\ named.when = request.when
  /\ netPc \in {"write", "written"} \/ (netPc = "try" /\ tries > 0) => ReadsFirst \/ ~Refused
  /\ result = "success" => netPc = "written"

SInv == IInv /\ Exact /\ Plain

\* 2: not named by the request.
Kept(asked, old) == IF asked = 2 THEN old ELSE asked

\* The entry that an exchange leaves in an update that reads first, the values that are
\* not named being those of e.
Merged(e) ==
  LET enabled == Kept(request.enabled, e.enabled)
  IN  [enabled |-> enabled,
       when |-> IF kind = "auth" /\ enabled = 0 THEN 0 ELSE Kept(request.when, e.when)]

\* What an exchange does to the table in an update that reads first.
LEMMA UpdateCarried ==
  ASSUME IInv, Exact, netPc = "write", ReadsFirst, NEW t \in Carried
  PROVE  /\ request.id \in Ids /\ table[request.id] # None
         /\ \E e \in seen \ {None} : t = [table EXCEPT ![request.id] = Merged(e)]
<1>1. request \in Request /\ table \in Table /\ request.id \in Ids
  BY RequestTypes DEF IInv, DataOK, NoRequest, ReadsFirst
<1>2. t = [table EXCEPT ![request.id] = Sent] /\ table[request.id] # None
  BY DEF Carried, ReadsFirst
<1>3. PICK e \in seen \ {None} : From(e)
  BY DEF Exact
<1>4. named.enabled = Kept(request.enabled, e.enabled)
  BY <1>3 DEF Exact, From, Kept
<1>5. held = Kept(request.when, e.when)
  BY <1>3 DEF Exact, From, Kept
<1>6. Sent = [enabled |-> named.enabled,
              when |-> IF kind = "auth" /\ named.enabled = 0 THEN 0 ELSE held]
  BY DEF Sent, ReadsFirst
<1>7. Sent = Merged(e)
  BY <1>4, <1>5, <1>6 DEF Merged
<1> QED
  BY <1>1, <1>2, <1>7

\* An exchange, or an edit in the app, adds what the entry becomes to what was seen.
LEMMA SeenGrows ==
  ASSUME Exact, seen' = seen \cup Watched(request, table'),
         UNCHANGED <<kind, received, request, named, held>>,
         \/ netPc' = netPc
         \/ netPc = "write" /\ netPc' = "written"
  PROVE  Exact'
<1> SUFFICES ASSUME netPc' # "idle", ReadsFirst
             PROVE  Exact'
  BY DEF Exact, ReadsFirst
<1>1. seen' = seen \cup {table'[request.id]}
  BY DEF Watched, ReadsFirst
<1>2. \A e \in seen \ {None} : From(e) => e \in seen' \ {None} /\ From(e)'
  BY <1>1 DEF From
<1>3. Open' = Open
  BY DEF Open
<1>4. netPc # "idle"
  OBVIOUS
<1> QED
  BY <1>1, <1>2, <1>3, <1>4 DEF Exact, ReadsFirst

\* Every step keeps what an update relies on.
LEMMA ExactKept ==
  ASSUME IInv, Exact, [Next]_vars
  PROVE  Exact'
<1> USE RequestTypes
<1>0. DataOK /\ Locals
  BY DEF IInv
<1>i. ReadsFirst => request \in Request /\ request.id \in Ids
  BY <1>0 DEF DataOK, NoRequest, ReadsFirst
\* What leaves the handler's locals and the entry alone, and of the list clears all,
\* adds the entry or nothing.
<1>u. ASSUME UNCHANGED <<kind, table, request, named, held, seen>>,
             netPc' = netPc \/ netPc' \in {"try", "read"} \/ (netPc' = "write" /\ ~ReadsFirst),
             netPc # "idle" \/ netPc' = "idle",
             ReadsFirst => \/ received'[request.id] \in seen \cup {None}
                           \/ received' = received /\ (netPc' = "read" => netPc = "read")
      PROVE  Exact'
  <2>1. Open' = Open /\ \A e \in seen : From(e)' = From(e)
    BY <1>u DEF Open, From
  <2> QED
    BY <1>u, <2>1 DEF Exact, ReadsFirst
<1>r. CASE Return
  BY <1>r DEF Return, Exact
<1>a. ASSUME NEW control \in BOOLEAN, CheckAccess(control)
      PROVE  Exact'
  BY <1>u, <1>r, <1>a DEF CheckAccess
<1>b. ASSUME NEW works \in BOOLEAN, TryRead(works)
      PROVE  Exact'
  BY <1>i, <1>u, <1>r, <1>b DEF TryRead, Retrieve
<1>c. ASSUME NEW works \in BOOLEAN, Written(works)
      PROVE  Exact'
  <2>1. CASE ~GivesUp
    <3>1. netPc' = "try" /\ UNCHANGED <<kind, table, request, named, held, seen>>
      BY <1>c, <2>1 DEF Written
    <3>2. received' = received \/ received' = [i \in Ids |-> None]
      BY <1>c DEF Written, StartRetrieval, Retrieve
    <3> QED
      BY <1>c, <1>i, <1>u, <3>1, <3>2 DEF Written
  <2>2. CASE GivesUp
    BY <1>c, <1>r, <2>2 DEF Written
  <2> QED
    BY <2>1, <2>2
<1>1. CASE TryRefused
  BY <1>1, <1>r DEF TryRefused
<1>2. CASE TryWrite
  BY <1>2, <1>u DEF TryWrite
<1>3. CASE Read
  <2>1. CASE received[request.id] = None
    BY <1>3, <1>r, <2>1 DEF Read
  <2>2. CASE received[request.id] # None
    <3>1. ReadsFirst /\ request \in Request /\ netPc = "read"
      BY <1>0, <1>3, <1>i DEF Read, Locals, ReadsFirst
    <3>d. PICK d \in seen \ {None} : d = received[request.id]
      BY <2>2, <3>1 DEF Exact
    <3>2. /\ netPc' = "write" /\ UNCHANGED <<kind, table, received, request, seen>>
          /\ named' = [enabled |-> IF named.enabled = 2 THEN d.enabled ELSE named.enabled,
                       when |-> IF named.when = 2 THEN 3 ELSE named.when]
          /\ held' = IF named.when = 2 THEN d.when
                     ELSE IF named.when = 3 THEN held ELSE named.when
      BY <1>3, <2>2, <3>d DEF Read, Taken
    <3>3. request.enabled \in 0..2 /\ request.when \in 0..2
      BY <3>1
    <3>4. \A e \in seen \ {None} : e.enabled \in Bit
      BY <1>0 DEF DataOK, Entry
    <3>5. Open => From(d)'
      BY <3>2 DEF Open, From
    <3>6. ASSUME NEW e \in seen \ {None}, From(e)
          PROVE  From(e)'
      BY <3>2, <3>4, <3>6 DEF From, Bit
    <3>7. \E e \in seen \ {None} : From(e)'
      <4>1. Open \/ \E e \in seen \ {None} : From(e)
        BY <3>1 DEF Exact
      <4> QED
        BY <3>1, <3>5, <3>6, <4>1
    <3>8. /\ request.enabled # 2 => named'.enabled = request.enabled
          /\ request.when # 2 => named'.when = request.when /\ held' = request.when
      BY <3>1, <3>2, <3>3 DEF Exact
    <3> QED
      BY <3>1, <3>2, <3>7, <3>8 DEF Exact, ReadsFirst
  <2> QED
    BY <2>1, <2>2
<1>4. CASE Write
  BY <1>4, SeenGrows DEF Write
<1>8. CASE SeeWait \/ ClearWait \/ CopyList \/ FillIds
  BY <1>8, <1>u DEF SeeWait, ClearWait, CopyList, FillIds
<1>9. ASSUME NEW a \in BOOLEAN, NEW b \in BOOLEAN, NEW c \in BOOLEAN, UpdateConfig(a, b, c)
      PROVE  Exact'
  <2>1. UNCHANGED <<kind, table, netPc, request, named, held, seen>>
    BY <1>9 DEF UpdateConfig
  <2>2. received' = received \/ received' = [i \in Ids |-> None]
    BY <1>9 DEF UpdateConfig, StartRetrieval, Retrieve
  <2> QED
    BY <1>i, <1>u, <2>1, <2>2
<1>10. CASE WaitOver \/ TimerDue \/ WorldChanges
  BY <1>10, <1>u DEF WaitOver, TimerDue, WorldChanges
<1>11. CASE AppChanges
  BY <1>11, SeenGrows DEF AppChanges
<1>12. ASSUME NEW r \in Commands, Arrive(r)
       PROVE  Exact'
  <2>1. request' = r /\ named' = [enabled |-> r.enabled, when |-> r.when] /\ netPc' = "access"
        /\ seen' = Watched(r, table) /\ kind' = kind /\ table' = table
    BY <1>12 DEF Arrive
  <2> QED
    BY <2>1 DEF Exact, ReadsFirst, Watched, Open
<1>13. ASSUME NEW i \in Ids, Receive(i)
       PROVE  Exact'
  <2>1. received' = [received EXCEPT ![i] = table[i]] /\ received \in Table
    BY <1>0, <1>13 DEF Receive, DataOK
  <2>2. ASSUME ReadsFirst, netPc # "idle"
        PROVE  received'[request.id] \in seen \cup {None} \/ received'[request.id] = received[request.id]
    BY <1>i, <2>1, <2>2 DEF Exact, Table
  <2>3. UNCHANGED <<kind, table, netPc, request, named, held, seen>>
    BY <1>13 DEF Receive
  <2>4. Open' = Open /\ \A e \in seen : From(e)' = From(e)
    BY <2>3 DEF Open, From
  <2> QED
    BY <2>2, <2>3, <2>4 DEF Exact, ReadsFirst
<1>14. CASE UNCHANGED vars
  BY <1>14, <1>u DEF vars
<1> QED
  BY <1>a, <1>b, <1>c, <1>1, <1>2, <1>3, <1>4, <1>8, <1>9, <1>10, <1>11, <1>12, <1>13, <1>14
     DEF Next, NetNext, NukiNext

\* Only an exchange of the handler takes it from the write to what follows.
LEMMA OnlyWrite ==
  ASSUME [Next]_vars, netPc = "write", netPc' = "written"
  PROVE  Write
BY DEF Next, NetNext, NukiNext, TryRefused, TryWrite, Read, CheckAccess, TryRead, Written,
     SeeWait, ClearWait, CopyList, FillIds, UpdateConfig, WaitOver, TimerDue, WorldChanges,
     AppChanges, Arrive, Receive, vars

\* Every step keeps what a command without values relies on.
LEMMA PlainKept ==
  ASSUME IInv, Plain, [Next]_vars
  PROVE  Plain'
<1> USE RequestTypes DEF Plain
<1>0. DataOK /\ Locals /\ Tries
  BY DEF IInv
<1>1. CASE UNCHANGED <<kind, netPc, handlerVars>>
  BY <1>1 DEF ReadsFirst, Refused, BadTime
<1>2. CASE netPc' = "idle" /\ Return
  BY <1>2 DEF Return, ClearLocals
<1>a. ASSUME NEW control \in BOOLEAN, CheckAccess(control)
      PROVE  Plain'
  BY <1>0, <1>2, <1>a DEF CheckAccess, Return, ReadsFirst, Tries
<1>b. ASSUME NEW works \in BOOLEAN, TryRead(works)
      PROVE  Plain'
  BY <1>2, <1>b DEF TryRead, Return, ReadsFirst
<1>c. ASSUME NEW works \in BOOLEAN, Written(works)
      PROVE  Plain'
  BY <1>2, <1>c DEF Written, GivesUp, Return, ReadsFirst, Refused, BadTime
<1>3. CASE TryRefused
  BY <1>2, <1>3 DEF TryRefused, Return
<1>4. CASE TryWrite
  BY <1>4 DEF TryWrite, ReadsFirst, Refused, BadTime
<1>5. CASE Read
  BY <1>0, <1>2, <1>5 DEF Read, Locals, Return, ReadsFirst
<1>6. CASE Write
  BY <1>6 DEF Write, ReadsFirst, Refused, BadTime
<1>7. ASSUME NEW r \in Commands, Arrive(r)
      PROVE  Plain'
  BY <1>0, <1>7 DEF Arrive, Tries, ReadsFirst
<1>8. CASE NukiNext \/ WaitOver \/ TimerDue \/ WorldChanges \/ AppChanges \/ UNCHANGED vars
  BY <1>1, <1>8 DEF NukiNext, SeeWait, ClearWait, CopyList, FillIds, UpdateConfig, WaitOver,
       TimerDue, WorldChanges, AppChanges, vars
<1>9. ASSUME NEW i \in Ids, Receive(i)
      PROVE  Plain'
  BY <1>1, <1>9 DEF Receive
<1> QED
  BY <1>a, <1>b, <1>c, <1>3, <1>4, <1>5, <1>6, <1>7, <1>8, <1>9 DEF Next, NetNext

LEMMA SInvHolds == Spec => []SInv
<1>1. Init => Exact /\ Plain
  BY DEF Init, Exact, Plain
<1>2. IInv /\ Exact /\ Plain /\ [Next]_vars => Exact' /\ Plain'
  BY ExactKept, PlainKept
<1> QED
  BY <1>1, <1>2, IInvHolds, PTL DEF Spec, SInv

\* README, on the nodes of a time control command: enabled, weekdays, time and
\* lockAction are "Optional" for an update.  An exchange sets what the request names,
\* leaves other entries alone and keeps, of what the request does not name, what the
\* entry had at one time since the command arrived: on each try, whatever the app edits
\* meanwhile and although both tasks have the lock fill the one list that the values
\* come from (onTimeControlCommandReceived, updateTimeControl).  An edit between the read
\* and the write is overwritten.
UpdateExact ==
  \E e \in seen \ {None} :
    table' = [table EXCEPT ![request.id] = [enabled |-> Kept(request.enabled, e.enabled),
                                            when |-> Kept(request.when, e.when)]]

TimeControlKeepsRest ==
  [][kind = "timecontrol" /\ request.cmd = "update" /\ netPc = "write" /\ netPc' = "written"
       => UNCHANGED table \/ UpdateExact]_vars

\* An update of a time control entry is exact, for any number of entries, tries and edits.
THEOREM UpdatesExact == Spec => TimeControlKeepsRest
<1>1. SInv /\ [Next]_vars =>
        (kind = "timecontrol" /\ request.cmd = "update" /\ netPc = "write" /\ netPc' = "written"
           => UNCHANGED table \/ UpdateExact)
  <2> SUFFICES ASSUME SInv, [Next]_vars, kind = "timecontrol", request.cmd = "update",
                      netPc = "write", netPc' = "written", table' # table
               PROVE  UpdateExact
    OBVIOUS
  <2>1. table' \in Carried
    BY OnlyWrite DEF Write
  <2>2. PICK e \in seen \ {None} : table' = [table EXCEPT ![request.id] = Merged(e)]
    BY <2>1, UpdateCarried DEF SInv, ReadsFirst
  <2> QED
    BY <2>2 DEF UpdateExact, Merged
<1> QED
  BY <1>1, SInvHolds, PTL DEF Spec, TimeControlKeepsRest

\* README on "Number of retries if command failed": the bridge "retries sending commands".
\* It does not for an update of a time control entry that does not name the time: such a
\* command is sent to the lock once at most, whatever the setting, as the mark that the
\* first read leaves in the place of the time is refused as a time by the next try
\* (onTimeControlCommandReceived, "old" and invalidTime).
OneExchange ==
  kind = "timecontrol" /\ request.cmd = "update" /\ request.when = 2 => tries <= 1

\* Before the first read the time is open, after it the mark is there and a try made or
\* to be made.
Marked ==
  kind = "timecontrol" /\ request.cmd = "update" /\ request.when = 2 =>
    \/ named.when = 2 /\ tries = 0 /\ netPc \in {"access", "try", "read"}
    \/ named.when = 3 /\ tries = 0 /\ netPc = "write"
    \/ named.when = 3 /\ tries = 1 /\ netPc \in {"written", "try"}

\* No retry of an update without a time, for any setting.
THEOREM RetryRefused == Spec => []OneExchange
<1>1. Init => Marked
  BY DEF Init, Marked, NoRequest
<1>2. IInv /\ Marked /\ [Next]_vars => Marked'
  <2> SUFFICES ASSUME IInv, Marked, [Next]_vars PROVE Marked'
    OBVIOUS
  <2> USE DEF Marked
  <2>0. DataOK /\ Tries /\ Locals
    BY DEF IInv
  <2>1. CASE Return
    BY <2>1 DEF Return, NoRequest
  <2>2. ASSUME NEW control \in BOOLEAN, CheckAccess(control)
        PROVE  Marked'
    BY <2>1, <2>2 DEF CheckAccess
  <2>3. ASSUME NEW works \in BOOLEAN, TryRead(works)
        PROVE  Marked'
    BY <2>1, <2>3 DEF TryRead, Refused, BadTime
  <2>4. ASSUME NEW works \in BOOLEAN, Written(works)
        PROVE  Marked'
    BY <2>1, <2>4 DEF Written
  <2>5. CASE TryRefused \/ TryWrite
    BY <2>1, <2>5 DEF TryRefused, TryWrite, ReadsFirst
  <2>6. CASE Read
    BY <2>0, <2>1, <2>6 DEF Read, Taken, DataOK
  <2>7. CASE Write
    BY <2>7 DEF Write
  <2>8. ASSUME NEW r \in Commands, Arrive(r)
        PROVE  Marked'
    BY <2>0, <2>8 DEF Arrive, Tries
  <2>9. CASE NukiNext \/ WaitOver \/ TimerDue \/ WorldChanges \/ AppChanges \/ UNCHANGED vars
    BY <2>9 DEF NukiNext, SeeWait, ClearWait, CopyList, FillIds, UpdateConfig, WaitOver,
         TimerDue, WorldChanges, AppChanges, vars
  <2>10. ASSUME NEW i \in Ids, Receive(i)
         PROVE  Marked'
    BY <2>10 DEF Receive
  <2> QED
    BY <2>2, <2>3, <2>4, <2>5, <2>6, <2>7, <2>8, <2>9, <2>10 DEF Next, NetNext
<1>3. IInv /\ Marked => OneExchange
  BY DEF Marked, OneExchange
<1> QED
  BY <1>1, <1>2, <1>3, IInvHolds, PTL DEF Spec

-----------------------------------------------------------------------------
\* What the lock does with what is sent is what the request asks for.
LEMMA CarriedEffects ==
  ASSUME SInv, netPc = "write", NEW t \in Carried
  PROVE  t \in Service!Effects(request)
<1> USE DEF SInv
<1>1. request \in Request /\ table \in Table /\ kind \in Kinds
  BY DEF IInv, DataOK
<1>2. CASE request.cmd = "add"
  <2>1. PICK i \in Ids \ Used(table) : t = [table EXCEPT ![i] = Sent]
    BY <1>2 DEF Carried
  <2>2. table[i] = None /\ i \in Ids
    BY <2>1 DEF Used
  <2>3. kind # "auth" /\ named.when = request.when
    BY <1>1, <1>2 DEF Plain, ReadsFirst, Refused, Kinds
  <2>4. Sent = [enabled |-> 1, when |-> Service!Kept(request.when, 0)]
    BY <1>2, <2>3 DEF Sent, Service!Kept
  <2> QED
    BY <1>2, <2>1, <2>2, <2>3, <2>4 DEF Service!Effects, Service!Present
<1>3. CASE request.cmd = "delete"
  <2>1. request.id \in Ids /\ table[request.id] # None /\ t = [table EXCEPT ![request.id] = None]
    BY <1>1, <1>3, RequestTypes DEF Carried
  <2> QED
    BY <1>3, <2>1 DEF Service!Effects, Service!Present
<1>4. CASE request.cmd = "update" /\ kind = "keypad"
  <2>1. request.id \in Ids /\ table[request.id] # None /\ t = [table EXCEPT ![request.id] = Sent]
    BY <1>1, <1>4, RequestTypes DEF Carried
  <2>2. named.enabled = request.enabled /\ named.when = request.when /\ request.when # 2
    BY <1>4 DEF Plain, ReadsFirst, Refused
  <2>3. request.enabled \in 0..2
    BY <1>1, RequestTypes
  <2>4. Sent \in Service!Updated(request)
    BY <1>4, <2>2, <2>3 DEF Sent, Service!Updated
  <2> QED
    BY <1>4, <2>1, <2>4 DEF Service!Effects, Service!Present
<1>5. CASE ReadsFirst
  <2>1. PICK e \in seen \ {None} : t = [table EXCEPT ![request.id] = Merged(e)]
    BY <1>5, UpdateCarried
  <2>2. Merged(e) \in Service!Updated(request)
    BY <1>5 DEF Merged, Kept, Service!Updated, Service!Kept, ReadsFirst
  <2>3. request.id \in Service!Present
    BY <1>5, UpdateCarried DEF Service!Present
  <2> QED
    BY <1>5, <2>1, <2>2, <2>3 DEF Service!Effects, ReadsFirst
<1> QED
  BY <1>1, <1>2, <1>3, <1>4, <1>5, RequestTypes DEF ReadsFirst

\* A handler that returns answers: it was refused before its first try, has succeeded,
\* has made its tries or needs values that it did not get.
LEMMA ReturnAnswers ==
  ASSUME SInv, netPc # "idle", Return, UNCHANGED <<kind, table>>,
         tries = 0 \/ GivesUp \/ ReadsFirst
  PROVE  Service!Answer \/ Service!GiveUp
<1>1. request # NoRequest /\ tries \in 0..MaxTries /\ MaxTries = Service!Limit
  BY DEF SInv, IInv, DataOK, MaxTries, Service!Limit
<1>2. tries = 0 \/ result = "success" \/ tries = Service!Limit \/ Service!NeedsValues(request)
  BY <1>1, MaxTriesPositive DEF GivesUp, ReadsFirst, Service!NeedsValues
<1> QED
  BY <1>1, <1>2 DEF Return, ClearLocals, Service!Answer, Service!GiveUp, Service!End

\* Every step is one of the service or changes nothing it knows of.
LEMMA StepServes ==
  ASSUME SInv, [Next]_vars
  PROVE  [Service!Next]_(Service!serviceVars)
<1> USE DEF SInv
<1>0. DataOK /\ Locals /\ Tries
  BY DEF IInv
<1>1. CASE UNCHANGED <<kind, table, request, tries, result, seen>>
  BY <1>1 DEF Service!serviceVars
<1>2. CASE Service!Next
  BY <1>2
<1>a. ASSUME NEW control \in BOOLEAN, CheckAccess(control)
      PROVE  [Service!Next]_(Service!serviceVars)
  <2>1. CASE Admitted(control)
    BY <1>1, <1>a, <2>1 DEF CheckAccess
  <2>2. CASE ~Admitted(control)
    <3>1. netPc # "idle" /\ Return /\ UNCHANGED <<kind, table>> /\ tries = 0
      BY <1>0, <1>a, <2>2 DEF CheckAccess, Tries
    <3> QED
      BY <1>2, <3>1, ReturnAnswers DEF Service!Next
  <2> QED
    BY <2>1, <2>2
<1>b. ASSUME NEW works \in BOOLEAN, TryRead(works)
      PROVE  [Service!Next]_(Service!serviceVars)
  <2>1. CASE works
    BY <1>1, <1>b, <2>1 DEF TryRead
  <2>2. CASE ~works
    <3>1. netPc # "idle" /\ Return /\ UNCHANGED <<kind, table>> /\ ReadsFirst
      BY <1>b, <2>2 DEF TryRead
    <3> QED
      BY <1>2, <3>1, ReturnAnswers DEF Service!Next
  <2> QED
    BY <2>1, <2>2
<1>c. ASSUME NEW works \in BOOLEAN, Written(works)
      PROVE  [Service!Next]_(Service!serviceVars)
  <2>1. CASE ~GivesUp
    BY <1>1, <1>c, <2>1 DEF Written
  <2>2. CASE GivesUp
    <3>1. netPc # "idle" /\ Return /\ UNCHANGED <<kind, table>>
      BY <1>c, <2>2 DEF Written
    <3> QED
      BY <1>2, <2>2, <3>1, ReturnAnswers DEF Service!Next
  <2> QED
    BY <2>1, <2>2
<1>3. CASE TryRefused
  <2>1. netPc # "idle" /\ Return /\ UNCHANGED <<kind, table>> /\ (tries = 0 \/ ReadsFirst)
    <3>1. tries \in Nat
      BY <1>0, MaxTriesPositive DEF DataOK
    <3> QED
      BY <1>3, <3>1 DEF TryRefused, Plain
  <2> QED
    BY <1>2, <2>1, ReturnAnswers DEF Service!Next
<1>4. CASE TryWrite
  BY <1>1, <1>4 DEF TryWrite
<1>5. CASE Read
  <2>1. CASE received[request.id] # None
    BY <1>1, <1>5, <2>1 DEF Read
  <2>2. CASE received[request.id] = None
    <3>1. netPc # "idle" /\ Return /\ UNCHANGED <<kind, table>> /\ ReadsFirst
      BY <1>0, <1>5, <2>2 DEF Read, Locals, ReadsFirst
    <3> QED
      BY <1>2, <3>1, ReturnAnswers DEF Service!Next
  <2> QED
    BY <2>1, <2>2
<1>6. CASE Write
  <2>1. /\ request # NoRequest /\ result # "success" /\ tries < Service!Limit
        /\ tries' = tries + 1 /\ UNCHANGED <<kind, request>>
        /\ seen' = seen \cup Service!Watched(request, table')
    BY <1>0, <1>6
       DEF Write, DataOK, Tries, Plain, MaxTries, Watched, Service!Limit, Service!Watched,
           Service!NeedsValues
  <2>2. Service!Exchange
    BY <2>1 DEF Service!Exchange
  <2>3. \/ table' \in Carried /\ result' = "success"
        \/ table' \in Carried /\ result' = "failure"
        \/ table' = table /\ result' = "failure"
    BY <1>6 DEF Write
  <2>4. table' \in Carried => table' \in Service!Effects(request)
    BY <1>6, CarriedEffects DEF Write
  <2>5. Service!Succeed \/ Service!Fail
    BY <2>2, <2>3, <2>4 DEF Service!Succeed, Service!Fail
  <2> QED
    BY <1>2, <2>5 DEF Service!Next
<1>7. ASSUME NEW r \in Commands, Arrive(r)
      PROVE  [Service!Next]_(Service!serviceVars)
  <2>1. Service!Ask(r)
    BY <1>0, <1>7
       DEF Arrive, DataOK, Watched, Service!Ask, Service!Watched, Service!NeedsValues
  <2> QED
    BY <1>2, <2>1 DEF Service!Next
<1>8. CASE AppChanges
  <2>1. PICK e \in Edits : table' = [table EXCEPT ![e.id] = e.entry]
    BY <1>8 DEF AppChanges
  <2>2. e.id \in Ids /\ \A j \in Ids \ {e.id} : table'[j] = table[j]
    BY <1>0, <2>1 DEF DataOK, Table
  <2>3. UNCHANGED <<kind, request, tries, result>>
        /\ seen' = seen \cup Service!Watched(request, table')
    BY <1>8 DEF AppChanges, Watched, Service!Watched, Service!NeedsValues
  <2>4. Service!AppChange
    BY <2>2, <2>3 DEF Service!AppChange
  <2> QED
    BY <1>2, <2>4 DEF Service!Next
<1>9. CASE NukiNext \/ WaitOver \/ TimerDue \/ WorldChanges \/ UNCHANGED vars
  BY <1>1, <1>9 DEF NukiNext, SeeWait, ClearWait, CopyList, FillIds, UpdateConfig, WaitOver,
       TimerDue, WorldChanges, vars
<1>10. ASSUME NEW i \in Ids, Receive(i)
       PROVE  [Service!Next]_(Service!serviceVars)
  BY <1>1, <1>10 DEF Receive
<1> QED
  BY <1>a, <1>b, <1>c, <1>3, <1>4, <1>5, <1>6, <1>7, <1>8, <1>9, <1>10 DEF Next, NetNext

\* EntriesServed: the handlers implement the service: each exchange does what the
\* request asks for, keeping values that the entry had since the command arrived, none
\* follows a success, and a command that reads no values has all its tries; for any
\* number of entries, retries and edits in the app, at any time.
THEOREM CommandsImplementService == Spec => EntriesServed
<1>1. Init => Service!Init
  BY DEF Init, Service!Init
<1> QED
  BY <1>1, StepServes, SInvHolds, PTL DEF Spec, EntriesServed, Service!Spec

-----------------------------------------------------------------------------
\* Every step of a handler brings it nearer to its answer, and nothing that nukiTask
\* or the lock does takes it back: a request ends within four steps for each try it
\* may have and four more (the loops over retryCount).
Remaining == CASE netPc = "idle" -> 0
               [] netPc \in {"access", "written"} -> 4 * (MaxTries - tries) + 4
               [] netPc = "try" -> 4 * (MaxTries - tries) + 3
               [] netPc = "read" -> 4 * (MaxTries - tries) + 2
               [] netPc = "write" -> 4 * (MaxTries - tries) + 1

HandlerAdvances ==
  [][netPc # "idle" => \/ UNCHANGED <<netPc, handlerVars>>
                       \/ Remaining' < Remaining]_vars

\* Each step of a handler leaves it less to do, for any number of tries.
THEOREM HandlersEnd == Spec => HandlerAdvances
<1>1. ASSUME IInv, [Next]_vars, netPc # "idle"
      PROVE  UNCHANGED <<netPc, handlerVars>> \/ Remaining' < Remaining
  <2>0. /\ DataOK /\ Locals /\ Tries /\ tries \in 0..MaxTries /\ MaxTries \in Nat
        /\ MaxTries' = IF kind' = "auth" THEN NrOfRetries ELSE NrOfRetries + 1
    BY <1>1, MaxTriesPositive DEF IInv, DataOK, MaxTries
  <2>1. CASE Return /\ kind' = kind
    <3>1. Remaining' = 0
      BY <2>1 DEF Return, Remaining
    <3>2. Remaining \in Nat /\ Remaining > 0
      BY <1>1, <2>0 DEF Remaining, DataOK
    <3> QED
      BY <3>1, <3>2
  <2>2. ASSUME NEW control \in BOOLEAN, CheckAccess(control), ~Return
        PROVE  Remaining' < Remaining
    BY <2>0, <2>2 DEF CheckAccess, Remaining, MaxTries
  <2>3. ASSUME NEW works \in BOOLEAN, TryRead(works), ~Return
        PROVE  Remaining' < Remaining
    BY <2>0, <2>3 DEF TryRead, Remaining, MaxTries
  <2>4. ASSUME NEW works \in BOOLEAN, Written(works), ~Return
        PROVE  Remaining' < Remaining
    BY <2>0, <2>4 DEF Written, Remaining, MaxTries
  <2>5. CASE TryRefused
    BY <2>1, <2>5 DEF TryRefused
  <2>6. CASE TryWrite
    BY <2>0, <2>6 DEF TryWrite, Remaining, MaxTries
  <2>7. CASE Read /\ ~Return
    BY <2>0, <2>7 DEF Read, Remaining, MaxTries
  <2>8. CASE Write
    BY <2>0, <2>8 DEF Write, Remaining, MaxTries, Tries
  <2>9. CASE NukiNext \/ WaitOver \/ TimerDue \/ WorldChanges \/ AppChanges \/ UNCHANGED vars
    BY <2>9 DEF NukiNext, SeeWait, ClearWait, CopyList, FillIds, UpdateConfig, WaitOver,
         TimerDue, WorldChanges, AppChanges, vars
  <2>10. ASSUME NEW i \in Ids, Receive(i)
         PROVE  UNCHANGED <<netPc, handlerVars>>
    BY <2>10 DEF Receive
  <2>11. ASSUME NEW r \in Commands, Arrive(r)
         PROVE  FALSE
    BY <1>1, <2>11 DEF Arrive
  <2>12. /\ \A control \in BOOLEAN : CheckAccess(control) => kind' = kind
         /\ \A works \in BOOLEAN : TryRead(works) \/ Written(works) => kind' = kind
         /\ Read => kind' = kind
    BY DEF CheckAccess, TryRead, Written, Read
  <2> QED
    BY <1>1, <2>1, <2>2, <2>3, <2>4, <2>5, <2>6, <2>7, <2>8, <2>9, <2>10, <2>11, <2>12
       DEF Next, NetNext
<1> QED
  BY <1>1, IInvHolds, PTL DEF Spec, HandlerAdvances

=============================================================================
