# Formal model of the Nuki REST bridge

The Nuki REST bridge is firmware for the ESP32. It connects a Nuki smart lock
(over BLE) to a home automation system: commands come in over a REST API, state
goes out through Home Automation Reporting (HAR). This directory holds TLA+
modules that model the firmware in `src/src`, TLC configurations that check
them on small instances, and proofs checked by TLAPS. Paths below are relative
to `src/src` unless they begin with `src/`.

## 1. The system

The firmware runs three FreeRTOS tasks, the Arduino Wi-Fi/Ethernet event task
and the callbacks of the BLE library. They share plain global variables and
objects; only three things are synchronised: a queue of depth 1 for lock
actions, `webCfgServerMutex`, and the mutexes inside `CharBuffer` and `Logger`.

| Component | State | Operations | Interacts with |
|---|---|---|---|
| `setup()`, boot (`main.cpp`, `RestartReason.h`) | RTC memory: `wifiFallback`, `ethCriticalFailure`, `forceEnableWebCfgServer`, bootloop counter, restart reason; preferences | initializeRestartReason, logCoreDump, bootloopDetection, setupDevice, startWebCfgServer, restartEsp | everything: each boot reads what the last one left |
| `networkTask` (core 1) | `netwGateOpen`, `rebootLock` | `NukiNetwork::update`, gate, reboot flag, uptime and reset of the bootloop counter | REST server, HAR client, network device, wrapper callbacks |
| `nukiTask` (core 0) | `lockBleRestartAttemptCount` | BLE scanner, pairing, `NukiWrapper::update`, `restartServices` | lock, HAR client, web configurator |
| `webCfgTask` | `webCfgServerMutex` | `WebCfgServer::handleClient` | wrapper and network by pointer; preferences |
| `NukiWrapper` | action queue, `_statusUpdated`, timers, `_paired`, PIN status, last lock state, restart reason | lock actions, queries, polling, retrieval of keypad, time control and authorisation entries, configuration commands | BLE library, `NukiNetwork` |
| `RestApiServer` | `_server`, `_isOk`, `_queryCommands`, `_rebootLockPending` | start, test, restart, stop, request dispatch, answers | callbacks of the wrapper, `CharBuffer` |
| `HarClient` | transport object, `_isOk`, intervals | start, test, restart, update, send | networkTask and nukiTask |
| `NukiNetwork` | services state, retest and watchdog timers, `forceEnableWebCfgServer` | setupDevice, update, health check, restart of the services | network device, REST, HAR |
| `WifiDevice`, `EthernetDevice` | connection, access point, crash flag | initialize, scan, connect, events | boot, `NukiNetwork` |
| `WebCfgServer` | sessions, login lock-out, confirm codes, settings | login, pages, save settings, factory reset, import/export, OTA | preferences, network, wrapper |
| `ImportExport` | TOTP/bypass state, key lists | export, import, code checks | preferences |
| `Logger` | buffer, file, mutexes | print, flush, rotate, disableFileLog | all tasks |
| `CharBuffer` | one shared buffer and its mutex | acquire with timeout, release | REST, web configurator, wrapper |
| `CryptoUtils`, `AuthUtils`, `NukiRetryHandler` | none | keypad code encryption, constant-time comparison, retry loop | wrapper, REST, web configurator |

### What is hard, and what makes each part correct

* **Command path.** Two tasks on two cores exchange commands through one
  synchronised queue and several unsynchronised bytes and flags. An accepted
  command must reach the lock once, an answer must be true, a request for state
  must not be older than its answer.
* **Restart of the BLE services.** `nukiTask` destroys objects that two other
  tasks reach by pointer, and must come out with the web configurator running;
  repeated failures must escalate to a restart of the ESP.
* **Boot and recovery.** What one boot leaves in RTC memory and preferences
  decides about the next; crashes in the middle must neither repeat for ever
  nor degrade a bridge that has worked.
* **Network services.** One thread tests, restarts and watches two services
  while another sends through them and a third disables them.
* **State polling.** Beacons, timers, queries and retries ask for the lock's
  state; every change must be read in the end, and reports must describe what
  was read.
* **Commands with payload** (keypad, time control, authorisation,
  configuration). Long chains of access checks, each with an answer of its own.
* **Web sessions.** Login, session expiry, lock-out after failures, one-time
  confirm codes in small tables.

`PROJECT.json` lists the hazards one by one with their lines and the properties
that would catch each.

## 2. Modules

| Module | Models | Proofs |
|---|---|---|
| `LockActionService` | what the bridge promises about a lock action: order, number of tries, answers | – |
| `LockCommandPath` | `networkTask` and `nukiTask` around `RestApiServer::onRequestReceived`, the queue, `NukiWrapper::update`, `retryComm`, pairing, health check, restarts of the services; refines `LockActionService` | `LockCommandPath_proofs` |
| `ServiceRestart` | `restartServices`, `stopWebCfgServer`, `startWebCfgServer`, the loops of the three tasks around them, the beacon watchdog, escalation | `ServiceRestart_proofs` |
| `BootRecovery` | the stages of `setup()`, the network device's choice and fallback, the settings that matter to it, `NukiNetwork::update` as far as it restarts the ESP | `BootRecovery_proofs` |
| `NetworkServices` | `NukiNetwork::update` with the REST server and the HAR client: health check, retest, restarts, watchdog; `nukiTask` sending, `webCfgTask` disabling and saving | `NetworkServices_proofs` |
| `LockStatePolling` | `NukiWrapper::update`, `updateKeyTurnerState` and `notify`: when the lock is asked for its state, rapid polling, retries, and the report to HAR | `LockStatePolling_proofs` |
| `EntryService` | what the bridge promises about a command on entries: the effect of each exchange, the number of tries, when a command may be given up | – |
| `EntryCommands` | the handlers of keypad, time control and authorisation commands on `networkTask` and the retrieval of the entries by `nukiTask`, around the one list in the BLE library; refines `EntryService` | `EntryCommands_proofs` |
| `Logger` | printing, buffer, queue, file, FTP backup and clearing in `Logger.cpp`, with all tasks that use it | `Logger_proofs` |
| `KeypadCodes` | settings page, `readSettings`, the loop of `modInverse` and decryption of keypad codes in machine arithmetic | `KeypadCodes_proofs` |
| `MC…` | instances for TLC | |

How they fit together: `LockCommandPath` has the whole hand-over from a REST
request to the BLE exchange and keeps everything before and after it abstract;
`LockStatePolling` opens the step `poll` of it and adds time, beacons and HAR;
`EntryCommands` opens the REST commands that `networkTask` carries out itself,
past the queue; `KeypadCodes` opens the code in one of them. `NetworkServices`
and `ServiceRestart` replace the objects that the others call, `BootRecovery`
starts from what all of them leave behind when the ESP restarts.

### LockCommandPath

`netPc` walks `networkTask`: `handle` (one REST request), `health` (health
check and retest), `gate` (gate and reboot flag). `nukiPc` walks `nukiTask`:
`top`, `pair`, `read`/`reset` (the two halves of `queryCommands()`), `take`
(xQueueReceive), `act` (a turn of `retryComm`), `poll` (lock state), `report`
(the block that depends on the services), `clear` (`rebootLock = false`).
Reads and writes of unsynchronised variables are separate steps, so `|=` on the
query byte is a load (`NetQueryLoad`) and a store (`NetQueryStore`).

* `ActionsServed`: the hand-over implements `LockActionService` under the
  mapping `pending = <<action being tried, action in the queue>>`: answers are
  kept in order, tried at least once and at most `NrOfRetries + 1` times; "busy"
  is answered only while something is unfinished.
* `LockStateRefreshed`: update() does not come back from a successful action or
  a taken lock state query without having asked the lock for its state.
* `RebootAtMostOnce`: never more reboots sent than requested.
* `ActionTaken` (liveness): an action in the queue is taken, under weak
  fairness of the two tasks. Both are endless loops pinned to cores of their
  own, which is what weak fairness of each says.

### ServiceRestart

`nukiPc` walks `nukiTask` through `restartServices` (`stop`, `delete`,
`create`, `start`); `webPc`/`mutex` are `webCfgTask` and its mutex, `netPc` a
callback of the wrapper on `networkTask`. `webServer` says what the pointer
`_nuki` in the web configurator refers to, `wrapper` what `nukiInst` refers to.
`overran` remembers that a page outlasted the 500 ms that `stopWebCfgServer`
waits.

* `PagesUseLiveObjects`, `WebServerKept`: safety of the objects, and the web
  configurator survives.
* `WrapperKept`: the wrapper is missing only between the two halves of a restart
  or after the lock was switched off, although the setting that decides about it
  may change while the services restart.
* `BleEscalates`: failures without a lock state in between end in a restart of
  the ESP. `WebServed`: pages are served through every restart. Fairness: each
  task keeps running; strong fairness of `WebTake` because `webCfgTask` polls
  every 10–50 ms while `nukiTask` holds the mutex only inside a restart, which
  takes seconds; `Boot` because the ESP comes up again; `BeaconOverdue` because
  time passes.
* `BeaconLossRestarts` is violated: see Findings.

### BootRecovery

`pc` walks the stages of `setup()` (`reason`, `flags`, `device`, `hardware`,
`services`) to `running`. Every stage may crash, power may be lost at any time
(RTC flags are then arbitrary), `ETH.begin()` may work, fail or crash, and that
may change at any time. Running bridges connect, disconnect, time out, change
their settings.

* `NoWifiForProvenEthernet`, `CrashGuarded`, `ApCanBeConfigured`,
  `ReasonReportedOnce`: safety of the fallback, the crash guard, the access
  point and the restart reason.
* `EthernetComesBack`, `BootloopEnds` (liveness): recovery ends where it
  should. Fairness: `setup()` is sequential code, so its next stage is taken.
* `BootloopEnds` needs valid core dumps (`BadDumps = FALSE`): see the
  observations.

### NetworkServices

`netPc` walks `NukiNetwork::update`: `top` (the early returns), `serving`
(`handleClient`), `retest`, `check`, the two halves of each restart (the object
is deleted, then created), `har` and `sendData` (reports of `networkTask`
itself), `watchdog`, `esp` (the ESP is down). `nukiPc` is `nukiTask` inside
`HarClient::sendData`, `webPc` is `webCfgTask` between the two steps of
`RestApiServer::disable`. A tick of time needs a turn of update() since the last
one, so that a turn is shorter than a tick; a retest falls due one tick after
the restart. `goodFor` and `sinceGood` are history: they record how long ago the
enabled services could last work for a spell long enough (`Patience`) that a
check, a restart and a retest must have seen it. `hopelessFor` is history, too:
for how long the timeout has been on and HAR could not work.

* `WatchdogJustified`: the watchdog restarts the ESP only if there was no such
  spell within the timeout. `Patience = CheckEvery + 3` is tight: a tick for the
  retest and one for each turn that time passes in; with one tick less TLC finds
  a restart out of date.
* `WatchdogPunctual`: a HAR server that stays away ends in a restart of the ESP
  within `Deadline`: a check interval, the timeout and a tick, or the grace when
  that is longer. The bound is tight (TLC reaches it), and it says more than that
  the restart comes some time: the recreation of HAR, its retests and the checks
  in between never put it off.
* `ApiServed`, `HarRecovers` (liveness): REST is served although HAR is down;
  reports go out again once the server is back. Fairness: `networkTask` is an
  endless loop, the other tasks come out of the calls they are in
  (`NukiSent`, `WebStopApi`), time passes (`Tick`).

### LockStatePolling

`pc` walks `NukiWrapper::update`: `top` (query bits, an action of the queue,
is a poll due?), `exchange` (`requestKeyTurnerState`), `finish` (its result is
stored and reported), `others` (battery, configuration, keypad). `Beacon` is
`notify()` in the BLE task: it may come between any two of these steps and
writes `statusUpdated`, `newSignal` and `rapidFor` without a lock, as the code
does. Time stamps are the ticks until they are due; a tick needs a turn of
update() since the last one. `unseen` is history: the ticks for which the lock
has differed from what was read, with no failed exchange between.

* `ChangeReadInTime`: no change of the lock stays unread for longer than the
  configured interval, whatever beacons, signals, actions and queries do to the
  timer. A failed poll starts the count again; the bound is then the delay that
  this failure causes (`Wait`). The code counts failures without a limit and adds
  333 ms for each beyond the retries, and so do `Failures` (all of `Nat` in the
  code) and `Backoff`: the delay passes the interval in the end, see the
  observations.
* `ShownIsRead`: while HAR answers it shows what was read last, also the values
  that are sent on change only. It is a property of whole behaviours
  (`[](har = "ok") => …`): one report lost at any time spoils it for the values
  sent on change only, see the observations.
* `StateCatchesUp` (liveness): reports may be lost while HAR is away; once the
  lock rests, can be reached and HAR answers, it shows the lock's state.
* `OthersServed`: rapid polling ends, so that the other queries get their turn.

Fairness: `NukiNext` (an endless loop; exchanges time out) and `Tick`.

### EntryCommands

`netPc` walks a handler such as `onTimeControlCommandReceived`: `access` (the
setting, the PIN, the configuration, the look-up of the id), `try` (parameters;
refusals), `read` (an update of a time control entry or authorisation has the
lock send its entries and waits five seconds), `write` (one exchange),
`written` (another try, or the answer and a retrieval). `nukiPc` walks
`nukiTask` from the timer through `_wait…UpdateTs = 0` and the copy of the list
to the refilled ids. `table` is what is in the lock, `received` the list in the
BLE library that both tasks have the lock refill, `pending` what the lock has
still to send (`Receive`). `kind` chooses the handler; the three differ in
their access checks, in the number of tries and in when they retrieve. `named`
is the copy of the request that the handler writes to: 3 is the word "old" that
it puts in the place of a time it took from the entry.

`servicesOK` is the condition under which `update()` looks at waits, lists and
the configuration (`NukiWrapper.cpp:347`): the network services are up, the REST
server aside, and no status report waits. `WorldChanges` switches it and the
lock's reach at any time. `Asked` says which entries the lock sends: all for time
control, for the other kinds at most the number configured. The app edits
entries at any time (`AppChanges`), also in the five seconds between the read and
the write of an update. `seen` is history: for a command that reads its entry,
all that the entry has been since the command arrived.

* `EntriesServed`: the handlers implement `EntryService`. Its variables are those
  of the model with the same names, so the mapping is the identity; what the
  detail adds (the list both tasks refill, the copies the handler takes of it,
  `nukiTask`) must not show. Each exchange has the effect the command asks for, or
  none. An update keeps for what it does not name the values that the entry had
  together at one time since the command arrived (`seen`), on each try, although
  both tasks refill the one list the values come from; it never mixes the entry of
  two times and never takes anything older. It is no promise to keep an edit
  made meanwhile: the code overwrites it. No exchange follows a success, and a
  command that reads no values is not given up before its last try. Of one that
  does (`GiveUp`) no tries are promised: this is a departure of the code from
  `src/README.md:527`, which `RetryRefused` proves. What a keypad update makes of
  an `enabled` that it does not name is left open.
* `IdsConverge` (liveness): once the lock can be reached and `servicesOK` holds
  for good, the ids the bridge knows become those that the lock sends and stay
  so, whatever was lost before. Without the services the code retrieves nothing,
  see the observations.
* `HandlerReturns`: every request is done with.

Fairness: the two tasks go on, the lock sends what it was asked for
(`Receive`), timers run out (`WaitOver`, `TimerDue`). Nothing is assumed of the
lock, the services or the app.

### Logger

`call` and `waiting` are, per task, the call of `write` it is in and whether it
has passed the unprotected test of the flags and waits for `_bufferMutex`.
`step` walks `processQueue` of LoggerTask: `receive`, `backup`, `connect`,
`clear`/`clearing`, `append`; `webClear` is the page "clearlog". LoggerTask
prints like the others, into the queue it empties itself. Settings switch
backups and file logging off at any time. `Reboot` may happen at any step: the
file stays as it is, flags, buffer and queue are lost, and backups may be enabled
then although they were not before. `found` is history: the lines the program
found in the file when it started, or `MaxSize + 1` if they were fewer.

* `SizeBounded`: with backups enabled the file grows beyond its limit, or beyond
  what the start found, by the queue, one line per writer and one at most; this is
  tight. It bounds the growth from one start to the next and not the file: each
  start may add these lines again, see the observations.
* `ClearedAfterSent`: LoggerTask clears only what went to the FTP client,
  unless no server is set.
* `WritersReturn` (liveness): printing ends, unless `clear()` kept the mutex.
* `LoggerRests` (liveness): the messages LoggerTask sends itself do not keep it
  busy for ever, as long as backups are enabled.

Fairness: `LoggerNext`, `WebClearing` and `SeeFlags` weak; `WriteBuffer`
strong, because a FreeRTOS mutex goes to the waiting task of the highest
priority and LoggerTask, the one that takes it again and again, has the lowest.

### KeypadCodes

`page` walks `webCfgTask` through the arguments of the settings page (`KPMOD`,
`KPMULT`, `KPOFF`) and the members that `readSettings` assigns one by one
(`mult`, `off`, `mod`, `inv`); `divide` is the loop of `modInverse`, one turn a
step, with the variables `euclid`. `Add` is a keypad command of `networkTask` at
any point between, once `setup()` has loaded the settings. `Decrypt` has the
unsigned wrap-around of the difference and the 64-bit product. The client
encrypts by the README's formula in whole numbers (`Formula`) or as the
repository's `encryptKeypadCode` does (`Encrypt`), whose product and sums wrap at
the word; `Fits` says when the product does not.

* `TypeOK` also says that the cofactors never leave the modulus, so that the
  signed words of `modInverse` do not overflow.

* `InverseExact`: after every reload the inverse is the one that exists, or 0.
* `DecryptedRight`: a code encrypted by the README's formula is decrypted to itself,
  and so is one encrypted by `encryptKeypadCode` if the product fits the word, when
  client and bridge use the same settings within the README's constraints. A
  command that meets half-loaded settings is excluded.
* `ConstraintsEnforced` is violated: see Findings.

## 3. Runs

| Run | Question | Bounds, and why they are enough |
|---|---|---|
| `command_safe` | safety and refinement of the command path | two actions (order matters between two), one retry (first and last try differ), one reboot, one restart of the services |
| `command_live` | an accepted action is taken | one action; the queue holds one |
| `restart_services` | safety and liveness of the restart | none: the state space is finite |
| `restart_beacon` | the README's promise about lost beacons (violated) | none |
| `boot_safe` | safety of boot, everything may go wrong | bootloop limit 3 instead of 10: the counter passes first, middle and last value |
| `boot_live` | recovery | the same; settings stay, dumps are valid |
| `services` | health check, restarts and watchdog of the two services | `CheckEvery` 2, `Timeout` 2, `Grace` 1 ticks: a check, a retest and the timeout can come in any order, and the first checks fall before and after the grace period |
| `polling` | does the bridge follow the lock? | interval 2, delay 1, rapid polling 1 tick: a signal, a retry and the timer can be due in any order; one retry, so that first, repeated and given up differ; two failures counted, the second with a delay longer than the interval; two lock states at rest and on the way, two values reported on change; one signal, after which the cap matters |
| `entries` | commands against retrievals of one list, and do the handlers implement `EntryService`? | two ids of which the bridge takes note of one: the lock may send the one or the other, and commands are for the first; two retries, so that a try is first, middle and last (authorisations make one less); one request, which adds, deletes, or updates with or without naming the time; one edit in the app, which disables or deletes the entry of the command at any step; the lock is empty at boot or has both |
| `logger` | buffer, queue, file and backup over restarts | two writers (merged lines), a queue of one, so that it is full with the first line, limit of one line, room for seven, three messages from one start to the next and any number of restarts: enough for the file to reach the bound of `SizeBounded`, which is then tight |
| `keypad` | every sequence of settings pages | base 4 and two digits, words of 7 bits: products and differences leave the word; the numbers entered include a multiplier above the modulus, one that is not coprime to it, the bounds of each field and ones outside; products that fit the word and ones that do not |
| `keypad_constraints` | are the constraints enforced? (violated) | the same |

Bounds are named constants: `MaxReboots`, `MaxRestarts` and `NrOfRetries` in
`LockCommandPath`, `BootloopLimit` in `BootRecovery`, `Failures` and `Backoff` in
`LockStatePolling`, `MaxRequests`, `MaxChanges`, `Tables` (at boot), `Edits` (of
the app) and `Commands` (that arrive) in `EntryCommands`, `MaxMessages` (from one
start to the next) and `Disk` in `Logger`; ages in `NetworkServices` and
`LockStatePolling` stop counting at the value that matters. In the instances
of `LockCommandPath` and `LockStatePolling` only the lock state is queried: the
other queries go through the same byte and no property tells them apart.
The proofs need none of these bounds: `Failures` may be `Nat`, `Tables`, `Edits`
and `Commands` all that there are.

`CHECK_DEADLOCK` is off in `logger` alone: when the messages are used up and
`clear()` has kept the mutex, the log has indeed come to an end.

The liveness runs use `FairSpec`, whose conditions are explained with each
module in section 2. All of them say that an endless loop goes on, that a
library call comes back, or that time passes; the only strong ones are those of
a FreeRTOS mutex that another task takes again and again.

## 4. Proofs

Everything below is proved for every value of the constants, from `Spec`, with
no assumption but the named ones on the constants (`PathAssumption`,
`RestartAssumption`, `BootAssumption`, `ServicesAssumption`,
`PollingAssumption`, `EntryAssumption`, `LoggerAssumption`,
`KeypadAssumption`), which TLC evaluates in the runs.

| Theorem | States | Argument |
|---|---|---|
| `LockCommandPath_proofs!TypeCorrect` | types; `tries <= NrOfRetries` | `TypeOK` is inductive; flags, network side and BLE side apart |
| `RebootsBounded` | `RebootAtMostOnce` | inductive `RebootsCovered`: reboots sent plus the copies of the request still in flags are covered by the requests |
| `RefreshCertain` | `LockStateRefreshed` | a success sets `statusUpdated`, and only the poll clears it |
| `ServiceImplemented` | `ActionsServed` | initial states and every step map to `LockActionService`, using `TypeCorrect` and that nothing is pending outside `act` |
| `ServiceRestart_proofs!TypeCorrect` | types; at most 4 attempts | inductive |
| `WrapperSurvives` | `WrapperKept` | inductive with the fact that without the lock switch the lock is enabled for good |
| `PagesSafe`, `WebServerSurvives` | `PagesUseLiveObjects`, `WebServerKept` | inductive `StopOrder`: a page is served under the mutex by an existing web configurator; what outlives the stop has overrun it. Without the conjunct on `nukiPc = "delete"` the deletion of the wrapper could make a page stale |
| `BootRecovery_proofs!TypeCorrect` | types; `loopCounter < BootloopLimit` | inductive |
| `EthCrashGuarded` | `CrashGuarded` | inductive `CrashNoted`: a crash in `ETH.begin()` is recorded in a flag that is valid until power is lost, so `BootFlags` cannot wipe it |
| `ProvenEthernetStays` | `NoWifiForProvenEthernet` | inductive `FallbackExcused`: decided in `setupDevice` and kept until the next boot |
| `OpenApConfigurable` | `ApCanBeConfigured` | inductive as it stands |
| `ReasonOnce` | `ReasonReportedOnce` | inductive `ReasonOwed`: a mark in RTC memory was left by a restart no boot has reported |
| `NetworkServices_proofs!TypeCorrect` | types; ages stay within their bounds | inductive |
| `RestartJustified` | `WatchdogJustified` | see below |
| `RestartPunctual` | `WatchdogPunctual` | inductive `PInv`, see below |
| `LockStatePolling_proofs!TypeCorrect` | types | inductive |
| `ChangesReadInTime` | `ChangeReadInTime`, for any number of failures (`Failures` may be `Nat`, with any `Backoff`) | inductive `Budget`: the age of an unread change and the ticks to the next poll never add up to more than the wait that was set last, except for the tick in which the poll falls due |
| `ReportsComplete` | `ShownIsRead` | inductive `Reported`, under `[](har = "ok")`: what is shown is what was read last, except between an exchange and its report, where it is the last state the report compares with |
| `EntryCommands_proofs!TypeCorrect` | types; tries within the handler's limit | inductive; a handler runs exactly while there is a request |
| `CommandsImplementService` | `EntriesServed` | initial states and every step map to `EntryService`, see below |
| `HandlersEnd` | each step of a handler lowers `Remaining` and no other step changes it, so it ends within four steps for each try and four more | a measure: `Remaining` is four times the tries left plus the distance of the stage to the end of a try; needs that the tries never exceed `MaxTries` |
| `UpdatesExact` | `TimeControlKeepsRest`: an update of a time control entry leaves what it names and, for the rest, the values of one state that the entry had since the command arrived, and changes no other entry, with edits of the app at any step | inductive `Exact`: what the lock has is among what was seen, and so is what the list has of the entry when it is read; what the handler holds is all from one state seen (`From`) or not taken yet (`Open`); what the request names is still in the handler's locals |
| `RetryRefused` | `OneExchange`: an update of a time control entry that names no time is sent to the lock once at most, whatever the setting: what the code does instead of `src/README.md:527` | inductive `Marked`: with the first read the mark "old" is in the place of the time, and stays there, so that `Refused` holds when a second try begins |
| `Logger_proofs!TypeCorrect` | types | inductive |
| `NothingUnsentCleared` | `ClearedAfterSent` | inductive `SentFirst`: between transfer and clearing nothing is appended |
| `MutexGivenBack` | `MutexHeld`: LoggerTask and the page "clearlog" never clear at the same time, and the mutex is taken only while one of them clears, or for good after the new file could not be opened | inductive as it stands |
| `SizeStaysBounded` | `SizeBounded`, over any number of restarts | inductive `Growth`: as long as all is well a line is appended only to a file within its limit, or no longer than the program found it; after a failure what may still get into the file is the queue, the line in hand and one line for each task that is past the test of the flags |
| `KeypadCodes_proofs!SettingsTyped` | types; the cofactors stay within the modulus | inductive with `LoopInv`, see below |
| `InverseFound` | `InverseExact` | `LoopInv`, see below |
| `CodesRecovered` | `DecryptedRight`, for the README's formula and, where the product fits the word, for `encryptKeypadCode` | lemmas about remainders: the difference is the code times the multiplier modulo the modulus although it wraps, and the inverse cancels the multiplier; `EncryptIsFormula`: without a wrap of the product the function is the formula |

**`RestartJustified`** needs the longest argument. `goodFor` counts the ticks
for which the enabled services could work, `sinceGood` the ticks since that was
as long as `Patience`. The watchdog restarts when `networkServicesTs` is too
old. The invariant therefore bounds, conjunct by conjunct, how long a failure
can go on during a good spell: a check is never later than `CheckEvery`
(`CheckMet`), a check in a good spell repairs what fails, after which at most
the retest is owed (`RetestMet`, `Failing`), and what is tested as working
resets the age of the last success (`SuccessNoted`, `Ahead`). `GoodNow`,
`StopDisabled`, `ApiBuilt` and `HarBuilt` say which objects exist at which step
of the restarts, without which a test in a good spell could fail. TLC checks
the invariant too, on 719 000 states.

**`RestartPunctual`** bounds the opposite age. Before the failure is found the
outage is no older than the last check (`Undetected`: the check is due in the
very loop in which it would get older); afterwards no test succeeds
(`TestHopeless`), so that the outage is at most a check interval older than the
last success (`Detected`), whatever is recreated in between. A whole loop since
the last tick has passed the watchdog, which an expired timeout does not survive
(`ExpiryMet`); the next tick needs such a loop. `GraceCounted` bounds the age by
the uptime for the grace, `RetestOwed` says that only what failed is retested, and
`HopelessNow` that the age counts what holds now. TLC checks `PInv`, too.

**`CommandsImplementService`** maps each write of a handler to an exchange of
`EntryService`, each return to an answer, and everything else to a stutter. A
write of an update must put into the lock, for the fields the request does not name,
what the entry was at one time since the command arrived, although the values come
from a list that either task may have the lock refill, although a try may work
with values an earlier one took, and although the app may edit the entry between
any two steps. `Exact` says that what the lock holds is always among what was seen
(`SeenGrows`), that what the list holds of the entry was received after the
handler asked for it and so has been seen, that the handler's copies are from one
of the entries seen, 3 ("old") standing only for a value taken from it, and that
what was named is still there. `Plain` says that commands without a read leave the
handler's copies as they arrived, and are not refused after a try.

**`InverseFound`**: `Cofactors` is the invariant of the loop of `modInverse`: each
remainder is the multiplier times its cofactor modulo the modulus; multiplier
and modulus are sums of multiples of the two remainders, so that a common divisor
of these divides both; and the coefficients for the modulus, which are not
negative, are the cofactors crosswise and with alternating sign.
The last bounds them by the modulus (`TypeOK`); the others give the inverse when
the loop ends with remainder 1 (`LastCofactor`), and that there is none when it
ends with another (`NoUnit`). `MembersRead` says that the members are read when the
loop begins. The loop is a part of the state (`page`, `euclid`), so
that no induction over data is needed.

Only model-checked: liveness (`ActionTaken`, `BleEscalates`, `WebServed`,
`EthernetComesBack`, `BootloopEnds`, `ApiServed`, `HarRecovers`,
`StateCatchesUp`, `OthersServed`, `IdsConverge`, `HandlerReturns`,
`WritersReturn`, `LoggerRests`), because temporal proofs under
fairness are out of the prover's reach. For two of them the safety they rest on
is proved: `HandlersEnd` for `HandlerReturns`, `MutexGivenBack` for
`WritersReturn`. Every invariant and every action property that a passing run
checks is stated by a theorem; the four formulas that only the proof modules
state (`TimeControlKeepsRest`, `OneExchange`, `HandlerAdvances`, `MutexHeld`)
were checked by TLC on the same instances.

## 5. Findings

1. **The beacon watchdog fires once** (`NukiWrapper.cpp:285`, run
   `restart_beacon`). Its restart recreates the lock object, whose last beacon is
   0, which disarms the watchdog until a beacon is heard. The README promises a
   restart "after the set amount of seconds has passed without receiving a
   bluetooth beacon" (`src/README.md:529`).
2. **The constraints of the keypad settings are not enforced**
   (`WebCfgServer.cpp:3971`, run `keypad_constraints`). A modulus that is saved
   later is checked for its range only; the multiplier stored before may share a
   divisor with it, the inverse is then 0 and every code is refused as missing.
   `src/README.md:561` calls the constraints "enforced".

Observations: what the modules reach, and no run of its own states.

Command path and restarts

* A query bit set between the read and the reset in `queryCommands()`
  (`RestApiServer.cpp:227`) is lost; `RestApiServer.h:204` promises otherwise.
* A lock reboot may be lost: `networkTask` overwrites `rebootLock` in every loop
  (`main.cpp:498`), so a request survives one loop of 60 ms only, although the
  comment says that `nukiTask` consumes it.
* A battery, configuration or keypad query is taken and dropped when the
  services are in the wrong state or rapid polling goes on
  (`NukiWrapper.cpp:347`), although it was answered.
* `restartServices` deletes the wrapper while `networkTask` may be inside one of
  its callbacks (`main.cpp:276`). After the lock was switched off no wrapper is
  created, but `lockStarted` stays set (`main.cpp:279`) and `nukiTask` calls
  through a null pointer.
* After `stopWebCfgServer` timed out, the web configurator keeps its pointer to
  the deleted wrapper (`main.cpp:190`).

Boot and network

* Crashes that leave an invalid core dump are not counted, so such a bootloop
  does not end (`main.cpp:733`). The counter is reset only in a turn of
  `networkTask` between 120 and 125 seconds of uptime (`main.cpp:438`).
* The crash guard of Ethernet ends in a Wi-Fi fallback only on the first boot
  after a change of hardware (`NukiNetwork.cpp:58`); `EthernetDevice.h:110`
  promises it unconditionally. Hardware that is absent but was never tried (a
  settings import) restarts the bridge for ever (`EthernetDevice.cpp:52`).
* The network timeout forces the web configurator on (`NukiNetwork.cpp:277`),
  and the first connected `update()` takes the flag away again.
* The network timeout is not evaluated while the bridge is disconnected
  (`NukiNetwork.cpp:193`), and a disconnection alone restarts the ESP only with
  `preference_restart_on_disconnect`.
* Two tasks are inside the HAR client: `HarClient.h:28` wants all calls from
  `networkTask`; `nukiTask` sends through it (`NukiWrapper.cpp:586`), also while
  `HarClient::restart` replaces the transport.
* `webCfgTask` deletes the REST server (`WebCfgServer.cpp:3486`) while
  `networkTask` may be inside its `handleClient`; `RestApiServer.h:47` wants one
  task only.
* `NukiNetwork::disableAutoRestarts` is never called; `preference_buffer_size`
  and the task sizes are never read at boot.

Polling and reports

* A change of the trigger, the door sensor or the battery that is reported while
  HAR is away is not sent later: the reports compare with what was read, not
  with what was sent (`HarClient.cpp:458`). The lock state is sent each time,
  although `HarClient.h:239` says "only sent when it changes".
* The wait after a failed poll has no limit: `_retryLockstateCount` counts all
  failures in a row and each adds 333 ms (`NukiWrapper.cpp:582`). After a long
  outage it passes the "maximum amount of seconds between actively querying" of
  `src/README.md:522`, with the default of 1800 s after some 5400 failures; a
  beacon that announces a change, an action or a query still polls at once.
* The next poll ten seconds after an action (`NukiWrapper.cpp:327`) never
  happens, because the poll at once sets the timer again.

Entry commands

* A retry of an update that named no time is refused: the handler has written
  "old" into the variable it parses again (`NukiWrapper.cpp:2518`), so the
  retries of `src/README.md:527` do not take place. `RetryRefused` proves it for
  time control entries, whatever the setting.
* An update of a keypad code that does not name `enabled` disables the code: what
  is not named counts as 0 (`RestApiServer.cpp:461`), where `src/README.md:758` has
  "Optional". `EntryService` promises nothing about it.
* Lists are retrieved only while `networkServicesState` is OK or the REST server
  alone has failed (`NukiWrapper.cpp:347`): with the HAR server down for good no
  list of ids is ever filled, and every command that needs an id is refused.
* The look-up of an id and the lists of ids are not synchronised between the
  tasks (`NukiWrapper.cpp:2176`): a command that comes while `nukiTask` refills
  the list is refused, or reads a vector that is being changed.
* `_wait…UpdateTs = 0` may erase a retrieval that the other task has just
  started; the next timer makes up for it. A failed verification marks the PIN
  invalid, which refuses commands until the next configuration; entries are
  retrieved before it.
* A lost acknowledgement of `add` makes the retry add the entry again.
* An edit in the Nuki app during the five seconds between the read and the write of
  an update is overwritten with what the entry was before; an entry that the app
  deletes then fails the exchange. Weekdays, lock action and the name of an
  authorisation are read anew by each try, the other values by the first alone.
* With `NrOfRetries = 0` the handler of authorisations never sends anything
  (`EntryAssumption` leaves this out). Disabling an authorisation resets its
  limits. A keypad command without a keypad gets no answer.
* The nodes of a keypad command are read as "command" and "id", where
  `src/README.md:755` has "action" and "codeId"; its name and code for an
  update are said to be optional but required by the handler.

Log

* The file is rotated "when this limit is reached" (`src/README.md:672`) only
  with backups enabled. Without, the default, it is never cleared
  (`Logger.cpp:596`), and each line above the limit adds two more.
* Nothing clears the file when the program starts, while `_logFallBack` is reset
  (`Logger.cpp:60`). With the FTP server away each start may add lines beyond the
  limit, up to the bound of `SizeBounded`; and where backups are enabled after a
  time without them, the file begins far above the limit.
* `clear()` keeps the mutex if the new file cannot be opened
  (`Logger.cpp:472`): every later print waits for ever.
* Without an FTP server the file is cleared, and the flag of a running backup is
  left set (`Logger.cpp:619`), which ends logging to the file. After a failed
  backup `_logFallBack` ends it too; nothing resets it before a restart.
* Texts printed by several tasks merge in the one buffer, and a `printf` with a
  line end drops the line another task has begun.

Keypad codes

* The default of the modulus is 1 000 000 in the wrapper (`NukiWrapper.cpp:158`)
  and 100 001 on the page (`WebCfgServer.cpp:974`) and in the README; with the
  latter, unless it was saved, codes decrypt to other codes or are refused.
* The test for a digit 0 looks at the encrypted text (`NukiWrapper.cpp:2182`) and
  refuses the README's own example, 1024633.
* `encryptKeypadCode` (`util/CryptoUtils.h:47`) multiplies in 32 bits. Its product
  wraps for the highest code from multipliers of 4295 on, which `src/README.md:561`
  allows: the code 999999 with multiplier 5000 does not come back. The repository's
  tests use the default multiplier only; in the firmware nothing calls it.
* A code above the modulus decrypts to another one; moduli above 2^30 make
  encrypted codes that `toInt` cuts off; without a stored modulus the upper bound
  of the offset wraps around.
* `readSettings` assigns the members one by one while `networkTask` may decrypt:
  such a command is decrypted with a mixture of old and new settings.

## 6. What a next step would be

All modules planned at the start are written, except for sessions of the web
configurator, import of settings and the shared buffer, for the reasons below.
Left of the modelled parts: the configuration command (`config/action`), a long
chain of independent settings with one answer; refinement of the step `poll` of
`LockCommandPath` by `LockStatePolling`; proofs of liveness if the prover comes
to support them.

## 7. Not modelled

* Sessions of the web configurator: `webCfgTask` alone reads and writes the
  tables, one request after the other, and what decides are cookies, addresses
  and tokens of that request.
* Import and export of settings: one pass by one task, followed by a restart.
* `CharBuffer`: only `networkTask` acquires it, so its mutex is never contended.
* The reconnect of Wi-Fi: it depends on the order in which the Arduino library
  raises its events, which is not in the repository.
* Battery report, RSSI, clock and advanced configuration: single exchanges
  without state of their own. Parsing of dates: an authorisation whose limits
  are named without `timeLimited` is left out of `EntryCommands`.
* Generated HTML, wording of logs and answers, JSON and HTTP parsing (external
  libraries), BLE packets (`NukiBleEsp32`), OTA and its partitions, pin
  assignments of the Ethernet boards.
* Everything under `src/lib`, most of the lines of the repository: vendored
  libraries (NimBLE, ArduinoJson, the BLE scanner, FTP and ping clients), which
  the models use as the firmware does.
