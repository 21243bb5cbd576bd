# FluxDTU: a verification project

FluxDTU is the firmware of a data transfer unit. It polls and commands Hoymiles
micro inverters over an NRF24 or a CMT2300A radio, and its dynamic power limiter
(DPL) steers inverters and grid chargers so that the house draws what it should
from the grid. This directory holds TLA+ models of the parts whose correctness
depends on the order of events, the TLC runs that check them on small instances,
and TLAPS proofs of the results that hold for every instance.

To run it: `tlc -config ledger.cfg PredictiveLedger` (or any other run of the
table below), `tlapm PredictiveLedgerProofs.tla`. Everything uses the TLA+
community modules; the proofs need Z3, Zenon and LS4 only.

## 1. The system

One ESP32 runs an Arduino main loop (a cooperative scheduler), the task of the
asynchronous web server, the task of the MQTT client, and a few tasks of the CAN
and HTTP readers.

| Component | State | Operations | Talks to |
|---|---|---|---|
| Command queue (`lib/Hoymiles/src/queue`, `lib/ThreadSafeQueue`) | a deque of owned command objects under a mutex | push, pushPriority, pop, front, removeDuplicatedEntries, removeAllEntriesForInverter, countSimilarCommands | every task, through the radio |
| Radio engine (`HoymilesRadio*.cpp`) | `_busyFlag`, rx timeout, the command at the front, rx ring buffer | enqueCommand, handleReceivedPackage, sendEsbPacket, sendLastPacketAgain, sendRetransmitPacket | queue, inverters |
| Inverters and parsers (`inverters`, `parser`) | fragment buffer, counters of retransmits, the status of the last limit and power command, decoded values | send...Request, addRxFragment, verifyAllFragments | radio, power limiter |
| Polling (`Hoymiles.cpp`) | next inverter, timers, watermarks | loop, pollInverter | inverters |
| Power limiter (`PowerLimiter.cpp`) | battery state, targets, inverters, the predictive model, persisted runtime state | loop, updateInverters, sync and advance of the ledger | meter, inverters, chargers |
| Inverter update (`PowerLimiterInverter.cpp`) | target and in-flight limit and power state, start of the update, back-off, count of time-outs, assumed output | update, retire, setters of targets | inverters |
| Predictive control ledger (`PowerLimiterPredictiveControl.cpp`) | per actuator a safe and a requested setpoint; the ledger of requests | queue, mark dispatched and sent, discard, settle, prune, forecast | power limiter |
| Solar, battery, smart buffer, overscaling inverters | none beyond the update | arithmetic of setpoints | power limiter |
| Flexible load, operation profiles | stage machine; active profile, persisted | MQTT and meter handlers | power limiter, MQTT |
| Grid chargers (Huawei over CAN, Trucki) | output target, hardware queue, receiver task | setters, loop | power limiter, CAN task |
| Battery, solar charger and power meter providers | last decoded values and their times | frame handlers | power limiter |
| Configuration | one record under a reader/writer guard | read, modify, serialise | all |
| Network, restart, MQTT, HTTP, web server | connection state, timers | event handlers | all |
| Data store, display, LEDs, logging, web interface | derived values | formatting | none |

What is hard in it, and what must hold:

* **Radio engine and queue.** Requests come from several tasks while the main loop
  is anywhere in its own code. The mutex covers single queue operations only:
  `isQueueEmpty()`/`front()`, "answer, then `pop()`" and "is PENDING, then set
  PENDING" are several steps. A radio write blocks while `_busyFlag` still says
  idle. Answers are lost, late, partial, or belong to an earlier request. It
  must hold that the command the radio waits for is the one that was sent, that a
  status turns OK only for a transmitted command, that a limit waits for one other
  command at most, and that PENDING ends.
* **Ledger and inverter update.** A limit takes effect seconds after it is planned:
  it is queued, dispatched, answered, reached by the inverter and seen by the meter,
  and the planner keeps planning meanwhile. Commands fail, time out, are replaced
  in flight. It must hold that an answer is booked on its own request, that the
  chain of requests stays connected, that no transmitted request is forgotten, and
  that the forecast counts each pending effect once.
* **Inverter update.** A power state and a limit are brought to the inverter in an
  order that must never let it feed in without a limit; answers are told apart only by
  the time they came; a cycle that times out is repeated, then the inverter and at last
  the system is restarted. Once a day every inverter that is not solar powered is restarted,
  whatever is pending. It must hold that the answer to a limit is not missed, that a stop is
  not forgotten on the way, and that a reload of the configuration, which waits for
  pending commands, happens.
* **Configuration.** Every task reads the one record; only a writer under the write
  guard may change it, while the main loop sleeps in `ConfigurationClass::loop`. A
  writer that asks too late, or is the main loop itself, stops the firmware. The
  files are written outside of the guard by two tasks, and power may fail.
* **Operation profiles.** A store of profiles on flash and the configuration they were
  taken from must agree after every sequence of requests, failed writes included.
* **Grid charger.** The provider believes the PSU to do what it queued; commands are
  repeated, dropped, overtaken, or wait in the CAN driver while the PSU is away; three tasks
  give them, one of which takes no lock. It must hold that the PSU ends with the current
  queued last, and without output in mode OFF.
* **Others.** The runtime state of the limiter across restarts; the flexible load's
  stages; the wrap of `millis()` after 49 days.

`PROJECT.json` lists every component with its source files and every hazard with
its line.

## 2. Modules

| Module | What it models |
|---|---|
| `CommandQueue` | the queue's operations as operators on sequences; `FewBefore`, how many commands a limit may wait for |
| `HoymilesRadio` | the radio engine: tasks that issue requests, the main loop that sends and receives, the answers of the inverters |
| `MCHoymilesRadio` | the senders and small constants of the radio runs |
| `PredictiveLedger` | the ledger of one inverter with `updateInverters()`, the passes of `PowerLimiterClass::loop()`, `update()` for limit commands, the radio's answer, the inverter and the meter |
| `InverterUpdate` | `update()` and `retire()` of one inverter, power state and limit, with back-off, restart, reboot and the reload of the configuration |
| `ExclusiveAccess` | abstract: who may use the configuration, the main loop, nobody, or one writer |
| `ConfigGuard` | the write guard: counter, mutex, condition variable; implements `ExclusiveAccess` |
| `OperationProfiles` | extends `ConfigGuard`: the tasks of web server and MQTT that save settings and work on the profiles, in memory and on flash, with failed writes and power failures (but for the upload and deletion of whole files) |
| `HuaweiCharger` | provider, power limiter, the hardware interface with its task and send queue, the CAN driver, and the PSU |
| `CommandQueueTheorems`, `HoymilesRadioProofs`, `PredictiveLedgerProofs`, `PredictiveForecastProofs`, `ConfigGuardProofs`, `OperationProfilesProofs`, `HuaweiChargerProofs`, `InverterUpdateProofs` | theorems and proofs |

### 2.1 HoymilesRadio

A command object is an address of `Cmds`; `obj` says what is stored there, and an
address is free again when neither the queue nor a task owns it, so a command can be
destroyed while somebody holds a raw pointer to it. `pc` is the place of the main loop
in `handleReceivedPackage`: `CheckQueue` is `isQueueEmpty()`, `BeginTx` is `front()` and
the start of the blocking write, the `EndTx...` actions its outcomes, `RxEnd` the end of
an rx period with its resend, retransmit, failure and success. What is finished goes by
`PopFinished`, the `pop()`, and `ClearBusy`, the `_busyFlag = false` after it; the front of an
inverter that is gone by `TxInvalidInverter` and `PopFinished`. `call[t]` is the place of task t
in a request: the PENDING check has passed (`SetPending`), `_busyFlag` is read for the removal
or for the push (`ReadBusy`), and only then the queue operation locks the queue
(`InsertRemove...`, `Push`). `removeInverterBySerial` is `RemoveCommands`, `RemovedFront` (which
clears `_busyFlag`) and `EraseInverter`, with `Hoymiles._mutex` held. Steps of different tasks
interleave freely; steps of the main loop itself do not, because it has one thread (`LoopFree`).

Abstractions: time is not modelled, an rx period may end at any moment of a busy
radio; `sendCount` stops one above `MaxResend` instead of wrapping at 256; the
heap `Cmds` bounds the queue's length; from the front's serial number to the command itself
(two calls of `front()` in one branch) the front is read once; limit values are left out, and
with them the limit's kind: the code takes two limits of one inverter for the same parameter only
if they are of one kind (absolute or relative, persistent or not), so that the runs are about
tasks that each set limits of one kind; `RadioStats`, channels and the request
history are left out; fragments are reduced to whether all, some or none of an answer
arrived, and to which kind of request it belongs; a removed inverter does not come back.

### 2.2 PredictiveLedger

The chains of different actuators never meet in `activeChains()`, so the module has
one. `ledger` is a function of sequence numbers; `safe` and `requested` are the
actuator's two setpoints; `want`, `inflight`, `start`, `assumed` and `assumedUntil` are
the fields of `PowerLimiterInverter`. `at` is the place in the loop: `updateInverters()`
(`Update...`), then possibly `AdvanceLedger` (sync, advance, stale discard, prune,
sync), then the planner (`Plan`, `NoPlan`). Between passes the radio answers, the
inverter reaches limits, the meter and the inverter report, time passes.
`UpdateFailure` tests the time limit before it looks at the answer, as the code does.
`Forecast` is `forecast()` for this actuator: pairs of a prefix of the chain that the
meter may show and a longer prefix that may come true in the end.

Abstractions: the inverter is reachable and producing, its output follows its limit,
and only Setpoint transitions occur (no startup, standby, solar capacity probes or grid
charger); the planner is a free choice of setpoint, which includes whatever
`decideCorrection` decides; the pass's second `updateInverters()` is the first of a next
pass; the meter is valid; a limit takes effect after its answer and before
`TargetEffectAssumptionMillis` has passed, which is what the code assumes. The loop
turns many times in one unit of time, so `Tick` waits until a target has been taken up
and an answer read.

`strayed` is a history variable. It becomes true when (1) a command takes effect that
the limiter had given up, (2) a request is sent while an older one is still unsent, or
(3) a queued request is discarded as stale. The code keeps no record of these events,
and the two properties that depend on the whole chain make no claim after them; the
hazards in `PROJECT.json` say what then goes wrong. `ForecastSound` makes none either while
a request in flight stands behind an unsent one (`Overtaking`, see the findings): that is
(2) before the answer has come.

### 2.3 InverterUpdate

`u` is the object: `power` and `limit` are the targets, `inPower` and `inLimit` the
commands in flight, `started` the ticks since the start of the cycle, `timeouts` the
failure counter, `backoff` the ticks until commands are tried again, `assumed` the
assumed output (zero or not), `known` where its current limit is known from (`getCurrentLimitWatts()`:
the library's, lost with a restart, or the last target, which stays), `reboot` that
`triggerRestart` was called; nothing is modelled of the second until the system then restarts.
`h` is what the library keeps: the status of the last limit and power command, whether each is
newer than the start of the cycle (`limNew`, `powNew`, the comparison of time stamps), the
power commands in the radio's queue, and the last on/off command it delivered (`act`, a history).
`mode` is where `reloadConfig()` is.

A call of `update()` is one step: `Wait`, `Skip`, `GiveUp` or `Proceed`, after the early
returns of the code, and `Proceed` composes the lambdas `switchPowerState` and
`updateLimit` as functions on states in the order of the code. The planner sets any
target that its code can set, at any time; the library answers at any time or never.
`ScheduledRestart` is the daily restart (`autoRestartInverters`): it queues a restart whatever is
pending and resets nothing, for all but solar inverters (`Solar`).

Abstractions: one inverter, with exclusive control of it (all commands come from the
limiter; `HoymilesRadio` has the other writers); an output is zero or not; the limit the
inverter applied is not followed, only whether it is known; whether the inverter can be used
(reachable, commands enabled, grid, daylight) is a free choice of each pass, so
`Skip` is always possible; what a smart buffer does besides is not modelled; the restored runtime state, diagnostics and the wrap of the
back-off's time stamp are left out. The ledger's side of the same function is in
`PredictiveLedger`.

### 2.4 ConfigGuard, ExclusiveAccess, OperationProfiles

`ConfigGuard` has one action per lock-protected block of `ConfigurationClass::loop` and of
the guard's constructor and destructor. `writers` is the counter, `asleep` who waits at the
condition variable, `woken` who was notified, `lock` who holds the mutex, `main` where the
main loop is: in its own work, serving, or hanging in a guard of its own. `Serve` is the
`notify_all` and the wait that releases the mutex, `Resume` its end. The condition variable
has no spurious wakeups here.

`OperationProfiles` adds the tasks. Settings are one value that is `Torn` while the web
task sets them field by field. `cfg` is the record in memory, `file` and `store` the files,
`tmp` the temporary file of `writeStore`, `saving` what a task has serialised into a
file it has not closed: LittleFS gives a file its new contents at the close. `op` and `at` are the
web task's request and its place in it, `mqtt` the place of the MQTT task. A failed
write of the configuration leaves the file as it was, or empty. `Crash` is a power
failure: what is in memory is lost, what was closed is kept, and over an empty file `setup()` writes the
defaults.

`events` is a history of what a property excuses: a `late` writer (the guard may hang),
`drift` (MQTT changed a setting, the active profile was deleted, or the store could not be
written: no profile holds what is in force), `unsaved` (a write of the configuration failed, or two
tasks wrote at once).

Left out: names of profiles, the recovery of a store that does not parse, failing to
open a store that exists, `notifySettingsChanged`, migrations; and `WebApi_file.cpp`, by which the
web task replaces (upload) or deletes configuration file and profile store as files, beside
everything else, usually before a restart: the claims on files are about an operation without it.

### 2.5 HuaweiCharger

`p` is the provider: mode and `_oOutputEnabled`, what it believes of the output. `main` and
`task` are the calls in progress of the main task (provider loop, which takes the provider's
lock, or power limiter, which does not) and of the other tasks (MQTT, web server, with the lock,
hence one at a time). A call is a sequence of steps: the test of the mode before a
current (`Check`; one step with the call's start where the lock keeps the mode), `enableOutput()` or
`disableOutput()` as test of the belief, queued command and new belief (`Test`, `SwitchOutput`,
`NoteOutput`), the current (`SendCurrent`), `_mode` (`SwitchMode`). The limiter's steps
fall between those of a locked call.

`hw` is the hardware interface: send queue; `left`, the rest of the loop in
`processQueue`, with its mutex held; the multiplier (currents can be sent), whether the PSU is `known`
and its settings sent. `Pass` is a turn of the task's loop up to `processQueue`, `Sent` and
`NotSent` are one round of that. A command counts as sent when the TWAI driver
has the frame; `wire` is what the driver has not delivered, in order, whether the PSU is
away or not; `Deliver` is the PSU's acknowledge. `PowerLoss` leaves the PSU with its defaults.

The PSU's settings do not interact here, so a behaviour follows one of them (`kind`: the
current, or whether it produces), chosen at the start; commands for others, and
requests, are the same to it (`ours` is FALSE). `psu` is what it was told, `last` what it was asked
for last.

Abstractions: a current is zero or one of `1 .. MaxCurrent`; whether a time has run out is a
choice at each pass, as are answers of the PSU, which may come late or in part; of the
automatic control the current it chooses is a free choice; the five commands of `sendSettings()`
are one, voltages, limits and fans one kind; the optional power pin is not configured; CAN is
the TWAI driver (the MCP2515 is another).

What `CurrentFollows` and `OffIsOff` excuse, each a way in which the code loses what was asked:
a command dropped after its last try, a current dropped while there is no multiplier, and
`setProduction`, which leaves the provider's belief as it was (`last` is None, until the next
one); a loss of power (`psu` is None); and, for `OffIsOff`, two calls that switch the output at
once, or the limiter that goes on to switch it on after the mode was changed (`Raced`).

## 3. Runs

| Run | Instance | Shows |
|---|---|---|
| `radio_users` | CMT, 2 inverters, 2 commands; the limiter sets limits of one, a user switches the other | the busy radio waits for a front it has sent (`InFlightIsFront`), OK is only reported for transmitted commands (`OkOnlyAfterSend`), every PENDING has its command (`PendingHasCommand`) and ends (`PendingResolves`) |
| `radio_nrf` | NRF, 1 inverter, 4 commands; the limiter sets limits and switches, a user switches and restarts | the command being sent stays in the queue, also when the inverter is removed (`SentCommandIsQueued`); every PENDING has its command (`PendingHasCommand`) |
| `radio_cmt` | CMT, 2 inverters, 3 commands; a user sets the limit of one and switches the other, which the limiter polls and switches | `front()` never meets an empty queue (`FrontExists`), a limit waits for one other command at most (`WaitsForOneOnly`) |
| `ledger` | 3 setpoints, 3 requests, 4 moments, effect 2, update limit 1, stale age 1, 2 limits still to be reached | the requested setpoint follows the ledger, answers are booked on their requests, the chain is connected, transmitted requests stay, the forecast contains every outcome |
| `inverter` | 1 battery inverter, limits 1 and 2, restart after 1 and reboot after 2 time-outs, daily restarts, 2 queued power commands | answers to limits are not missed, no on without its limit, stops are kept, a reload happens (`AnswerBooked`, `LimitBeforeOn`, `StopKept`, `ReloadHappens`) |
| `profiles` | 3 tasks, 2 settings, 2 profiles, 1 power failure | the guard gives ownership in turn and hangs in two cases only, nobody sees torn settings, the store names an active profile it has, profiles and settings on flash are what is in force (`OwnedInTurn`, `HangsOnlyIfLate`, `WriterServed`, `NoTornSettings`, `ActiveExists`, `ProfilesKept`, `SavedIsCurrent`, `ActiveInForce`) |
| `charger` | currents 0 and 1, 2 tries, 2 queued commands, 1 frame in the driver | no `front()` of an empty queue, the PSU ends with the last current and is off in mode OFF (`FrontExists`, `CurrentFollows`, `OffIsOff`) |
| `radio_front_race` | both tasks set the limit of one inverter | violates `FrontExists` |
| `radio_pending_lost` | NRF, a task sets limits | violates `PendingHasCommand` |
| `radio_ok_unsent` | a task sets a limit during the write of a poll | violates `OkOnlyAfterSend` |
| `ledger_hole` | 3 setpoints, 2 requests | violates `NoImpossibleState` |
| `inverter_failures` | as `inverter` | violates `FailuresCounted` |

Every run also checks, or shares its module with a run that checks, the module's type
invariant. Mutants of the mapped definitions, such as a dropped guard or a missing
reset, show for each property that a plausible bug would break it.

Why the bounds are enough. Radio: two inverters let an answer of one meet a command of
the other; three or four commands give a front on the air, a duplicate behind it and a
request in progress (two, where liveness is checked, a front and a request); one resend and one retransmit are enough to run out of each.
Ledger: three requests give a settled, a sent and a queued one, or one that is replaced
in flight; the third setpoint tells a forecast that misses an outcome from one that has it
by chance (3 424 999 states). Both limits are exceeded in the second moment after; a request
grows stale, sent ones beside it or in flight itself, because the update restarts its limit
with each answer. `Wrap` is larger than the last moment: the run keeps away from the wrap of `millis()`.

Inverter: a command and a later one beside it, one restart, and the reboot; a cycle
times out with the first tick, but may take any number of steps before it, so that a tick is
the 30 s limit, and one more ends the back-off. A single limit of the planner besides the lower one is enough
for a target that replaces another in flight (874 476 states). Profiles: two
settings tell old from new, two profiles active from not; the second power failure would
start where the first left (823 247 states). Charger: two commands are an old and a newer
one of a kind, two tries one repetition and one drop; with the frame in the driver three commands are
under way (4 690 566 states). No two frames overtake each other in the driver, so that one is enough.

`CHECK_DEADLOCK FALSE`: the radio system stops when all inverters are removed, the
ledger when its bounded time is over, and the firmware of `profiles` when the guard hangs.

Refinement. `ConfigGuard` implements `ExclusiveAccess` (`Access`, an INSTANCE with the owner
read off `main` and `lock`); the `profiles` run checks it as `OwnedInTurn` with all that the tasks do,
where a power failure hands the configuration back to a fresh main loop.

Fairness. `OperationProfiles`: the main loop and the two tasks go on when they can, since
each has a FreeRTOS thread of its own: weak fairness of `MainLoop`, `WebStep`, `MqttStep`; none
of requests. `InverterUpdate`: the loop comes by again and again, so weak fairness of a pass with
nothing to do, of the start of a cycle and of `GiveUp`; time passes; the radio
gets every power command off its queue (`PendingResolves` of `HoymilesRadio`, which says so unless
limits keep coming; a cycle sends its limits one at a time); a reboot that was asked for happens. No
fairness of `AnswerLimit`, of planning, or of the passes in the middle of a cycle, which
wait for answers. `PredictiveLedger` and `HuaweiCharger` have no liveness
property. `HoymilesRadio`: a task finishes a request it has begun, and a write
ends, and so does a removal: weak fairness of `TaskStep`, `Tx` and `Removal`. `CheckQueue` and the end of an rx period are
turns of the main loop that other work of the same loop may put off but not forever,
since the scheduler calls the radio once per round and a timeout is a deadline: strong
fairness of `CheckQueue` and `RxEnd`. Nothing is assumed of inverters, of the issuing
of requests, or of successful transmission.

### Findings

Five runs are expected to find a violation, each of what a document, comment or test
of the repository says; `PROJECT.json` quotes it.

* `radio_front_race`: `isQueueEmpty()` and `front()` are separate, and the PENDING check
  is separate from setting PENDING, so two writers of one inverter's limit can empty the
  queue in between. `ThreadSafeQueue.h` warns of this race with `pop()`.
* `radio_pending_lost` (NRF): the status is OK before `pop()`; a limit queued in
  between replaces the finished front and is popped in its place. It is never sent
  and stays PENDING. (On either radio the same comes of a limit of another task that goes by a
  `_busyFlag` read too early, or between `front()` and `pop()` for an inverter that is gone.)
* `radio_ok_unsent`: a limit queued during the write of a poll goes in front of it and
  takes over its rx period; a late answer acknowledges a limit that was not sent.
* `ledger_hole`: a request for 3 waits unsent (queue congested), a request for 5 based on
  it is sent and acknowledged, and `discardQueuedRequests` drops the first. The
  remaining delta of +2 is added to a meter that still shows 7. The document of the
  predictive control names this very state as one that must never appear. The discard
  is followed by settlement within the effect time, so the error lasts seconds.
* `inverter_failures`: when a limit command fails, `updateLimit` calls `updateFailure()`, which
  counts, backs off and returns false, "not busy"; `update()` then ends the cycle as a
  success and sets the counter to zero. The header says the counter tracks commands that
  "timed out *or* failed"; failed ones alone never restart the inverter.

* The same cause before the answer comes, excused by `ForecastSound` as `Overtaking`: the output
  is 7, the request for 3 waits unsent and the one for 5 is in flight.
  `possibleFinalPrefixStates` counts every request before the first dispatched one as sure, so
  the forecasts are 3 and 5. If the command for 5 fails, both requests are discarded and the
  output stays 7, which was not among them.

Met while modelling and excused by the properties, as no document of the code says otherwise
(the hazards without a property in `PROJECT.json` are these and more):
a writer that enters the guard while the main loop already waits for the writers
before it is counted but not notified, and both wait for ever; `rememberPreferredWifiAp` takes the
guard in the main loop; between the removal of the store and the renaming of the temporary
file a power failure costs all profiles; the profile that becomes active when the active one
is deleted is not applied; the answer of a restart is taken for that of a power command beside it;
in the charger `OFF` may leave the PSU on when the limiter starts it at the same time, after a
dropped command, and after `setProduction`.

## 4. Proofs

The theorems hold for all constants that satisfy the named assumptions
`RadioAssumption`, `LedgerAssumption`, `GuardAssumption`, `ProfilesAssumption`,
`MissingAssumption`, `ChargerAssumption` and `InverterAssumption` (types of the constants, the null values outside the value sets, at
least one time unit of effect, one current and one try, the order of the inverter's thresholds).

* `TypeCorrect`: `TypeOK` of `HoymilesRadio` is inductive; one lemma per group of actions.
* `WaitsForOneOnlyCorrect`: a limit or a power-off never has two ordinary commands before it,
  for any senders, on either radio. `WaitsForOneOnly` is inductive relative to the types and
  `OwnedInv` (below). It does not follow the order the code aims at, high priority before all
  others but a front on the air: a push may go by a flag that is out of date, so that
  the command before it is not on the air. The lemmas of `CommandQueueTheorems` say what each
  queue operation returns and that it keeps `FewBefore`, for queues of any length:
  `KeepAtProperties` (removal by position is a subsequence; by counting the kept
  positions, without recursion), `PushPriorityProperties`, `PopProperties`, `PushFewBefore`.
* `LedgerTypeCorrect` and `RequestedSetpointCorrect`: inductive invariant `LedgerInv`, the
  types with "a pending answer has a limit" (needed for what the inverter receives),
  and `RequestedFollowsLedger`. The central lemmas: the greatest of a nonempty
  set of sequence numbers exists (`MaxProperties`, from the well-foundedness of Nat),
  a request that changes state among queued and sent leaves the newest target alone
  (`ChangedRequest`), and a new request is the newest (`QueueRequestProperties`).
* `DispatchedRequestCorrect`: `DispatchedIsInFlight` is inductive relative to `LedgerInv`.
  A command is dispatched only when none is in flight, and then no queued request is
  marked (`IdleNoneDispatched`); booking an answer removes the one mark
  (`MarkSentNone`), also when another request has the same target.
* `TransmittedRequestCorrect` assumes `MaxTime + Effect < Wrap`: the code compares
  `millis()` values without regard to their wrap, and the theorem is about the time
  before the first one. It follows each operation on the ledger to what it does with a
  sent request (`KeepsSent`): marking, booking and discarding touch queued ones only,
  pruning takes what is settled, and settled means due.
* `ChainCorrect` needs no such assumption. `ChainInv` is the chain between neighbours
  (`Linked`) with the order of sending (`SentFirst`: no request is sent while an older one
  is unsent), until the history strays. Settling takes a prefix of the chain off and
  discarding a suffix; the lemmas about the neighbour before a request
  (`BeforeProperties`, `SameChain`) say that what is left is linked.
* `ForecastSoundCorrect`, of `PredictiveForecastProofs`, is the main result about the ledger. It
  assumes `MaxTime + Effect < Wrap` too, and holds for any setpoints, number of requests and
  number of limits under way at a time. Three parts:
  * Sums. `Change` is a fold over a set in an order `CHOOSE` picks. `AddsOne` shows, by
    the least counterexample in cardinality, that the order does not matter, so that one request can
    be split off any set; `StandingChange` that the deltas of a stretch of a linked chain add up to
    its ends. `Standing(l, basis, n, x)` says that x is where the chain stands before request n.
  * The world follows the chain (`Tracked`). The inverter's output stands at some n before
    which every request was transmitted; the limits it has still to reach are the transmitted
    requests from n on, in order and each with its own time (`Ahead`). What the last meter sample saw
    stands at some n as well: requests before it were sent by then, and all that must have
    had their effect by then are among them (`Shown`). `GivenStanding`: where the commands
    lead in the end is where the transmitted requests end.
  * `ForecastInv` keeps this through every action. It needs all earlier ledger invariants,
    that a target is wanted exactly while a request is queued (`Wanted`), that a command in flight
    has its marked request (`Flight`), and that the output `update()` falls back to is where the
    commands lead (`Assumed`). Between an answer and the pass that reads it the inverter has a command
    the ledger does not count as sent; the tracks then count the marked request too. If
    that request overtakes another the history will stray at the next pass (`Doomed`, which stays
    true), and the invariant claims nothing more.
  An outcome is then in the forecast because the sample's prefix is one the planner thinks
  possible, the outcome's prefix is one it thinks final, and the deltas between them are
  the difference of the two setpoints (`ForecastHas`).
* `CommandsApart` holds for any senders: no command stands twice in a queue, is held by two
  requests, or is queued while a request still holds it (`OwnedInv`), and the main loop is
  where it says (`PlaceInv`). The theorems about the front, below, rest on it.
* `InFlightIsFrontCorrect`, `SentCommandIsQueuedCorrect` and `OkOnlyAfterSendCorrect` assume
  `OthersAppend`: tasks other than the main loop send no command that removes older ones
  or goes to the front. The code does not enforce this: the web interface sets limits,
  and `radio_ok_unsent` shows what happens then. The theorems say what the discipline
  buys, for any number of tasks, inverters and requests. `FrontInv` adds to the front of
  a busy radio that the loop's own request does not run while a command is on the air.
* `PendingHasCommandCorrect` assumes `OthersAppend` too, on both radios: a limit of another task may be
  popped unsent (`radio_pending_lost`, and `TxInvalidInverter` between `front()` and `pop()`;
  `DropsUnknown` says that without such limits what is popped there is of a removed inverter). `PendInv` says of each PENDING status which command will end it: one
  in the queue, the one a request still holds, or the finished front before its `pop()`.
* `FrontExistsCorrect` assumes `OnlySender`, which is weaker: another task may set the limit
  of an inverter if nobody else does. `SoleInv` says what the one sender has seen
  (`Asks`), where the loop stands with the queue (`LoopPart`), and that a limit is in it at
  most once. `radio_front_race` is the run without the assumption.

* `GuardExclusive` and `GuardImplementsAccess`: `GuardInv` says that a task sleeps, is
  woken or holds the lock, never two of these, that whoever does is counted, and that nobody is awake
  except while the main loop serves. Each
  action of the guard maps to one of `ExclusiveAccess` or to a stutter, for any set of tasks.
* `ConfigOwnedInTurn` lifts this to `OperationProfiles`, whose every action is one of the guard's,
  leaves it alone, or is a power failure.
* `HangNeedsLateWriter`: `HangInv` adds that, without a late writer, the main loop never waits for its own
  guard and that a serving main loop is woken by the last writer (`InTime`), and that
  each counted writer is asleep, woken or at work (`WritersTracked`).
* `ProfilesTypeCorrect`, `SettingsNeverTorn`, `ActiveProfileExists` rest on `ProfilesInv`: the web
  and MQTT tasks have the guard at the places where they write, `Torn` exists only inside,
  every store and document is sound (its active profile is in it, no torn values), and the
  document an operation works on has been loaded. The operations on lists (delete the first with
  an id, append, replace a value) are lemmas of their own. Any number of profiles,
  settings and power failures.
* `SavedIsCurrentCorrect`: `SavedInv` says who has the file open, that MQTT writes what is in
  force since it keeps the guard, that the web task, which writes without it, may write
  stale settings only if MQTT has its own writing still before it, and that two writers
  at a time are noted.
* `ProfilesKeptCorrect`: `StoreInv` follows the document through `writeStore`: it is the store
  until it is changed (`Loaded`), has all profiles of the store but a deleted one when it is
  about to be written (`Ahead`), is in the temporary file before the store is removed
  (`Written`); ids stay unique (`AllUnique`). `MissingAssumption`, that no file is not a
  store, is needed here.
* `ActiveInForceCorrect`: `ForceInv` says which of store, document and applied profile holds
  the settings in force at each place. A power failure needs `SavedInv` too: what is
  read at boot is what was in force. That renaming or deleting another profile leaves
  the active one's settings rests on the unique ids (`DeleteProperties`).
* `ChargerTypeCorrect`, `QueueFrontCorrect`, `CurrentFollowsCorrect`, `OffModeCorrect` rest on `Inv` of
  `HuaweiChargerProofs`. `CurrentFollows` and `OffIsOff` speak of nothing being on its way; the
  strengthening `Follows` says that the last command of the followed kind in the queue, else in the
  driver, carries what was asked last, or else the PSU has it. Lemmas say what appending, removing
  and repeating at the front, and handing over to the driver do to it (`AppendOurs`,
  `AppendOther`, `TailOurs`, `RepeatOurs`, `SentFollows`, `DeliveredFollows`): a command that was not sent stays
  before the newer ones, so that repeating it is harmless. `LockKept` says that
  locked calls exclude each other and keep the mode they tested; `SwitchKept` that, unless the
  calls raced, what the provider believes is what was queued last, and what it is in mode OFF. The proof has one lemma for a step of a call, used
  for both (`StepCall`, `StepMode`), and one per action of the interface's task.

* `InverterTypeCorrect` and the three step properties of `InverterUpdate`.
  `StopKeptCorrect` rests on `Ours`: the on/off command in flight is the newest one the radio has or
  had, with only restarts behind it in the queue. So it does not
  matter that the answer of a restart, scheduled or after time-outs, is taken for that of the stop.
  `AnswerBookedCorrect` needs `Timed` (an answer is new in a cycle only, a limit in flight is still a
  target) and follows a new answer through `update()`
  until it is booked (`Sure`, `Books`). `LimitBeforeOnCorrect` and `StopKeptCorrect` follow targets
  and commands through the same operators (`WorkSendsOn`, `WorkStops`).

Only model-checked: `PendingResolves`, `WriterServed` and `ReloadHappens` (liveness is out of
the prover's reach). Every invariant and every step property that a passing run checks is proved.

Can the hypotheses be met? The senders of `radio_users` and `radio_nrf` satisfy `OthersAppend`,
those of `radio_cmt` `OnlySender`, and the constants of `ledger` `MaxTime + Effect < Wrap`; in the
firmware that is the time until `millis()` wraps, 49 days after the start.

## 5. Plan

Done so far: the radio engine, the ledger, the inverter update, the write guard with the
operation profiles, the Huawei charger. What is left, in this order:

1. Proofs: the radio's command statuses as a refinement of an abstract "asked, pending,
   answered or given up" per inverter and kind of command.
2. `PredictiveLedger`, more of it: startup and standby transitions, solar effects that may
   be partial, the grid charger and the exclusion of charging and discharging
   (`actuatorMayBePhysicallyActive`); a run across the wrap of `millis()`.
3. `InverterUpdate` composed with `HoymilesRadio`, as the only writer of an inverter, against an
   abstract "one command at a time, answered or given up".
4. The charger's interface alone, small enough for liveness: a PSU that comes back is
   found, against requests that move the time of the last one.
5. `FlexibleLoad` with its stages; `Polling`.
6. `RxFragments`: fragment buffer, ring buffer between interrupt and loop, retransmit
   requests; refines the `ReceivePart`/`ReceiveAll` of `HoymilesRadio`.
7. The VE.Direct frame machine, the Trucki and Zendure providers.

## 6. Not modelled

Decoding of frames (inverters, batteries, meters, chargers), JSON, topics, pages and
display: data layers without the concurrency or history a model checker is good for.
The distribution of power over several inverters and the battery thresholds: arithmetic
with floats whose stateful parts are planned above. Of the grid charger, how the automatic
control computes its current, and what a change of mode does to a stale target of the power
limiter. The web server's upload and deletion of configuration and profile store as files
(`WebApi_file.cpp`). Drivers and vendored libraries: external. The reasons per component stand in `PROJECT.json`.
