# A verification project for the ONVIF–Telegram alert bridge

TLA+ modules for the firmware in this repository: an ESP32-S3 that subscribes to
the events of ONVIF cameras, sends motion, tamper and signal-loss alerts to
Telegram, takes commands back from there and is configured in a dashboard. The
modules are written from the source; every definition that stands for code is
listed with its lines in `PROJECT.json` (`map`). TLC checks them on small
instances, TLAPS proves the theorems of the `*Proofs` modules for every value of
the constants.

    tlc -workers 2 -config RetryQueue.cfg RetryQueue      # model-check
    tlapm TelegramProofs.tla                              # prove

## 1. The system

### Tasks and shared state

| task | what it does |
|---|---|
| `loop()` (`src/main.cpp`) | reconnects WiFi, appends cameras added in the dashboard, heartbeat, digests, flushes the retry queue, watchdogs, polls Telegram commands, SD checks, carries out timed reverts. Watched by a 90 s task watchdog. |
| one task per camera (`src/camera.cpp`) | set-up, then passes: pull events, renew or retry the subscription, raise alerts, run the detectors |
| web server (`src/webserver*.cpp`) | one request at a time: dashboard pages, saving and deleting cameras, mute all, settings |
| background jobs (`include/background_job.h`) | short-lived: test alert, connection tests, discovery, WiFi scan, checking or erasing the card |

They share `g_cameras`/`g_cameraStates` (a configuration is written by its own
camera's task only; a `CameraState` has a lock and a list of the fields under
it), the retry queue, the multi-camera window, the hand-over slot for a new
camera, one TLS session to Telegram (`TelegramNetLock`, 45 s), the SD card, and
flash storage (NVS). RAM is lost on a reboot; NVS is not.

### Components, what makes them correct, where they are modelled

| component | state | correct when | module |
|---|---|---|---|
| retry queue | `g_queue`, `g_nextId` | no alert lost but by delivery, age, displacement; drained | `RetryQueue`, `AlertOutbox` |
| alerts | `lastAlert`, `digestArmed`, counts; the shared window | one cooldown for all kinds; every digest belongs to one sent alert; windows end | `MotionAlerts` |
| mute | `alertsEnabled`, `scheduledRevert*`, preference | a command stands until the next or its own timer; mutes survive reboots | `AlertControl` |
| live configuration | stored list, slots, staged edits, tasks | what is stored is what is monitored, by one task each | `LiveCameras` |
| contact | `lastContactMs`, `lastSubscribedMs`, `retryDelayMs` | OFFLINE only for silence; a deaf camera is noticed | `CameraContact` |
| command polling | `lastUpdateId`, restore arm | a command is not lost, `/reset` is not repeated, a file restores only if asked for | `CommandPoll` |
| hardware settings | settings in NVS, claimed pins | no two features drive one pin; what the pages accept starts | `HardwareSettings` |
| camera and user store, import | NVS keys, chunk by chunk | a list is one that some save meant, no save undoes another, keys are unique, a restore undoes an import | `ListStore` |
| record formats, forms | versions of a record, a form's fields | every version reads back; a form stores values in range, and saving it as shown keeps what a form stored | `RecordFormats`, `SettingsForms` |
| WiFi | credentials in NVS and RAM, retry due time | passwords stay with their networks; the board comes online | `WifiLink` |
| watchdogs | outage clocks, relays, confirmed mains | the power is cut for outages that lasted, spaced, and restored | `RelayWatchdog` |
| SD card, snapshot history | files, `sdActive()`, PSRAM ring | bounded, the first by name goes first, SD is given up only after a fault | `SnapshotStore` |
| web server, jobs | limiter table, login, job states | a lockout holds; the login is whole; a job ends | `Dashboard` |
| firmware update | image states, marker, outcome | a rollback is reported | `FirmwareUpdate` |

`PROJECT.json` (`components`) lists all parts, with the ones not modelled and the
reason, and (`hazards`) what is hard to test in this code, at its line, with the
properties that are about it.

## 2. The modules

### RetryQueue, AlertOutbox

`AlertOutbox` is the promise: an alert stays pending until Telegram accepted it,
it grew too old, or `Capacity` newer ones were submitted. `RetryQueue` is
`src/telegram_retry_queue.cpp`: `Broadcast` (a failed send queues the text,
evicting the oldest), `FlushStart` (copy under the mutex), `FlushSend` (unlocked
send of the next entry), `FlushSettle` (`removeById`). `Broadcast`, `Tick` and
`LinkChange` fall between any two steps of a flush. A send may fail with the link
up, for any reply but 200 and again each time; its reply may be lost after Telegram took the message, so delivery is
at-least-once. `flush.at` is read once per flush, as in the code. A reboot empties
the queue, which is `Init` again.

Refinement: `issued` is `nextId - 1`, `pending` the ids in the queue, `tooOld` the
messages past their age. The flush is invisible except where it accepts or
removes.

### MotionAlerts

One camera's task in full, with `pc` following its pass: pull, motion or pet
(`triggerMotionAlert`), the window note, tamper, signal loss
(`beginCameraAlert`), digest check, window check. Mute, subscribers, quiet hours,
the snapshot URI and the pet setting are inputs of the step that reads them
(`Env`), because other tasks may change them at any time. Time stamps are ages,
`Tick` falls between any two steps. Other cameras meet the task in the shared
window only. The history variable `photo` has the age of the last alert sent and
whether a later one was withheld by quiet hours.

### AlertControl

One camera's mute. A command is two steps, the write under the lock and the save
outside it, which may be refused unnoticed, for each of `loop()` (Telegram) and the
web server; a due timer is read, then carried out under a second lock. `Restart`
restores the preference and drops the timer; `Respawn`, a camera enabled again on the
running board, restores it and keeps the timer. History: `contended` says that the
last write came while the other task had yet to save, `lost` that the last save was
refused; `asked` is what the last command asked for, and `overtaken` that it came
while a due timer, already read, was about to be carried out.

### LiveCameras

The dashboard against a running board. A slot has its configuration, the staged
one, the stop flag and two task counts (created but not yet in the loop, and
running). Web steps: `WebAdd`, `WebEdit` then `WebStage` (the store is written
in between, slowly), `WebDelete`, `WebEditAll`. `loop()`: `TakeNew`, `AppendNew`.
Camera task: `TaskStart`, `TaskStop`, `TaskReload`. Task creation may fail; a
save the store refuses changes nothing, except that `/delete` does not look. The
history variable `orderly` says that each request came when all was settled, and
that no name was added that has had a slot since boot;
`told` has the names whose user got a message that monitoring did not start.

Not in it: renames on the running board (in the store they are in `ListStore`);
task creation failing at boot.

### CameraContact

One camera's task against the clock, with the detectors, the backoff rules of
`lib/backoff` and the subscription rule of `lib/subscription_health`. The outcome
of SOAP calls is an input: answered or not, subscription kept or not
(`SubscribeOutcomes`, `RenewOutcomes`, `PullOutcomes` say which pairs the code
allows). Another task may fetch snapshots, as often as it is asked, which suspends
polling, send them, and write them to the SD card, which moves `lastContactMs` by the
time it was blocked; the camera's own task does the same after a photo. One task at a
time is taken to do so. A negative age is a stamp in
the future, which the unsigned subtraction reads as a huge age
(`AtLeastThreshold`). `unanswered` is a history variable: the last request to the
camera had no answer, or none could be made for want of WiFi; `other.fetches` counts
the fetches since the camera's task last polled.

`AnsweringIsNotOffline` bounds the silence of an answering camera by `LongestSilence`:
the longest delay of a retry, half the threshold by the clamp of `lib/backoff`, and
three passes and a fetch, that is four times what one of them may take. The code
enforces no threshold that leaves room for it. With the default of five minutes there
are 37 s for each; a SOAP call and a download time out after 10 s (`HTTP_TIMEOUT_MS`,
`include/config.h`), but a pass that waits for `TelegramNetLock` (45 s) can take longer.
The bound is exact: one tick less is refuted by TLC (the camera is asked, the retry put
off, a fetch begins just before the next attempt, and the pass that skips for it begins
as it ends).

### CommandPoll

`pollTelegramCommands` with `lastUpdateId` in three places: in RAM (`last`), in
NVS (`stored`) and as what Telegram has been told to forget (`confirmed`).
`PollStart` asks for and gets a batch, `HandleOther`, `HandleRestore`,
`HandleFile` and `HandleReset` take its updates one by one, `PollEnd` saves.
`PollFails` is every early return before the answer; the request may have
reached Telegram. A crash falls between any two steps and NVS may refuse the id
unnoticed. An update is its sender and what it asks for; whatever changes none
of this state, a refused or rate-limited command included, is "other". The
`/restore` arm has the age of its stamp, and `WithinWindow` is the code's signed
comparison on a clock of `ClockRange` values, wrap included.

### HardwareSettings

The settings of internet watchdog, bridge watchdog and power monitor. A page
save (`PageSave` with the route's checks, then `PagePut` per key) and an import
(`ImportStart`, `ImportSection` or `ImportSkip`, `ImportPut` per key) run on
different tasks and interleave; a put may fail, and an empty camera name makes
its put look failed. `Reboot`, also in the middle of a save, claims pins as
`initNetWatchdog`, `initBridgeWatchdog` and `initPowerMonitor` do (`BootPins`).
The keys that no property tells apart (polarity, threshold, pulse) are one key,
"rest", and the two camera names one. The history variable `plain` says that NVS
holds nothing but complete page saves.

### RecordFormats, SettingsForms

Pure definitions, used by `ListStore`. `RecordFormats` has the field layouts of a
camera, a user and the network settings and, for each schema version, the reader
as the sequence of fields it takes by position, with what a missing or blank
field reads as (`Fallback`, `ReadBack`). `EveryVersionReads` compares, for a
default record and for every record that differs from it in one field, what a
reader makes of an old text with the record that was written.

`SettingsForms` is what the edit pages show of a record and what a submission
stores: units, clamps, defaults for blanks, narrowing to the field, checkboxes
that are absent when off, the password that is never shown. `FormsRoundTrip` says
that stored values are in range, that saving as shown a record which a form stored
changes nothing, and that of a record which came otherwise, by an import or an older
firmware, the page keeps every value a form can store and settles the others with
the first save: a cooldown of 45.5 s becomes 45 s, a camera that is no longer listed
leaves a user's cameras.

Both are predicates on data, so TLC evaluates them at the first boot of
`ListStore`; behind them is no interleaving. The unit tests of the repository read
a record or two of each version; here every field of every version is told apart.

### ListStore

A list of records in NVS, either the cameras or the users (`kind`). A list is a
text of pieces, two per record, cut into chunks of `ChunkPieces`; a save writes
the chunks, removes surplus ones and the unchunked list of an earlier firmware,
then the count, then the schema version, one key per step (`PutChunk`,
`RemoveChunk`, `RemoveLegacy`, `PutCount`, `PutSchema`). Any step can be the last
before a reset (`Crash`), and any put may be refused, after which the save goes
on. `Edit` is add, update, delete or update-all: a load and a save under the
store's mutex, where a load that finds an old version or a new board saves
first. `Load` is any page's plain load, without the mutex, although it may save.
`Import` and `Restore` write the backup and then the list (`Apply`).
`BootLoad`, `BootSeed`, `BootEnds` are `setup()` with the seed cameras of
`secrets.h`.

A save counts as one write (`~Risky`) if it replaces one key's worth of current
records by another and nothing lies behind the count (`Leftover`): a first chunk
that a save wrote before its count was refused is removed by no later save of an
empty list, and reappears when a third save writes the count but not the chunk.

History variables: `allowed` has the lists that edits so far may have stored;
`mixed` says that a save of more than one key's worth was cut short, or that an
unlocked save met another one; `undo` follows one import and its restore.

### WifiLink, RelayWatchdog

`WifiLink` has the credentials in NVS (written key by key by `PutKey`, on `loop()`
or the web server's task, without a lock between them) and in RAM, the Network
page and imports (`SaveNetwork`), the attempt (`TryPrimary`, `TryBackup` with the
promotion of the backup, `Tried` with the backoff), the WiFi library's own
reconnect (`AutoReconnect`) and networks that come and go. A password is named
like its network, so that a mix shows. `retry.since` is the signed difference of
the code, which wraps at `Half`.

`RelayWatchdog` extends it with the watchdogs that `loop()` runs beside it: a
check that is good, waits, pulses or confirms (`CheckGood`, `CheckWaits`,
`CheckPulses`, `CheckConfirms`), the dashboard's test pulse (`ManualPulse`) on its
own task, the end of either pulse, and resets at any point. A pulse of the
internet watchdog takes the router's networks (`RouterNets`) out of the air, and
with them the link that `WifiLink` is about. `watched` chooses one watchdog per
behaviour: they share nothing but the link. History: `seen` has the ages of the
first failed check since the last good one and of the last automatic pulse.

### SnapshotStore

Photos of several cameras: on the card as a set of files, each with its camera, the
time in its name, its size and how much of it was written, and as a ring per camera
in RAM. Space is counted in units of bytes (`Units`, `Bytes`, `Free`). `Snapshot`
decides where a photo goes; `OpenFile` deletes what `Drops` says, by bytes and by
count, and creates the file; `CloseFile` writes it (two steps, since a reset may fall
between them, and the mutex is held over both). `ShowGallery` and `ReadPhoto` are
two requests of a browser: the second asks by age, and files move in between.
`BeginSweep` and `Sweep` are the retention sweep, camera by camera; `EraseAll`, a
failing log (`AppendFails`), `MarkFailed` after the mutex was given back and `Reset`
with the boot check do the rest.

Everything that is sorted by name in the code (what to delete, the listing, the newest
file) is sorted by the name's time in the model, and in any order among photos of one
time: a unit of time is what the names of one camera can tell apart, and what follows
the seconds in a name, `millis()` without leading zeros, orders nothing reliably.
The clock is unset at first, which names photos of 1970; `ClockSet`, `ClockSetBack`
and a `Reset` that loses it change what the next photo is named. At boot the card is
empty, full of photos of a camera that is gone up to the reserve (`Orphans`), or
holds small ones of a camera from before (`Left`).

### Dashboard, FirmwareUpdate

`Dashboard` is the web server as one task: the limiter's table as an entry for each
address, used or not, with the clock at which it was last seen; a new address takes
the place of an entry with the smallest of these numbers, as the code compares them,
also after the clock has wrapped (`Half`). `Guess` and `Visit` are wrong and right
logins (the stamp of a lockout that is over stays, as in the code), then come the
login's change key by key with its rollback
(`SaveLogin`, `PutUser`, `PutPass`, `LoginSaved`), the jobs (`StartJob`,
`FinishJob`, with the results each may have) and `Reset`. Requests are taken from
the end of `setup()` on. `agenda` bounds the kinds of requests in one behaviour.
History: `guesses` is what an observer of the requests alone expects of the
limiter; `accident` says that a save was cut short, or its rollback refused.

`FirmwareUpdate` has the upload, chunk by chunk, the boot checks, the marker and
the outcome. The Update library and the bootloader's rollback are external and
modelled from what this code asks of them. `Dashboard` composes it: an upload is
a request, a reset is one of the whole board.

## 3. What TLC checks

| run | shows | properties | distinct states |
|---|---|---|---|
| `retry_queue` | refinement of the outbox (no alert lost silently), emptied once WiFi stays up, by age alone if need be | `ImplementsOutbox`, `Drains` | 156 501 |
| `motion_alerts` | cooldown across kinds, digest bookkeeping, window, digests end | `DigestFollowsAlert`, `WindowHoldsCameras`, `CooldownSpacing`, `DigestCycleEnds` | 70 230 |
| `alert_control` | a command stands until the next or its own timer, the preference lags by one command | `CommandStands`, `PrefLagsOneCommand` | 785 |
| `live_cameras` | one task each, monitored as saved, a disabled camera falls quiet: for changes that settle, no name added twice since boot | `OneTaskIfOrderly`, `MonitoredAsSaved`, `DisabledGoesQuiet` | 71 365 |
| `camera_contact` | OFFLINE is silence, deaf cameras noticed | `AnsweringIsNotOffline`, `DeafIsNoticed` | 662 476 |
| `command_poll` | no command lost, repeats only after a failure, restores asked for, everything handled | `NoUpdateSkipped`, `RepeatsNeedFailure`, `RestoreWasAskedFor`, `EventuallyHandled` | 256 410 |
| `hardware_settings` | no pin claimed twice or unsafe, pages store what starts | `ActivePinsDisjoint`, `PagesStoreWhatStarts` | 1 909 976 |
| `list_store` | lists are whole, keys unique, a restore undoes an import, versions upgrade, forms keep | `SavesAreWhole`, `KeysAreUnique`, `RestoreUndoesImport`, `RecordsUpgrade`, `FormsKeepSettings` | 2 709 064 |
| `uplink` | passwords with their networks, the board comes online, power is cut rightly and comes back | `PasswordsBelong`, `ComesOnline`, `PoweredUnlessPulsed`, `EpisodeIsWhole`, `PulsesSpaced`, `OutageGetsPulse` | 897 456 |
| `snapshot_store` | the card's bounds, what goes first, no false failure, the ring, the boot check | `CardBounded`, `DeletionsAreOld`, `RingKeepsNewest`, `OffOnlyByFault`, `BootSeesCut` | 2 723 249 (cameras symmetric) |
| `dashboard` | lockouts, the login, jobs, rollbacks | `LockoutHolds`, `OnlyFailuresLockOut`, `LoginPairWhole`, `RollbacksTold`, `JobsEnd` | 858 906 |

`monitoring_never_starts` expects a violation. `src/main.cpp:223` logs that cameras
and web UI "will start automatically once loop() reconnects"; when WiFi is away
during `setup()` and the WiFi library reconnects between two of `loop()`'s attempts,
`loop()` sees no reconnect of its own and starts neither, for as long as the link
holds.

Every property of a passing run has a mutant: a variant of one definition, placed
before it in the same module, with a plausible bug (an off-by-one in the
eviction, a timer kept by a new command, a mutex not taken, ...). With it TLC
finds the property violated.

### Other places where code and comments part

They are in the models, and a property that denied one would be violated; the
properties above are stated so as to exclude them, in their comments:

- A lockout that is over is in force again 24.8 days later, without a failed login:
  its stamp stays and the difference is signed (`webserver.cpp:80`).
- "least recently seen evicted" (`webserver.cpp:54`): the stamps are compared plainly
  (line 127). When `millis()` has wrapped and the other entries are older than that,
  the address seen last has the smallest stamp: one that has just been locked out
  gives way to the next new address, and may guess again at once.
- A tamper alert moves `lastAlert` under an armed digest, whose elapsed time then
  underflows (`telegram_alerts.cpp:322`).
- "A new command replaces any pending timer" (`telegram_commands.cpp:245`): a
  dashboard command that comes after `checkScheduledAlertReverts` has read a due
  timer and before it takes the lock again is overwritten by that timer (line 701).
- "restore any /on or /off from before a reboot" (`camera_tasks.cpp:18`): the same
  line runs when a camera is enabled again on the running board, also between a
  command and its save, and after a save that was refused (`telegram_commands.cpp:165`
  looks at no result); the camera then goes back to an older state.
- Two quick saves of one camera start two tasks on its slot
  (`webserver_cameras.cpp:543`); a camera disabled and enabled again before its
  task has seen the stop stays saved as enabled and unmonitored (line 532).
- A camera deleted, added again and edited, each after the one before has
  settled, is polled by two tasks: the slot of a deleted camera stays, and the
  edit finds that dead one first and starts a task on it (`camera_tasks.cpp:77`).
  `orderly` is false from the second adding on.
- An SD delay added by another task puts `lastContactMs` into the future, and the
  camera is called OFFLINE (`snapshot_history.cpp:106`).
- Snapshots fetched one after the other suspend polling for as long as they go on,
  with no limit in `snapshot_fetch.cpp:80`: a camera that answers is called OFFLINE.
- "Kept free at all times; a write that would cross it prunes first" (`config.h:97`):
  a write deletes five files at most, only of its own camera, and goes on whatever
  that has freed (`sd_store.cpp:301`). A camera's first photo crosses the reserve by
  its whole size, one larger than the five oldest together by the rest. The bound that `CardBounded` states, the largest photo of each
  camera, needs `SizesAlike`.
- A name "sorts chronologically as text" (`sd_store.cpp:315`): it is local time, then
  `millis()` without leading zeros. In the hour that is repeated when summer time
  ends, after the clock was set back, after a reset that lost it, and within one second
  (999 sorts after 1000, and a reset starts again at 0), a later photo sorts before an
  earlier one. A write then deletes the newer one, the gallery shows them in that
  order, and the boot check opens another file than the one a reset cut short
  (`DeletionsAreOld` and `BootSeesCut` say so).
- The pass that re-subscribes after an outage reports the subscription lost
  (`camera.cpp:647`).
- An empty camera name makes a bridge save fail after its first key, under a page
  that says the setting was not changed (`bridge_watchdog.cpp:50`).
- A migration whose chunk is refused still stores the new schema version, whose
  reader drops the old records, while the log says that "NVS still has the old data"
  (`camera_store.cpp:167`).
- The flag that the seed cameras were added is put without a look at the result: if
  it is refused, the next boot adds seed cameras again that were deleted meanwhile
  (`camera_store.cpp:292`).
- A list of several chunks, or one being migrated, is torn by a reset
  (`camera_store.cpp:159`); the chunk of a save whose count was refused stays behind
  the count, where no later save looks for chunks to remove
  (`camera_store.cpp:163`); two saves of WiFi credentials at once mix networks and
  passwords (`wifi_connect.cpp:81`); the second rollback of one slot in a row is not
  reported (`boot_checks.cpp:136`).

### Bounds and why they are enough

- `RetryQueue`: capacity 2, four failed broadcasts, age limit 1 of 4 ticks: the
  queue is full twice over, evicts during every step of a flush, and entries
  expire before, during and after one.
- `MotionAlerts`: cooldown and window of 2 ticks, ages to 3, count to 2: several
  alerts, suppressed events in different ticks, a digest and a full window fit,
  and ages saturate where no comparison tells them apart. Two cameras.
- `AlertControl`: timers up to 3 ticks; both tasks, all steps, any number of commands
  and refused saves.
- `LiveCameras`: one name, two slots, two tasks per slot. Slots of different
  names meet only in the hand-over and the reserve; a name deleted and added
  again has two slots, which exercises both. Two names exceed eight million
  states.
- `CameraContact`: threshold 7, first delay 2, cap 9 (so the threshold, not the
  cap, limits the backoff), passes, fetches and SD writes of up to 1 tick; the
  threshold is just `LongestSilence`, so that any silence the detector reports
  counts. No SD write begins while the stamp already lies in the future (`MayWrite`):
  without this the stamps grow without limit.
- `CommandPoll`: two users, three updates, batches of two, one failure: a reset
  first, in the middle and last in its batch, an arm replaced by the other
  user's, a crash or a refused save at every point. Window 1 on a clock of 4: the
  arm is live, over, and live again after the wrap.
- `HardwareSettings`: one usable pin and one unsafe one; clashes are equalities,
  and a second usable pin adds nothing but disjoint cases.
- `ListStore`: two names, lists of up to two records, chunks of four pieces, two
  changes, one fault. A list fits one chunk exactly, the backup with its prose
  needs two, and an old, unchunked or half-migrated list, a new board and every
  older version occur. Two changes are an import and its restore, or two edits
  of two tasks.
- `Uplink`: two networks, backoff 1 to 2 on a clock of 6, threshold 2, one upset
  (a save, an import, a reset or a refused write). The due time goes once round
  the clock; `watched` "none" takes the changes of credentials, the others start
  with one known network.
- `SnapshotStore`: two cameras on a card of seven units with a reserve of four,
  photos of one or two units, a cap of 3, two deletions per write, a ring of 2; two
  photos while SD is active and three in all, times to 2, one fault, one setting
  back. Each limit binds somewhere: the cap, the need for bytes, the limit on
  deletions with bytes still missing, the reserve that is crossed, and a card that is
  full without a fault; the ring wraps; names get out of the order taken.
- `Dashboard`: three addresses and a table of two, two failures to a lockout of
  one tick, on a clock of four, so that stamps go all the way round and entries
  are evicted before and after the wrap (that lockouts double is left to the
  proofs: with two lengths the run is too large); two passwords; a job that waits
  for Telegram (jobs share no state); guesses by themselves, and of the others
  each pair that has state in common with the login or the restart.

Deadlock is checked in `motion_alerts`, `alert_control`, `camera_contact`,
`hardware_settings` and `uplink`. In the others the bounds on messages, changes,
photos, requests or time let the model stop.

### Fairness and why the code justifies it

FreeRTOS schedules every ready task, and every blocking call has a timeout, so
the steps a task has started are weakly fair, and so is time. In `CommandPoll`
likewise a poll succeeds in the end and a batch is taken to its end; in
`RelayWatchdog` this is `loop()`'s next step, the web server's save and pulse once
begun, and the tick; in `Dashboard` the end of a job whose task runs, since every
request it makes has a timeout. Nothing is assumed of users, of other cameras'
tasks, of WiFi, of a reset not to come, or of a camera. In `RetryQueue`
nothing is assumed of the outcome of a send: Telegram may refuse every one, and the
queue empties by age. Liveness properties have the stable link, the network in reach, the
lasting outage or the lack of a subscription as a premise.

## 4. What is proved

Eight modules hold theorems; each is for every value of the constants.

| module | theorem | property |
|---|---|---|
| `TelegramProofs` | `QueueTypeCorrect`, `QueueWithinCapacity`, `QueueOldestFirst`, `QueueNoSilentLoss` | invariants of the queue |
| | `FlushSparesNewerTheorem` | a flush removes only entries of its copy |
| | `QueueImplementsOutbox` | `ImplementsOutbox` |
| | `PollSkipsNothing`, `PollRepeatsExcused`, `PollRestoresAsked` | `NoUpdateSkipped`, `RepeatsNeedFailure`, `RestoreWasAskedFor` |
| `CameraTaskProofs` | `AlertTypeCorrect`, `AlertDisarmedCountsNothing`, `AlertDigestFollowsAlert`, `AlertWindowHoldsCameras` | invariants of the alerts |
| | `AlertCooldownSpacing` | `CooldownSpacing` |
| | `AnsweringCameraStaysOnline` | `AnsweringIsNotOffline` |
| `CameraControlProofs` | `LiveOneTask`, `LiveMonitoredAsSaved` | `OneTaskIfOrderly`, `MonitoredAsSaved` |
| | `MuteTypes`, `MuteCommandStands`, `MutePrefLags` | types, `CommandStands`, `PrefLagsOneCommand` |
| `HardwareSettingsProofs` | `HardwareTypes`, `PinsStayDisjoint`, `PagesStoreOnlyWhatStarts` | types, `ActivePinsDisjoint`, `PagesStoreWhatStarts` |
| `RelayWatchdogProofs` | `RelayPowered`, `RelayEpisodeWhole`, `RelayPulsesSpaced` | `PoweredUnlessPulsed`, `EpisodeIsWhole`, `PulsesSpaced` |
| | `PasswordsStayWithNetworks` | `PasswordsBelong` |
| `DashboardProofs` | `LoginWhole`, `LockoutsHold`, `OnlyFailuresLock`, `RollbackReported` | `LoginPairWhole`, `LockoutHolds`, `OnlyFailuresLockOut`, `RollbacksTold` |
| `SnapshotStoreProofs` | `RingNewestFirst`, `CardStaysBounded`, `SdOffOnlyByFault` | `RingKeepsNewest`, `CardBounded`, `OffOnlyByFault` |
| | `OldestPhotosGo`, `BootReportsCut` | `DeletionsAreOld`, `BootSeesCut` |
| `ListStoreProofs` | `ListsAreWhole`, `KeysStayUnique`, `BackupUndoesImport` | `SavesAreWhole`, `KeysAreUnique`, `RestoreUndoesImport` |
| | `LockedSavesExclude` | two saves under the store's mutex never overlap |
| | `RecordReadsBack` | any record, read by any version's reader, is what was written |
| | `OldRecordsStayReadable` | `RecordsUpgrade` |
| | `FormsKeepTheirValues` | any submission is stored in range, and survives a save as shown |
| | `FormsKeepStored` | `FormsKeepSettings` |

`CameraTaskProofs`, `CameraControlProofs` and `TelegramProofs` each reason about two
specifications that share no state; for that `CameraContact`, `AlertControl` and
`CommandPoll` name their variables and their specification apart from those of the
modules beside them.

`QueueInvariant`, `AlertInvariant`, `ContactInvariant`, `LiveInvariant`,
`MuteInvariant`, `HardwareInvariant`, `PollInvariant`, `RelayInvariant`,
`CredentialInvariant`, `LoginInvariant`, `LimiterInvariant`, `FirmwareInvariant`,
`CardInvariant` and `ListStoreInvariant` are the inductive invariants behind them. The
types of each module and five properties that follow from what a run checks or serve it
(`NoSilentLoss`, which the refinement implies, `WithinCapacity`, `OldestFirst`,
`FlushSparesNewer`, `DisarmedCountsNothing`) have no run of their own: the theorem says
more.

*The queue.* None of the four invariants is inductive alone. `QueueInvariant`
adds that the flush's copy is in order and holds only ids already dealt out, that
the stamp of every entry, queued or copied, is the one in `stamps`, that an entry
marked delivered is accepted, and that the flush's clock is not ahead of `now`:
without the last two a settled entry could be neither accepted nor too old. The
proof has lemmas for what `Push` and `RemoveById` do to a sequence of entries, and
one lemma per action. The refinement uses the same invariant.

*The alerts.* `AlertInvariant` adds that an armed digest implies an alert was sent
since, that the last sent photo is at least as old as the cooldown's start, and
that a counted motion is younger than the photo. Each operator on the alert
record (`Count`, `Quieted`, `Sent`, `Begun`, `Flushed`) has a lemma, each action a
step.

*Contact.* `AnsweringIsNotOffline` is about one step, but which silence can have built
up before it depends on the whole pass and on the other task. `AskedSoon` bounds the
silence (the age of the last answer, without this task's own SD write) in a pass
that has asked, in the next one, while the first fetch since is under way and in the
pass that was skipped for it, in each case by the longest delay and the passes since.
`HeardAtAttempt` says where that delay comes from: the camera was last heard
no longer ago than the last attempt, unless the next is due; it holds whatever is
fetched, so that the bound is back with the next polled pass. Nothing is assumed of the
threshold.

*Live cameras.* Nothing is claimed once a request came before the last had settled or
a name was added that has a slot, so the invariant is types, and `OrderlyInv` while `orderly` holds: one slot for a
camera and one task for a slot, unless it is about to be stopped; what is stored is
what the slot is about to be (`Follows`); a camera on its way to `loop()` has no slot
yet and there is room for it; and a stored camera nobody was told about has a slot
or is on its way (`Reaches`). `SetToSeqLists` is what boot needs: the stored names
in a sequence, each once.

*The mute.* `PrefLagsOneCommand` is not inductive: after a save nothing says that
what was saved is the camera's state. `PrefInv` adds that, while no commands have
overlapped, at most one save is to come, of the state in RAM, and that without
one the preference has caught up, unless it was refused. `CommandStands` needs
`TimerIsAsked`: a timer that is pending, or read as due, is the last command's own.

*The hardware settings.* `ActivePinsDisjoint` needs only the checks at boot
(`BootPinsDisjoint`). `PagesStoreWhatStarts` is not inductive: a save is accepted
at one moment and written over several steps. `PageInv` says that, while `plain`
holds, the store would be sound (`Sound`: no unsafe pin, no clash) once the
page's save is through (`Finished`), and that the keys before the current one are
written (`Progress`). `AcceptedIsSound` is the step of the route's checks,
`WrittenFacts` and `RestFacts` the step of one put.

*The command channel.* `Progress` orders the marks: what Telegram was told to
forget and what is stored are handled, and the mark in RAM is not behind them.
`BatchInv` says that the batch is the run of ids after that mark. `Repeats` counts
how often each update may have been handled: once, if the mark in RAM is past it,
and once more for each crash or refused save, which are the steps that set that
mark back; for a `/reset` the stored mark counts, which a crash leaves alone. `ArmAsked` says whose request an
arm is.

*The relays.* `ClockInv` says that the outage clock runs exactly while checks
fail, that it is not older than the first failure or the last pulse, and that the
episode is that first failure. `PowerInv` says that a relay without power has a
pulse under way, or the board is off.

*The credentials.* While nothing is torn, one task saves at most, each network it
saves has its own password, and the keys that are not yet written still belong to
those that are (`NotTorn`).

*The login.* `Written` says what the keys already put hold, `Untouched` that,
without an accident, the others are still those of the login the save began with,
which is the live one. Putting one key back then restores the pair.

*The limiter.* The observer counts for every address alone, the code in one table
with evictions. `Fits` relates the two: the entry of a tracked address is what the
observer expects, and the entries whose stamp is no smaller are of addresses the
observer lists: seen since, or, by a clock that has wrapped since, not earlier. An
address without an entry has nothing to its charge, or gave way to as many of these
as the table holds (`GaveWay`): all the others in the table outlasted it by their
stamps, and the new one was seen since. `Covers` says that the entry's stamp lies at least as far ahead as
the observer expects. A lockout under way is shorter than half a round of the clock
and only gets shorter, so it is never where the difference changes its sign; a
lockout that is over may, and `Covers` claims nothing of it. `OnlyFailuresLockOut` is
about the steps: a new or moved entry locks nobody out (`TouchLocksNobody`), a judged
one only its own address and for failures the observer counted too (`JudgedLocksOwn`),
and a tick only at the turn of the clock (`TickLocksAtTurn`).

*The firmware.* `RollbacksTold` follows from `Reported` (a marker fits its slot, and
setup() does not end with an untold rollback), which needs `Bootable`: which image runs,
which boots next, and that the spare slot is empty during an upload that has met no
error: without it a failed upload could leave a bootable half of an image.

*The card.* Space is counted unit by unit: `Heap` is the number of pairs of a file and
a unit it takes, which makes sums of sizes cardinalities (`HeapSplit`, `HeapLess`,
`HeapBounds`, `HeapShort`). `RoomLeft` is the budget, in the sizes that photos
have once they are whole (`Planned`): all but the reserve, the share of each camera
(what it takes, the largest photo at most), and the largest photo for each fault.
`RoomArithmetic` says why a write keeps it: either it frees what the photo takes
(`SizesAlike`, when it stops at its limit), or its camera has nothing else on the card, or
the bytes left leave the reserve, and what they miss of the sizes is that of files cut
short, each by a fault (`Cut`). It needs that one task writes at a time (`OneWriter`).
`TakenInOrder` says that a camera's photos are named in the order taken as long as
`~setBack`, the one being written last; `FaultsOnly` that only a fault cuts a file
short, fails a task or turns SD off.

*The list store.* The proof goes from the text to the steps. `ParsePieces` and
`ParseBackup` say that a text written by a save is read back as the list it was
written from, `JoinSplit` that its chunks join to it again, `ByNameFacts` that
putting a list in order keeps its records and the uniqueness of its keys; none of
them bounds the list. `Room` says that whatever the keys hold, also after saves
that were cut short over each other, joins to a text that parses to no more
records than a list may have: without it the stored list could outgrow its chunks
and no type invariant would hold. `OnTrack` is what NVS holds of a save that has met no refused
write, `Narrow` what it holds of one that replaces one key's worth by another, and
`Advances` that every write keeps both. With them `ListInvariant` says that the list
is, at rest, one that some edit meant (`allowed`), and that a save under way means such
a one; it needs `Alone`, the mutex and the boot, since an edit starts from what it
has loaded. `Undone` follows an import from the list it replaces, through the backup
(`Holds`), to the restore; a boot that adds seed cameras in between, as it may when
the flag that they were added was refused, gives the undoing up. `Narrow` is where `Leftover` is needed: without it a later save
could bring back a chunk that nobody meant to keep.

*The record formats.* `RecordsUpgrade` samples records that differ from the default in
one field; the theorem behind it is about all of them. `ReadersFollowLayout` says
that each version's reader takes the first fields of the current layout, in its
order, so that a field is read from the place it was written to; `FieldReadsBack`
that what a field can hold (`FieldHolds`) is read back from its text. Together they are
`RecordReadsBack`. The proof failed at first because two arms of `ReadBack` overlapped
for the language, of which TLC had taken the first.

*The forms.* `FormsKeepSettings` samples submissions. `NumbersSound` says that the
limits and defaults of every number field fit its width; `NumberKept` that a
clamped number, shown in the page's unit and parsed again, is the same number;
`TimeKept` the same of a time of day. `CameraFormKeeps` and `UserFormKeeps` combine them field by
field, for any submission and any stored password. `StoredCameraKept` and `StoredUserKept`
are about any record whose values fit their fields, whoever stored it: what a form can
store is kept (`FormValueKept`, `MinutesKept`), and the second save changes nothing.

*The ring.* `Keeps` relates slot, age and the photos given so far; `SlotFacts`
rids it of remainders.

Assumptions are those each module names (`ConstantsAssumption`,
`WifiAssumption`, `WatchdogAssumption`, `DashboardAssumption`, `StoreAssumption`):
positive capacities, cooldowns, thresholds and bounds, ages that can outgrow the
cooldown, a reserve no larger than the card, no more photos from before than the cap,
and names for "nothing" that name nothing else.

Only model-checked: the liveness properties, which TLAPS cannot reach (`Drains`,
`DigestCycleEnds`, `DisabledGoesQuiet`, `DeafIsNoticed`, `EventuallyHandled`, `ComesOnline`,
`OutageGetsPulse`, `JobsEnd`), and the violation, which is a counterexample. Every
invariant and every action property of a passing run is a theorem.

## 5. What is abstracted or left out

- `millis()` is an age or a bounded counter. Most stamps are compared by unsigned
  differences, which survive the wrap; of the places that compare signed ones
  with stamps of unbounded age, the `/restore` arm (`CommandPoll`), the WiFi
  retry (`WifiLink`) and the lockout (`Dashboard`) are modelled with their wrap.
  The limiter's eviction compares `lastSeenMs` plainly (`webserver.cpp:127`), and
  so does `Dashboard`. A lockout whose stamp happens to be 0, which the code takes
  for none, is left out.
- Message texts, URLs, XML, HTML, TLS and HTTP; the outcome of a network call is
  an input.
- Single settings in NVS are replaced at once, except where several keys belong
  together: `HardwareSettings`, `ListStore`, `WifiLink`, `Dashboard`.
- Stored texts are pieces of records (`ListStore`) or sequences of fields
  (`RecordFormats`); escaping of separators is left to the unit tests of the
  repository.
- An import is modelled section by section, in the module of each store.

Not modelled, and why:

- *Health monitor and heap health*: flags that alert once around a threshold, each
  one task's automaton of two states.
- *Time and RTC*: calendar arithmetic and clock sources. A clock that is set late,
  set back or lost is part of `SnapshotStore`; quiet hours are an input of `MotionAlerts`.
- *Event log*: a ring that nothing reads back.
- *Texts and formatting*: no property is about wording.
- *The time budget of `loop()`* against the 90 s task watchdog: it needs the longest
  time of every call of a pass, most of which belong to libraries.
- *The command rate table, the timelapse, the motion watchdog, the daily digest.*

## 6. Plan

Written in this order: `AlertOutbox`, `RetryQueue`, `MotionAlerts`,
`AlertControl`, `LiveCameras`, `CameraContact`, `CommandPoll`, `HardwareSettings`,
`RecordFormats`, `SettingsForms`, `ListStore`, `WifiLink`, `RelayWatchdog`,
`SnapshotStore`, `FirmwareUpdate`, `Dashboard`, and the eight proof modules.

Next, most important first:

1. Theorems: what a save of several chunks that was cut short leaves (only types and
   room are claimed of it now).
2. The passes of `loop()` against the task watchdog, with the flush, the broadcasts
   and the waits on `TelegramNetLock`.
3. The command rate table; mutes kept by index over a list sorted by name.
4. An import over all its sections, of which one fails.
