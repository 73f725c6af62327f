# m5stack-pc-remote in TLA+

A specification of the M5Stack firmware and the Windows service (`m5stack-pc-bridge`)
that switch a PC on and off from a Telegram chat or a touch panel: TLA+ modules
translated from the Rust source, model-checked with TLC, and theorems about them
checked with TLAPS. All paths below are relative to the repository's root.

    tlc -workers 2 -config power_control.cfg PowerControl
    tlapm PowerControlProofs.tla

## 1. The system

    Telegram chat <--HTTPS--> firmware --signed HTTP--> bridge (Windows service) --> Windows
                              |  ^ magic packet, TCP probe                   ^
    touch panel --------------+  |                                           |
                              PC network card                          audit.log

The firmware runs three threads: the **UI loop** (`firmware/src/main.rs`), the **Telegram
polling thread** and the **notifier thread** (`firmware/src/telegram.rs`). They share, each
behind its own mutex, the operation lock, the power lock, the wake watch, the sleep watch,
the runtime settings and the HTTPS lock. The bridge is an asynchronous HTTP server with
blocking tasks, detached threads and a service control handler.

### Components

| Component | State | Operations | Hard part | What makes it correct |
|---|---|---|---|---|
| Operations of the firmware (`telegram.rs`, `main.rs`) | operation lock, power lock, pending confirmation, pending input, settings, screen | commands, buttons, settings, update, `/lock`, panel taps, restart | two threads operate the PC; old buttons; `/lock` at any moment | one operation at a time; each approved by its own fresh code where one is needed; none starts while locked |
| PC status (`main.rs`, `wake-check`, `notify-stable`) | `pc_online`, wake watch, sleep watch, stable notice | STATUS cycle, `begin_wake_watch`, `begin_sleep_watch` | two threads write the watches between the steps of a cycle; flapping; time-outs | the chat is told steady changes once, not those it caused, and in the end the truth |
| Authentication (`auth.rs`) | nonce store | `verify_request`, `insert_once`, `evict_expired` | concurrent handlers with different clocks over a lock-free map | a request is let in once while its time is within the skew; the store is bounded |
| Power commands of the bridge (`server.rs`, `audit_log.rs`, `power.rs`, `windows_service.rs`) | audit log and its predecessor, handlers, detached sleep thread, service state | `command`, `sleep_accepted`, `append`, rotation, stop | a step fails half-way; the client gives up; the service stops in between | nothing is done that is not on record; the user is told the truth |
| Request client (`bridge_client.rs`) | none | `send_command` | its time-out | a time-out is reported as a failure, not as an outcome |
| Telegram polling (`telegram.rs`, `telegram-cursor`) | update cursor, back-off | `run`, `skip_backlog`, `get_updates` | batches lost or repeated | every update is handled at most once, the backlog never |
| Firmware update (`ota.rs`, `telegram.rs`, `firmware.rs`, `pc-remote-signing`) | the bridge's two files, two slots, the boot state, a download | offer, confirm, manifest, flash, restart, self-test, rollback | a power loss at any point; files that change between two reads; bodies that end early or are damaged | a slot that works at any time; only the confirmed and signed image; the old one comes back unless the new one works |
| Online services (`online-state`, `main.rs`) | SNTP, notifier, polling started or not | `transition`, retries | a start that fails; Wi-Fi that comes and goes | each service is started exactly once |
| Notifier (`telegram.rs`, `firmware_notice.rs` of `pc-remote-signing`) | queue, day of the last report, last version told | `notify`, `due_report`, `observe`, one round a minute | HTTPS lock shared with the polling thread; restarts; a clock that is unknown until NTP | a report a day, none forgotten, notices in order and none stuck |
| Runtime settings (`settings.rs`) | NVS and memory | `apply` | NVS refuses a write | memory and NVS agree |
| Alert throttle (`pc-remote-signing`) | count, time of the last alert | `record` | what comes in the quiet time | each access is in one alert; a bounded rate |
| Supply (`board.rs`, `battery`, `battery-read`) | IRQ latch, last reading, told or not | latch, read, clear, `PowerNotify::poll` | three accesses between which the supply changes | a notice is about something steady |
| Panel (`main.rs`, `ui.rs`, `backlight`, `toast-expiry`, `calendar-update`) | screen, toast, clock, backlight, touch | one round of the UI loop | parts drawn apart, skipped in the dark, hidden by a confirmation | what a lit display shows is what is; a touch presses one thing |
| Configuration, drivers, Windows API, scripts | none of their own | I/O and parsing | – | – |

`PROJECT.json` lists each with its status, and under "hazards" the places in the code that are
hard to test, each with the property that covers it or the reason why none does yet.

## 2. Modules

Composition:

- `PowerControl` implements `OperationGate`, and `OtaUpdate` implements `FirmwareTrial`
  (`INSTANCE ... WITH` a refinement mapping, the abstract specification as a `PROPERTY`).
- `BridgeCommand` instantiates `AuditLog` with its commands as writers.
- `ChatAlerts` extends `TelegramPoll`: the same thread with the throttle its handlers feed.
- `Panel` extends `Battery`: the UI loop reads the supply in the middle of its round.
- `OtaUpdate` and `Notifier` extend `Versions`, the comparison both decide by.
- `StatusWatch` and `PowerControl` share the two watches: `PowerControl` keeps one bit of each
  (`wakeWatch`, `sleepWatch`) and lets its `StatusCycle` clear them at any time; `StatusWatch` has
  their content and the steps of the cycle.
- `PowerControl` has the code, the deadline and the power lock of a confirmed update, `OtaUpdate`
  what the update does then. `Panel` has the look and the taps, `PowerControl` what they send.

The `MC` modules give constants that a configuration file cannot write (versions, images, points)
and, for `NonceStore`, the symmetry set. The others are run as they are.

### OperationGate (abstract specification)

What the firmware promises, whoever asks: a gate that is open, closing or closed; at most one live
code; at most one approved operation that has not started; at most one operation being carried
out; the settings, the running firmware and, while that one is on trial, the firmware to fall back to.
`Offer`, `Age`, `Withdraw`, `Approve`, `Apply`, `StartApproved`, `StartDirect`, `Finish`, `Close`, `Open`, `Keep`,
`Restart`. After a restart the firmware is the same; or that of the update that was being carried out,
on trial from then on; or, if one was on trial, the one before it. No threads, no mutex, no screens: it
stands for no particular code and has no entry in the map.

### PowerControl (telegram.rs, main.rs)

| Variable | Code |
|---|---|
| `opLock` | `OperationLock` |
| `powerLock` | owner of `PowerLock` |
| `pending`, `input` | `Client.pending`, `Client.pending_input`; a deadline is the number of ticks left |
| `settings`, `version` | NVS and `RuntimeSettings`; running firmware |
| `fallback` | firmware in the other slot while the running one is on trial (`ota.rs`, bootloader) |
| `tg` | polling thread: `idle`, `want` (waits for the power lock), `ready` (holds it), `probe` (after a magic packet) |
| `ui` | UI loop: `loop`, `want`, `ready` |
| `screen`, `pcOnline` | screen of the panel, `Status.pc_online` |
| `wakeWatch`, `sleepWatch` | a watch is armed |
| `used` | history: codes issued |

`DispatchCommand`, `SettingText` and `HandleCallbackQuery` are one update each; the handlers
they call are operators with the names of the functions in `telegram.rs`. A handler is one step up to
`lock_power`, because all it touches before is private to its thread or written by it alone;
from there `TgLockPower` and `RunPowerAction`, `SendWakeOnLan`, `BeginWakeWatch` or
`FailUpdate` follow. The UI loop looks at the operation lock twice (`Press`, `UiLockPower`) and
sends in a third step (`UiSend`): this is where `/lock` can fall in between. A restart
is possible at any point: out of an update it may come up in the new firmware, on trial; from a trial that
`StatusCycle` has not ended (`mark_app_valid`) the bootloader brings back the firmware before it (`Bootloader`).
An update of the model is any message or button the allowed user can send, with any code that could ever have been
issued. `/status`, `/settings` and other read-only commands change nothing and are left out, and so
are replies.

### StatusWatch (main.rs, telegram.rs, wake-check, notify-stable)

The STATUS cycle in four steps, split at every lock it takes: `Probe`, `ReadWake`,
`JudgeWake`, `JudgeStable`; `PanelWake`, `TgProbe`/`TgBeginWake` and `TgBeginSleep` start watches from
both threads; the PC (`reach`) answers always, never or flakily. `WakePoll`, `SleepPoll` and
`StablePoll` are `WakeWatch::poll`, `SleepWatch::poll` and `StableNotify::poll`. An `Instant` is an
age that stops at the deadline. `guard` is who holds the mutex of the wake watch: the loop takes it and
drops it within one step, the polling thread inside `begin_wake_watch` lets go in a step of its own
(`TgRelease`). It is not reentrant: a guard the loop kept over `BeginWake` or the next step would make it wait for
itself. `run`, `onTold`, `asked`, `since`, `calm`, `gone` and `ons` are history: what was observed and
told, against which the notices are judged.

### NonceStore (auth.rs, server.rs)

Each handler reads the clock once (`Receive`) and then sweeps (`Sweep`), looks at the size
(`FindRoom`) and inserts (`Insert`) in steps of their own, between which any time may pass. The senders' times
(`time`) are chosen at the start: before, at or after the bridge's clock. A copy of any request may arrive at
any time, and is let past the check of the skew as the code does, up to the full `Skew` on either side.
`Restart` empties the store. `accepted` is history, and so is `early`: the nonces from the future that a
sweep with a clock from before their window has dropped. The signature is taken as given: a request that
fails it changes nothing.

### AuditLog, BridgeCommand (audit_log.rs, server.rs, power.rs, windows_service.rs, bridge_client.rs)

`AuditLog` is `append`, split where it touches the file system: `Enter`, `Check`, `Remove`,
`Rename`, `Write`; `Fail` is an error at any of them. `BridgeCommand` has the client
(`SendCommand`, `Hear`, `GiveUp`), the handler (`Receive`, `AppendStep`, `AppendEnds`, `Act`,
`AnswerSleep`), the thread that sleeps (`Suspend`) and the service (`StopService`, `FinishStop`,
`Crash`, `StartService`). `DropHandler` is hyper's: it drops the future of a connection that was
closed, while a blocking task goes on. `written` is history.

### TelegramPoll, ChatAlerts (telegram.rs, telegram-cursor, main.rs, online-state, pc-remote-signing)

`sent` and `confirmed` are Telegram's queue; `offset` and `synced` the cursor; `thread` the polling
thread, which the UI loop starts (`StartTelegram`, `started`) and whose first act is to install the
root CA (`EnsureRootCa`). A getUpdates takes effect at Telegram in `GetUpdates` and at the firmware in
`ProcessUpdates`; `PollFails` can come before or between the two: the answer is then lost, what was
confirmed stays so. `Restart` forgets the cursor, Telegram forgets nothing. What a handler does is in
`PowerControl`; here it is the number of the update in `handled`. `old` is history: the last
update that belongs to the backlog of a start. The length of the back-off is left out.

`ChatAlerts` adds `AlertThrottle` (`failures`, `lastFired`) with its clock: `HandleUpdates` is
`ProcessUpdates` followed by `Record` if the update came from somebody who is not allowed. The
bridge uses the same type behind a mutex. `strange`, `told` and `alerts` are history.

### OtaUpdate, FirmwareTrial (telegram.rs, ota.rs, main.rs, firmware.rs, pc-remote-signing)

`FirmwareTrial` is the promise: an installed firmware that works, at most one on trial, tried only
with an approval that is used up and only if the bridge signed that image under that version; `Keep` needs
an image that works, `Revert` is possible at any time.

| Variable | Code |
|---|---|
| `bin`, `version` | `firmware.bin`, `firmware.version`; replaced at any time by `PlaceFiles` |
| `reading`, `manifest`, `signed` | `build_manifest` between its two reads; the manifest the chat thread holds; what was ever signed |
| `slots`, `state`, `boot` | the two app partitions and `otadata` |
| `running`, `app`, `wifi`, `validated` | what runs, where `main` is, `Status.wifi_connected`, `ota_validated` |
| `phase`, `pending`, `agreed` | `/update` offering, the pending confirmation, the version of the update under way |
| `serving`, `told` | body of `GET /firmware`, last percentage given to `on_progress` |

The chat thread goes `offer`, (confirmation), `recheck`, `initiate`, `flash`, `check`, `applying`;
every phase has its error path (`OfferFails`, `RecheckFails`, `FlashFails`, `RejectImage`), which all
come to the same `GiveUp`. `ReceiveChunk` takes any number of units up to `MaxRead` and may
damage them; `EndOfBody` may come early. `Reset` is what `RestartSelf`, `Crash` and `PowerLoss` have in
common; `Bootloader` starts a new slot once and the other one if it comes here again. A hash is the
image it is taken from. External: that `esp_ota` refuses an update while the running slot has not
been marked, that `mark_running_slot_valid` marks the slot that runs, and that the bootloader is built with
`CONFIG_BOOTLOADER_APP_ROLLBACK_ENABLE` (`sdkconfig.defaults`).

### Notifier (telegram.rs, firmware_notice.rs)

One round of the notifier thread is `Receive`, `CheckFirmware`, `EnsureRootCa`, `SendQueued` and
`QueuedSent`, `LookAtReport`, `SendReport` and `ReportSent`: split wherever it takes the HTTPS lock or
waits for an answer, which may be lost before or after the message has arrived. `queue` is the channel,
`lastSent` `DailyReport.last_sent_day`, `noticed` `FirmwareNotice.last_notified`. `PollLocks` and
`PollUnlocks` are the polling thread. Time goes by the hour, and an hour does not end before the
thread has come around (it does every minute). A restart from within keeps the time, a power cut
forgets it until `NtpSync`. `reports`, `delivered`, `trouble`, `excused` and `clean` are history.

### Battery, Panel (board.rs, main.rs, ui.rs, battery, battery-read, backlight, toast-expiry)

`Battery` has the latch of the AXP192, when it is read (`ShouldRead`), what a failed read yields and
`PowerNotify::poll`. `Panel` is the round of the UI loop, one stage after the other in the order of
`main.rs`: Wi-Fi, chat lamp, latch, read, clear, STATUS, lock lamp, brightness, touch, backlight, tap,
toast, clock, sleep. What a stage learns is its input. `picture` is what the display shows: each
stage redraws what the code redraws (`RefreshCurrentScreen`, `DrawConfirm`, the header alone, the
clock alone), and nothing else. The supply may change between any two accesses to the AXP192; a
finger lands, slides and lifts between two rounds. The buttons have their coordinates of
`ui.rs`; what a tap sends is in `PowerControl`, here it leaves a toast.

## 3. Runs

| Run | Module | Bounds | Properties |
|---|---|---|---|
| `power_control` | `PowerControl` | 2 codes, 2 versions, 1 setting, 2 values, lifetime 1 tick | `ThreadsCanGoOn`, `PowerSerialized`, `LockLeavesNothingBehind`, `Contract`, `ThreadsComeBack` |
| `power_lock_race` (violated) | `PowerControl` | 1 code, 1 version | `NothingWhileLocked` |
| `status_watch` | `StatusWatch` | STABLE_POLLS 2, ARM_POLLS 6, time-out 2 ticks | `CycleGoesOn`, `SteadyBeforeTold`, `OnNotRepeated`, `SleepIsNotToldAsStop`, `OnlySleepIsHeldBack`, `WakeAnsweredOnce`, `WakeResolves`, `EventuallyAgrees` |
| `wake_forgotten` (violated) | `StatusWatch` | 2, 2, 1 | `TimeoutCountsFromLastWake` |
| `nonce_store` | `MCNonceStore` | 4 requests with 3 times, 2 handlers, skew 1, capacity 2, 4 ticks; symmetric | `OnceWhileAllowed`, `BoundedStore`, `FullOfLiveNonces` |
| `bridge_command` | `BridgeCommand` | 2 commands, a log of 1 line | `ThreadsCanGoOn`, `AuditTrail`, `UserIsToldTheTruth`, `SleepAnsweredFirst`, `RecentLinesKept`, `CommandsEnd` |
| `sleep_lost` (violated) | `BridgeCommand` | 1 command | `StopLeavesNoSleep` |
| `telegram_poll` | `ChatAlerts` | 5 updates, 4 of them of strangers, threshold 2, interval 2, 4 ticks | `InOrder`, `NothingMissed`, `AlertsAccountFor`, `BacklogSkipped`, `EventuallyHandled` |
| `polling_ended` (violated) | `TelegramPoll` | 1 update | `StartIsRetried` |
| `ota_update` | `MCOtaUpdate` | 4 images of 2 or 3 reads, 2 versions, 2 units a read, 1 change of the files, a report every 60 % | `AlwaysBootable`, `ProgressToldInFull`, `UpdateContract`, `TrialEnds` |
| `notifier` | `MCNotifier` | days of 3 hours, report hour 1, 4 hours, 2 notices, 3 versions, a check every hour | `ThreadGoesOn`, `ReportedOnce`, `NoticesKept`, `DayNotForgotten`, `NoticeLeaves` |
| `panel` | `MCPanel` | 4 points, 3 events from outside, 2 equal polls, a full read every 2 s, 2 minutes | `ShownIsCurrent`, `OneTouchOnePress`, `PowerNoticeSteady` |

Why the bounds are enough:

- *PowerControl*: two codes give a pending confirmation and an old button; two versions an update,
  the firmware to fall back to and a manifest that changes in between;
  a lifetime of one tick a code that is live and one that has
  expired. Both threads, the lock and restarts are complete. The state space is finite
  without a bound on time, because a deadline counts down. `used` bounds the codes of one
  behaviour: when they run out nothing is asked for any more, which is why the theorems, for every
  set of codes and any lifetime, matter. There is no symmetry, which would be unsound for the
  liveness properties.
- *StatusWatch*: `StablePolls` and `ArmPolls` are the code's. The wake time-out is two cycles
  instead of eighteen: the judgement only tells "reached" from "not yet".
- *NonceStore*: four requests pass a capacity of two by the two handlers and leave a size that is
  no multiple of `SweepEvery`; times of 1, 2 and 3 with a skew of 1 open and close within four ticks, so that a
  nonce is remembered, swept and sent again on both edges of its window, and a handler may be as slow
  as from one end of it to beyond the other.
- *BridgeCommand*: two commands are what one client that gives up can overlap; a log of one
  line rotates at every append but the first.
- *TelegramPoll*, *ChatAlerts*: five updates are two of a backlog, one that is handled when the device
  restarts, and new ones; four accesses of strangers at a threshold of two give an alert, an access in the
  quiet time and an alert that has to speak of it too; four ticks are two intervals. The bound is on
  what the user sends; restarts and lost answers are not bounded.
- *OtaUpdate*: of the images two work (an update and, with the bridge's files changed once, another one
  in the middle), one crashes and one never gets online; the latter is one unit larger, so that a
  body can be short, exact and too long for its manifest. The step of 60 % does not divide 100, so that
  the last part falls between two reports, and one of the two versions is one that cannot be compared.
  Neither restarts, power losses nor attempts are bounded.
- *Notifier*: a day of three hours has an hour before, at and after the report; four hours reach the
  second day's report hour. Two notices show an order; three versions (newer, still newer, not
  comparable) and the current one a notice that is repeated, outdated or impossible. Reports are counted to two.
- *Panel*: the four points lie on the buttons two screens share a place for, on the clock, and on nothing.
  Three events from outside (a change, a fault, a touch) meet in any order in any stage; a finger that
  has landed may lift, and the toast, the backlight and the second run out, without one. Two minutes are two days.

`Contract`, `OnceWhileAllowed` and others also hold for every value of the constants: section 5.

No run checks a type invariant: each module's `TypeOK` is a theorem. `ThreadsCanGoOn` (of `PowerControl` and of
`BridgeCommand`), `CycleGoesOn` and `ThreadGoesOn` are about locks: who waits for one waits for somebody who
holds it and can go on to give it back. A lock that is kept on an error path, or taken by a thread that has it,
breaks them. They are also what the liveness theorems assume (section 5). The polling thread of `TelegramPoll`
and the device of `OtaUpdate` wait for no lock in these modules; there TLC's own `ENABLED`, in
`EventuallyHandled` and `TrialEnds`, is enough.

What the violated runs show (the details are in `PROJECT.json`, "findings"):

- `power_lock_race`: the comment on `OperationLock` says that nothing is executed while it is on.
  A `/lock` after the panel's second look does not stop that one operation. `OperationGate`
  states what does hold (gate "closing").
- `wake_forgotten`: a wake instruction that arrives between the reading and the clearing of
  the wake watch is cleared with the old one, although a new instruction is said to restart the
  deadline; the sleep watch avoids the same loss by judging and writing under one lock.
- `sleep_lost`: a stop of the service within the 750 ms after a sleep was answered drops it
  without an outcome in a log, although the documents promise one.
- `polling_ended`: a polling thread that cannot install the root CA ends, and because it counts
  as started nobody starts another one; the comments on the root CA and on `OnlineState` say
  that a failed start is tried again.

## 4. Fairness

- *PowerControl*: strong fairness of taking the power lock (a thread that waits for a mutex that is
  released again and again gets it: FreeRTOS hands a mutex to the longest waiter of a priority) and weak
  fairness of finishing (every request has a time-out). None for updates or taps.
- *StatusWatch*: strong fairness of the cycle (the mutex of the wake watch is free again and again), weak
  fairness of the polling thread inside that mutex, which waits for nobody, and of time. The UI loop
  never blocks on anything else without a time-out. None for instructions, the PC or the Wi-Fi. `WakeResolves` and
  `EventuallyAgrees` state what they assume of these as premises.
- *BridgeCommand*: strong fairness of each command's thread, for the same reason, and weak fairness of
  the thread that is inside the log: it has the mutex and waits for nobody. None for the client or the
  service.
- *TelegramPoll*: weak fairness of the polling thread (each of its waits ends by a time-out or a
  sleep) and strong fairness of its creation (the UI loop tries again every time it checks the Wi-Fi).
  None for the user, the Wi-Fi or restarts. Errors are allowed for ever; `EventuallyHandled` has as
  premises that they and the restarts stop, that the Wi-Fi stays and that the root CA was installed.
  `ChatAlerts` has the same fairness, with the throttle carried along.
- *OtaUpdate*: weak fairness of the bootloader, of `main` up to its loop (or of its crash), of a
  Wi-Fi that comes back and of the restart after an update; strong fairness of the mark, which the UI
  loop tries in every STATUS cycle with a connection until it succeeds. None for the chat, the bridge,
  or power losses: `TrialEnds` holds although the power may be cut for ever, because a new slot is
  started only once.
- *Notifier*: strong fairness of the notifier thread and weak fairness of the polling thread giving the HTTPS
  lock back. Every request has a time-out, and the polling thread sleeps at least 50 ms outside
  the lock between two polls, so that the lock is free again and again; strong fairness is what the
  FreeRTOS mutex adds, which wakes the thread that waits. None for the UI loop, NTP or time.
- *NonceStore*, *Panel*: none; they have only safety properties. The UI loop's steps are in
  sequence, and none of them waits for another thread without a time-out.

## 5. Theorems

Each is proved for every value of the constants that the named assumption of the module, and a bound where the
table names one, allows.

| Module | Theorem | Statement |
|---|---|---|
| `PowerControlProofs` | `TypeCorrect`, `Serialized`, `LockIsFinal` | `Spec => []TypeOK`, `[]PowerSerialized`, `[]LockLeavesNothingBehind` |
| | `GateImplemented` | `Spec => Contract` |
| | `DeadCodesStayDead`, `SettingsByCode`, `ApprovedByCode`, `StartedByApproval`, `VersionByUpdate` | `Spec =>` `CodesServeOnce`, `SettingsNeedCode`, `ApprovalsNeedCode`, `StartsNeedApproval`, `VersionNeedsUpdate` |
| | `NeitherLeftBehind` | `FairSpec /\ []ThreadsCanGoOn => ThreadsComeBack` |
| `StatusWatchProofs` | `TypeCorrect`, `ToldWhenSteady` | `Spec => []TypeOK`, `[]SteadyBeforeTold` |
| | `AnsweredOnce`, `NotRepeated`, `SleepNotTold`, `OnlySleepHeldBack` | `Spec =>` `WakeAnsweredOnce`, `OnNotRepeated`, `SleepIsNotToldAsStop`, `OnlySleepIsHeldBack` |
| | `NoAgeLasts` | `FairSpec /\ []CycleGoesOn => (<>[]wifi => []<>(wake # n))` for every age `n` |
| | `NoStreakLasts` | under the same: if the PC answers reliably, then `<>[](stable.notified = now)` or `[]<>(stable.streak # n)` for every `n` |
| | `WatchResolves` | under the same, for a `WakeTimeout` below 1000000: `WakeResolves` |
| | `ChatAgrees` | under the same, for `StablePolls <= 255` (its type is `u8`): `EventuallyAgrees` |
| `NonceStoreProofs` | `TypeCorrect`, `LetInOnce`, `StoreBounded`, `FullOfLive` | `Spec => []TypeOK`, `OnceWhileAllowed`, `[]BoundedStore`, `FullOfLiveNonces` |
| `BridgeCommandProofs` | `TypeCorrect`, `OnAudit`, `ToldTheTruth`, `SleepAnswered`, `LinesKept` | `Spec => []TypeOK`, `[]AuditTrail`, `[]UserIsToldTheTruth`, `[]SleepAnsweredFirst`, `[]RecentLinesKept` |
| | `NoneStuck` | `FairSpec /\ []ThreadsCanGoOn => CommandsEnd` |
| `TelegramPollProofs` | `TypeCorrect`, `HandledInOrder`, `NoneMissed`, `NoBacklog` | `Spec => []TypeOK`, `[]InOrder`, `[]NothingMissed`, `BacklogSkipped` |
| | `AlertsAside`, `AccountedFor` | `AlertSpec => Spec`, `[]AlertsAccountFor` |
| | `NextGetsThere` | `AlertSpec /\ []PollingGoesOn`, once the network and the device are steady: `GetsTo(n) => GetsTo(n + 1)`, for every `n` |
| | `ChatIsHandled` | `AlertSpec /\ []PollingGoesOn => EventuallyHandled`, for `MaxUpdates < 1000000` |
| `OtaUpdateProofs` | `TypeCorrect`, `NeverBricked`, `ToldInFull` | `Spec => []TypeOK`, `[]AlwaysBootable`, `[]ProgressToldInFull` |
| | `TrialImplemented` | `Spec => UpdateContract` |
| | `TriedWasSigned`, `TrialsAreAgreed`, `KeptWasTried` | `Spec =>` `[]OnlySignedTried`, `TriedAsAgreed`, `OnlyTriedKept` |
| | `TrialIsDecided` | `FairSpec /\ []DeviceCanGoOn => TrialEnds` |
| `NotifierProofs` | `TypeCorrect`, `OncePerDay`, `NotForgotten`, `Kept` | `Spec => []TypeOK`, `[]ReportedOnce`, `DayNotForgotten`, `[]NoticesKept` |
| | `RoundsEnd`, `HandEmpties` | `FairSpec /\ []ThreadGoesOn` implies that a round comes back to the queue and that a text leaves the hand |
| | `HeadLeaves`, `PlaceMoves` | under the same, for every notice `n` and place `k`: `Heads(n) ~> ~Heads(n)`, `Stands(n, k + 1) ~> (Stands(n, k) \/ Emptied)` |
| | `EveryNoticeLeaves` | under the same, as long as the queue has no more than 1000000 texts: `Queued(n) ~> ~Queued(n)` |
| | `QueueEmpties` | under the same, for notices and versions that are fewer than half a million together: `NoticeLeaves` |
| `PanelProofs` | `TypeCorrect`, `PictureIsTrue`, `PressedOnce`, `ToldWhenSteady` | `Spec => []TypeOK`, `[]ShownIsCurrent`, `[]OneTouchOnePress`, `PowerNoticeSteady` |

**PowerControl.** Assumptions: the lifetime is positive; `None` is none of the other values. The
inductive invariant is the conjunction of the three properties: `PowerSerialized` is needed to know
that the thread that gives the power lock back owns it, and `LockLeavesNothingBehind` is
inductive with it because every handler that could leave something refuses to run while locked.
One lemma per group of actions; those that touch none of the variables of a property are dealt with together.

**Refinement of the gate.** The mapping: `busy` is the operation of the thread that is `ready` (at
most one, by `PowerSerialized`), `approved` that of a polling thread that waits for the power lock,
`live` the pending confirmation unless it has expired, `gate` is "closing" if the lock is on and
someone is busy. Every step of `PowerControl` is then one step of the gate or a stutter, in each
reachable state: a confirmed operation becomes `Approve` and later `StartApproved`; a wake
`StartDirect`; `SetOperationLock(TRUE)` `Close`, whose guard (nothing approved) holds because the
handler runs only if the polling thread is idle; a panel tap that passes its second look
`StartDirect`, which needs the gate open – the mutant without the second look breaks just this.

What the gate's steps mean for the code is spelt out in five action properties, each of which
follows from `StepRefines` and the one step of the gate that changes the variable in question: a code that is
dead stays dead, through restarts and old buttons (`CodesServeOnce`); a setting, an operation that waits for the
power lock, one that begins, and the running firmware change only as the gate allows: another firmware runs
only after a restart, as the update that was being carried out or as the one before a trial that did not end
(`VersionNeedsUpdate`). Together: every sleep,
settings change and new firmware goes back to one code of its own, which was offered for it and was live when it
was used.

**StatusWatch.** Assumption: the counts and the time-out are numbers, the counts positive. The
properties speak of history variables, which say nothing by themselves; the invariant ties each to
the state the code keeps, between two cycles and within one: the probe of a cycle is the last
answer observed (`ProbeIsLast`), the streak counts answers that were observed in a row
(`StreakObserved`), a told "on" is what the stable notice knows (`ToldOnIsKnown`), a watch
that is armed stands for an instruction without an answer (`WatchIsAsked`), and the phase of
the sleep watch says how calm the PC has been (`WatchCountsCalm`) and how often it was seen on
(`WaitingCountsOns`): the first is why a sleep is not told as a stop, the second why nothing else is held back.
The threads that start a watch
between two steps of a cycle make the distinction between within and between necessary.

**NonceStore.** Assumption: the skew and the times are numbers; nothing is assumed of how they relate, of
delays or of the senders' clocks. `OnceWhileAllowed` says up to when a copy is refused, and its inductive
invariant relates each accepted request to the store: its nonce is there (`Remembered`), or its window is over
by the present clock, or a sweep that looked at a clock from before the window has dropped it (`early`). A handler's
clock may be old but is never ahead (`HandlerInTime`), so a sweep that finds a window closed is right about it.
For `StoreBounded`, the size of the store plus the number of handlers that are past their look at it stays
below the limit plus the number of handlers.

**BridgeCommand.** Assumption: a log of at least one line. The properties compare what
a command did, what was written about it and what was answered. None is inductive: that a command has an
"accepted" line follows from where its handler is. The invariant says for each command where it
is and what has become of it by then (`Placed`), that what was answered is true (`Answered`) and
that lines and deeds agree (`OnTheRecord`). Of the log it says that one writer at most is inside and
what it found out about the size still holds (`LogLocked`), and that the two files together are the
end of what was written, in order, and long enough (`KeptIsEnd`), which is also true between the
removal of the old file and the renaming.

**TelegramPoll, ChatAlerts.** Assumption: `MaxUpdates` is a number, the threshold is positive. The
inductive invariant adds three facts to the properties: what was handled is behind the cursor or in
the backlog (`HandledIsBehind`); a cursor in sync has seen the queue empty of backlog
(`SyncedPastBacklog`); an answer under way is the first update that Telegram still has, and part of the
backlog if the cursor is not in sync (`AnswerIsNext`). So an update that is dispatched is newer
than everything handled before, also after a restart, when the cursor has forgotten how far it
was. `AlertsAside` carries all of this over to the thread with its alerts, which is what the run checks.
For the alerts, the time of the last one is at least `Interval` for each of those before it.

**OtaUpdate.** Assumption: `Size` is positive, versions and images are not `None`. That a slot
that works is always there to come back to (`AlwaysBootable`) needs three more facts: the slot being
written is not the one that is started, nor is anything written while the running slot is on trial
(`SlotsInOrder`); what the image is checked against is what the bridge signed under the version that
was agreed to (`ManifestIsSigned`); only an image that works ever has a connection, hence only
such a one marks itself (`OnlineWorks`). For the 100 %, the last report counts all that was received
(`ReportedAll`). In the refinement, `installed` is the slot to come back to, `trial` the image that
is started if it has not been marked, `approved` the version of the update under way: `Activate` is
`Try`, `MarkAppValid` is `Keep`, and `Bootloader` is `Revert` when it starts the other slot.

From the refinement follows what the device can ever run: only images the bridge has signed (`OnlySignedTried`),
under the version that was agreed to (`TriedAsAgreed`); and the image to come back to is exchanged only for one
that was tried and works (`OnlyTriedKept`), by no download, crash or power loss.

**Notifier.** Assumptions: a day has at least two hours, so that the hour after the report is another
one, and `None` is no number, version or time. A report that has arrived is remembered by `lastSent`,
by the hour that has passed at the next start, or it is excused (`ReportedKnown`); a report in the
thread's hand was judged due in this hour, or in the last one if the thread has not been round
since, and no later day has one (`DueKnown`); a day that counts as reported has come to its hour
(`LastSentKnown`); in an hour without a disturbance a report that counts as done has arrived
(`CleanKnown`). The lemmas on `Day` and `HourOf` are all that is needed about division. For the
notices, the text in hand followed by the queue is a sequence that `Fits` what was delivered, given
and told of a firmware: every step appends to it or takes its first element, and the last firmware
in it is not newer than the one remembered. That each is newer than the one before rests on the
comparison of versions being transitive (`NewerTransitive`).

**Panel, Battery.** Assumptions: the counts are positive, a confirmation is another screen than the
main screen and the calendar, and `None` is no point, number or text. The three properties speak of the
end of a round, of the whole time a finger stays and of several readings; each has an invariant of its
own. Picture (`PictureInv`): it is true in all but the time in every stage, and in the time too when a
round ends in the light; a round that ends in the dark, or in the middle by the touch that wakes or by a
rejected tap, draws everything again. Touch (`TouchInv`): one that has pressed, or began in the dark,
is known to be down (`touchDown`) before its next chance to press, or meets a panel that is still
dark. Supply (`SupplyInv`): as long as no reading failed and no edge was cleared unread, what
was last read is so unless the latch is set, hence every poll that was counted was true.

### Liveness

The provers know nothing of `ENABLED`, so that an action *can* be taken where the program is said to go on is
a hypothesis of these theorems: `[]ThreadsCanGoOn`, `[]CycleGoesOn` and `[]ThreadGoesOn`, which TLC checks as
invariants (section 3), and `[]PollingGoesOn` and `[]DeviceCanGoOn`, which are stated beside the proofs.
The rest is proved, for every value of the constants: that fairness of
the actions, given that they can be taken, brings every thread to where it is said to come.

The arguments go place by place. One lemma says where a step of the thread takes it from each place
(`RoundStep`, `CycleMoves`); one that nobody else's step moves it, except by a restart
(`RoundElse`, `CycleElse`); one that it does leave the place, because the lock it may wait for is
free again and again (`FreeAgain`, strong fairness) or because it waits for nothing (weak fairness). The last
step chains the places.

- *PowerControl*: the thread that holds the power lock finishes and gives it back; so the lock is free
  again and again, whatever the other thread does, and who wants it gets it. The UI loop returns for
  the same reason, although a whole update may be in front of it.
- *BridgeCommand*: the same with the mutex of the audit log, for each command of any number; who is inside
  the log leaves it by the last step or by an error.
- *OtaUpdate*: a slot on trial is started once. From there the firmware crashes or is cut off, then the
  bootloader reverts; or `main` reaches its loop, gets online and marks it. Each restart in between
  uses the one start up, so that no number of power losses prolongs the trial.
- *Notifier*: a round ends, hence the text in hand is gone at its end, and the thread is back
  where it takes the head of the queue. That the next head is another notice follows from `Fits`:
  no notice is told before itself. What is behind the head moves up by one place with it (`PlaceMoves`), and what
  is put into the queue is put behind. The queue empties although the thread that reads it puts notices of new
  firmware into it: `Rank` counts its length and, twice, what may still be put there. Each text put into the queue
  lowers it, because a version that was told of is not told of again (`UnseenShrinks`), and so does each text
  taken out; while the queue is not empty nothing raises it.
- *StatusWatch*: the polling thread leaves the mutex of the wake watch again and again (`TgLeaves`), so the cycle
  comes to its end. Before the deadline time makes a watch older, at the deadline the next cycle drops it. A
  copy that was taken at the deadline is judged as late (`LateJudged`). While the PC answers
  reliably, what a cycle has probed stays so until it is judged (`Fresh`), and a judgement makes the chat agree or
  the streak longer (`JudgedOnce`).
- *TelegramPoll*: with the network up, no failures and no restarts the thread comes round to the poll again
  and again (`AsksAgain`). Each round takes the cursor past the next update there is, or finds none and ends the
  backlog (`ComesFurther`). A backlog without an end would be longer than all that was sent. What the
  cursor has passed was handled or was backlog, by `NoneMissed`.

Four of these arguments go step by step along a number: the age of a watch, the streak, the updates, the
queue. The step is proved for every number, but a temporal formula cannot be put into the induction rules
of the library. Instead, what leads on by `k` steps leads on by ten times as many (`AgesTenfold`,
`RisesTenfold`, `ClimbsTenfold`, `FartherTenfold`, `SinksTenfold`), and six applications reach a million. That is
the only use of the bounds in the table. They lie far beyond what the code can meet: `STABLE_POLLS` is a `u8`, the
deadline of a wake is 18 ticks (180 s), the queue of texts lives in the memory of an ESP32, and a million updates
are as many messages of one owner.

Only model-checked: the four of the hypotheses above that runs check. `PollingGoesOn` and `DeviceCanGoOn` say of
each place of a thread that a step from there has no other guard, which can be read off the actions. Every property of
the passing runs but those four is stated by a theorem, the safety properties and refinements without a bound.

## 6. Divergences

What the violated runs of section 3 show has a counterexample. The following was met while
modelling and has none, because the models state what the code does:

- `telegram.rs:66-67` says that the HTTPS lock is never taken inside another lock. `run_ota_update`
  (1479) holds the power lock while `edit_progress_message` takes it. No cycle results: nobody takes the
  power lock while holding the HTTPS lock.
- `telegram.rs:63-64` allows a notice to be late but not to be gone. One that was taken from the
  queue is gone if `ensure_root_ca` then fails (910-913), or if its sending fails (918-919, logged).
  `NoticesKept` states that nothing else loses one.
- `telegram.rs:907-909` says that `due_report` marks the day as sent; 813 and the code do not. What the
  comment asks for (the root CA first) holds all the same.
- A report can arrive twice: when its answer is lost, and on a day the power was cut and the device did
  not know the time when the notifier started. `ReportedOnce` names both, and they are the only causes.
- `main.rs:663` says that a tap acts once. A touch that cannot be read in the middle of a long press
  counts as released, and the press as a second one. `OneTouchOnePress` excepts it.
- A change of the brightness (`main.rs:649-660`) lights a display that sleeps, while `backlight_on` stays
  FALSE: the next touch counts as one in the dark.
- Reading the latch of the supply and clearing it are two accesses: an edge in between is cleared
  unread, and a supply that was gone for a second is told as gone until the next full read. A register
  that fails alone is read as "not powered". `PowerNoticeSteady` excepts both.
- `docs/security.md:54` says that a nonce is refused for as long as its time is accepted. Two handlers
  can get past that at the edges: one checks a copy in the last second of the window and inserts it
  after the other has swept, a second later; or the nonce of a sender whose clock is ahead is swept by a handler
  that read its clock before the window opened. Both need a handler that stands still over the turn of a second,
  between two of its steps. `OnceWhileAllowed` says what holds: nothing is let in again while the window is open,
  except for the nonces in `early`.
- `firmware.rs` reads `firmware.bin` and then `firmware.version`: files replaced in between are signed
  as a pair that never lay beside each other. What is flashed is the image whose hash was signed;
  its version may be another one than it says.

## 7. Not modelled

- The HMAC, the parsing of bodies, headers and settings, the texts of replies: they decide
  which branch is taken, and the models take every branch. The validation of the configuration
  (`config-validation`, `build.rs`, `config.rs` of both sides) happens before the programs run
  and keeps no state; its checks are the assumptions on the constants where the models have them.
- `/status`, `/health` and other reads.
- Drivers, pixels and fonts, NVS, Windows API: their outcomes are inputs. The start-up of the service
  and the suspend call are such outcomes in `BridgeCommand`.
- The start of SNTP and the reconnection of the Wi-Fi: the second is `wifi` in `TelegramPoll`,
  `OtaUpdate` and `Panel`, which goes and comes; the first is `NtpSync` in `Notifier`.
- The percentage of the battery and the layout of the calendar: pure functions of one thread with unit
  tests over their cases, on which nothing else depends.
- The body of a manifest or of a chat's message: what is not accepted is a failed request.
- A crash between the write of NVS and of the memory copy of a setting: after it, memory is read from NVS.
- A panic of the blocking task or of `append`: the first is answered with 500 although the operation may have been
  carried out, as its comment says (`server.rs:313-315`); after the second the log is used as it is
  (`audit_log.rs:22-25` takes a poisoned mutex).
- Scripts and installers.

## 8. Plan

Done, in this order, by importance: `OperationGate`, `PowerControl` and its refinement;
`StatusWatch`; `NonceStore`; `AuditLog`, `BridgeCommand`; `TelegramPoll`; `FirmwareTrial`, `OtaUpdate`
and its refinement; `Notifier`; `ChatAlerts`; `Battery`, `Panel`; the proofs of all their safety
properties and of both refinements, with what these imply; the liveness of `PowerControl`, `BridgeCommand`,
`OtaUpdate`, `StatusWatch`, `TelegramPoll` with `ChatAlerts`, and `Notifier`.

What is left, where it adds something:

- the two watches and the stable notice under the real power lock, `StatusWatch` composed with
  `PowerControl` in place of the bits that stand for them there;
- the liveness theorems without their bounds and without the hypotheses about `ENABLED`, when the
  provers can do it.
