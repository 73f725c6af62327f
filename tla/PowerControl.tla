---------------------------- MODULE PowerControl ----------------------------
(***************************************************************************)
(* The two threads of the firmware that can operate the PC, and what they  *)
(* share: the Telegram polling thread (firmware/src/telegram.rs) and the   *)
(* UI loop of the touch panel (firmware/src/main.rs).                      *)
(*                                                                         *)
(* The polling thread handles one update at a time.  A handler runs in one *)
(* step up to the point where it asks for the power lock, because all it   *)
(* touches before is private to the thread (the pending confirmation and   *)
(* the pending input) or written by this thread only (the operation lock). *)
(* The UI loop reads the operation lock, so its check and its sending are  *)
(* separate steps.                                                         *)
(*                                                                         *)
(* An update is any message or button the one allowed user can send, in    *)
(* any order: old buttons stay in the chat.  Updates of other users change *)
(* nothing here.  Replies are not modelled.  A deadline is a number of     *)
(* ticks that is left, so that time needs no bound.                        *)
(***************************************************************************)
EXTENDS Naturals

CONSTANTS Nonce,       \* codes generate_nonce() can return
          Version,     \* firmware versions a manifest can name
          Setting,     \* settings that can be changed from the chat
          Value,       \* valid values of a setting
          ConfirmTtl,  \* telegram_confirm_ttl_secs, in ticks
          None         \* Option::None

ASSUME TtlAssumption == ConfirmTtl \in Nat \ {0}
ASSUME NoneAssumption == None \notin Nonce \cup Value \cup Version \cup {"tg", "ui"}

-----------------------------------------------------------------------------
(* Operations.                                                             *)

PowerAction == {"reboot", "shutdown", "sleep"}

PanelAction == {"reboot", "shutdown"}   \* the panel has no sleep button

PowerOp(a)     == [type |-> "power", action |-> a]
ConfigOp(s, v) == [type |-> "config", item |-> s, value |-> v]
UpdateOp(v)    == [type |-> "update", to |-> v]

\* A wake carries where it was asked for.
WakeOp(e)      == [type |-> "wake", entry |-> e]

Approvable == {PowerOp(a) : a \in PowerAction}
         \cup {ConfigOp(s, v) : s \in Setting, v \in Value}
         \cup {UpdateOp(v) : v \in Version}

Wakes == {WakeOp(e) : e \in {"command", "button", "panel"}}

\* Pending { kind, nonce, expires_at }
Confirmation == [nonce : Nonce, op : Approvable, left : 0..ConfirmTtl]

ASSUME NoOperationAssumption == None \notin Approvable \cup Wakes \cup Confirmation

PanelOps == {PowerOp(a) : a \in PanelAction} \cup {WakeOp("panel")}

\* What a confirm button or command names: the power action, or the kind of
\* the other operations, whose content stays with the pending confirmation.
Targets == PowerAction \cup {"config", "update"}

Matches(target, op) ==
    target = IF op.type = "power" THEN op.action ELSE op.type

-----------------------------------------------------------------------------

VARIABLES opLock,      \* OperationLock
          powerLock,   \* owner of PowerLock: "tg", "ui" or None
          pending,     \* Client.pending: the one confirmation that waits
          input,       \* Client.pending_input: the setting a text will set
          settings,    \* RuntimeSettings and NVS: they change together
          version,     \* firmware that is running
          fallback,    \* firmware in the other slot while version is on trial
          tg,          \* what the polling thread is doing, for which operation
          ui,          \* what the UI loop is doing, for which operation
          screen,      \* "main", "calendar" or the action to be confirmed
          pcOnline,    \* Status.pc_online of the UI loop
          wakeWatch,   \* a wake is being watched for
          sleepWatch,  \* "stopped" notices are being held back
          used         \* history: codes issued so far

telegramVars == <<pending, input, used>>
panelVars == <<ui, screen, pcOnline>>
watchVars == <<wakeWatch, sleepWatch>>
vars == <<opLock, powerLock, pending, input, settings, version, fallback, tg, ui,
          screen, pcOnline, wakeWatch, sleepWatch, used>>

Resting(at) == [at |-> at, op |-> None]

TypeOK ==
    /\ opLock \in BOOLEAN
    /\ powerLock \in {"tg", "ui", None}
    /\ pending \in {None} \cup Confirmation
    /\ input \in {None} \cup [item : Setting, left : 0..ConfirmTtl]
    /\ settings \in [Setting -> Value]
    /\ version \in Version /\ fallback \in Version \cup {None}
    /\ tg \in {Resting("idle"), Resting("probe")}
         \cup [at : {"want", "ready"}, op : Approvable \cup Wakes]
    /\ ui \in {Resting("loop")} \cup [at : {"want", "ready"}, op : PanelOps]
    /\ screen \in {"main", "calendar"} \cup PanelAction
    /\ pcOnline \in BOOLEAN /\ wakeWatch \in BOOLEAN /\ sleepWatch \in BOOLEAN
    /\ used \subseteq Nonce

Init ==
    /\ opLock = FALSE /\ powerLock = None
    /\ pending = None /\ input = None /\ used = {}
    /\ settings \in [Setting -> Value]
    /\ version \in Version /\ fallback = None
    /\ tg = Resting("idle") /\ ui = Resting("loop")
    /\ screen = "main" /\ pcOnline = FALSE
    /\ wakeWatch = FALSE /\ sleepWatch = FALSE

-----------------------------------------------------------------------------
(* The polling thread: handlers that run in one step.                      *)

\* Every handler starts when the thread is idle; none of them touches what
\* the panel, the watches or a restart own.
Handling ==
    /\ tg.at = "idle"
    /\ UNCHANGED <<powerLock, version, fallback, ui, screen, pcOnline, wakeWatch, sleepWatch>>

\* A new confirmation replaces the one that was pending.  A code is not
\* drawn twice: generate_nonce has 2^30 of them.
Issue(op) ==
    \E n \in Nonce \ used :
        /\ pending' = [nonce |-> n, op |-> op, left |-> ConfirmTtl]
        /\ used' = used \cup {n}

RequestConfirmation(a) ==
    /\ Issue(PowerOp(a))
    /\ UNCHANGED <<opLock, input, settings, tg>>

StartSettingInput(s) ==
    /\ input' = [item |-> s, left |-> ConfirmTtl]
    /\ UNCHANGED <<opLock, pending, used, settings, tg>>

\* A value that does not parse asks for another one; a direct command
\* (/set_ip <value>) leaves an input that was already waited for alone.
HandleSettingInput(s, v, taken) ==
    IF v \in Value
    THEN /\ Issue(ConfigOp(s, v))
         /\ input' = IF taken THEN None ELSE input
         /\ UNCHANGED <<opLock, settings, tg>>
    ELSE StartSettingInput(s)

\* The manifest is fetched (None: that failed).  The running version is
\* offered no confirmation; what was pending stays.
HandleUpdateCommand(offered) ==
    /\ offered \notin {None, version}
    /\ Issue(UpdateOp(offered))
    /\ UNCHANGED <<opLock, input, settings, tg>>

SetOperationLock(locked) ==
    /\ opLock' = locked
    /\ IF locked THEN pending' = None /\ input' = None
                 ELSE UNCHANGED <<pending, input>>
    /\ UNCHANGED <<used, settings, tg>>

\* do_wake up to lock_power()
DoWake(entry) ==
    /\ tg' = [at |-> "want", op |-> WakeOp(entry)]
    /\ UNCHANGED <<opLock, pending, input, used, settings>>

\* consume_pending: takes the confirmation whatever the outcome; it is good
\* for the code it was issued with, until it expires.
ConsumedBy(supplied) ==
    pending.nonce = supplied /\ pending.left > 0

\* RuntimeSettings::set_*: NVS first, and memory only if it took the value.
SetSetting(item, value) == settings' \in {settings, [settings EXCEPT ![item] = value]}

\* The confirmed operation: a settings change is written at once, a power
\* action waits for the power lock, and so does an update whose freshly
\* fetched manifest still names the version.
Carry(op) ==
    \/ /\ op.type = "config"
       /\ SetSetting(op.item, op.value)
       /\ UNCHANGED tg
    \/ /\ op.type = "power"
       /\ tg' = [at |-> "want", op |-> op]
       /\ UNCHANGED settings
    \/ /\ op.type = "update"
       /\ \E fetched \in Version \cup {None} :
             tg' = IF fetched = op.to THEN [at |-> "want", op |-> op] ELSE tg
       /\ UNCHANGED settings

HandleConfirmation(target, supplied) ==
    /\ pending # None /\ pending' = None
    /\ IF ConsumedBy(supplied) /\ Matches(target, pending.op)
       THEN Carry(pending.op)
       ELSE UNCHANGED <<settings, tg>>
    /\ UNCHANGED <<opLock, input, used>>

Cancel ==
    /\ pending # None /\ pending' = None
    /\ UNCHANGED <<opLock, input, used, settings, tg>>

-----------------------------------------------------------------------------
(* The polling thread: one update.                                         *)

\* dispatch_command: while locked only the lock and the read-only commands
\* pass.
DispatchCommand ==
    /\ Handling
    /\ \/ \E locked \in BOOLEAN : SetOperationLock(locked)
       \/ /\ ~opLock
          /\ \/ DoWake("command")
             \/ \E a \in PowerAction : RequestConfirmation(a)
             \/ \E t \in Targets, n \in Nonce : HandleConfirmation(t, n)
             \/ \E v \in Version \cup {None} : HandleUpdateCommand(v)
             \/ \E s \in Setting : StartSettingInput(s)
             \/ \E s \in Setting, v \in Value \cup {None} : HandleSettingInput(s, v, FALSE)

\* handle_message with a text that is no command: the input that is waited
\* for is taken whether it has expired or not, locked or not.
SettingText ==
    /\ Handling
    /\ input # None
    /\ IF input.left > 0 /\ ~opLock
       THEN \E v \in Value \cup {None} : HandleSettingInput(input.item, v, TRUE)
       ELSE /\ input' = None
            /\ UNCHANGED <<opLock, pending, used, settings, tg>>

\* Faulty variant: the lock is looked at for the confirm buttons only.
CallbackLockedOnDecisionOnly ==
    /\ Handling
    /\ \/ \E locked \in BOOLEAN : SetOperationLock(locked)
       \/ \E s \in Setting : StartSettingInput(s)
       \/ \E a \in PanelAction : RequestConfirmation(a)
       \/ ~opLock /\ \E t \in Targets, n \in Nonce : HandleConfirmation(t, n)

\* handle_callback_query: while locked only the unlock button passes.
HandleCallbackQuery ==
    /\ Handling
    /\ \/ SetOperationLock(FALSE)
       \/ /\ ~opLock
          /\ \/ SetOperationLock(TRUE)
             \/ DoWake("button")
             \/ \E s \in Setting : StartSettingInput(s)
             \/ \E a \in PanelAction : RequestConfirmation(a)
             \/ \E t \in Targets, n \in Nonce : HandleConfirmation(t, n)
             \/ Cancel

-----------------------------------------------------------------------------
(* The polling thread: the part of a handler under the power lock.         *)

TgLockPower ==
    /\ tg.at = "want" /\ powerLock = None
    /\ powerLock' = "tg"
    /\ tg' = [tg EXCEPT !.at = "ready"]
    /\ UNCHANGED <<opLock, settings, version, fallback>>
    /\ UNCHANGED <<telegramVars, panelVars, watchVars>>

\* Faulty variant: the guard outlives the request.
RunPowerActionKeepingLock(accepted) ==
    /\ tg.at = "ready" /\ tg.op.type = "power"
    /\ sleepWatch' = (sleepWatch \/ (accepted /\ tg.op = PowerOp("sleep")))
    /\ tg' = Resting("idle")
    /\ UNCHANGED <<opLock, powerLock, settings, version, fallback, wakeWatch>>
    /\ UNCHANGED <<telegramVars, panelVars>>

\* run_power_action: an accepted sleep holds back the "stopped" notice.
RunPowerAction(accepted) ==
    /\ tg.at = "ready" /\ tg.op.type = "power"
    /\ sleepWatch' = (sleepWatch \/ (accepted /\ tg.op = PowerOp("sleep")))
    /\ powerLock' = None
    /\ tg' = Resting("idle")
    /\ UNCHANGED <<opLock, settings, version, fallback, wakeWatch>>
    /\ UNCHANGED <<telegramVars, panelVars>>

\* do_wake: the lock is given back before the PC is probed.
SendWakeOnLan(sent) ==
    /\ tg.at = "ready" /\ tg.op.type = "wake"
    /\ powerLock' = None
    /\ tg' = Resting(IF sent THEN "probe" ELSE "idle")
    /\ UNCHANGED <<opLock, settings, version, fallback>>
    /\ UNCHANGED <<telegramVars, panelVars, watchVars>>

BeginWakeWatch(online) ==
    /\ tg.at = "probe"
    /\ wakeWatch' = ~online
    /\ tg' = Resting("idle")
    /\ UNCHANGED <<opLock, powerLock, settings, version, fallback, sleepWatch>>
    /\ UNCHANGED <<telegramVars, panelVars>>

\* run_ota_update that fails.  When it succeeds it restarts: see Restart.
FailUpdate ==
    /\ tg.at = "ready" /\ tg.op.type = "update"
    /\ powerLock' = None
    /\ tg' = Resting("idle")
    /\ UNCHANGED <<opLock, settings, version, fallback>>
    /\ UNCHANGED <<telegramVars, panelVars, watchVars>>

-----------------------------------------------------------------------------
(* The UI loop.                                                            *)

\* The steps of the UI loop that only the panel sees.
PanelOnly == UNCHANGED <<opLock, powerLock, settings, version, fallback, tg, telegramVars, watchVars>>

Browsing == ui.at = "loop" /\ screen \in {"main", "calendar"}

\* reject_locked: toast, and back to the main screen
RejectLocked ==
    /\ screen' = "main"
    /\ ui' = Resting("loop")
    /\ UNCHANGED pcOnline

\* A power button first looks at the lock, then queues for the power lock.
Press(op) ==
    IF opLock THEN RejectLocked
    ELSE /\ ui' = [at |-> "want", op |-> op]
         /\ UNCHANGED <<screen, pcOnline>>

TapWake == Browsing /\ Press(WakeOp("panel")) /\ PanelOnly

TapPower(a) ==
    /\ Browsing
    /\ IF opLock THEN RejectLocked
       ELSE pcOnline /\ screen' = a /\ UNCHANGED <<ui, pcOnline>>
    /\ PanelOnly

TapOk == ui.at = "loop" /\ screen \in PanelAction /\ Press(PowerOp(screen)) /\ PanelOnly

\* CANCEL, the clock and BACK work while locked.
TapView ==
    /\ ui.at = "loop"
    /\ screen' = IF screen = "main" THEN "calendar" ELSE "main"
    /\ UNCHANGED <<ui, pcOnline>>
    /\ PanelOnly

\* Faulty variant: no second look at the operation lock.
UiLockPowerWithoutRecheck ==
    /\ ui.at = "want" /\ powerLock = None
    /\ powerLock' = "ui"
    /\ ui' = [ui EXCEPT !.at = "ready"]
    /\ UNCHANGED <<opLock, settings, version, fallback, tg, screen, pcOnline, telegramVars, watchVars>>

\* Faulty variant: the panel does not wait for the other thread.
UiLockPowerBarging ==
    /\ ui.at = "want"
    /\ IF opLock THEN RejectLocked /\ UNCHANGED powerLock
       ELSE /\ powerLock' = "ui"
            /\ ui' = [ui EXCEPT !.at = "ready"]
            /\ UNCHANGED <<screen, pcOnline>>
    /\ UNCHANGED <<opLock, settings, version, fallback, tg, telegramVars, watchVars>>

\* Faulty variant: the lock is not given back when the second look rejects.
UiLockPowerKeepingOnReject ==
    /\ ui.at = "want" /\ powerLock = None
    /\ powerLock' = "ui"
    /\ IF opLock THEN RejectLocked
       ELSE /\ ui' = [ui EXCEPT !.at = "ready"]
            /\ UNCHANGED <<screen, pcOnline>>
    /\ UNCHANGED <<opLock, settings, version, fallback, tg, telegramVars, watchVars>>

\* lock_power(), then the second look at the operation lock.
UiLockPower ==
    /\ ui.at = "want" /\ powerLock = None
    /\ IF opLock THEN RejectLocked /\ UNCHANGED powerLock
       ELSE /\ powerLock' = "ui"
            /\ ui' = [ui EXCEPT !.at = "ready"]
            /\ UNCHANGED <<screen, pcOnline>>
    /\ UNCHANGED <<opLock, settings, version, fallback, tg, telegramVars, watchVars>>

\* The magic packet or the signed request of the panel leaves here.
UiSend(ok) ==
    /\ ui.at = "ready"
    /\ IF ui.op.type = "wake"
       THEN /\ wakeWatch' = IF ok THEN ~pcOnline ELSE wakeWatch
            /\ UNCHANGED screen
       ELSE /\ screen' = "main"
            /\ UNCHANGED wakeWatch
    /\ powerLock' = None
    /\ ui' = Resting("loop")
    /\ UNCHANGED <<opLock, settings, version, fallback, tg, pcOnline, sleepWatch, telegramVars>>

\* The STATUS cycle, of which only the effect matters here: module
\* StatusWatch has its steps.  A cycle that finds the self-test passed keeps
\* the firmware that runs (mark_app_valid_after_self_test; OtaUpdate).
StatusCycle ==
    /\ ui.at = "loop"
    /\ pcOnline' \in BOOLEAN
    /\ wakeWatch' \in {wakeWatch, FALSE}
    /\ sleepWatch' \in {sleepWatch, FALSE}
    /\ fallback' \in {fallback, None}
    /\ UNCHANGED <<opLock, powerLock, settings, version, tg, ui, screen, telegramVars>>

-----------------------------------------------------------------------------
(* Time and restarts.                                                      *)

Elapsed(d) == IF d # None /\ d.left > 0 THEN [d EXCEPT !.left = @ - 1] ELSE d

Tick ==
    /\ pending' = Elapsed(pending)
    /\ input' = Elapsed(input)
    /\ UNCHANGED <<opLock, powerLock, settings, version, fallback, tg, used, panelVars, watchVars>>

\* A firmware that has not been kept is started once: the next start brings
\* the one before it back.  While it is on trial no other one can be flashed.
Bootloader ==
    \/ fallback # None /\ version' = fallback /\ fallback' = None
    \/ fallback = None /\ UNCHANGED <<version, fallback>>
    \/ /\ fallback = None /\ tg.at = "ready" /\ tg.op.type = "update"
       /\ version' = tg.op.to /\ fallback' = version

\* Power loss, a panic, or the end of an update that has been flashed: only
\* the settings in NVS and the two firmware slots survive.
Restart ==
    /\ Bootloader
    /\ opLock' = FALSE /\ powerLock' = None
    /\ pending' = None /\ input' = None
    /\ tg' = Resting("idle") /\ ui' = Resting("loop")
    /\ screen' = "main" /\ pcOnline' = FALSE
    /\ wakeWatch' = FALSE /\ sleepWatch' = FALSE
    /\ UNCHANGED <<settings, used>>

-----------------------------------------------------------------------------

TgFinish ==
    \/ \E accepted \in BOOLEAN : RunPowerAction(accepted)
    \/ \E sent \in BOOLEAN : SendWakeOnLan(sent)
    \/ \E online \in BOOLEAN : BeginWakeWatch(online)
    \/ FailUpdate

Telegram == DispatchCommand \/ SettingText \/ HandleCallbackQuery \/ TgLockPower \/ TgFinish

Panel ==
    \/ TapWake \/ TapOk \/ TapView \/ UiLockPower \/ StatusCycle
    \/ \E a \in PanelAction : TapPower(a)
    \/ \E ok \in BOOLEAN : UiSend(ok)

Next == Telegram \/ Panel \/ Tick \/ Restart

Spec == Init /\ [][Next]_vars

(***************************************************************************)
(* Nobody has to press anything, but a thread that runs a handler goes on: *)
(* every request has a timeout, and a mutex that is released again and     *)
(* again is given to a thread that waits for it.                           *)
(***************************************************************************)
Fairness ==
    /\ SF_vars(TgLockPower) /\ WF_vars(TgFinish)
    /\ SF_vars(UiLockPower) /\ WF_vars(\E ok \in BOOLEAN : UiSend(ok))

FairSpec == Spec /\ Fairness

-----------------------------------------------------------------------------
(* Properties.                                                             *)

\* What the variables of OperationGate are in the two threads.
Busy ==
    IF ui.at = "ready" THEN ui.op ELSE IF tg.at = "ready" THEN tg.op ELSE None

GateState == IF ~opLock THEN "open" ELSE IF Busy = None THEN "closed" ELSE "closing"

LiveCode == IF pending # None /\ pending.left > 0 THEN pending ELSE None

Approved == IF tg.at = "want" /\ tg.op.type # "wake" THEN tg.op ELSE None

Gate == INSTANCE OperationGate WITH
    Direct <- Wakes \cup PanelOps, Ttl <- ConfirmTtl,
    gate <- GateState, live <- LiveCode, approved <- Approved, busy <- Busy

(* The firmware keeps the promise of OperationGate, whatever the order in  *)
(* which the polling thread and the UI loop run, whichever old button or   *)
(* wrong code arrives, and wherever a restart falls.                       *)
Contract == Gate!Spec

(* PowerLock serialises the operations (telegram.rs, lock_power): it is    *)
(* held exactly while a thread carries one out, and by that thread.        *)
PowerSerialized ==
    /\ powerLock = "tg" <=> tg.at = "ready"
    /\ powerLock = "ui" <=> ui.at = "ready"

(* Once /lock has been answered nothing of what was asked for before it    *)
(* can still fire from the chat (set_operation_lock, the default-deny of   *)
(* dispatch_command and of handle_callback_query): no confirmation, no     *)
(* half-entered setting and no operation of the polling thread is left.    *)
LockLeavesNothingBehind ==
    opLock => pending = None /\ input = None /\ tg.at \notin {"want", "ready"}

(* telegram.rs:172 as it is written: while the operation lock is on no     *)
(* operation is executed, the touch panel included.                        *)
NothingWhileLocked == opLock => Busy = None

(* A thread that waits for the power lock (lock_power) waits only while    *)
(* the other one is carrying out an operation, which that one can then     *)
(* finish, a failed request and a failed update included: a guard that     *)
(* outlives its operation, on whichever path, leaves both threads waiting  *)
(* for a lock that nobody will give back.                                  *)
ThreadsCanGoOn ==
    /\ tg.at = "want" /\ ui.at # "ready" => ENABLED <<TgLockPower>>_vars
    /\ tg.at \in {"ready", "probe"} => ENABLED <<TgFinish>>_vars
    /\ ui.at = "want" /\ tg.at # "ready" => ENABLED <<UiLockPower>>_vars
    /\ ui.at = "ready" => ENABLED <<\E ok \in BOOLEAN : UiSend(ok)>>_vars

(* A handler that waits for the power lock gets it and ends, even if the   *)
(* other thread takes the lock again and again.                            *)
HandlerEnds == tg.at # "idle" ~> tg.at = "idle"

(* The UI loop comes back to the touch panel: it is not stuck behind the   *)
(* operations, the update included, that the polling thread carries out.   *)
PanelReturns == ui.at # "loop" ~> ui.at = "loop"

(* Neither thread is left behind the power lock by the other (lock_power). *)
ThreadsComeBack == HandlerEnds /\ PanelReturns
=============================================================================
