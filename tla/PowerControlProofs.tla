------------------------- MODULE PowerControlProofs -------------------------
(***************************************************************************)
(* Theorems about PowerControl for every set of codes, versions, settings  *)
(* and values and every lifetime of a confirmation.                        *)
(***************************************************************************)
EXTENDS PowerControl, TLAPS

-----------------------------------------------------------------------------
(* Type correctness.                                                       *)

LEMMA IssueType ==
    ASSUME TypeOK, NEW op \in Approvable, Issue(op)
    PROVE  /\ pending' \in {None} \cup Confirmation
           /\ used' \subseteq Nonce
  BY TtlAssumption DEF Confirmation, TypeOK, Issue

LEMMA ApprovableMembers ==
    /\ \A a \in PowerAction : PowerOp(a) \in Approvable
    /\ \A s \in Setting, v \in Value : ConfigOp(s, v) \in Approvable
    /\ \A v \in Version : UpdateOp(v) \in Approvable
    /\ \A e \in {"command", "button", "panel"} : WakeOp(e) \in Wakes
    /\ \A a \in PanelAction : PowerOp(a) \in PanelOps
    /\ WakeOp("panel") \in PanelOps
  BY DEF Approvable, Wakes, PanelOps

(* An operation that a code can approve is of one of three types, and its  *)
(* fields have the sets they come from.                                    *)
LEMMA ApprovableFields ==
    ASSUME NEW op \in Approvable
    PROVE  /\ op.type \in {"power", "config", "update"}
           /\ op.type = "power" => op.action \in PowerAction
           /\ op.type = "config" => op.item \in Setting /\ op.value \in Value
           /\ op.type = "update" => op.to \in Version
  BY DEF Approvable, PowerOp, ConfigOp, UpdateOp

LEMMA SetInputType ==
    ASSUME TypeOK, NEW s \in Setting, StartSettingInput(s)
    PROVE  /\ input' \in [item : Setting, left : 0..ConfirmTtl]
           /\ UNCHANGED <<opLock, pending, used, settings, tg>>
  BY TtlAssumption DEF TypeOK, StartSettingInput

(* A handler that is confirmed leaves the settings and the thread in their *)
(* sets.                                                                   *)
LEMMA CarryType ==
    ASSUME TypeOK, NEW op \in Approvable, Carry(op)
    PROVE  /\ settings' \in [Setting -> Value]
           /\ tg' = tg \/ tg' = [at |-> "want", op |-> op]
<1>1. CASE op.type = "config"
  BY <1>1, ApprovableFields DEF TypeOK, Carry, SetSetting
<1>2. CASE op.type # "config"
  BY <1>2 DEF TypeOK, Carry, SetSetting
<1> QED
  BY <1>1, <1>2

(* What one handler of the polling thread may do to the variables it owns. *)
HandlerType ==
    /\ opLock' \in BOOLEAN
    /\ pending' \in {None} \cup Confirmation
    /\ input' \in {None} \cup [item : Setting, left : 0..ConfirmTtl]
    /\ settings' \in [Setting -> Value]
    /\ tg' \in {tg} \cup [at : {"want"}, op : Approvable \cup Wakes]
    /\ used' \subseteq Nonce

LEMMA HandleSettingInputType ==
    ASSUME TypeOK, NEW s \in Setting, NEW v \in Value \cup {None}, NEW taken \in BOOLEAN,
           HandleSettingInput(s, v, taken)
    PROVE  HandlerType
<1>1. CASE v \in Value
  <2>1. ConfigOp(s, v) \in Approvable
    BY <1>1, ApprovableMembers
  <2>2. Issue(ConfigOp(s, v)) /\ input' = (IF taken THEN None ELSE input)
        /\ UNCHANGED <<opLock, settings, tg>>
    BY <1>1 DEF HandleSettingInput
  <2> QED
    BY <2>1, <2>2, IssueType DEF HandlerType, TypeOK
<1>2. CASE v \notin Value
  BY <1>2, SetInputType DEF HandleSettingInput, HandlerType, TypeOK
<1> QED
  BY <1>1, <1>2

LEMMA RequestConfirmationType ==
    ASSUME TypeOK, NEW a \in PowerAction, RequestConfirmation(a)
    PROVE  HandlerType
  BY IssueType, ApprovableMembers DEF RequestConfirmation, HandlerType, TypeOK

LEMMA HandleConfirmationType ==
    ASSUME TypeOK, NEW t \in Targets, NEW n \in Nonce, HandleConfirmation(t, n)
    PROVE  HandlerType
<1>1. pending.op \in Approvable
  BY DEF Confirmation, TypeOK, HandleConfirmation
<1>2. CASE Carry(pending.op)
  BY <1>1, <1>2, CarryType DEF HandleConfirmation, HandlerType, TypeOK
<1>3. CASE UNCHANGED <<settings, tg>>
  BY <1>3 DEF HandleConfirmation, HandlerType, TypeOK
<1> QED
  BY <1>2, <1>3 DEF HandleConfirmation

LEMMA SimpleHandlerType ==
    ASSUME TypeOK,
           \/ \E locked \in BOOLEAN : SetOperationLock(locked)
           \/ \E e \in {"command", "button"} : DoWake(e)
           \/ \E s \in Setting : StartSettingInput(s)
           \/ Cancel
    PROVE  HandlerType
<1>1. CASE \E locked \in BOOLEAN : SetOperationLock(locked)
  BY <1>1 DEF SetOperationLock, HandlerType, TypeOK
<1>2. CASE \E e \in {"command", "button"} : DoWake(e)
  BY <1>2, ApprovableMembers DEF DoWake, HandlerType, TypeOK
<1>3. CASE \E s \in Setting : StartSettingInput(s)
  BY <1>3, SetInputType DEF StartSettingInput, HandlerType, TypeOK
<1>4. CASE Cancel
  BY <1>4 DEF Cancel, HandlerType, TypeOK
<1> QED
  BY <1>1, <1>2, <1>3, <1>4

LEMMA DispatchType ==
    ASSUME TypeOK, DispatchCommand PROVE HandlerType
<1>1. CASE \E locked \in BOOLEAN : SetOperationLock(locked)
  BY <1>1, SimpleHandlerType
<1>2. CASE DoWake("command") \/ \E s \in Setting : StartSettingInput(s)
  BY <1>2, SimpleHandlerType
<1>3. CASE \E a \in PowerAction : RequestConfirmation(a)
  BY <1>3, RequestConfirmationType
<1>4. CASE \E t \in Targets, n \in Nonce : HandleConfirmation(t, n)
  BY <1>4, HandleConfirmationType
<1>5. CASE \E v \in Version \cup {None} : HandleUpdateCommand(v)
  BY <1>5, IssueType, ApprovableMembers DEF HandleUpdateCommand, HandlerType, TypeOK
<1>6. CASE \E s \in Setting, v \in Value \cup {None} : HandleSettingInput(s, v, FALSE)
  BY <1>6, HandleSettingInputType
<1> QED
  BY <1>1, <1>2, <1>3, <1>4, <1>5, <1>6 DEF DispatchCommand

LEMMA SettingTextType ==
    ASSUME TypeOK, SettingText PROVE HandlerType
<1>1. input.item \in Setting
  BY DEF TypeOK, SettingText
<1>2. CASE \E v \in Value \cup {None} : HandleSettingInput(input.item, v, TRUE)
  BY <1>1, <1>2, HandleSettingInputType
<1>3. CASE input' = None /\ UNCHANGED <<opLock, pending, used, settings, tg>>
  BY <1>3 DEF HandlerType, TypeOK
<1> QED
  BY <1>2, <1>3 DEF SettingText

LEMMA CallbackType ==
    ASSUME TypeOK, HandleCallbackQuery PROVE HandlerType
<1>1. CASE \E locked \in BOOLEAN : SetOperationLock(locked)
  BY <1>1, SimpleHandlerType
<1>2. CASE DoWake("button") \/ (\E s \in Setting : StartSettingInput(s)) \/ Cancel
  BY <1>2, SimpleHandlerType
<1>3. CASE \E a \in PanelAction : RequestConfirmation(a)
  BY <1>3, RequestConfirmationType DEF PanelAction, PowerAction
<1>4. CASE \E t \in Targets, n \in Nonce : HandleConfirmation(t, n)
  BY <1>4, HandleConfirmationType
<1> QED
  BY <1>1, <1>2, <1>3, <1>4 DEF HandleCallbackQuery

LEMMA HandlerKeepsType ==
    ASSUME TypeOK, Handling, HandlerType PROVE TypeOK'
  BY DEF TypeOK, Handling, HandlerType

LEMMA TelegramKeepsType ==
    ASSUME TypeOK, Telegram PROVE TypeOK'
<1> USE DEF TypeOK, telegramVars, panelVars, watchVars
<1>1. CASE DispatchCommand
  BY <1>1, DispatchType, HandlerKeepsType DEF DispatchCommand
<1>2. CASE SettingText
  BY <1>2, SettingTextType, HandlerKeepsType DEF SettingText
<1>3. CASE HandleCallbackQuery
  BY <1>3, CallbackType, HandlerKeepsType DEF HandleCallbackQuery
<1>4. CASE TgLockPower
  BY <1>4 DEF TgLockPower, Resting
<1>5. CASE \E accepted \in BOOLEAN : RunPowerAction(accepted)
  BY <1>5 DEF RunPowerAction
<1>6. CASE \E sent \in BOOLEAN : SendWakeOnLan(sent)
  BY <1>6 DEF SendWakeOnLan
<1>7. CASE \E online \in BOOLEAN : BeginWakeWatch(online)
  BY <1>7 DEF BeginWakeWatch
<1>8. CASE FailUpdate
  BY <1>8 DEF FailUpdate
<1> QED
  BY <1>1, <1>2, <1>3, <1>4, <1>5, <1>6, <1>7, <1>8 DEF Telegram, TgFinish

LEMMA PanelKeepsType ==
    ASSUME TypeOK, Panel PROVE TypeOK'
<1> USE DEF TypeOK, telegramVars, panelVars, watchVars, PanelOnly
<1>1. CASE TapWake
  BY <1>1, ApprovableMembers DEF TapWake, Press, RejectLocked
<1>2. CASE TapOk
  BY <1>2, ApprovableMembers DEF TapOk, Press, RejectLocked
<1>3. CASE TapView
  BY <1>3 DEF TapView
<1>4. CASE UiLockPower
  BY <1>4 DEF UiLockPower, RejectLocked, Resting
<1>5. CASE StatusCycle
  <2>1. wakeWatch' \in BOOLEAN /\ sleepWatch' \in BOOLEAN
    BY <1>5, Zenon DEF StatusCycle
  <2> QED
    BY <1>5, <2>1 DEF StatusCycle
<1>6. CASE \E a \in PanelAction : TapPower(a)
  BY <1>6 DEF TapPower, RejectLocked
<1>7. CASE \E ok \in BOOLEAN : UiSend(ok)
  BY <1>7 DEF UiSend
<1> QED
  BY <1>1, <1>2, <1>3, <1>4, <1>5, <1>6, <1>7 DEF Panel

LEMMA TickKeepsType ==
    ASSUME TypeOK, Tick PROVE TypeOK'
<1>1. pending' \in {None} \cup Confirmation
  BY TtlAssumption DEF Confirmation, TypeOK, Tick, Elapsed
<1>2. input' \in {None} \cup [item : Setting, left : 0..ConfirmTtl]
  BY TtlAssumption DEF TypeOK, Tick, Elapsed
<1> QED
  BY <1>1, <1>2 DEF TypeOK, Tick, panelVars, watchVars

(* An update under way is one that a code approved: its target is one of   *)
(* the versions.                                                           *)
LEMMA UpdateTarget ==
    ASSUME TypeOK, tg.at = "ready", tg.op.type = "update"
    PROVE  tg.op \in Approvable /\ tg.op = UpdateOp(tg.op.to) /\ tg.op.to \in Version
<1>1. tg.op \in Approvable \cup Wakes
  BY DEF TypeOK, Resting
<1> QED
  BY <1>1 DEF Approvable, Wakes, PowerOp, ConfigOp, UpdateOp, WakeOp

LEMMA RestartKeepsType ==
    ASSUME TypeOK, Restart PROVE TypeOK'
<1>1. version' \in Version /\ fallback' \in Version \cup {None}
  BY UpdateTarget DEF TypeOK, Restart, Bootloader
<1> QED
  BY <1>1 DEF TypeOK, Restart

LEMMA TypeInductive ==
    /\ Init => TypeOK
    /\ TypeOK /\ [Next]_vars => TypeOK'
<1>1. Init => TypeOK
  BY DEF Init, TypeOK
<1>2. TypeOK /\ UNCHANGED vars => TypeOK'
  BY DEF TypeOK, vars
<1> QED
  BY <1>1, <1>2, TelegramKeepsType, PanelKeepsType, TickKeepsType, RestartKeepsType DEF Next

(* Every variable keeps to its set.                                        *)
THEOREM TypeCorrect == Spec => []TypeOK
  BY TypeInductive, PTL DEF Spec

-----------------------------------------------------------------------------
(* Safety.  The two invariants need each other and the types: the panel    *)
(* keeps out of an operation of the polling thread because the lock names  *)
(* its owner, and /lock leaves nothing behind because a handler runs only  *)
(* when the thread holds no operation.                                     *)

IInv == TypeOK /\ PowerSerialized /\ LockLeavesNothingBehind

(* What a handler leaves of the two invariants: it runs while the thread   *)
(* has no operation, starts none that needs no lock, and if the lock is on *)
(* afterwards nothing waits.                                               *)
HandlerSafe ==
    /\ tg'.at # "ready"
    /\ opLock' => pending' = None /\ input' = None /\ tg'.at # "want"

LEMMA UnlockedHandlerSafe ==
    ASSUME tg.at = "idle", ~opLock, opLock' = opLock, HandlerType
    PROVE  HandlerSafe
  BY DEF HandlerSafe, HandlerType

LEMMA LockHandlerSafe ==
    ASSUME tg.at = "idle", LockLeavesNothingBehind,
           NEW locked \in BOOLEAN, SetOperationLock(locked)
    PROVE  HandlerSafe
  BY DEF SetOperationLock, HandlerSafe, LockLeavesNothingBehind

LEMMA CarryKeepsLock ==
    ASSUME NEW t \in Targets, NEW n \in Nonce, HandleConfirmation(t, n)
    PROVE  opLock' = opLock
  BY DEF HandleConfirmation

LEMMA SettingKeepsLock ==
    ASSUME NEW s, NEW v, NEW taken, HandleSettingInput(s, v, taken)
    PROVE  opLock' = opLock
  BY DEF HandleSettingInput, StartSettingInput

LEMMA DispatchSafe ==
    ASSUME IInv, DispatchCommand PROVE HandlerSafe
<1>1. CASE \E locked \in BOOLEAN : SetOperationLock(locked)
  BY <1>1, LockHandlerSafe DEF IInv, DispatchCommand, Handling
<1>2. CASE ~(\E locked \in BOOLEAN : SetOperationLock(locked))
  <2>1. ~opLock /\ tg.at = "idle"
    BY <1>2 DEF DispatchCommand, Handling
  <2>2. opLock' = opLock
    BY <1>2, CarryKeepsLock, SettingKeepsLock
       DEF DispatchCommand, DoWake, RequestConfirmation, HandleUpdateCommand, StartSettingInput
  <2> QED
    BY <2>1, <2>2, DispatchType, UnlockedHandlerSafe DEF IInv
<1> QED
  BY <1>1, <1>2

LEMMA SettingTextSafe ==
    ASSUME IInv, SettingText PROVE HandlerSafe
<1>1. ~opLock
  BY DEF IInv, LockLeavesNothingBehind, SettingText
<1>2. opLock' = opLock
  BY SettingKeepsLock DEF SettingText
<1> QED
  BY <1>1, <1>2, SettingTextType, UnlockedHandlerSafe DEF IInv, SettingText, Handling

LEMMA CallbackSafe ==
    ASSUME IInv, HandleCallbackQuery PROVE HandlerSafe
<1>1. CASE \E locked \in BOOLEAN : SetOperationLock(locked)
  BY <1>1, LockHandlerSafe DEF IInv, HandleCallbackQuery, Handling
<1>2. CASE ~(\E locked \in BOOLEAN : SetOperationLock(locked))
  <2>1. ~opLock /\ tg.at = "idle"
    BY <1>2 DEF HandleCallbackQuery, Handling
  <2>2. opLock' = opLock
    BY <1>2, CarryKeepsLock
       DEF HandleCallbackQuery, DoWake, RequestConfirmation, StartSettingInput, Cancel
  <2> QED
    BY <2>1, <2>2, CallbackType, UnlockedHandlerSafe DEF IInv
<1> QED
  BY <1>1, <1>2

LEMMA HandlerKeepsSafety ==
    ASSUME IInv, Handling, HandlerSafe
    PROVE  PowerSerialized' /\ LockLeavesNothingBehind'
  BY DEF IInv, Handling, HandlerSafe, PowerSerialized, LockLeavesNothingBehind

LEMMA Owners == None # "tg" /\ None # "ui"
  BY NoneAssumption

LEMMA TelegramKeepsSafety ==
    ASSUME IInv, Telegram PROVE PowerSerialized' /\ LockLeavesNothingBehind'
<1> USE Owners DEF IInv, PowerSerialized, LockLeavesNothingBehind, telegramVars, panelVars
<1>1. CASE DispatchCommand
  BY <1>1, DispatchSafe, HandlerKeepsSafety DEF DispatchCommand
<1>2. CASE SettingText
  BY <1>2, SettingTextSafe, HandlerKeepsSafety DEF SettingText
<1>3. CASE HandleCallbackQuery
  BY <1>3, CallbackSafe, HandlerKeepsSafety DEF HandleCallbackQuery
<1>4. CASE TgLockPower
  BY <1>4 DEF TgLockPower, TypeOK, Resting
<1>5. CASE \E accepted \in BOOLEAN : RunPowerAction(accepted)
  BY <1>5 DEF RunPowerAction, Resting
<1>6. CASE \E sent \in BOOLEAN : SendWakeOnLan(sent)
  BY <1>6 DEF SendWakeOnLan, Resting
<1>7. CASE \E online \in BOOLEAN : BeginWakeWatch(online)
  BY <1>7 DEF BeginWakeWatch, Resting
<1>8. CASE FailUpdate
  BY <1>8 DEF FailUpdate, Resting
<1> QED
  BY <1>1, <1>2, <1>3, <1>4, <1>5, <1>6, <1>7, <1>8 DEF Telegram, TgFinish

LEMMA PanelKeepsSafety ==
    ASSUME IInv, Panel PROVE PowerSerialized' /\ LockLeavesNothingBehind'
<1> USE Owners DEF IInv, PowerSerialized, LockLeavesNothingBehind, telegramVars, PanelOnly
<1>1. CASE TapWake
  BY <1>1 DEF TapWake, Browsing, Press, RejectLocked, Resting
<1>2. CASE TapOk
  BY <1>2 DEF TapOk, Press, RejectLocked, Resting
<1>3. CASE TapView
  BY <1>3 DEF TapView
<1>4. CASE UiLockPower
  BY <1>4 DEF UiLockPower, RejectLocked, TypeOK, Resting
<1>5. CASE StatusCycle
  BY <1>5 DEF StatusCycle
<1>6. CASE \E a \in PanelAction : TapPower(a)
  BY <1>6 DEF TapPower, Browsing, RejectLocked, Resting
<1>7. CASE \E ok \in BOOLEAN : UiSend(ok)
  BY <1>7 DEF UiSend, Resting
<1> QED
  BY <1>1, <1>2, <1>3, <1>4, <1>5, <1>6, <1>7 DEF Panel

LEMMA SafetyInductive ==
    /\ Init => IInv
    /\ IInv /\ [Next]_vars => IInv'
<1>1. Init => IInv
  BY TypeInductive, Owners DEF Init, IInv, PowerSerialized, LockLeavesNothingBehind, Resting
<1>2. IInv /\ UNCHANGED vars => IInv'
  BY TypeInductive DEF IInv, PowerSerialized, LockLeavesNothingBehind, vars
<1>3. IInv /\ Tick => PowerSerialized' /\ LockLeavesNothingBehind'
  BY DEF IInv, PowerSerialized, LockLeavesNothingBehind, Tick, Elapsed, panelVars
<1>4. IInv /\ Restart => PowerSerialized' /\ LockLeavesNothingBehind'
  BY Owners DEF Restart, PowerSerialized, LockLeavesNothingBehind, Resting
<1> QED
  BY <1>1, <1>2, <1>3, <1>4, TypeInductive, TelegramKeepsSafety, PanelKeepsSafety
     DEF Next, IInv

(* The power lock is held exactly while its owner carries out an operation: *)
(* no two operations on the PC or on the firmware overlap.                 *)
THEOREM Serialized == Spec => []PowerSerialized
  BY SafetyInductive, PTL DEF Spec, IInv

(* While the operation lock is on, nothing that was asked for in the chat  *)
(* before it can still fire.                                               *)
THEOREM LockIsFinal == Spec => []LockLeavesNothingBehind
  BY SafetyInductive, PTL DEF Spec, IInv

-----------------------------------------------------------------------------
(* PowerControl implements OperationGate: every step maps to a step of the *)
(* gate or changes nothing that the gate speaks of.                        *)

GateStep == Gate!Next \/ UNCHANGED Gate!vars

GateUnchanged == UNCHANGED <<GateState, LiveCode, used, Approved, Busy, settings, version, fallback>>

LEMMA Unchanged == GateUnchanged => GateStep
  BY DEF GateUnchanged, GateStep, Gate!vars

-----------------------------------------------------------------------------
(* The initial states.                                                     *)

LEMMA InitRefines == Init => Gate!Init
  BY DEF Init, Gate!Init, GateState, LiveCode, Approved, Busy, Resting

-----------------------------------------------------------------------------
(* Handlers of the polling thread.                                         *)

(* While a handler runs the thread has nothing approved and nothing under  *)
(* way, so the operation under way is the panel's and stays.               *)
LEMMA HandlerView ==
    ASSUME Handling, HandlerSafe
    PROVE  Approved = None /\ Busy' = Busy /\ UNCHANGED <<version, fallback>>
  BY DEF Handling, HandlerSafe, Approved, Busy

LEMMA IssueRefines ==
    ASSUME TypeOK, Handling, HandlerSafe, NEW op \in Approvable, Issue(op),
           ~opLock, UNCHANGED <<opLock, settings, tg>>
    PROVE  GateStep
<1>1. PICK n \in Nonce \ used :
           pending' = [nonce |-> n, op |-> op, left |-> ConfirmTtl] /\ used' = used \cup {n}
  BY DEF Issue
<1>2. pending' \in Confirmation /\ pending'.left > 0
  BY <1>1, TtlAssumption DEF Confirmation
<1>3. LiveCode' = [nonce |-> n, op |-> op, left |-> ConfirmTtl]
  BY <1>1, <1>2, NoOperationAssumption DEF LiveCode
<1>4. UNCHANGED <<GateState, Approved, Busy, settings, version, fallback>> /\ GateState = "open"
  BY HandlerView DEF GateState, Approved
<1>5. Gate!Offer(n, op)
  BY <1>1, <1>3, <1>4 DEF Gate!Offer
<1> QED
  BY <1>5 DEF GateStep, Gate!Next

LEMMA QuietHandlerRefines ==
    ASSUME Handling, HandlerSafe, UNCHANGED <<opLock, pending, used, settings, Approved>>
    PROVE  GateStep
<1>1. GateUnchanged
  BY HandlerView DEF GateUnchanged, GateState, LiveCode
<1> QED
  BY <1>1, Unchanged

LEMMA LockRefines ==
    ASSUME Handling, HandlerSafe, NEW locked \in BOOLEAN, SetOperationLock(locked)
    PROVE  GateStep
<1>1. UNCHANGED <<used, Approved, Busy, settings, version, fallback>> /\ Approved = None
  BY HandlerView DEF SetOperationLock, Approved
<1>2. CASE locked
  <2>1. GateState' = (IF Busy = None THEN "closed" ELSE "closing") /\ LiveCode' = None
    BY <1>1, <1>2 DEF SetOperationLock, GateState, LiveCode
  <2>2. Gate!Close
    BY <1>1, <2>1 DEF Gate!Close
  <2> QED
    BY <2>2 DEF GateStep, Gate!Next
<1>3. CASE ~locked
  <2>1. GateState' = "open" /\ LiveCode' = LiveCode
    BY <1>3 DEF SetOperationLock, GateState, LiveCode
  <2>2. Gate!Open
    BY <1>1, <2>1 DEF Gate!Open
  <2> QED
    BY <2>2 DEF GateStep, Gate!Next
<1> QED
  BY <1>2, <1>3

LEMMA CancelRefines ==
    ASSUME Handling, HandlerSafe, pending # None, pending' = None,
           UNCHANGED <<opLock, used, settings, tg>>
    PROVE  GateStep
<1>1. UNCHANGED <<GateState, used, Approved, Busy, settings, version, fallback>>
  BY HandlerView DEF GateState, Approved
<1>2. LiveCode' = None
  BY DEF LiveCode
<1>3. CASE LiveCode = None
  BY <1>1, <1>2, <1>3, Unchanged DEF GateUnchanged
<1>4. CASE LiveCode # None
  <2>1. Gate!Withdraw
    BY <1>1, <1>2, <1>4 DEF Gate!Withdraw
  <2> QED
    BY <2>1 DEF GateStep, Gate!Next
<1> QED
  BY <1>3, <1>4

(* A confirmation that was good for the code: it was live.                 *)
LEMMA ConsumedIsLive ==
    ASSUME pending # None, NEW n, ConsumedBy(n)
    PROVE  LiveCode = pending /\ LiveCode # None /\ LiveCode.nonce = n
  BY DEF ConsumedBy, LiveCode

LEMMA CarryRefines ==
    ASSUME TypeOK, Handling, HandlerSafe, ~opLock, pending # None, pending' = None,
           NEW n \in Nonce, ConsumedBy(n), Carry(pending.op), UNCHANGED <<opLock, used>>
    PROVE  GateStep
<1> DEFINE op == pending.op
<1>1. op \in Approvable /\ op # None
  BY NoOperationAssumption DEF TypeOK, Confirmation
<1>2. /\ UNCHANGED <<GateState, used, Busy, version, fallback>>
      /\ GateState = "open" /\ Approved = None /\ LiveCode' = None
  BY HandlerView DEF GateState, LiveCode
<1>3. LiveCode = pending /\ LiveCode # None /\ LiveCode.nonce = n
  BY ConsumedIsLive
<1>4. CASE op.type = "config"
  <2>1. /\ settings' \in {settings, [settings EXCEPT ![op.item] = op.value]}
        /\ UNCHANGED tg
    BY <1>4 DEF Carry, SetSetting
  <2>2. UNCHANGED Approved
    BY <2>1 DEF Approved
  <2>3. Gate!IsChange(LiveCode.op)
    BY <1>3, <1>4 DEF Gate!IsChange
  <2>4. Gate!Apply(n)
    BY <1>2, <1>3, <2>1, <2>2, <2>3 DEF Gate!Apply
  <2> QED
    BY <2>4 DEF GateStep, Gate!Next
<1>5. CASE op.type # "config"
  <2>1. UNCHANGED settings /\ (tg' = [at |-> "want", op |-> op] \/ UNCHANGED tg)
    BY <1>5, CarryType, <1>1 DEF Carry, SetSetting
  <2>2. CASE tg' = [at |-> "want", op |-> op]
    <3>1. op.type # "wake"
      BY <1>1, ApprovableFields
    <3>2. Approved' = op
      BY <2>2, <3>1 DEF Approved
    <3>3. ~Gate!IsChange(LiveCode.op)
      BY <1>3, <1>5 DEF Gate!IsChange
    <3>4. Gate!Approve(n)
      BY <1>2, <1>3, <2>1, <3>2, <3>3 DEF Gate!Approve
    <3> QED
      BY <3>4 DEF GateStep, Gate!Next
  <2>3. CASE UNCHANGED tg
    BY <2>1, <2>3, CancelRefines
  <2> QED
    BY <2>1, <2>2, <2>3
<1> QED
  BY <1>4, <1>5

LEMMA ConfirmationRefines ==
    ASSUME TypeOK, Handling, HandlerSafe, ~opLock,
           NEW t \in Targets, NEW n \in Nonce, HandleConfirmation(t, n)
    PROVE  GateStep
<1>1. CASE ConsumedBy(n) /\ Matches(t, pending.op)
  BY <1>1, CarryRefines DEF HandleConfirmation
<1>2. CASE ~(ConsumedBy(n) /\ Matches(t, pending.op))
  BY <1>2, CancelRefines DEF HandleConfirmation
<1> QED
  BY <1>1, <1>2

LEMMA WakeHandlerRefines ==
    ASSUME Handling, HandlerSafe, NEW e, DoWake(e)
    PROVE  GateStep
<1>1. UNCHANGED Approved
  BY HandlerView DEF DoWake, Approved, WakeOp
<1> QED
  BY <1>1, QuietHandlerRefines DEF DoWake

LEMMA InputRefines ==
    ASSUME Handling, HandlerSafe, UNCHANGED <<opLock, pending, used, settings, tg>>
    PROVE  GateStep
  BY QuietHandlerRefines DEF Approved

LEMMA SettingInputRefines ==
    ASSUME TypeOK, Handling, HandlerSafe, ~opLock, NEW s \in Setting,
           NEW v \in Value \cup {None}, NEW taken \in BOOLEAN, HandleSettingInput(s, v, taken)
    PROVE  GateStep
<1>1. CASE v \in Value
  BY <1>1, ApprovableMembers, IssueRefines DEF HandleSettingInput
<1>2. CASE v \notin Value
  BY <1>2, InputRefines DEF HandleSettingInput, StartSettingInput
<1> QED
  BY <1>1, <1>2

LEMMA DispatchRefines ==
    ASSUME IInv, DispatchCommand PROVE GateStep
<1> USE DEF IInv
<1>1. Handling /\ HandlerSafe
  BY DispatchSafe DEF DispatchCommand
<1>2. CASE \E locked \in BOOLEAN : SetOperationLock(locked)
  BY <1>1, <1>2, LockRefines
<1>3. CASE ~opLock /\ DoWake("command")
  BY <1>1, <1>3, WakeHandlerRefines
<1>4. CASE ~opLock /\ \E a \in PowerAction : RequestConfirmation(a)
  BY <1>1, <1>4, ApprovableMembers, IssueRefines DEF RequestConfirmation
<1>5. CASE ~opLock /\ \E t \in Targets, n \in Nonce : HandleConfirmation(t, n)
  BY <1>1, <1>5, ConfirmationRefines
<1>6. CASE ~opLock /\ \E v \in Version \cup {None} : HandleUpdateCommand(v)
  BY <1>1, <1>6, ApprovableMembers, IssueRefines DEF HandleUpdateCommand
<1>7. CASE ~opLock /\ \E s \in Setting : StartSettingInput(s)
  BY <1>1, <1>7, InputRefines DEF StartSettingInput
<1>8. CASE ~opLock /\ \E s \in Setting, v \in Value \cup {None} : HandleSettingInput(s, v, FALSE)
  BY <1>1, <1>8, SettingInputRefines
<1> QED
  BY <1>2, <1>3, <1>4, <1>5, <1>6, <1>7, <1>8 DEF DispatchCommand

LEMMA SettingTextRefines ==
    ASSUME IInv, SettingText PROVE GateStep
<1> USE DEF IInv
<1>1. Handling /\ HandlerSafe
  BY SettingTextSafe DEF SettingText
<1>2. input.item \in Setting
  BY DEF TypeOK, SettingText
<1>3. CASE ~opLock /\ \E v \in Value \cup {None} : HandleSettingInput(input.item, v, TRUE)
  BY <1>1, <1>2, <1>3, SettingInputRefines
<1>4. CASE UNCHANGED <<opLock, pending, used, settings, tg>>
  BY <1>1, <1>4, InputRefines
<1> QED
  BY <1>3, <1>4 DEF SettingText

LEMMA CallbackRefines ==
    ASSUME IInv, HandleCallbackQuery PROVE GateStep
<1> USE DEF IInv
<1>1. Handling /\ HandlerSafe
  BY CallbackSafe DEF HandleCallbackQuery
<1>2. CASE \E locked \in BOOLEAN : SetOperationLock(locked)
  BY <1>1, <1>2, LockRefines
<1>3. CASE ~opLock /\ DoWake("button")
  BY <1>1, <1>3, WakeHandlerRefines
<1>4. CASE ~opLock /\ \E s \in Setting : StartSettingInput(s)
  BY <1>1, <1>4, InputRefines DEF StartSettingInput
<1>5. CASE ~opLock /\ \E a \in PanelAction : RequestConfirmation(a)
  BY <1>1, <1>5, ApprovableMembers, IssueRefines
     DEF RequestConfirmation, PanelAction, PowerAction
<1>6. CASE ~opLock /\ \E t \in Targets, n \in Nonce : HandleConfirmation(t, n)
  BY <1>1, <1>6, ConfirmationRefines
<1>7. CASE ~opLock /\ Cancel
  BY <1>1, <1>7, CancelRefines DEF Cancel
<1> QED
  BY <1>2, <1>3, <1>4, <1>5, <1>6, <1>7 DEF HandleCallbackQuery

-----------------------------------------------------------------------------
(* Under the power lock.  Only one thread can be carrying out an operation, *)
(* so what a thread starts or ends is what the gate sees start or end.     *)

LEMMA NoneBusy ==
    ASSUME IInv, powerLock = None
    PROVE  Busy = None
  BY Owners DEF IInv, PowerSerialized, Busy

LEMMA OperationsAreSome ==
    ASSUME TypeOK
    PROVE  /\ tg.at \in {"want", "ready"} => tg.op \in Approvable \cup Wakes /\ tg.op # None
           /\ ui.at \in {"want", "ready"} => ui.op \in PanelOps /\ ui.op # None
<1>1. PanelOps \subseteq Approvable \cup Wakes
  BY ApprovableMembers DEF PanelOps, PanelAction, PowerAction
<1> QED
  BY <1>1, NoOperationAssumption DEF TypeOK, Resting

LEMMA TgBusy ==
    ASSUME IInv, tg.at = "ready"
    PROVE  Busy = tg.op /\ Busy # None /\ Approved = None /\ ui.at # "ready"
  BY Owners, OperationsAreSome DEF IInv, PowerSerialized, Busy, Approved

LEMMA FinishRefines ==
    ASSUME Busy # None, Busy' = None,
           UNCHANGED <<opLock, pending, used, Approved, settings, version, fallback>>
    PROVE  GateStep
<1>1. LiveCode' = LiveCode
  BY DEF LiveCode
<1>2. GateState' = (IF GateState = "closing" THEN "closed" ELSE GateState)
  BY DEF GateState
<1>3. Gate!Finish
  BY <1>1, <1>2 DEF Gate!Finish
<1> QED
  BY <1>3 DEF GateStep, Gate!Next

LEMMA QuietRefines ==
    ASSUME UNCHANGED <<opLock, pending, used, Approved, Busy, settings, version, fallback>>
    PROVE  GateStep
  BY Unchanged DEF GateUnchanged, GateState, LiveCode

LEMMA TgFinishRefines ==
    ASSUME IInv, TgFinish
    PROVE  GateStep
<1> USE DEF telegramVars, panelVars, watchVars, Resting
<1>1. CASE \E online \in BOOLEAN : BeginWakeWatch(online)
  BY <1>1, QuietRefines DEF BeginWakeWatch, Approved, Busy
<1>2. CASE ~(\E online \in BOOLEAN : BeginWakeWatch(online))
  <2>1. /\ tg.at = "ready" /\ tg'.at \in {"idle", "probe"}
        /\ UNCHANGED <<opLock, pending, used, settings, version, fallback, ui>>
    BY <1>2 DEF TgFinish, RunPowerAction, SendWakeOnLan, FailUpdate
  <2>2. Busy # None /\ Approved = None /\ Busy' = None /\ Approved' = None
    BY <2>1, TgBusy DEF Busy, Approved
  <2> QED
    BY <2>1, <2>2, FinishRefines
<1> QED
  BY <1>1, <1>2

LEMMA TgLockPowerRefines ==
    ASSUME IInv, TgLockPower
    PROVE  GateStep
<1>1. /\ ~opLock /\ UNCHANGED <<opLock, pending, used, settings, version, fallback, ui>>
      /\ tg' = [at |-> "ready", op |-> tg.op] /\ tg.at = "want" /\ powerLock = None
  BY DEF IInv, TypeOK, LockLeavesNothingBehind, TgLockPower, telegramVars, panelVars, Resting
<1>2. Busy = None /\ tg.op \in Approvable \cup Wakes /\ tg.op # None
  BY <1>1, NoneBusy, OperationsAreSome DEF IInv
<1>3. Busy' = tg.op /\ Approved' = None
  BY <1>1, <1>2, Owners DEF Busy, Approved, IInv, PowerSerialized
<1>4. GateState = "open" /\ UNCHANGED <<GateState, LiveCode>>
  BY <1>1 DEF GateState, LiveCode
<1>5. CASE tg.op.type = "wake"
  <2>1. tg.op \in Wakes
    BY <1>2, <1>5, ApprovableFields
  <2>2. Approved = None
    BY <1>5 DEF Approved
  <2>3. Gate!StartDirect(tg.op)
    BY <1>1, <1>2, <1>3, <1>4, <2>2 DEF Gate!StartDirect
  <2> QED
    BY <2>1, <2>3 DEF GateStep, Gate!Next
<1>6. CASE tg.op.type # "wake"
  <2>1. Approved = tg.op
    BY <1>1, <1>6 DEF Approved
  <2>2. Gate!StartApproved
    BY <1>1, <1>2, <1>3, <1>4, <2>1 DEF Gate!StartApproved
  <2> QED
    BY <2>2 DEF GateStep, Gate!Next
<1> QED
  BY <1>5, <1>6

LEMMA TelegramRefines ==
    ASSUME IInv, Telegram PROVE GateStep
  BY DispatchRefines, SettingTextRefines, CallbackRefines, TgLockPowerRefines, TgFinishRefines
     DEF Telegram

LEMMA PanelRefines ==
    ASSUME IInv, Panel PROVE GateStep
<1> USE DEF telegramVars, panelVars, watchVars, PanelOnly
<1>1. CASE UiLockPower /\ ~opLock
  <2>1. /\ UNCHANGED <<opLock, pending, used, settings, version, fallback, tg>>
        /\ ui' = [at |-> "ready", op |-> ui.op] /\ ui.at = "want" /\ powerLock = None
    BY <1>1 DEF IInv, TypeOK, UiLockPower, Resting
  <2>2. Busy = None /\ ui.op \in PanelOps /\ Busy' = ui.op
    BY <2>1, NoneBusy, OperationsAreSome DEF IInv, Busy
  <2>3. GateState = "open" /\ UNCHANGED <<GateState, LiveCode, Approved>>
    BY <1>1, <2>1 DEF GateState, LiveCode, Approved
  <2>4. Gate!StartDirect(ui.op)
    BY <2>1, <2>2, <2>3 DEF Gate!StartDirect
  <2> QED
    BY <2>2, <2>4 DEF GateStep, Gate!Next
<1>2. CASE \E ok \in BOOLEAN : UiSend(ok)
  <2>1. /\ ui.at = "ready" /\ ui' = Resting("loop")
        /\ UNCHANGED <<opLock, pending, used, settings, version, fallback, tg>>
    BY <1>2 DEF UiSend
  <2>2. tg.at # "ready" /\ Busy # None
    BY <2>1, Owners, OperationsAreSome DEF IInv, PowerSerialized, Busy
  <2>3. Busy' = None /\ UNCHANGED Approved
    BY <2>1, <2>2 DEF Busy, Approved, Resting
  <2> QED
    BY <2>1, <2>2, <2>3, FinishRefines
<1>3. ASSUME /\ ui.at # "ready" /\ ui'.at # "ready"
             /\ UNCHANGED <<opLock, pending, used, settings, version, fallback, tg>>
      PROVE  GateStep
  <2>1. UNCHANGED <<Approved, Busy>>
    BY <1>3 DEF Approved, Busy
  <2> QED
    BY <1>3, <2>1, QuietRefines
<1>4. CASE UiLockPower /\ opLock
  BY <1>3, <1>4 DEF UiLockPower, RejectLocked, Resting
<1>5. CASE TapWake \/ TapOk
  BY <1>3, <1>5 DEF TapWake, TapOk, Browsing, Press, RejectLocked, Resting
<1>6. CASE TapView
  BY <1>3, <1>6 DEF TapView
<1>8. CASE StatusCycle
  <2>1. /\ ui.at = "loop" /\ fallback' \in {fallback, None}
        /\ UNCHANGED <<opLock, pending, used, settings, version, tg, ui>>
    BY <1>8 DEF StatusCycle
  <2>2. CASE fallback' = fallback
    BY <1>3, <2>1, <2>2
  <2>3. CASE fallback' = None
    <3>1. UNCHANGED <<GateState, LiveCode, Approved, Busy>>
      BY <2>1 DEF GateState, LiveCode, Approved, Busy
    <3>2. Gate!Keep
      BY <2>1, <2>3, <3>1 DEF Gate!Keep
    <3> QED
      BY <3>2 DEF GateStep, Gate!Next
  <2> QED
    BY <2>1, <2>2, <2>3
<1>7. CASE \E a \in PanelAction : TapPower(a)
  BY <1>3, <1>7 DEF TapPower, Browsing, RejectLocked, Resting
<1> QED
  BY <1>1, <1>2, <1>4, <1>5, <1>6, <1>7, <1>8 DEF Panel

-----------------------------------------------------------------------------
(* Time and restarts.                                                      *)

LEMMA TickRefines ==
    ASSUME IInv, Tick PROVE GateStep
<1>1. UNCHANGED <<opLock, used, settings, version, fallback, tg, ui>> /\ pending' = Elapsed(pending)
  BY DEF Tick, panelVars
<1>2. UNCHANGED <<GateState, Approved, Busy>>
  BY <1>1 DEF GateState, Approved, Busy
<1>3. CASE LiveCode = None
  <2>1. LiveCode' = None
    BY <1>1, <1>3, NoOperationAssumption, TtlAssumption
       DEF LiveCode, Elapsed, IInv, TypeOK, Confirmation
  <2> QED
    BY <1>1, <1>2, <1>3, <2>1, Unchanged DEF GateUnchanged
<1>4. CASE LiveCode # None
  <2>1. pending # None /\ pending \in Confirmation /\ pending.left > 0 /\ LiveCode = pending
    BY <1>4 DEF LiveCode, IInv, TypeOK
  <2>2. pending' = [pending EXCEPT !.left = @ - 1] /\ pending' \in Confirmation
    BY <1>1, <2>1, TtlAssumption DEF Elapsed, Confirmation
  <2>3. LiveCode' = IF LiveCode.left = 1 THEN None ELSE [LiveCode EXCEPT !.left = @ - 1]
    BY <2>1, <2>2, TtlAssumption, NoOperationAssumption DEF LiveCode, Confirmation
  <2>4. Gate!Age
    BY <1>1, <1>2, <1>4, <2>3 DEF Gate!Age
  <2> QED
    BY <2>4 DEF GateStep, Gate!Next
<1> QED
  BY <1>3, <1>4

LEMMA RestartRefines ==
    ASSUME IInv, Restart PROVE GateStep
<1>1. GateState' = "open" /\ LiveCode' = None /\ Approved' = None /\ Busy' = None
  BY DEF Restart, GateState, LiveCode, Approved, Busy, Resting
<1>2. \/ fallback # None /\ version' = fallback /\ fallback' = None
      \/ fallback = None /\ UNCHANGED <<version, fallback>>
      \/ /\ fallback = None /\ fallback' = version
         /\ Busy # None /\ Busy = [type |-> "update", to |-> version']
  <2>1. CASE /\ fallback = None /\ tg.at = "ready" /\ tg.op.type = "update"
             /\ version' = tg.op.to /\ fallback' = version
    BY <2>1, TgBusy, UpdateTarget DEF IInv, UpdateOp
  <2> QED
    BY <2>1 DEF Restart, Bootloader
<1>3. Gate!Restart
  BY <1>1, <1>2 DEF Restart, Gate!Restart
<1> QED
  BY <1>3 DEF GateStep, Gate!Next

-----------------------------------------------------------------------------

(* Every step of the two threads is a step of the gate or changes nothing  *)
(* that the gate speaks of.                                                *)
LEMMA StepRefines == IInv /\ [Next]_vars => [Gate!Next]_(Gate!vars)
<1>1. IInv /\ UNCHANGED vars => GateStep
  BY QuietRefines DEF vars, Approved, Busy
<1>2. IInv /\ Next => GateStep
  BY TelegramRefines, PanelRefines, TickRefines, RestartRefines DEF Next
<1> QED
  BY <1>1, <1>2 DEF GateStep

(* The firmware keeps the promise of OperationGate, for every set of codes, *)
(* versions, settings and values: one operation at a time, nothing that    *)
(* needs a confirmation without its own live code, and nothing new while   *)
(* the operation lock is on.                                               *)
THEOREM GateImplemented == Spec => Contract
  BY InitRefines, StepRefines, SafetyInductive, PTL DEF Spec, Contract, Gate!Spec

-----------------------------------------------------------------------------
(* What the promise of OperationGate comes to for the two threads.  Each   *)
(* of these follows from a step of the gate, hence from StepRefines.       *)

Live(n) == LiveCode # None /\ LiveCode.nonce = n

\* A code that has been issued and is not live any more stays dead.
CodesServeOnce == [][\A n \in used : ~Live(n) => ~Live(n)']_vars

\* A setting becomes what a live code was offered for, and that uses it up.
SettingsNeedCode ==
    [][settings' # settings
       => /\ ~opLock /\ LiveCode # None /\ LiveCode' = None
          /\ LiveCode.op.type = "config"
          /\ settings' = [settings EXCEPT ![LiveCode.op.item] = LiveCode.op.value]]_vars

\* So does an operation that waits for the power lock.
ApprovalsNeedCode ==
    [][Approved' # Approved /\ Approved' # None
       => /\ ~opLock /\ LiveCode # None /\ LiveCode' = None
          /\ Approved' = LiveCode.op]_vars

\* What starts was approved, or is one of those that need no code.
StartsNeedApproval ==
    [][Busy' # Busy /\ Busy' # None
       => /\ ~opLock /\ Busy = None
          /\ Busy' \in Wakes \cup PanelOps \/ (Busy' = Approved /\ Approved' = None)]_vars

\* The firmware becomes what the update under way is to; the one before it
\* is what a restart brings back as long as the new one has not been kept.
VersionNeedsUpdate ==
    [][\/ UNCHANGED <<version, fallback>>
       \/ /\ fallback = None /\ fallback' = version
          /\ Busy # None /\ Busy = UpdateOp(version') /\ Busy' = None
       \/ fallback' = None /\ version' = version
       \/ fallback' = None /\ version' = fallback /\ Busy' = None]_vars

LEMMA CodeType ==
    ASSUME TypeOK PROVE LiveCode \in Confirmation \cup {None}
  BY DEF TypeOK, LiveCode

\* The live code is the one it was, or one that has just been issued.
LEMMA LiveCodeStays ==
    ASSUME TypeOK, [Gate!Next]_(Gate!vars)
    PROVE  /\ used \subseteq used'
           /\ LiveCode' # None => \/ LiveCode # None /\ LiveCode'.nonce = LiveCode.nonce
                                  \/ LiveCode'.nonce \in used' \ used
<1>1. CASE \E n \in Nonce, op \in Approvable : Gate!Offer(n, op)
  BY <1>1 DEF Gate!Offer
<1>2. CASE Gate!Age
  <2>1. LiveCode \in Confirmation
    BY <1>2, CodeType DEF Gate!Age
  <2>2. LiveCode' # None => LiveCode' = [LiveCode EXCEPT !.left = @ - 1]
    BY <1>2 DEF Gate!Age
  <2> QED
    BY <1>2, <2>1, <2>2 DEF Gate!Age, Confirmation
<1>3. CASE Gate!Withdraw \/ Gate!Close \/ Gate!Restart
  BY <1>3 DEF Gate!Withdraw, Gate!Close, Gate!Restart
<1>4. CASE \E n \in Nonce : Gate!Approve(n) \/ Gate!Apply(n)
  BY <1>4 DEF Gate!Approve, Gate!Apply
<1>5. CASE UNCHANGED <<LiveCode, used>>
  BY <1>5
<1> QED
  BY <1>1, <1>2, <1>3, <1>4, <1>5
  DEF Gate!Next, Gate!StartDirect, Gate!StartApproved, Gate!Finish, Gate!Open, Gate!Keep, Gate!vars

(* A code that was used, cancelled, has expired, or was forgotten in a     *)
(* restart or by /lock never approves anything again, whatever old button  *)
(* is pressed (handle_confirmation, handle_callback_query).                *)
THEOREM DeadCodesStayDead == Spec => CodesServeOnce
<1>1. IInv /\ [Next]_vars => \A n \in used : ~Live(n) => ~Live(n)'
  BY StepRefines, LiveCodeStays DEF Live, IInv
<1> QED
  BY <1>1, SafetyInductive, PTL DEF Spec, CodesServeOnce

\* Which step of the gate changes what.
LEMMA GateChanges ==
    ASSUME [Gate!Next]_(Gate!vars)
    PROVE  /\ settings' # settings => \E n \in Nonce : Gate!Apply(n)
           /\ Approved' # Approved /\ Approved' # None => \E n \in Nonce : Gate!Approve(n)
           /\ Busy' # Busy /\ Busy' # None
              => Gate!StartApproved \/ \E op \in Wakes \cup PanelOps : Gate!StartDirect(op)
           /\ <<version, fallback>>' # <<version, fallback>> => Gate!Keep \/ Gate!Restart
  BY DEF Gate!Next, Gate!vars, Gate!Offer, Gate!Age, Gate!Withdraw, Gate!Approve, Gate!Apply,
         Gate!StartApproved, Gate!StartDirect, Gate!Finish, Gate!Close, Gate!Open, Gate!Keep,
         Gate!Restart

LEMMA OpenIsUnlocked == GateState = "open" => ~opLock
  BY DEF GateState

(* A setting changes only while the operation lock is off, to the value    *)
(* that was shown with the code, and the code is used up by it             *)
(* (handle_setting_input, handle_confirmation).                            *)
THEOREM SettingsByCode == Spec => SettingsNeedCode
<1>1. IInv /\ [Next]_vars /\ settings' # settings
      => /\ ~opLock /\ LiveCode # None /\ LiveCode' = None
         /\ LiveCode.op.type = "config"
         /\ settings' = [settings EXCEPT ![LiveCode.op.item] = LiveCode.op.value]
  BY StepRefines, GateChanges, OpenIsUnlocked DEF Gate!Apply, Gate!IsChange
<1> QED
  BY <1>1, SafetyInductive, PTL DEF Spec, SettingsNeedCode

(* A reboot, shutdown, sleep or update of the chat comes to wait for the   *)
(* power lock only through a live code that was offered for exactly this   *)
(* operation and is used up by it (handle_confirmation).                   *)
THEOREM ApprovedByCode == Spec => ApprovalsNeedCode
<1>1. IInv /\ [Next]_vars /\ Approved' # Approved /\ Approved' # None
      => ~opLock /\ LiveCode # None /\ LiveCode' = None /\ Approved' = LiveCode.op
  BY StepRefines, GateChanges, OpenIsUnlocked DEF Gate!Approve
<1> QED
  BY <1>1, SafetyInductive, PTL DEF Spec, ApprovalsNeedCode

(* What begins to be carried out is a wake, a button of the panel, or what *)
(* was approved; it begins while nothing else is carried out and the       *)
(* operation lock is off (lock_power, run_power_action).  That /lock may   *)
(* still come before the request is sent is another matter.                *)
THEOREM StartedByApproval == Spec => StartsNeedApproval
<1>1. IInv /\ [Next]_vars /\ Busy' # Busy /\ Busy' # None
      => /\ ~opLock /\ Busy = None
         /\ Busy' \in Wakes \cup PanelOps \/ (Busy' = Approved /\ Approved' = None)
  BY StepRefines, GateChanges, OpenIsUnlocked DEF Gate!StartApproved, Gate!StartDirect
<1> QED
  BY <1>1, SafetyInductive, PTL DEF Spec, StartsNeedApproval

(* Another firmware runs only after the update to that version, which was  *)
(* being carried out under the power lock (run_ota_update), or because the *)
(* bootloader brings back the one that the last update replaced; and that  *)
(* only until the new one has passed its self-test                         *)
(* (mark_app_valid_after_self_test).                                       *)
THEOREM VersionByUpdate == Spec => VersionNeedsUpdate
<1>1. IInv /\ [Next]_vars
      => \/ UNCHANGED <<version, fallback>>
         \/ /\ fallback = None /\ fallback' = version
            /\ Busy # None /\ Busy = UpdateOp(version') /\ Busy' = None
         \/ fallback' = None /\ version' = version
         \/ fallback' = None /\ version' = fallback /\ Busy' = None
  BY StepRefines, GateChanges DEF Gate!Keep, Gate!Restart, UpdateOp
<1> QED
  BY <1>1, SafetyInductive, PTL DEF Spec, VersionNeedsUpdate

-----------------------------------------------------------------------------
(* Every handler ends and the panel comes back.  The argument goes by the  *)
(* stages of the two threads: each gets through the stages in which it     *)
(* holds the power lock, so that the lock is free again and again for the  *)
(* one that waits for it.                                                  *)

TgAt(s) == tg.at = s

UiAt(s) == ui.at = s

LEMMA PanelLeavesThread == Panel => UNCHANGED tg
  BY DEF Panel, TapWake, TapOk, TapView, UiLockPower, StatusCycle, TapPower, UiSend, PanelOnly

LEMMA TelegramLeavesPanel == Telegram => UNCHANGED ui
  BY DEF Telegram, TgFinish, DispatchCommand, SettingText, HandleCallbackQuery, Handling,
         TgLockPower, RunPowerAction, SendWakeOnLan, BeginWakeWatch, FailUpdate, panelVars

\* What the polling thread does in the midst of a handler: it goes from one
\* stage to the next, a restart ends it.
LEMMA TgAdvances ==
    ASSUME [Next]_vars
    PROVE  /\ TgAt("want") => TgAt("want")' \/ TgAt("ready")' \/ TgAt("idle")'
           /\ TgAt("ready") => TgAt("ready")' \/ TgAt("probe")' \/ TgAt("idle")'
           /\ TgAt("probe") => TgAt("probe")' \/ TgAt("idle")'
<1> USE DEF TgAt, Resting
<1>1. CASE UNCHANGED tg
  BY <1>1
<1>2. CASE DispatchCommand \/ SettingText \/ HandleCallbackQuery
  BY <1>2 DEF DispatchCommand, SettingText, HandleCallbackQuery, Handling
<1>3. CASE TgLockPower
  BY <1>3 DEF TgLockPower
<1>4. CASE \E accepted \in BOOLEAN : RunPowerAction(accepted)
  BY <1>4 DEF RunPowerAction
<1>5. CASE \E sent \in BOOLEAN : SendWakeOnLan(sent)
  BY <1>5 DEF SendWakeOnLan
<1>6. CASE \E online \in BOOLEAN : BeginWakeWatch(online)
  BY <1>6 DEF BeginWakeWatch
<1>7. CASE FailUpdate
  BY <1>7 DEF FailUpdate
<1>8. CASE Restart
  BY <1>8 DEF Restart
<1> QED
  BY <1>1, <1>2, <1>3, <1>4, <1>5, <1>6, <1>7, <1>8, PanelLeavesThread
     DEF Next, Telegram, TgFinish, Tick, vars

\* A step under the power lock, or the probe after it, ends its stage.
LEMMA TgFinishAdvances ==
    ASSUME TgFinish
    PROVE  \/ TgAt("ready") /\ (TgAt("probe")' \/ TgAt("idle")')
           \/ TgAt("probe") /\ TgAt("idle")'
<1> USE DEF TgAt, Resting
<1>4. CASE \E accepted \in BOOLEAN : RunPowerAction(accepted)
  BY <1>4 DEF RunPowerAction
<1>5. CASE \E sent \in BOOLEAN : SendWakeOnLan(sent)
  BY <1>5 DEF SendWakeOnLan
<1>6. CASE \E online \in BOOLEAN : BeginWakeWatch(online)
  BY <1>6 DEF BeginWakeWatch
<1>7. CASE FailUpdate
  BY <1>7 DEF FailUpdate
<1> QED
  BY <1>4, <1>5, <1>6, <1>7 DEF TgFinish

LEMMA TgLockAdvances ==
    ASSUME IInv, TgLockPower PROVE TgAt("ready")'
  BY DEF IInv, TypeOK, Resting, TgLockPower, TgAt

LEMMA UiLockAdvances ==
    ASSUME IInv, UiLockPower PROVE UiAt("ready")' \/ UiAt("loop")'
  BY DEF IInv, TypeOK, Resting, UiLockPower, RejectLocked, UiAt

\* The same of the UI loop: it goes on to its operation or back to the panel.
LEMMA UiAdvances ==
    ASSUME IInv, [Next]_vars
    PROVE  /\ UiAt("want") => UiAt("want")' \/ UiAt("ready")' \/ UiAt("loop")'
           /\ UiAt("ready") => UiAt("ready")' \/ UiAt("loop")'
<1> USE DEF UiAt, Resting
<1>1. CASE UNCHANGED ui
  BY <1>1
<1>2. CASE TapWake \/ TapOk \/ TapView \/ StatusCycle \/ \E a \in PanelAction : TapPower(a)
  BY <1>2 DEF TapWake, TapOk, TapView, StatusCycle, TapPower, Browsing
<1>3. CASE UiLockPower
  BY <1>3, UiLockAdvances DEF UiLockPower
<1>4. CASE \E ok \in BOOLEAN : UiSend(ok)
  BY <1>4 DEF UiSend
<1>5. CASE Restart
  BY <1>5 DEF Restart
<1> QED
  BY <1>1, <1>2, <1>3, <1>4, <1>5, TelegramLeavesPanel DEF Next, Panel, Tick, panelVars, vars

LEMMA UiSendAdvances ==
    ASSUME \E ok \in BOOLEAN : UiSend(ok) PROVE UiAt("loop")'
  BY DEF UiSend, Resting, UiAt

\* Each thread is at one of its stages, and who is at "ready" has the lock.
LEMMA Stages ==
    ASSUME IInv
    PROVE  /\ TgAt("idle") \/ TgAt("want") \/ TgAt("ready") \/ TgAt("probe")
           /\ UiAt("loop") \/ UiAt("want") \/ UiAt("ready")
           /\ powerLock = None <=> ~TgAt("ready") /\ ~UiAt("ready")
           /\ ~(UiAt("loop") /\ UiAt("ready"))
           /\ ~(TgAt("ready") /\ (TgAt("idle") \/ TgAt("probe")))
           /\ tg.at # "idle" <=> ~TgAt("idle")
           /\ ui.at # "loop" <=> ~UiAt("loop")
  BY Owners DEF IInv, TypeOK, PowerSerialized, Resting, TgAt, UiAt

LEMMA GoOn ==
    ASSUME ThreadsCanGoOn
    PROVE  /\ TgAt("want") /\ ~UiAt("ready") => ENABLED <<TgLockPower>>_vars
           /\ TgAt("ready") \/ TgAt("probe") => ENABLED <<TgFinish>>_vars
           /\ UiAt("want") /\ ~TgAt("ready") => ENABLED <<UiLockPower>>_vars
           /\ UiAt("ready") => ENABLED <<\E ok \in BOOLEAN : UiSend(ok)>>_vars
  BY DEF ThreadsCanGoOn, TgAt, UiAt

(* A handler of the polling thread that waits for the power lock, or that  *)
(* holds it, ends (HandlerEnds; lock_power, run_power_action, do_wake), if *)
(* ThreadsCanGoOn holds.                                                   *)
LEMMA HandlersEnd == FairSpec /\ []ThreadsCanGoOn => HandlerEnds
<1>1. IInv /\ [Next]_vars
      => /\ TgAt("want") => TgAt("want")' \/ TgAt("ready")' \/ TgAt("idle")'
         /\ TgAt("ready") => TgAt("ready")' \/ TgAt("probe")' \/ TgAt("idle")'
         /\ TgAt("probe") => TgAt("probe")' \/ TgAt("idle")'
  BY TgAdvances
<1>2. IInv /\ <<TgFinish>>_vars
      => \/ TgAt("ready") /\ (TgAt("probe")' \/ TgAt("idle")')
         \/ TgAt("probe") /\ TgAt("idle")'
  BY TgFinishAdvances
<1>3. IInv /\ <<TgLockPower>>_vars => TgAt("ready")'
  BY TgLockAdvances
<1>4. <<\E ok \in BOOLEAN : UiSend(ok)>>_vars => UiAt("loop")'
  BY UiSendAdvances
<1>5. HandlerEnds <=> (~TgAt("idle") ~> TgAt("idle"))
  <2>1. (tg.at = "idle" <=> TgAt("idle")) /\ (tg.at # "idle" <=> ~TgAt("idle"))
    BY DEF TgAt
  <2> QED
    BY <2>1, PTL DEF HandlerEnds
<1> QED
  BY <1>1, <1>2, <1>3, <1>4, <1>5, Stages, GoOn, SafetyInductive, PTL DEF FairSpec, Spec, Fairness

(* The UI loop comes back to the touch panel (PanelReturns), however often *)
(* the polling thread takes the lock before it, under the same condition.  *)
LEMMA PanelComesBack == FairSpec /\ []ThreadsCanGoOn => PanelReturns
<1>1. IInv /\ [Next]_vars
      => /\ UiAt("want") => UiAt("want")' \/ UiAt("ready")' \/ UiAt("loop")'
         /\ UiAt("ready") => UiAt("ready")' \/ UiAt("loop")'
  BY UiAdvances
<1>2. IInv /\ <<TgFinish>>_vars
      => \/ TgAt("ready") /\ (TgAt("probe")' \/ TgAt("idle")')
         \/ TgAt("probe") /\ TgAt("idle")'
  BY TgFinishAdvances
<1>3. IInv /\ <<UiLockPower>>_vars => UiAt("ready")' \/ UiAt("loop")'
  BY UiLockAdvances
<1>4. <<\E ok \in BOOLEAN : UiSend(ok)>>_vars => UiAt("loop")'
  BY UiSendAdvances
<1>5. PanelReturns <=> (~UiAt("loop") ~> UiAt("loop"))
  <2>1. (ui.at = "loop" <=> UiAt("loop")) /\ (ui.at # "loop" <=> ~UiAt("loop"))
    BY DEF UiAt
  <2> QED
    BY <2>1, PTL DEF PanelReturns
<1> QED
  BY <1>1, <1>2, <1>3, <1>4, <1>5, Stages, GoOn, SafetyInductive, PTL DEF FairSpec, Spec, Fairness

(* Neither thread leaves the other behind the power lock (ThreadsComeBack; *)
(* lock_power, run_power_action, do_wake, the panel of main): the handler  *)
(* of the chat ends and the panel returns, whatever codes, versions and    *)
(* settings there are and however often the other takes the lock, if the   *)
(* guards of the threads are all that holds them back, which is what       *)
(* ThreadsCanGoOn says and a run checks.                                   *)
THEOREM NeitherLeftBehind == FairSpec /\ []ThreadsCanGoOn => ThreadsComeBack
  BY HandlersEnd, PanelComesBack DEF ThreadsComeBack
=============================================================================
