------------------------------ MODULE Battery ------------------------------
(***************************************************************************)
(* The supply of the device: what the UI loop reads of the AXP192          *)
(* (board.rs), when it reads it (battery-read), and when it tells the      *)
(* owner that the supply has gone or is back (battery).                    *)
(*                                                                         *)
(* The AXP192 latches every edge of the supply.  Once a second the loop    *)
(* looks at the latch, reads if it is set, and clears it: three accesses,  *)
(* between which the supply may change.  The percentage is left out.       *)
(***************************************************************************)
EXTENDS Integers

CONSTANTS StablePolls,  \* POWER_NOTIFY_STABLE_POLLS
          FullRead,     \* FULL_READ_INTERVAL in seconds
          FirstSupply,  \* the supply at the start
          None

ASSUME BatteryAssumption ==
    /\ StablePolls \in Nat \ {0} /\ FullRead \in Nat \ {0} /\ None \notin Nat
    /\ FirstSupply \in {"Charging", "Powered", "OnBattery"}

VARIABLES supply,       \* what the supply does
          latch,        \* IRQ latch of the AXP192
          sinceRead,    \* battery_at.elapsed()
          reading,      \* result of read_battery on its way to the status
          battery,      \* status.battery
          powerNotify,  \* PowerNotify
          truths,       \* history: polls in a row of one value that was true then
          disturbed     \* history: a read failed, or an edge was cleared unread

judged == <<battery, powerNotify, truths>>
batteryVars == <<supply, latch, sinceRead, reading, judged, disturbed>>

PowerState == {"Charging", "Powered", "OnBattery"}
Classify(charging, powered) ==
    IF charging THEN "Charging" ELSE IF powered THEN "Powered" ELSE "OnBattery"
IsPowered(state) == state # "OnBattery"

BatteryTypeOK ==
    /\ supply \in PowerState /\ latch \in BOOLEAN /\ sinceRead \in 0..FullRead
    /\ reading \in PowerState \cup {None} /\ battery \in PowerState \cup {None}
    /\ powerNotify \in [notified : BOOLEAN \cup {None}, streak : 0..(StablePolls - 1)]
    /\ truths \in 0..StablePolls /\ disturbed \in BOOLEAN

BatteryInit ==
    /\ supply = FirstSupply /\ latch = FALSE /\ sinceRead = 0
    /\ reading = None /\ battery = None
    /\ powerNotify = [notified |-> None, streak |-> 0]
    /\ truths = 0 /\ disturbed = FALSE

\* The supply comes or goes, charging starts or ends: enable_power_irqs has
\* all four latched.  clearing: the loop has read but not yet cleared.
SupplyChanges(clearing) ==
    /\ supply' \in PowerState \ {supply}
    /\ latch' = TRUE
    /\ disturbed' = (disturbed \/ clearing)
    /\ UNCHANGED <<sinceRead, reading, judged>>

\* A latch that cannot be read counts as set.
ShouldRead(pending) == pending \/ sinceRead >= FullRead

\* read_battery: no answer at all, or a register of it that is taken as "no".
ReadBattery(fault) ==
    /\ sinceRead' = 0
    /\ reading' = CASE fault = "none"    -> Classify(supply = "Charging", IsPowered(supply))
                    [] fault = "silent"  -> None
                    [] fault = "partial" -> Classify(FALSE, FALSE)
    /\ disturbed' = (disturbed \/ fault # "none")
    /\ UNCHANGED <<supply, latch, judged>>

\* Faulty variant: one observation less.
PollEarly(notify, observed) ==
    IF notify.notified \in {None, observed} THEN [notified |-> observed, streak |-> 0]
    ELSE IF notify.streak + 2 >= StablePolls THEN [notified |-> observed, streak |-> 0]
    ELSE [notify EXCEPT !.streak = @ + 1]

\* PowerNotify::poll: what was told is told otherwise only after StablePolls
\* observations in a row.
Poll(notify, observed) ==
    IF notify.notified \in {None, observed} THEN [notified |-> observed, streak |-> 0]
    ELSE IF notify.streak + 1 >= StablePolls THEN [notified |-> observed, streak |-> 0]
    ELSE [notify EXCEPT !.streak = @ + 1]

\* power_notify.poll of status.battery, which is now b; None is not observed.
PollPower(b) ==
    /\ battery' = b
    /\ IF b = None THEN UNCHANGED <<powerNotify, truths>>
       ELSE LET observed == IsPowered(b)
                differs == powerNotify.notified \notin {None, observed}
            IN  /\ powerNotify' = Poll(powerNotify, observed)
                /\ truths' = IF ~differs \/ IsPowered(supply) # observed THEN 0
                             ELSE IF truths < StablePolls THEN truths + 1 ELSE truths

\* Once a second, without a reason to read.
SkipRead ==
    /\ ~ShouldRead(latch)
    /\ PollPower(battery)
    /\ UNCHANGED <<supply, latch, sinceRead, reading, disturbed>>

\* clear_power_irq_status, then the status and the notice; an error leaves
\* the latch for the next second.
ClearLatch(cleared) ==
    /\ latch' = (latch /\ ~cleared)
    /\ PollPower(reading)
    /\ reading' = None
    /\ UNCHANGED <<supply, sinceRead, disturbed>>

\* A notice that the supply has gone, or is back, is about something steady:
\* it was so at each of the StablePolls looks before (POWER_NOTIFY_STABLE_POLLS,
\* against bad contacts), unless a read failed or an edge was cleared unread.
PowerNoticeSteady ==
    [][powerNotify.notified \notin {None, powerNotify'.notified} =>
         truths' = StablePolls \/ disturbed]_batteryVars
=============================================================================
