------------------------------- MODULE Panel -------------------------------
(***************************************************************************)
(* The panel of the device: one round after the other of the UI loop       *)
(* (main.rs) with what it draws (ui.rs), the backlight, the touch, the     *)
(* toast, the clock and the calendar; the supply is in Battery.            *)
(*                                                                         *)
(* What the loop learns in a round (Wi-Fi, chat, PC, operation lock) is an *)
(* input of its stage.  What a button sends is the subject of PowerControl *)
(* and leaves a toast here.  Time passes between two rounds.               *)
(***************************************************************************)
EXTENDS Battery, FiniteSets

CONSTANTS Point,        \* points of the touch panel: [x, y]
          PanelAction,  \* PowerActions the panel asks to confirm
          Texts,        \* toasts of an operation that was tried
          Locked,       \* LOCKED_TOAST
          SleepTimeout, \* SLEEP_TIMEOUT
          ToastTtl,     \* TOAST_TTL
          DayMinutes,   \* minutes of a day
          MaxNow,       \* bound on the clock
          MaxEvents     \* bound on what happens to the panel from outside

ASSUME PanelAssumption ==
    /\ \A p \in Point : p.x \in Int /\ p.y \in Int
    /\ None \notin Point /\ None \notin Texts \cup {Locked}
    /\ PanelAction \cap {"main", "calendar"} = {}
    /\ SleepTimeout \in Nat /\ ToastTtl \in Nat /\ MaxNow \in Nat /\ MaxEvents \in Nat
    /\ DayMinutes \in Nat \ {0}

VARIABLES stage,      \* where the UI loop is in its round
          second,     \* BATTERY_POLL_INTERVAL has passed
          wifi, telegram, online, locked,  \* the rest of Status
          toast,      \* toast_text
          toastAge,   \* toast_at.elapsed()
          screen,     \* "main", "calendar" or the action to be confirmed
          clock,      \* clock_minute
          day,        \* calendar_day
          backlight,  \* backlight_on
          lit,        \* DCDC3 of the AXP192 is on
          idle,       \* last_touch_activity_at.elapsed()
          touchDown,  \* touch_was_down
          seen,       \* touch_point of this round
          picture,    \* what the display shows
          now,        \* local minutes, None before NTP
          finger,     \* where the panel is touched, or None
          touch,      \* history: of the touch since the finger landed
          events      \* history: what has happened from outside

status == <<wifi, telegram, online, locked>>
display == <<screen, clock, day, picture>>
shownToast == <<toast, toastAge>>
light == <<backlight, lit, idle>>
touching == <<touchDown, seen, touch>>
world == <<now, finger, events>>
panelVars == <<stage, second, status, display, shownToast, light, touching, world>>
vars == <<batteryVars, panelVars>>

Shared == {"main", "calendar"}

TypeOK ==
    /\ BatteryTypeOK
    /\ stage \in {"wifi", "telegram", "battery", "read", "clear", "status", "lock", "brightness",
                  "touch", "light", "tap", "toast", "clock", "sleep"}
    /\ second \in BOOLEAN /\ wifi \in BOOLEAN /\ telegram \in BOOLEAN
    /\ online \in BOOLEAN /\ locked \in BOOLEAN
    /\ toast \in Texts \cup {Locked, None} /\ toastAge \in 0..ToastTtl
    /\ screen \in Shared \cup PanelAction
    /\ clock \in 0..MaxNow \cup {None} /\ day \in 0..(MaxNow \div DayMinutes) \cup {None}
    /\ backlight \in BOOLEAN /\ lit \in BOOLEAN /\ idle \in 0..SleepTimeout
    /\ touchDown \in BOOLEAN /\ seen \in Point \cup {None}
    /\ now \in 0..MaxNow \cup {None} /\ finger \in Point \cup {None}
    /\ touch \in [dark : BOOLEAN, misread : BOOLEAN, presses : Nat]
    /\ events \in 0..MaxEvents
    /\ picture.screen = screen
    /\ online => wifi
    /\ backlight => lit

-----------------------------------------------------------------------------
(* What is drawn.                                                          *)

Button(left, top, width, height) == [x |-> left, y |-> top, w |-> width, h |-> height]
WakeButton == Button(10, 180, 95, 48)
PowerButton == [Reboot |-> Button(112, 180, 95, 48), Shutdown |-> Button(214, 180, 95, 48)]
ClockTapZone == Button(24, 138, 272, 32)
CalendarBackButton == Button(20, 150, 130, 26)
CancelButton == Button(20, 150, 130, 60)
OkButton == Button(170, 150, 130, 60)

Contains(b, p) == p.x >= b.x /\ p.x < b.x + b.w /\ p.y >= b.y /\ p.y < b.y + b.h

DayOf(t) == IF t = None THEN None ELSE t \div DayMinutes

\* A toast hides that the operations are locked.
Banner(text, isLocked) == IF text # None THEN text ELSE IF isLocked THEN "LOCKED" ELSE None

Header(w, t, b) == <<w, t, b>>

\* The card and the buttons depend on the PC, the clock shows the minute.
MainScreen(header, on, isLocked, text, t) ==
    [screen |-> "main", header |-> header, online |-> on, locked |-> isLocked,
     banner |-> Banner(text, isLocked), time |-> t]

\* No card; the month, with the day.
CalendarScreen(header, on, isLocked, text, t) ==
    [screen |-> "calendar", header |-> header, online |-> on, locked |-> isLocked,
     banner |-> Banner(text, isLocked), time |-> DayOf(t)]

Drawn(s, header, on, isLocked, text, t) ==
    CASE s = "main" -> MainScreen(header, on, isLocked, text, t)
      [] s = "calendar" -> CalendarScreen(header, on, isLocked, text, t)
      [] OTHER -> [screen |-> s]

\* refresh_main and refresh_calendar, with what the status is now.
DrawScreen(s, text) ==
    /\ picture' = Drawn(s, Header(wifi', telegram', battery'), online', locked', text, now)
    /\ clock' = IF s = "main" THEN now ELSE clock
    /\ day' = IF s = "calendar" THEN DayOf(now) ELSE day
    /\ screen' = s

DrawConfirm(action) ==
    /\ picture' = [screen |-> action]
    /\ screen' = action
    /\ UNCHANGED <<clock, day>>

\* Faulty variant: the calendar is left as it is.
RefreshMainOnly(text) ==
    IF screen = "main" THEN DrawScreen(screen, text) ELSE UNCHANGED display

\* A confirmation stays as it is.
RefreshCurrentScreen(text) ==
    IF screen \in Shared THEN DrawScreen(screen, text) ELSE UNCHANGED display

Init ==
    /\ BatteryInit
    /\ stage = "wifi" /\ second = FALSE
    /\ wifi \in BOOLEAN /\ telegram = FALSE /\ online = FALSE /\ locked = FALSE
    /\ toast = None /\ toastAge = 0
    /\ now = None /\ screen = "main" /\ clock = now /\ day = None
    /\ picture = Drawn("main", Header(wifi, telegram, None), online, locked, None, now)
    /\ backlight = TRUE /\ lit = TRUE /\ idle = 0
    /\ touchDown = FALSE /\ seen = None /\ finger = None
    /\ touch = [dark |-> FALSE, misread |-> FALSE, presses |-> 0]
    /\ events = 0

\* What comes from outside is bounded.
Happens(something) ==
    /\ events' = IF something THEN events + 1 ELSE events
    /\ events' <= MaxEvents

Goes(from, to) == stage = from /\ stage' = to

-----------------------------------------------------------------------------
(* The first half of a round: what has changed is drawn.                   *)

\* Without Wi-Fi the PC counts as off.
WifiCheck(up) ==
    /\ Goes("wifi", "telegram") /\ Happens(up # wifi)
    /\ wifi' = up /\ online' = (online /\ up)
    /\ UNCHANGED <<telegram, locked, batteryVars>>
    /\ IF up # wifi THEN RefreshCurrentScreen(toast) ELSE UNCHANGED display
    /\ UNCHANGED <<second, shownToast, light, touching, now, finger>>

TelegramLamp(polling) ==
    /\ Goes("telegram", "battery") /\ Happens(polling # telegram)
    /\ telegram' = polling
    /\ UNCHANGED <<wifi, online, locked, batteryVars>>
    /\ IF polling # telegram THEN RefreshCurrentScreen(toast) ELSE UNCHANGED display
    /\ UNCHANGED <<second, shownToast, light, touching, now, finger>>

\* Once a second the latch is looked at; one that cannot be read counts as set.
LookAtLatch(failed) ==
    /\ second /\ ShouldRead(latch \/ failed)
    /\ Goes("battery", "read") /\ Happens(failed)
    /\ UNCHANGED <<batteryVars, second, status, display, shownToast, light, touching, now, finger>>

NoRead ==
    /\ Goes("battery", "status") /\ second' = FALSE
    /\ IF second THEN SkipRead ELSE UNCHANGED batteryVars
    /\ UNCHANGED <<status, display, shownToast, light, touching, world>>

Read(fault) ==
    /\ Goes("read", "clear") /\ Happens(fault # "none")
    /\ ReadBattery(fault)
    /\ UNCHANGED <<second, status, display, shownToast, light, touching, now, finger>>

\* The battery is in the header only: redraw_header.
Clear(cleared) ==
    /\ Goes("clear", "status") /\ Happens(~cleared) /\ second' = FALSE
    /\ ClearLatch(cleared)
    /\ picture' = IF battery' # battery /\ screen \in Shared
                  THEN [picture EXCEPT !.header = Header(wifi, telegram, battery')]
                  ELSE picture
    /\ UNCHANGED <<status, screen, clock, day, shownToast, light, touching, now, finger>>

\* The STATUS cycle needs the Wi-Fi.
StatusCheck(answer) ==
    /\ Goes("status", "lock") /\ Happens(answer # online)
    /\ answer # online => wifi
    /\ online' = answer
    /\ UNCHANGED <<wifi, telegram, locked, batteryVars>>
    /\ IF answer # online THEN RefreshCurrentScreen(toast) ELSE UNCHANGED display
    /\ UNCHANGED <<second, shownToast, light, touching, now, finger>>

LockLamp(held) ==
    /\ Goes("lock", "brightness") /\ Happens(held # locked)
    /\ locked' = held
    /\ UNCHANGED <<wifi, telegram, online, batteryVars>>
    /\ IF held # locked THEN RefreshCurrentScreen(toast) ELSE UNCHANGED display
    /\ UNCHANGED <<second, shownToast, light, touching, now, finger>>

\* A new brightness is applied at once, and lights the display with it.
Brightness(changed) ==
    /\ Goes("brightness", "touch") /\ Happens(changed)
    /\ lit' = (lit \/ changed)
    /\ UNCHANGED <<batteryVars, second, status, display, shownToast, backlight, idle, touching,
                   now, finger>>

-----------------------------------------------------------------------------
(* The second half: touch, backlight, taps, toast and clock.               *)

\* A touch that cannot be read counts as none.
ReadTouch(failed) ==
    /\ Goes("touch", "light") /\ Happens(failed) /\ (failed => finger # None)
    /\ seen' = IF failed THEN None ELSE finger
    /\ touch' = [touch EXCEPT !.misread = @ \/ failed]
    /\ UNCHANGED <<batteryVars, second, status, display, shownToast, light, touchDown, now, finger>>

RisingEdge == seen # None /\ ~touchDown

Decide ==
    IF RisingEdge THEN IF backlight THEN "ResetIdle" ELSE "Wake"
    ELSE IF backlight /\ idle >= SleepTimeout THEN "TurnOff" ELSE "None"

StayAsItIs ==
    /\ Decide \in {"None", "ResetIdle"} /\ Goes("light", "tap")
    /\ idle' = IF Decide = "ResetIdle" THEN 0 ELSE idle
    /\ UNCHANGED <<batteryVars, second, status, display, shownToast, backlight, lit, touching, world>>

\* set_backlight_on; an error leaves it for the next round.
TurnOff(done) ==
    /\ Decide = "TurnOff" /\ Goes("light", "tap") /\ Happens(~done)
    /\ backlight' = ~done /\ lit' = (lit /\ ~done)
    /\ UNCHANGED <<batteryVars, second, status, display, shownToast, idle, touching, now, finger>>

\* Faulty variant: the touch that wakes goes on to the buttons.
WakeAndTap(done) ==
    /\ Decide = "Wake" /\ Goes("light", "tap")
    /\ backlight' = done /\ lit' = (lit \/ done) /\ idle' = 0
    /\ UNCHANGED <<batteryVars, second, status, display, shownToast, touching, world>>

\* The touch that wakes ends the round; the screen is drawn again.
Wake(done) ==
    /\ Decide = "Wake" /\ Goes("light", "sleep") /\ Happens(~done)
    /\ backlight' = done /\ lit' = (lit \/ done) /\ idle' = IF done THEN 0 ELSE idle
    /\ touchDown' = TRUE
    /\ UNCHANGED <<batteryVars, second, status, shownToast, seen, touch, now, finger>>
    /\ IF screen \in Shared THEN RefreshCurrentScreen(toast) ELSE DrawConfirm(screen)

\* What a point stands for on the screen that is shown.
Hits(b) == RisingEdge /\ Contains(b, seen)
PowerTapped ==
    IF screen \in Shared
    THEN Hits(WakeButton) \/ \E a \in DOMAIN PowerButton : Hits(PowerButton[a])
    ELSE Hits(OkButton)
Target ==
    CASE screen \in Shared /\ Hits(WakeButton) -> "wake"
      [] screen \in Shared /\ \E a \in PanelAction : online /\ Hits(PowerButton[a]) -> "power"
      [] screen = "main" /\ Hits(ClockTapZone) -> "clock"
      [] screen = "calendar" /\ Hits(CalendarBackButton) -> "back"
      [] screen \in PanelAction /\ Hits(CancelButton) -> "cancel"
      [] screen \in PanelAction /\ Hits(OkButton) -> "ok"
      [] OTHER -> "nothing"

SetToast(text) == toast' = text /\ toastAge' = 0

\* Every tap: the operation lock is looked at (and again under the power lock).
Tap(held, next) ==
    /\ stage = "tap" /\ stage' = next
    /\ PowerTapped \/ ~held
    /\ Happens(PowerTapped /\ held # locked)
    /\ touchDown' = (seen # None)
    /\ touch' = IF Target = "nothing" /\ ~held THEN touch ELSE [touch EXCEPT !.presses = @ + 1]
    /\ UNCHANGED <<batteryVars, second, status, light, seen, now, finger>>

RejectLocked ==
    /\ PowerTapped /\ Tap(TRUE, "sleep")
    /\ SetToast(Locked) /\ DrawScreen("main", Locked)

TapNothing ==
    /\ Target = "nothing" /\ Tap(FALSE, "toast")
    /\ UNCHANGED <<display, shownToast>>

TapWake(text) ==
    /\ Target = "wake" /\ Tap(FALSE, "toast")
    /\ SetToast(text) /\ RefreshCurrentScreen(text)

TapPower(action) ==
    /\ Target = "power" /\ Hits(PowerButton[action]) /\ Tap(FALSE, "toast")
    /\ DrawConfirm(action) /\ UNCHANGED shownToast

TapClock ==
    /\ Target = "clock" /\ Tap(FALSE, "toast")
    /\ DrawScreen("calendar", toast) /\ UNCHANGED shownToast

TapBack ==
    /\ Target = "back" /\ Tap(FALSE, "toast")
    /\ DrawScreen("main", toast) /\ UNCHANGED shownToast

TapCancel ==
    /\ Target = "cancel" /\ Tap(FALSE, "toast")
    /\ SetToast(None) /\ DrawScreen("main", None)

TapOk(text) ==
    /\ Target = "ok" /\ Tap(FALSE, "toast")
    /\ SetToast(text) /\ DrawScreen("main", text)

IsExpired(shown, age) == shown /\ age >= ToastTtl

ToastExpires ==
    /\ Goes("toast", "clock")
    /\ UNCHANGED <<batteryVars, second, status, light, touching, world>>
    /\ IF IsExpired(toast # None, toastAge)
       THEN SetToast(None) /\ RefreshCurrentScreen(None)
       ELSE UNCHANGED <<shownToast, display>>

\* Only what is seen: the clock on the main screen, the day on the calendar.
ClockAndCalendar ==
    /\ Goes("clock", "sleep")
    /\ UNCHANGED <<batteryVars, second, status, shownToast, light, touching, world>>
    /\ IF backlight /\ screen = "main" /\ clock # now
       THEN /\ clock' = now /\ picture' = [picture EXCEPT !.time = now]
            /\ UNCHANGED <<screen, day>>
       ELSE IF backlight /\ screen = "calendar" /\ day # DayOf(now)
       THEN DrawScreen("calendar", toast)
       ELSE UNCHANGED display

-----------------------------------------------------------------------------
(* The world, between two rounds; the supply may change at any point where *)
(* the loop can tell.                                                      *)

Capped(n, limit) == IF n > limit THEN limit ELSE n

\* TOUCH_POLL_INTERVAL: seconds and minutes begin now and then; t is the time.
Sleep(dt, t) ==
    /\ Goes("sleep", "wifi") /\ Happens(t # now)
    /\ now' = t
    /\ second' = (second \/ dt > 0)
    /\ toastAge' = IF toast = None THEN 0 ELSE Capped(toastAge + dt, ToastTtl)
    /\ idle' = Capped(idle + dt, SleepTimeout)
    /\ sinceRead' = Capped(sinceRead + dt, FullRead)
    /\ UNCHANGED <<supply, latch, reading, judged, disturbed, status, display, toast, backlight,
                   lit, touching, finger>>

Later == IF now = None THEN 0..MaxNow ELSE {t \in 0..MaxNow : t = now + 1}

FingerLands(p) ==
    /\ stage = "sleep" /\ finger = None /\ finger' = p /\ Happens(TRUE)
    /\ touch' = [dark |-> ~lit, misread |-> FALSE, presses |-> 0]
    /\ UNCHANGED <<batteryVars, stage, second, status, display, shownToast, light, touchDown, seen,
                   now>>

FingerSlides(p) ==
    /\ stage = "sleep" /\ finger \notin {None, p} /\ finger' = p /\ Happens(TRUE)
    /\ UNCHANGED <<batteryVars, stage, second, status, display, shownToast, light, touching, now>>

FingerLifts ==
    /\ stage = "sleep" /\ finger # None /\ finger' = None
    /\ UNCHANGED <<batteryVars, stage, second, status, display, shownToast, light, touching, now,
                   events>>

Supply ==
    /\ stage \in {"sleep", "read", "clear"} /\ Happens(TRUE)
    /\ SupplyChanges(stage = "clear")
    /\ UNCHANGED <<stage, second, status, display, shownToast, light, touching, now, finger>>

UiLoop ==
    \/ \E b \in BOOLEAN : \/ WifiCheck(b) \/ TelegramLamp(b) \/ LookAtLatch(b) \/ Clear(b)
                          \/ StatusCheck(b) \/ LockLamp(b) \/ Brightness(b) \/ ReadTouch(b)
                          \/ TurnOff(b) \/ Wake(b)
    \/ NoRead \/ StayAsItIs \/ RejectLocked \/ TapNothing \/ TapClock \/ TapBack \/ TapCancel
    \/ ToastExpires \/ ClockAndCalendar
    \/ \E fault \in {"none", "silent", "partial"} : Read(fault)
    \/ \E text \in Texts : TapWake(text) \/ TapOk(text)
    \/ \E action \in PanelAction : TapPower(action)
    \/ \E dt \in 0..1, t \in {now} \cup Later : Sleep(dt, t)
World == Supply \/ FingerLifts \/ \E p \in Point : FingerLands(p) \/ FingerSlides(p)
Next == UiLoop \/ World

Spec == Init /\ [][Next]_vars

-----------------------------------------------------------------------------
(* Properties.                                                             *)

\* At the end of a round a lit display shows what the loop knows: the screen
\* it acts on, the status, the toast or the lock, the minute or the day,
\* whatever was drawn apart, skipped in the dark or hidden by a confirmation.
ShownIsCurrent ==
    stage = "sleep" /\ backlight =>
        picture = Drawn(screen, Header(wifi, telegram, battery), online, locked, toast, now)

\* One touch presses one thing at most, and none if the display was dark when
\* the finger came down, however long it stays (main.rs: one tap, one action;
\* the first touch is used up), unless the touch could not be read meanwhile.
OneTouchOnePress ==
    touch.misread \/ touch.presses <= IF touch.dark THEN 0 ELSE 1
=============================================================================
