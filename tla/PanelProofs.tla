----------------------------- MODULE PanelProofs -----------------------------
(***************************************************************************)
(* What the panel shows, what a touch presses and what is told of the      *)
(* supply, proved for any screens, points, toasts, times and counts.       *)
(*                                                                         *)
(* None of the three properties holds from one step to the next by itself: *)
(* the first speaks of the end of a round only, the second of the whole    *)
(* time a finger stays, the third of several readings.  The invariant says *)
(* what is true of the picture, the touch and the readings in each stage.  *)
(***************************************************************************)
EXTENDS Panel, TLAPS

-----------------------------------------------------------------------------
(* The inductive invariants.                                               *)

\* What has been observed of the supply is what it is, unless the latch says
\* otherwise; and what was counted was true.
SupplyInv ==
    /\ supply \in PowerState /\ latch \in BOOLEAN
    /\ reading \in PowerState \cup {None} /\ battery \in PowerState \cup {None}
    /\ powerNotify.streak \in Nat /\ truths \in 0..StablePolls
    /\ powerNotify = [notified |-> powerNotify.notified, streak |-> powerNotify.streak]
    /\ ~disturbed /\ stage = "clear" => reading = supply
    /\ ~disturbed /\ stage # "clear" /\ ~latch => battery \in {None, supply}
    /\ ~disturbed => truths >= powerNotify.streak

\* A touch that has pressed, or has begun in the dark, is known to be down
\* before its next chance to press.
TouchInv ==
    /\ touch = [dark |-> touch.dark, misread |-> touch.misread, presses |-> touch.presses]
    /\ touch.presses \in Nat
    /\ backlight => lit
    /\ stage \in {"light", "tap"} => touch.misread \/ seen = finger
    /\ OneTouchOnePress
    /\ (touch.dark \/ touch.presses > 0) /\ finger # None /\ ~touch.misread =>
         touchDown \/ (~backlight /\ stage \notin {"tap", "toast", "clock"})

\* The picture of each screen is up to date in all but the time, and at the
\* end of a round in the light in the time too.
UpToDate ==
    /\ screen \in Shared \cup PanelAction
    /\ screen = "main" =>
         picture = MainScreen(Header(wifi, telegram, battery), online, locked, toast, clock)
    /\ screen = "calendar" =>
         picture = [CalendarScreen(Header(wifi, telegram, battery), online, locked, toast, None)
                      EXCEPT !.time = day]
    /\ screen \in PanelAction => picture = [screen |-> screen]

TimeShown ==
    /\ screen = "main" => clock = now
    /\ screen = "calendar" => day = DayOf(now)

PictureInv ==
    /\ UpToDate
    /\ wifi \in BOOLEAN /\ online \in BOOLEAN /\ (online => wifi)
    /\ stage = "sleep" /\ backlight => TimeShown

-----------------------------------------------------------------------------
(* The supply.                                                             *)

\* PowerNotify::poll, fed with what is so, counts no more than was so.
LEMMA PollSafe ==
    ASSUME SupplyInv, NEW b \in PowerState \cup {None}, PollPower(b),
           ~disturbed /\ b # None => b = supply
    PROVE  /\ battery' = b
           /\ powerNotify'.streak \in Nat /\ truths' \in 0..StablePolls
           /\ powerNotify' = [notified |-> powerNotify'.notified, streak |-> powerNotify'.streak]
           /\ ~disturbed => truths' >= powerNotify'.streak
           /\ powerNotify.notified \notin {None, powerNotify'.notified} =>
                truths' = StablePolls \/ disturbed
<1> DEFINE observed == IsPowered(b)
           differs == powerNotify.notified \notin {None, observed}
<1>1. /\ powerNotify.streak \in Nat /\ truths \in Nat /\ truths <= StablePolls /\ StablePolls \in Nat
      /\ StablePolls > 0 /\ battery' = b
  BY BatteryAssumption DEF SupplyInv, PollPower
<1>2. CASE b = None
  BY <1>1, <1>2 DEF SupplyInv, PollPower
<1>3. CASE b # None /\ ~differs
  <2>1. powerNotify' = [notified |-> observed, streak |-> 0] /\ truths' = 0
    BY <1>3 DEF PollPower, Poll
  <2> QED
    BY <1>1, <1>3, <2>1
<1>4. CASE b # None /\ differs
  <2>1. ~disturbed => truths' = IF truths < StablePolls THEN truths + 1 ELSE truths
    BY <1>4 DEF PollPower
  <2>2. truths' \in 0..StablePolls
    BY <1>1, <1>4 DEF PollPower
  <2>3. ~disturbed => truths >= powerNotify.streak
    BY DEF SupplyInv
  <2>4. CASE powerNotify.streak + 1 >= StablePolls
    <3>1. powerNotify' = [notified |-> observed, streak |-> 0]
      BY <1>4, <2>4 DEF PollPower, Poll
    <3>2. ~disturbed => truths' = StablePolls
      BY <1>1, <2>1, <2>3, <2>4
    <3> QED
      BY <1>1, <2>2, <3>1, <3>2
  <2>5. CASE powerNotify.streak + 1 < StablePolls
    <3>1. powerNotify' = [powerNotify EXCEPT !.streak = @ + 1]
      BY <1>1, <1>4, <2>5 DEF PollPower, Poll
    <3>2. powerNotify' = [notified |-> powerNotify.notified, streak |-> powerNotify.streak + 1]
      BY <3>1 DEF SupplyInv
    <3>3. ~disturbed => truths' >= powerNotify.streak + 1
      BY <1>1, <2>1, <2>3, <2>5
    <3> QED
      BY <1>1, <2>2, <3>2, <3>3
  <2> QED
    BY <1>1, <2>4, <2>5
<1> QED
  BY <1>2, <1>3, <1>4

LEMMA SupplyInit == Init => SupplyInv
<1> SUFFICES ASSUME Init PROVE SupplyInv
  OBVIOUS
<1>1. /\ supply \in PowerState /\ latch \in BOOLEAN /\ ~latch
      /\ reading = None /\ battery = None /\ truths = 0 /\ stage = "wifi"
  BY BatteryAssumption DEF Init, BatteryInit, PowerState
<1>2. powerNotify = [notified |-> None, streak |-> 0]
  BY DEF Init, BatteryInit
<1>3. truths \in 0..StablePolls
  BY <1>1, BatteryAssumption
<1> QED
  BY <1>1, <1>2, <1>3 DEF SupplyInv

\* What PowerNoticeSteady says of a step.
SteadyStep ==
    powerNotify.notified \notin {None, powerNotify'.notified} => truths' = StablePolls \/ disturbed

\* The stages that have nothing to do with the supply.
LEMMA SupplyAside ==
    ASSUME SupplyInv, UNCHANGED <<supply, latch, reading, judged, disturbed>>,
           stage # "clear", stage' # "clear"
    PROVE  SupplyInv' /\ SteadyStep
  BY DEF SupplyInv, SteadyStep, judged

LEMMA SupplySafe == ASSUME SupplyInv, Supply PROVE SupplyInv' /\ SteadyStep
<1>1. /\ supply' \in PowerState /\ latch' = TRUE /\ UNCHANGED <<stage, reading, judged>>
      /\ ~disturbed' => ~disturbed /\ stage # "clear"
  BY DEF Supply, SupplyChanges
<1> QED
  BY <1>1 DEF SupplyInv, SteadyStep, judged

LEMMA ReadSafe ==
    ASSUME SupplyInv, NEW fault \in {"none", "silent", "partial"}, Read(fault)
    PROVE  SupplyInv' /\ SteadyStep
<1>1. /\ UNCHANGED <<supply, latch, judged>> /\ stage' = "clear"
      /\ ~disturbed' => ~disturbed /\ fault = "none"
  BY DEF Read, ReadBattery, Goes
<1>2. reading' \in PowerState \cup {None} /\ (fault = "none" => reading' = supply)
  BY DEF Read, ReadBattery, Classify, IsPowered, SupplyInv, PowerState
<1> QED
  BY <1>1, <1>2 DEF SupplyInv, SteadyStep, judged

\* The latch is not set: what is known still holds.
LEMMA SkipSafe == ASSUME SupplyInv, NoRead PROVE SupplyInv' /\ SteadyStep
<1>1. stage = "battery" /\ stage' = "status"
  BY DEF NoRead, Goes
<1>2. CASE second
  <2>1. /\ ~latch /\ PollPower(battery) /\ UNCHANGED <<supply, latch, reading, disturbed>>
    BY <1>2 DEF NoRead, SkipRead, ShouldRead
  <2>2. battery \in PowerState \cup {None} /\ (~disturbed /\ battery # None => battery = supply)
    BY <1>1, <2>1 DEF SupplyInv
  <2>3. /\ battery' = battery
        /\ powerNotify'.streak \in Nat /\ truths' \in 0..StablePolls
        /\ powerNotify' = [notified |-> powerNotify'.notified, streak |-> powerNotify'.streak]
        /\ ~disturbed => truths' >= powerNotify'.streak
        /\ SteadyStep
    BY <2>1, <2>2, PollSafe DEF SteadyStep
  <2> QED
    BY <1>1, <2>1, <2>2, <2>3 DEF SupplyInv
<1>3. CASE ~second
  BY <1>1, <1>3, SupplyAside DEF NoRead, batteryVars
<1> QED
  BY <1>2, <1>3

\* What has been read is the supply, unless it has changed since.
LEMMA ClearSafe ==
    ASSUME SupplyInv, NEW cleared \in BOOLEAN, Clear(cleared) PROVE SupplyInv' /\ SteadyStep
<1>1. /\ stage = "clear" /\ stage' = "status" /\ PollPower(reading)
      /\ latch' = (latch /\ ~cleared) /\ reading' = None /\ UNCHANGED <<supply, disturbed>>
  BY DEF Clear, ClearLatch, Goes
<1>2. reading \in PowerState \cup {None} /\ (~disturbed => reading = supply)
  BY <1>1 DEF SupplyInv
<1>3. /\ battery' = reading
      /\ powerNotify'.streak \in Nat /\ truths' \in 0..StablePolls
      /\ powerNotify' = [notified |-> powerNotify'.notified, streak |-> powerNotify'.streak]
      /\ ~disturbed => truths' >= powerNotify'.streak
      /\ SteadyStep
  BY <1>1, <1>2, PollSafe DEF SteadyStep
<1>4. latch' \in BOOLEAN
  BY <1>1
<1> QED
  BY <1>1, <1>2, <1>3, <1>4 DEF SupplyInv

LEMMA SupplyKept == ASSUME SupplyInv, [Next]_vars PROVE SupplyInv' /\ SteadyStep
<1>1. CASE UNCHANGED vars
  BY <1>1 DEF SupplyInv, SteadyStep, vars, batteryVars, panelVars, judged
<1>2. ASSUME NEW b \in BOOLEAN,
             \/ WifiCheck(b) \/ TelegramLamp(b) \/ LookAtLatch(b) \/ StatusCheck(b) \/ LockLamp(b)
             \/ Brightness(b) \/ ReadTouch(b) \/ TurnOff(b) \/ Wake(b)
      PROVE  SupplyInv' /\ SteadyStep
  BY <1>2, SupplyAside
  DEF WifiCheck, TelegramLamp, LookAtLatch, StatusCheck, LockLamp, Brightness, ReadTouch, TurnOff,
      Wake, Goes, batteryVars
<1>3. ASSUME NEW held, NEW next \in {"toast", "sleep"}, Tap(held, next)
      PROVE  SupplyInv' /\ SteadyStep
  BY <1>3, SupplyAside DEF Tap, batteryVars
<1>4. CASE \/ RejectLocked \/ TapNothing \/ TapClock \/ TapBack \/ TapCancel
           \/ \E text \in Texts : TapWake(text) \/ TapOk(text)
           \/ \E action \in PanelAction : TapPower(action)
  BY <1>3, <1>4 DEF RejectLocked, TapNothing, TapClock, TapBack, TapCancel, TapWake, TapOk, TapPower
<1>5. CASE StayAsItIs \/ ToastExpires \/ ClockAndCalendar
  BY <1>5, SupplyAside DEF StayAsItIs, ToastExpires, ClockAndCalendar, Goes, batteryVars
<1>6. ASSUME NEW dt, NEW t, Sleep(dt, t) PROVE SupplyInv' /\ SteadyStep
  BY <1>6, SupplyAside DEF Sleep, Goes
<1>7. CASE FingerLifts \/ \E p \in Point : FingerLands(p) \/ FingerSlides(p)
  BY <1>7, SupplyAside DEF FingerLifts, FingerLands, FingerSlides, batteryVars
<1> QED
  BY <1>1, <1>2, <1>4, <1>5, <1>6, <1>7, SupplySafe, ReadSafe, SkipSafe, ClearSafe
  DEF Next, UiLoop, World
-----------------------------------------------------------------------------
(* The touch.                                                              *)

LEMMA TouchInit == Init => TouchInv
  BY DEF Init, TouchInv, OneTouchOnePress

\* A step that leaves the touch and the backlight alone.
LEMMA TouchAside ==
    ASSUME TouchInv, UNCHANGED <<seen, touch, finger, touchDown, backlight>>, lit => lit',
           stage' \in {"light", "tap"} => stage \in {"light", "tap"},
           stage' \in {"toast", "clock"} => stage \in {"toast", "clock"},
           stage' # "tap"
    PROVE  TouchInv'
  BY DEF TouchInv, OneTouchOnePress

LEMMA ReadTouchSafe ==
    ASSUME TouchInv, NEW failed \in BOOLEAN, ReadTouch(failed) PROVE TouchInv'
<1>1. /\ stage' = "light" /\ UNCHANGED <<finger, touchDown, backlight, lit>> /\ stage = "touch"
      /\ touch' = [touch EXCEPT !.misread = @ \/ failed]
      /\ seen' = IF failed THEN None ELSE finger
  BY DEF ReadTouch, Goes, light
<1>2. touch' = [dark |-> touch.dark, misread |-> touch.misread \/ failed, presses |-> touch.presses]
  BY <1>1 DEF TouchInv
<1>3. ~touch'.misread => ~touch.misread /\ seen' = finger
  BY <1>1, <1>2
<1> QED
  BY <1>1, <1>2, <1>3 DEF TouchInv, OneTouchOnePress

\* Without the backlight a new touch does not get past it.
LEMMA StaySafe ==
    ASSUME TouchInv, \/ StayAsItIs \/ \E done \in BOOLEAN : TurnOff(done) PROVE TouchInv'
<1>1. /\ stage = "light" /\ stage' = "tap" /\ UNCHANGED <<seen, touch, finger, touchDown>>
      /\ Decide # "Wake" /\ (backlight' => lit' /\ backlight)
  <2>1. CASE StayAsItIs
    BY <2>1 DEF StayAsItIs, Goes, touching, world, TouchInv
  <2>2. ASSUME NEW done \in BOOLEAN, TurnOff(done)
        PROVE  /\ stage = "light" /\ stage' = "tap" /\ UNCHANGED <<seen, touch, finger, touchDown>>
               /\ Decide # "Wake" /\ (backlight' => lit' /\ backlight)
    <3>1. Decide = "TurnOff"
      BY <2>2 DEF TurnOff
    <3>2. backlight
      BY <3>1 DEF Decide
    <3>3. backlight' = ~done /\ lit' = (lit /\ ~done)
      BY <2>2 DEF TurnOff
    <3>4. backlight' => lit'
      BY <3>2, <3>3 DEF TouchInv
    <3> QED
      BY <2>2, <3>1, <3>2, <3>4 DEF TurnOff, Goes, touching
  <2> QED
    BY <2>1, <2>2
<1>2. seen # None /\ ~touchDown => backlight
  BY <1>1 DEF Decide, RisingEdge
<1> QED
  BY <1>1, <1>2 DEF TouchInv, OneTouchOnePress

LEMMA WakeSafe == ASSUME TouchInv, NEW done \in BOOLEAN, Wake(done) PROVE TouchInv'
<1>1. /\ stage' = "sleep" /\ touchDown' = TRUE /\ UNCHANGED <<touch, finger>>
      /\ backlight' = done /\ lit' = (lit \/ done)
  BY DEF Wake, Goes
<1> QED
  BY <1>1 DEF TouchInv, OneTouchOnePress

\* A tap on something is a touch that has just begun, in the light.
LEMMA TapSafe ==
    ASSUME TouchInv, NEW held \in BOOLEAN, NEW next \in {"toast", "sleep"}, Tap(held, next),
           Target # "nothing" \/ PowerTapped => RisingEdge
    PROVE  TouchInv'
<1>1. /\ stage = "tap" /\ stage' = next /\ touchDown' = (seen # None)
      /\ UNCHANGED <<backlight, lit, finger, seen>>
  BY DEF Tap, light
<1>2. CASE UNCHANGED touch
  BY <1>1, <1>2 DEF TouchInv, OneTouchOnePress
<1>3. CASE touch' # touch
  <2>1. touch' = [touch EXCEPT !.presses = @ + 1] /\ (Target # "nothing" \/ held)
    BY <1>3 DEF Tap
  <2>2. RisingEdge
    BY <2>1 DEF Tap
  <2>3. touch' = [dark |-> touch.dark, misread |-> touch.misread, presses |-> touch.presses + 1]
    BY <2>1 DEF TouchInv
  <2>4. seen # None /\ ~touchDown
    BY <2>2 DEF RisingEdge
  <2>5. touch.misread \/ (~touch.dark /\ touch.presses = 0)
    BY <1>1, <2>4 DEF TouchInv
  <2>6. OneTouchOnePress'
    BY <2>3, <2>5 DEF OneTouchOnePress
  <2>7. touch'.presses \in Nat /\ touchDown'
    <3>1. touch'.presses \in Nat
      BY <2>3 DEF TouchInv
    <3>2. touchDown'
      BY <1>1, <2>4, Zenon
    <3> QED
      BY <3>1, <3>2
  <2>8. stage' \notin {"light", "tap"} /\ (backlight' => lit')
    BY <1>1 DEF TouchInv
  <2>9. touch' = [dark |-> touch'.dark, misread |-> touch'.misread, presses |-> touch'.presses]
    BY <2>3
  <2> QED
    BY <2>6, <2>7, <2>8, <2>9, Zenon DEF TouchInv
<1> QED
  BY <1>2, <1>3
LEMMA LandsSafe == ASSUME TouchInv, NEW p \in Point, FingerLands(p) PROVE TouchInv'
<1>1. /\ touch' = [dark |-> ~lit, misread |-> FALSE, presses |-> 0]
      /\ stage = "sleep" /\ UNCHANGED <<stage, backlight, lit>>
  BY DEF FingerLands, light
<1>2. OneTouchOnePress'
  BY <1>1 DEF OneTouchOnePress
<1>3. touch'.dark = ~lit /\ touch'.presses = 0 /\ ~(touch'.presses > 0) /\ touch'.presses \in Nat
  BY <1>1
<1>4. touch' = [dark |-> touch'.dark, misread |-> touch'.misread, presses |-> touch'.presses]
  BY <1>1
<1>5. touch'.dark => ~backlight'
  BY <1>1, <1>3, Zenon DEF TouchInv
<1>6. stage' \notin {"light", "tap", "toast", "clock"} /\ (backlight' => lit')
  BY <1>1 DEF TouchInv
<1> QED
  BY <1>2, <1>3, <1>4, <1>5, <1>6, Zenon DEF TouchInv

LEMMA SlidesSafe ==
    ASSUME TouchInv, FingerLifts \/ \E p \in Point : FingerSlides(p) PROVE TouchInv'
<1>1. /\ stage = "sleep" /\ UNCHANGED <<stage, backlight, lit, touch, touchDown>>
      /\ finger' = None \/ finger # None
  BY DEF FingerLifts, FingerSlides, light, touching
<1> QED
  BY <1>1 DEF TouchInv, OneTouchOnePress

\* Every target but nothing is a touch that has just begun.
LEMMA TargetRises == Target # "nothing" \/ PowerTapped => RisingEdge
  BY DEF Target, PowerTapped, Hits

LEMMA TouchKept == ASSUME TouchInv, [Next]_vars PROVE TouchInv'
<1>1. CASE UNCHANGED vars
  BY <1>1, TouchAside DEF TouchInv, OneTouchOnePress, vars, panelVars, touching, world, light
<1>2. ASSUME NEW b \in BOOLEAN,
             \/ WifiCheck(b) \/ TelegramLamp(b) \/ LookAtLatch(b) \/ Clear(b) \/ StatusCheck(b)
             \/ LockLamp(b)
      PROVE  TouchInv'
  BY <1>2, TouchAside
  DEF WifiCheck, TelegramLamp, LookAtLatch, Clear, StatusCheck, LockLamp, Goes, touching, light
<1>3. ASSUME NEW b \in BOOLEAN, Brightness(b) PROVE TouchInv'
  BY <1>3, TouchAside DEF Brightness, Goes, touching
<1>4. CASE NoRead \/ \E fault \in {"none", "silent", "partial"} : Read(fault)
  BY <1>4, TouchAside DEF NoRead, Read, Goes, touching, world, light
<1>5. CASE ToastExpires \/ ClockAndCalendar
  BY <1>5, TouchAside DEF ToastExpires, ClockAndCalendar, Goes, touching, world, light
<1>6. ASSUME NEW dt, NEW t, Sleep(dt, t) PROVE TouchInv'
  BY <1>6, TouchAside DEF Sleep, Goes, touching
<1>7. CASE Supply
  BY <1>7, TouchAside DEF Supply, touching, light, TouchInv, OneTouchOnePress
<1>8. ASSUME NEW held \in BOOLEAN, NEW next \in {"toast", "sleep"}, Tap(held, next) PROVE TouchInv'
  BY <1>8, TapSafe, TargetRises
<1>9. CASE \/ RejectLocked \/ TapNothing \/ TapClock \/ TapBack \/ TapCancel
           \/ \E text \in Texts : TapWake(text) \/ TapOk(text)
           \/ \E action \in PanelAction : TapPower(action)
  BY <1>8, <1>9 DEF RejectLocked, TapNothing, TapClock, TapBack, TapCancel, TapWake, TapOk, TapPower
<1> QED
  BY <1>1, <1>2, <1>3, <1>4, <1>5, <1>6, <1>7, <1>9, ReadTouchSafe, StaySafe, WakeSafe, LandsSafe,
     SlidesSafe
  DEF Next, UiLoop, World
-----------------------------------------------------------------------------
(* The picture.                                                            *)

LEMMA Screens == /\ "main" \in Shared /\ "calendar" \in Shared
                 /\ \A s \in PanelAction : s \notin Shared
                 /\ \A s \in Shared : s \in {"main", "calendar"} /\ s \notin PanelAction
  BY PanelAssumption DEF Shared

\* A screen that is drawn shows all there is.
LEMMA DrawSafe ==
    ASSUME NEW s \in Shared, NEW text, DrawScreen(s, text), toast' = text, UNCHANGED now
    PROVE  UpToDate' /\ TimeShown'
<1>1. CASE s = "main"
  <2>1. /\ screen' = "main" /\ clock' = now
        /\ picture' = MainScreen(Header(wifi', telegram', battery'), online', locked', text, now)
    BY <1>1 DEF DrawScreen, Drawn
  <2> QED
    BY <2>1, Screens DEF UpToDate, TimeShown, MainScreen, Header, Banner
<1>2. CASE s = "calendar"
  <2>1. /\ screen' = "calendar" /\ day' = DayOf(now)
        /\ picture' = CalendarScreen(Header(wifi', telegram', battery'), online', locked', text, now)
    BY <1>2 DEF DrawScreen, Drawn
  <2>2. picture' = [CalendarScreen(Header(wifi', telegram', battery'), online', locked', text, None)
                      EXCEPT !.time = day']
    BY <2>1 DEF CalendarScreen
  <2>3. UpToDate'
    BY <2>1, <2>2, Screens DEF UpToDate, CalendarScreen, Header, Banner
  <2> QED
    BY <2>1, <2>3 DEF TimeShown
<1> QED
  BY <1>1, <1>2, Screens

LEMMA ConfirmSafe ==
    ASSUME NEW action \in PanelAction, DrawConfirm(action) PROVE UpToDate' /\ TimeShown'
  BY Screens DEF DrawConfirm, UpToDate, TimeShown

\* What is shown is drawn anew, a confirmation does not depend on anything.
LEMMA RefreshSafe ==
    ASSUME UpToDate, NEW text, RefreshCurrentScreen(text), toast' = text, UNCHANGED now
    PROVE  UpToDate'
<1>1. CASE screen \in Shared
  BY <1>1, DrawSafe DEF RefreshCurrentScreen
<1>2. CASE screen \notin Shared
  <2>1. UNCHANGED display /\ screen \in PanelAction
    BY <1>2 DEF RefreshCurrentScreen, UpToDate
  <2> QED
    BY <2>1, Screens DEF UpToDate, display
<1> QED
  BY <1>1, <1>2

\* Nothing that is shown has changed.
LEMMA ShownAside ==
    ASSUME UpToDate, UNCHANGED <<display, wifi, telegram, battery, online, locked, toast>>
    PROVE  UpToDate'
  BY DEF UpToDate, display, MainScreen, CalendarScreen, Header, Banner

LEMMA PictureAside ==
    ASSUME PictureInv, UNCHANGED <<display, wifi, telegram, battery, online, locked, toast>>,
           stage' # "sleep" \/ UNCHANGED <<stage, backlight, now>>
    PROVE  PictureInv'
<1>1. UpToDate'
  BY ShownAside DEF PictureInv
<1>2. TimeShown /\ UNCHANGED now => TimeShown'
  BY DEF TimeShown, display
<1> QED
  BY <1>1, <1>2 DEF PictureInv

LEMMA PictureInit == Init => PictureInv
<1> SUFFICES ASSUME Init PROVE PictureInv
  OBVIOUS
<1>1. /\ screen = "main" /\ stage = "wifi" /\ wifi \in BOOLEAN /\ online = FALSE /\ battery = None
      /\ picture = Drawn("main", Header(wifi, telegram, None), online, locked, None, now)
      /\ toast = None /\ clock = now
  BY DEF Init, BatteryInit
<1>2. picture = MainScreen(Header(wifi, telegram, battery), online, locked, toast, clock)
  BY <1>1 DEF Drawn
<1>3. UpToDate
  BY <1>1, <1>2, Screens DEF UpToDate
<1> QED
  BY <1>1, <1>3 DEF PictureInv

\* Without Wi-Fi the PC is off; with a Wi-Fi as it was the PC is as it was.
LEMMA WifiSafe == ASSUME PictureInv, NEW up \in BOOLEAN, WifiCheck(up) PROVE PictureInv'
<1>1. /\ stage' = "telegram" /\ wifi' = up /\ online' = (online /\ up)
      /\ UNCHANGED <<telegram, locked, battery, toast, now>>
  BY DEF WifiCheck, Goes, batteryVars, judged, shownToast
<1>2. wifi \in BOOLEAN /\ online \in BOOLEAN /\ (online => wifi)
  BY DEF PictureInv
<1>3. CASE up # wifi
  BY <1>1, <1>2, <1>3, RefreshSafe DEF PictureInv, WifiCheck
<1>4. CASE up = wifi
  <2>1. online' = online
    BY <1>1, <1>2, <1>4
  <2> QED
    BY <1>1, <1>4, <2>1, PictureAside DEF WifiCheck
<1> QED
  BY <1>3, <1>4

LEMMA LampsSafe ==
    ASSUME PictureInv, NEW b \in BOOLEAN, TelegramLamp(b) \/ StatusCheck(b) \/ LockLamp(b)
    PROVE  PictureInv'
<1>1. CASE TelegramLamp(b)
  <2>1. /\ stage' = "battery" /\ telegram' = b
        /\ UNCHANGED <<wifi, online, locked, battery, toast, now>>
    BY <1>1 DEF TelegramLamp, Goes, batteryVars, judged, shownToast
  <2>2. CASE b # telegram
    BY <1>1, <2>1, <2>2, RefreshSafe DEF TelegramLamp, PictureInv
  <2>3. CASE b = telegram
    BY <1>1, <2>1, <2>3, PictureAside DEF TelegramLamp
  <2> QED
    BY <2>2, <2>3
<1>2. CASE StatusCheck(b)
  <2>1. /\ stage' = "lock" /\ online' = b /\ (b # online => wifi)
        /\ UNCHANGED <<wifi, telegram, locked, battery, toast, now>>
    BY <1>2 DEF StatusCheck, Goes, batteryVars, judged, shownToast
  <2>2. CASE b # online
    BY <1>2, <2>1, <2>2, RefreshSafe DEF StatusCheck, PictureInv
  <2>3. CASE b = online
    BY <1>2, <2>1, <2>3, PictureAside DEF StatusCheck
  <2> QED
    BY <2>2, <2>3
<1>3. CASE LockLamp(b)
  <2>1. /\ stage' = "brightness" /\ locked' = b
        /\ UNCHANGED <<wifi, telegram, online, battery, toast, now>>
    BY <1>3 DEF LockLamp, Goes, batteryVars, judged, shownToast
  <2>2. CASE b # locked
    BY <1>3, <2>1, <2>2, RefreshSafe DEF LockLamp, PictureInv
  <2>3. CASE b = locked
    BY <1>3, <2>1, <2>3, PictureAside DEF LockLamp
  <2> QED
    BY <2>2, <2>3
<1> QED
  BY <1>1, <1>2, <1>3
\* The supply is in the header only.
LEMMA HeaderSafe == ASSUME PictureInv, NEW cleared \in BOOLEAN, Clear(cleared) PROVE PictureInv'
<1>1. /\ stage' = "status"
      /\ UNCHANGED <<screen, clock, day, wifi, telegram, online, locked, toast, now>>
  BY DEF Clear, Goes, status, shownToast
<1>2. CASE battery' = battery \/ screen \notin Shared
  <2>1. UNCHANGED picture
    BY <1>2 DEF Clear
  <2>2. CASE battery' = battery
    BY <1>1, <2>1, <2>2, PictureAside DEF display
  <2>3. CASE screen \notin Shared
    BY <1>1, <2>1, <2>3, Screens DEF PictureInv, UpToDate
  <2> QED
    BY <1>2, <2>2, <2>3
<1>3. CASE battery' # battery /\ screen \in Shared
  <2>1. picture' = [picture EXCEPT !.header = Header(wifi, telegram, battery')]
    BY <1>3 DEF Clear
  <2>2. CASE screen = "main"
    <3>1. picture = MainScreen(Header(wifi, telegram, battery), online, locked, toast, clock)
      BY <2>2 DEF PictureInv, UpToDate
    <3>2. picture' = MainScreen(Header(wifi, telegram, battery'), online, locked, toast, clock)
      BY <2>1, <3>1 DEF MainScreen
    <3>3. UpToDate'
      BY <1>1, <1>3, <2>2, <3>2, Screens DEF UpToDate, MainScreen, Header, Banner
    <3> QED
      BY <1>1, <3>3 DEF PictureInv
  <2>3. CASE screen = "calendar"
    <3> DEFINE sheet(b) == [screen |-> "calendar", header |-> Header(wifi, telegram, b),
                            online |-> online, locked |-> locked,
                            banner |-> Banner(toast, locked), time |-> day]
    <3>1. picture = sheet(battery)
      BY <2>3 DEF PictureInv, UpToDate, CalendarScreen
    <3>2. picture' = sheet(battery')
      BY <2>1, <3>1
    <3>3. UpToDate'
      BY <1>1, <1>3, <2>3, <3>2, Screens DEF UpToDate, CalendarScreen, Header, Banner, DayOf
    <3> QED
      BY <1>1, <3>3 DEF PictureInv
  <2> QED
    BY <1>3, <2>2, <2>3, Screens
<1> QED
  BY <1>2, <1>3

LEMMA WakeShows == ASSUME PictureInv, NEW done \in BOOLEAN, Wake(done) PROVE PictureInv'
<1>1. UNCHANGED <<wifi, telegram, battery, online, locked, toast, now>>
  BY DEF Wake, batteryVars, judged, status, shownToast
<1>2. CASE screen \in Shared
  BY <1>1, <1>2, DrawSafe DEF Wake, RefreshCurrentScreen, PictureInv
<1>3. CASE screen \notin Shared
  BY <1>1, <1>3, ConfirmSafe DEF Wake, PictureInv, UpToDate
<1> QED
  BY <1>2, <1>3

\* What a tap leaves on the screen; only a rejected one ends the round.
LEMMA TapsShow ==
    ASSUME PictureInv,
           \/ RejectLocked \/ TapNothing \/ TapClock \/ TapBack \/ TapCancel
           \/ \E text \in Texts : TapWake(text) \/ TapOk(text)
           \/ \E action \in PanelAction : TapPower(action)
    PROVE  PictureInv'
<1>1. ASSUME NEW held, NEW next, Tap(held, next)
      PROVE  stage' = next /\ UNCHANGED <<wifi, telegram, battery, online, locked, now, backlight>>
  BY <1>1 DEF Tap, batteryVars, judged, status, light
<1>2. CASE RejectLocked
  BY <1>1, <1>2, DrawSafe, Screens DEF RejectLocked, SetToast, PictureInv
<1>3. CASE TapNothing
  BY <1>1, <1>3, PictureAside DEF TapNothing, shownToast
<1>4. CASE TapClock
  BY <1>1, <1>4, DrawSafe, Screens DEF TapClock, shownToast, PictureInv
<1>5. CASE TapBack
  BY <1>1, <1>5, DrawSafe, Screens DEF TapBack, shownToast, PictureInv
<1>6. CASE TapCancel
  BY <1>1, <1>6, DrawSafe, Screens DEF TapCancel, SetToast, PictureInv
<1>7. ASSUME NEW text \in Texts, TapWake(text) PROVE PictureInv'
  <2>1. Tap(FALSE, "toast") /\ toast' = text /\ RefreshCurrentScreen(text)
    BY <1>7 DEF TapWake, SetToast
  <2>2. stage' = "toast" /\ UNCHANGED <<wifi, telegram, battery, online, locked, now>>
    BY <1>1, <2>1
  <2> QED
    BY <2>1, <2>2, RefreshSafe DEF PictureInv
<1>8. ASSUME NEW text \in Texts, TapOk(text) PROVE PictureInv'
  BY <1>1, <1>8, DrawSafe, Screens DEF TapOk, SetToast, PictureInv
<1>9. ASSUME NEW action \in PanelAction, TapPower(action) PROVE PictureInv'
  BY <1>1, <1>9, ConfirmSafe DEF TapPower, shownToast, PictureInv
<1> QED
  BY <1>2, <1>3, <1>4, <1>5, <1>6, <1>7, <1>8, <1>9

LEMMA ToastShows == ASSUME PictureInv, ToastExpires PROVE PictureInv'
<1>1. stage' = "clock" /\ UNCHANGED <<wifi, telegram, battery, online, locked, now>>
  BY DEF ToastExpires, Goes, batteryVars, judged, status, world
<1>2. CASE IsExpired(toast # None, toastAge)
  BY <1>1, <1>2, RefreshSafe DEF ToastExpires, SetToast, PictureInv
<1>3. CASE ~IsExpired(toast # None, toastAge)
  BY <1>1, <1>3, PictureAside DEF ToastExpires, shownToast
<1> QED
  BY <1>2, <1>3

\* At the end of a round in the light the time is shown as well.
LEMMA ClockShows == ASSUME PictureInv, ClockAndCalendar PROVE PictureInv'
<1>1. UNCHANGED <<wifi, telegram, battery, online, locked, toast, now, backlight>>
  BY DEF ClockAndCalendar, batteryVars, judged, status, shownToast, light, world
<1>2. CASE backlight /\ screen = "main" /\ clock # now
  <2>1. /\ clock' = now /\ picture' = [picture EXCEPT !.time = now] /\ UNCHANGED <<screen, day>>
    BY <1>2 DEF ClockAndCalendar
  <2>2. picture = MainScreen(Header(wifi, telegram, battery), online, locked, toast, clock)
    BY <1>2 DEF PictureInv, UpToDate
  <2>3. picture' = MainScreen(Header(wifi, telegram, battery), online, locked, toast, now)
    BY <2>1, <2>2 DEF MainScreen
  <2>4. UpToDate'
    BY <1>1, <1>2, <2>1, <2>3, Screens DEF UpToDate, MainScreen, Header, Banner
  <2> QED
    BY <1>1, <1>2, <2>1, <2>4 DEF PictureInv, TimeShown
<1>3. CASE backlight /\ screen = "calendar" /\ day # DayOf(now)
  <2>1. DrawScreen("calendar", toast)
    BY <1>3 DEF ClockAndCalendar
  <2> QED
    BY <1>1, <2>1, DrawSafe, Screens DEF PictureInv
<1>4. CASE /\ ~(backlight /\ screen = "main" /\ clock # now)
           /\ ~(backlight /\ screen = "calendar" /\ day # DayOf(now))
  <2>1. UNCHANGED display
    BY <1>4 DEF ClockAndCalendar
  <2>2. UpToDate'
    BY <1>1, <2>1, ShownAside DEF PictureInv
  <2>3. backlight => TimeShown'
    BY <1>1, <1>4, <2>1 DEF TimeShown, display
  <2> QED
    BY <1>1, <2>2, <2>3 DEF PictureInv
<1> QED
  BY <1>2, <1>3, <1>4

LEMMA PictureKept == ASSUME PictureInv, [Next]_vars PROVE PictureInv'
<1> USE DEF judged, status, shownToast, light, touching, world
<1>1. CASE UNCHANGED vars
  BY <1>1, PictureAside DEF vars, panelVars, batteryVars
<1>2. ASSUME NEW b \in BOOLEAN, LookAtLatch(b) \/ Brightness(b) \/ ReadTouch(b) \/ TurnOff(b)
      PROVE  PictureInv'
  BY <1>2, PictureAside DEF LookAtLatch, Brightness, ReadTouch, TurnOff, Goes, batteryVars
<1>3. CASE NoRead
  <2>1. battery' = battery
    BY <1>3 DEF NoRead, SkipRead, PollPower, batteryVars
  <2> QED
    BY <1>3, <2>1, PictureAside DEF NoRead, Goes
<1>4. ASSUME NEW fault, Read(fault) PROVE PictureInv'
  BY <1>4, PictureAside DEF Read, ReadBattery, Goes
<1>5. CASE StayAsItIs
  BY <1>5, PictureAside DEF StayAsItIs, Goes, batteryVars
<1>6. ASSUME NEW dt, NEW t, Sleep(dt, t) PROVE PictureInv'
  BY <1>6, PictureAside DEF Sleep, Goes
<1>7. CASE Supply \/ FingerLifts \/ \E p \in Point : FingerLands(p) \/ FingerSlides(p)
  BY <1>7, PictureAside
  DEF Supply, SupplyChanges, FingerLifts, FingerLands, FingerSlides, batteryVars
<1> QED
  BY <1>1, <1>2, <1>3, <1>4, <1>5, <1>6, <1>7, WifiSafe, LampsSafe, HeaderSafe, WakeShows,
     TapsShow, ToastShows, ClockShows
  DEF Next, UiLoop, World

-----------------------------------------------------------------------------
(* The theorems.                                                           *)

\* What a lit display shows at the end of a round is what the loop knows and
\* acts on (main.rs: each change redraws what it concerns).
THEOREM PictureIsTrue == Spec => []ShownIsCurrent
<1>1. PictureInv => ShownIsCurrent
  <2> SUFFICES ASSUME PictureInv, stage = "sleep", backlight
               PROVE  picture = Drawn(screen, Header(wifi, telegram, battery), online, locked,
                                      toast, now)
    BY DEF ShownIsCurrent
  <2>1. UpToDate /\ TimeShown
    BY DEF PictureInv
  <2>2. CASE screen = "main"
    BY <2>1, <2>2 DEF UpToDate, TimeShown, Drawn
  <2>3. CASE screen = "calendar"
    BY <2>1, <2>3 DEF UpToDate, TimeShown, Drawn, CalendarScreen
  <2>4. CASE screen \in PanelAction
    BY <2>1, <2>4, Screens DEF UpToDate, Drawn
  <2> QED
    BY <2>1, <2>2, <2>3, <2>4, Screens DEF UpToDate
<1> QED
  BY <1>1, PictureInit, PictureKept, PTL DEF Spec

\* A touch presses one thing at most, and none if it began in the dark, for as
\* long as the finger stays (main.rs: the rising edge, the first touch).
THEOREM PressedOnce == Spec => []OneTouchOnePress
<1>1. TouchInv => OneTouchOnePress
  BY DEF TouchInv
<1> QED
  BY <1>1, TouchInit, TouchKept, PTL DEF Spec

\* A notice of the supply rests on as many true observations as it asks for
\* (PowerNotify::poll, the latch of the AXP192).
THEOREM ToldWhenSteady == Spec => PowerNoticeSteady
<1>1. SupplyInv /\ [Next]_vars =>
        [powerNotify.notified \notin {None, powerNotify'.notified} =>
           truths' = StablePolls \/ disturbed]_batteryVars
  BY SupplyKept DEF SteadyStep
<1>2. SupplyInv /\ [Next]_vars => SupplyInv'
  BY SupplyKept
<1> QED
  BY <1>1, <1>2, SupplyInit, PTL DEF Spec, PowerNoticeSteady

-----------------------------------------------------------------------------
(* Type correctness.                                                       *)

\* PowerNotify::poll counts below the number that tells.
LEMMA PollType ==
    ASSUME BatteryTypeOK, NEW b \in PowerState \cup {None}, PollPower(b)
    PROVE  /\ battery' \in PowerState \cup {None}
           /\ powerNotify' \in [notified : BOOLEAN \cup {None}, streak : 0..(StablePolls - 1)]
           /\ truths' \in 0..StablePolls
<1>1. powerNotify.streak \in 0..(StablePolls - 1) /\ powerNotify.notified \in BOOLEAN \cup {None}
  BY DEF BatteryTypeOK
<1>2. IsPowered(b) \in BOOLEAN
  BY DEF IsPowered
<1>3. Poll(powerNotify, IsPowered(b)) \in [notified : BOOLEAN \cup {None}, streak : 0..(StablePolls - 1)]
  <2>1. 0 \in 0..(StablePolls - 1)
    BY BatteryAssumption
  <2>2. CASE /\ powerNotify.notified \notin {None, IsPowered(b)}
             /\ ~(powerNotify.streak + 1 >= StablePolls)
    <3>1. powerNotify.streak + 1 \in 0..(StablePolls - 1)
      BY <1>1, <2>2, BatteryAssumption
    <3>2. Poll(powerNotify, IsPowered(b)) = [powerNotify EXCEPT !.streak = @ + 1]
      BY <2>2 DEF Poll
    <3> QED
      BY <3>1, <3>2 DEF BatteryTypeOK
  <2>3. CASE ~(/\ powerNotify.notified \notin {None, IsPowered(b)}
               /\ ~(powerNotify.streak + 1 >= StablePolls))
    <3>1. Poll(powerNotify, IsPowered(b)) = [notified |-> IsPowered(b), streak |-> 0]
      BY <2>3 DEF Poll
    <3> QED
      BY <1>2, <2>1, <3>1
  <2> QED
    BY <2>2, <2>3
<1>4. truths' \in 0..StablePolls
  BY BatteryAssumption DEF BatteryTypeOK, PollPower
<1> QED
  BY <1>3, <1>4 DEF PollPower, BatteryTypeOK

\* TypeOK in parts, each kept by itself.
Stages == {"wifi", "telegram", "battery", "read", "clear", "status", "lock", "brightness",
           "touch", "light", "tap", "toast", "clock", "sleep"}

ShownType ==
    /\ toast \in Texts \cup {Locked, None} /\ toastAge \in 0..ToastTtl
    /\ screen \in Shared \cup PanelAction
    /\ clock \in 0..MaxNow \cup {None} /\ day \in 0..(MaxNow \div DayMinutes) \cup {None}
    /\ picture.screen = screen

StatusType ==
    /\ second \in BOOLEAN /\ wifi \in BOOLEAN /\ telegram \in BOOLEAN
    /\ online \in BOOLEAN /\ locked \in BOOLEAN
    /\ now \in 0..MaxNow \cup {None}
    /\ online => wifi

LightType ==
    /\ backlight \in BOOLEAN /\ lit \in BOOLEAN /\ idle \in 0..SleepTimeout
    /\ backlight => lit

TouchType ==
    /\ touch \in [dark : BOOLEAN, misread : BOOLEAN, presses : Nat] /\ touchDown \in BOOLEAN
    /\ seen \in Point \cup {None} /\ finger \in Point \cup {None}

LEMMA TypeParts ==
    TypeOK <=> /\ BatteryTypeOK /\ ShownType /\ StatusType /\ LightType /\ TouchType
               /\ stage \in Stages /\ events \in 0..MaxEvents
  BY DEF TypeOK, ShownType, StatusType, LightType, TouchType, Stages

LEMMA EventsCount ==
    ASSUME events \in 0..MaxEvents, NEW something, Happens(something)
    PROVE  events' \in 0..MaxEvents
  BY PanelAssumption DEF Happens

LEMMA DayType == ASSUME NEW t \in 0..MaxNow \cup {None}
                 PROVE  DayOf(t) \in 0..(MaxNow \div DayMinutes) \cup {None}
<1>1. ASSUME t # None PROVE t \div DayMinutes \in 0..(MaxNow \div DayMinutes)
  <2>1. t \in Nat /\ t <= MaxNow /\ MaxNow \in Nat /\ DayMinutes \in Nat /\ DayMinutes > 0
    BY <1>1, PanelAssumption
  <2> QED
    BY <2>1, Z3
<1> QED
  BY <1>1 DEF DayOf

LEMMA DrawType ==
    ASSUME ShownType, NEW s \in Shared \cup PanelAction, NEW text, DrawScreen(s, text),
           now \in 0..MaxNow \cup {None},
           toast' \in Texts \cup {Locked, None}, toastAge' \in 0..ToastTtl
    PROVE  ShownType'
<1>1. picture'.screen = s
  BY Screens DEF DrawScreen, Drawn, MainScreen, CalendarScreen
<1> QED
  BY <1>1, DayType DEF DrawScreen, ShownType

LEMMA ConfirmType ==
    ASSUME ShownType, NEW action \in PanelAction, DrawConfirm(action), UNCHANGED shownToast
    PROVE  ShownType'
  BY DEF ShownType, DrawConfirm, shownToast

LEMMA RefreshType ==
    ASSUME ShownType, NEW text, RefreshCurrentScreen(text), now \in 0..MaxNow \cup {None},
           toast' \in Texts \cup {Locked, None}, toastAge' \in 0..ToastTtl
    PROVE  ShownType'
<1>1. CASE screen \in Shared
  BY <1>1, DrawType DEF RefreshCurrentScreen
<1>2. CASE screen \notin Shared
  BY <1>2 DEF RefreshCurrentScreen, ShownType, display
<1> QED
  BY <1>1, <1>2

LEMMA SameShown == ASSUME ShownType, UNCHANGED <<display, shownToast>> PROVE ShownType'
  BY DEF ShownType, display, shownToast

LEMMA ChangeShown ==
    ASSUME ShownType, StatusType, UNCHANGED shownToast,
           RefreshCurrentScreen(toast) \/ UNCHANGED display
    PROVE  ShownType'
<1>1. toast' \in Texts \cup {Locked, None} /\ toastAge' \in 0..ToastTtl /\ now \in 0..MaxNow \cup {None}
  BY DEF ShownType, StatusType, shownToast
<1> QED
  BY <1>1, RefreshType, SameShown

LEMMA BatteryAside == ASSUME BatteryTypeOK, UNCHANGED batteryVars PROVE BatteryTypeOK'
  BY DEF BatteryTypeOK, batteryVars, judged

LEMMA SupplyTypes ==
    ASSUME TypeOK, [Next]_vars PROVE BatteryTypeOK'
<1> USE DEF TypeOK, batteryVars, judged
<1>1. CASE NoRead
  BY <1>1, PollType DEF NoRead, SkipRead, BatteryTypeOK
<1>2. ASSUME NEW b \in BOOLEAN, Clear(b) PROVE BatteryTypeOK'
  BY <1>2, PollType DEF Clear, ClearLatch, BatteryTypeOK
<1>3. ASSUME NEW f \in {"none", "silent", "partial"}, Read(f) PROVE BatteryTypeOK'
  BY <1>3, BatteryAssumption DEF Read, ReadBattery, Classify, PowerState, BatteryTypeOK
<1>4. ASSUME NEW dt \in 0..1, NEW t, Sleep(dt, t) PROVE BatteryTypeOK'
  BY <1>4, BatteryAssumption DEF Sleep, Capped, BatteryTypeOK
<1>5. CASE Supply
  BY <1>5 DEF Supply, SupplyChanges, BatteryTypeOK
<1>6. ASSUME UNCHANGED batteryVars PROVE BatteryTypeOK'
  BY <1>6, BatteryAside
<1>7. ASSUME NEW b \in BOOLEAN, \/ WifiCheck(b) \/ TelegramLamp(b) \/ LookAtLatch(b)
             \/ StatusCheck(b) \/ LockLamp(b) \/ Brightness(b) \/ ReadTouch(b)
             \/ TurnOff(b) \/ Wake(b)
      PROVE  UNCHANGED batteryVars
  BY <1>7
  DEF WifiCheck, TelegramLamp, LookAtLatch, StatusCheck, LockLamp, Brightness, ReadTouch, TurnOff, Wake
<1>8. CASE StayAsItIs \/ RejectLocked \/ TapNothing \/ TapClock \/ TapBack \/ TapCancel
          \/ ToastExpires \/ ClockAndCalendar \/ FingerLifts \/ UNCHANGED vars
  BY <1>6, <1>8
  DEF StayAsItIs, RejectLocked, TapNothing, TapClock, TapBack, TapCancel, Tap, ToastExpires,
      ClockAndCalendar, FingerLifts, vars
<1>9. ASSUME NEW x, TapWake(x) \/ TapOk(x) \/ TapPower(x) \/ FingerLands(x) \/ FingerSlides(x)
      PROVE  UNCHANGED batteryVars
  BY <1>9 DEF TapWake, TapOk, TapPower, Tap, FingerLands, FingerSlides
<1> QED
  BY <1>1, <1>2, <1>3, <1>4, <1>5, <1>6, <1>7, <1>8, <1>9 DEF Next, UiLoop, World

LEMMA ShownTypes ==
    ASSUME TypeOK, [Next]_vars PROVE ShownType'
<1>0. ShownType /\ StatusType /\ now \in 0..MaxNow \cup {None} /\ 0 \in 0..ToastTtl
  BY TypeParts, PanelAssumption DEF StatusType
<1>1. ASSUME NEW b \in BOOLEAN, WifiCheck(b) \/ TelegramLamp(b) \/ StatusCheck(b) \/ LockLamp(b)
      PROVE  ShownType'
  BY <1>0, <1>1, ChangeShown DEF WifiCheck, TelegramLamp, StatusCheck, LockLamp
<1>2. ASSUME NEW b \in BOOLEAN, \/ LookAtLatch(b) \/ Brightness(b) \/ ReadTouch(b) \/ TurnOff(b)
      PROVE  ShownType'
  BY <1>0, <1>2, SameShown DEF LookAtLatch, Brightness, ReadTouch, TurnOff
<1>3. ASSUME NEW b \in BOOLEAN, Clear(b) PROVE ShownType'
  <2>1. CASE picture' = picture
    BY <1>0, <1>3, <2>1, SameShown DEF Clear, display
  <2>2. CASE picture' # picture
    <3>1. picture' = [picture EXCEPT !.header = Header(wifi, telegram, battery')] /\ screen \in Shared
      BY <1>3, <2>2 DEF Clear
    <3>2. picture'.screen = picture.screen
      BY <3>1
    <3> QED
      BY <1>0, <1>3, <3>2 DEF Clear, ShownType, shownToast
  <2> QED
    BY <2>1, <2>2
<1>4. ASSUME NEW b \in BOOLEAN, Wake(b) PROVE ShownType'
  <2>1. CASE screen \in Shared
    BY <1>0, <1>4, <2>1, ChangeShown DEF Wake
  <2>2. CASE screen \notin Shared
    BY <1>0, <1>4, <2>2, ConfirmType DEF Wake, ShownType
  <2> QED
    BY <2>1, <2>2
<1>5. CASE NoRead \/ StayAsItIs \/ TapNothing \/ Supply \/ FingerLifts \/ UNCHANGED vars
  BY <1>0, <1>5, SameShown DEF NoRead, StayAsItIs, TapNothing, Supply, FingerLifts, vars, panelVars
<1>6. ASSUME NEW p, FingerLands(p) \/ FingerSlides(p) \/ Read(p) PROVE ShownType'
  BY <1>0, <1>6, SameShown DEF FingerLands, FingerSlides, Read
<1>7. CASE RejectLocked
  BY <1>0, <1>7, DrawType, Screens DEF RejectLocked, SetToast
<1>8. CASE TapClock \/ TapBack
  <2>1. toast' \in Texts \cup {Locked, None} /\ toastAge' \in 0..ToastTtl
    BY <1>0, <1>8 DEF TapClock, TapBack, shownToast, ShownType
  <2> QED
    BY <1>0, <1>8, <2>1, DrawType, Screens DEF TapClock, TapBack
<1>9. CASE TapCancel
  BY <1>0, <1>9, DrawType, Screens DEF TapCancel, SetToast
<1>10. ASSUME NEW text \in Texts, TapWake(text) PROVE ShownType'
  BY <1>0, <1>10, RefreshType DEF TapWake, SetToast
<1>11. ASSUME NEW text \in Texts, TapOk(text) PROVE ShownType'
  BY <1>0, <1>11, DrawType, Screens DEF TapOk, SetToast
<1>12. ASSUME NEW action \in PanelAction, TapPower(action) PROVE ShownType'
  BY <1>0, <1>12, ConfirmType DEF TapPower
<1>13. CASE ToastExpires
  <2>1. CASE SetToast(None) /\ RefreshCurrentScreen(None)
    BY <1>0, <2>1, RefreshType DEF SetToast
  <2>2. CASE UNCHANGED <<shownToast, display>>
    BY <1>0, <2>2, SameShown
  <2> QED
    BY <1>13, <2>1, <2>2 DEF ToastExpires
<1>14. CASE ClockAndCalendar
  <2>1. toast' \in Texts \cup {Locked, None} /\ toastAge' \in 0..ToastTtl /\ UNCHANGED shownToast
    BY <1>0, <1>14 DEF ClockAndCalendar, shownToast, ShownType
  <2>2. CASE clock' = now /\ picture' = [picture EXCEPT !.time = now] /\ UNCHANGED <<screen, day>>
    <3>1. picture'.screen = picture.screen
      BY <2>2
    <3> QED
      BY <1>0, <2>1, <2>2, <3>1 DEF ShownType
  <2>3. CASE DrawScreen("calendar", toast)
    BY <1>0, <2>1, <2>3, DrawType, Screens
  <2>4. CASE UNCHANGED display
    BY <1>0, <2>1, <2>4, SameShown
  <2> QED
    BY <1>14, <2>2, <2>3, <2>4 DEF ClockAndCalendar
<1>15. ASSUME NEW dt \in 0..1, NEW t, Sleep(dt, t) PROVE ShownType'
  <2>1. toastAge' \in 0..ToastTtl
    BY <1>0, <1>15, PanelAssumption DEF Sleep, Capped, ShownType
  <2> QED
    BY <1>0, <1>15, <2>1 DEF Sleep, ShownType, display
<1> QED
  BY <1>1, <1>2, <1>3, <1>4, <1>5, <1>6, <1>7, <1>8, <1>9, <1>10, <1>11, <1>12, <1>13, <1>14, <1>15
  DEF Next, UiLoop, World

LEMMA EventsTypes ==
    ASSUME events \in 0..MaxEvents, [Next]_vars PROVE events' \in 0..MaxEvents
<1> USE DEF world
<1>0. UNCHANGED events => events' \in 0..MaxEvents
  OBVIOUS
<1>1. ASSUME NEW b \in BOOLEAN, \/ WifiCheck(b) \/ TelegramLamp(b) \/ LookAtLatch(b) \/ Clear(b)
             \/ StatusCheck(b) \/ LockLamp(b) \/ Brightness(b) \/ ReadTouch(b) \/ TurnOff(b) \/ Wake(b)
      PROVE  events' \in 0..MaxEvents
  BY <1>1, EventsCount
  DEF WifiCheck, TelegramLamp, LookAtLatch, Clear, StatusCheck, LockLamp, Brightness, ReadTouch,
      TurnOff, Wake
<1>2. CASE NoRead \/ StayAsItIs \/ ToastExpires \/ ClockAndCalendar \/ FingerLifts \/ UNCHANGED vars
  BY <1>0, <1>2
  DEF NoRead, StayAsItIs, ToastExpires, ClockAndCalendar, FingerLifts, vars, panelVars
<1>3. ASSUME NEW x, FingerLands(x) \/ FingerSlides(x) \/ Supply \/ Read(x)
      PROVE  events' \in 0..MaxEvents
  BY <1>3, EventsCount DEF FingerLands, FingerSlides, Supply, Read
<1>4. ASSUME NEW held, NEW next, Tap(held, next) PROVE events' \in 0..MaxEvents
  BY <1>4, EventsCount DEF Tap
<1>5. CASE RejectLocked \/ TapNothing \/ TapClock \/ TapBack \/ TapCancel
  BY <1>4, <1>5 DEF RejectLocked, TapNothing, TapClock, TapBack, TapCancel
<1>6. ASSUME NEW x, TapWake(x) \/ TapOk(x) \/ TapPower(x) PROVE events' \in 0..MaxEvents
  BY <1>4, <1>6 DEF TapWake, TapOk, TapPower
<1>7. ASSUME NEW dt, NEW t, Sleep(dt, t) PROVE events' \in 0..MaxEvents
  BY <1>7, EventsCount DEF Sleep
<1> QED
  BY <1>1, <1>2, <1>3, <1>5, <1>6, <1>7 DEF Next, UiLoop, World

LEMMA TouchTypes == ASSUME TouchType, [Next]_vars PROVE TouchType'
<1> USE DEF touching, world
<1>0. UNCHANGED <<touchDown, seen, touch, finger>> => TouchType'
  BY DEF TouchType
<1>1. ASSUME NEW b \in BOOLEAN, \/ WifiCheck(b) \/ TelegramLamp(b) \/ LookAtLatch(b) \/ Clear(b)
             \/ StatusCheck(b) \/ LockLamp(b) \/ Brightness(b) \/ TurnOff(b)
      PROVE  TouchType'
  BY <1>1, <1>0
  DEF WifiCheck, TelegramLamp, LookAtLatch, Clear, StatusCheck, LockLamp, Brightness, TurnOff
<1>2. CASE NoRead \/ StayAsItIs \/ ToastExpires \/ ClockAndCalendar \/ Supply \/ UNCHANGED vars
  BY <1>0, <1>2
  DEF NoRead, StayAsItIs, ToastExpires, ClockAndCalendar, Supply, vars, panelVars
<1>3. ASSUME NEW b \in BOOLEAN, Wake(b) PROVE TouchType'
  BY <1>3 DEF Wake, TouchType
<1>4. ASSUME NEW held, NEW next, Tap(held, next) PROVE TouchType'
  <2>1. touch' = touch \/ touch' = [touch EXCEPT !.presses = @ + 1]
    BY <1>4 DEF Tap
  <2>2. touchDown' \in BOOLEAN /\ UNCHANGED <<seen, finger>>
    BY <1>4 DEF Tap
  <2> QED
    BY <2>1, <2>2 DEF TouchType
<1>5. CASE RejectLocked \/ TapNothing \/ TapClock \/ TapBack \/ TapCancel
  BY <1>4, <1>5 DEF RejectLocked, TapNothing, TapClock, TapBack, TapCancel
<1>6. ASSUME NEW x, TapWake(x) \/ TapOk(x) \/ TapPower(x) PROVE TouchType'
  BY <1>4, <1>6 DEF TapWake, TapOk, TapPower
<1>7. ASSUME NEW x, NEW t, Sleep(x, t) \/ Read(x) PROVE UNCHANGED <<touchDown, seen, touch, finger>>
  BY <1>7 DEF Sleep, Read
<1>8. ASSUME NEW p \in Point, FingerLands(p) \/ FingerSlides(p) PROVE TouchType'
  <2>1. finger' \in Point /\ UNCHANGED <<touchDown, seen>>
    BY <1>8 DEF FingerLands, FingerSlides
  <2>2. touch' = touch \/ \E d \in BOOLEAN : touch' = [dark |-> d, misread |-> FALSE, presses |-> 0]
    <3>1. (~lit) \in BOOLEAN
      OBVIOUS
    <3> QED
      BY <1>8, <3>1, Zenon DEF FingerLands, FingerSlides
  <2>3. touch' \in [dark : BOOLEAN, misread : BOOLEAN, presses : Nat]
    <3>1. ASSUME NEW d \in BOOLEAN
          PROVE  [dark |-> d, misread |-> FALSE, presses |-> 0]
                   \in [dark : BOOLEAN, misread : BOOLEAN, presses : Nat]
      BY <3>1
    <3>2. touch \in [dark : BOOLEAN, misread : BOOLEAN, presses : Nat]
      BY DEF TouchType
    <3> QED
      BY <2>2, <3>1, <3>2, Zenon
  <2> QED
    BY <2>1, <2>3 DEF TouchType
<1>9. CASE FingerLifts
  BY <1>9 DEF FingerLifts, TouchType
<1>10. ASSUME NEW b \in BOOLEAN, ReadTouch(b) PROVE TouchType'
  <2>1. touch' = [touch EXCEPT !.misread = touch.misread \/ b]
    BY <1>10 DEF ReadTouch
  <2>2. (touch.misread \/ b) \in BOOLEAN
    OBVIOUS
  <2>3. touch' \in [dark : BOOLEAN, misread : BOOLEAN, presses : Nat]
    BY <2>1, <2>2 DEF TouchType
  <2> QED
    BY <1>10, <2>3 DEF ReadTouch, TouchType
<1> QED
  BY <1>0, <1>1, <1>2, <1>3, <1>5, <1>6, <1>7, <1>8, <1>9, <1>10 DEF Next, UiLoop, World

LEMMA StageTypes == ASSUME stage \in Stages, [Next]_vars PROVE stage' \in Stages
<1>1. ASSUME NEW b \in BOOLEAN, \/ WifiCheck(b) \/ TelegramLamp(b) \/ LookAtLatch(b) \/ Clear(b)
             \/ StatusCheck(b) \/ LockLamp(b) \/ Brightness(b) \/ ReadTouch(b) \/ TurnOff(b) \/ Wake(b)
      PROVE  stage' \in Stages
  BY <1>1
  DEF WifiCheck, TelegramLamp, LookAtLatch, Clear, StatusCheck, LockLamp, Brightness, ReadTouch,
      TurnOff, Wake, Goes, Stages
<1>2. CASE NoRead \/ StayAsItIs \/ ToastExpires \/ ClockAndCalendar
  BY <1>2 DEF NoRead, StayAsItIs, ToastExpires, ClockAndCalendar, Goes, Stages
<1>3. ASSUME NEW x, NEW t, Sleep(x, t) \/ Read(x) PROVE stage' \in Stages
  BY <1>3 DEF Sleep, Read, Goes, Stages
<1>4. ASSUME NEW x, FingerLands(x) \/ FingerSlides(x) \/ FingerLifts \/ Supply \/ UNCHANGED vars
      PROVE  stage' \in Stages
  BY <1>4 DEF FingerLands, FingerSlides, FingerLifts, Supply, vars, panelVars
<1>5. CASE RejectLocked \/ TapNothing \/ TapClock \/ TapBack \/ TapCancel
  BY <1>5 DEF RejectLocked, TapNothing, TapClock, TapBack, TapCancel, Tap, Stages
<1>6. ASSUME NEW x, TapWake(x) \/ TapOk(x) \/ TapPower(x) PROVE stage' \in Stages
  BY <1>6 DEF TapWake, TapOk, TapPower, Tap, Stages
<1> QED
  BY <1>1, <1>2, <1>3, <1>4, <1>5, <1>6 DEF Next, UiLoop, World

LEMMA StatusTypes == ASSUME StatusType, [Next]_vars PROVE StatusType'
<1> USE DEF status, world
<1>1. ASSUME UNCHANGED <<wifi, telegram, online, locked, now>>, second' \in BOOLEAN
      PROVE  StatusType'
  BY <1>1 DEF StatusType
<1>2. UNCHANGED second => second' \in BOOLEAN
  BY DEF StatusType
<1>3. ASSUME NEW b \in BOOLEAN, WifiCheck(b) PROVE StatusType'
  BY <1>3 DEF WifiCheck, StatusType
<1>4. ASSUME NEW b \in BOOLEAN, TelegramLamp(b) PROVE StatusType'
  BY <1>4 DEF TelegramLamp, StatusType
<1>5. ASSUME NEW b \in BOOLEAN, StatusCheck(b) PROVE StatusType'
  <2>1. wifi = FALSE => b = online
    BY <1>5 DEF StatusCheck
  <2>2. online' = b /\ UNCHANGED <<second, wifi, telegram, locked, now>>
    BY <1>5 DEF StatusCheck
  <2> QED
    BY <2>1, <2>2 DEF StatusType
<1>6. ASSUME NEW b \in BOOLEAN, LockLamp(b) PROVE StatusType'
  BY <1>6 DEF LockLamp, StatusType
<1>7. ASSUME NEW b \in BOOLEAN, LookAtLatch(b) \/ Clear(b) \/ Brightness(b) \/ ReadTouch(b)
             \/ TurnOff(b) \/ Wake(b)
      PROVE  StatusType'
  BY <1>1, <1>2, <1>7 DEF LookAtLatch, Clear, Brightness, ReadTouch, TurnOff, Wake
<1>8. CASE NoRead \/ StayAsItIs \/ ToastExpires \/ ClockAndCalendar \/ Supply \/ FingerLifts
  BY <1>1, <1>2, <1>8 DEF NoRead, StayAsItIs, ToastExpires, ClockAndCalendar, Supply, FingerLifts
<1>9. ASSUME NEW x, FingerLands(x) \/ FingerSlides(x) \/ Read(x) PROVE StatusType'
  BY <1>1, <1>2, <1>9 DEF FingerLands, FingerSlides, Read
<1>10. ASSUME NEW held, NEW next, Tap(held, next) PROVE StatusType'
  BY <1>1, <1>2, <1>10 DEF Tap
<1>11. CASE RejectLocked \/ TapNothing \/ TapClock \/ TapBack \/ TapCancel
  BY <1>10, <1>11 DEF RejectLocked, TapNothing, TapClock, TapBack, TapCancel
<1>12. ASSUME NEW x, TapWake(x) \/ TapOk(x) \/ TapPower(x) PROVE StatusType'
  BY <1>10, <1>12 DEF TapWake, TapOk, TapPower
<1>13. ASSUME NEW dt \in 0..1, NEW t \in {now} \cup Later, Sleep(dt, t) PROVE StatusType'
  <2>1. t \in 0..MaxNow \cup {None}
    BY <1>13 DEF Later, StatusType
  <2>2. second' \in BOOLEAN
    BY <1>13 DEF Sleep
  <2> QED
    BY <1>13, <2>1, <2>2 DEF Sleep, StatusType
<1>14. CASE UNCHANGED vars
  BY <1>1, <1>2, <1>14 DEF vars, panelVars
<1> QED
  BY <1>3, <1>4, <1>5, <1>6, <1>7, <1>8, <1>9, <1>11, <1>12, <1>13, <1>14 DEF Next, UiLoop, World

LEMMA LightTypes == ASSUME LightType, [Next]_vars PROVE LightType'
<1> USE DEF light
<1>0. 0 \in 0..SleepTimeout
  BY PanelAssumption
<1>1. UNCHANGED light => LightType'
  BY DEF LightType
<1>2. ASSUME NEW b \in BOOLEAN, Brightness(b) PROVE LightType'
  BY <1>2 DEF Brightness, LightType
<1>3. ASSUME NEW b \in BOOLEAN, TurnOff(b) PROVE LightType'
  <2>1. backlight' = ~b /\ lit' = (lit /\ ~b) /\ idle' = idle
    BY <1>3 DEF TurnOff
  <2>2. backlight
    BY <1>3 DEF TurnOff, Decide
  <2> QED
    BY <2>1, <2>2 DEF LightType
<1>4. ASSUME NEW b \in BOOLEAN, Wake(b) PROVE LightType'
  BY <1>0, <1>4 DEF Wake, LightType
<1>5. CASE StayAsItIs
  BY <1>0, <1>5 DEF StayAsItIs, LightType
<1>6. ASSUME NEW dt \in 0..1, NEW t, Sleep(dt, t) PROVE LightType'
  <2>1. idle' \in 0..SleepTimeout
    BY <1>6, PanelAssumption DEF Sleep, Capped, LightType
  <2> QED
    BY <1>6, <2>1 DEF Sleep, LightType
<1>7. ASSUME NEW b \in BOOLEAN, \/ WifiCheck(b) \/ TelegramLamp(b) \/ LookAtLatch(b) \/ Clear(b)
             \/ StatusCheck(b) \/ LockLamp(b) \/ ReadTouch(b)
      PROVE  UNCHANGED light
  BY <1>7 DEF WifiCheck, TelegramLamp, LookAtLatch, Clear, StatusCheck, LockLamp, ReadTouch
<1>8. CASE NoRead \/ ToastExpires \/ ClockAndCalendar \/ Supply \/ FingerLifts \/ UNCHANGED vars
  BY <1>1, <1>8 DEF NoRead, ToastExpires, ClockAndCalendar, Supply, FingerLifts, vars, panelVars
<1>9. ASSUME NEW x, FingerLands(x) \/ FingerSlides(x) \/ Read(x) PROVE UNCHANGED light
  BY <1>9 DEF FingerLands, FingerSlides, Read
<1>10. CASE RejectLocked \/ TapNothing \/ TapClock \/ TapBack \/ TapCancel
  BY <1>1, <1>10 DEF RejectLocked, TapNothing, TapClock, TapBack, TapCancel, Tap
<1>11. ASSUME NEW x, TapWake(x) \/ TapOk(x) \/ TapPower(x) PROVE UNCHANGED light
  BY <1>11 DEF TapWake, TapOk, TapPower, Tap
<1> QED
  BY <1>1, <1>2, <1>3, <1>4, <1>5, <1>6, <1>7, <1>8, <1>9, <1>10, <1>11 DEF Next, UiLoop, World

LEMMA InitType == Init => TypeOK
<1> SUFFICES ASSUME Init PROVE TypeOK
  OBVIOUS
<1>1. BatteryTypeOK
  <2>1. /\ 0 \in 0..FullRead /\ 0 \in 0..StablePolls /\ FirstSupply \in PowerState
        /\ [notified |-> None, streak |-> 0]
             \in [notified : BOOLEAN \cup {None}, streak : 0..(StablePolls - 1)]
    BY BatteryAssumption DEF PowerState
  <2>2. /\ supply = FirstSupply /\ latch = FALSE /\ sinceRead = 0 /\ reading = None /\ battery = None
        /\ powerNotify = [notified |-> None, streak |-> 0] /\ truths = 0 /\ disturbed = FALSE
    BY DEF Init, BatteryInit
  <2> QED
    BY <2>1, <2>2 DEF BatteryTypeOK
<1>2. picture.screen = "main"
  BY DEF Init, Drawn, MainScreen
<1>3. ShownType
  BY <1>2, PanelAssumption, Screens DEF Init, ShownType
<1>4. /\ 0 \in 0..SleepTimeout /\ 0 \in 0..MaxEvents
      /\ touch \in [dark : BOOLEAN, misread : BOOLEAN, presses : Nat]
  BY PanelAssumption DEF Init
<1>5. wifi \in BOOLEAN /\ now = None /\ seen = None /\ finger = None /\ events = 0 /\ idle = 0
  BY DEF Init
<1>6. /\ second = FALSE /\ telegram = FALSE /\ online = FALSE /\ locked = FALSE /\ backlight = TRUE
      /\ lit = TRUE /\ touchDown = FALSE /\ stage = "wifi"
  BY DEF Init
<1>7. StatusType /\ LightType /\ TouchType /\ stage \in Stages /\ events \in 0..MaxEvents
  BY <1>4, <1>5, <1>6 DEF StatusType, LightType, TouchType, Stages
<1> QED
  BY <1>1, <1>3, <1>7, TypeParts

\* The type invariant: the shown screen is the one the loop acts on, without
\* Wi-Fi the PC counts as off, a backlight that is on is lit.
THEOREM TypeCorrect == Spec => []TypeOK
<1>1. ASSUME TypeOK, [Next]_vars PROVE TypeOK'
  <2>1. /\ ShownType /\ StatusType /\ LightType /\ TouchType
        /\ stage \in Stages /\ events \in 0..MaxEvents
    BY <1>1, TypeParts
  <2>2. BatteryTypeOK' /\ ShownType'
    BY <1>1, SupplyTypes, ShownTypes
  <2>3. StatusType' /\ LightType' /\ TouchType' /\ stage' \in Stages /\ events' \in 0..MaxEvents
    BY <1>1, <2>1, EventsTypes, TouchTypes, StageTypes, StatusTypes, LightTypes
  <2> QED
    BY <2>2, <2>3 DEF TypeOK, ShownType, StatusType, LightType, TouchType, Stages
<1> QED
  BY <1>1, InitType, PTL DEF Spec

=============================================================================
