---------------------------- MODULE StatusWatch ----------------------------
(***************************************************************************)
(* How the firmware finds out whether the PC is on and what it tells the   *)
(* chat about it: the STATUS cycle of the UI loop (firmware/src/main.rs),  *)
(* the wake watch and the sleep watch it shares with the Telegram polling  *)
(* thread (firmware/src/telegram.rs), and the judgements of wake-check and *)
(* notify-stable.                                                          *)
(*                                                                         *)
(* The cycle probes the PC, reads the wake watch, judges it (and clears    *)
(* it, under a second lock) and then judges the sleep watch and the stable *)
(* notice.  The polling thread starts a watch between any two of these     *)
(* steps, with the answer of a probe of its own that may be old by then.   *)
(* The wake watch is behind a mutex that is not reentrant.  Every access   *)
(* of the UI loop takes and releases it within one step, which waits while *)
(* the polling thread is inside; the sleep watch is accessed in one step.  *)
(*                                                                         *)
(* A tick is one STATUS_INTERVAL.  A start time (Instant) is the number of *)
(* ticks since, up to the deadline: more is never told apart.  Notices go  *)
(* to the notifier's queue; what becomes of them there is not modelled.    *)
(***************************************************************************)
EXTENDS Naturals

CONSTANTS StablePolls,  \* notify_stable::STABLE_POLLS
          ArmPolls,     \* wake_check::SLEEP_ARM_MAX_POLLS
          WakeTimeout,  \* wake_check::WAKE_WATCH_TIMEOUT_SECS, in ticks
          None          \* Option::None

ASSUME PollsAssumption ==
    StablePolls \in Nat \ {0} /\ ArmPolls \in Nat \ {0} /\ WakeTimeout \in Nat \ {0}
ASSUME NoneAssumption == None \notin {"on", "off", "ui", "tg"} \cup Nat

VARIABLES reach,     \* how the PC answers probes: "on", "off" or "flaky"
          wifi,      \* Status.wifi_connected
          due,       \* STATUS_INTERVAL has passed since the last cycle
          at,        \* next step of the cycle, or "loop" between two cycles
          pcOnline,  \* Status.pc_online: "on" or "off"
          copy,      \* wake watch as the cycle has read it
          wake,      \* SharedWakeWatch: age of the instruction, or None
          guard,     \* who holds lock_wake_watch: "ui", "tg" or None
          sleep,     \* SharedSleepWatch
          stable,    \* StableNotify of the UI loop
          notices,   \* notices that the current cycle has sent
          tg,        \* polling thread: what its probe said, or "idle"
          run,       \* history: the last answers that agree, and how many
          onTold,    \* history: "on" was told and no "off" observed since
          asked,     \* history: a wake is being watched for or was dropped
          since,     \* history: age of the last instruction that was watched
          calm,      \* history: "on" answers since the last accepted sleep, or
                     \* ArmPolls - 1 as soon as an "on" has followed an "off"
          gone,      \* history: "off" was observed since the last accepted sleep
          ons        \* history: "on" answers since the last accepted sleep, or
                     \* ArmPolls when the PC was gone in between

uiVars == <<due, at, pcOnline, copy, stable, notices>>
history == <<run, onTold, asked, since, calm, gone, ons>>
vars == <<reach, wifi, uiVars, wake, guard, sleep, tg, history>>

Phases == {"idle", "armed", "suppressing"}
Answer == {"on", "off"}

AgeOf == 0..WakeTimeout

SleepWatch == [phase : Phases, polls : 0..(ArmPolls - 1)]
StableNotify == [notified : Answer \cup {None}, streak : 0..(StablePolls - 1)]

TypeOK ==
    /\ reach \in {"on", "off", "flaky"} /\ wifi \in BOOLEAN /\ due \in BOOLEAN
    /\ at \in {"loop", "read", "wake", "stable"}
    /\ pcOnline \in Answer
    /\ copy \in AgeOf \cup {None} /\ wake \in AgeOf \cup {None}
    /\ guard \in {"ui", "tg", None}
    /\ sleep \in SleepWatch /\ stable \in StableNotify
    /\ notices \subseteq {"started", "stopped", "wokeUp", "timedOut"}
    /\ tg \in Answer \cup {"idle"}
    /\ run \in [answer : Answer, count : 0..StablePolls]
    /\ onTold \in BOOLEAN /\ asked \in BOOLEAN
    /\ since \in AgeOf /\ calm \in 0..(ArmPolls - 1)
    /\ gone \in BOOLEAN /\ ons \in 0..ArmPolls

SleepIdle == [phase |-> "idle", polls |-> 0]

Min2(a, b) == IF a < b THEN a ELSE b

Init ==
    /\ reach \in {"on", "off", "flaky"} /\ wifi \in BOOLEAN /\ due = FALSE
    /\ at = "loop" /\ pcOnline = "off" /\ copy = None
    /\ wake = None /\ guard = None /\ tg = "idle" /\ notices = {}
    /\ sleep = SleepIdle
    /\ stable = [notified |-> None, streak |-> 0]
    /\ run = [answer |-> "off", count |-> 0]
    /\ onTold = FALSE /\ asked = FALSE
    /\ since = WakeTimeout /\ calm = ArmPolls - 1 /\ gone = FALSE /\ ons = ArmPolls

\* check_pc_online: a connection that fails or times out counts as "off".
Answers == IF reach = "flaky" THEN Answer ELSE {reach}

-----------------------------------------------------------------------------
(* The judgements.                                                         *)

\* Faulty variant: a PC that has not fallen asleep at once is given up.
StayedOnImpatient(s) == SleepIdle

\* SleepWatch::poll while it waits for the PC to go off
StayedOn(s) == IF s.polls + 1 >= ArmPolls THEN SleepIdle ELSE [s EXCEPT !.polls = @ + 1]

\* SleepWatch::poll: off is held back from the first "off" to the next "on".
Suppresses(s, now) == s.phase # "idle" /\ now = "off"

\* Faulty variant: a PC that has come back is still taken for asleep.
SleepPollSticky(s, now) ==
    IF Suppresses(s, now) THEN [phase |-> "suppressing", polls |-> 0]
    ELSE IF s.phase = "armed" THEN StayedOn(s) ELSE s

SleepPoll(s, now) ==
    IF Suppresses(s, now) THEN [phase |-> "suppressing", polls |-> 0]
    ELSE IF s.phase = "armed" THEN StayedOn(s) ELSE SleepIdle

\* Faulty variant: nobody gives up waiting.
WakePollPatient(started, now) ==
    IF started = None THEN "waiting" ELSE IF now = "on" THEN "wokeUp" ELSE "waiting"

\* WakeWatch::poll
WakePoll(started, now) ==
    IF started = None THEN "waiting"
    ELSE IF now = "on" THEN "wokeUp"
    ELSE IF started >= WakeTimeout THEN "timedOut" ELSE "waiting"

Settled(now) == [notified |-> now, streak |-> 0]

Differs(s, now) == s.notified # None /\ s.notified # now

\* Faulty variant: an answer that agrees again does not end the count.
CountKept(s, now) == IF Differs(s, now) THEN s.streak + 1 ELSE s.streak

\* Faulty variant: the count is not kept from one cycle to the next.
CountForgotten(s, now) == IF Differs(s, now) THEN 1 ELSE 0

\* How often in a row the answer has differed from what is known.
Count(s, now) == IF Differs(s, now) THEN s.streak + 1 ELSE 0

\* StableNotify::poll: the first answer is the base line; a different one is
\* told when it has been seen StablePolls times in a row.  After a wake that
\* was told there is nothing to judge; a held-back "off" counts as told.
Notifies(s, now, woke, suppress) ==
    ~woke /\ ~suppress /\ Count(s, now) >= StablePolls

StablePoll(s, now, woke, suppress) ==
    IF woke THEN s
    ELSE IF suppress \/ Count(s, now) = 0 \/ Count(s, now) >= StablePolls THEN Settled(now)
    ELSE [s EXCEPT !.streak = Count(s, now)]

-----------------------------------------------------------------------------
(* The STATUS cycle of the UI loop.                                        *)

Probe ==
    /\ at = "loop" /\ wifi /\ due
    /\ due' = FALSE
    /\ \E now \in Answers :
          /\ pcOnline' = now
          /\ run' = IF now = run.answer
                    THEN [run EXCEPT !.count = Min2(@ + 1, StablePolls)]
                    ELSE [answer |-> now, count |-> 1]
          /\ onTold' = (onTold /\ now = "on")
          /\ calm' = IF now = "off" THEN calm
                     ELSE IF run.answer = "off" /\ run.count > 0 THEN ArmPolls - 1
                     ELSE Min2(calm + 1, ArmPolls - 1)
          /\ gone' = (gone \/ now = "off")
          /\ ons' = IF now = "off" THEN ons
                    ELSE IF gone THEN ArmPolls ELSE Min2(ons + 1, ArmPolls)
    /\ notices' = {}
    /\ at' = "read"
    /\ UNCHANGED <<reach, wifi, copy, wake, guard, sleep, stable, tg, asked, since>>

\* Faulty variant (#182): the guard of what is read lives until the judgement.
ReadWakeKeepingGuard ==
    /\ at = "read" /\ guard = None
    /\ copy' = wake
    /\ guard' = IF wake = None THEN None ELSE "ui"
    /\ at' = "wake"
    /\ UNCHANGED <<reach, wifi, due, pcOnline, wake, sleep, stable, notices, tg, history>>

\* wake_watch_started
ReadWake ==
    /\ at = "read" /\ guard = None
    /\ copy' = wake
    /\ at' = "wake"
    /\ UNCHANGED <<reach, wifi, due, pcOnline, wake, guard, sleep, stable, notices, tg, history>>

\* Faulty variant: a watch that timed out stays.
AfterWakeKept(verdict) == IF verdict = "wokeUp" THEN None ELSE wake

\* clear_wake_watch: whatever is being watched by now is dropped.
AfterWake(verdict) == IF verdict = "waiting" THEN wake ELSE None

\* Faulty variant: the stable notice does not learn of the success.
KnownAfterUntold(verdict) == stable

\* A wake that succeeded is what the stable notice would say: it is marked
\* as told.
KnownAfter(verdict) == IF verdict = "wokeUp" THEN Settled("on") ELSE stable

\* The verdict is that of the copy, the clearing is done now, under the mutex.
JudgeWake ==
    /\ at = "wake"
    /\ LET verdict == WakePoll(copy, pcOnline)
       IN /\ verdict # "waiting" => guard = None
          /\ wake' = AfterWake(verdict)
          /\ stable' = KnownAfter(verdict)
          /\ notices' = {verdict} \ {"waiting"}
          /\ onTold' = (onTold \/ verdict = "wokeUp")
          /\ asked' = (asked /\ verdict = "waiting")
    /\ copy' = None
    /\ at' = "stable"
    /\ UNCHANGED <<reach, wifi, due, pcOnline, guard, sleep, tg, run, since, calm, gone, ons>>

\* poll_sleep_watch (one lock) and the stable notice
JudgeStable ==
    /\ at = "stable"
    /\ LET woke == "wokeUp" \in notices
           suppress == Suppresses(sleep, pcOnline)
           told == Notifies(stable, pcOnline, woke, suppress)
       IN /\ sleep' = SleepPoll(sleep, pcOnline)
          /\ stable' = StablePoll(stable, pcOnline, woke, suppress)
          /\ notices' = IF told
                        THEN notices \cup {IF pcOnline = "on" THEN "started" ELSE "stopped"}
                        ELSE notices
          /\ onTold' = (onTold \/ (told /\ pcOnline = "on"))
    /\ at' = "loop"
    /\ UNCHANGED <<reach, wifi, due, pcOnline, copy, wake, guard, tg, run, asked, since>>
    /\ UNCHANGED <<calm, gone, ons>>

-----------------------------------------------------------------------------
(* Instructions.                                                           *)

\* begin_wake_watch: a PC that is on is not watched for; a new instruction
\* starts the deadline again.
BeginWakeWatch(now) ==
    /\ guard = None
    /\ wake' = IF now = "on" THEN None ELSE 0
    /\ asked' = (asked \/ now = "off")
    /\ since' = IF now = "on" THEN since ELSE 0

\* The WAKE button of the panel, when the magic packet was sent.
PanelWake ==
    /\ at = "loop"
    /\ BeginWakeWatch(pcOnline)
    /\ UNCHANGED <<reach, wifi, uiVars, guard, sleep, tg, run, onTold, calm, gone, ons>>

\* do_wake of the polling thread: its own probe, then the watch.
TgProbe ==
    /\ tg = "idle"
    /\ tg' \in Answers
    /\ UNCHANGED <<reach, wifi, uiVars, wake, guard, sleep, history>>

TgBeginWake ==
    /\ tg # "idle"
    /\ BeginWakeWatch(tg)
    /\ guard' = "tg"
    /\ UNCHANGED <<reach, wifi, uiVars, sleep, tg, run, onTold, calm, gone, ons>>

\* The end of begin_wake_watch: its guard is dropped.
TgRelease ==
    /\ guard = "tg"
    /\ guard' = None /\ tg' = "idle"
    /\ UNCHANGED <<reach, wifi, uiVars, wake, sleep, history>>

\* begin_sleep_watch: only a PC that runs can accept the request.
TgBeginSleep ==
    /\ tg = "idle" /\ reach # "off"
    /\ sleep' = [phase |-> "armed", polls |-> 0]
    /\ calm' = 0 /\ gone' = FALSE /\ ons' = 0
    /\ UNCHANGED <<reach, wifi, uiVars, wake, guard, tg, run, onTold, asked, since>>

-----------------------------------------------------------------------------
(* The world.                                                              *)

\* The PC starts, stops, sleeps, or its network gets better or worse.
PcChanges ==
    /\ reach' \in {"on", "off", "flaky"} \ {reach}
    /\ UNCHANGED <<wifi, uiVars, wake, guard, sleep, tg, history>>

\* The Wi-Fi check: a lost connection shows the PC as off, without a probe.
WifiChanges ==
    /\ at = "loop"
    /\ wifi' = ~wifi
    /\ pcOnline' = IF wifi' THEN pcOnline ELSE "off"
    /\ UNCHANGED <<reach, due, at, copy, stable, notices, wake, guard, sleep, tg, history>>

Older(age) == IF age = None THEN None ELSE Min2(age + 1, WakeTimeout)

Tick ==
    /\ due' = TRUE
    /\ wake' = Older(wake) /\ copy' = Older(copy) /\ since' = Older(since)
    /\ UNCHANGED <<reach, wifi, at, pcOnline, stable, notices, guard, sleep, tg>>
    /\ UNCHANGED <<run, onTold, asked, calm, gone, ons>>

\* Everything is in RAM.  What the chat was told stays told.
Restart ==
    /\ due' = FALSE /\ at' = "loop" /\ pcOnline' = "off" /\ copy' = None
    /\ wake' = None /\ guard' = None /\ tg' = "idle" /\ notices' = {}
    /\ sleep' = SleepIdle
    /\ stable' = [notified |-> None, streak |-> 0]
    /\ run' = [answer |-> "off", count |-> 0]
    /\ asked' = FALSE /\ since' = WakeTimeout
    /\ calm' = ArmPolls - 1 /\ gone' = FALSE /\ ons' = ArmPolls
    /\ wifi' \in BOOLEAN
    /\ UNCHANGED <<reach, onTold>>

-----------------------------------------------------------------------------

Cycle == Probe \/ ReadWake \/ JudgeWake \/ JudgeStable

BeginWake == PanelWake \/ TgBeginWake

Next ==
    \/ Cycle \/ BeginWake \/ TgProbe \/ TgRelease \/ TgBeginSleep
    \/ PcChanges \/ WifiChanges \/ Tick \/ Restart

Spec == Init /\ [][Next]_vars

\* The UI loop runs its cycle whenever it is due and the Wi-Fi is up, and gets
\* a mutex that is released again and again; a thread that is inside goes on,
\* and so does the clock.  Nobody has to give an instruction.
FairSpec == Spec /\ SF_vars(Cycle) /\ WF_vars(TgRelease) /\ WF_vars(Tick)

-----------------------------------------------------------------------------
(* Properties.                                                             *)

Sends(notice) == notice \in notices' \ notices

(* A cycle that is due, or has begun, waits for nobody but the polling     *)
(* thread, while that one is inside begin_wake_watch and can leave it: the *)
(* loop never waits for a guard of its own (main.rs:541, telegram.rs:107), *)
(* whichever watch is begun while it judges another; and the clock goes on *)
(* as long as a cycle or a deadline depends on it.                         *)
CycleGoesOn ==
    /\ (at # "loop" \/ (wifi /\ due)) /\ guard # "tg" => ENABLED <<Cycle>>_vars
    /\ guard = "tg" => ENABLED <<TgRelease>>_vars
    /\ ~due \/ (wake # None /\ wake < WakeTimeout) => ENABLED <<Tick>>_vars

(* A change is told only after it was observed StablePolls times in a row  *)
(* (notify_stable): a short outage, a wake in between or a held-back sleep *)
(* does not make two answers out of one.                                   *)
SteadyBeforeTold ==
    /\ "started" \in notices => run = [answer |-> "on", count |-> StablePolls]
    /\ "stopped" \in notices => run = [answer |-> "off", count |-> StablePolls]

(* "The PC has stopped" is not told of a PC that was put to sleep          *)
(* (wake_check::SleepWatch): only if it came back in between, or stayed on *)
(* for all but one of the ArmPolls cycles it is given to fall asleep.  One *)
(* less because an instruction may arrive between a probe and its verdict. *)
SleepIsNotToldAsStop == [][Sends("stopped") => calm = ArmPolls - 1]_vars

(* And nothing else is kept from the chat: a stop that it is not told of,  *)
(* though it knows the PC as on, is that of a PC that has neither come     *)
(* back since it was put to sleep nor stayed on for ArmPolls cycles.       *)
OnlySleepIsHeldBack ==
    [][stable.notified = "on" /\ stable'.notified = "off" /\ ~Sends("stopped")
       => ons < ArmPolls]_vars

(* The stable notice does not repeat an "on" that was told (main.rs:556),  *)
(* neither ten seconds after a wake that succeeded nor after a restart.    *)
OnNotRepeated == [][Sends("started") => ~onTold]_vars

(* A wake instruction is answered at most once, whichever of the threads   *)
(* gave it and whatever is instructed while it is being judged.            *)
WakeAnsweredOnce == [][Sends("wokeUp") \/ Sends("timedOut") => asked]_vars

(* Every watch comes to an end while the Wi-Fi is up, unless it is renewed *)
(* again and again.                                                        *)
WakeResolves == <>[]wifi => []<>(wake = None) \/ []<><<BeginWake>>_vars

(* When the PC stays on or off and answers reliably, that is in the end    *)
(* what the chat was told last or knows as the base line.                  *)
EventuallyAgrees ==
    \A now \in Answer :
        <>[](wifi /\ reach = now) /\ <>[][~Restart]_vars => <>[](stable.notified = now)

(* telegram.rs:128 as it is written: an instruction that is given while    *)
(* one is watched starts the deadline again, so a time-out is never told   *)
(* before the last instruction is that old.                                *)
TimeoutCountsFromLastWake == [][Sends("timedOut") => since = WakeTimeout]_vars
=============================================================================
