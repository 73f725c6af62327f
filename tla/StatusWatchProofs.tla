-------------------------- MODULE StatusWatchProofs --------------------------
(***************************************************************************)
(* What the firmware tells the chat about the PC is proved for any number  *)
(* of stable polls, any number of polls to fall asleep and any deadline of *)
(* a wake.  The history variables that the properties speak of say nothing *)
(* by themselves: the invariant ties each of them to the state the code    *)
(* keeps, between two cycles and within one.                               *)
(***************************************************************************)
EXTENDS StatusWatch, TLAPS

InCycle == at \in {"read", "wake", "stable"}

\* Within a cycle the answer of its probe is the last one observed, and
\* nothing has been told yet but the end of a wake.
ProbeIsLast ==
    InCycle => /\ pcOnline = run.answer /\ run.count > 0
               /\ notices \subseteq {"wokeUp", "timedOut"}

\* The streak counts answers that were observed in a row and differ from what
\* the chat knows; within a cycle the newest of them is not counted yet.
StreakObserved ==
    LET known == stable.streak IN
    /\ known > 0 => stable.notified # None
    /\ known > 0 /\ at = "loop" => run.answer # stable.notified /\ run.count >= known
    /\ known > 0 /\ InCycle /\ run.answer # stable.notified => run.count >= known + 1
    /\ at = "stable" /\ "wokeUp" \in notices => known = 0 /\ pcOnline = "on"

\* An "on" that was told, and no "off" since, is still what the chat knows.
ToldOnIsKnown ==
    /\ onTold => stable.notified # "off"
    /\ InCycle /\ pcOnline = "off" => ~onTold

\* A watch stands for an instruction that has not been answered.
WatchIsAsked == (wake # None \/ copy # None) => asked

\* How far the sleep watch is says how calm the PC has been since.
WatchCountsCalm ==
    /\ sleep.phase = "idle" => calm = ArmPolls - 1
    /\ sleep.phase = "armed" =>
           calm >= IF InCycle /\ pcOnline = "on" THEN sleep.polls ELSE sleep.polls - 1
    /\ sleep.phase = "suppressing" =>
           IF InCycle /\ pcOnline = "on" THEN calm = ArmPolls - 1 ELSE run.answer = "off" /\ run.count > 0

\* A watch that waits has seen all the "on" answers but that of the cycle
\* that runs; and one that holds back has done so since the first "off".
WaitingCountsOns ==
    /\ sleep.phase = "armed" =>
           /\ ons <= sleep.polls + (IF InCycle /\ pcOnline = "on" THEN 1 ELSE 0)
           /\ gone => InCycle /\ pcOnline = "off"
    /\ sleep.phase = "suppressing" /\ stable.notified = "on" => InCycle /\ pcOnline = "on"

IInv ==
    /\ TypeOK /\ SteadyBeforeTold
    /\ ProbeIsLast /\ StreakObserved /\ ToldOnIsKnown /\ WatchIsAsked
    /\ WatchCountsCalm /\ WaitingCountsOns

-----------------------------------------------------------------------------
(* The judgements.                                                         *)

LEMMA OlderType ==
    ASSUME NEW age \in AgeOf \cup {None}
    PROVE  Older(age) \in AgeOf \cup {None} /\ (age \in AgeOf => Older(age) \in AgeOf)
           /\ (Older(age) # None => age # None)
  BY PollsAssumption, NoneAssumption DEF Older, Min2, AgeOf

LEMMA SleepPollType ==
    ASSUME NEW s \in SleepWatch, NEW now \in Answer
    PROVE  SleepPoll(s, now) \in SleepWatch
<1> USE PollsAssumption DEF SleepWatch, Phases
<1>1. SleepIdle \in SleepWatch /\ [phase |-> "suppressing", polls |-> 0] \in SleepWatch
  BY DEF SleepIdle
<1>2. s.polls + 1 < ArmPolls => [s EXCEPT !.polls = @ + 1] \in SleepWatch
  OBVIOUS
<1> QED
  BY <1>1, <1>2 DEF SleepPoll, StayedOn

\* A change is told only when the streak is complete with this answer, and
\* what is left of the streak is one longer or none.
LEMMA StablePollResult ==
    ASSUME NEW s \in StableNotify, NEW now \in Answer, NEW woke \in BOOLEAN,
           NEW suppress \in BOOLEAN, woke => s.streak = 0,
           NEW next, next = StablePoll(s, now, woke, suppress)
    PROVE  /\ next \in StableNotify /\ next.notified \in {s.notified, now}
           /\ next.streak > 0 => next.streak = s.streak + 1 /\ Differs(s, now)
                                 /\ next.notified = s.notified
           /\ Notifies(s, now, woke, suppress) =>
                  /\ Differs(s, now) /\ s.streak + 1 = StablePolls /\ ~suppress
                  /\ next.notified = now
<1> USE PollsAssumption DEF StableNotify
<1>1. Count(s, now) \in Nat
      /\ (Count(s, now) > 0 => Differs(s, now) /\ Count(s, now) = s.streak + 1)
  BY DEF Count
<1>2. Settled(now) \in StableNotify /\ Settled(now).streak = 0 /\ Settled(now).notified = now
  BY DEF Settled
<1>3. CASE StablePoll(s, now, woke, suppress) \in {s, Settled(now)}
  BY <1>1, <1>2, <1>3 DEF StablePoll, Notifies
<1>4. CASE /\ Count(s, now) > 0 /\ Count(s, now) < StablePolls
           /\ StablePoll(s, now, woke, suppress) = [s EXCEPT !.streak = Count(s, now)]
  BY <1>1, <1>4 DEF Notifies
<1> QED
  BY <1>1, <1>3, <1>4 DEF StablePoll

LEMMA AnswersType == TypeOK => Answers \subseteq Answer
  BY DEF TypeOK, Answers, Answer

\* What a start of the firmware begins with.
LEMMA FreshType ==
    /\ SleepIdle \in SleepWatch /\ [notified |-> None, streak |-> 0] \in StableNotify
    /\ [answer |-> "off", count |-> 0] \in [answer : Answer, count : 0..StablePolls]
    /\ WakeTimeout \in AgeOf /\ ArmPolls - 1 \in 0..(ArmPolls - 1) /\ ArmPolls \in 0..ArmPolls
  BY PollsAssumption DEF SleepIdle, SleepWatch, StableNotify, Answer, AgeOf, Phases

-----------------------------------------------------------------------------
(* The initial states, and steps outside of the cycle.                     *)

LEMMA InitSafe == Init => IInv
<1> SUFFICES ASSUME Init PROVE IInv
  OBVIOUS
<1> USE DEF Init
<1>1. TypeOK /\ SteadyBeforeTold
  BY FreshType DEF TypeOK, SteadyBeforeTold, Answer
<1>2. ProbeIsLast /\ StreakObserved /\ ToldOnIsKnown /\ WatchIsAsked /\ WatchCountsCalm
      /\ WaitingCountsOns
  BY PollsAssumption
  DEF ProbeIsLast, StreakObserved, ToldOnIsKnown, WatchIsAsked, WatchCountsCalm,
      WaitingCountsOns, InCycle, SleepIdle
<1> QED
  BY <1>1, <1>2 DEF IInv

\* An instruction to wake only touches the watch.
LEMMA BeginWakeSafe ==
    ASSUME IInv, NEW now \in Answer, BeginWakeWatch(now), guard' \in {"tg", guard},
           UNCHANGED <<reach, wifi, uiVars, sleep, tg, run, onTold, calm, gone, ons>>
    PROVE  IInv'
<1> USE DEF BeginWakeWatch, uiVars
<1>1. TypeOK' /\ SteadyBeforeTold'
  BY PollsAssumption DEF IInv, TypeOK, SteadyBeforeTold, AgeOf
<1>2. ProbeIsLast' /\ StreakObserved' /\ ToldOnIsKnown' /\ WatchCountsCalm' /\ WaitingCountsOns'
  BY DEF IInv, ProbeIsLast, StreakObserved, ToldOnIsKnown, WatchCountsCalm, WaitingCountsOns,
         InCycle
<1>3. WatchIsAsked'
  BY DEF IInv, TypeOK, WatchIsAsked, Answer
<1> QED
  BY <1>1, <1>2, <1>3 DEF IInv

LEMMA BeginSleepSafe ==
    ASSUME IInv, TgBeginSleep PROVE IInv'
<1> USE DEF TgBeginSleep, uiVars
<1>1. TypeOK' /\ SteadyBeforeTold'
  <2>1. sleep' \in SleepWatch
    BY PollsAssumption DEF Phases, SleepWatch
  <2>2. calm' \in 0..(ArmPolls - 1) /\ ons' \in 0..ArmPolls
    BY PollsAssumption
  <2>3. SteadyBeforeTold'
    BY DEF IInv, SteadyBeforeTold
  <2>4. gone' \in BOOLEAN
    OBVIOUS
  <2>5. UNCHANGED <<reach, wifi, due, at, pcOnline, copy, wake, guard, stable, notices, tg>>
        /\ UNCHANGED <<run, onTold, asked, since>>
    OBVIOUS
  <2> HIDE DEF TgBeginSleep
  <2> QED
    BY <2>1, <2>2, <2>3, <2>4, <2>5 DEF IInv, TypeOK
<1>2. ProbeIsLast' /\ StreakObserved' /\ ToldOnIsKnown' /\ WatchIsAsked'
  BY DEF IInv, ProbeIsLast, StreakObserved, ToldOnIsKnown, WatchIsAsked, InCycle
<1>3. WatchCountsCalm' /\ WaitingCountsOns'
  BY DEF WatchCountsCalm, WaitingCountsOns
<1> QED
  BY <1>1, <1>2, <1>3 DEF IInv

LEMMA WorldSafe ==
    ASSUME IInv, TgProbe \/ TgRelease \/ PcChanges \/ WifiChanges \/ Tick \/ UNCHANGED vars
    PROVE  IInv'
<1> USE DEF TgProbe, TgRelease, PcChanges, WifiChanges, Tick, uiVars, history, vars
<1>1. TypeOK'
  <2>1. CASE Tick
    BY <2>1, OlderType DEF IInv, TypeOK
  <2>2. CASE TgProbe
    BY <2>2, AnswersType DEF IInv, TypeOK
  <2>3. CASE PcChanges
    BY <2>3 DEF IInv, TypeOK
  <2>4. CASE TgRelease
    BY <2>4 DEF IInv, TypeOK
  <2>5. CASE WifiChanges
    BY <2>5 DEF IInv, TypeOK, Answer
  <2>6. CASE UNCHANGED vars
    BY <2>6 DEF IInv, TypeOK
  <2> QED
    BY <2>1, <2>2, <2>3, <2>4, <2>5, <2>6
<1>2. SteadyBeforeTold'
  BY DEF IInv, SteadyBeforeTold
<1>3. ProbeIsLast' /\ StreakObserved' /\ ToldOnIsKnown'
  BY DEF IInv, ProbeIsLast, StreakObserved, ToldOnIsKnown, InCycle
<1>4. WatchCountsCalm' /\ WaitingCountsOns'
  BY DEF IInv, WatchCountsCalm, WaitingCountsOns, InCycle
<1>5. WatchIsAsked'
  BY OlderType DEF IInv, TypeOK, WatchIsAsked
<1> QED
  BY <1>1, <1>2, <1>3, <1>4, <1>5 DEF IInv

\* After a restart nothing is known, so nothing that was told is contradicted.
LEMMA RestartSafe ==
    ASSUME IInv, Restart PROVE IInv'
<1> USE DEF Restart
<1>1. TypeOK' /\ SteadyBeforeTold'
  BY FreshType DEF IInv, TypeOK, SteadyBeforeTold, Answer
<1>2. ProbeIsLast' /\ StreakObserved' /\ ToldOnIsKnown' /\ WatchIsAsked' /\ WatchCountsCalm'
      /\ WaitingCountsOns'
  BY PollsAssumption, NoneAssumption
  DEF SleepIdle, ProbeIsLast, StreakObserved, ToldOnIsKnown, WatchIsAsked, WatchCountsCalm,
      WaitingCountsOns, InCycle
<1> QED
  BY <1>1, <1>2 DEF IInv

-----------------------------------------------------------------------------
(* The STATUS cycle.                                                       *)

LEMMA ProbeSafe ==
    ASSUME IInv, Probe PROVE IInv'
<1>1. PICK now \in Answer :
        /\ pcOnline' = now
        /\ run' = IF now = run.answer
                  THEN [run EXCEPT !.count = Min2(@ + 1, StablePolls)]
                  ELSE [answer |-> now, count |-> 1]
        /\ onTold' = (onTold /\ now = "on")
        /\ calm' = IF now = "off" THEN calm
                   ELSE IF run.answer = "off" /\ run.count > 0 THEN ArmPolls - 1
                   ELSE Min2(calm + 1, ArmPolls - 1)
        /\ gone' = (gone \/ now = "off")
        /\ ons' = IF now = "off" THEN ons
                  ELSE IF gone THEN ArmPolls ELSE Min2(ons + 1, ArmPolls)
  BY AnswersType DEF IInv, Probe
<1>2. /\ run' \in [answer : Answer, count : 0..StablePolls]
      /\ run'.answer = now /\ run'.count > 0
      /\ now = run.answer => run'.count = Min2(run.count + 1, StablePolls)
  BY <1>1, PollsAssumption DEF IInv, TypeOK, Min2
<1>3. calm' \in 0..(ArmPolls - 1) /\ ons' \in 0..ArmPolls /\ gone' \in BOOLEAN
  BY <1>1, PollsAssumption DEF IInv, TypeOK, Min2
<1>4. TypeOK' /\ SteadyBeforeTold'
  BY <1>1, <1>2, <1>3 DEF Probe, IInv, TypeOK, SteadyBeforeTold
<1>5. ProbeIsLast' /\ ToldOnIsKnown' /\ WatchIsAsked'
  BY <1>1, <1>2
  DEF Probe, IInv, TypeOK, ProbeIsLast, ToldOnIsKnown, WatchIsAsked, InCycle, Answer
<1>6. StreakObserved'
  <2>1. stable.streak \in Nat /\ stable.streak < StablePolls /\ stable' = stable
        /\ notices' = {} /\ at = "loop" /\ at' = "read"
    BY PollsAssumption DEF Probe, IInv, TypeOK, StableNotify
  <2>2. ASSUME stable.streak > 0, now # stable.notified
        PROVE  run'.count >= stable.streak + 1
    <3>1. stable.notified \in Answer /\ run.answer # stable.notified
          /\ run.count >= stable.streak
      BY <2>1, <2>2 DEF IInv, TypeOK, StreakObserved, StableNotify
    <3>2. now = run.answer
      BY <2>2, <3>1 DEF IInv, TypeOK, Answer
    <3> QED
      BY <1>2, <2>1, <3>1, <3>2, PollsAssumption DEF IInv, TypeOK, Min2
  <2> QED
    BY <1>2, <2>1, <2>2 DEF IInv, StreakObserved, InCycle
<1>7. WatchCountsCalm'
  <2>1. sleep' = sleep /\ sleep.polls \in 0..(ArmPolls - 1) /\ ~InCycle /\ InCycle'
        /\ calm \in 0..(ArmPolls - 1) /\ run.answer \in Answer
    BY DEF Probe, IInv, TypeOK, SleepWatch, InCycle
  <2>2. WatchCountsCalm
    BY DEF IInv
  <2>3. CASE sleep.phase = "idle"
    BY <1>1, <2>1, <2>2, <2>3, PollsAssumption DEF WatchCountsCalm, Min2
  <2>4. CASE sleep.phase = "armed"
    BY <1>1, <2>1, <2>2, <2>4, PollsAssumption DEF WatchCountsCalm, Min2, Answer
  <2>5. CASE sleep.phase = "suppressing"
    BY <1>1, <1>2, <2>1, <2>2, <2>5 DEF WatchCountsCalm, Answer
  <2> QED
    BY <2>1, <2>3, <2>4, <2>5 DEF WatchCountsCalm
<1>8. WaitingCountsOns'
  <2>1. sleep' = sleep /\ stable' = stable /\ sleep.polls \in 0..(ArmPolls - 1)
        /\ ~InCycle /\ InCycle' /\ ons \in 0..ArmPolls /\ WaitingCountsOns
    BY DEF Probe, IInv, TypeOK, SleepWatch, InCycle
  <2>2. CASE sleep.phase = "armed"
    <3>1. ~gone /\ ons <= sleep.polls
      BY <2>1, <2>2 DEF WaitingCountsOns
    <3>2. gone' => now = "off"
      BY <1>1, <3>1
    <3>3. ons' <= ons + (IF now = "on" THEN 1 ELSE 0)
      <4>1. CASE now = "off"
        BY <1>1, <2>1, <4>1
      <4>2. CASE now = "on"
        BY <1>1, <2>1, <3>1, <4>2, PollsAssumption DEF Min2
      <4> QED
        BY <4>1, <4>2 DEF Answer
    <3>4. sleep'.polls = sleep.polls /\ sleep'.phase = "armed" /\ pcOnline' = now
      BY <1>1, <2>1, <2>2
    <3>5. ons' <= sleep'.polls + (IF now = "on" THEN 1 ELSE 0)
      BY <1>3, <2>1, <3>1, <3>4, <3>3
    <3> QED
      BY <2>1, <3>2, <3>4, <3>5 DEF WaitingCountsOns
  <2>3. CASE sleep.phase # "armed"
    BY <2>1, <2>3 DEF WaitingCountsOns
  <2> QED
    BY <2>2, <2>3
<1> QED
  BY <1>4, <1>5, <1>6, <1>7, <1>8 DEF IInv

LEMMA ReadWakeSafe ==
    ASSUME IInv, ReadWake PROVE IInv'
<1> USE DEF ReadWake, history
<1>1. TypeOK' /\ SteadyBeforeTold'
  BY DEF IInv, TypeOK, SteadyBeforeTold
<1>2. ProbeIsLast' /\ StreakObserved' /\ ToldOnIsKnown' /\ WatchIsAsked'
  BY DEF IInv, ProbeIsLast, StreakObserved, ToldOnIsKnown, WatchIsAsked, InCycle
<1>3. WatchCountsCalm' /\ WaitingCountsOns'
  BY DEF IInv, WatchCountsCalm, WaitingCountsOns, InCycle
<1> QED
  BY <1>1, <1>2, <1>3 DEF IInv

\* A wake is judged a success only if the PC answered, and answered only if
\* it was asked for.
LEMMA Verdict ==
    ASSUME IInv, at = "wake"
    PROVE  LET verdict == WakePoll(copy, pcOnline) IN
           /\ verdict \in {"waiting", "wokeUp", "timedOut"}
           /\ verdict = "wokeUp" => pcOnline = "on"
           /\ verdict # "waiting" => asked
  BY DEF IInv, WakePoll, WatchIsAsked

LEMMA JudgeWakeSafe ==
    ASSUME IInv, JudgeWake PROVE IInv'
<1> DEFINE verdict == WakePoll(copy, pcOnline)
<1> USE DEF JudgeWake
<1>1. Settled("on") \in StableNotify /\ Settled("on").streak = 0
      /\ Settled("on").notified = "on"
  BY PollsAssumption DEF Settled, StableNotify, Answer
<1>2. stable' = KnownAfter(verdict) /\ notices' = {verdict} \ {"waiting"}
      /\ onTold' = (onTold \/ verdict = "wokeUp") /\ wake' = AfterWake(verdict)
      /\ asked' = (asked /\ verdict = "waiting")
  OBVIOUS
<1>3. verdict \in {"waiting", "wokeUp", "timedOut"} /\ (verdict = "wokeUp" => pcOnline = "on")
      /\ (verdict # "waiting" => asked)
  BY Verdict
<1> HIDE DEF verdict
<1>4. TypeOK'
  BY <1>1, <1>2, <1>3 DEF IInv, TypeOK, KnownAfter, AfterWake
<1>5. SteadyBeforeTold' /\ ProbeIsLast'
  BY <1>2, <1>3 DEF IInv, SteadyBeforeTold, ProbeIsLast, InCycle
<1>6. StreakObserved'
  BY <1>1, <1>2, <1>3 DEF IInv, StreakObserved, KnownAfter, InCycle
<1>7. ToldOnIsKnown' /\ WatchIsAsked'
  BY <1>1, <1>2, <1>3 DEF IInv, ToldOnIsKnown, WatchIsAsked, KnownAfter, AfterWake, InCycle
<1>8. WatchCountsCalm'
  BY DEF IInv, WatchCountsCalm, InCycle
<1>9. WaitingCountsOns'
  BY <1>1, <1>2, <1>3 DEF IInv, WaitingCountsOns, KnownAfter, InCycle
<1> QED
  BY <1>4, <1>5, <1>6, <1>7, <1>8, <1>9 DEF IInv

\* What the last step of the cycle works with, and what it tells.
Woke == "wokeUp" \in notices
Suppressed == Suppresses(sleep, pcOnline)
Telling == Notifies(stable, pcOnline, Woke, Suppressed)

LEMMA Told ==
    ASSUME IInv, JudgeStable
    PROVE  /\ stable' \in StableNotify /\ stable'.notified \in {stable.notified, pcOnline}
           /\ stable'.streak > 0 =>
                  /\ stable'.streak = stable.streak + 1 /\ Differs(stable, pcOnline)
                  /\ stable'.notified = stable.notified
           /\ Telling => /\ Differs(stable, pcOnline) /\ run.count = StablePolls
                         /\ ~Suppressed /\ run.answer = pcOnline
                         /\ stable'.notified = pcOnline
<1>1. Woke => stable.streak = 0
  BY DEF IInv, TypeOK, StreakObserved, StableNotify, JudgeStable, Woke
<1>2. stable \in StableNotify /\ pcOnline \in Answer /\ Woke \in BOOLEAN
      /\ Suppressed \in BOOLEAN
  BY DEF IInv, TypeOK, Suppresses, Woke, Suppressed
<1>3. stable' = StablePoll(stable, pcOnline, Woke, Suppressed)
  BY DEF JudgeStable, Woke, Suppressed
<1>4. pcOnline = run.answer /\ run.count > 0 /\ run.count \in 0..StablePolls
  BY DEF IInv, TypeOK, ProbeIsLast, InCycle, JudgeStable
<1>5. Differs(stable, pcOnline) /\ stable.streak + 1 = StablePolls => run.count = StablePolls
  BY <1>2, <1>4, PollsAssumption
  DEF IInv, StreakObserved, InCycle, JudgeStable, Differs, StableNotify
<1>6. /\ stable' \in StableNotify /\ stable'.notified \in {stable.notified, pcOnline}
      /\ stable'.streak > 0 =>
             /\ stable'.streak = stable.streak + 1 /\ Differs(stable, pcOnline)
             /\ stable'.notified = stable.notified
      /\ Telling => /\ Differs(stable, pcOnline) /\ stable.streak + 1 = StablePolls
                    /\ ~Suppressed /\ stable'.notified = pcOnline
  <2> QED
    BY <1>1, <1>2, <1>3, StablePollResult DEF Telling
<1> QED
  BY <1>4, <1>5, <1>6

\* What is held back counts as told: the chat does not know an "on" any more.
LEMMA SuppressedKnown ==
    ASSUME IInv, JudgeStable, Suppressed PROVE stable'.notified = "off"
<1>1. pcOnline = "off" /\ stable' = StablePoll(stable, pcOnline, Woke, Suppressed)
  BY DEF JudgeStable, Woke, Suppressed, Suppresses
<1>2. CASE Woke
  BY <1>1, <1>2 DEF IInv, StreakObserved, JudgeStable, Woke
<1>3. CASE ~Woke
  BY <1>1, <1>3 DEF StablePoll, Settled
<1> QED
  BY <1>2, <1>3

LEMMA JudgeStableSafe ==
    ASSUME IInv, JudgeStable PROVE IInv'
<1>1. /\ sleep' = SleepPoll(sleep, pcOnline)
      /\ notices' = IF Telling
                    THEN notices \cup {IF pcOnline = "on" THEN "started" ELSE "stopped"}
                    ELSE notices
      /\ onTold' = (onTold \/ (Telling /\ pcOnline = "on"))
      /\ at = "stable" /\ at' = "loop"
      /\ UNCHANGED <<reach, wifi, due, pcOnline, copy, wake, guard, tg, run, asked, since>>
      /\ UNCHANGED <<calm, gone, ons>>
  BY DEF JudgeStable, Telling, Woke, Suppressed
<1>2. /\ stable' \in StableNotify /\ stable'.notified \in {stable.notified, pcOnline}
      /\ stable'.streak > 0 =>
             /\ stable'.streak = stable.streak + 1 /\ Differs(stable, pcOnline)
             /\ stable'.notified = stable.notified
      /\ Telling => /\ run.count = StablePolls /\ run.answer = pcOnline
                    /\ stable'.notified = pcOnline
  BY Told
<1>3. pcOnline \in {"on", "off"} /\ run \in [answer : Answer, count : 0..StablePolls]
      /\ pcOnline = run.answer /\ run.count > 0
  BY <1>1 DEF IInv, TypeOK, Answer, ProbeIsLast, InCycle
<1>4. TypeOK'
  BY <1>1, <1>2, <1>3, SleepPollType DEF IInv, TypeOK
<1>5. SteadyBeforeTold'
  BY <1>1, <1>2, <1>3 DEF IInv, SteadyBeforeTold
<1>6. ProbeIsLast' /\ WatchIsAsked'
  BY <1>1 DEF IInv, ProbeIsLast, WatchIsAsked, InCycle
<1>7. ToldOnIsKnown'
  BY <1>1, <1>2, <1>3 DEF IInv, ToldOnIsKnown, InCycle, Differs
<1>8. StreakObserved'
  BY <1>1, <1>2, <1>3 DEF IInv, TypeOK, StreakObserved, InCycle, Differs, StableNotify
<1>9. WatchCountsCalm'
  <2>1. sleep \in SleepWatch /\ calm \in 0..(ArmPolls - 1) /\ InCycle /\ ~InCycle'
        /\ WatchCountsCalm
    BY <1>1 DEF IInv, TypeOK, InCycle
  <2>2. CASE pcOnline = "off" /\ sleep.phase # "idle"
    BY <1>1, <1>3, <2>1, <2>2 DEF SleepPoll, Suppresses, WatchCountsCalm
  <2>3. CASE pcOnline = "on" /\ sleep.phase = "armed"
    BY <1>1, <2>1, <2>3, PollsAssumption
    DEF SleepPoll, Suppresses, StayedOn, SleepIdle, WatchCountsCalm, SleepWatch
  <2>4. CASE sleep.phase = "idle" \/ (pcOnline = "on" /\ sleep.phase = "suppressing")
    BY <1>1, <2>1, <2>4 DEF SleepPoll, Suppresses, SleepIdle, WatchCountsCalm
  <2> QED
    BY <1>3, <2>1, <2>2, <2>3, <2>4 DEF SleepWatch, Phases
<1>10. WaitingCountsOns'
  <2>1. sleep \in SleepWatch /\ ons \in 0..ArmPolls /\ InCycle /\ ~InCycle'
        /\ WaitingCountsOns
    BY <1>1 DEF IInv, TypeOK, InCycle
  <2>2. CASE Suppresses(sleep, pcOnline)
    <3>1. sleep'.phase = "suppressing" /\ pcOnline = "off" /\ Suppressed
      BY <1>1, <2>2 DEF SleepPoll, Suppresses, Suppressed
    <3>2. stable'.notified # "on"
      BY <3>1, SuppressedKnown
    <3> QED
      BY <3>1, <3>2 DEF WaitingCountsOns
  <2>3. CASE pcOnline = "on" /\ sleep.phase = "armed"
    BY <1>1, <2>1, <2>3, PollsAssumption
    DEF SleepPoll, Suppresses, StayedOn, SleepIdle, WaitingCountsOns, SleepWatch
  <2>4. CASE sleep.phase = "idle" \/ (pcOnline = "on" /\ sleep.phase = "suppressing")
    BY <1>1, <2>1, <2>4 DEF SleepPoll, Suppresses, SleepIdle, WaitingCountsOns
  <2> QED
    BY <1>3, <2>1, <2>2, <2>3, <2>4 DEF SleepWatch, Phases, Suppresses
<1> QED
  BY <1>4, <1>5, <1>6, <1>7, <1>8, <1>9, <1>10 DEF IInv

-----------------------------------------------------------------------------
(* Together.                                                               *)

LEMMA Inductive == IInv /\ [Next]_vars => IInv'
<1> SUFFICES ASSUME IInv, [Next]_vars PROVE IInv'
  OBVIOUS
<1>1. CASE Cycle
  BY <1>1, ProbeSafe, ReadWakeSafe, JudgeWakeSafe, JudgeStableSafe DEF Cycle
<1>2. CASE PanelWake
  BY <1>2, BeginWakeSafe DEF PanelWake, IInv, TypeOK
<1>3. CASE TgBeginWake
  BY <1>3, BeginWakeSafe DEF TgBeginWake, IInv, TypeOK, Answer
<1>4. CASE TgBeginSleep
  BY <1>4, BeginSleepSafe
<1>5. CASE TgProbe \/ TgRelease \/ PcChanges \/ WifiChanges \/ Tick \/ UNCHANGED vars
  BY <1>5, WorldSafe
<1>6. CASE Restart
  BY <1>6, RestartSafe
<1> QED
  BY <1>1, <1>2, <1>3, <1>4, <1>5, <1>6 DEF Next, BeginWake

LEMMA Safety == Spec => []IInv
  BY InitSafe, Inductive, PTL DEF Spec

(* The judgements and the watches stay within their types.                 *)
THEOREM TypeCorrect == Spec => []TypeOK
<1>1. IInv => TypeOK
  BY DEF IInv
<1> QED
  BY <1>1, Safety, PTL

(* A change is told only when the PC has answered alike StablePolls times  *)
(* in a row, through wakes, held-back sleeps and restarts (notify_stable). *)
THEOREM ToldWhenSteady == Spec => []SteadyBeforeTold
<1>1. IInv => SteadyBeforeTold
  BY DEF IInv
<1> QED
  BY <1>1, Safety, PTL

\* Notices appear only at the two judgements, and which they are.
LEMMA NewNotice ==
    ASSUME IInv, Next, NEW notice, Sends(notice)
    PROVE  \/ /\ JudgeWake /\ notice \in {"wokeUp", "timedOut"} /\ asked
           \/ /\ JudgeStable /\ Telling
              /\ notice = IF pcOnline = "on" THEN "started" ELSE "stopped"
<1>1. CASE JudgeWake
  BY <1>1, Verdict DEF JudgeWake, Sends
<1>2. CASE JudgeStable
  BY <1>2 DEF JudgeStable, Sends, Telling, Woke, Suppressed
<1>3. CASE ~JudgeWake /\ ~JudgeStable
  BY <1>3 DEF Sends, Next, Cycle, Probe, ReadWake, BeginWake, PanelWake, TgBeginWake, TgProbe,
              TgRelease, TgBeginSleep, PcChanges, WifiChanges, Tick, Restart, uiVars
<1> QED
  BY <1>1, <1>2, <1>3

(* An instruction is answered at most once (wake_check::WakeWatch).        *)
THEOREM AnsweredOnce == Spec => WakeAnsweredOnce
<1>1. IInv /\ [Next]_vars => [Sends("wokeUp") \/ Sends("timedOut") => asked]_vars
  BY NewNotice
<1> QED
  BY <1>1, Safety, PTL DEF Spec, WakeAnsweredOnce

(* An "on" that was told is not repeated, neither after a wake that        *)
(* succeeded nor after a restart (main.rs: mark_notified).                 *)
THEOREM NotRepeated == Spec => OnNotRepeated
<1>1. ASSUME IInv, Next, Sends("started") PROVE ~onTold
  <2>1. JudgeStable /\ Telling /\ pcOnline = "on"
    BY <1>1, NewNotice
  <2>2. Differs(stable, pcOnline)
    BY <1>1, <2>1, Told
  <2>3. stable.notified = "off"
    BY <1>1, <2>1, <2>2 DEF IInv, TypeOK, StableNotify, Answer, Differs
  <2> QED
    BY <1>1, <2>3 DEF IInv, ToldOnIsKnown
<1>2. IInv /\ [Next]_vars => [Sends("started") => ~onTold]_vars
  BY <1>1
<1> QED
  BY <1>2, Safety, PTL DEF Spec, OnNotRepeated

(* A PC that was put to sleep is not told as stopped, for any number of    *)
(* polls it is given to fall asleep (wake_check::SleepWatch).              *)
THEOREM SleepNotTold == Spec => SleepIsNotToldAsStop
<1>1. ASSUME IInv, Next, Sends("stopped") PROVE calm = ArmPolls - 1
  <2>1. JudgeStable /\ Telling /\ pcOnline # "on"
    BY <1>1, NewNotice
  <2>2. ~Suppressed /\ pcOnline = "off"
    BY <1>1, <2>1, Told DEF IInv, TypeOK, Answer
  <2>3. sleep.phase = "idle"
    BY <2>2 DEF Suppressed, Suppresses
  <2> QED
    BY <1>1, <2>3 DEF IInv, WatchCountsCalm
<1>2. IInv /\ [Next]_vars => [Sends("stopped") => calm = ArmPolls - 1]_vars
  BY <1>1
<1> QED
  BY <1>2, Safety, PTL DEF Spec, SleepIsNotToldAsStop

(* Only the stop of a PC that was put to sleep is kept from the chat, and  *)
(* only as long as it has not come back or stayed on for all the polls it  *)
(* is given, however many (wake_check::SleepWatch, Issue #217).            *)
THEOREM OnlySleepHeldBack == Spec => OnlySleepIsHeldBack
<1> DEFINE HeldBack ==
      stable.notified = "on" /\ stable'.notified = "off" /\ ~Sends("stopped")
<1>1. ASSUME IInv, Next, HeldBack PROVE ons < ArmPolls
  <2>1. ~Restart /\ ~JudgeWake /\ stable' # stable
    BY <1>1, NoneAssumption DEF Restart, JudgeWake, KnownAfter, Settled
  <2>2. JudgeStable
    BY <1>1, <2>1
    DEF Next, Cycle, Probe, ReadWake, BeginWake, PanelWake, TgBeginWake, TgProbe, TgRelease,
        TgBeginSleep, PcChanges, WifiChanges, Tick, uiVars
  <2>3. pcOnline = "off" /\ ~Telling
    <3>1. notices \subseteq {"wokeUp", "timedOut"}
      BY <1>1, <2>2 DEF IInv, ProbeIsLast, InCycle, JudgeStable
    <3>2. pcOnline = "off"
      BY <1>1, <2>2, Told
    <3>3. Telling => Sends("stopped")
      BY <2>2, <3>1, <3>2 DEF JudgeStable, Telling, Woke, Suppressed, Sends
    <3> QED
      BY <1>1, <3>2, <3>3
  <2>4. Suppressed
    <3>1. stable' = StablePoll(stable, "off", Woke, Suppressed) /\ Differs(stable, "off")
          /\ ~Notifies(stable, "off", Woke, Suppressed)
      BY <1>1, <2>2, <2>3, NoneAssumption DEF JudgeStable, Telling, Woke, Suppressed, Differs
    <3>2. Count(stable, "off") = stable.streak + 1 /\ stable.streak \in Nat
      BY <1>1, <3>1, PollsAssumption DEF Count, IInv, TypeOK, StableNotify
    <3>3. [stable EXCEPT !.streak = Count(stable, "off")].notified = "on"
      BY <1>1 DEF IInv, TypeOK, StableNotify
    <3> QED
      BY <1>1, <2>1, <3>1, <3>2, <3>3 DEF StablePoll, Notifies
  <2>5. sleep.phase = "armed" /\ ons <= sleep.polls
    BY <2>2, <2>3, <2>4, <1>1
    DEF IInv, TypeOK, SleepWatch, Phases, Suppressed, Suppresses, WaitingCountsOns, JudgeStable
  <2> QED
    BY <1>1, <2>5, PollsAssumption DEF IInv, TypeOK, SleepWatch
<1>2. IInv /\ [Next]_vars
      => [stable.notified = "on" /\ stable'.notified = "off" /\ ~Sends("stopped")
          => ons < ArmPolls]_vars
  BY <1>1
<1> QED
  BY <1>2, Safety, PTL DEF Spec, OnlySleepIsHeldBack

-----------------------------------------------------------------------------
(* The cycle goes on.  That its actions are enabled where CycleGoesOn says *)
(* so is a hypothesis here: the provers do not reason about ENABLED.       *)

\* Where the cycle stands, and how old the watch and the copy of it are.
At(t) == at = t
Due == due
Aged(n) == wake = n
Late == wake = WakeTimeout
LateCopy == copy = WakeTimeout

\* The polling thread is inside begin_wake_watch.
TgInside == guard = "tg"

\* It leaves again and again, so the mutex never keeps the cycle waiting for good.
LEMMA TgLeaves ==
    /\ FairSpec /\ []CycleGoesOn => []<>~TgInside
    /\ CycleGoesOn => (~TgInside /\ (~At("loop") \/ (wifi /\ Due)) => ENABLED <<Cycle>>_vars)
<1>1. CycleGoesOn => (TgInside => ENABLED <<TgRelease>>_vars)
  BY DEF CycleGoesOn, TgInside
<1>2. <<TgRelease>>_vars => ~TgInside'
  BY NoneAssumption DEF TgRelease, TgInside
<1>3. CycleGoesOn => (~TgInside /\ (~At("loop") \/ (wifi /\ Due)) => ENABLED <<Cycle>>_vars)
  BY DEF CycleGoesOn, TgInside, At, Due
<1>4. FairSpec /\ []CycleGoesOn => []<>~TgInside
  BY <1>1, <1>2, PTL DEF FairSpec
<1> QED
  BY <1>3, <1>4

\* A step of the cycle takes it to the next place.
LEMMA CycleMoves ==
    ASSUME Cycle
    PROVE  \/ At("loop") /\ Due /\ Probe /\ At("read")'
           \/ At("read") /\ ReadWake /\ At("wake")'
           \/ At("wake") /\ JudgeWake /\ At("stable")'
           \/ At("stable") /\ JudgeStable /\ At("loop")'
  BY DEF Cycle, Probe, ReadWake, JudgeWake, JudgeStable, At, Due

\* What is not a step of the cycle leaves it where it is, or starts anew.
LEMMA CycleElse ==
    ASSUME IInv, [Next]_vars
    PROVE  \/ Cycle
           \/ /\ UNCHANGED <<at, stable, notices>>
              /\ Due => Due'
              /\ copy' \in {copy, Older(copy)}
              /\ BeginWake \/ wake' \in {wake, Older(wake)}
              /\ pcOnline' = pcOnline \/ wifi' # wifi
           \/ Restart /\ At("loop")'
<1> USE DEF uiVars, history, Due, At
<1>1. CASE PanelWake \/ TgBeginWake
  BY <1>1 DEF PanelWake, TgBeginWake, BeginWake
<1>2. CASE TgProbe \/ TgRelease \/ TgBeginSleep \/ PcChanges
  BY <1>2 DEF TgProbe, TgRelease, TgBeginSleep, PcChanges
<1>3. CASE WifiChanges
  BY <1>3 DEF WifiChanges, IInv, TypeOK
<1>4. CASE Tick
  BY <1>4 DEF Tick
<1>5. CASE Restart
  BY <1>5 DEF Restart
<1>6. CASE UNCHANGED vars
  BY <1>6 DEF vars
<1> QED
  BY <1>1, <1>2, <1>3, <1>4, <1>5, <1>6 DEF Next, BeginWake

\* The deadline is the greatest age, and at that age the watch is dropped.
LEMMA OlderStays == Older(WakeTimeout) = WakeTimeout
  BY PollsAssumption, NoneAssumption DEF Older, Min2

LEMMA LateJudged ==
    ASSUME LateCopy, JudgeWake PROVE wake' = None
<1>1. WakeTimeout \in Nat /\ WakeTimeout # None
  BY PollsAssumption, NoneAssumption
<1>2. WakePoll(copy, pcOnline) # "waiting"
  BY <1>1 DEF LateCopy, WakePoll
<1> QED
  BY <1>2 DEF JudgeWake, AfterWake

\* A watch whose deadline has passed: the cycle that reads it judges it.
LEMMA LateSteps ==
    ASSUME IInv, [Next]_vars, Late, Late'
    PROVE  /\ At("loop") => (At("loop")' /\ (Due => Due')) \/ At("read")'
           /\ At("read") => At("read")' \/ (At("wake")' /\ LateCopy')
           /\ At("wake") => (At("wake")' /\ (LateCopy => LateCopy')) \/ (At("stable")' /\ ~LateCopy)
           /\ At("stable") => At("stable")' \/ At("loop")'
<1>1. WakeTimeout # None
  BY PollsAssumption, NoneAssumption
<1>2. At("wake") /\ LateCopy => ~JudgeWake
  BY <1>1, LateJudged DEF Late
<1>3. ~Restart
  BY <1>1 DEF Restart, Late
<1>4. CASE Cycle
  BY <1>2, <1>4, CycleMoves DEF At, ReadWake, Late, LateCopy
<1>5. CASE ~Cycle
  BY <1>3, <1>5, CycleElse, OlderStays DEF At, LateCopy
<1> QED
  BY <1>4, <1>5

\* And the cycle does come round to it: so it does not stay.
LEMMA LateProgress ==
    ASSUME IInv, Cycle, Late, Late'
    PROVE  /\ At("loop") => At("read")'
           /\ At("read") => At("wake")' /\ LateCopy'
           /\ At("wake") => At("stable")' /\ ~LateCopy
           /\ At("stable") => At("loop")'
<1>1. WakeTimeout # None
  BY PollsAssumption, NoneAssumption
<1>2. At("wake") /\ LateCopy => ~JudgeWake
  BY <1>1, LateJudged DEF Late
<1> QED
  BY <1>2, CycleMoves DEF At, ReadWake, Late, LateCopy

\* Before the deadline the clock makes it older.
LEMMA TickAges ==
    ASSUME NEW n \in 0..WakeTimeout, n # WakeTimeout
    PROVE  Tick => (Aged(n) => ~Aged(n)')
  BY PollsAssumption, NoneAssumption DEF Tick, Aged, Older, Min2

(* While the Wi-Fi is up, no wake watch stays at an age for ever           *)
(* (WakeWatch::poll): before the deadline time makes it older, and at the  *)
(* deadline the next cycle that reads it drops it.  Ages only grow until a *)
(* watch is renewed, so this is the step of WatchResolves that fairness is *)
(* needed for, whatever the time-out is.                                   *)
THEOREM NoAgeLasts ==
    ASSUME NEW n \in 0..WakeTimeout
    PROVE  FairSpec /\ []CycleGoesOn => (<>[]wifi => []<>(wake # n))
<1> DEFINE Online == wifi
<1>0. (wake # n <=> ~Aged(n)) /\ (wifi <=> Online)
  BY DEF Aged
<1>1. CASE n # WakeTimeout
  <2>1. <<Tick>>_vars => (Aged(n) => ~Aged(n)')
    BY <1>1, TickAges
  <2>2. CycleGoesOn => (Aged(n) => ENABLED <<Tick>>_vars)
    BY <1>1, PollsAssumption, NoneAssumption DEF CycleGoesOn, Aged
  <2> QED
    BY <1>0, <2>1, <2>2, PTL DEF FairSpec
<1>2. CASE n = WakeTimeout
  <2>1. IInv /\ [Next]_vars /\ Late /\ Late'
        => /\ At("loop") => (At("loop")' /\ (Due => Due')) \/ At("read")'
           /\ At("read") => At("read")' \/ (At("wake")' /\ LateCopy')
           /\ At("wake") => (At("wake")' /\ (LateCopy => LateCopy')) \/ (At("stable")' /\ ~LateCopy)
           /\ At("stable") => At("stable")' \/ At("loop")'
    BY LateSteps
  <2>2. IInv /\ <<Cycle>>_vars /\ Late /\ Late'
        => /\ At("loop") => At("read")'
           /\ At("read") => At("wake")' /\ LateCopy'
           /\ At("wake") => At("stable")' /\ ~LateCopy
           /\ At("stable") => At("loop")'
    BY LateProgress
  <2>3. <<Tick>>_vars => Due'
    BY DEF Tick, Due
  <2>4. CycleGoesOn => /\ ~TgInside /\ (~At("loop") \/ (wifi /\ Due)) => ENABLED <<Cycle>>_vars
                       /\ ~Due => ENABLED <<Tick>>_vars
    BY TgLeaves DEF CycleGoesOn, Due
  <2>5. IInv => At("loop") \/ At("read") \/ At("wake") \/ At("stable")
    BY DEF IInv, TypeOK, At
  <2>6. Late <=> Aged(n)
    BY <1>2 DEF Late, Aged
  <2>7. /\ ~(At("loop") /\ (At("read") \/ At("wake") \/ At("stable")))
        /\ ~(At("read") /\ (At("wake") \/ At("stable"))) /\ ~(At("wake") /\ At("stable"))
    BY DEF At
  <2> QED
    BY <1>0, <2>1, <2>2, <2>3, <2>4, <2>5, <2>6, <2>7, TgLeaves, Safety, PTL DEF FairSpec, Spec
<1> QED
  BY <1>1, <1>2

\* A watch runs; how old it has become, and for good.
Watching == wake # None
AgeFrom(n) == wake # None /\ wake >= n
ComesOfAge(n) == <>[]AgeFrom(n)

\* While it is not renewed and not dropped it only gets older.
LEMMA AgeGrows ==
    ASSUME IInv, [Next]_vars, ~BeginWake \/ UNCHANGED vars, NEW n \in Nat, Watching', AgeFrom(n)
    PROVE  AgeFrom(n)' /\ (~Aged(n) => AgeFrom(n + 1))
<1>1. wake \in AgeOf /\ WakeTimeout \in Nat /\ None \notin Nat
  BY PollsAssumption, NoneAssumption DEF IInv, TypeOK, AgeFrom
<1>2. Older(wake) \in Nat /\ Older(wake) >= wake /\ Older(wake) # None
  BY <1>1 DEF Older, Min2, AgeOf
<1>3. wake' \in {wake, Older(wake)}
  <2>1. CASE JudgeWake
    BY <2>1 DEF JudgeWake, AfterWake, Watching
  <2>2. CASE Probe \/ ReadWake \/ JudgeStable
    BY <2>2 DEF Probe, ReadWake, JudgeStable
  <2>3. CASE UNCHANGED vars
    BY <2>3 DEF vars
  <2>4. CASE Restart
    BY <2>4 DEF Restart, Watching
  <2> QED
    BY <2>1, <2>2, <2>3, <2>4, CycleElse DEF Cycle
<1> QED
  BY <1>1, <1>2, <1>3 DEF AgeFrom, Aged, AgeOf

\* One more tick: a watch that has come to age n comes to n + 1.
LEMMA AgeComesOn ==
    ASSUME NEW n \in Nat
    PROVE  FairSpec /\ []CycleGoesOn /\ <>[]wifi /\ <>[]Watching /\ <>[][~BeginWake]_vars
           => (ComesOfAge(n) => ComesOfAge(n + 1))
<1> DEFINE Online == wifi
<1>1. CASE n \in 0..WakeTimeout
  <2>1. IInv /\ [Next]_vars /\ [~BeginWake]_vars /\ Watching /\ Watching'
        => /\ AgeFrom(n) /\ ~Aged(n) => AgeFrom(n + 1)
           /\ AgeFrom(n + 1) => AgeFrom(n + 1)'
    BY AgeGrows, n + 1 \in Nat
  <2>2. FairSpec /\ []CycleGoesOn /\ <>[]wifi => []<>~Aged(n)
    <3>1. wake # n <=> ~Aged(n)
      BY DEF Aged
    <3>2. []<>(wake # n) => []<>~Aged(n)
      BY <3>1, PTL
    <3> QED
      BY <1>1, <3>2, NoAgeLasts
  <2> QED
    BY <2>1, <2>2, Safety, PTL DEF FairSpec, Spec, ComesOfAge
<1>2. CASE n \notin 0..WakeTimeout
  <2>1. IInv => ~AgeFrom(n)
    BY <1>2, PollsAssumption, NoneAssumption DEF IInv, TypeOK, AgeOf, AgeFrom
  <2> QED
    BY <2>1, Safety, PTL DEF FairSpec, ComesOfAge
<1> QED
  BY <1>1, <1>2

\* Temporal formulas admit no induction here.  What goes on by one step from
\* every n is taken on by ten of k steps instead, as often as it needs.
LEMMA TenSteps ==
    ASSUME NEW n \in Nat, NEW k \in Nat
    PROVE  /\ n + k \in Nat /\ n + 2 * k \in Nat /\ n + 3 * k \in Nat /\ n + 4 * k \in Nat
           /\ n + 5 * k \in Nat /\ n + 6 * k \in Nat /\ n + 7 * k \in Nat /\ n + 8 * k \in Nat
           /\ n + 9 * k \in Nat /\ 10 * k \in Nat
           /\ (n + k) + k = n + 2 * k /\ (n + 2 * k) + k = n + 3 * k
           /\ (n + 3 * k) + k = n + 4 * k /\ (n + 4 * k) + k = n + 5 * k
           /\ (n + 5 * k) + k = n + 6 * k /\ (n + 6 * k) + k = n + 7 * k
           /\ (n + 7 * k) + k = n + 8 * k /\ (n + 8 * k) + k = n + 9 * k
           /\ (n + 9 * k) + k = n + 10 * k
  OBVIOUS

LEMMA PowersOfTen ==
    /\ 10 * 1 = 10 /\ 10 * 10 = 100 /\ 10 * 100 = 1000 /\ 10 * 1000 = 10000
    /\ 10 * 10000 = 100000 /\ 10 * 100000 = 1000000
  OBVIOUS

Ages(k) == \A n \in Nat : ComesOfAge(n) => ComesOfAge(n + k)

LEMMA AgesTenfold ==
    ASSUME NEW k \in Nat PROVE Ages(k) => Ages(10 * k)
<1>1. ASSUME NEW n \in Nat PROVE Ages(k) => (ComesOfAge(n) => ComesOfAge(n + 10 * k))
  BY TenSteps DEF Ages
<1> QED
  BY <1>1 DEF Ages

LEMMA AgesFar == Ages(1) => Ages(1000000)
<1>1. \A k \in {1, 10, 100, 1000, 10000, 100000} : Ages(k) => Ages(10 * k)
  BY AgesTenfold
<1> QED
  BY <1>1, PowersOfTen

(* While the Wi-Fi is up a wake watch comes to an end (WakeWatch::poll):   *)
(* the PC comes on, or the deadline passes and the chat is told, unless an *)
(* instruction renews the watch again and again.  It is taken from the     *)
(* instruction to the deadline tick by tick.  The steps reach any deadline *)
(* up to a million ticks of STATUS_INTERVAL, 115 days.                     *)
THEOREM WatchResolves ==
    ASSUME WakeTimeout < 1000000
    PROVE  FairSpec /\ []CycleGoesOn => WakeResolves
<1> DEFINE Regular == FairSpec /\ []CycleGoesOn /\ <>[]wifi /\ <>[]Watching /\ <>[][~BeginWake]_vars
<1>1. IInv => (Watching => AgeFrom(0)) /\ ~AgeFrom(1000000)
  BY PollsAssumption, NoneAssumption DEF IInv, TypeOK, AgeOf, AgeFrom, Watching
<1>2. Regular => ComesOfAge(0) /\ ~ComesOfAge(1000000)
  BY <1>1, Safety, PTL DEF FairSpec, ComesOfAge
<1>3. Regular => Ages(1)
  BY AgeComesOn DEF Ages
<1>4. ~Regular
  <2> HIDE DEF Regular
  <2>1. Ages(1000000) => (ComesOfAge(0) => ComesOfAge(1000000))
    BY 0 \in Nat, 0 + 1000000 = 1000000 DEF Ages
  <2> QED
    BY <1>2, <1>3, <2>1, AgesFar
<1>5. wake = None <=> ~Watching
  BY DEF Watching
<1> QED
  BY <1>4, <1>5, PTL DEF WakeResolves

-----------------------------------------------------------------------------
(* The chat is brought to agree with a PC that answers reliably.           *)

\* A wake that was told in this cycle is what the chat knows.
WokeKnown == at = "stable" /\ Woke => stable.notified = "on" /\ pcOnline = "on"

\* The PC answers reliably; the device has its answer; the chat knows it.
Regime(now) == wifi /\ reach = now
Fresh(now) == pcOnline = now
Agrees(now) == stable.notified = now
StreakIs(n) == stable.streak = n

\* Together with the invariant it is inductive.
LEMMA WokeKnownSafe ==
    /\ Init => WokeKnown
    /\ IInv /\ WokeKnown /\ [Next]_vars => WokeKnown'
<1> USE DEF WokeKnown, Woke
<1>1. Init => WokeKnown
  BY DEF Init
<1>2. ASSUME IInv, WokeKnown, [Next]_vars PROVE WokeKnown'
  <2>1. CASE Probe \/ ReadWake \/ JudgeStable
    BY <2>1 DEF Probe, ReadWake, JudgeStable
  <2>2. CASE JudgeWake
    <3>1. "wokeUp" \in notices' => WakePoll(copy, pcOnline) = "wokeUp"
      BY <2>2 DEF JudgeWake
    <3>2. "wokeUp" \in notices' => pcOnline = "on" /\ stable' = Settled("on") /\ pcOnline' = pcOnline
      BY <2>2, <3>1 DEF JudgeWake, WakePoll, KnownAfter
    <3> QED
      BY <3>2 DEF Settled
  <2>3. CASE Restart
    BY <2>3 DEF Restart
  <2>4. CASE UNCHANGED <<at, stable, notices, pcOnline>>
    BY <1>2, <2>4
  <2>5. CASE WifiChanges
    BY <2>5 DEF WifiChanges
  <2> QED
    BY <1>2, <2>1, <2>2, <2>3, <2>4, <2>5
    DEF Next, Cycle, BeginWake, PanelWake, TgBeginWake, TgProbe, TgRelease, TgBeginSleep,
        PcChanges, Tick, uiVars, vars
<1> QED
  BY <1>1, <1>2

\* What a judgement does to the streak.
LEMMA JudgedOnce ==
    ASSUME IInv, WokeKnown, NEW now \in Answer, Fresh(now), JudgeStable
    PROVE  /\ Agrees(now) => Agrees(now)'
           /\ ~Agrees(now) => Agrees(now)' \/ stable'.streak = stable.streak + 1
<1>1. /\ stable' = StablePoll(stable, now, Woke, Suppressed)
      /\ stable \in StableNotify /\ now # None /\ pcOnline = now
  BY NoneAssumption DEF JudgeStable, Woke, Suppressed, Fresh, IInv, TypeOK, Answer
<1>2. CASE Woke
  BY <1>1, <1>2 DEF WokeKnown, JudgeStable, StablePoll, Agrees
<1>3. CASE ~Woke
  <2>1. stable' \in {Settled(now), [stable EXCEPT !.streak = Count(stable, now)]}
    BY <1>1, <1>3 DEF StablePoll
  <2>2. Settled(now).notified = now
    BY DEF Settled
  <2>3. Agrees(now) => stable' = Settled(now)
    BY <1>1, <1>3 DEF StablePoll, Count, Differs, Agrees
  <2>4. ~Agrees(now) => stable' = Settled(now) \/ stable'.streak = stable.streak + 1
    BY <1>1, <1>3, PollsAssumption DEF StablePoll, Count, Differs, Agrees, StableNotify
  <2> QED
    BY <2>2, <2>3, <2>4 DEF Agrees
<1> QED
  BY <1>2, <1>3

\* While the PC answers reliably: what a cycle probes stays so, and a streak
\* grows until the chat knows.
LEMMA RegimeSteps ==
    ASSUME IInv, WokeKnown, [Next]_vars, ~Restart \/ UNCHANGED vars, NEW now \in Answer,
           NEW n \in Nat, Regime(now), Regime(now)'
    PROVE  /\ Fresh(now) => Fresh(now)'
           /\ Fresh(now) /\ Agrees(now) => Agrees(now)'
           /\ At("loop") => (At("loop")' /\ (Due => Due')) \/ (At("read")' /\ Fresh(now)')
           /\ At("read") => At("read")' \/ At("wake")'
           /\ At("wake") => At("wake")' \/ At("stable")'
           /\ At("stable") => At("stable")' \/ At("loop")'
           /\ At("stable") /\ Fresh(now) /\ StreakIs(n)
              => At("stable")' \/ Agrees(now)' \/ ~StreakIs(n)'
<1>1. CASE Probe
  <2>1. pcOnline' = now /\ At("read")' /\ At("loop") /\ UNCHANGED stable
    BY <1>1 DEF Probe, Answers, Regime, Answer, At
  <2> QED
    BY <2>1 DEF Fresh, Agrees, At
<1>2. CASE ReadWake
  BY <1>2 DEF ReadWake, Fresh, Agrees, At
<1>3. CASE JudgeWake
  <2>1. Fresh(now) /\ Agrees(now) => Agrees(now)'
    BY <1>3, NoneAssumption
    DEF JudgeWake, KnownAfter, WakePoll, Settled, Fresh, Agrees, Answer, IInv, TypeOK
  <2> QED
    BY <1>3, <2>1 DEF JudgeWake, Fresh, At
<1>4. CASE JudgeStable
  <2>1. Fresh(now) /\ StreakIs(n) => Agrees(now)' \/ ~StreakIs(n)'
    BY <1>4, JudgedOnce DEF StreakIs, IInv, TypeOK, StableNotify
  <2>2. Fresh(now) /\ Agrees(now) => Agrees(now)'
    BY <1>4, JudgedOnce
  <2>3. At("stable") /\ At("loop")' /\ (Fresh(now) => Fresh(now)')
    BY <1>4 DEF JudgeStable, Fresh, At
  <2>4. ~At("read") /\ ~At("wake") /\ ~At("loop")
    BY <1>4 DEF JudgeStable, At
  <2> QED
    BY <2>1, <2>2, <2>3, <2>4
<1>5. CASE ~Cycle
  <2>1. UNCHANGED <<at, stable>> /\ (Due => Due') /\ pcOnline' = pcOnline
    <3>1. CASE UNCHANGED vars
      BY <3>1 DEF vars, uiVars, Due
    <3>2. CASE ~Restart
      BY <1>5, <3>2, CycleElse DEF Regime
    <3> QED
      BY <3>1, <3>2
  <2> QED
    BY <2>1 DEF Fresh, Agrees, At
<1> QED
  BY <1>1, <1>2, <1>3, <1>4, <1>5 DEF Cycle

\* A step of the cycle takes it on, and a probe brings the PC's answer.
LEMMA RegimeProgress ==
    ASSUME Cycle, NEW now \in Answer, Regime(now)
    PROVE  /\ At("loop") => At("read")' /\ Fresh(now)'
           /\ At("read") => At("wake")'
           /\ At("wake") => At("stable")'
           /\ At("stable") => At("loop")'
<1>1. Probe => Fresh(now)'
  BY DEF Probe, Answers, Regime, Answer, Fresh
<1> QED
  BY <1>1, CycleMoves DEF At

\* The cycle comes round again and again with the PC's answer, and what the
\* chat knows then it goes on to know.
LEMMA RegimeSettles ==
    ASSUME NEW now \in Answer
    PROVE  FairSpec /\ []CycleGoesOn /\ <>[]Regime(now) /\ <>[][~Restart]_vars
           => <>[]Fresh(now) /\ []<>At("stable") /\ ([]<>Agrees(now) => <>[]Agrees(now))
<1>1. IInv /\ WokeKnown /\ [Next]_vars /\ [~Restart]_vars /\ Regime(now) /\ Regime(now)'
      => /\ Fresh(now) => Fresh(now)'
         /\ Fresh(now) /\ Agrees(now) => Agrees(now)'
         /\ At("loop") => (At("loop")' /\ (Due => Due')) \/ (At("read")' /\ Fresh(now)')
         /\ At("read") => At("read")' \/ At("wake")'
         /\ At("wake") => At("wake")' \/ At("stable")'
         /\ At("stable") => At("stable")' \/ At("loop")'
  BY RegimeSteps, 0 \in Nat
<1>2. <<Cycle>>_vars /\ Regime(now)
      => /\ At("loop") => At("read")' /\ Fresh(now)'
         /\ At("read") => At("wake")'
         /\ At("wake") => At("stable")'
         /\ At("stable") => At("loop")'
  BY RegimeProgress
<1>3. <<Tick>>_vars => Due'
  BY DEF Tick, Due
<1>4. CycleGoesOn /\ Regime(now)
      => /\ ~TgInside /\ (~At("loop") \/ Due) => ENABLED <<Cycle>>_vars
         /\ ~Due => ENABLED <<Tick>>_vars
  BY TgLeaves DEF CycleGoesOn, Due, Regime
<1>5. IInv => At("loop") \/ At("read") \/ At("wake") \/ At("stable")
  BY DEF IInv, TypeOK, At
<1>6. /\ ~(At("loop") /\ (At("read") \/ At("wake") \/ At("stable")))
      /\ ~(At("read") /\ (At("wake") \/ At("stable"))) /\ ~(At("wake") /\ At("stable"))
  BY DEF At
<1>7. Spec => []WokeKnown
  BY WokeKnownSafe, Safety, PTL DEF Spec
<1>8. FairSpec /\ []CycleGoesOn /\ <>[]Regime(now) /\ <>[][~Restart]_vars => <>[]Fresh(now)
  BY <1>1, <1>2, <1>3, <1>4, <1>5, <1>6, <1>7, TgLeaves, Safety, PTL DEF FairSpec, Spec
<1>9. FairSpec /\ []CycleGoesOn /\ <>[]Regime(now) /\ <>[][~Restart]_vars => []<>At("stable")
  BY <1>1, <1>2, <1>3, <1>4, <1>5, <1>6, <1>7, TgLeaves, Safety, PTL DEF FairSpec, Spec
<1>10. FairSpec /\ []CycleGoesOn /\ <>[]Regime(now) /\ <>[][~Restart]_vars
       => ([]<>Agrees(now) => <>[]Agrees(now))
  BY <1>1, <1>7, <1>8, Safety, PTL DEF FairSpec, Spec
<1> QED
  BY <1>8, <1>9, <1>10

(* While the Wi-Fi is up and the PC answers reliably, the count of         *)
(* differing answers (StableNotify::poll) does not stay as it is for ever, *)
(* unless the chat knows the answer, and then it goes on to know it.  With *)
(* it the count reaches StablePolls, step by step: see ChatAgrees.         *)
THEOREM NoStreakLasts ==
    ASSUME NEW now \in Answer, NEW n \in Nat
    PROVE  FairSpec /\ []CycleGoesOn
           => (<>[](wifi /\ reach = now) /\ <>[][~Restart]_vars
               => <>[](stable.notified = now) \/ []<>(stable.streak # n))
<1>1. IInv /\ WokeKnown /\ [Next]_vars /\ [~Restart]_vars /\ Regime(now) /\ Regime(now)'
      => (At("stable") /\ Fresh(now) /\ StreakIs(n) => At("stable")' \/ Agrees(now)' \/ ~StreakIs(n)')
  BY RegimeSteps
<1>2. <<Cycle>>_vars /\ Regime(now) => (At("stable") => At("loop")')
  BY RegimeProgress
<1>3. CycleGoesOn => (~TgInside /\ At("stable") => ENABLED <<Cycle>>_vars)
  BY TgLeaves DEF At
<1>4. ~(At("loop") /\ At("stable"))
  BY DEF At
<1>5. /\ wifi /\ reach = now <=> Regime(now)
      /\ stable.notified = now <=> Agrees(now)
      /\ stable.streak # n <=> ~StreakIs(n)
  BY DEF Regime, Agrees, StreakIs
<1>6. Spec => []WokeKnown
  BY WokeKnownSafe, Safety, PTL DEF Spec
<1>7. FairSpec /\ []CycleGoesOn /\ <>[]Regime(now) /\ <>[][~Restart]_vars
      => <>[]Fresh(now) /\ []<>At("stable") /\ ([]<>Agrees(now) => <>[]Agrees(now))
  BY RegimeSettles
<1>8. FairSpec /\ []CycleGoesOn /\ <>[]Regime(now) /\ <>[][~Restart]_vars
      => []<>Agrees(now) \/ []<>~StreakIs(n)
  BY <1>1, <1>2, <1>3, <1>4, <1>6, <1>7, TgLeaves, Safety, PTL DEF FairSpec, Spec
<1>9. <>[](wifi /\ reach = now) => <>[]Regime(now)
  BY <1>5, PTL
<1>10. <>[]Agrees(now) => <>[](stable.notified = now)
  BY <1>5, PTL
<1>11. []<>~StreakIs(n) => []<>(stable.streak # n)
  BY <1>5, PTL
<1> QED
  BY <1>7, <1>8, <1>9, <1>10, <1>11, PTL

\* How far the count of differing answers has come, and has come for good.
StreakFrom(n) == stable.streak >= n
ComesTo(n) == <>[]StreakFrom(n)

\* As long as the chat does not know the answer the count never falls.
LEMMA StreakGrows ==
    ASSUME IInv, WokeKnown, [Next]_vars, ~Restart \/ UNCHANGED vars, NEW now \in Answer,
           NEW n \in Nat, Regime(now), Fresh(now), ~Agrees(now), ~Agrees(now)', StreakFrom(n)
    PROVE  StreakFrom(n)' /\ (~StreakIs(n) => StreakFrom(n + 1)) /\ (stable.streak \in Nat)
<1> stable.streak \in Nat
  BY PollsAssumption DEF IInv, TypeOK, StableNotify
<1>1. CASE JudgeStable
  <2>1. stable'.streak = stable.streak + 1
    BY <1>1, JudgedOnce
  <2> QED
    BY <2>1 DEF StreakFrom, StreakIs
<1>2. CASE JudgeWake
  <2>1. WakePoll(copy, pcOnline) = "wokeUp" => now = "on"
    BY NoneAssumption DEF WakePoll, Fresh, Answer, IInv, TypeOK
  <2>2. stable' = stable
    BY <1>2, <2>1 DEF JudgeWake, KnownAfter, Settled, Agrees
  <2> QED
    BY <2>2 DEF StreakFrom, StreakIs
<1>3. CASE Probe \/ ReadWake
  BY <1>3 DEF Probe, ReadWake, StreakFrom, StreakIs
<1>4. CASE ~Cycle
  <2>1. UNCHANGED stable
    <3>1. CASE UNCHANGED vars
      BY <3>1 DEF vars, uiVars
    <3>2. CASE ~Restart
      BY <1>4, <3>2, CycleElse
    <3> QED
      BY <3>1, <3>2
  <2> QED
    BY <2>1 DEF StreakFrom, StreakIs
<1> QED
  BY <1>1, <1>2, <1>3, <1>4 DEF Cycle

\* One more answer: a count that has come to n comes to n + 1.
LEMMA StreakComesOn ==
    ASSUME NEW now \in Answer, NEW n \in Nat
    PROVE  FairSpec /\ []CycleGoesOn /\ <>[]Regime(now) /\ <>[][~Restart]_vars
           => (<>[]StreakFrom(n) => <>[]Agrees(now) \/ <>[]StreakFrom(n + 1))
<1>1. IInv /\ WokeKnown /\ [Next]_vars /\ [~Restart]_vars /\ Regime(now) /\ Fresh(now)
      /\ ~Agrees(now) /\ ~Agrees(now)'
      => /\ StreakFrom(n) /\ ~StreakIs(n) => StreakFrom(n + 1)
         /\ StreakFrom(n + 1) => StreakFrom(n + 1)'
  BY StreakGrows, n + 1 \in Nat
<1>2. Spec => []WokeKnown
  BY WokeKnownSafe, Safety, PTL DEF Spec
<1>3. FairSpec /\ []CycleGoesOn /\ <>[]Regime(now) /\ <>[][~Restart]_vars
      => <>[]Agrees(now) \/ []<>~StreakIs(n)
  <2>1. /\ wifi /\ reach = now <=> Regime(now)
        /\ stable.notified = now <=> Agrees(now)
        /\ stable.streak # n <=> ~StreakIs(n)
    BY DEF Regime, Agrees, StreakIs
  <2>2. <>[]Regime(now) => <>[](wifi /\ reach = now)
    BY <2>1, PTL
  <2>3. <>[](stable.notified = now) => <>[]Agrees(now)
    BY <2>1, PTL
  <2>4. []<>(stable.streak # n) => []<>~StreakIs(n)
    BY <2>1, PTL
  <2> QED
    BY NoStreakLasts, <2>2, <2>3, <2>4
<1>4. FairSpec /\ []CycleGoesOn /\ <>[]Regime(now) /\ <>[][~Restart]_vars
      => <>[]Fresh(now) /\ ([]<>Agrees(now) => <>[]Agrees(now))
  BY RegimeSettles
<1> QED
  BY <1>1, <1>2, <1>3, <1>4, Safety, PTL DEF FairSpec, Spec

\* Until the chat knows the answer the count rises by k.
Rises(now, k) == \A n \in Nat : ComesTo(n) => <>[]Agrees(now) \/ ComesTo(n + k)

LEMMA RisesTenfold ==
    ASSUME NEW now \in Answer, NEW k \in Nat PROVE Rises(now, k) => Rises(now, 10 * k)
<1>1. ASSUME NEW n \in Nat
      PROVE  Rises(now, k) => (ComesTo(n) => <>[]Agrees(now) \/ ComesTo(n + 10 * k))
  BY TenSteps DEF Rises
<1> QED
  BY <1>1 DEF Rises

(* When the PC stays on or off and answers reliably while the Wi-Fi is up  *)
(* and the device is not restarted, the chat is in the end told, or knows  *)
(* as the base line, what the PC is (StableNotify::poll).  The count is    *)
(* taken up to StablePolls answer by answer, for every value that the type *)
(* of STABLE_POLLS (u8) has.                                               *)
THEOREM ChatAgrees ==
    ASSUME StablePolls <= 255
    PROVE  FairSpec /\ []CycleGoesOn => EventuallyAgrees
<1> SUFFICES ASSUME NEW now \in Answer
             PROVE  FairSpec /\ []CycleGoesOn
                    => (<>[](wifi /\ reach = now) /\ <>[][~Restart]_vars
                        => <>[](stable.notified = now))
  BY DEF EventuallyAgrees
<1>1. IInv => StreakFrom(0) /\ ~StreakFrom(1000)
  BY PollsAssumption DEF IInv, TypeOK, StableNotify, StreakFrom
<1>2. FairSpec => ComesTo(0) /\ ~ComesTo(1000)
  BY <1>1, Safety, PTL DEF FairSpec, ComesTo
<1>3. FairSpec /\ []CycleGoesOn /\ <>[]Regime(now) /\ <>[][~Restart]_vars => Rises(now, 1)
  BY StreakComesOn DEF Rises, ComesTo
<1>4. Rises(now, 1) => Rises(now, 1000)
  <2>1. \A k \in {1, 10, 100} : Rises(now, k) => Rises(now, 10 * k)
    BY RisesTenfold
  <2> QED
    BY <2>1, PowersOfTen
<1>5. Rises(now, 1000) => (ComesTo(0) => <>[]Agrees(now) \/ ComesTo(1000))
  BY 0 \in Nat, 0 + 1000 = 1000 DEF Rises
<1>6. wifi /\ reach = now <=> Regime(now)
  BY DEF Regime
<1>7. stable.notified = now <=> Agrees(now)
  BY DEF Agrees
<1>8. <>[](wifi /\ reach = now) => <>[]Regime(now)
  BY <1>6, PTL
<1>9. <>[]Agrees(now) => <>[](stable.notified = now)
  BY <1>7, PTL
<1> QED
  BY <1>2, <1>3, <1>4, <1>5, <1>8, <1>9

=============================================================================
