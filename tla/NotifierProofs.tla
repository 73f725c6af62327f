--------------------------- MODULE NotifierProofs ---------------------------
(***************************************************************************)
(* The daily report is sent once and is not forgotten, and the notices are *)
(* kept in order, proved for any hour of the report, any clock, versions   *)
(* and number of notices, and any restarts, losses and delays.             *)
(*                                                                         *)
(* The device remembers the last day it reported only in RAM, and takes    *)
(* the rest from the clock when it starts.  The invariant says how the two *)
(* fit: a day whose report has reached the chat is over, or its hour has   *)
(* come and the device knows that or has it in memory.  For the notices it *)
(* says how those on their way fit those that have arrived.                *)
(***************************************************************************)
EXTENDS Notifier, SequenceTheorems, FiniteSetTheorems, TLAPS

-----------------------------------------------------------------------------
(* Hours and days.                                                         *)

LEMMA Parts ==
    ASSUME NEW h \in Nat
    PROVE  /\ Day(h) \in Nat /\ HourOf(h) \in Nat /\ HourOf(h) < HoursPerDay
           /\ HoursPerDay * Day(h) \in Nat
           /\ h = HoursPerDay * Day(h) + HourOf(h)
<1>1. HoursPerDay \in Nat /\ HoursPerDay > 0
  BY NotifierAssumption
<1>2. /\ Day(h) \in Nat /\ HourOf(h) \in Nat /\ HourOf(h) < HoursPerDay
      /\ h = HoursPerDay * Day(h) + HourOf(h)
  BY <1>1 DEF Day, HourOf
<1>3. HoursPerDay * Day(h) \in Nat
  BY <1>1, <1>2
<1> QED
  BY <1>2, <1>3

LEMMA Product ==
    ASSUME NEW n \in Nat, NEW a \in Nat, NEW b \in Nat, a < b
    PROVE  n * b >= n * a + n
<1>1. PICK k \in Nat : b = a + 1 + k
  <2>1. b - a - 1 \in Nat /\ b = a + 1 + (b - a - 1)
    OBVIOUS
  <2> QED
    BY <2>1
<1>2. n * b = n * a + n + n * k
  BY <1>1
<1>3. n * k \in Nat /\ n * a \in Nat
  BY <1>1
<1> QED
  BY <1>2, <1>3

\* Days do not go back, and in a day hours do not.
LEMMA Later ==
    ASSUME NEW g \in Nat, NEW h \in Nat, g <= h
    PROVE  /\ Day(g) <= Day(h)
           /\ Day(g) = Day(h) => HourOf(g) <= HourOf(h)
<1>1. HoursPerDay \in Nat
  BY NotifierAssumption
<1>2. /\ Day(g) \in Nat /\ HourOf(g) \in Nat /\ HourOf(g) < HoursPerDay
      /\ HoursPerDay * Day(g) \in Nat /\ g = HoursPerDay * Day(g) + HourOf(g)
  BY Parts
<1>3. /\ Day(h) \in Nat /\ HourOf(h) \in Nat /\ HourOf(h) < HoursPerDay
      /\ HoursPerDay * Day(h) \in Nat /\ h = HoursPerDay * Day(h) + HourOf(h)
  BY Parts
<1>4. ASSUME Day(h) < Day(g) PROVE FALSE
  <2>1. HoursPerDay * Day(g) >= HoursPerDay * Day(h) + HoursPerDay
    BY <1>1, <1>2, <1>3, <1>4, Product
  <2> QED
    BY <1>1, <1>2, <1>3, <2>1
<1>5. ASSUME Day(g) = Day(h) PROVE HourOf(g) <= HourOf(h)
  BY <1>2, <1>3, <1>5
<1> QED
  BY <1>2, <1>3, <1>4, <1>5

\* The hour of a report is not followed by one.
LEMMA NotTwoHours ==
    ASSUME NEW h \in Nat, HourOf(h) = ReportHour PROVE HourOf(h + 1) # ReportHour
<1> SUFFICES ASSUME HourOf(h + 1) = HourOf(h) PROVE FALSE
  OBVIOUS
<1>1. HoursPerDay \in Nat /\ HoursPerDay >= 2
  BY NotifierAssumption
<1>2. /\ Day(h) \in Nat /\ HourOf(h) \in Nat
      /\ HoursPerDay * Day(h) \in Nat /\ h = HoursPerDay * Day(h) + HourOf(h)
  BY Parts
<1>3. h + 1 \in Nat /\ Day(h) <= Day(h + 1)
  BY Later
<1>4. /\ Day(h + 1) \in Nat /\ HoursPerDay * Day(h + 1) \in Nat
      /\ h + 1 = HoursPerDay * Day(h + 1) + HourOf(h)
  BY <1>3, Parts
<1>5. CASE Day(h) < Day(h + 1)
  <2>1. HoursPerDay * Day(h + 1) >= HoursPerDay * Day(h) + HoursPerDay
    BY <1>1, <1>2, <1>4, <1>5, Product
  <2> QED
    BY <1>1, <1>2, <1>4, <2>1
<1>6. CASE Day(h) = Day(h + 1)
  BY <1>2, <1>4, <1>6
<1> QED
  BY <1>2, <1>3, <1>4, <1>5, <1>6

-----------------------------------------------------------------------------
(* The inductive invariant.                                                *)

\* A day whose report has arrived is over or explained for, or the device
\* knows the time, its hour has come and a notifier remembers the day.
ReportedKnown ==
    \A d \in Days : reports[d] > 0 =>
        /\ d <= Day(hour)
        /\ \/ d \in excused \/ d < Day(hour)
           \/ synced /\ HourOf(hour) >= ReportHour /\ (notifier => lastSent = d)

LastSentKnown ==
    lastSent # None =>
        lastSent <= Day(hour) /\ (lastSent = Day(hour) => HourOf(hour) >= ReportHour)

\* A report in hand is the one of this hour, or of the hour before if the
\* thread has not come around since; it has not been told, nor a later one.
DueKnown ==
    due # None =>
        /\ synced /\ due <= Day(hour)
        /\ due = Day(hour) => HourOf(hour) >= ReportHour
        /\ HourOf(hour) = ReportHour => due = Day(hour)
        /\ HourOf(hour) # ReportHour => ~turned
        /\ reports[due] = 0 \/ due \in excused
        /\ \A d \in Days : d > due => reports[d] = 0

\* In an undisturbed hour a report that counts as done has arrived.
CleanKnown ==
    clean =>
        /\ notifier /\ synced
        /\ HourOf(hour) = ReportHour /\ (turned \/ lastSent = Day(hour)) => reports[Day(hour)] > 0

Reports == <<hour, turned, synced, notifier, lastSent, due, reports, excused, clean>>
ReportInv == ReportedOnce /\ ReportedKnown /\ LastSentKnown /\ DueKnown /\ CleanKnown

\* Today is one of the days that are looked at.
LEMMA Today ==
    ASSUME hour \in 0..MaxHours
    PROVE  Day(hour) \in Days /\ Day(hour) \in Nat /\ HourOf(hour) \in Nat /\ Days \subseteq Nat
           /\ None \notin Days
<1>1. MaxHours \in Nat /\ hour \in Nat /\ hour <= MaxHours /\ None \notin Nat
  BY NotifierAssumption
<1>2. Day(hour) <= Day(MaxHours) /\ Day(hour) \in Nat /\ Day(MaxHours) \in Nat /\ HourOf(hour) \in Nat
  BY <1>1, Parts, Later
<1> QED
  BY <1>1, <1>2 DEF Days

-----------------------------------------------------------------------------
(* Types.                                                                  *)

LEMMA InitTyped == Init => TypeOK
<1> SUFFICES ASSUME Init PROVE TypeOK
  OBVIOUS
<1>1. MaxHours \in Nat /\ MaxNotices \in Nat
  BY NotifierAssumption
<1>2. hour \in 0..MaxHours /\ given \in 0..MaxNotices /\ nextCheck \in Nat
  BY <1>1 DEF Init
<1>3. queue \in Seq(Notice) /\ delivered \in Seq(1..MaxNotices)
  BY DEF Init
<1>4. reports \in [Days -> 0..2] /\ excused \subseteq Days
  BY DEF Init
<1> QED
  BY <1>2, <1>3, <1>4 DEF Init, TypeOK

\* Taking a text and putting one into the queue.
LEMMA Texts ==
    ASSUME TypeOK
    PROVE  /\ \A n \in Notice : Append(queue, n) \in Seq(Notice)
           /\ queue # <<>> => Head(queue) \in Notice /\ Tail(queue) \in Seq(Notice)
           /\ hand # None /\ hand.kind = "ui" => Append(delivered, hand.number) \in Seq(1..MaxNotices)
<1>1. queue \in Seq(Notice) /\ delivered \in Seq(1..MaxNotices)
  BY DEF TypeOK
<1>2. ASSUME hand # None, hand.kind = "ui" PROVE hand.number \in 1..MaxNotices
  BY <1>2 DEF TypeOK, Notice
<1> QED
  BY <1>1, <1>2

LEMMA Typed == ASSUME TypeOK, [Next]_vars PROVE TypeOK'
<1> USE DEF clock, judgement, history
<1>1. CASE StartNotifier
  BY <1>1, Today DEF TypeOK, StartNotifier, DailyReportNew
<1>2. CASE Notify
  <2>1. given' \in 0..MaxNotices /\ given' \in 1..MaxNotices
    BY <1>2, NotifierAssumption DEF TypeOK, Notify
  <2>2. queue' \in Seq(Notice)
    BY <1>2, <2>1, Texts DEF TypeOK, Notify, Notice
  <2>3. trouble' \in BOOLEAN
    <3>1. CASE notifier
      BY <1>2, <3>1 DEF TypeOK, Notify
    <3>2. CASE ~notifier
      BY <1>2, <3>2 DEF Notify
    <3> QED
      BY <3>1, <3>2
  <2>4. UNCHANGED <<clock, synced, ca, notifier, thread, hand, due, judgement, https, delivered,
                    reports, excused, clean>>
    BY <1>2 DEF Notify
  <2> QED
    BY <2>1, <2>2, <2>3, <2>4 DEF TypeOK
<1>3. CASE Receive
  BY <1>3, Texts DEF TypeOK, Receive
<1>4. ASSUME NEW offered \in Version \cup {None}, CheckFirmware(offered) PROVE TypeOK'
  <2>1. queue' \in Seq(Notice) /\ noticed' \in Version \cup {None}
    BY <1>4, Texts DEF TypeOK, CheckFirmware, Observe, Notice
  <2>2. nextCheck' \in Nat
    BY <1>4, NotifierAssumption DEF TypeOK, CheckFirmware
  <2> QED
    BY <1>4, <2>1, <2>2 DEF TypeOK, CheckFirmware
<1>5. ASSUME NEW installs \in BOOLEAN, EnsureRootCa(installs) PROVE TypeOK'
  BY <1>5 DEF TypeOK, EnsureRootCa
<1>6. CASE SendQueued
  BY <1>6 DEF TypeOK, SendQueued
<1>7. ASSUME NEW arrives \in BOOLEAN, NEW answered \in BOOLEAN, QueuedSent(arrives, answered)
      PROVE  TypeOK'
  <2>1. delivered' \in Seq(1..MaxNotices)
    BY <1>7, Texts DEF TypeOK, QueuedSent
  <2> QED
    BY <1>7, <2>1 DEF TypeOK, QueuedSent
<1>8. CASE LookAtReport
  <2>1. due' \in Days \cup {None}
    BY <1>8, Today DEF TypeOK, LookAtReport, DueReport
  <2> QED
    BY <1>8, <2>1 DEF TypeOK, LookAtReport
<1>9. CASE SendReport
  BY <1>9 DEF TypeOK, SendReport
<1>10. ASSUME NEW arrives \in BOOLEAN, NEW answered \in BOOLEAN, ReportSent(arrives, answered)
       PROVE  TypeOK'
  <2>1. due \in Days
    BY <1>10 DEF TypeOK, ReportSent
  <2>2. reports' \in [Days -> 0..2] /\ excused' \subseteq Days /\ lastSent' \in Days \cup {None}
    BY <1>10, <2>1 DEF TypeOK, ReportSent
  <2> QED
    BY <1>10, <2>2 DEF TypeOK, ReportSent
<1>11. CASE PollLocks \/ PollUnlocks
  BY <1>11 DEF TypeOK, PollLocks, PollUnlocks
<1>12. CASE NtpSync
  BY <1>12 DEF TypeOK, NtpSync
<1>13. CASE Tick
  <2>1. hour' \in 0..MaxHours
    BY <1>13, NotifierAssumption DEF TypeOK, Tick
  <2>2. clean' \in BOOLEAN /\ turned' \in BOOLEAN
    BY <1>13 DEF Tick
  <2>3. UNCHANGED <<synced, ca, notifier, thread, queue, hand, due, judgement, https, given,
                    delivered, trouble, reports, excused>>
    BY <1>13 DEF Tick
  <2> QED
    BY <2>1, <2>2, <2>3 DEF TypeOK
<1>14. ASSUME NEW cold \in BOOLEAN, Restart(cold) PROVE TypeOK'
  <2>1. synced' \in BOOLEAN
    BY <1>14 DEF Restart
  <2>2. excused' \subseteq Days
    BY <1>14, Today DEF TypeOK, Restart
  <2>3. queue' \in Seq(Notice) /\ nextCheck' \in Nat
    BY <1>14 DEF Restart
  <2>4. UNCHANGED <<clock, given, delivered, reports>>
    BY <1>14 DEF Restart
  <2>5. /\ ca' = FALSE /\ notifier' = FALSE /\ thread' = "none" /\ hand' = None /\ due' = None
        /\ https' = "free" /\ lastSent' = None /\ noticed' = None
        /\ trouble' = TRUE /\ clean' = FALSE
    BY <1>14 DEF Restart
  <2> QED
    BY <2>1, <2>2, <2>3, <2>4, <2>5 DEF TypeOK
<1>15. CASE UNCHANGED vars
  BY <1>15 DEF TypeOK, vars
<1> QED
  BY <1>1, <1>2, <1>3, <1>4, <1>5, <1>6, <1>7, <1>8, <1>9, <1>10, <1>11, <1>12, <1>13, <1>14, <1>15
  DEF Next, UiLoop, NotifierThread, Environment

-----------------------------------------------------------------------------
(* The report.                                                             *)

LEMMA InitReport == Init => ReportInv
  BY DEF Init, ReportInv, ReportedOnce, ReportedKnown, LastSentKnown, DueKnown, CleanKnown

\* With NTP the time is known.
LEMMA SynchronisedKnows ==
    ASSUME hour \in 0..MaxHours, synced PROVE LocalNow # None
<1>1. LocalNow = [day |-> Day(hour), hour |-> HourOf(hour)]
  BY DEF LocalNow
<1>2. Day(hour) \in Nat /\ HourOf(hour) \in Nat
  BY Today
<1> QED
  BY <1>1, <1>2, NotifierAssumption

LEMMA AsideSafe == ASSUME ReportInv, UNCHANGED Reports PROVE ReportInv'
  BY DEF Reports, ReportInv, ReportedOnce, ReportedKnown, LastSentKnown, DueKnown, CleanKnown

\* DailyReport::new takes the day as reported if its hour has come.
LEMMA StartSafe == ASSUME TypeOK, ReportInv, StartNotifier PROVE ReportInv'
<1>1. UNCHANGED <<hour, turned, synced, due, reports, excused, clean>> /\ ~notifier
  BY DEF StartNotifier, clock, history
<1>2. ReportedKnown'
  <2>1. ASSUME NEW d \in Days, reports[d] > 0, d \notin excused, ~(d < Day(hour))
        PROVE  synced /\ HourOf(hour) >= ReportHour /\ lastSent' = d
    <3>1. d <= Day(hour) /\ synced /\ HourOf(hour) >= ReportHour
      BY <2>1 DEF ReportInv, ReportedKnown
    <3>2. d = Day(hour)
      BY <2>1, <3>1, Today DEF TypeOK
    <3>3. LocalNow # None
      BY <3>1, SynchronisedKnows DEF TypeOK
    <3> QED
      BY <3>1, <3>2, <3>3 DEF StartNotifier, DailyReportNew
  <2> QED
    BY <1>1, <2>1 DEF ReportInv, ReportedKnown
<1>3. LastSentKnown'
  BY <1>1, Today DEF StartNotifier, DailyReportNew, TypeOK, LastSentKnown
<1>4. ~clean /\ due = None
  BY <1>1 DEF ReportInv, CleanKnown, TypeOK
<1> QED
  BY <1>1, <1>2, <1>3, <1>4 DEF ReportInv, ReportedOnce, DueKnown, CleanKnown

LEMMA RootCaSafe ==
    ASSUME TypeOK, ReportInv, NEW installs \in BOOLEAN, EnsureRootCa(installs) PROVE ReportInv'
<1>1. CASE ca'
  BY <1>1, AsideSafe DEF EnsureRootCa, Reports, judgement
<1>2. CASE ~ca'
  <2>1. clean' = FALSE /\ due = None
    BY <1>2 DEF EnsureRootCa, TypeOK
  <2>2. UNCHANGED <<hour, synced, notifier, due, lastSent, reports, excused>>
    BY DEF EnsureRootCa, judgement
  <2> QED
    BY <2>1, <2>2
    DEF ReportInv, ReportedOnce, ReportedKnown, LastSentKnown, DueKnown, CleanKnown
<1> QED
  BY <1>1, <1>2

\* due_report: a day that has been told is not due again.
LEMMA LookSafe == ASSUME TypeOK, ReportInv, LookAtReport PROVE ReportInv'
<1>1. UNCHANGED <<hour, synced, notifier, lastSent, reports, excused, clean>> /\ notifier
  BY DEF LookAtReport, judgement, history, TypeOK
<1>2. CASE DueReport = None
  <2>1. due' = None /\ turned' = TRUE
    BY <1>2 DEF LookAtReport
  <2>2. CleanKnown'
    <3> SUFFICES ASSUME clean, HourOf(hour) = ReportHour PROVE reports[Day(hour)] > 0
      BY <1>1 DEF CleanKnown, ReportInv
    <3>1. synced
      BY DEF ReportInv, CleanKnown
    <3>2. LocalNow # None
      BY <3>1, SynchronisedKnows DEF TypeOK
    <3>3. ReportHour >= 0 /\ Day(hour) # None
      BY Today DEF TypeOK
    <3>4. lastSent = Day(hour)
      BY <1>2, <3>2, <3>3 DEF DueReport
    <3> QED
      BY <3>4 DEF ReportInv, CleanKnown
  <2> QED
    BY <1>1, <2>1, <2>2 DEF ReportInv, ReportedOnce, ReportedKnown, LastSentKnown, DueKnown
<1>3. CASE DueReport # None
  <2>1. /\ due' = Day(hour) /\ UNCHANGED turned
        /\ synced /\ HourOf(hour) = ReportHour /\ lastSent # Day(hour)
    BY <1>3 DEF LookAtReport, DueReport, LocalNow
  <2>2. reports[Day(hour)] = 0 \/ Day(hour) \in excused
    <3>1. reports[Day(hour)] \in 0..2
      BY Today DEF TypeOK
    <3>2. Day(hour) \in Days /\ ~(Day(hour) < Day(hour))
      BY Today DEF TypeOK
    <3> QED
      BY <1>1, <2>1, <3>1, <3>2 DEF ReportInv, ReportedKnown
  <2>3. \A d \in Days : d > Day(hour) => reports[d] = 0
    BY Today DEF TypeOK, ReportInv, ReportedKnown
  <2>4. DueKnown'
    BY <1>1, <2>1, <2>2, <2>3, Today DEF DueKnown, TypeOK
  <2> QED
    BY <1>1, <2>1, <2>4 DEF ReportInv, ReportedOnce, ReportedKnown, LastSentKnown, CleanKnown
<1> QED
  BY <1>2, <1>3

\* mark_sent follows an answer; without one the report may arrive again.
LEMMA SentSafe ==
    ASSUME TypeOK, ReportInv, NEW arrives \in BOOLEAN, NEW answered \in BOOLEAN,
           ReportSent(arrives, answered)
    PROVE  ReportInv'
<1>1. /\ UNCHANGED <<hour, synced, notifier>> /\ notifier
      /\ due' = None /\ turned' = TRUE /\ due \in Days
  BY DEF ReportSent, TypeOK
<1>2. /\ synced /\ due <= Day(hour) /\ due \in Nat
      /\ due = Day(hour) => HourOf(hour) >= ReportHour
      /\ HourOf(hour) = ReportHour => due = Day(hour)
      /\ reports[due] = 0 \/ due \in excused
      /\ \A d \in Days : d > due => reports[d] = 0
  BY <1>1, Today DEF ReportInv, DueKnown, TypeOK
<1>3. lastSent' = lastSent \/ lastSent' = due
  BY DEF ReportSent
<1>4. /\ \A d \in Days : d # due => reports'[d] = reports[d]
      /\ reports[due] \in 0..2 /\ reports'[due] \in 0..2
      /\ ~arrives => reports'[due] = reports[due]
      /\ arrives => reports'[due] > 0
      /\ reports'[due] > 1 => reports[due] > 0
  BY <1>1 DEF ReportSent, TypeOK
<1>5. excused \subseteq excused' /\ (arrives /\ ~answered => due \in excused')
  BY DEF ReportSent
<1>6. ReportedOnce'
  <2>1. ASSUME NEW d \in Days, reports'[d] > 1 PROVE d \in excused'
    <3>1. CASE d = due
      BY <1>2, <1>4, <1>5, <2>1, <3>1
    <3>2. CASE d # due
      BY <1>4, <1>5, <2>1, <3>2 DEF ReportInv, ReportedOnce
    <3> QED
      BY <3>1, <3>2
  <2> QED
    BY <2>1 DEF ReportedOnce
<1>7. ReportedKnown'
  <2>1. ASSUME NEW d \in Days, reports'[d] > 0
        PROVE  /\ d <= Day(hour)
               /\ \/ d \in excused' \/ d < Day(hour)
                  \/ HourOf(hour) >= ReportHour /\ lastSent' = d
    <3>1. CASE d = due
      <4>1. CASE arrives /\ answered
        <5>1. lastSent' = due
          BY <4>1 DEF ReportSent
        <5> QED
          BY <1>2, <3>1, <5>1, Today DEF TypeOK
      <4>2. CASE arrives /\ ~answered
        BY <1>2, <1>5, <3>1, <4>2
      <4>3. CASE ~arrives
        BY <1>2, <1>4, <1>5, <2>1, <3>1, <4>3
      <4> QED
        BY <4>1, <4>2, <4>3
    <3>2. CASE d # due
      <4>1. reports[d] > 0 /\ d \in Nat /\ ~(d > due)
        BY <1>2, <1>4, <2>1, <3>2, Today DEF TypeOK
      <4>2. d < due
        BY <1>2, <3>2, <4>1
      <4> QED
        BY <1>2, <4>1, <4>2, Today DEF TypeOK
    <3> QED
      BY <3>1, <3>2
  <2> QED
    BY <1>1, <1>2, <2>1 DEF ReportedKnown
<1>8. LastSentKnown'
  BY <1>1, <1>2, <1>3 DEF ReportInv, LastSentKnown
<1>9. CleanKnown'
  <2> SUFFICES ASSUME clean', HourOf(hour) = ReportHour PROVE reports'[Day(hour)] > 0
    BY <1>1, <1>2 DEF CleanKnown
  <2>1. arrives
    BY DEF ReportSent
  <2> QED
    BY <1>2, <1>4, <2>1
<1> QED
  BY <1>1, <1>6, <1>7, <1>8, <1>9 DEF ReportInv, DueKnown

LEMMA SyncSafe == ASSUME TypeOK, ReportInv, NtpSync PROVE ReportInv'
<1>1. UNCHANGED <<hour, turned, notifier, lastSent, due, reports, excused, clean>> /\ synced'
  BY DEF NtpSync, clock, judgement, history
<1> QED
  BY <1>1 DEF ReportInv, ReportedOnce, ReportedKnown, LastSentKnown, DueKnown, CleanKnown

\* A report that is under way when its hour ends is finished in the next one.
LEMMA TickSafe == ASSUME TypeOK, ReportInv, Tick PROVE ReportInv'
<1>1. /\ hour' = hour + 1 /\ turned' = FALSE /\ clean' = (thread # "none" /\ synced)
      /\ UNCHANGED <<synced, notifier, thread, lastSent, due, reports, excused>>
      /\ thread = "none" \/ turned
  BY DEF Tick, judgement
<1>2. /\ hour \in Nat /\ Day(hour) \in Nat /\ Day(hour') \in Nat /\ Day(hour) <= Day(hour')
      /\ HourOf(hour) \in Nat /\ HourOf(hour') \in Nat
      /\ Day(hour) = Day(hour') => HourOf(hour) <= HourOf(hour')
      /\ HourOf(hour) = ReportHour => HourOf(hour') # ReportHour
  <2>1. hour \in Nat /\ hour + 1 \in Nat /\ hour <= hour + 1
    BY NotifierAssumption DEF TypeOK
  <2> QED
    BY <1>1, <2>1, Parts, Later, NotTwoHours
<1>3. ReportHour \in Int /\ Days \subseteq Nat
  BY NotifierAssumption, Today DEF TypeOK
<1>4. ReportedKnown'
  <2>1. ASSUME NEW d \in Days, reports[d] > 0
        PROVE  /\ d <= Day(hour')
               /\ \/ d \in excused \/ d < Day(hour')
                  \/ synced /\ HourOf(hour') >= ReportHour /\ (notifier => lastSent = d)
    <3>1. /\ d <= Day(hour) /\ d \in Nat
          /\ \/ d \in excused \/ d < Day(hour)
             \/ synced /\ HourOf(hour) >= ReportHour /\ (notifier => lastSent = d)
      BY <1>3, <2>1 DEF ReportInv, ReportedKnown
    <3> QED
      BY <1>2, <1>3, <3>1
  <2> QED
    BY <1>1, <2>1 DEF ReportedKnown
<1>5. LastSentKnown'
  BY <1>1, <1>2, <1>3 DEF TypeOK, ReportInv, LastSentKnown
<1>6. DueKnown'
  <2> SUFFICES ASSUME due # None PROVE DueKnown'
    BY <1>1 DEF DueKnown
  <2>1. turned /\ due \in Nat
    BY <1>1, <1>3 DEF TypeOK
  <2>2. /\ synced /\ due = Day(hour) /\ HourOf(hour) = ReportHour
        /\ reports[due] = 0 \/ due \in excused
        /\ \A d \in Days : d > due => reports[d] = 0
    BY <2>1 DEF ReportInv, DueKnown
  <2> QED
    BY <1>1, <1>2, <1>3, <2>1, <2>2 DEF DueKnown
<1>7. CleanKnown'
  <2> SUFFICES ASSUME clean', HourOf(hour') = ReportHour, lastSent = Day(hour') PROVE FALSE
    BY <1>1 DEF CleanKnown, TypeOK
  <2>1. lastSent # None /\ lastSent <= Day(hour)
    BY <1>2, NotifierAssumption DEF ReportInv, LastSentKnown
  <2>2. Day(hour) = Day(hour')
    BY <1>2, <2>1
  <2>3. HourOf(hour) >= ReportHour /\ HourOf(hour) <= HourOf(hour')
    BY <1>2, <2>1, <2>2 DEF ReportInv, LastSentKnown
  <2> QED
    BY <1>2, <1>3, <2>3
<1> QED
  BY <1>1, <1>4, <1>5, <1>6, <1>7 DEF ReportInv, ReportedOnce

\* A restart forgets what was reported; the clock, if it is kept, knows.
LEMMA RestartSafe ==
    ASSUME TypeOK, ReportInv, NEW cold \in BOOLEAN, Restart(cold) PROVE ReportInv'
<1>a. /\ UNCHANGED <<hour, turned, reports>>
      /\ notifier' = FALSE /\ lastSent' = None /\ due' = None /\ clean' = FALSE
  BY DEF Restart, clock
<1>b. excused \subseteq excused' /\ (cold => Day(hour) \in excused')
  <2>1. CASE cold
    BY <2>1 DEF Restart
  <2>2. CASE ~cold
    BY <2>2 DEF Restart
  <2> QED
    BY <2>1, <2>2
<1>c. ~cold /\ synced => synced'
  BY Zenon DEF Restart
<1>1. /\ UNCHANGED <<hour, turned, reports>> /\ excused \subseteq excused'
      /\ notifier' = FALSE /\ lastSent' = None /\ due' = None /\ clean' = FALSE
      /\ cold => Day(hour) \in excused'
      /\ ~cold /\ synced => synced'
  BY <1>a, <1>b, <1>c, Zenon
<1>2. ReportedKnown'
  <2>1. ASSUME NEW d \in Days, reports[d] > 0
        PROVE  /\ d <= Day(hour)
               /\ d \in excused' \/ d < Day(hour) \/ (synced' /\ HourOf(hour) >= ReportHour)
    <3>1. /\ d <= Day(hour) /\ d \in Nat /\ Day(hour) \in Nat
          /\ d \in excused \/ d < Day(hour) \/ (synced /\ HourOf(hour) >= ReportHour)
      BY <2>1, Today DEF TypeOK, ReportInv, ReportedKnown
    <3>2. CASE cold
      <4>1. d = Day(hour) \/ d < Day(hour)
        BY <3>1
      <4> QED
        BY <1>1, <3>1, <3>2, <4>1
    <3>3. CASE ~cold
      BY <1>1, <3>1, <3>3
    <3> QED
      BY <3>2, <3>3
  <2> QED
    BY <1>1, <2>1 DEF ReportedKnown
<1>3. ReportedOnce'
  BY <1>1 DEF ReportInv, ReportedOnce
<1> QED
  BY <1>1, <1>2, <1>3 DEF ReportInv, LastSentKnown, DueKnown, CleanKnown

LEMMA Reported == ASSUME TypeOK, ReportInv, [Next]_vars PROVE ReportInv'
<1> USE DEF Reports, clock, judgement, history
<1>1. CASE Notify \/ Receive \/ SendQueued \/ SendReport \/ PollLocks \/ PollUnlocks
  BY <1>1, AsideSafe DEF Notify, Receive, SendQueued, SendReport, PollLocks, PollUnlocks
<1>2. ASSUME NEW offered \in Version \cup {None}, CheckFirmware(offered) PROVE ReportInv'
  BY <1>2, AsideSafe DEF CheckFirmware
<1>3. ASSUME NEW arrives \in BOOLEAN, NEW answered \in BOOLEAN, QueuedSent(arrives, answered)
      PROVE  ReportInv'
  BY <1>3, AsideSafe DEF QueuedSent
<1>4. CASE UNCHANGED vars
  BY <1>4, AsideSafe DEF vars
<1> QED
  BY <1>1, <1>2, <1>3, <1>4, StartSafe, RootCaSafe, LookSafe, SentSafe, SyncSafe, TickSafe, RestartSafe
  DEF Next, UiLoop, NotifierThread, Environment

-----------------------------------------------------------------------------
(* The notices.                                                            *)

LEMMA NewerIsNumbers ==
    ASSUME NEW a, NEW b, CompareVersions(a, b) = "Newer"
    PROVE  SplitVersion(a) /\ SplitVersion(b) /\ Less(a.parts, b.parts)
  BY DEF CompareVersions

\* [u64; 3]::cmp is transitive.
LEMMA NewerTransitive ==
    ASSUME NEW a, NEW b, NEW c,
           CompareVersions(a, b) = "Newer", CompareVersions(b, c) = "Newer"
    PROVE  CompareVersions(a, c) = "Newer"
<1>1. /\ SplitVersion(a) /\ SplitVersion(b) /\ SplitVersion(c)
      /\ Less(a.parts, b.parts) /\ Less(b.parts, c.parts)
  BY NewerIsNumbers
<1>2. \A k \in 1..3 : a.parts[k] \in Int /\ b.parts[k] \in Int /\ c.parts[k] \in Int
  BY <1>1, MaxPartAssumption DEF SplitVersion
<1>3. Less(a.parts, c.parts)
  <2>1. PICK k \in 1..3 : /\ a.parts[k] < b.parts[k]
                         /\ \A j \in 1..3 : j < k => a.parts[j] = b.parts[j]
    BY <1>1 DEF Less
  <2>2. PICK l \in 1..3 : /\ b.parts[l] < c.parts[l]
                         /\ \A j \in 1..3 : j < l => b.parts[j] = c.parts[j]
    BY <1>1 DEF Less
  <2>3. CASE k <= l
    <3>1. a.parts[k] < c.parts[k]
      BY <1>2, <2>1, <2>2, <2>3
    <3>2. \A j \in 1..3 : j < k => a.parts[j] = c.parts[j]
      BY <2>1, <2>2, <2>3
    <3> QED
      BY <3>1, <3>2 DEF Less
  <2>4. CASE l < k
    <3>1. a.parts[l] < c.parts[l]
      BY <1>2, <2>1, <2>2, <2>4
    <3>2. \A j \in 1..3 : j < l => a.parts[j] = c.parts[j]
      BY <2>1, <2>2, <2>4
    <3> QED
      BY <3>1, <3>2 DEF Less
  <2> QED
    BY <2>3, <2>4
<1> QED
  BY <1>1, <1>3 DEF CompareVersions

\* A sequence s of notices on their way fits what has been delivered, given
\* and told of a firmware.
Fits(s, d, g, told) ==
    /\ s \in Seq(Notice)
    /\ \A i, j \in DOMAIN s : i < j => ToldBefore(s[i], s[j])
    /\ \A i \in DOMAIN d, j \in DOMAIN s : s[j].kind = "ui" => d[i] < s[j].number
    /\ \A j \in DOMAIN s : s[j].kind = "ui" => s[j].number <= g
    /\ \A j \in DOMAIN s : s[j].kind = "firmware" =>
         told # None /\ (s[j].version = told \/ CompareVersions(s[j].version, told) = "Newer")

\* What has been delivered is in order.
Orderly(d, g) ==
    /\ d \in Seq(1..MaxNotices)
    /\ \A i, j \in DOMAIN d : i < j => d[i] < d[j]
    /\ \A i \in DOMAIN d : d[i] <= g

\* None is missing.
Complete(s, d, g) ==
    \A n \in 1..g : \/ \E i \in DOMAIN d : d[i] = n
                    \/ \E j \in DOMAIN s : s[j].kind = "ui" /\ s[j].number = n

NoticeInv ==
    /\ hand # None => thread \in {"check", "ca", "queued", "sending"}
    /\ ~notifier => queue = <<>> /\ hand = None
    /\ Fits(InFlight, delivered, given, noticed)
    /\ Orderly(delivered, given)
    /\ ~trouble => Complete(InFlight, delivered, given)

LEMMA NoticeKinds ==
    ASSUME NEW n \in Notice
    PROVE  /\ n.kind = "ui" => n.number \in 1..MaxNotices
           /\ n.kind = "firmware" => n.version \in Version
           /\ n.kind \in {"ui", "firmware"} /\ n # None
  BY NotifierAssumption DEF Notice

\* The text in hand is the first of the notices on their way.
LEMMA HandFirst ==
    ASSUME queue \in Seq(Notice), hand \in Notice \cup {None}
    PROVE  /\ InFlight \in Seq(Notice)
           /\ hand = None => InFlight = queue
           /\ hand # None => InFlight # <<>> /\ Head(InFlight) = hand /\ Tail(InFlight) = queue
<1>1. CASE hand = None
  BY <1>1 DEF InFlight
<1>2. CASE hand # None
  BY <1>2 DEF InFlight
<1> QED
  BY <1>1, <1>2

LEMMA QueuedLast ==
    ASSUME queue \in Seq(Notice), hand \in Notice \cup {None}, NEW n \in Notice
    PROVE  (IF hand = None THEN <<>> ELSE <<hand>>) \o Append(queue, n) = Append(InFlight, n)
<1>1. CASE hand = None
  BY <1>1 DEF InFlight
<1>2. CASE hand # None
  BY <1>2 DEF InFlight
<1> QED
  BY <1>1, <1>2

\* A new notice of the UI loop has a number of its own.
LEMMA UiFits ==
    ASSUME NEW s, NEW d, NEW g \in Nat, NEW told,
           Fits(s, d, g, told), Orderly(d, g), g + 1 <= MaxNotices,
           NEW n, n = [kind |-> "ui", number |-> g + 1]
    PROVE  /\ Fits(Append(s, n), d, g + 1, told)
           /\ Orderly(d, g + 1)
           /\ Complete(s, d, g) => Complete(Append(s, n), d, g + 1)
<1>1. n \in Notice /\ n.kind = "ui" /\ n.number = g + 1
  BY NotifierAssumption DEF Notice
<1>2. s \in Seq(Notice) /\ Len(s) \in Nat /\ \A j \in DOMAIN s : s[j] \in Notice
  BY DEF Fits
<1>3. DEFINE t == Append(s, n)
<1>4. /\ t \in Seq(Notice) /\ DOMAIN t = 1..(Len(s) + 1) /\ DOMAIN s = 1..Len(s)
      /\ t[Len(s) + 1] = n /\ \A j \in DOMAIN s : t[j] = s[j]
  BY <1>1, <1>2
<1> HIDE DEF t
<1>5. \A j \in DOMAIN t : j \in DOMAIN s \/ j = Len(s) + 1
  BY <1>2, <1>4
<1>6. \A j \in DOMAIN s : s[j].kind = "ui" => s[j].number \in Nat /\ s[j].number <= g
  BY <1>2, NoticeKinds, NotifierAssumption DEF Fits
<1>7. \A i \in DOMAIN d : d[i] \in Nat /\ d[i] <= g
  BY NotifierAssumption DEF Orderly
<1>8. Fits(t, d, g + 1, told)
  <2>1. \A i, j \in DOMAIN t : i < j => ToldBefore(t[i], t[j])
    BY <1>1, <1>2, <1>4, <1>5, <1>6 DEF ToldBefore, Fits
  <2>2. \A i \in DOMAIN d, j \in DOMAIN t : t[j].kind = "ui" => d[i] < t[j].number
    BY <1>1, <1>4, <1>5, <1>7 DEF Fits
  <2>3. \A j \in DOMAIN t : t[j].kind = "ui" => t[j].number <= g + 1
    BY <1>1, <1>4, <1>5, <1>6
  <2>4. \A j \in DOMAIN t : t[j].kind = "firmware" => j \in DOMAIN s
    BY <1>1, <1>4, <1>5
  <2> QED
    BY <1>4, <2>1, <2>2, <2>3, <2>4 DEF Fits
<1>9. Orderly(d, g + 1)
  BY <1>7 DEF Orderly
<1>10. ASSUME Complete(s, d, g) PROVE Complete(t, d, g + 1)
  <2>1. ASSUME NEW m \in 1..(g + 1)
        PROVE  \/ \E i \in DOMAIN d : d[i] = m
               \/ \E j \in DOMAIN t : t[j].kind = "ui" /\ t[j].number = m
    <3>1. CASE m = g + 1
      BY <1>1, <1>2, <1>4, <3>1
    <3>2. CASE m # g + 1
      <4>1. m \in 1..g
        BY <3>2
      <4>2. DOMAIN s \subseteq DOMAIN t
        BY <1>2, <1>4
      <4> QED
        BY <1>4, <1>10, <4>1, <4>2 DEF Complete
    <3> QED
      BY <3>1, <3>2
  <2> QED
    BY <2>1 DEF Complete
<1> QED
  BY <1>8, <1>9, <1>10 DEF t

\* A firmware that is told of is newer than the ones before.
LEMMA FirmwareFits ==
    ASSUME NEW s, NEW d, NEW g, NEW told, NEW v \in Version,
           Fits(s, d, g, told), told # None => CompareVersions(told, v) = "Newer",
           NEW n, n = [kind |-> "firmware", version |-> v]
    PROVE  /\ Fits(Append(s, n), d, g, v)
           /\ Complete(s, d, g) => Complete(Append(s, n), d, g)
<1>1. n \in Notice /\ n.kind = "firmware" /\ n.version = v /\ v # None
  BY NotifierAssumption DEF Notice
<1>2. s \in Seq(Notice) /\ Len(s) \in Nat
  BY DEF Fits
<1>3. DEFINE t == Append(s, n)
<1>4. /\ t \in Seq(Notice) /\ DOMAIN t = 1..(Len(s) + 1) /\ DOMAIN s = 1..Len(s)
      /\ t[Len(s) + 1] = n /\ \A j \in DOMAIN s : t[j] = s[j]
  BY <1>1, <1>2
<1> HIDE DEF t
<1>5. \A j \in DOMAIN t : j \in DOMAIN s \/ j = Len(s) + 1
  BY <1>2, <1>4
<1>6. \A j \in DOMAIN s : s[j].kind = "firmware" => CompareVersions(s[j].version, v) = "Newer"
  BY NewerTransitive DEF Fits
<1>7. Fits(t, d, g, v)
  <2>1. \A i, j \in DOMAIN t : i < j => ToldBefore(t[i], t[j])
    BY <1>1, <1>2, <1>4, <1>5, <1>6 DEF ToldBefore, Fits
  <2>2. \A j \in DOMAIN t : t[j].kind = "ui" => j \in DOMAIN s
    BY <1>1, <1>4, <1>5
  <2>3. \A i \in DOMAIN d, j \in DOMAIN t : t[j].kind = "ui" => d[i] < t[j].number
    BY <1>4, <2>2 DEF Fits
  <2>4. \A j \in DOMAIN t : t[j].kind = "ui" => t[j].number <= g
    BY <1>4, <2>2 DEF Fits
  <2>5. \A j \in DOMAIN t : t[j].kind = "firmware" =>
           t[j].version = v \/ CompareVersions(t[j].version, v) = "Newer"
    BY <1>1, <1>4, <1>5, <1>6
  <2> QED
    BY <1>1, <1>4, <2>1, <2>3, <2>4, <2>5 DEF Fits
<1>8. DOMAIN s \subseteq DOMAIN t
  BY <1>2, <1>4
<1> QED
  BY <1>4, <1>7, <1>8 DEF Complete, t

\* The first notice leaves, lost or not.
LEMMA TailShape ==
    ASSUME NEW s \in Seq(Notice), s # <<>>
    PROVE  /\ Tail(s) \in Seq(Notice) /\ Head(s) = s[1] /\ 1 \in DOMAIN s
           /\ \A j \in DOMAIN Tail(s) : j \in Nat /\ j + 1 \in DOMAIN s /\ Tail(s)[j] = s[j + 1]
           /\ \A j \in DOMAIN s : j = 1 \/ (j - 1 \in DOMAIN Tail(s) /\ Tail(s)[j - 1] = s[j])
  OBVIOUS

LEMMA TailFits ==
    ASSUME NEW s, NEW d, NEW g, NEW told, Fits(s, d, g, told), s # <<>>
    PROVE  Fits(Tail(s), d, g, told)
<1>1. s \in Seq(Notice)
  BY DEF Fits
<1>2. DEFINE t == Tail(s)
<1>3. t \in Seq(Notice) /\ \A j \in DOMAIN t : j \in Nat /\ j + 1 \in DOMAIN s /\ t[j] = s[j + 1]
  BY <1>1, TailShape
<1> HIDE DEF t
<1>4. \A i, j \in DOMAIN t : i < j => ToldBefore(t[i], t[j])
  BY <1>3 DEF Fits
<1>5. Fits(t, d, g, told)
  BY <1>3, <1>4 DEF Fits
<1> QED
  BY <1>5 DEF t

LEMMA UiDelivered ==
    ASSUME NEW s, NEW d, NEW g \in Nat, NEW told, Fits(s, d, g, told), Orderly(d, g),
           s # <<>>, Head(s).kind = "ui"
    PROVE  /\ Fits(Tail(s), Append(d, Head(s).number), g, told)
           /\ Orderly(Append(d, Head(s).number), g)
           /\ Complete(s, d, g) => Complete(Tail(s), Append(d, Head(s).number), g)
<1>1. s \in Seq(Notice) /\ d \in Seq(1..MaxNotices)
  BY DEF Fits, Orderly
<1>2. DEFINE t == Tail(s)
             m == Head(s).number
             e == Append(d, m)
<1>3. /\ 1 \in DOMAIN s /\ s[1].kind = "ui" /\ m = s[1].number /\ m \in 1..MaxNotices /\ m <= g
      /\ \A j \in DOMAIN t : j \in Nat /\ j + 1 \in DOMAIN s /\ t[j] = s[j + 1] /\ 1 < j + 1
      /\ \A j \in DOMAIN s : j = 1 \/ (j - 1 \in DOMAIN t /\ t[j - 1] = s[j])
  <2>1. /\ Head(s) = s[1] /\ 1 \in DOMAIN s /\ s[1] \in Notice
        /\ \A j \in DOMAIN t : j \in Nat /\ j + 1 \in DOMAIN s /\ t[j] = s[j + 1]
        /\ \A j \in DOMAIN s : j = 1 \/ (j - 1 \in DOMAIN t /\ t[j - 1] = s[j])
    BY <1>1, TailShape
  <2>2. \A j \in DOMAIN t : 1 < j + 1
    BY <1>1
  <2>3. s[1].kind = "ui" /\ m = s[1].number /\ m \in 1..MaxNotices /\ m <= g
    BY <2>1, NoticeKinds DEF Fits
  <2> QED
    BY <2>1, <2>2, <2>3
<1>4. /\ e \in Seq(1..MaxNotices) /\ Len(d) \in Nat /\ DOMAIN e = 1..(Len(d) + 1)
      /\ DOMAIN d = 1..Len(d) /\ e[Len(d) + 1] = m /\ \A i \in DOMAIN d : e[i] = d[i]
  BY <1>1, <1>3
<1>5. Fits(t, d, g, told)
  BY TailFits
<1> HIDE DEF t, m, e
<1>6. \A i \in DOMAIN e : i \in DOMAIN d \/ i = Len(d) + 1
  BY <1>4
<1>7. \A j \in DOMAIN t : t[j].kind = "ui" => m < t[j].number
  BY <1>3 DEF Fits, ToldBefore
<1>8. Fits(t, e, g, told)
  BY <1>4, <1>5, <1>6, <1>7 DEF Fits
<1>9. Orderly(e, g)
  <2>1. \A i \in DOMAIN d : d[i] < m
    BY <1>3 DEF Fits
  <2>2. \A i, j \in DOMAIN e : i < j => e[i] < e[j]
    BY <1>4, <1>6, <2>1 DEF Orderly
  <2>3. \A i \in DOMAIN e : e[i] <= g
    BY <1>3, <1>4, <1>6 DEF Orderly
  <2> QED
    BY <1>4, <2>2, <2>3 DEF Orderly
<1>10. ASSUME Complete(s, d, g) PROVE Complete(t, e, g)
  <2>1. ASSUME NEW n \in 1..g
        PROVE  \/ \E i \in DOMAIN e : e[i] = n
               \/ \E j \in DOMAIN t : t[j].kind = "ui" /\ t[j].number = n
    <3>1. CASE \E i \in DOMAIN d : d[i] = n
      <4>1. DOMAIN d \subseteq DOMAIN e
        BY <1>4
      <4> QED
        BY <1>4, <3>1, <4>1
    <3>2. CASE \E j \in DOMAIN s : s[j].kind = "ui" /\ s[j].number = n
      <4>1. PICK j \in DOMAIN s : s[j].kind = "ui" /\ s[j].number = n
        BY <3>2
      <4>2. CASE j = 1
        <5>1. Len(d) + 1 \in DOMAIN e
          BY <1>4
        <5> QED
          BY <1>3, <1>4, <4>1, <4>2, <5>1
      <4>3. CASE j # 1
        BY <1>3, <4>1, <4>3
      <4> QED
        BY <4>2, <4>3
    <3> QED
      BY <1>10, <3>1, <3>2 DEF Complete
  <2> QED
    BY <2>1 DEF Complete
<1> QED
  BY <1>8, <1>9, <1>10 DEF t, e, m

LEMMA FirmwareDelivered ==
    ASSUME NEW s \in Seq(Notice), NEW d, NEW g, s # <<>>, Head(s).kind # "ui", Complete(s, d, g)
    PROVE  Complete(Tail(s), d, g)
<1>1. \A j \in DOMAIN s : s[j].kind = "ui" => j - 1 \in DOMAIN Tail(s) /\ Tail(s)[j - 1] = s[j]
  BY TailShape
<1> QED
  BY <1>1 DEF Complete

LEMMA InitNotices == Init => NoticeInv
<1> SUFFICES ASSUME Init PROVE NoticeInv
  OBVIOUS
<1>1. InFlight = <<>>
  BY DEF Init, InFlight
<1> QED
  BY <1>1, NotifierAssumption DEF Init, NoticeInv, Fits, Orderly, Complete

\* A step that leaves the notices and what is known of them alone.
LEMMA NoticesAside ==
    ASSUME NoticeInv, UNCHANGED <<queue, hand, delivered, given, noticed, trouble, notifier>>,
           hand # None => thread' \in {"check", "ca", "queued", "sending"}
    PROVE  NoticeInv'
<1>1. InFlight' = InFlight
  BY DEF InFlight
<1> QED
  BY <1>1 DEF NoticeInv

LEMMA NotifySafe == ASSUME TypeOK, NoticeInv, Notify PROVE NoticeInv'
<1>1. /\ given \in Nat /\ given + 1 <= MaxNotices /\ queue \in Seq(Notice) /\ hand \in Notice \cup {None}
  BY NotifierAssumption DEF TypeOK, Notify
<1>2. CASE notifier
  <2>1. DEFINE n == [kind |-> "ui", number |-> given + 1]
  <2>2. n \in Notice
    BY <1>1, NotifierAssumption DEF Notice
  <2>3. InFlight' = Append(InFlight, n)
    BY <1>1, <1>2, <2>2, QueuedLast DEF Notify, InFlight
  <2>4. /\ Fits(InFlight', delivered, given + 1, noticed) /\ Orderly(delivered, given + 1)
        /\ Complete(InFlight, delivered, given) => Complete(InFlight', delivered, given + 1)
    BY <1>1, <2>3, UiFits DEF NoticeInv
  <2> QED
    BY <1>2, <2>4 DEF NoticeInv, Notify, judgement
<1>3. CASE ~notifier
  <2>1. InFlight' = InFlight
    BY <1>3 DEF Notify, InFlight
  <2>2. Fits(InFlight, delivered, given + 1, noticed)
    <3>1. \A j \in DOMAIN InFlight : InFlight[j].kind = "ui" => InFlight[j].number <= given + 1
      <4>1. InFlight = <<>>
        BY <1>3 DEF NoticeInv, InFlight
      <4> QED
        BY <4>1
    <3> QED
      BY <3>1 DEF NoticeInv, Fits
  <2>3. Orderly(delivered, given + 1)
    <3>1. \A i \in DOMAIN delivered : delivered[i] \in Nat /\ delivered[i] <= given
      BY NotifierAssumption DEF NoticeInv, Orderly
    <3> QED
      BY <1>1, <3>1 DEF NoticeInv, Orderly
  <2> QED
    BY <1>3, <2>1, <2>2, <2>3 DEF NoticeInv, Notify, judgement
<1> QED
  BY <1>2, <1>3

LEMMA ReceiveNotices == ASSUME TypeOK, NoticeInv, Receive PROVE NoticeInv'
<1>1. hand = None /\ queue \in Seq(Notice) /\ hand \in Notice \cup {None} /\ notifier
  BY DEF NoticeInv, Receive, TypeOK
<1>2. InFlight' = InFlight
  <2>1. InFlight = queue
    BY <1>1, HandFirst
  <2>2. CASE queue # <<>> /\ hand' = Head(queue) /\ queue' = Tail(queue)
    <3>1. hand' \in Notice /\ hand' # None /\ queue' \in Seq(Notice) /\ <<hand'>> \o queue' = queue
      BY <1>1, <2>2, NoticeKinds
    <3> QED
      BY <2>1, <3>1 DEF InFlight
  <2>3. CASE queue = <<>> /\ UNCHANGED <<hand, queue>>
    BY <2>3 DEF InFlight
  <2> QED
    BY <2>2, <2>3 DEF Receive
<1> QED
  BY <1>1, <1>2 DEF NoticeInv, Receive, judgement, history

LEMMA CheckNotices ==
    ASSUME TypeOK, NoticeInv, NEW offered \in Version \cup {None}, CheckFirmware(offered)
    PROVE  NoticeInv'
<1>1. /\ queue \in Seq(Notice) /\ hand \in Notice \cup {None} /\ notifier
      /\ UNCHANGED <<hand, notifier, delivered, given, trouble>> /\ thread' = "ca"
  BY DEF CheckFirmware, TypeOK, history
<1>2. CASE CheckDue /\ Observe(offered)
  <2>1. /\ offered \in Version /\ noticed' = offered
        /\ noticed # None => CompareVersions(noticed, offered) = "Newer"
        /\ queue' = Append(queue, [kind |-> "firmware", version |-> offered])
    BY <1>2 DEF CheckFirmware, Observe
  <2>2. [kind |-> "firmware", version |-> offered] \in Notice
    BY <2>1 DEF Notice
  <2>3. InFlight' = Append(InFlight, [kind |-> "firmware", version |-> offered])
    BY <1>1, <2>1, <2>2, QueuedLast DEF InFlight
  <2>4. /\ Fits(InFlight', delivered, given, offered)
        /\ Complete(InFlight, delivered, given) => Complete(InFlight', delivered, given)
    BY <2>1, <2>3, FirmwareFits DEF NoticeInv
  <2> QED
    BY <1>1, <2>1, <2>4 DEF NoticeInv
<1>3. CASE ~(CheckDue /\ Observe(offered))
  BY <1>1, <1>3, NoticesAside DEF CheckFirmware
<1> QED
  BY <1>2, <1>3

\* The text in hand is lost, and that is not forgotten.
LEMMA RootCaNotices ==
    ASSUME TypeOK, NoticeInv, NEW installs \in BOOLEAN, EnsureRootCa(installs) PROVE NoticeInv'
<1>1. /\ queue \in Seq(Notice) /\ hand \in Notice \cup {None} /\ notifier
      /\ UNCHANGED <<queue, notifier, delivered, given, noticed>>
  BY DEF EnsureRootCa, TypeOK, judgement
<1>2. CASE ca'
  BY <1>2, NoticesAside DEF EnsureRootCa, judgement
<1>3. CASE ~ca' /\ hand = None
  <2>1. hand' = hand /\ thread' = "receive" /\ (trouble' <=> trouble)
    BY <1>3 DEF EnsureRootCa
  <2>2. InFlight' = InFlight
    BY <1>1, <2>1 DEF InFlight
  <2> QED
    BY <1>1, <1>3, <2>1, <2>2 DEF NoticeInv
<1>4. CASE ~ca' /\ hand # None
  <2>1. hand' = None /\ trouble'
    BY <1>4 DEF EnsureRootCa
  <2>2. InFlight' = queue /\ InFlight # <<>> /\ Tail(InFlight) = queue
    BY <1>1, <1>4, <2>1, HandFirst DEF InFlight
  <2>3. Fits(InFlight', delivered, given, noticed)
    BY <2>2, TailFits DEF NoticeInv
  <2> QED
    BY <1>1, <2>1, <2>3 DEF NoticeInv
<1> QED
  BY <1>2, <1>3, <1>4

LEMMA SentNotices ==
    ASSUME TypeOK, NoticeInv, NEW arrives \in BOOLEAN, NEW answered \in BOOLEAN,
           QueuedSent(arrives, answered)
    PROVE  NoticeInv'
<1>a. /\ queue \in Seq(Notice) /\ hand \in Notice /\ hand # None /\ notifier /\ given \in Nat
  BY NotifierAssumption DEF QueuedSent, TypeOK
<1>b. hand' = None /\ UNCHANGED <<queue, notifier, given, noticed>>
  BY DEF QueuedSent, judgement
<1>c. ~trouble' => arrives /\ ~trouble
  BY Zenon DEF QueuedSent
<1>1. /\ queue \in Seq(Notice) /\ hand \in Notice /\ hand # None /\ notifier /\ given \in Nat
      /\ hand' = None /\ UNCHANGED <<queue, notifier, given, noticed>>
      /\ ~trouble' => arrives /\ ~trouble
  BY <1>a, <1>b, <1>c, Zenon
<1>d. InFlight' = queue
  BY <1>1 DEF InFlight
<1>2. /\ InFlight' = Tail(InFlight) /\ InFlight # <<>> /\ Head(InFlight) = hand
      /\ InFlight \in Seq(Notice)
  BY <1>1, <1>d, HandFirst
<1>3. Fits(InFlight', delivered, given, noticed)
  BY <1>2, TailFits DEF NoticeInv
<1>4. CASE arrives /\ hand.kind = "ui"
  <2>1. delivered' = Append(delivered, hand.number)
    BY <1>4 DEF QueuedSent
  <2>2. /\ Fits(InFlight', delivered', given, noticed) /\ Orderly(delivered', given)
        /\ Complete(InFlight, delivered, given) => Complete(InFlight', delivered', given)
    BY <1>1, <1>2, <1>4, <2>1, UiDelivered DEF NoticeInv
  <2> QED
    BY <1>1, <2>2 DEF NoticeInv
<1>5. CASE arrives /\ hand.kind # "ui"
  <2>1. delivered' = delivered
    BY <1>5 DEF QueuedSent
  <2>2. Complete(InFlight, delivered, given) => Complete(InFlight', delivered, given)
    BY <1>2, <1>5, FirmwareDelivered
  <2> QED
    BY <1>1, <1>3, <2>1, <2>2 DEF NoticeInv
<1>6. CASE ~arrives
  <2>1. delivered' = delivered
    BY <1>6 DEF QueuedSent
  <2> QED
    BY <1>1, <1>3, <1>6, <2>1 DEF NoticeInv
<1> QED
  BY <1>4, <1>5, <1>6

LEMMA RestartNotices ==
    ASSUME TypeOK, NoticeInv, NEW cold \in BOOLEAN, Restart(cold) PROVE NoticeInv'
<1>1. /\ queue' = <<>> /\ hand' = None /\ trouble' /\ UNCHANGED <<delivered, given>>
  BY DEF Restart
<1>2. InFlight' = <<>>
  BY <1>1 DEF InFlight
<1>3. Fits(<<>>, delivered, given, noticed')
  BY DEF Fits
<1> QED
  BY <1>1, <1>2, <1>3 DEF NoticeInv

LEMMA Noticed == ASSUME TypeOK, NoticeInv, [Next]_vars PROVE NoticeInv'
<1> USE DEF clock, judgement, history
<1>1. CASE SendQueued \/ LookAtReport \/ SendReport \/ PollLocks \/ PollUnlocks \/ NtpSync \/ Tick
  BY <1>1, NoticesAside
  DEF NoticeInv, SendQueued, LookAtReport, SendReport, PollLocks, PollUnlocks, NtpSync, Tick
<1>2. ASSUME NEW arrives \in BOOLEAN, NEW answered \in BOOLEAN, ReportSent(arrives, answered)
      PROVE  NoticeInv'
  BY <1>2, NoticesAside DEF NoticeInv, ReportSent
<1>3. CASE StartNotifier
  <2>1. InFlight = <<>> /\ InFlight' = <<>> /\ hand' = None
    BY <1>3 DEF NoticeInv, StartNotifier, InFlight
  <2>2. Fits(<<>>, delivered, given, noticed')
    BY DEF Fits
  <2> QED
    BY <1>3, <2>1, <2>2 DEF NoticeInv, StartNotifier
<1>4. CASE UNCHANGED vars
  BY <1>4, NoticesAside DEF NoticeInv, vars
<1> QED
  BY <1>1, <1>2, <1>3, <1>4, NotifySafe, ReceiveNotices, CheckNotices, RootCaNotices, SentNotices,
     RestartNotices
  DEF Next, UiLoop, NotifierThread, Environment

-----------------------------------------------------------------------------
(* The theorems.                                                           *)

LEMMA Safety == Spec => [](TypeOK /\ ReportInv)
<1>1. Init => TypeOK /\ ReportInv
  BY InitTyped, InitReport
<1>2. TypeOK /\ ReportInv /\ [Next]_vars => TypeOK' /\ ReportInv'
  BY Typed, Reported
<1> QED
  BY <1>1, <1>2, PTL DEF Spec

\* What the thread, its queue and its judgements hold is what the functions
\* of telegram.rs and firmware_notice.rs expect.
THEOREM TypeCorrect == Spec => []TypeOK
  BY Safety, PTL

\* A day is reported once, over any restarts and lost answers that are not
\* among the two excuses (DailyReport::new, mark_sent).
THEOREM OncePerDay == Spec => []ReportedOnce
<1>1. ReportInv => ReportedOnce
  BY DEF ReportInv
<1> QED
  BY <1>1, Safety, PTL

\* A day is not skipped: a restart before the hour of the report does not
\* mark it (DailyReport::new), and a failed send is tried again (due_report).
THEOREM NotForgotten == Spec => DayNotForgotten
<1>1. TypeOK /\ ReportInv /\ [Next]_vars =>
        [hour' # hour /\ HourOf(hour) = ReportHour /\ clean => reports[Day(hour)] > 0]_vars
  <2> SUFFICES ASSUME TypeOK, ReportInv, Next, hour' # hour, HourOf(hour) = ReportHour, clean
               PROVE  reports[Day(hour)] > 0
    OBVIOUS
  <2>1. Tick
    BY DEF Next, UiLoop, NotifierThread, Environment, StartNotifier, Notify, Receive,
           CheckFirmware, EnsureRootCa, SendQueued, QueuedSent, LookAtReport, SendReport,
           ReportSent, PollLocks, PollUnlocks, NtpSync, Restart, clock
  <2>2. notifier /\ turned
    BY <2>1 DEF Tick, TypeOK, ReportInv, CleanKnown
  <2> QED
    BY <2>2 DEF ReportInv, CleanKnown
<1> QED
  BY <1>1, Safety, PTL DEF Spec, DayNotForgotten

LEMMA NoticeSafety == Spec => []NoticeInv
<1>1. Init => NoticeInv
  BY InitNotices
<1>2. TypeOK /\ NoticeInv /\ [Next]_vars => NoticeInv'
  BY Noticed
<1> QED
  BY <1>1, <1>2, TypeCorrect, PTL DEF Spec

\* Notices arrive in the order they were given and none is missing without a
\* reason; a firmware is told once and only if it is newer than the one told
\* before (the channel to the thread, FirmwareNotice::observe).
THEOREM Kept == Spec => []NoticesKept
<1>1. NoticeInv => NoticesKept
  BY DEF NoticeInv, NoticesKept, Fits, Orderly, Complete
<1> QED
  BY <1>1, NoticeSafety, PTL
-----------------------------------------------------------------------------
(* The thread goes on.  That its actions are enabled where ThreadGoesOn    *)
(* says so is a hypothesis here: the provers do not reason about ENABLED.  *)

\* Where the thread goes from each place of its round.
Onward(t) ==
    CASE t = "receive" -> {"check"}
      [] t = "check" -> {"ca"}
      [] t = "ca" -> {"queued", "receive"}
      [] t = "queued" -> {"report", "sending"}
      [] t = "sending" -> {"report"}
      [] t = "report" -> {"receive", "reporting"}
      [] t = "reporting" -> {"receive"}
      [] OTHER -> {}

At(t) == thread = t
Busy == https = "poll"
Owes == due # None
Heads(n) == queue # <<>> /\ Head(queue) = n

\* Its own steps take it on; looking at the report, it may stay for one more.
LEMMA RoundStep ==
    ASSUME NotifierThread
    PROVE  \/ thread' \in Onward(thread)
           \/ thread = "report" /\ thread' = "report" /\ due = None /\ due' # None
<1>1. CASE Receive \/ (\E offered \in Version \cup {None} : CheckFirmware(offered))
  BY <1>1 DEF Receive, CheckFirmware, Onward
<1>2. CASE \E installs \in BOOLEAN : EnsureRootCa(installs)
  BY <1>2 DEF EnsureRootCa, Onward
<1>3. CASE SendQueued \/ SendReport
  BY <1>3 DEF SendQueued, SendReport, Onward
<1>4. CASE LookAtReport
  BY <1>4 DEF LookAtReport, Onward
<1>5. CASE \E arrives, answered \in BOOLEAN : QueuedSent(arrives, answered) \/ ReportSent(arrives, answered)
  BY <1>5 DEF QueuedSent, ReportSent, Onward
<1> QED
  BY <1>1, <1>2, <1>3, <1>4, <1>5 DEF NotifierThread

\* Nothing else moves it but its start and a restart.
LEMMA RoundElse ==
    ASSUME TypeOK, [Next]_vars
    PROVE  \/ NotifierThread
           \/ UNCHANGED <<thread, due>>
           \/ thread = "none" /\ thread' = "receive"
           \/ thread' = "none" /\ queue' = <<>> /\ hand' = None
<1> USE DEF clock, judgement, history
<1>1. CASE StartNotifier
  BY <1>1 DEF StartNotifier, TypeOK
<1>2. CASE Notify \/ PollLocks \/ PollUnlocks \/ NtpSync \/ Tick
  BY <1>2 DEF Notify, PollLocks, PollUnlocks, NtpSync, Tick
<1>3. CASE \E cold \in BOOLEAN : Restart(cold)
  BY <1>3 DEF Restart
<1>4. CASE UNCHANGED vars
  BY <1>4 DEF vars
<1> QED
  BY <1>1, <1>2, <1>3, <1>4 DEF Next, UiLoop, Environment

\* The polling thread gives the lock back again and again.
LEMMA FreeAgain == FairSpec /\ []ThreadGoesOn => []<>~Busy
<1>1. <<PollUnlocks>>_vars => ~Busy'
  BY DEF PollUnlocks, Busy
<1>2. ThreadGoesOn /\ Busy => ENABLED <<PollUnlocks>>_vars
  BY DEF ThreadGoesOn, Busy
<1> QED
  BY <1>1, <1>2, PTL DEF FairSpec, Fairness

\* What the thread does at a place takes it away from there: its request is
\* answered or fails, and the lock it waits for is free again and again.
Passes(t) == At(t) ~> ~At(t)

LEMMA LeavesPlace ==
    ASSUME NEW t \in {"receive", "check", "ca", "queued", "sending", "reporting"}
    PROVE  FairSpec /\ []ThreadGoesOn => Passes(t)
<1>1. <<NotifierThread>>_vars => (At(t) => ~At(t)')
  BY RoundStep DEF At, Onward
<1>2. ThreadGoesOn => (At(t) /\ ~Busy => ENABLED <<NotifierThread>>_vars)
  BY DEF ThreadGoesOn, Waits, Busy, At
<1> QED
  BY <1>1, <1>2, FreeAgain, TypeCorrect, PTL DEF FairSpec, Fairness, Passes

LEMMA LeavesReport == FairSpec /\ []ThreadGoesOn => Passes("report")
<1>1. <<NotifierThread>>_vars => (At("report") => ~At("report")' \/ (~Owes /\ Owes'))
  BY RoundStep DEF At, Onward, Owes
<1>2. TypeOK /\ [Next]_vars => (At("report") /\ At("report")' /\ Owes => Owes')
  BY RoundElse, RoundStep DEF At, Owes, Onward, TypeOK
<1>3. ThreadGoesOn => (At("report") /\ ~Busy => ENABLED <<NotifierThread>>_vars)
  BY DEF ThreadGoesOn, Waits, Busy, At
<1> QED
  BY <1>1, <1>2, <1>3, FreeAgain, TypeCorrect, PTL DEF FairSpec, Fairness, Spec, Passes

\* From any place the thread comes to the queue, or a restart ends it.
LEMMA RoundSteps ==
    ASSUME TypeOK, [Next]_vars
    PROVE  /\ At("check") => At("check")' \/ At("ca")' \/ At("none")'
           /\ At("ca") => At("ca")' \/ At("queued")' \/ At("receive")' \/ At("none")'
           /\ At("queued") => At("queued")' \/ At("report")' \/ At("sending")' \/ At("none")'
           /\ At("sending") => At("sending")' \/ At("report")' \/ At("none")'
           /\ At("report") => At("report")' \/ At("receive")' \/ At("reporting")' \/ At("none")'
           /\ At("reporting") => At("reporting")' \/ At("receive")' \/ At("none")'
  BY RoundElse, RoundStep DEF At, Onward

\* Back to the queue, or gone.
ThreadReturns == thread # "none" ~> thread \in {"receive", "none"}

(* Every round of the notifier thread comes to its end (start_notifier):   *)
(* from wherever it stands the thread is back at its queue, or a restart   *)
(* ends it, however often the polling thread takes the HTTPS lock          *)
(* (lock_https) and whatever fails.                                        *)
THEOREM RoundsEnd == FairSpec /\ []ThreadGoesOn => ThreadReturns
<1>1. FairSpec /\ []ThreadGoesOn
      => /\ Passes("check") /\ Passes("ca") /\ Passes("queued") /\ Passes("sending")
         /\ Passes("report") /\ Passes("reporting")
  BY LeavesPlace, LeavesReport
<1>2. TypeOK /\ [Next]_vars
      => /\ At("check") => At("check")' \/ At("ca")' \/ At("none")'
         /\ At("ca") => At("ca")' \/ At("queued")' \/ At("receive")' \/ At("none")'
         /\ At("queued") => At("queued")' \/ At("report")' \/ At("sending")' \/ At("none")'
         /\ At("sending") => At("sending")' \/ At("report")' \/ At("none")'
         /\ At("report") => At("report")' \/ At("receive")' \/ At("reporting")' \/ At("none")'
         /\ At("reporting") => At("reporting")' \/ At("receive")' \/ At("none")'
  BY RoundSteps
<1>3. TypeOK
      => /\ \/ At("none") \/ At("receive") \/ At("check") \/ At("ca") \/ At("queued")
            \/ At("sending") \/ At("report") \/ At("reporting")
         /\ thread # "none" <=> ~At("none")
         /\ thread \in {"receive", "none"} <=> At("receive") \/ At("none")
  BY DEF TypeOK, At
<1> QED
  BY <1>1, <1>2, <1>3, TypeCorrect, PTL DEF FairSpec, Spec, Passes, ThreadReturns

\* A notice is not told before itself: it is not twice in the queue.
LEMMA NotItself == ASSUME NEW n \in Notice PROVE ~ToldBefore(n, n)
<1>1. CASE n.kind = "ui"
  BY <1>1, NoticeKinds, NotifierAssumption DEF ToldBefore
<1>2. CASE n.kind = "firmware"
  BY <1>2, MaxPartAssumption DEF ToldBefore, CompareVersions, Less, SplitVersion
<1> QED
  BY <1>1, <1>2 DEF Notice

\* The queue is taken from its head, and no other notice is like it.
LEMMA HeadTaken ==
    ASSUME TypeOK, NoticeInv, NEW n \in Notice, Heads(n), At("receive"), NotifierThread
    PROVE  ~Heads(n)'
<1>1. Receive
  BY DEF NotifierThread, At, Receive, CheckFirmware, EnsureRootCa, SendQueued, QueuedSent, LookAtReport,
         SendReport, ReportSent
<1>2. queue \in Seq(Notice) /\ queue # <<>> /\ Head(queue) = n /\ queue' = Tail(queue) /\ hand = None
  BY <1>1 DEF Receive, Heads, TypeOK, NoticeInv
<1>3. InFlight = queue
  BY <1>2, HandFirst
<1>4. ASSUME Heads(n)' PROVE FALSE
  <2>1. Len(queue) >= 2 /\ queue[1] = n /\ queue[2] = n
    BY <1>2, <1>4 DEF Heads
  <2>2. ToldBefore(queue[1], queue[2])
    BY <1>2, <1>3, <2>1 DEF NoticeInv, Fits
  <2> QED
    BY <2>1, <2>2, NotItself
<1> QED
  BY <1>4

\* Until then it stays at the head, and the thread does not end.
LEMMA HeadSteps ==
    ASSUME TypeOK, NoticeInv, NEW n \in Notice, [Next]_vars
    PROVE  /\ At("none") => ~Heads(n)
           /\ At("receive") /\ Heads(n) => At("receive")' \/ ~Heads(n)'
<1>1. At("none") => ~Heads(n)
  BY DEF At, Heads, TypeOK, NoticeInv
<1>2. ASSUME At("receive"), Heads(n) PROVE At("receive")' \/ ~Heads(n)'
  <2>1. CASE NotifierThread
    BY <1>2, <2>1, HeadTaken
  <2>2. CASE UNCHANGED <<thread, due>>
    BY <1>2, <2>2 DEF At
  <2>3. CASE queue' = <<>>
    BY <2>3 DEF Heads
  <2> QED
    BY <1>2, <2>1, <2>2, <2>3, RoundElse DEF At
<1> QED
  BY <1>1, <1>2

(* Every notice that is at the head of the queue leaves it (start_notifier,*)
(* lock_https): the thread takes it in hand, or a restart empties the      *)
(* queue.  It needs no bound on the notices.                               *)
THEOREM HeadLeaves ==
    ASSUME NEW n \in Notice
    PROVE  FairSpec /\ []ThreadGoesOn => (Heads(n) ~> ~Heads(n))
<1>1. TypeOK /\ NoticeInv /\ [Next]_vars
      => /\ At("none") => ~Heads(n)
         /\ At("receive") /\ Heads(n) => At("receive")' \/ ~Heads(n)'
  BY HeadSteps
<1>2. TypeOK /\ NoticeInv /\ <<NotifierThread>>_vars
      => (At("receive") /\ Heads(n) => ~Heads(n)')
  BY HeadTaken
<1>3. ThreadGoesOn => (At("receive") => ENABLED <<NotifierThread>>_vars)
  BY DEF ThreadGoesOn, At, Waits
<1>4. ThreadReturns => ((~At("none") /\ ~At("receive")) ~> (At("receive") \/ At("none")))
  <2>1. thread # "none" <=> ~At("none")
    BY DEF At
  <2>2. thread \in {"receive", "none"} <=> At("receive") \/ At("none")
    BY DEF At
  <2> QED
    BY <2>1, <2>2, PTL DEF ThreadReturns
<1> QED
  BY <1>1, <1>2, <1>3, <1>4, RoundsEnd, TypeCorrect, NoticeSafety, PTL DEF FairSpec, Spec, Fairness

\* A notice at its place in the queue; and the queue after a restart.
Stands(n, k) == k \in DOMAIN queue /\ queue[k] = n
Emptied == queue = <<>>

\* The queue is taken from its head: who is behind moves up by one place.
LEMMA PlaceTaken ==
    ASSUME TypeOK, NoticeInv, NEW n \in Notice, NEW k \in Nat \ {0}, Stands(n, k + 1),
           At("receive"), NotifierThread
    PROVE  Stands(n, k)'
<1>1. Receive
  BY DEF NotifierThread, At, Receive, CheckFirmware, EnsureRootCa, SendQueued, QueuedSent, LookAtReport,
         SendReport, ReportSent
<1>2. queue \in Seq(Notice) /\ queue # <<>> /\ queue' = Tail(queue)
  BY <1>1 DEF Receive, Stands, TypeOK
<1> QED
  BY <1>2 DEF Stands

\* What is put into the queue is put behind all others.
LEMMA PlaceElse ==
    ASSUME TypeOK, NoticeInv, [Next]_vars, NEW n \in Notice, NEW k \in Nat \ {0}, Stands(n, k)
    PROVE  \/ Stands(n, k)'
           \/ Receive
           \/ queue' = <<>>
<1>1. queue \in Seq(Notice)
  BY DEF TypeOK
<1>2. ASSUME NEW m, queue' = Append(queue, m) PROVE Stands(n, k)'
  BY <1>1, <1>2 DEF Stands
<1>3. CASE UNCHANGED queue
  BY <1>3 DEF Stands
<1>4. CASE Notify
  BY <1>2, <1>3, <1>4 DEF Notify
<1>5. CASE \E offered \in Version \cup {None} : CheckFirmware(offered)
  BY <1>2, <1>3, <1>5 DEF CheckFirmware
<1>6. CASE \E cold \in BOOLEAN : Restart(cold)
  BY <1>6 DEF Restart
<1>7. CASE StartNotifier \/ PollLocks \/ PollUnlocks \/ NtpSync \/ Tick \/ SendQueued \/ LookAtReport
           \/ SendReport
  BY <1>3, <1>7 DEF StartNotifier, PollLocks, PollUnlocks, NtpSync, Tick, SendQueued, LookAtReport, SendReport
<1>8. CASE \/ \E installs \in BOOLEAN : EnsureRootCa(installs)
           \/ \E arrives, answered \in BOOLEAN : QueuedSent(arrives, answered) \/ ReportSent(arrives, answered)
  BY <1>3, <1>8 DEF EnsureRootCa, QueuedSent, ReportSent
<1>9. CASE UNCHANGED vars
  BY <1>3, <1>9 DEF vars
<1> QED
  BY <1>4, <1>5, <1>6, <1>7, <1>8, <1>9 DEF Next, UiLoop, NotifierThread, Environment

\* Behind the head a notice waits for the thread to come to the queue.
LEMMA PlaceSteps ==
    ASSUME TypeOK, NoticeInv, [Next]_vars, NEW n \in Notice, NEW k \in Nat \ {0}
    PROVE  /\ At("none") => ~Stands(n, k + 1)
           /\ Stands(n, k + 1) => Stands(n, k + 1)' \/ Stands(n, k)' \/ Emptied'
           /\ At("receive") /\ Stands(n, k + 1) => At("receive")' \/ Stands(n, k)' \/ Emptied'
<1>1. At("none") => ~Stands(n, k + 1)
  BY DEF At, Stands, TypeOK, NoticeInv
<1>2. ASSUME Stands(n, k + 1) PROVE Stands(n, k + 1)' \/ Stands(n, k)' \/ Emptied'
  <2>1. Receive => NotifierThread /\ At("receive")
    BY DEF NotifierThread, Receive, At
  <2> QED
    BY <1>2, <2>1, k + 1 \in Nat \ {0}, PlaceElse, PlaceTaken DEF Emptied
<1>3. ASSUME At("receive"), Stands(n, k + 1) PROVE At("receive")' \/ Stands(n, k)' \/ Emptied'
  <2>1. CASE NotifierThread
    BY <1>3, <2>1, PlaceTaken
  <2>2. CASE ~NotifierThread
    BY <1>3, <2>2, RoundElse DEF At, Emptied
  <2> QED
    BY <2>1, <2>2
<1> QED
  BY <1>1, <1>2, <1>3

(* Every notice that is behind others in the queue moves up by a place     *)
(* (start_notifier: recv_timeout takes the oldest text, whoever puts new   *)
(* ones behind it), or the queue is found empty, as a restart leaves it.   *)
(* With HeadLeaves no notice of NoticeLeaves is overtaken or stuck, from   *)
(* whatever place of however long a queue.                                 *)
THEOREM PlaceMoves ==
    ASSUME NEW n \in Notice, NEW k \in Nat \ {0}
    PROVE  FairSpec /\ []ThreadGoesOn => (Stands(n, k + 1) ~> (Stands(n, k) \/ Emptied))
<1>1. TypeOK /\ NoticeInv /\ [Next]_vars
      => /\ At("none") => ~Stands(n, k + 1)
         /\ Stands(n, k + 1) => Stands(n, k + 1)' \/ Stands(n, k)' \/ Emptied'
         /\ At("receive") /\ Stands(n, k + 1) => At("receive")' \/ Stands(n, k)' \/ Emptied'
  BY PlaceSteps
<1>2. TypeOK /\ NoticeInv /\ <<NotifierThread>>_vars
      => (At("receive") /\ Stands(n, k + 1) => Stands(n, k)')
  BY PlaceTaken
<1>3. ThreadGoesOn => (At("receive") => ENABLED <<NotifierThread>>_vars)
  BY DEF ThreadGoesOn, At, Waits
<1>4. ThreadReturns => ((~At("none") /\ ~At("receive")) ~> (At("receive") \/ At("none")))
  <2>1. thread # "none" <=> ~At("none")
    BY DEF At
  <2>2. thread \in {"receive", "none"} <=> At("receive") \/ At("none")
    BY DEF At
  <2> QED
    BY <2>1, <2>2, PTL DEF ThreadReturns
<1> QED
  BY <1>1, <1>2, <1>3, <1>4, RoundsEnd, TypeCorrect, NoticeSafety, PTL DEF FairSpec, Spec, Fairness

\* The notice is in the queue, at one of the first k places.
Queued(n) == \E i \in DOMAIN queue : queue[i] = n
Within(n, k) == \E i \in DOMAIN queue : i <= k /\ queue[i] = n
LeavesFrom(n, k) == Within(n, k) ~> ~Queued(n)

\* Nothing puts it into the queue again while it is at its head.
LEMMA FirstSteps ==
    ASSUME TypeOK, NoticeInv, [Next]_vars, NEW n \in Notice, Stands(n, 1)
    PROVE  Stands(n, 1)' \/ ~Queued(n)'
<1>1. CASE Receive
  <2>1. queue \in Seq(Notice) /\ queue' = Tail(queue) /\ hand = None /\ queue # <<>>
    BY <1>1 DEF Receive, Stands, TypeOK, NoticeInv
  <2>2. InFlight = queue
    BY <2>1, HandFirst
  <2>3. ASSUME Queued(n)' PROVE FALSE
    <3>1. PICK i \in DOMAIN Tail(queue) : Tail(queue)[i] = n
      BY <2>1, <2>3 DEF Queued
    <3>2. i \in Nat /\ i + 1 \in DOMAIN queue /\ queue[i + 1] = n /\ 1 \in DOMAIN queue /\ 1 < i + 1
      BY <2>1, <3>1
    <3>3. ToldBefore(queue[1], queue[i + 1])
      BY <2>2, <3>2 DEF NoticeInv, Fits
    <3> QED
      BY <3>2, <3>3, NotItself DEF Stands
  <2> QED
    BY <2>3
<1>2. CASE queue' = <<>>
  BY <1>2 DEF Queued
<1> QED
  BY <1>1, <1>2, PlaceElse

\* From the head it leaves the queue, and from each place it comes to the one
\* before, so that it leaves from there as well.
LEMMA FirstLeaves ==
    ASSUME NEW n \in Notice
    PROVE  FairSpec /\ []ThreadGoesOn => LeavesFrom(n, 1)
<1>1. TypeOK => (Within(n, 1) => Stands(n, 1)) /\ (Stands(n, 1) => Heads(n))
  BY DEF TypeOK, Within, Stands, Heads
<1>2. TypeOK /\ NoticeInv /\ [Next]_vars => (Stands(n, 1) => Stands(n, 1)' \/ ~Queued(n)')
  BY FirstSteps
<1> QED
  BY <1>1, <1>2, HeadLeaves, TypeCorrect, NoticeSafety, PTL DEF FairSpec, Spec, LeavesFrom

LEMMA NextLeaves ==
    ASSUME NEW n \in Notice, NEW k \in Nat \ {0}
    PROVE  FairSpec /\ []ThreadGoesOn => (LeavesFrom(n, k) => LeavesFrom(n, k + 1))
<1>1. TypeOK => (Within(n, k + 1) => Within(n, k) \/ Stands(n, k + 1))
  BY DEF TypeOK, Within, Stands
<1>2. Stands(n, k) => Within(n, k)
  BY DEF Within, Stands
<1>3. Emptied => ~Queued(n)
  BY DEF Emptied, Queued
<1> QED
  BY <1>1, <1>2, <1>3, PlaceMoves, TypeCorrect, PTL DEF FairSpec, LeavesFrom

\* A temporal formula admits no induction over its numbers.  Instead, what
\* leads on by k places leads on by ten times as many, and so to a million.
LEMMA PowersOfTen ==
    /\ 10 * 1 = 10 /\ 10 * 10 = 100 /\ 10 * 100 = 1000 /\ 10 * 1000 = 10000
    /\ 10 * 10000 = 100000 /\ 10 * 100000 = 1000000
  OBVIOUS

LEMMA TenSteps ==
    ASSUME NEW n \in Nat, NEW k \in Nat
    PROVE  /\ n + k \in Nat /\ n + 2 * k \in Nat /\ n + 3 * k \in Nat /\ n + 4 * k \in Nat
           /\ n + 5 * k \in Nat /\ n + 6 * k \in Nat /\ n + 7 * k \in Nat /\ n + 8 * k \in Nat
           /\ n + 9 * k \in Nat /\ 10 * k \in Nat
           /\ (n + k) + k = n + 2 * k /\ (n + 2 * k) + k = n + 3 * k
           /\ (n + 3 * k) + k = n + 4 * k /\ (n + 4 * k) + k = n + 5 * k
           /\ (n + 5 * k) + k = n + 6 * k /\ (n + 6 * k) + k = n + 7 * k
           /\ (n + 7 * k) + k = n + 8 * k /\ (n + 8 * k) + k = n + 9 * k
           /\ (n + 9 * k) + k = n + 10 * k
  OBVIOUS

LeavesFarther(n, k) == \A i \in Nat : LeavesFrom(n, i + 1) => LeavesFrom(n, (i + k) + 1)

LEMMA FartherTenfold ==
    ASSUME NEW n \in Notice, NEW k \in Nat PROVE LeavesFarther(n, k) => LeavesFarther(n, 10 * k)
<1>1. ASSUME NEW i \in Nat
      PROVE  LeavesFarther(n, k) => (LeavesFrom(n, i + 1) => LeavesFrom(n, (i + 10 * k) + 1))
  BY TenSteps DEF LeavesFarther
<1> QED
  BY <1>1 DEF LeavesFarther

(* Every notice that is given to the notifier thread leaves the queue      *)
(* (start_notifier: mpsc::channel, recv_timeout), from whatever place and  *)
(* whatever is put behind it: the thread takes it in hand, or a restart    *)
(* empties the queue.  The channel has no bound; the device, with its few  *)
(* hundred kilobytes of memory, never holds a million texts in it.         *)
THEOREM EveryNoticeLeaves ==
    ASSUME NEW n \in Notice
    PROVE  FairSpec /\ []ThreadGoesOn /\ [](Len(queue) <= 1000000) => (Queued(n) ~> ~Queued(n))
<1>1. FairSpec /\ []ThreadGoesOn => LeavesFarther(n, 1)
  <2>1. ASSUME NEW i \in Nat
        PROVE  FairSpec /\ []ThreadGoesOn => (LeavesFrom(n, i + 1) => LeavesFrom(n, (i + 1) + 1))
    BY NextLeaves, i + 1 \in Nat \ {0}
  <2> QED
    BY <2>1 DEF LeavesFarther
<1>2. LeavesFarther(n, 1) => LeavesFarther(n, 1000000)
  <2>1. \A k \in {1, 10, 100, 1000, 10000, 100000} : LeavesFarther(n, k) => LeavesFarther(n, 10 * k)
    BY FartherTenfold
  <2> QED
    BY <2>1, PowersOfTen
<1>3. LeavesFarther(n, 1000000) => (LeavesFrom(n, 1) => LeavesFrom(n, 1000001))
  BY 0 \in Nat, 0 + 1 = 1, (0 + 1000000) + 1 = 1000001 DEF LeavesFarther
<1>4. TypeOK /\ Len(queue) <= 1000000 => (Queued(n) => Within(n, 1000001))
  <2>1. TypeOK => Len(queue) \in Nat /\ \A i \in DOMAIN queue : i \in Nat /\ i <= Len(queue)
    BY DEF TypeOK
  <2>2. Len(queue) \in Nat /\ Len(queue) <= 1000000 => \A i \in Nat : i <= Len(queue) => i <= 1000001
    OBVIOUS
  <2> QED
    BY <2>1, <2>2 DEF Queued, Within
<1>5. FairSpec /\ []ThreadGoesOn => LeavesFrom(n, 1000001)
  BY <1>1, <1>2, <1>3, FirstLeaves
<1> QED
  BY <1>4, <1>5, TypeCorrect, PTL DEF FairSpec, LeavesFrom

\* What may still be told: notices of the UI loop, newer versions, and what is
\* in the queue.  A notice that is put there counts once less than before.
Unseen == {v \in Version : noticed = None \/ CompareVersions(noticed, v) = "Newer"}
Rank == 2 * (MaxNotices - given) + 2 * Cardinality(Unseen) + Len(queue)
FirstRank == 2 * MaxNotices + 2 * Cardinality(Version)

\* The rank is a number of at most the first.
LEMMA RankType ==
    ASSUME IsFiniteSet(Version), TypeOK
    PROVE  /\ IsFiniteSet(Unseen) /\ Cardinality(Unseen) \in Nat
           /\ Cardinality(Unseen) <= Cardinality(Version) /\ Cardinality(Version) \in Nat
           /\ MaxNotices \in Nat /\ given \in 0..MaxNotices /\ Len(queue) \in Nat
           /\ Rank \in Nat
<1>1. /\ IsFiniteSet(Unseen) /\ Cardinality(Unseen) \in Nat
      /\ Cardinality(Unseen) <= Cardinality(Version) /\ Cardinality(Version) \in Nat
  BY FS_Subset, FS_CardinalityType DEF Unseen
<1>2. MaxNotices \in Nat /\ given \in 0..MaxNotices /\ Len(queue) \in Nat
  BY NotifierAssumption DEF TypeOK
<1> QED
  BY <1>1, <1>2 DEF Rank

\* A version that is told of is one less to be told of, and none comes back.
LEMMA UnseenShrinks ==
    ASSUME IsFiniteSet(Version), TypeOK, NEW v \in Version, Observe(v), noticed' = v
    PROVE  Cardinality(Unseen') + 1 <= Cardinality(Unseen) /\ Cardinality(Unseen') \in Nat
<1>1. v \in Unseen /\ v # None
  BY NotifierAssumption DEF Observe, Unseen
<1>2. Unseen' \subseteq Unseen \ {v}
  <2>1. ASSUME NEW w \in Version, CompareVersions(v, w) = "Newer" PROVE w \in Unseen /\ w # v
    <3>1. noticed # None => CompareVersions(noticed, w) = "Newer"
      BY <2>1, NewerTransitive DEF Observe
    <3>2. CompareVersions(v, v) # "Newer"
      BY MaxPartAssumption DEF CompareVersions, Less, SplitVersion
    <3> QED
      BY <2>1, <3>1, <3>2 DEF Unseen
  <2> QED
    BY <1>1, <2>1 DEF Unseen
<1>3. IsFiniteSet(Unseen) /\ Cardinality(Unseen) \in Nat
  BY RankType
<1>4. IsFiniteSet(Unseen \ {v}) /\ Cardinality(Unseen \ {v}) = Cardinality(Unseen) - 1
  BY <1>1, <1>3, FS_RemoveElement
<1>5. IsFiniteSet(Unseen') /\ Cardinality(Unseen') <= Cardinality(Unseen \ {v})
  BY <1>2, <1>4, FS_Subset
<1> QED
  BY <1>3, <1>4, <1>5, FS_CardinalityType

\* While something is in the queue the rank never grows, and taking the head
\* makes it smaller.
LEMMA RankSteps ==
    ASSUME IsFiniteSet(Version), TypeOK, TypeOK', NoticeInv, [Next]_vars
    PROVE  /\ queue' = <<>> \/ Rank' <= Rank
           /\ Receive /\ queue # <<>> => Rank' + 1 <= Rank
<1>1. /\ Cardinality(Unseen) \in Nat /\ Len(queue) \in Nat /\ given \in 0..MaxNotices /\ MaxNotices \in Nat
      /\ queue \in Seq(Notice)
  BY RankType DEF TypeOK
<1>2. CASE Receive
  <2>1. UNCHANGED <<given, noticed>>
    BY <1>2 DEF Receive, judgement, history
  <2>2. CASE queue # <<>>
    <3>1. Len(queue') + 1 = Len(queue)
      BY <1>1, <1>2, <2>2 DEF Receive
    <3>2. Len(queue') \in Nat
      BY DEF TypeOK
    <3> QED
      BY <1>1, <2>1, <3>1, <3>2 DEF Rank, Unseen
  <2>3. CASE queue = <<>>
    BY <1>2, <2>3 DEF Receive
  <2> QED
    BY <2>2, <2>3
<1>3. CASE Notify
  <2>1. given' = given + 1 /\ UNCHANGED noticed /\ (Len(queue') = Len(queue) + 1 \/ UNCHANGED queue)
    BY <1>1, <1>3 DEF Notify, judgement
  <2> QED
    BY <1>1, <1>3, <2>1 DEF Rank, Unseen, Notify, Receive, TypeOK
<1>4. CASE \E offered \in Version \cup {None} : CheckFirmware(offered)
  <2>1. PICK offered \in Version \cup {None} : CheckFirmware(offered)
    BY <1>4
  <2>2. CASE UNCHANGED <<queue, noticed>>
    BY <1>1, <2>1, <2>2 DEF Rank, Unseen, CheckFirmware, history, Receive
  <2>3. CASE Observe(offered) /\ noticed' = offered /\ CheckDue
    <3>1. offered \in Version
      BY <2>1, <2>3 DEF Observe
    <3>2. Len(queue') = Len(queue) + 1 /\ UNCHANGED given
      BY <1>1, <2>1, <2>3 DEF CheckFirmware, history
    <3>3. Cardinality(Unseen') + 1 <= Cardinality(Unseen) /\ Cardinality(Unseen') \in Nat
      BY <2>3, <3>1, UnseenShrinks
    <3> QED
      BY <1>1, <2>1, <3>2, <3>3 DEF Rank, CheckFirmware, Receive
  <2> QED
    BY <2>1, <2>2, <2>3 DEF CheckFirmware
<1>5. CASE UNCHANGED <<given, noticed, queue>> /\ ~Receive
  BY <1>1, <1>5 DEF Rank, Unseen
<1>6. CASE \E cold \in BOOLEAN : Restart(cold)
  BY <1>6 DEF Restart, Receive
<1>7. CASE StartNotifier
  BY <1>7 DEF StartNotifier, NoticeInv, Receive
<1>8. CASE PollLocks \/ PollUnlocks \/ NtpSync \/ Tick \/ SendQueued \/ LookAtReport \/ SendReport
  BY <1>5, <1>8
  DEF PollLocks, PollUnlocks, NtpSync, Tick, SendQueued, LookAtReport, SendReport, judgement, history, Receive
<1>9. CASE \/ \E installs \in BOOLEAN : EnsureRootCa(installs)
           \/ \E arrives, answered \in BOOLEAN : QueuedSent(arrives, answered) \/ ReportSent(arrives, answered)
  BY <1>5, <1>9 DEF EnsureRootCa, QueuedSent, ReportSent, judgement, history, Receive
<1>10. CASE UNCHANGED vars
  BY <1>5, <1>10 DEF vars, judgement, history, Receive
<1> QED
  BY <1>2, <1>3, <1>4, <1>6, <1>7, <1>8, <1>9, <1>10 DEF Next, UiLoop, NotifierThread, Environment

Bounded == Rank <= FirstRank
RankNat == Rank \in Nat

\* It stays a number.
LEMMA RankThen == ASSUME IsFiniteSet(Version) PROVE TypeOK' => RankNat'
<1>1. TypeOK => RankNat
  BY RankType DEF RankNat
<1> QED
  BY <1>1, PTL

\* There is never more to tell than at the start.
LEMMA RankBounded == ASSUME IsFiniteSet(Version) PROVE Spec => []Bounded
<1>1. TypeOK => (Emptied => Bounded)
  BY RankType DEF Rank, FirstRank, Emptied, Bounded
<1>2. Init => Emptied
  BY DEF Init, Emptied
<1>3. TypeOK /\ TypeOK' /\ NoticeInv /\ [Next]_vars => (Bounded => Bounded' \/ Emptied')
  <2>1. FirstRank' = FirstRank /\ (TypeOK => Rank \in Nat /\ FirstRank \in Nat)
    BY RankType DEF FirstRank
  <2> QED
    BY <2>1, RankThen, RankSteps DEF Bounded, Emptied, RankNat
<1> QED
  BY <1>1, <1>2, <1>3, TypeCorrect, NoticeSafety, PTL DEF Spec

\* The rank is at least so far below where it began.
Full == queue # <<>>
Low(n) == Rank + n <= FirstRank
Sinks(n) == <>[]Low(n)

\* Of the numbers: who sinks, sinks below.
LEMMA Sinking ==
    ASSUME NEW r \in Nat, NEW s \in Nat, NEW first \in Nat, NEW n \in Nat, r + n <= first
    PROVE  /\ s <= r => s + n <= first
           /\ s + 1 <= r => s + (n + 1) <= first
  OBVIOUS

\* It stays as low while the queue does not get empty, and the thread takes it
\* lower whenever it leaves the place where it reads the queue.
LEMMA LowStays ==
    ASSUME IsFiniteSet(Version), TypeOK, TypeOK', NoticeInv, [Next]_vars, NEW n \in Nat
    PROVE  /\ Full' /\ Low(n) => Low(n)'
           /\ At("receive") /\ Full /\ Full' /\ Low(n) => At("receive")' \/ Low(n + 1)'
<1>1. Rank' \in Nat
  BY RankThen DEF RankNat
<1>2. FirstRank' = FirstRank /\ Rank \in Nat /\ FirstRank \in Nat
  BY RankType DEF FirstRank
<1>3. Full' /\ Low(n) => Low(n)'
  <2>1. ASSUME Full', Low(n) PROVE Low(n)'
    <3>1. Rank' <= Rank
      BY <2>1, RankSteps DEF Full
    <3>2. Rank + n <= FirstRank
      BY <2>1 DEF Low
    <3>3. Rank' + n <= FirstRank
      BY <1>1, <1>2, <3>1, <3>2, Sinking
    <3> QED
      BY <1>2, <3>3 DEF Low
  <2> QED
    BY <2>1
<1>4. ASSUME At("receive"), Full, Full', Low(n), ~At("receive")' PROVE Low(n + 1)'
  <2>1. NotifierThread
    BY <1>4, RoundElse DEF At, Full
  <2>2. Receive
    BY <1>4, <2>1 DEF NotifierThread, At, Receive, CheckFirmware, EnsureRootCa, SendQueued, QueuedSent,
                      LookAtReport, SendReport, ReportSent
  <2>3. Rank' + 1 <= Rank
    BY <1>4, <2>2, RankSteps DEF Full
  <2>4. Rank + n <= FirstRank
    BY <1>4 DEF Low
  <2>5. Rank' + (n + 1) <= FirstRank
    BY <1>1, <1>2, <2>3, <2>4, Sinking
  <2> QED
    BY <1>2, <2>5 DEF Low
<1> QED
  BY <1>3, <1>4

\* A queue that never gets empty sinks further: round by round the thread
\* takes from it, and what is put into it counted twice before.
LEMMA SinksOn ==
    ASSUME IsFiniteSet(Version), NEW n \in Nat
    PROVE  FairSpec /\ []ThreadGoesOn => (<>[]Full => (Sinks(n) => Sinks(n + 1)))
<1>1. TypeOK /\ TypeOK' /\ NoticeInv /\ [Next]_vars
      => /\ Full' /\ Low(n) => Low(n)'
         /\ Full' /\ Low(n + 1) => Low(n + 1)'
         /\ At("receive") /\ Full /\ Full' /\ Low(n) => At("receive")' \/ Low(n + 1)'
  BY LowStays, n + 1 \in Nat
<1>2. NoticeInv /\ TypeOK => (Full => ~At("none"))
  BY DEF NoticeInv, TypeOK, Full, At
<1>3. FairSpec /\ []ThreadGoesOn => Passes("receive")
  BY LeavesPlace
<1>4. /\ thread # "none" <=> ~At("none")
      /\ thread \in {"receive", "none"} <=> At("receive") \/ At("none")
  BY DEF At
<1> HIDE DEF Sinks
<1> QED
  BY <1>1, <1>2, <1>3, <1>4, RoundsEnd, TypeCorrect, NoticeSafety, PTL
  DEF FairSpec, Spec, Passes, ThreadReturns, Sinks

\* By the same tenfold steps as above.
SinksFarther(k) == \A i \in Nat : Sinks(i) => Sinks(i + k)

LEMMA SinksTenfold == ASSUME NEW k \in Nat PROVE SinksFarther(k) => SinksFarther(10 * k)
<1>1. ASSUME NEW i \in Nat
      PROVE  SinksFarther(k) => (Sinks(i) => Sinks(i + 10 * k))
  BY TenSteps DEF SinksFarther
<1> QED
  BY <1>1 DEF SinksFarther

(* The queue to the notifier thread empties again and again                *)
(* (start_notifier, lock_https), however often the polling thread takes    *)
(* the HTTPS lock, and although the thread puts notices of new firmware    *)
(* into the very queue it reads: each counts once less than the version    *)
(* that was still to be told of (FirmwareNotice::observe).  The notices of *)
(* the UI loop and the versions together are bounded, below half a million.*)
THEOREM QueueEmpties ==
    ASSUME IsFiniteSet(Version), FirstRank < 1000000
    PROVE  FairSpec /\ []ThreadGoesOn => NoticeLeaves
<1>1. FairSpec /\ []ThreadGoesOn => (<>[]Full => SinksFarther(1))
  <2>1. ASSUME NEW i \in Nat
        PROVE  FairSpec /\ []ThreadGoesOn => (<>[]Full => (Sinks(i) => Sinks(i + 1)))
    BY SinksOn
  <2> QED
    BY <2>1 DEF SinksFarther
<1>2. SinksFarther(1) => SinksFarther(1000000)
  <2>1. \A k \in {1, 10, 100, 1000, 10000, 100000} : SinksFarther(k) => SinksFarther(10 * k)
    BY SinksTenfold
  <2> QED
    BY <2>1, PowersOfTen
<1>3. SinksFarther(1000000) => (Sinks(0) => Sinks(1000000))
  BY 0 \in Nat, 0 + 1000000 = 1000000 DEF SinksFarther
<1>4. FairSpec => Sinks(0)
  <2>1. TypeOK => (Bounded => Low(0))
    BY RankType DEF Bounded, Low
  <2> QED
    BY <2>1, RankBounded, TypeCorrect, PTL DEF FairSpec, Sinks
<1>5. TypeOK => ~Low(1000000)
  BY RankType DEF Low, FirstRank
<1>6. FairSpec => ~Sinks(1000000)
  BY <1>5, TypeCorrect, PTL DEF FairSpec, Sinks
<1>7. FairSpec /\ []ThreadGoesOn => ~<>[]Full
  BY <1>1, <1>2, <1>3, <1>4, <1>6
<1>8. (Full <=> queue # <<>>) /\ (~Full <=> queue = <<>>)
  BY DEF Full
<1> QED
  BY <1>7, <1>8, PTL DEF NoticeLeaves

(* A text in hand does not stay there: it is sent, lost with the root CA   *)
(* or with a restart (run, send_queued; HttpsLock).                        *)
THEOREM HandEmpties == FairSpec /\ []ThreadGoesOn => (hand # None ~> hand = None)
<1> DEFINE Empty == hand = None
<1>1. NoticeInv => (~Empty => ~At("receive") /\ ~At("none"))
  BY DEF NoticeInv, At
<1>2. TypeOK /\ NoticeInv => (At("none") \/ At("receive") => Empty)
  BY DEF NoticeInv, At
<1>3. ThreadReturns => ((~At("none") /\ ~At("receive")) ~> (At("receive") \/ At("none")))
  <2>1. thread # "none" <=> ~At("none")
    BY DEF At
  <2>2. thread \in {"receive", "none"} <=> At("receive") \/ At("none")
    BY DEF At
  <2> QED
    BY <2>1, <2>2, PTL DEF ThreadReturns
<1>4. (hand # None <=> ~Empty) /\ (hand = None <=> Empty)
  OBVIOUS
<1> HIDE DEF Empty
<1> QED
  BY <1>1, <1>2, <1>3, <1>4, RoundsEnd, NoticeSafety, TypeCorrect, PTL DEF FairSpec

=============================================================================
