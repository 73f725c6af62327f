------------------------------ MODULE Notifier ------------------------------
(***************************************************************************)
(* What the firmware tells the owner of its own accord (telegram.rs): the  *)
(* queue from the UI loop to the notifier thread, the daily report, the    *)
(* notice of a newer firmware, and the HTTPS lock that the thread shares   *)
(* with the polling thread.                                                *)
(*                                                                         *)
(* Time is counted in hours.  The thread comes around every minute, so an  *)
(* hour does not end before it has looked at the daily report once.        *)
(***************************************************************************)
EXTENDS Versions

CONSTANTS HoursPerDay,  \* 24
          ReportHour,   \* daily_report_hour, or -1
          CheckEvery,   \* hours between two firmware checks: 6
          Version,      \* versions the bridge may offer
          Current,      \* FIRMWARE_VERSION
          MaxHours,     \* bound on the clock
          MaxNotices,   \* bound on the notices of the UI loop
          None

ASSUME NotifierAssumption ==
    /\ HoursPerDay \in Nat \ {0, 1} /\ ReportHour \in -1..(HoursPerDay - 1)
    /\ CheckEvery \in Nat \ {0}
    /\ MaxHours \in Nat /\ MaxNotices \in Nat
    /\ None \notin Nat /\ None \notin Version /\ None \notin [day : Nat, hour : Nat]
    /\ None \notin [kind : {"ui"}, number : Nat] \cup [kind : {"firmware"}, version : Version]

VARIABLES hour,      \* hours of local time
          synced,    \* the device knows the time (NTP)
          ca,        \* the root CA is installed
          notifier,  \* the UI loop has a Notifier
          thread,    \* where the notifier thread is
          queue,     \* the channel to it
          hand,      \* text taken from the channel, or None
          due,       \* day of the report to be sent, or None
          lastSent,  \* DailyReport.last_sent_day
          nextCheck, \* FirmwareCheckSchedule: hour of the next check
          noticed,   \* FirmwareNotice.last_notified
          https,     \* holder of the HTTPS lock
          given,     \* history: notices of the UI loop so far
          delivered, \* history: those that have reached the chat, in order
          trouble,   \* history: something failed since the start
          reports,   \* history: day -> reports that have reached the chat, counted up to two
          excused,   \* history: days a second report can be explained for
          clean,     \* history: nothing has disturbed this hour's report
          turned     \* history: the thread has looked at the report this hour

clock == <<hour, turned>>
judgement == <<lastSent, nextCheck, noticed>>
history == <<given, delivered, trouble, reports, excused, clean>>
vars == <<clock, synced, ca, notifier, thread, queue, hand, due, judgement, https, history>>

Day(h) == h \div HoursPerDay
HourOf(h) == h % HoursPerDay
Days == 0..Day(MaxHours)

\* A notice of the UI loop is its number, one of the thread a version.
Notice == [kind : {"ui"}, number : 1..MaxNotices] \cup [kind : {"firmware"}, version : Version]

TypeOK ==
    /\ hour \in 0..MaxHours /\ turned \in BOOLEAN
    /\ synced \in BOOLEAN /\ ca \in BOOLEAN /\ notifier \in BOOLEAN
    /\ thread \in {"none", "receive", "check", "ca", "queued", "sending", "report", "reporting"}
    /\ queue \in Seq(Notice) /\ hand \in Notice \cup {None}
    /\ due \in Days \cup {None} /\ lastSent \in Days \cup {None}
    /\ nextCheck \in Nat /\ noticed \in Version \cup {None}
    /\ https \in {"free", "poll", "notifier"}
    /\ given \in 0..MaxNotices /\ delivered \in Seq(1..MaxNotices) /\ trouble \in BOOLEAN
    /\ reports \in [Days -> 0..2] /\ excused \subseteq Days /\ clean \in BOOLEAN
    /\ https = "notifier" <=> thread \in {"sending", "reporting"}
    /\ thread = "none" <=> ~notifier
    /\ due # None => thread \in {"report", "reporting"}
    /\ thread = "sending" => hand # None
    /\ thread = "reporting" => due # None

Init ==
    /\ hour = 0 /\ turned = FALSE /\ synced = FALSE /\ ca = FALSE
    /\ notifier = FALSE /\ thread = "none" /\ queue = <<>> /\ hand = None /\ due = None
    /\ lastSent = None /\ nextCheck = 0 /\ noticed = None /\ https = "free"
    /\ given = 0 /\ delivered = <<>> /\ trouble = FALSE
    /\ reports = [d \in Days |-> 0] /\ excused = {} /\ clean = FALSE

\* DailyReport::local_now: unknown until the first synchronisation.
LocalNow == IF synced THEN [day |-> Day(hour), hour |-> HourOf(hour)] ELSE None

-----------------------------------------------------------------------------
(* The UI loop.                                                            *)

\* Faulty variants: no day, or every day, counts as reported at the start.
DailyReportNewFresh == None
DailyReportNewTaken == IF LocalNow # None THEN Day(hour) ELSE None

\* DailyReport::new: a day whose hour has come counts as reported.
DailyReportNew == IF LocalNow # None /\ HourOf(hour) >= ReportHour THEN Day(hour) ELSE None

\* The first check of the firmware is due after three minutes.
StartNotifier ==
    /\ ~notifier
    /\ notifier' = TRUE /\ thread' = "receive"
    /\ lastSent' = DailyReportNew
    /\ nextCheck' = hour /\ noticed' = None
    /\ UNCHANGED <<clock, synced, ca, queue, hand, due, https, history>>

\* A notice of the UI loop: without a notifier it is lost.
Notify ==
    /\ given < MaxNotices
    /\ given' = given + 1
    /\ IF notifier
       THEN queue' = Append(queue, [kind |-> "ui", number |-> given']) /\ UNCHANGED trouble
       ELSE trouble' = TRUE /\ UNCHANGED queue
    /\ UNCHANGED <<clock, synced, ca, notifier, thread, hand, due, judgement, https, delivered,
                   reports, excused, clean>>

-----------------------------------------------------------------------------
(* The notifier thread, one round of its loop.                             *)

\* recv_timeout: a text, or a minute has passed.
Receive ==
    /\ thread = "receive" /\ thread' = "check"
    /\ \/ queue # <<>> /\ hand' = Head(queue) /\ queue' = Tail(queue)
       \/ queue = <<>> /\ UNCHANGED <<hand, queue>>
    /\ UNCHANGED <<clock, synced, ca, notifier, due, judgement, https, history>>

\* Faulty variant: what was told is not remembered.
ObserveAgain(offered) == offered # None /\ CompareVersions(Current, offered) = "Newer"

\* FirmwareNotice::observe: newer than what runs and than what was told.
Observe(offered) ==
    /\ offered # None
    /\ CompareVersions(Current, offered) = "Newer"
    /\ noticed # None => CompareVersions(noticed, offered) = "Newer"

\* FirmwareCheckSchedule::poll.
CheckDue == hour >= nextCheck

\* When a check is due, the manifest is fetched from the bridge; offered is
\* its version, or None.  The notice goes into the thread's own queue.
CheckFirmware(offered) ==
    /\ thread = "check" /\ thread' = "ca"
    /\ IF ~CheckDue THEN UNCHANGED <<queue, nextCheck, noticed>>
       ELSE /\ nextCheck' = hour + CheckEvery
            /\ IF Observe(offered)
               THEN /\ noticed' = offered
                    /\ queue' = Append(queue, [kind |-> "firmware", version |-> offered])
               ELSE UNCHANGED <<queue, noticed>>
    /\ UNCHANGED <<clock, synced, ca, notifier, hand, due, lastSent, https, history>>

\* ensure_root_ca: if it fails, the round ends and the text in hand is lost.
EnsureRootCa(installs) ==
    /\ thread = "ca"
    /\ ca' = (ca \/ installs)
    /\ IF ca' THEN thread' = "queued" /\ UNCHANGED <<hand, trouble, clean, turned>>
       ELSE /\ thread' = "receive" /\ hand' = None
            /\ trouble' = (trouble \/ hand # None) /\ clean' = FALSE /\ turned' = TRUE
    /\ UNCHANGED <<hour, synced, notifier, queue, due, judgement, https, given, delivered,
                   reports, excused>>

\* send_message takes the HTTPS lock; without a text there is nothing to do.
SendQueued ==
    /\ thread = "queued"
    /\ IF hand = None THEN thread' = "report" /\ UNCHANGED https
       ELSE https = "free" /\ https' = "notifier" /\ thread' = "sending"
    /\ UNCHANGED <<clock, synced, ca, notifier, queue, hand, due, judgement, history>>

\* Faulty variant: without an answer the lock is not given back.
QueuedSentKeepsLock(arrives, answered) ==
    /\ thread = "sending" /\ thread' = "report"
    /\ https' = (IF answered THEN "free" ELSE https) /\ hand' = None
    /\ answered => arrives
    /\ delivered' = IF arrives /\ hand.kind = "ui" THEN Append(delivered, hand.number) ELSE delivered
    /\ trouble' = (trouble \/ ~arrives)
    /\ UNCHANGED <<clock, synced, ca, notifier, queue, due, judgement, given, reports, excused,
                   clean>>

\* A text is sent once.  It may be lost, or only the answer may be.
QueuedSent(arrives, answered) ==
    /\ thread = "sending" /\ thread' = "report"
    /\ https' = "free" /\ hand' = None
    /\ delivered' = IF arrives /\ hand.kind = "ui" THEN Append(delivered, hand.number) ELSE delivered
    /\ trouble' = (trouble \/ ~arrives)
    /\ answered => arrives
    /\ UNCHANGED <<clock, synced, ca, notifier, queue, due, judgement, given, reports, excused,
                   clean>>

\* due_report: in the hour of the report, once a day.
DueReport ==
    IF ReportHour >= 0 /\ LocalNow # None /\ HourOf(hour) = ReportHour /\ lastSent # Day(hour)
    THEN Day(hour) ELSE None

LookAtReport ==
    /\ thread = "report" /\ due = None
    /\ due' = DueReport
    /\ IF due' = None THEN thread' = "receive" /\ turned' = TRUE
       ELSE UNCHANGED <<thread, turned>>
    /\ UNCHANGED <<hour, synced, ca, notifier, queue, hand, judgement, https, history>>

SendReport ==
    /\ thread = "report" /\ due # None /\ https = "free"
    /\ https' = "notifier" /\ thread' = "reporting"
    /\ UNCHANGED <<clock, synced, ca, notifier, queue, hand, due, judgement, history>>

\* Only an answered report is marked as sent; another is tried again.
ReportSent(arrives, answered) ==
    /\ thread = "reporting" /\ thread' = "receive"
    /\ https' = "free" /\ due' = None /\ turned' = TRUE
    /\ answered => arrives
    /\ lastSent' = IF answered THEN due ELSE lastSent
    /\ reports' = IF arrives /\ reports[due] < 2 THEN [reports EXCEPT ![due] = @ + 1] ELSE reports
    /\ excused' = IF arrives /\ ~answered THEN excused \cup {due} ELSE excused
    /\ clean' = (clean /\ arrives)
    /\ UNCHANGED <<hour, synced, ca, notifier, queue, hand, nextCheck, noticed, given, delivered,
                   trouble>>

-----------------------------------------------------------------------------
(* The polling thread, as far as the HTTPS lock is concerned: getUpdates   *)
(* and each message it sends take the lock and give it back.               *)

PollLocks ==
    /\ https = "free" /\ https' = "poll"
    /\ UNCHANGED <<clock, synced, ca, notifier, thread, queue, hand, due, judgement, history>>

\* Faulty variant: the polling thread waits for a lock it holds.
PollUnlocksNever == https = "poll" /\ UNCHANGED vars

PollUnlocks ==
    /\ https = "poll" /\ https' = "free"
    /\ UNCHANGED <<clock, synced, ca, notifier, thread, queue, hand, due, judgement, history>>

-----------------------------------------------------------------------------
(* The clock and restarts.                                                 *)

NtpSync ==
    /\ ~synced /\ synced' = TRUE
    /\ UNCHANGED <<clock, ca, notifier, thread, queue, hand, due, judgement, https, history>>

\* An hour is long: the thread has been round in it.
Tick ==
    /\ hour < MaxHours /\ hour' = hour + 1
    /\ thread = "none" \/ turned
    /\ turned' = FALSE
    /\ clean' = (thread # "none" /\ synced)
    /\ UNCHANGED <<synced, ca, notifier, thread, queue, hand, due, judgement, https, given,
                   delivered, trouble, reports, excused>>

\* A restart from within (update, panic) keeps the clock, a power cut does not.
Restart(cold) ==
    /\ synced' = (synced /\ ~cold)
    /\ ca' = FALSE /\ notifier' = FALSE /\ thread' = "none"
    /\ queue' = <<>> /\ hand' = None /\ due' = None /\ https' = "free"
    /\ lastSent' = None /\ nextCheck' = 0 /\ noticed' = None
    /\ trouble' = TRUE /\ clean' = FALSE
    /\ excused' = IF cold THEN excused \cup {Day(hour)} ELSE excused
    /\ UNCHANGED <<clock, given, delivered, reports>>

UiLoop == StartNotifier \/ Notify
NotifierThread == \/ Receive
                  \/ \E offered \in Version \cup {None} : CheckFirmware(offered)
                  \/ \E installs \in BOOLEAN : EnsureRootCa(installs)
                  \/ SendQueued
                  \/ \E arrives, answered \in BOOLEAN : QueuedSent(arrives, answered)
                  \/ LookAtReport
                  \/ SendReport
                  \/ \E arrives, answered \in BOOLEAN : ReportSent(arrives, answered)
Environment == NtpSync \/ Tick \/ \E cold \in BOOLEAN : Restart(cold)
Next == UiLoop \/ NotifierThread \/ PollLocks \/ PollUnlocks \/ Environment

\* Every request times out.  The polling thread sleeps outside the lock
\* between two polls, so the lock is there again and again.
Fairness ==
    /\ SF_vars(NotifierThread)
    /\ WF_vars(PollUnlocks)

Spec == Init /\ [][Next]_vars
FairSpec == Spec /\ Fairness

-----------------------------------------------------------------------------
(* Properties.                                                             *)

\* A day's report reaches the chat once, over restarts too.  A second one has
\* one of two causes: the answer to the first was lost, or the power was cut
\* on that day and the device did not know the time (DailyReport).
ReportedOnce == \A d \in Days : reports[d] > 1 => d \in excused

\* If the device knew the time and ran since the hour of the report began, and
\* no send failed in it, the report has been sent when the hour ends
\* (DailyReport::new: a restart before the hour does not skip the day).
DayNotForgotten ==
    [][hour' # hour /\ HourOf(hour) = ReportHour /\ clean => reports[Day(hour)] > 0]_vars

\* Notices arrive in the order they were given, none twice; as long as nothing
\* has failed none is missing.  A firmware is told once, each newer than the
\* last (HttpsLock: late is allowed, silently gone is not, #127).
InFlight == (IF hand = None THEN <<>> ELSE <<hand>>) \o queue
ToldBefore(a, b) ==
    /\ a.kind = "ui" /\ b.kind = "ui" => a.number < b.number
    /\ a.kind = "firmware" /\ b.kind = "firmware" => CompareVersions(a.version, b.version) = "Newer"
NoticesKept ==
    /\ \A i, j \in DOMAIN delivered : i < j => delivered[i] < delivered[j]
    /\ \A i, j \in DOMAIN InFlight : i < j => ToldBefore(InFlight[i], InFlight[j])
    /\ \A i \in DOMAIN delivered, j \in DOMAIN InFlight :
         InFlight[j].kind = "ui" => delivered[i] < InFlight[j].number
    /\ ~trouble => \A n \in 1..given :
         \/ \E i \in DOMAIN delivered : delivered[i] = n
         \/ \E j \in DOMAIN InFlight : InFlight[j].kind = "ui" /\ InFlight[j].number = n

\* The thread has something to wait for only where it wants to send, and then
\* it waits for the polling thread, which gives the lock back: never for itself
\* (lock_https is held for one request and never taken twice).
Waits ==
    /\ https = "poll"
    /\ \/ thread = "queued" /\ hand # None
       \/ thread = "report" /\ due # None
ThreadGoesOn ==
    /\ thread # "none" /\ ~Waits => ENABLED <<NotifierThread>>_vars
    /\ https = "poll" => ENABLED <<PollUnlocks>>_vars

\* A notice does not stay in the queue, however often the polling thread holds
\* the HTTPS lock (lock_https is never held by a thread that waits for it).
NoticeLeaves == queue # <<>> ~> queue = <<>>
=============================================================================
