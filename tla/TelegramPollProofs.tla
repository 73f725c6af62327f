------------------------- MODULE TelegramPollProofs -------------------------
(***************************************************************************)
(* Proofs about TelegramPoll, for any number of updates: its type, and     *)
(* that updates are handled in order and at most once, that none is missed *)
(* and that none of the backlog is handled.  Then about ChatAlerts: it     *)
(* adds nothing to the polling, and its alerts account for every access.   *)
(***************************************************************************)
EXTENDS ChatAlerts, TLAPS, SequenceTheorems

-----------------------------------------------------------------------------
(* The inductive invariant.                                                *)

\* What was handled is behind the cursor, or belongs to an earlier start.
HandledIsBehind ==
    \A i \in 1..Len(handled) : handled[i] < offset \/ handled[i] <= old

\* A cursor in sync has seen the end of the backlog.
SyncedPastBacklog == synced => old <= confirmed

\* An answer under way: the first update that Telegram has not dropped, or
\* nothing, and then there is none behind the backlog.
AnswerIsNext ==
    thread = "asked" =>
        /\ answer \in 0..sent
        /\ offset <= confirmed + 1
        /\ answer # Empty => answer = confirmed + 1
        /\ ~synced /\ answer # Empty => answer <= old
        /\ answer = Empty => old <= confirmed

IInv ==
    /\ TypeOK
    /\ HandledIsBehind /\ SyncedPastBacklog /\ AnswerIsNext
    /\ InOrder /\ NothingMissed

(* The inductive invariant holds at the start. *)
LEMMA InitIInv == Init => IInv
  <1> SUFFICES ASSUME Init PROVE IInv
    OBVIOUS
  <1>1. handled \in Seq(1..sent) /\ Len(handled) = 0
    BY EmptySeq DEF Init
  <1>2. TypeOK
    <2>1. sent \in Nat /\ confirmed \in 0..sent /\ offset \in 0..(sent + 1) /\ old \in 0..sent
      BY DEF Init
    <2>2. wifi \in BOOLEAN /\ started = FALSE /\ synced = FALSE /\ thread = "none" /\ answer = None
      BY DEF Init
    <2> QED
      BY <1>1, <2>1, <2>2 DEF TypeOK
  <1>3. SyncedPastBacklog /\ AnswerIsNext
    BY DEF Init, SyncedPastBacklog, AnswerIsNext
  <1>4. HandledIsBehind /\ InOrder /\ NothingMissed
    BY <1>1 DEF Init, HandledIsBehind, InOrder, NothingMissed
  <1> QED
    BY <1>2, <1>3, <1>4 DEF IInv

(* The steps that move neither the queue, nor the cursor, nor the history. *)
LEMMA OtherSteps ==
    ASSUME IInv, UNCHANGED <<telegram, cursor, history>>,
           answer' \in {answer, None},
           thread' = "asked" => thread = "asked" /\ answer' = answer,
           wifi' \in BOOLEAN, started' \in BOOLEAN,
           thread' \in {"none", "start", "poll", "asked", "handle", "backoff", "ended"}
    PROVE  IInv'
  BY DEF IInv, TypeOK, HandledIsBehind, SyncedPastBacklog, AnswerIsNext,
     InOrder, NothingMissed, Passed, telegram, cursor, history

(* A getUpdates that reaches Telegram. *)
LEMMA GetUpdatesStep == ASSUME IInv, GetUpdates PROVE IInv'
  <1> USE DEF telegram, cursor, history, Empty
  <1>1. TypeOK'
    BY DEF IInv, TypeOK, GetUpdates
  <1>2. confirmed' \in 0..sent /\ confirmed <= confirmed' /\ offset <= confirmed' + 1
    BY DEF IInv, TypeOK, GetUpdates
  <1>3. old <= old' /\ (synced => old' = old) /\ (~synced => old' = sent)
    BY DEF IInv, TypeOK, GetUpdates
  <1>4. HandledIsBehind'
    BY <1>3 DEF IInv, TypeOK, GetUpdates, HandledIsBehind
  <1>5. SyncedPastBacklog'
    BY <1>2, <1>3 DEF IInv, TypeOK, GetUpdates, SyncedPastBacklog
  <1>6. AnswerIsNext'
    BY <1>1, <1>2, <1>3, <1>5 DEF IInv, TypeOK, GetUpdates, AnswerIsNext, SyncedPastBacklog
  <1>7. InOrder'
    BY DEF IInv, GetUpdates, InOrder
  <1>8. NothingMissed'
    <2> SUFFICES ASSUME NEW u \in 1..sent, Passed(u)', ~(u <= old')
                 PROVE  \E i \in 1..Len(handled) : handled[i] = u
      BY DEF GetUpdates, NothingMissed
    <2>1. Passed(u)
      BY DEF Passed, IInv, TypeOK, GetUpdates
    <2> QED
      BY <2>1, <1>3 DEF IInv, TypeOK, NothingMissed
  <1> QED
    BY <1>1, <1>4, <1>5, <1>6, <1>7, <1>8 DEF IInv

(* The cursor moves, and the handler runs if the cursor is in sync. *)
LEMMA ProcessUpdatesStep == ASSUME IInv, ProcessUpdates PROVE IInv'
  <1> USE DEF telegram, cursor, history, Empty
  <1>1. /\ answer \in 0..sent /\ offset <= confirmed + 1
        /\ answer # 0 => answer = confirmed + 1
        /\ ~synced /\ answer # 0 => answer <= old
        /\ answer = 0 => old <= confirmed
    BY DEF IInv, ProcessUpdates, AnswerIsNext
  <1>2. /\ offset' \in 0..(sent + 1) /\ offset <= offset'
        /\ answer # 0 => offset' = answer + 1
        /\ answer = 0 => offset' = offset
    BY <1>1 DEF IInv, TypeOK, ProcessUpdates, NextOffset
  <1>3. UNCHANGED <<sent, confirmed, old>> /\ answer' = None
    BY DEF ProcessUpdates
  <1>4. /\ SyncedPastBacklog'
        /\ AnswerIsNext'
    BY <1>1, <1>3 DEF IInv, TypeOK, ProcessUpdates, SyncedBy, SyncedPastBacklog, AnswerIsNext
  <1>5. CASE ~Dispatches(answer)
    <2>1. handled' = handled
      BY <1>5 DEF ProcessUpdates
    <2>2. TypeOK'
      BY <1>1, <1>2, <1>3, <1>5, <2>1 DEF IInv, TypeOK, ProcessUpdates, SyncedBy
    <2>3. HandledIsBehind' /\ InOrder'
      BY <1>2, <1>3, <2>1 DEF IInv, TypeOK, HandledIsBehind, InOrder
    <2>4. NothingMissed'
      <3> SUFFICES ASSUME NEW u \in 1..sent, Passed(u)', ~(u <= old)
                   PROVE  \E i \in 1..Len(handled) : handled[i] = u
        BY <1>3, <2>1 DEF NothingMissed
      <3>1. Passed(u)
        BY <1>1, <1>2, <1>3, <1>5 DEF Passed, IInv, TypeOK, Dispatches
      <3> QED
        BY <3>1 DEF IInv, NothingMissed
    <2> QED
      BY <1>4, <2>2, <2>3, <2>4 DEF IInv
  <1>6. CASE Dispatches(answer)
    <2>1. /\ handled' = Append(handled, answer) /\ synced
          /\ answer \in 1..sent /\ answer = confirmed + 1
          /\ thread' = "handle"
      BY <1>1, <1>6 DEF ProcessUpdates, Dispatches, IInv, TypeOK
    <2>2. handled \in Seq(1..sent) /\ Len(handled) \in Nat
      BY DEF IInv, TypeOK
    <2>3. /\ Len(handled') = Len(handled) + 1
          /\ handled'[Len(handled) + 1] = answer
          /\ \A i \in 1..Len(handled) : handled'[i] = handled[i]
      BY <2>1, <2>2
    <2>4. \A i \in 1..Len(handled) : handled[i] \in 1..sent /\ handled[i] < answer
      BY <1>1, <2>1, <2>2 DEF IInv, TypeOK, HandledIsBehind, SyncedPastBacklog
    <2>5. TypeOK'
      <3>1. handled' \in Seq(1..sent)
        BY <2>1, <2>2
      <3> QED
        BY <1>2, <1>3, <2>1, <3>1 DEF IInv, TypeOK, ProcessUpdates, SyncedBy
    <2>6. HandledIsBehind'
      BY <1>2, <1>3, <2>1, <2>2, <2>3, <2>4 DEF IInv, TypeOK, HandledIsBehind
    <2>7. InOrder'
      BY <2>1, <2>2, <2>3, <2>4 DEF IInv, InOrder
    <2>8. NothingMissed'
      <3> SUFFICES ASSUME NEW u \in 1..sent, Passed(u)', ~(u <= old)
                   PROVE  \E i \in 1..Len(handled') : handled'[i] = u
        BY <1>3 DEF NothingMissed
      <3>1. CASE u = answer
        BY <2>2, <2>3, <3>1
      <3>2. CASE u # answer
        <4>1. Passed(u)
          BY <1>1, <1>2, <1>3, <2>1, <3>2 DEF Passed, IInv, TypeOK
        <4>2. PICK i \in 1..Len(handled) : handled[i] = u
          BY <4>1 DEF IInv, NothingMissed
        <4> QED
          BY <2>2, <2>3, <4>2
      <3> QED
        BY <3>1, <3>2
    <2> QED
      BY <1>4, <2>5, <2>6, <2>7, <2>8 DEF IInv
  <1> QED
    BY <1>5, <1>6

(* A new update, which Telegram has not dropped. *)
LEMMA SendStep == ASSUME IInv, Send PROVE IInv'
  <1> USE DEF telegram, cursor, history, Empty
  <1>1. sent \in Nat /\ sent' = sent + 1 /\ UNCHANGED <<confirmed, thread, cursor, answer, history>>
    BY DEF Send, IInv, TypeOK
  <1>2. handled \in Seq(1..sent')
    <2>1. 1..sent \subseteq 1..sent'
      BY <1>1
    <2> QED
      BY <1>1, <2>1, SeqMonotonic DEF IInv, TypeOK
  <1>3. TypeOK'
    BY <1>1, <1>2 DEF Send, IInv, TypeOK
  <1>4. HandledIsBehind' /\ SyncedPastBacklog' /\ InOrder'
    BY <1>1 DEF IInv, HandledIsBehind, SyncedPastBacklog, InOrder
  <1>5. AnswerIsNext'
    BY <1>1 DEF IInv, TypeOK, AnswerIsNext
  <1>6. NothingMissed'
    <2> SUFFICES ASSUME NEW u \in 1..sent', Passed(u)'
                 PROVE  u <= old \/ \E i \in 1..Len(handled) : handled[i] = u
      BY <1>1 DEF NothingMissed
    <2>1. Passed(u)
      BY <1>1 DEF Passed
    <2>2. CASE u \in 1..sent
      BY <2>1, <2>2 DEF IInv, NothingMissed
    <2>3. CASE u = sent + 1
      \* The cursor is behind it: nothing has been passed that was not sent.
      BY <2>1, <2>3 DEF Passed, IInv, TypeOK
    <2> QED
      BY <1>1, <2>2, <2>3
  <1> QED
    BY <1>3, <1>4, <1>5, <1>6 DEF IInv

(* After a restart everything that was sent is backlog. *)
LEMMA RestartStep == ASSUME IInv, Restart PROVE IInv'
  <1> USE DEF telegram, cursor, history, Empty
  <1>1. \A i \in 1..Len(handled) : handled[i] \in 1..sent
    BY DEF IInv, TypeOK
  <1>2. TypeOK'
    <2>1. UNCHANGED <<sent, confirmed, handled>>
      BY DEF Restart
    <2>2. handled' \in Seq(1..sent') /\ old' \in 0..sent' /\ offset' \in 0..(sent' + 1)
      BY <2>1 DEF Restart, IInv, TypeOK
    <2> QED
      BY <2>1, <2>2 DEF Restart, IInv, TypeOK
  <1>3. HandledIsBehind'
    BY <1>1 DEF Restart, IInv, TypeOK, HandledIsBehind
  <1>4. SyncedPastBacklog' /\ AnswerIsNext' /\ InOrder' /\ NothingMissed'
    BY DEF Restart, IInv, TypeOK, SyncedPastBacklog, AnswerIsNext, InOrder, NothingMissed
  <1> QED
    BY <1>2, <1>3, <1>4 DEF IInv

(* Every step preserves the inductive invariant. *)
LEMMA NextIInv == IInv /\ [Next]_vars => IInv'
  <1> SUFFICES ASSUME IInv, [Next]_vars PROVE IInv'
    OBVIOUS
  <1>1. CASE GetUpdates
    BY <1>1, GetUpdatesStep
  <1>2. CASE ProcessUpdates
    BY <1>2, ProcessUpdatesStep
  <1>3. CASE Send
    BY <1>3, SendStep
  <1>4. CASE Restart
    BY <1>4, RestartStep
  <1>5. TypeOK
    BY DEF IInv
  <1>6. CASE HandlerReturns \/ PollFails \/ BackoffEnds
    BY <1>5, <1>6, OtherSteps DEF HandlerReturns, PollFails, BackoffEnds, TypeOK, telegram
  <1>7. CASE \E installed \in BOOLEAN : EnsureRootCa(installed)
    BY <1>5, <1>7, OtherSteps DEF EnsureRootCa, TypeOK, telegram
  <1>8. CASE WifiChanges \/ \E spawned \in BOOLEAN : StartTelegram(spawned)
    BY <1>5, <1>8, OtherSteps DEF WifiChanges, StartTelegram, AsksForTelegram, TypeOK, telegram
  <1>9. CASE UNCHANGED vars
    BY <1>5, <1>9, OtherSteps DEF vars, TypeOK, telegram
  <1> QED
    BY <1>1, <1>2, <1>3, <1>4, <1>6, <1>7, <1>8, <1>9 DEF Next, Work

(* The inductive invariant holds throughout. *)
LEMMA Inductive == Spec => []IInv
  BY InitIInv, NextIInv, PTL DEF Spec

-----------------------------------------------------------------------------
(* Results.                                                                *)

(* The type invariant: neither Telegram nor the cursor ever passes what    *)
(* has been sent.                                                          *)
THEOREM TypeCorrect == Spec => []TypeOK
  <1>1. IInv => TypeOK
    BY DEF IInv
  <1> QED
    BY <1>1, Inductive, PTL

(* Updates are handled in order and at most once (process_updates), over   *)
(* lost answers and restarts.                                              *)
THEOREM HandledInOrder == Spec => []InOrder
  <1>1. IInv => InOrder
    BY DEF IInv
  <1> QED
    BY <1>1, Inductive, PTL

(* No update is passed that was neither handled nor backlog                *)
(* (UpdateCursor::advance).                                                *)
THEOREM NoneMissed == Spec => []NothingMissed
  <1>1. IInv => NothingMissed
    BY DEF IInv
  <1> QED
    BY <1>1, Inductive, PTL

(* No update of the backlog is handled (UpdateCursor.synced).              *)
THEOREM NoBacklog == Spec => BacklogSkipped
  <1> DEFINE Skips == \A u \in 1..sent : handled' = Append(handled, u) => u > old
  <1>1. IInv /\ [Next]_vars => [Skips]_vars
    <2> SUFFICES ASSUME IInv, Next, NEW u \in 1..sent, handled' = Append(handled, u)
                 PROVE  u > old
      BY DEF vars
    <2>1. handled \in Seq(1..sent) /\ Len(handled') = Len(handled) + 1 /\ handled' # handled
      BY DEF IInv, TypeOK
    <2>2. ProcessUpdates
      BY <2>1 DEF Next, Work, GetUpdates, HandlerReturns, PollFails, BackoffEnds,
         EnsureRootCa, WifiChanges, Send, Restart, StartTelegram, history
    <2>3. synced /\ answer # Empty /\ handled' = Append(handled, answer)
      BY <2>1, <2>2 DEF ProcessUpdates, Dispatches
    <2>4. answer = confirmed + 1 /\ old <= confirmed /\ answer \in 1..sent
      BY <2>2, <2>3 DEF IInv, ProcessUpdates, AnswerIsNext, SyncedPastBacklog, Empty
    <2>5. handled'[Len(handled) + 1] = u
      BY <2>1, AppendProperties
    <2>6. handled'[Len(handled) + 1] = answer
      BY <2>1, <2>3, <2>4, AppendProperties
    <2> QED
      BY <2>4, <2>5, <2>6 DEF IInv, TypeOK
  <1> QED
    BY <1>1, Inductive, PTL DEF Spec, BacklogSkipped

-----------------------------------------------------------------------------
(* The alerts.                                                             *)

(* The polling thread with its alerts is the polling thread: what is       *)
(* proved of Spec holds with the throttle beside it.                       *)
THEOREM AlertsAside == AlertSpec => Spec
  <1>1. AlertInit => Init
    BY DEF AlertInit
  <1>2. [AlertNext]_alertVars => [Next]_vars
    <2> SUFFICES ASSUME [AlertNext]_alertVars PROVE [Next]_vars
      OBVIOUS
    <2>1. CASE AlertWork
      BY <2>1 DEF AlertWork, HandleUpdates, Next, Work
    <2>2. CASE TimePasses
      BY <2>2 DEF TimePasses
    <2>3. CASE AlertRestart
      BY <2>3 DEF AlertRestart, Next
    <2>4. CASE (WifiChanges \/ Send) /\ UNCHANGED throttle
      BY <2>4 DEF Next
    <2>5. CASE \E spawned \in BOOLEAN : StartTelegram(spawned) /\ UNCHANGED throttle
      BY <2>5 DEF Next
    <2>6. CASE UNCHANGED alertVars
      BY <2>6 DEF alertVars
    <2> QED
      BY <2>1, <2>2, <2>3, <2>4, <2>5, <2>6 DEF AlertNext
  <1> QED
    BY <1>1, <1>2, PTL DEF AlertSpec, Spec

(* The inductive invariant: between two alerts the clock has come Interval *)
(* further, and the last one was not in the future.                        *)
AlertInv ==
    /\ failures \in Nat /\ strange \in Nat /\ told \in Nat /\ alerts \in Nat /\ time \in Nat
    /\ lastFired = None <=> alerts = 0
    /\ lastFired # None =>
         lastFired \in Nat /\ lastFired <= time /\ (alerts - 1) * Interval <= lastFired
    /\ told + failures = strange
    /\ told >= alerts * Threshold

(* AlertThrottle::record keeps it: an alert speaks of all that was counted *)
(* since the one before.                                                   *)
LEMMA RecordSafe == ASSUME AlertInv, Record PROVE AlertInv'
  <1> USE AlertAssumption, MaxAssumption DEF Counted
  <1>1. CASE Counted < Threshold \/ Quiet
    BY <1>1 DEF AlertInv, Record
  <1>2. CASE ~(Counted < Threshold \/ Quiet)
    <2>1. /\ told' = told + failures + 1 /\ failures' = 0 /\ lastFired' = time
          /\ alerts' = alerts + 1 /\ strange' = strange + 1 /\ time' = time
      BY <1>2 DEF AlertInv, Record
    <2>2. told' >= alerts' * Threshold
      <3>1. (alerts + 1) * Threshold = alerts * Threshold + Threshold
        BY DEF AlertInv
      <3>2. alerts * Threshold \in Nat /\ failures + 1 >= Threshold
        BY <1>2 DEF AlertInv
      <3> QED
        BY <2>1, <3>1, <3>2 DEF AlertInv
    <2>3. (alerts' - 1) * Interval <= lastFired'
      <3>1. CASE alerts = 0
        BY <2>1, <3>1 DEF AlertInv
      <3>2. CASE alerts # 0
        <4>1. time - lastFired >= Interval /\ (alerts - 1) * Interval <= lastFired
          BY <1>2, <3>2 DEF AlertInv, Quiet
        <4>2. alerts * Interval = (alerts - 1) * Interval + Interval
          BY DEF AlertInv
        <4>3. (alerts - 1) * Interval \in Int /\ lastFired \in Nat
          BY <3>2 DEF AlertInv
        <4> QED
          BY <2>1, <4>1, <4>2, <4>3 DEF AlertInv
      <3> QED
        BY <3>1, <3>2
    <2> QED
      BY <2>1, <2>2, <2>3 DEF AlertInv
  <1> QED
    BY <1>1, <1>2

(* Alerts speak of every access once, of a threshold of them at least and  *)
(* once in each interval at most (AlertThrottle::record), for any          *)
(* threshold and interval.                                                 *)
THEOREM AccountedFor == AlertSpec => []AlertsAccountFor
  <1> USE AlertAssumption, MaxAssumption
  <1>1. AlertInit => AlertInv
    BY DEF AlertInit, AlertInv
  <1>2. AlertInv /\ [AlertNext]_alertVars => AlertInv'
    <2> SUFFICES ASSUME AlertInv, [AlertNext]_alertVars PROVE AlertInv'
      OBVIOUS
    <2>1. CASE UNCHANGED throttle
      BY <2>1 DEF throttle, AlertInv
    <2>2. CASE Record
      BY <2>2, RecordSafe
    <2>3. CASE TimePasses
      BY <2>3 DEF TimePasses, AlertInv
    <2>4. CASE AlertRestart
      BY <2>4 DEF AlertRestart, AlertInv
    <2> QED
      BY <2>1, <2>2, <2>3, <2>4 DEF AlertNext, AlertWork, HandleUpdates, alertVars
  <1>3. AlertInv => AlertsAccountFor
    BY DEF AlertInv, AlertsAccountFor
  <1> QED
    BY <1>1, <1>2, <1>3, PTL DEF AlertSpec

-----------------------------------------------------------------------------
(* Every update is handled.                                                *)

\* Where the thread stands, whether an update is on its way to it, and how far
\* an update has come.
At(t) == thread = t
Filled == answer # Empty
InSync == synced
Sent(u) == u <= sent
Behind(u) == u <= confirmed \/ u < offset
Done(u) == u <= old \/ \E i \in 1..Len(handled) : handled[i] = u
Calm == wifi /\ thread # "ended"

\* What counts as started does run.
StartedRuns == thread = "none" <=> ~started

LEMMA StartedSafe == Spec => []StartedRuns
<1>1. Init => StartedRuns
  BY DEF Init, StartedRuns
<1>2. StartedRuns /\ [Next]_vars => StartedRuns'
  BY DEF StartedRuns, Next, Work, GetUpdates, ProcessUpdates, HandlerReturns, PollFails, BackoffEnds,
     EnsureRootCa, WifiChanges, Send, Restart, StartTelegram, AsksForTelegram, vars
<1> QED
  BY <1>1, <1>2, PTL DEF Spec

LEMMA SentBounded == Spec => [](sent <= MaxUpdates)
<1>1. Init => sent <= MaxUpdates
  BY MaxAssumption DEF Init
<1>2. TypeOK /\ sent <= MaxUpdates /\ [Next]_vars => (sent <= MaxUpdates)'
  BY MaxAssumption
  DEF TypeOK, Next, Work, GetUpdates, ProcessUpdates, HandlerReturns, PollFails, BackoffEnds,
      EnsureRootCa, WifiChanges, Send, Restart, StartTelegram, vars, telegram
<1> QED
  BY <1>1, <1>2, TypeCorrect, PTL DEF Spec

\* One step of the polling thread once nothing fails any more.
LEMMA PollSteps ==
    ASSUME IInv, StartedRuns, [Next]_vars, (~PollFails /\ ~Restart) \/ UNCHANGED vars, Calm, Calm',
           NEW n \in Nat
    PROVE  /\ At("none") => At("none")' \/ At("start")'
           /\ At("start") => At("start")' \/ At("poll")'
           /\ At("poll") => At("poll")' \/ At("asked")'
           /\ At("asked") => At("asked")' \/ At("poll")' \/ At("handle")'
           /\ At("handle") => At("handle")' \/ At("poll")'
           /\ At("backoff") => At("backoff")' \/ At("poll")'
           /\ InSync => InSync'
           /\ Behind(n) => Behind(n)'
           /\ Sent(n) => Sent(n)'
<1> USE DEF At, Calm, InSync, Behind, Sent
<1>1. TypeOK
  BY DEF IInv
<1>2. CASE GetUpdates
  <2>1. /\ confirmed' = (IF offset > confirmed THEN offset - 1 ELSE confirmed)
        /\ offset' = offset /\ sent' = sent
    BY <1>2 DEF GetUpdates, cursor
  <2>2. Behind(n) => Behind(n)'
    BY <1>1, <2>1 DEF TypeOK
  <2> QED
    BY <1>2, <2>1, <2>2 DEF GetUpdates, cursor
<1>3. CASE ProcessUpdates
  <2>1. answer \in 0..sent /\ confirmed' = confirmed /\ sent' = sent
    BY <1>3 DEF ProcessUpdates, telegram, IInv, AnswerIsNext
  <2>2. Behind(n) => Behind(n)'
    BY <1>1, <1>3, <2>1 DEF TypeOK, ProcessUpdates, NextOffset
  <2> QED
    BY <1>3, <2>1, <2>2 DEF ProcessUpdates, SyncedBy
<1>4. CASE HandlerReturns \/ BackoffEnds \/ \E installed \in BOOLEAN : EnsureRootCa(installed)
  BY <1>4 DEF HandlerReturns, BackoffEnds, EnsureRootCa, cursor, telegram
<1>5. CASE \E spawned \in BOOLEAN : StartTelegram(spawned)
  <2>1. thread = "none" /\ thread' \in {"none", "start"} /\ UNCHANGED <<telegram, cursor>>
    BY <1>5 DEF StartTelegram, AsksForTelegram, StartedRuns
  <2> QED
    BY <2>1 DEF telegram, cursor
<1>6. ~WifiChanges
  BY <1>1 DEF WifiChanges, TypeOK
<1>7. CASE Send
  BY <1>1, <1>7 DEF Send, cursor, TypeOK
<1>8. CASE UNCHANGED vars
  BY <1>8 DEF vars, cursor, telegram
<1> QED
  BY <1>2, <1>3, <1>4, <1>5, <1>6, <1>7, <1>8 DEF Next, Work

\* With the alerts or without, a step of the thread is one.
LEMMA WorkCases ==
    ASSUME AlertWork
    PROVE  Work
  BY DEF AlertWork, HandleUpdates, Work

\* Its own step takes it on.
LEMMA PollProgress ==
    ASSUME Work, ~PollFails, Calm, Calm'
    PROVE  /\ ~At("none") /\ ~At("ended")
           /\ At("start") => At("poll")'
           /\ At("poll") => At("asked")'
           /\ At("asked") => At("poll")' \/ At("handle")'
           /\ At("handle") => At("poll")'
           /\ At("backoff") => At("poll")'
  BY DEF Work, GetUpdates, ProcessUpdates, HandlerReturns, BackoffEnds, EnsureRootCa, At, Calm

\* What a round does to the updates: a request made when update n + 1 is there
\* brings an update, and with what it brings the cursor passes n + 1.
LEMMA RoundPasses ==
    ASSUME IInv, StartedRuns, [Next]_vars, (~PollFails /\ ~Restart) \/ UNCHANGED vars, Calm, Calm',
           NEW n \in Nat, Behind(n)
    PROVE  /\ At("poll") /\ At("asked")' /\ Sent(n + 1) => Filled' \/ Behind(n + 1)
           /\ At("asked") /\ At("asked")' => (Filled' <=> Filled)
           /\ At("asked") /\ ~At("asked")' /\ Filled => Behind(n + 1)'
           /\ At("asked") /\ ~At("asked")' /\ ~Filled => InSync'
<1>1. TypeOK
  BY DEF IInv
<1>2. CASE GetUpdates
  <2>1. /\ At("poll") /\ At("asked")' /\ offset' = offset /\ sent' = sent
        /\ confirmed' = (IF offset > confirmed THEN offset - 1 ELSE confirmed)
        /\ answer' = (IF confirmed' < sent THEN confirmed' + 1 ELSE Empty)
    BY <1>2 DEF GetUpdates, cursor, At
  <2>2. Sent(n + 1) /\ ~Behind(n + 1) => Filled'
    BY <1>1, <2>1 DEF TypeOK, Sent, Behind, Filled, Empty
  <2>3. ~At("asked")
    BY <2>1 DEF At
  <2> QED
    BY <2>1, <2>2, <2>3
<1>3. CASE ProcessUpdates
  <2>1. /\ At("asked") /\ ~At("asked")' /\ ~At("poll")
        /\ synced' = SyncedBy(answer) /\ confirmed' = confirmed
        /\ offset' = IF answer = Empty THEN offset ELSE NextOffset(answer)
    BY <1>3 DEF ProcessUpdates, At, telegram
  <2>2. answer \in 0..sent /\ offset <= confirmed + 1 /\ (Filled => answer = confirmed + 1)
    BY <2>1 DEF IInv, AnswerIsNext, At, Filled
  <2>3. Filled => Behind(n + 1)'
    BY <1>1, <2>1, <2>2 DEF TypeOK, Filled, Behind, NextOffset
  <2>4. ~Filled => InSync'
    BY <2>1 DEF Filled, SyncedBy, InSync
  <2> QED
    BY <2>1, <2>3, <2>4
<1>4. CASE HandlerReturns \/ BackoffEnds \/ \E installed \in BOOLEAN : EnsureRootCa(installed)
  BY <1>4 DEF HandlerReturns, BackoffEnds, EnsureRootCa, At
<1>5. CASE \E spawned \in BOOLEAN : StartTelegram(spawned)
  <2>1. thread = "none" /\ thread' \in {"none", "start"}
    BY <1>5 DEF StartTelegram, AsksForTelegram, StartedRuns
  <2> QED
    BY <2>1 DEF At
<1>6. CASE Send
  BY <1>6 DEF Send, At, Filled
<1>7. CASE UNCHANGED vars
  BY <1>7 DEF vars, At, Filled
<1>8. ~WifiChanges
  BY <1>1 DEF WifiChanges, TypeOK, Calm
<1> QED
  BY <1>2, <1>3, <1>4, <1>5, <1>6, <1>7, <1>8 DEF Next, Work

\* In the end nothing fails any more and nothing starts anew.
Regular == <>[]Calm /\ <>[][~PollFails /\ ~Restart]_vars

\* The hypothesis of the liveness theorems: that the guards of a step are all
\* that holds it back.  No step of this model waits for a lock (that of the
\* HTTPS sessions is in Notifier), so it says no more than what is ENABLED,
\* which the provers do not reason about.
PollingGoesOn ==
    /\ thread \notin {"none", "ended"} => ENABLED <<AlertWork>>_vars
    /\ AsksForTelegram => ENABLED <<StartTelegram(TRUE) /\ UNCHANGED throttle>>_vars

\* Then the polling thread asks Telegram again and again.
LEMMA AsksAgain == AlertSpec /\ []PollingGoesOn /\ Regular => []<>At("poll") /\ []<>At("asked")
<1>1. IInv /\ StartedRuns /\ [Next]_vars /\ [~PollFails /\ ~Restart]_vars /\ Calm /\ Calm'
      => /\ At("none") => At("none")' \/ At("start")'
         /\ At("start") => At("start")' \/ At("poll")'
         /\ At("poll") => At("poll")' \/ At("asked")'
         /\ At("asked") => At("asked")' \/ At("poll")' \/ At("handle")'
         /\ At("handle") => At("handle")' \/ At("poll")'
         /\ At("backoff") => At("backoff")' \/ At("poll")'
  BY PollSteps, 0 \in Nat
<1>2. <<AlertWork>>_vars /\ [~PollFails /\ ~Restart]_vars /\ Calm /\ Calm'
      => /\ At("start") => At("poll")'
         /\ At("poll") => At("asked")'
         /\ At("asked") => At("poll")' \/ At("handle")'
         /\ At("handle") => At("poll")'
         /\ At("backoff") => At("poll")'
  BY WorkCases, PollProgress
<1>3. <<StartTelegram(TRUE) /\ UNCHANGED throttle>>_vars => At("start")'
  BY DEF StartTelegram, At
<1>4. PollingGoesOn /\ StartedRuns /\ Calm
      => /\ ~At("none") => ENABLED <<AlertWork>>_vars
         /\ At("none") => ENABLED <<StartTelegram(TRUE) /\ UNCHANGED throttle>>_vars
  BY DEF PollingGoesOn, StartedRuns, Calm, At, AsksForTelegram
<1>5. IInv /\ Calm => \/ At("none") \/ At("start") \/ At("poll") \/ At("asked") \/ At("handle")
                      \/ At("backoff")
  BY DEF IInv, TypeOK, Calm, At
<1>6. /\ ~(At("none") /\ (At("start") \/ At("poll") \/ At("asked") \/ At("handle") \/ At("backoff")))
      /\ ~(At("poll") /\ (At("asked") \/ At("start") \/ At("handle") \/ At("backoff")))
      /\ ~(At("start") /\ (At("asked") \/ At("handle") \/ At("backoff")))
      /\ ~(At("handle") /\ (At("asked") \/ At("backoff"))) /\ ~(At("asked") /\ At("backoff"))
  BY DEF At
<1>7. AlertSpec /\ []PollingGoesOn /\ Regular => <>[]~At("none")
  BY <1>1, <1>3, <1>4, <1>5, <1>6, AlertsAside, Inductive, StartedSafe, PTL DEF AlertSpec, Spec, Regular
<1>8. AlertSpec /\ []PollingGoesOn /\ Regular => []<>At("poll")
  BY <1>1, <1>2, <1>4, <1>5, <1>6, <1>7, AlertsAside, Inductive, StartedSafe, PTL
  DEF AlertSpec, Spec, Regular
<1>9. AlertSpec /\ []PollingGoesOn /\ Regular => []<>At("asked")
  BY <1>1, <1>2, <1>4, <1>5, <1>6, <1>7, <1>8, AlertsAside, Inductive, StartedSafe, PTL
  DEF AlertSpec, Spec, Regular
<1> QED
  BY <1>8, <1>9

\* What is sent stays sent.
LEMMA SentStays ==
    ASSUME NEW n \in Nat PROVE TypeOK /\ [Next]_vars => (Sent(n) => Sent(n)')
  BY DEF TypeOK, Sent, Next, Work, GetUpdates, ProcessUpdates, HandlerReturns, PollFails, BackoffEnds,
     EnsureRootCa, WifiChanges, Send, Restart, StartTelegram, vars, telegram

\* Each round takes the cursor one update further, as long as there is one.
LEMMA ComesFurther ==
    ASSUME NEW n \in Nat
    PROVE  AlertSpec /\ []PollingGoesOn /\ Regular /\ <>[]Behind(n)
           => /\ <>Sent(n + 1) => <>[]Behind(n + 1)
              /\ <>[]InSync \/ <>[]Behind(n + 1)
<1>1. IInv /\ StartedRuns /\ [Next]_vars /\ [~PollFails /\ ~Restart]_vars /\ Calm /\ Calm'
      => /\ At("poll") => At("poll")' \/ At("asked")'
         /\ InSync => InSync'
         /\ Behind(n + 1) => Behind(n + 1)'
         /\ Sent(n + 1) => Sent(n + 1)'
  BY PollSteps, n + 1 \in Nat
<1>2. IInv /\ StartedRuns /\ [Next]_vars /\ [~PollFails /\ ~Restart]_vars /\ Calm /\ Calm' /\ Behind(n)
      => /\ At("poll") /\ At("asked")' /\ Sent(n + 1) => Filled' \/ Behind(n + 1)
         /\ At("asked") /\ At("asked")' => (Filled' <=> Filled)
         /\ At("asked") /\ ~At("asked")' /\ Filled => Behind(n + 1)'
         /\ At("asked") /\ ~At("asked")' /\ ~Filled => InSync'
  BY RoundPasses
<1>3. TypeOK /\ [Next]_vars => (Sent(n + 1) => Sent(n + 1)')
  BY SentStays, n + 1 \in Nat
<1>4. ~(At("poll") /\ At("asked"))
  BY DEF At
<1>5. AlertSpec /\ []PollingGoesOn /\ Regular => []<>At("poll") /\ []<>At("asked")
  BY AsksAgain
<1>6. AlertSpec /\ []PollingGoesOn /\ Regular /\ <>[]Behind(n) => (<>Sent(n + 1) => <>[]Behind(n + 1))
  BY <1>1, <1>2, <1>3, <1>4, <1>5, AlertsAside, Inductive, StartedSafe, TypeCorrect, PTL
  DEF Spec, Regular
<1>7. AlertSpec /\ []PollingGoesOn /\ Regular /\ <>[]Behind(n) => <>[]InSync \/ <>[]Behind(n + 1)
  BY <1>1, <1>2, <1>4, <1>5, AlertsAside, Inductive, StartedSafe, PTL DEF Spec, Regular
<1> QED
  BY <1>6, <1>7

\* The cursor is past update u for good; or there never is one.
Past(u) == <>[]Behind(u)
GetsTo(u) == <>Sent(u) => Past(u)

\* What comes after was sent after.
LEMMA SentInOrder ==
    ASSUME NEW n \in Nat
    PROVE  Spec => (<>Sent(n + 1) => <>Sent(n))
<1>1. TypeOK => (Sent(n + 1) => Sent(n))
  BY DEF TypeOK, Sent
<1> QED
  BY <1>1, TypeCorrect, PTL

(* In the end the next update is behind the cursor (process_updates,       *)
(* UpdateCursor::advance): if what was sent before update n + 1 gets       *)
(* there, n + 1 gets there once it is sent, for every n; and unless the    *)
(* backlog of the start has an end, each update of it is skipped in turn.  *)
THEOREM NextGetsThere ==
    ASSUME NEW n \in Nat
    PROVE  AlertSpec /\ []PollingGoesOn /\ Regular
           => /\ GetsTo(n) => GetsTo(n + 1)
              /\ Past(n) => <>[]synced \/ Past(n + 1)
<1>1. InSync <=> synced
  BY DEF InSync
<1>2. <>[]InSync <=> <>[]synced
  BY <1>1, PTL
<1>3. AlertSpec /\ []PollingGoesOn /\ Regular /\ <>[]Behind(n)
      => /\ <>Sent(n + 1) => <>[]Behind(n + 1)
         /\ <>[]InSync \/ <>[]Behind(n + 1)
  BY ComesFurther
<1>4. AlertSpec => (<>Sent(n + 1) => <>Sent(n))
  BY AlertsAside, SentInOrder
<1> QED
  BY <1>2, <1>3, <1>4 DEF GetsTo, Past

\* Temporal formulas admit no induction here.  What goes on by one update from
\* every n is taken on by ten of k updates instead, as often as it needs.
AllGetTo(n) == \A u \in Nat : u <= n => GetsTo(u)
Climbs(k) ==
    \A n \in Nat : /\ AllGetTo(n) => AllGetTo(n + k)
                   /\ Past(n) => <>[]synced \/ Past(n + k)

LEMMA ClimbsTenfold ==
    ASSUME NEW k \in Nat PROVE Climbs(k) => Climbs(10 * k)
<1> SUFFICES ASSUME NEW n \in Nat
             PROVE  Climbs(k) => /\ AllGetTo(n) => AllGetTo(n + 10 * k)
                                 /\ Past(n) => <>[]synced \/ Past(n + 10 * k)
  BY DEF Climbs
<1>1. /\ n + k \in Nat /\ n + 2 * k \in Nat /\ n + 3 * k \in Nat /\ n + 4 * k \in Nat
      /\ n + 5 * k \in Nat /\ n + 6 * k \in Nat /\ n + 7 * k \in Nat /\ n + 8 * k \in Nat
      /\ n + 9 * k \in Nat
      /\ (n + k) + k = n + 2 * k /\ (n + 2 * k) + k = n + 3 * k /\ (n + 3 * k) + k = n + 4 * k
      /\ (n + 4 * k) + k = n + 5 * k /\ (n + 5 * k) + k = n + 6 * k /\ (n + 6 * k) + k = n + 7 * k
      /\ (n + 7 * k) + k = n + 8 * k /\ (n + 8 * k) + k = n + 9 * k /\ (n + 9 * k) + k = n + 10 * k
  OBVIOUS
<1>2. Climbs(k) => (AllGetTo(n) => AllGetTo(n + 10 * k))
  BY <1>1 DEF Climbs
<1>3. Climbs(k) => (Past(n) => <>[]synced \/ Past(n + 10 * k))
  BY <1>1 DEF Climbs
<1> QED
  BY <1>2, <1>3

LEMMA ClimbsFar == Climbs(1) => Climbs(1000000)
<1>1. /\ 10 * 1 = 10 /\ 10 * 10 = 100 /\ 10 * 100 = 1000 /\ 10 * 1000 = 10000
      /\ 10 * 10000 = 100000 /\ 10 * 100000 = 1000000
  OBVIOUS
<1>2. \A k \in {1, 10, 100, 1000, 10000, 100000} : Climbs(k) => Climbs(10 * k)
  BY ClimbsTenfold
<1> QED
  BY <1>1, <1>2

\* An update that is sent and behind the cursor is done with.
HandledInTime(u) == u <= sent ~> u <= old \/ \E i \in 1..Len(handled) : handled[i] = u

LEMMA GetsToHandled ==
    ASSUME NEW u \in Nat \ {0} PROVE Spec /\ GetsTo(u) => HandledInTime(u)
<1>1. TypeOK /\ NothingMissed => (Sent(u) /\ Behind(u) => Done(u))
  BY DEF TypeOK, NothingMissed, Passed, Sent, Behind, Done
<1>2. TypeOK /\ [Next]_vars => (Sent(u) => Sent(u)')
  BY SentStays
<1>3. /\ u <= sent <=> Sent(u)
      /\ (u <= old \/ \E i \in 1..Len(handled) : handled[i] = u) <=> Done(u)
  BY DEF Sent, Done
<1>4. Spec /\ GetsTo(u) => (Sent(u) ~> Done(u))
  BY <1>1, <1>2, TypeCorrect, NoneMissed, PTL DEF Spec, GetsTo, Past
<1>5. (Sent(u) ~> Done(u)) => HandledInTime(u)
  BY <1>3, PTL DEF HandledInTime
<1> QED
  BY <1>4, <1>5

(* The backlog of a start has an end, and every update that is no backlog  *)
(* is handled (Client::run, process_updates), if in the end the network    *)
(* works, the root CA could be installed and the device does not restart.  *)
(* It is shown update by update with NextGetsThere; the steps reach any    *)
(* chat of fewer than a million updates.                                   *)
THEOREM ChatIsHandled ==
    ASSUME MaxUpdates < 1000000
    PROVE  AlertSpec /\ []PollingGoesOn => EventuallyHandled
<1> DEFINE Going == AlertSpec /\ []PollingGoesOn /\ Regular
<1>1. IInv => Behind(0)
  BY DEF IInv, TypeOK, Behind
<1>2. IInv /\ sent <= MaxUpdates => ~Behind(1000000)
  BY MaxAssumption DEF IInv, TypeOK, Behind
<1>3. AlertSpec => Past(0) /\ ~Past(1000000)
  BY <1>1, <1>2, AlertsAside, Inductive, SentBounded, PTL DEF Past
<1>4. ASSUME NEW n \in Nat
      PROVE  Going => /\ AllGetTo(n) => AllGetTo(n + 1)
                      /\ Past(n) => <>[]synced \/ Past(n + 1)
  <2>1. Going => /\ GetsTo(n) => GetsTo(n + 1)
                 /\ Past(n) => <>[]synced \/ Past(n + 1)
    BY NextGetsThere
  <2>2. \A u \in Nat : u <= n + 1 => u <= n \/ u = n + 1
    OBVIOUS
  <2> HIDE DEF Going
  <2> QED
    BY <2>1, <2>2 DEF AllGetTo
<1>5. Going => AlertSpec
  OBVIOUS
<1> HIDE DEF Going
<1>6. Going => Climbs(1000000)
  BY <1>4, ClimbsFar DEF Climbs
<1>7. Climbs(1000000) => /\ AllGetTo(0) => AllGetTo(1000000)
                         /\ Past(0) => <>[]synced \/ Past(1000000)
  BY 0 \in Nat, 0 + 1000000 = 1000000 DEF Climbs
<1>8. Past(0) => AllGetTo(0)
  <2>1. Past(0) => GetsTo(0)
    BY DEF GetsTo
  <2>2. \A u \in Nat : u <= 0 => u = 0
    OBVIOUS
  <2> QED
    BY <2>1, <2>2 DEF AllGetTo
<1>9. ASSUME NEW u \in 1..MaxUpdates PROVE Going => HandledInTime(u)
  <2>1. u \in Nat \ {0} /\ u <= 1000000
    BY MaxAssumption
  <2>2. AllGetTo(1000000) => GetsTo(u)
    BY <2>1 DEF AllGetTo
  <2>3. Spec /\ GetsTo(u) => HandledInTime(u)
    BY <2>1, GetsToHandled
  <2> QED
    BY <1>3, <1>5, <1>6, <1>7, <1>8, <2>2, <2>3, AlertsAside
<1>10. (wifi /\ thread # "ended") <=> Calm
  BY DEF Calm
<1>11. <>[](wifi /\ thread # "ended") <=> <>[]Calm
  BY <1>10, PTL
<1>12. EventuallyHandled <=> (Regular => <>[]synced /\ \A u \in 1..MaxUpdates : HandledInTime(u))
  BY <1>11 DEF EventuallyHandled, Regular, HandledInTime
<1> QED
  BY <1>3, <1>5, <1>6, <1>7, <1>9, <1>12 DEF Going

=============================================================================
