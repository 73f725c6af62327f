---------------------------- MODULE TelegramPoll ----------------------------
(***************************************************************************)
(* How updates of the chat reach the firmware: Telegram's queue, the long  *)
(* polling of telegram.rs with the cursor of telegram-cursor, and the UI   *)
(* loop that starts the polling thread once (main.rs, online-state).       *)
(*                                                                         *)
(* Telegram keeps an update until a getUpdates asks for a later one.  A    *)
(* request that has reached Telegram counts there even if its answer is    *)
(* lost.  The cursor is in RAM: after a restart the queue is read from its *)
(* start and skipped until an answer is empty.  An update is a number,     *)
(* its update_id; what its handler does is the subject of PowerControl.    *)
(***************************************************************************)
EXTENDS Naturals, Sequences

CONSTANTS MaxUpdates,  \* bound on the updates that are sent
          None         \* no answer yet

ASSUME MaxAssumption == MaxUpdates \in Nat /\ None \notin Nat

VARIABLES sent,       \* Telegram: the newest update
          confirmed,  \* Telegram: the newest update it has dropped
          wifi,       \* Status.wifi_connected
          started,    \* telegram_started of the UI loop
          thread,     \* where the polling thread is
          offset,     \* UpdateCursor.next_offset
          synced,     \* UpdateCursor.synced
          answer,     \* answer under way: an update, Empty or None
          old,        \* history: newest update that may be skipped
          handled     \* history: updates whose handler was run, in order

cursor == <<offset, synced>>
telegram == <<sent, confirmed>>
history == <<old, handled>>
vars == <<telegram, wifi, started, thread, cursor, answer, history>>

Empty == 0

TypeOK ==
    /\ sent \in Nat /\ confirmed \in 0..sent /\ offset \in 0..(sent + 1) /\ old \in 0..sent
    /\ wifi \in BOOLEAN /\ started \in BOOLEAN /\ synced \in BOOLEAN
    /\ thread \in {"none", "start", "poll", "asked", "handle", "backoff", "ended"}
    /\ answer \in 0..sent \cup {None}
    /\ handled \in Seq(1..sent)

Init ==
    /\ sent = 0 /\ confirmed = 0 /\ old = 0 /\ handled = <<>>
    /\ wifi \in BOOLEAN /\ started = FALSE
    /\ thread = "none" /\ offset = 0 /\ synced = FALSE /\ answer = None

-----------------------------------------------------------------------------
(* The UI loop.                                                            *)

WifiChanges ==
    /\ wifi' = ~wifi
    /\ UNCHANGED <<telegram, started, thread, cursor, answer, history>>

\* OnlineState::transition asks for what has not been started; what has been
\* started stays so when the Wi-Fi goes.
AsksForTelegram == wifi /\ ~started

\* The thread counts as started when it could be created.
StartTelegram(spawned) ==
    /\ AsksForTelegram
    /\ started' = spawned
    /\ thread' = IF spawned THEN "start" ELSE thread
    /\ UNCHANGED <<telegram, wifi, cursor, answer, history>>

-----------------------------------------------------------------------------
(* The polling thread.                                                     *)

\* ensure_root_ca: without it the thread ends.
EnsureRootCa(installed) ==
    /\ thread = "start"
    /\ thread' = IF installed THEN "poll" ELSE "ended"
    /\ UNCHANGED <<telegram, wifi, started, cursor, answer, history>>

\* getUpdates at Telegram: everything before the offset is dropped; the
\* oldest update that is left is the answer (GET_UPDATES_LIMIT is one).
GetUpdates ==
    /\ thread = "poll" /\ wifi
    /\ confirmed' = IF offset > confirmed THEN offset - 1 ELSE confirmed
    /\ answer' = IF confirmed' < sent THEN confirmed' + 1 ELSE Empty
    /\ old' = IF synced THEN old ELSE sent
    /\ thread' = "asked"
    /\ UNCHANGED <<sent, wifi, started, cursor, handled>>

\* Faulty variant: off by one.
NextOffsetByTwo(u) == IF u >= offset THEN u + 2 ELSE offset

\* UpdateCursor::advance: the offset only grows.
NextOffset(u) == IF u >= offset THEN u + 1 ELSE offset

\* Faulty variant: the first update ends the skipping.
SyncedByUpdate(u) == synced \/ u # Empty

\* The backlog ends with the first empty answer, which is itself skipped.
SyncedBy(u) == synced \/ u = Empty

\* Faulty variant: a backlog of one update is not waited for to end.
DispatchesUnsynced(u) == u # Empty

Dispatches(u) == synced /\ u # Empty

\* process_updates: the cursor moves before the handler runs.
ProcessUpdates ==
    /\ thread = "asked"
    /\ offset' = IF answer = Empty THEN offset ELSE NextOffset(answer)
    /\ synced' = SyncedBy(answer)
    /\ IF Dispatches(answer)
       THEN handled' = Append(handled, answer) /\ thread' = "handle"
       ELSE thread' = "poll" /\ UNCHANGED handled
    /\ answer' = None
    /\ UNCHANGED <<telegram, wifi, started, old>>

HandlerReturns ==
    /\ thread = "handle" /\ thread' = "poll"
    /\ UNCHANGED <<telegram, wifi, started, cursor, answer, history>>

\* poll_once fails before or after the request has reached Telegram.
PollFails ==
    /\ thread \in {"poll", "asked"}
    /\ thread' = "backoff" /\ answer' = None
    /\ UNCHANGED <<telegram, wifi, started, cursor, history>>

BackoffEnds ==
    /\ thread = "backoff" /\ thread' = "poll"
    /\ UNCHANGED <<telegram, wifi, started, cursor, answer, history>>

-----------------------------------------------------------------------------
(* The user and the device.                                                *)

Send ==
    /\ sent < MaxUpdates /\ sent' = sent + 1
    /\ UNCHANGED <<confirmed, wifi, started, thread, cursor, answer, history>>

\* Also the end of a handler that restarts the device.  What has been sent
\* until now is from before the start.
Restart ==
    /\ wifi' \in BOOLEAN /\ started' = FALSE
    /\ thread' = "none" /\ offset' = 0 /\ synced' = FALSE /\ answer' = None
    /\ old' = sent
    /\ UNCHANGED <<telegram, handled>>

-----------------------------------------------------------------------------

Work ==
    \/ GetUpdates \/ ProcessUpdates \/ HandlerReturns \/ PollFails \/ BackoffEnds
    \/ \E installed \in BOOLEAN : EnsureRootCa(installed)

Next ==
    \/ Work \/ WifiChanges \/ Send \/ Restart
    \/ \E spawned \in BOOLEAN : StartTelegram(spawned)

Spec == Init /\ [][Next]_vars

\* The polling thread runs, and the UI loop tries to start it again and again;
\* one of these tries succeeds.
FairSpec == Spec /\ WF_vars(Work) /\ SF_vars(StartTelegram(TRUE))

-----------------------------------------------------------------------------
(* Properties.                                                             *)

(* An update is handled at most once and in the order of the chat, whatever *)
(* answers get lost and wherever a restart falls: a handler that restarts  *)
(* the device is not run again by the update it was started with, which    *)
(* Telegram still has (process_updates, UpdateCursor).                     *)
InOrder == \A i, j \in 1..Len(handled) : i < j => handled[i] < handled[j]

(* What was sent before the device was up is not carried out when it is    *)
(* (telegram.rs, process_updates): neither before nor after a restart.     *)
BacklogSkipped ==
    [][\A u \in 1..sent : handled' = Append(handled, u) => u > old]_vars

Passed(u) == u <= confirmed \/ u < offset

(* No update is lost (telegram-cursor: nothing is missed): Telegram drops  *)
(* an update, and the cursor passes it, only if it was handled or belongs  *)
(* to the backlog of a start.                                              *)
NothingMissed ==
    \A u \in 1..sent : Passed(u) => u <= old \/ \E i \in 1..Len(handled) : handled[i] = u

(* An update that is no backlog is handled in the end, and the backlog has *)
(* an end, if the network works in the end, the root CA could be installed *)
(* (see StartIsRetried) and the device does not restart again and again.   *)
EventuallyHandled ==
    <>[](wifi /\ thread # "ended") /\ <>[][~PollFails /\ ~Restart]_vars =>
        /\ <>[]synced
        /\ \A u \in 1..MaxUpdates :
              u <= sent ~> u <= old \/ \E i \in 1..Len(handled) : handled[i] = u

(* telegram.rs:219 on the root CA: a failure must not keep a thread from   *)
(* trying again; online-state: a start that failed is tried again.         *)
StartIsRetried == <>[]wifi => (thread = "ended" ~> thread # "ended")
=============================================================================
