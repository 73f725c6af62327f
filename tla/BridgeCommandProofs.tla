------------------------- MODULE BridgeCommandProofs -------------------------
(***************************************************************************)
(* The bridge, its audit log and what the user is told agree, proved for   *)
(* any commands and any size of the log: any number of handlers between    *)
(* which appends, rotations, answers and stops of the service interleave.  *)
(*                                                                         *)
(* The properties compare the outcome of a command with its lines and its  *)
(* answer.  The invariant adds where each command is in the bridge: what   *)
(* has been written, answered and done by then, and nothing else.          *)
(***************************************************************************)
EXTENDS BridgeCommand, SequenceTheorems, TLAPS

-----------------------------------------------------------------------------
(* The log.                                                                *)

\* Only one writer is inside, and what it found out about the size holds.
LogLocked ==
    /\ \A v, w \in Command : v # w => inside[v] = "out" \/ inside[w] = "out"
    /\ \A w \in Command : inside[w] = "write" => Len(current) < MaxLines
    /\ \A w \in Command : inside[w] \in {"remove", "rename"} => Len(current) = MaxLines

\* The two files hold the end of what was written: all of it, or enough.
Kept == rotated \o current
KeptIsEnd ==
    /\ Len(Kept) <= Len(written)
    /\ \A i \in 1..Len(Kept) : Kept[i] = written[Len(written) - Len(Kept) + i]
    /\ Len(Kept) = Len(written) \/ Len(Kept) >= MaxLines

-----------------------------------------------------------------------------
(* The commands.                                                           *)

Before == {"none", "audit", "act", "answer", "grace"}
OnRecord == {"act", "record", "answer", "grace", "recordSleep"}
Ended == {"finished", "lost"}

\* Where a command is says what it is and what has become of it so far.
Placed(c) ==
    /\ at[c] \in {"act", "record"} => action[c] # "sleep"
    /\ at[c] \in {"answer"} \cup SleepThread => action[c] = "sleep"
    /\ at[c] \in SleepThread => ~dryRun
    /\ at[c] \in Before => c \notin done
    /\ at[c] \in OnRecord => Says(c, "accepted")
    /\ Says(c, "ok") \/ Says(c, "failed") => at[c] \in Ended

\* What was answered is true, and nothing is answered twice.
Answered(c) ==
    /\ at[c] \in Handler \cup {"none"} => reply[c] = None
    /\ at[c] \in SleepThread => reply[c] = "2xx"
    /\ reply[c] = "error" => c \notin done /\ at[c] \in Ended
    /\ reply[c] = "2xx" /\ action[c] # "sleep" => Succeeded(c)
    /\ client[c] = "accepted" => reply[c] = "2xx"
    /\ client[c] = "rejected" => reply[c] = "error"

\* What was done is on record, and what is on record was done.
OnTheRecord(c) ==
    /\ c \in done => Says(c, "accepted") /\ ~dryRun
    /\ c \in done /\ action[c] = "sleep" => reply[c] = "2xx"
    /\ Says(c, "ok") => Succeeded(c)
    /\ Says(c, "failed") => c \notin done

Good(c) == Placed(c) /\ Answered(c) /\ OnTheRecord(c)

LogInv == written \in Seq(Line) /\ LogTypeOK /\ LogLocked /\ KeptIsEnd
IInv == TypeOK /\ LogInv /\ \A c \in Command : Good(c)

-----------------------------------------------------------------------------
(* The audit log.                                                          *)

LEMMA LogInitSafe == Init => LogInv
  BY MaxLinesAssumption
  DEF Init, LogInit, LogInv, LogTypeOK, LogLocked, KeptIsEnd, Kept, Line

LEMMA LogIdleSafe ==
    ASSUME LogInv, LogIdle, UNCHANGED written PROVE LogInv'
  BY DEF LogInv, LogIdle, files, LogTypeOK, LogLocked, KeptIsEnd, Kept

\* A writer that leaves, and the end of the process, change no file.
LEMMA LogLeaveSafe ==
    ASSUME LogInv, UNCHANGED <<current, rotated, written>>,
           inside' \in [Command -> {"out", "check", "remove", "rename", "write"}],
           \A w \in Command : inside'[w] \in {"out", inside[w]}
    PROVE  LogInv'
<1>1. LogLocked'
  BY DEF LogInv, LogLocked
<1> QED
  BY <1>1 DEF LogInv, LogTypeOK, KeptIsEnd, Kept

\* The lines kept, one by one.
LEMMA KeptLines ==
    ASSUME NEW old \in Seq(Line), NEW new \in Seq(Line)
    PROVE  /\ Len(old \o new) = Len(old) + Len(new)
           /\ \A i \in 1..Len(old) : (old \o new)[i] = old[i]
           /\ \A i \in 1..Len(new) : (old \o new)[Len(old) + i] = new[i]
  OBVIOUS

\* Without the older file the newer one still holds the end.
LEMMA CurrentIsEnd ==
    ASSUME LogInv
    PROVE  /\ Len(current) <= Len(written)
           /\ \A i \in 1..Len(current) :
                  current[i] = written[Len(written) - Len(current) + i]
<1>1. rotated \in Seq(Line) /\ current \in Seq(Line) /\ written \in Seq(Line)
  BY DEF LogInv, LogTypeOK
<1>2. Len(Kept) = Len(rotated) + Len(current) /\ Len(rotated) \in Nat /\ Len(current) \in Nat
      /\ Len(written) \in Nat
  BY <1>1, KeptLines DEF Kept
<1>3. ASSUME NEW i \in 1..Len(current)
      PROVE  current[i] = written[Len(written) - Len(current) + i]
  <2>1. current[i] = Kept[Len(rotated) + i]
    BY <1>1, KeptLines DEF Kept
  <2>2. Kept[Len(rotated) + i] = written[Len(written) - Len(Kept) + (Len(rotated) + i)]
    BY <1>2 DEF LogInv, KeptIsEnd
  <2>3. Len(written) - Len(Kept) + (Len(rotated) + i) = Len(written) - Len(current) + i
    BY <1>2
  <2> QED
    BY <2>1, <2>2, <2>3
<1> QED
  BY <1>2, <1>3 DEF LogInv, KeptIsEnd

\* Up to the line: the old file goes only when the other one is full.
LEMMA AppendStepSafe ==
    ASSUME LogInv, NEW c \in Command, Enter(c) \/ Check(c) \/ Remove(c) \/ Rename(c),
           UNCHANGED written
    PROVE  LogInv'
<1> USE DEF Moves, files
<1>1. CASE Enter(c)
  BY <1>1 DEF LogInv, LogTypeOK, LogLocked, KeptIsEnd, Kept, Enter, Unlocked
<1>2. CASE Check(c)
  BY <1>2, MaxLinesAssumption
  DEF LogInv, LogTypeOK, LogLocked, KeptIsEnd, Kept, Check, TooLarge
<1>3. CASE Remove(c)
  <2>1. LogTypeOK' /\ LogLocked'
    BY <1>3 DEF LogInv, LogTypeOK, LogLocked, Remove
  <2>2. KeptIsEnd'
    <3>1. Kept' = current
      BY <1>3 DEF Remove, Kept, LogInv, LogTypeOK
    <3> QED
      BY <1>3, <3>1, CurrentIsEnd DEF LogInv, LogLocked, KeptIsEnd, Remove
  <2> QED
    BY <1>3, <2>1, <2>2 DEF LogInv
<1>4. CASE Rename(c)
  <2>1. LogTypeOK' /\ LogLocked'
    BY <1>4, MaxLinesAssumption DEF LogInv, LogTypeOK, LogLocked, Rename
  <2>2. KeptIsEnd'
    <3>1. Kept' = current
      BY <1>4 DEF Rename, Kept, LogInv, LogTypeOK
    <3> QED
      BY <1>4, <3>1, CurrentIsEnd DEF LogInv, LogLocked, KeptIsEnd, Rename
  <2> QED
    BY <1>4, <2>1, <2>2 DEF LogInv
<1> QED
  BY <1>1, <1>2, <1>3, <1>4

LEMMA WriteSafe ==
    ASSUME LogInv, NEW c \in Command, NEW line \in Line, Write(c, line),
           written' = Append(written, line)
    PROVE  LogInv'
<1> USE DEF Write, Moves
<1>1. LogTypeOK' /\ LogLocked' /\ written' \in Seq(Line)
  BY MaxLinesAssumption DEF LogInv, LogTypeOK, LogLocked
<1>2. KeptIsEnd'
  <2>1. /\ rotated \in Seq(Line) /\ current \in Seq(Line) /\ written \in Seq(Line)
        /\ Kept \in Seq(Line) /\ Len(Kept) \in Nat /\ Len(written) \in Nat
    BY DEF LogInv, LogTypeOK, Kept
  <2>2. Kept' = Append(Kept, line)
    BY <2>1 DEF Kept
  <2>3. Len(Kept') = Len(Kept) + 1 /\ Len(written') = Len(written) + 1
    BY <2>1, <2>2
  <2>4. ASSUME NEW i \in 1..Len(Kept')
        PROVE  Kept'[i] = written'[Len(written') - Len(Kept') + i]
    <3>1. CASE i = Len(Kept) + 1
      <4>1. Len(written') - Len(Kept') + i = Len(written) + 1
        BY <2>1, <2>3, <3>1
      <4> QED
        BY <2>1, <2>2, <3>1, <4>1
    <3>2. CASE i \in 1..Len(Kept)
      <4>1. Kept'[i] = Kept[i]
        BY <2>1, <2>2, <3>2
      <4>2. Kept[i] = written[Len(written) - Len(Kept) + i]
        BY <3>2 DEF LogInv, KeptIsEnd
      <4>3. Len(written) - Len(Kept) + i \in 1..Len(written)
        BY <2>1, <3>2 DEF LogInv, KeptIsEnd
      <4>4. written'[Len(written) - Len(Kept) + i] = written[Len(written) - Len(Kept) + i]
        BY <2>1, <4>3
      <4>5. Len(written') - Len(Kept') + i = Len(written) - Len(Kept) + i
        BY <2>1, <2>3, <3>2
      <4> QED
        BY <4>1, <4>2, <4>4, <4>5
    <3>3. i = Len(Kept) + 1 \/ i \in 1..Len(Kept)
      <4>1. i \in 1..(Len(Kept) + 1)
        BY <2>3
      <4> QED
        BY <2>1, <4>1
    <3> QED
      BY <3>1, <3>2, <3>3
  <2>5. Len(Kept) <= Len(written) /\ (Len(Kept) = Len(written) \/ Len(Kept) >= MaxLines)
    BY DEF LogInv, KeptIsEnd
  <2>6. Len(Kept') <= Len(written') /\ (Len(Kept') = Len(written') \/ Len(Kept') >= MaxLines)
    BY <2>1, <2>3, <2>5, MaxLinesAssumption
  <2> QED
    BY <2>4, <2>6 DEF KeptIsEnd
<1> QED
  BY <1>1, <1>2 DEF LogInv

-----------------------------------------------------------------------------
(* Steps of the commands.                                                  *)

LEMMA InitSafe == Init => IInv
<1> SUFFICES ASSUME Init PROVE IInv
  OBVIOUS
<1>1. LogInv
  BY LogInitSafe
<1>2. TypeOK
  BY <1>1 DEF Init, TypeOK, LogInv
<1>3. ASSUME NEW c \in Command PROVE Good(c)
  <2>1. ~Says(c, "accepted") /\ ~Says(c, "ok") /\ ~Says(c, "failed")
    BY DEF Init, Says
  <2> QED
    BY <2>1, NoneAssumption
    DEF Init, Good, Placed, Answered, OnTheRecord, Before, OnRecord, Ended, Handler, SleepThread
<1> QED
  BY <1>1, <1>2, <1>3 DEF IInv

\* A command to which nothing happens stays as it is.
LEMMA OthersStay ==
    ASSUME NEW c \in Command, Good(c), UNCHANGED <<action, dryRun>>,
           at'[c] = at[c], reply'[c] = reply[c], client'[c] = client[c],
           c \in done' <=> c \in done,
           \A r \in {"accepted", "ok", "failed"} : Says(c, r)' <=> Says(c, r)
    PROVE  Good(c)'
  BY DEF Good, Placed, Answered, OnTheRecord, Succeeded

LEMMA SaysStays ==
    ASSUME UNCHANGED written
    PROVE  \A c, r : Says(c, r)' <=> Says(c, r)
  BY DEF Says

\* A line speaks of its own command.
LEMMA SaysAppended ==
    ASSUME written \in Seq(Line), NEW line \in Line, written' = Append(written, line),
           NEW c, NEW r
    PROVE  Says(c, r)' <=> Says(c, r) \/ line = [of |-> c, result |-> r]
<1>1. ASSUME Says(c, r)' PROVE Says(c, r) \/ line = [of |-> c, result |-> r]
  <2>1. PICK i \in 1..Len(written') : written'[i] = [of |-> c, result |-> r]
    BY <1>1 DEF Says
  <2>2. CASE i = Len(written) + 1
    BY <2>1, <2>2
  <2>3. CASE i \in 1..Len(written)
    BY <2>1, <2>3 DEF Says
  <2> QED
    BY <2>2, <2>3
<1>2. ASSUME Says(c, r) PROVE Says(c, r)'
  <2>1. PICK i \in 1..Len(written) : written[i] = [of |-> c, result |-> r]
    BY <1>2 DEF Says
  <2>2. i \in 1..Len(written') /\ written'[i] = written[i]
    OBVIOUS
  <2> QED
    BY <2>1, <2>2 DEF Says
<1>3. ASSUME line = [of |-> c, result |-> r] PROVE Says(c, r)'
  <2>1. Len(written) + 1 \in 1..Len(written') /\ written'[Len(written) + 1] = line
    OBVIOUS
  <2> QED
    BY <1>3, <2>1 DEF Says
<1> QED
  BY <1>1, <1>2, <1>3

\* What the firmware does changes only what it knows.
LEMMA ClientSafe ==
    ASSUME IInv, NEW c \in Command, Client(c) PROVE IInv'
<1>1. PICK from, to \in {"unsent", "waiting", "accepted", "rejected", "failed"} :
        /\ ClientStep(c, from, to) /\ from \in {"unsent", "waiting"}
        /\ to = "accepted" => reply[c] = "2xx"
        /\ to = "rejected" => reply[c] = "error"
  BY DEF Client, SendCommand, Hear, GiveUp, IInv, TypeOK
<1>2. LogInv'
  BY <1>1, LogIdleSafe DEF IInv, ClientStep
<1>3. TypeOK'
  BY <1>1, <1>2 DEF IInv, TypeOK, ClientStep, LogInv
<1>4. ASSUME NEW d \in Command PROVE Good(d)'
  <2>1. CASE d = c
    BY <1>1, <2>1, SaysStays
    DEF IInv, TypeOK, ClientStep, Good, Placed, Answered, OnTheRecord, Succeeded
  <2>2. CASE d # c
    BY <1>1, <2>2, SaysStays, OthersStay DEF IInv, TypeOK, ClientStep
  <2> QED
    BY <2>1, <2>2
<1> QED
  BY <1>2, <1>3, <1>4 DEF IInv

\* A step of the bridge with one command, beside its log.
LEMMA BridgeStep ==
    ASSUME IInv, NEW c \in Command, LogIdle, UNCHANGED written, Elsewhere,
           NEW from, NEW to \in {"none", "finished", "lost"} \cup Handler \cup SleepThread,
           Goes(c, from, to), NEW status \in {"2xx", "error", None},
           reply' = [reply EXCEPT ![c] = status], done' \in {done, done \cup {c}}, Good(c)'
    PROVE  IInv'
<1>1. LogInv'
  BY LogIdleSafe DEF IInv
<1>2. TypeOK'
  BY <1>1 DEF IInv, TypeOK, Goes, Elsewhere, LogInv
<1>3. ASSUME NEW d \in Command, d # c PROVE Good(d)'
  BY <1>3, SaysStays, OthersStay DEF IInv, TypeOK, Goes, Elsewhere
<1> QED
  BY <1>1, <1>2, <1>3 DEF IInv

LEMMA ReceiveSafe ==
    ASSUME IInv, NEW c \in Command, NEW verified \in BOOLEAN, Receive(c, verified)
    PROVE  IInv'
<1>1. Good(c) /\ at[c] = "none" /\ reply[c] = None /\ c \notin done
  BY DEF Receive, Goes, IInv, Good, Placed, Answered, Handler, Before
<1>2. PICK to \in {"audit", "finished"}, status \in {"error", None} :
        /\ Goes(c, "none", to) /\ reply' = [reply EXCEPT ![c] = status]
        /\ to = "audit" => status = None
  <2>1. CASE verified
    BY <1>1, <2>1 DEF Receive, IInv, TypeOK
  <2>2. CASE ~verified
    BY <2>2 DEF Receive, Answer
  <2> QED
    BY <2>1, <2>2
<1>3. at'[c] = to /\ reply'[c] = status
  BY <1>2 DEF IInv, TypeOK, Goes
<1>4. Good(c)'
  BY <1>1, <1>2, <1>3, SaysStays, NoneAssumption
  DEF Receive, Elsewhere, Good, Placed, Answered, OnTheRecord, Succeeded,
      Before, OnRecord, Ended, Handler, SleepThread
<1> QED
  BY <1>2, <1>4, BridgeStep DEF Receive, Handler

LEMMA ActSafe ==
    ASSUME IInv, NEW c \in Command, Act(c) PROVE IInv'
<1>1. at'[c] = "record" /\ reply' = [reply EXCEPT ![c] = reply[c]]
  BY DEF Act, Goes, IInv, TypeOK
<1>2. Good(c)'
  BY <1>1, SaysStays
  DEF Act, Goes, Elsewhere, IInv, Good, Placed, Answered, OnTheRecord, Succeeded,
      Before, OnRecord, Ended, Handler, SleepThread
<1> QED
  BY <1>1, <1>2, BridgeStep DEF Act, Handler, IInv, TypeOK

LEMMA AnswerSleepSafe ==
    ASSUME IInv, NEW c \in Command, AnswerSleep(c) PROVE IInv'
<1>1. PICK to \in {"finished", "grace"} : Goes(c, "answer", to) /\ (to = "grace" <=> ~dryRun)
  BY DEF AnswerSleep
<1>2. at'[c] = to /\ reply'[c] = "2xx"
  BY <1>1 DEF AnswerSleep, Answer, Goes, IInv, TypeOK
<1>3. Good(c)'
  BY <1>1, <1>2, SaysStays, NoneAssumption
  DEF AnswerSleep, Goes, Elsewhere, IInv, Good, Placed, Answered, OnTheRecord, Succeeded,
      Before, OnRecord, Ended, Handler, SleepThread
<1> QED
  BY <1>1, <1>3, BridgeStep DEF AnswerSleep, Answer, SleepThread

LEMMA DropHandlerSafe ==
    ASSUME IInv, NEW c \in Command, DropHandler(c) PROVE IInv'
<1>1. at'[c] = "lost" /\ reply' = [reply EXCEPT ![c] = reply[c]]
  BY DEF DropHandler, Goes, IInv, TypeOK
<1>2. Good(c)'
  BY <1>1, SaysStays, NoneAssumption
  DEF DropHandler, Goes, Elsewhere, IInv, Good, Placed, Answered, OnTheRecord, Succeeded,
      Before, OnRecord, Ended, Handler, SleepThread
<1> QED
  BY <1>1, <1>2, BridgeStep DEF DropHandler, IInv, TypeOK

LEMMA SuspendSafe ==
    ASSUME IInv, NEW c \in Command, Suspend(c) PROVE IInv'
<1>1. at'[c] = "recordSleep" /\ reply' = [reply EXCEPT ![c] = reply[c]]
  BY DEF Suspend, Goes, IInv, TypeOK
<1>2. Good(c)'
  BY <1>1, SaysStays
  DEF Suspend, Goes, Elsewhere, IInv, Good, Placed, Answered, OnTheRecord, Succeeded,
      Before, OnRecord, Ended, Handler, SleepThread
<1> QED
  BY <1>1, <1>2, BridgeStep DEF Suspend, SleepThread, IInv, TypeOK

\* The steps of append up to the line concern the log alone.
LEMMA LogStepSafe ==
    ASSUME IInv, NEW c \in Command, AppendStep(c) PROVE IInv'
<1> USE DEF AppendStep, commandVars
<1>1. LogInv'
  BY AppendStepSafe DEF IInv
<1>2. TypeOK'
  BY <1>1 DEF IInv, TypeOK, LogInv
<1>3. ASSUME NEW d \in Command PROVE Good(d)'
  BY SaysStays, OthersStay DEF IInv
<1> QED
  BY <1>1, <1>2, <1>3 DEF IInv

\* append returns.  The line is true of what has been done by then, whether
\* the handler learns that it was written or not.
LEMMA AppendEndsSafe ==
    ASSUME IInv, NEW c \in Command, NEW wrote \in BOOLEAN, NEW ok \in BOOLEAN,
           AppendEnds(c, wrote, ok)
    PROVE  IInv'
<1> DEFINE line == [of |-> c, result |-> Text(c)]
<1>1. line \in Line
  BY DEF Line, Text
<1>2. LogInv'
  <2>1. CASE wrote
    BY <1>1, <2>1, WriteSafe DEF AppendEnds, IInv
  <2>2. CASE ~wrote
    BY <2>2, LogLeaveSafe DEF AppendEnds, Fail, files, IInv, LogInv, LogTypeOK
  <2> QED
    BY <2>1, <2>2
<1>3. PICK to \in {"act", "answer", "finished"}, status \in {"2xx", "error", None} :
        /\ at' = [at EXCEPT ![c] = to] /\ reply' = [reply EXCEPT ![c] = status]
        /\ \/ /\ at[c] = "audit" /\ ok /\ status = reply[c]
              /\ to = IF action[c] = "sleep" THEN "answer" ELSE "act"
           \/ /\ at[c] = "audit" /\ to = "finished" /\ status = "error"
           \/ /\ at[c] = "record" /\ to = "finished"
              /\ status = IF Succeeded(c) THEN "2xx" ELSE "error"
           \/ at[c] = "recordSleep" /\ to = "finished" /\ status = reply[c]
  BY DEF AppendEnds, Audited, NotAudited, Recorded, Goes, Answer, AnswerOf, AfterAudit,
         IInv, TypeOK
<1>4. TypeOK'
  BY <1>2, <1>3 DEF IInv, TypeOK, LogInv, AppendEnds, Elsewhere, Handler
<1>5. \A d, r : Says(d, r)' <=> Says(d, r) \/ (wrote /\ line = [of |-> d, result |-> r])
  BY <1>1, SaysAppended, SaysStays DEF AppendEnds, IInv, LogInv
<1>6. ASSUME NEW d \in Command, d # c PROVE Good(d)'
  <2>1. \A r : Says(d, r)' <=> Says(d, r)
    BY <1>5, <1>6
  <2> QED
    BY <1>3, <1>6, <2>1, OthersStay DEF IInv, TypeOK, AppendEnds, Elsewhere
<1>7. Good(c)'
  <2>1. at'[c] = to /\ reply'[c] = status /\ UNCHANGED <<client, action, dryRun, done>>
    BY <1>3 DEF IInv, TypeOK, AppendEnds, Elsewhere
  <2>2. \A r : Says(c, r)' <=> Says(c, r) \/ (wrote /\ Text(c) = r)
    BY <1>5
  <2>3. ok => wrote
    BY DEF AppendEnds
  <2>4. Good(c)
    BY DEF IInv
  <2>5. CASE at[c] = "audit"
    BY <1>3, <2>1, <2>2, <2>3, <2>4, <2>5, NoneAssumption
    DEF Text, Good, Placed, Answered, OnTheRecord, Succeeded, Before, OnRecord, Ended,
        Handler, SleepThread
  <2>6. CASE at[c] \in {"record", "recordSleep"}
    BY <1>3, <2>1, <2>2, <2>4, <2>6, NoneAssumption
    DEF Text, Good, Placed, Answered, OnTheRecord, Succeeded, Before, OnRecord, Ended,
        Handler, SleepThread
  <2> QED
    BY <1>3, <2>5, <2>6
<1> QED
  BY <1>2, <1>4, <1>6, <1>7 DEF IInv

-----------------------------------------------------------------------------
(* Steps of the service.                                                   *)

\* The end of the process: what was in progress is lost, and the files, the
\* answers and what Windows has done stay.
LEMMA StoppedSafe == ASSUME IInv, Stopped PROVE IInv'
<1>1. LogInv'
  BY LogLeaveSafe DEF IInv, Stopped, LogCrash, files
<1>2. TypeOK'
  BY <1>1 DEF IInv, TypeOK, LogInv, Stopped
<1>3. ASSUME NEW c \in Command PROVE Good(c)'
  <2>1. at'[c] = IF at[c] \in Handler \cup SleepThread THEN "lost" ELSE at[c]
    BY DEF Stopped
  <2>2. Good(c)
    BY DEF IInv
  <2> QED
    BY <2>1, <2>2, SaysStays
    DEF Stopped, Good, Placed, Answered, OnTheRecord, Succeeded, Before, OnRecord, Ended,
        Handler, SleepThread
<1> QED
  BY <1>1, <1>2, <1>3 DEF IInv

\* A step that leaves the commands and the log alone.
LEMMA ServiceSafe ==
    ASSUME IInv, service' \in {"up", "stopping", "down"},
           UNCHANGED <<commandVars, dryRun, written>>, LogIdle
    PROVE  IInv'
<1>1. LogInv'
  BY LogIdleSafe DEF IInv
<1>2. TypeOK'
  BY <1>1 DEF IInv, TypeOK, LogInv, commandVars
<1>3. ASSUME NEW c \in Command PROVE Good(c)'
  BY SaysStays, OthersStay DEF IInv, commandVars
<1> QED
  BY <1>1, <1>2, <1>3 DEF IInv

-----------------------------------------------------------------------------
(* The theorems.                                                           *)

LEMMA Inductive == IInv /\ [Next]_vars => IInv'
<1> SUFFICES ASSUME IInv, [Next]_vars PROVE IInv'
  OBVIOUS
<1>1. ASSUME NEW c \in Command, Client(c) PROVE IInv'
  BY <1>1, ClientSafe
<1>2. ASSUME NEW c \in Command, Work(c) PROVE IInv'
  BY <1>2, ActSafe, AnswerSleepSafe, SuspendSafe, LogStepSafe, AppendEndsSafe DEF Work
<1>3. ASSUME NEW c \in Command, DropHandler(c) PROVE IInv'
  BY <1>3, DropHandlerSafe
<1>4. ASSUME NEW c \in Command, NEW verified \in BOOLEAN, Receive(c, verified) PROVE IInv'
  BY <1>4, ReceiveSafe
<1>5. CASE FinishStop \/ Crash
  BY <1>5, StoppedSafe DEF FinishStop, Crash
<1>6. CASE StopService \/ StartService
  BY <1>6, ServiceSafe DEF StopService, StartService
<1>7. CASE UNCHANGED vars
  BY <1>7, ServiceSafe DEF vars, LogIdle, files, IInv, TypeOK
<1> QED
  BY <1>1, <1>2, <1>3, <1>4, <1>5, <1>6, <1>7 DEF Next

LEMMA Safety == Spec => []IInv
  BY InitSafe, Inductive, PTL DEF Spec

\* The values the code keeps for a command, its answer and its log are what
\* the functions of client, handler and log expect.
THEOREM TypeCorrect == Spec => []TypeOK
<1>1. IInv => TypeOK
  BY DEF IInv
<1> QED
  BY <1>1, Safety, PTL

\* Nothing is done to the PC that the audit log does not have, and its
\* outcomes are true: handle_request of server.rs records before it acts.
THEOREM OnAudit == Spec => []AuditTrail
<1>1. IInv => AuditTrail
  BY DEF IInv, Good, OnTheRecord, AuditTrail, Succeeded
<1> QED
  BY <1>1, Safety, PTL

\* What the firmware's client tells the user of a command is what became of
\* it, whatever is lost, late or cut off in between.
THEOREM ToldTheTruth == Spec => []UserIsToldTheTruth
<1>1. IInv => UserIsToldTheTruth
  BY NoneAssumption
  DEF IInv, Good, Placed, Answered, UserIsToldTheTruth, Ended, Before, Handler, SleepThread
<1> QED
  BY <1>1, Safety, PTL

\* sleep_accepted answers before the PC sleeps.
THEOREM SleepAnswered == Spec => []SleepAnsweredFirst
<1>1. IInv => SleepAnsweredFirst
  BY DEF IInv, TypeOK, Good, OnTheRecord, SleepAnsweredFirst
<1> QED
  BY <1>1, Safety, PTL

\* The two files end as what was written ends: rotate_if_too_large removes a
\* file only when the other one alone has MaxLines lines.
THEOREM LinesKept == Spec => []RecentLinesKept
<1>1. ASSUME IInv PROVE RecentLinesKept
  <2> DEFINE n == IF Len(written) < MaxLines THEN Len(written) ELSE MaxLines
             oldest == SubSeq(Kept, Len(Kept) - n + 1, Len(Kept))
             newest == SubSeq(written, Len(written) - n + 1, Len(written))
  <2>1. /\ Kept \in Seq(Line) /\ written \in Seq(Line)
        /\ Len(Kept) \in Nat /\ Len(written) \in Nat /\ n \in Nat
    BY <1>1, MaxLinesAssumption DEF IInv, LogInv, LogTypeOK, Kept
  <2>2. Len(Kept) >= n /\ Len(written) >= n
    BY <1>1, <2>1, MaxLinesAssumption DEF IInv, LogInv, KeptIsEnd
  <2> HIDE DEF n
  <2>3. oldest \in Seq(Line) /\ Len(oldest) = n /\ newest \in Seq(Line) /\ Len(newest) = n
    BY <2>1, <2>2
  <2>4. ASSUME NEW i \in 1..n PROVE oldest[i] = newest[i]
    <3>1. oldest[i] = Kept[Len(Kept) - n + i]
      BY <2>1, <2>2
    <3>2. newest[i] = written[Len(written) - n + i]
      BY <2>1, <2>2
    <3>3. Len(Kept) - n + i \in 1..Len(Kept)
      BY <2>1, <2>2
    <3>4. Len(written) - Len(Kept) + (Len(Kept) - n + i) = Len(written) - n + i
      BY <2>1
    <3> QED
      BY <1>1, <3>1, <3>2, <3>3, <3>4 DEF IInv, LogInv, KeptIsEnd
  <2>5. oldest = newest
    <3> HIDE DEF oldest, newest
    <3> QED
      BY <2>3, <2>4, SeqEqual
  <2> QED
    BY <2>2, <2>5 DEF RecentLinesKept, Kept, n
<1> QED
  BY <1>1, Safety, PTL

-----------------------------------------------------------------------------
(* Every command ends.  The argument goes by stages: those of a writer in  *)
(* the log, and those of a command.  A stage once left does not come back, *)
(* so that the mutex is free again and again and a command that waits for  *)
(* it gets in.                                                             *)

\* A writer that is inside is a command that appends.
InsideAppends == \A c \in Command : inside[c] # "out" => Appending(c)

Live == IInv /\ InsideAppends

\* Where a writer goes from a place in the log, if it does not leave.
Onward(t) ==
    CASE t = "out" -> {"check"}
      [] t = "check" -> {"remove", "write"}
      [] t = "remove" -> {"rename"}
      [] t = "rename" -> {"write"}
      [] OTHER -> {}

\* The writer moves on, or leaves when what it appends for is over.
MovesOn(c) ==
    \/ /\ UNCHANGED at
       /\ inside[c] = "out" => Unlocked
       /\ \E t \in Onward(inside[c]) : inside' = [inside EXCEPT ![c] = t]
    \/ /\ at'[c] # at[c] /\ \A d \in Command \ {c} : at'[d] = at[d]
       /\ inside[c] # "out" /\ inside' = [inside EXCEPT ![c] = "out"]

LEMMA AppendMoves ==
    ASSUME IInv, NEW c \in Command,
           AppendStep(c) \/ \E wrote, ok \in BOOLEAN : AppendEnds(c, wrote, ok)
    PROVE  MovesOn(c) /\ Appending(c)
<1> USE DEF IInv, TypeOK, LogTypeOK
<1>1. CASE AppendStep(c)
  <2>1. (inside[c] = "out" => Unlocked) /\ UNCHANGED at /\ Appending(c)
    BY <1>1 DEF AppendStep, commandVars, Enter, Check, Remove, Rename, Moves
  <2>2. \E t \in Onward(inside[c]) : inside' = [inside EXCEPT ![c] = t]
    BY <1>1 DEF AppendStep, Enter, Check, Remove, Rename, Moves, Onward
  <2> QED
    BY <2>1, <2>2 DEF MovesOn
<1>2. ASSUME NEW wrote \in BOOLEAN, NEW ok \in BOOLEAN, AppendEnds(c, wrote, ok)
      PROVE  MovesOn(c) /\ Appending(c)
  <2>1. inside[c] # "out" /\ inside' = [inside EXCEPT ![c] = "out"] /\ Appending(c)
    BY <1>2 DEF AppendEnds, Write, Fail, Moves
  <2>2. at'[c] # at[c] /\ \A d \in Command \ {c} : at'[d] = at[d]
    BY <1>2 DEF AppendEnds, Audited, NotAudited, Recorded, Goes, AfterAudit
  <2> QED
    BY <2>1, <2>2 DEF MovesOn
<1> QED
  BY <1>1, <1>2

\* What any step does to the log and to the commands inside it.
LEMMA LogMoves ==
    ASSUME Live, [Next]_vars
    PROVE  \/ UNCHANGED inside /\ \A c \in Command : Appending(c) => at'[c] = at[c]
           \/ \A c \in Command : inside'[c] = "out" /\ (Appending(c) => at'[c] = "lost")
           \/ \E c \in Command : MovesOn(c) /\ Appending(c)
<1> USE DEF LogIdle, Appending
<1>1. ASSUME NEW c \in Command, Client(c)
      PROVE  UNCHANGED <<inside, at>>
  BY <1>1 DEF Client, SendCommand, Hear, GiveUp, ClientStep
<1>2. ASSUME NEW c \in Command, \/ Act(c) \/ AnswerSleep(c) \/ Suspend(c) \/ DropHandler(c)
                                \/ \E verified \in BOOLEAN : Receive(c, verified)
      PROVE  UNCHANGED inside /\ \A d \in Command : Appending(d) => at'[d] = at[d]
  BY <1>2 DEF Act, AnswerSleep, Suspend, DropHandler, Receive, Goes, IInv, TypeOK, Live
<1>3. ASSUME NEW c \in Command, AppendStep(c) \/ \E wrote, ok \in BOOLEAN : AppendEnds(c, wrote, ok)
      PROVE  MovesOn(c) /\ Appending(c)
  BY <1>3, AppendMoves DEF Live
<1>4. CASE FinishStop \/ Crash
  BY <1>4 DEF FinishStop, Crash, Stopped, LogCrash, Handler, SleepThread
<1>5. CASE StopService \/ StartService
  BY <1>5 DEF StopService, StartService, commandVars
<1>6. CASE UNCHANGED vars
  BY <1>6 DEF vars, commandVars
<1> QED
  BY <1>1, <1>2, <1>3, <1>4, <1>5, <1>6, Zenon DEF Next, Work

LEMMA LiveInductive ==
    /\ Init => Live
    /\ Live /\ [Next]_vars => Live'
<1>1. Init => Live
  BY InitSafe DEF Init, LogInit, Live, InsideAppends
<1>2. ASSUME Live, [Next]_vars PROVE InsideAppends'
  <2> USE DEF InsideAppends, Live
  <2>1. CASE UNCHANGED inside /\ \A c \in Command : Appending(c) => at'[c] = at[c]
    BY <1>2, <2>1 DEF Appending
  <2>2. CASE \A c \in Command : inside'[c] = "out"
    BY <2>2
  <2>3. ASSUME NEW c \in Command, MovesOn(c), Appending(c) PROVE InsideAppends'
    <3>1. inside' \in [Command -> {"out", "check", "remove", "rename", "write"}]
      BY <1>2, Inductive DEF IInv, TypeOK, LogTypeOK
    <3>2. ASSUME NEW d \in Command, inside'[d] # "out" PROVE Appending(d)'
      BY <1>2, <2>3, <3>1, <3>2 DEF MovesOn, Appending, IInv, TypeOK, LogTypeOK
    <3> QED
      BY <3>2
  <2> QED
    BY <1>2, <2>1, <2>2, <2>3, LogMoves
<1> QED
  BY <1>1, <1>2, Inductive DEF Live

LEMMA AlwaysLive == Spec => []Live
  BY LiveInductive, PTL DEF Spec

-----------------------------------------------------------------------------
(* The mutex of the log is free again and again.                           *)

SomeAt(t) == \E c \in Command : inside[c] = t

LEMMA Exclusive ==
    ASSUME Live, NEW c \in Command, inside[c] # "out", NEW d \in Command, d # c
    PROVE  inside[d] = "out"
  BY DEF Live, IInv, LogInv, LogLocked

\* The writer that is inside, if it is the one that moves.
LEMMA HolderMoves ==
    ASSUME Live, NEW c \in Command, inside[c] # "out", MovesOn(c)
    PROVE  Unlocked' \/ \E t \in Onward(inside[c]) : SomeAt(t)'
<1> USE DEF Live, IInv, TypeOK, LogTypeOK
<1>1. CASE inside' = [inside EXCEPT ![c] = "out"]
  BY <1>1, Exclusive DEF Unlocked
<1>2. CASE \E t \in Onward(inside[c]) : inside' = [inside EXCEPT ![c] = t]
  BY <1>2 DEF SomeAt
<1> QED
  BY <1>1, <1>2 DEF MovesOn

LEMMA HolderStays ==
    ASSUME Live, NEW c \in Command, inside[c] # "out", [Next]_vars
    PROVE  Unlocked' \/ \E t \in {inside[c]} \cup Onward(inside[c]) : SomeAt(t)'
<1>1. ASSUME NEW d \in Command, MovesOn(d), d # c PROVE FALSE
  BY <1>1, Exclusive DEF Unlocked, MovesOn
<1>2. CASE UNCHANGED inside
  BY <1>2 DEF SomeAt
<1>3. CASE \A d \in Command : inside'[d] = "out"
  BY <1>3 DEF Unlocked
<1> QED
  BY <1>1, <1>2, <1>3, HolderMoves, LogMoves

LEMMA HolderGoes ==
    ASSUME Live, NEW c \in Command, inside[c] # "out", Work(c)
    PROVE  Unlocked' \/ \E t \in Onward(inside[c]) : SomeAt(t)'
<1>1. MovesOn(c)
  BY AppendMoves DEF Work, Live, InsideAppends, Appending, Act, AnswerSleep, Suspend, Goes
<1> QED
  BY <1>1, HolderMoves

LEMMA FreeAgain ==
    Spec /\ FairLog /\ []ThreadsCanGoOn => []<>Unlocked
<1>1. Live => Unlocked \/ SomeAt("check") \/ SomeAt("remove") \/ SomeAt("rename") \/ SomeAt("write")
  BY DEF Live, IInv, TypeOK, LogTypeOK, Unlocked, SomeAt
<1>2. Live /\ [Next]_vars
      => /\ SomeAt("check") => Unlocked' \/ SomeAt("check")' \/ SomeAt("remove")' \/ SomeAt("write")'
         /\ SomeAt("remove") => Unlocked' \/ SomeAt("remove")' \/ SomeAt("rename")'
         /\ SomeAt("rename") => Unlocked' \/ SomeAt("rename")' \/ SomeAt("write")'
         /\ SomeAt("write") => Unlocked' \/ SomeAt("write")'
  <2> SUFFICES ASSUME Live, [Next]_vars
               PROVE  \A t \in {"check", "remove", "rename", "write"} :
                          SomeAt(t) => Unlocked' \/ \E u \in {t} \cup Onward(t) : SomeAt(u)'
    BY DEF Onward
  <2> QED
    BY HolderStays DEF SomeAt
<1>3. Live /\ <<HolderWorks>>_vars
      => /\ SomeAt("check") => Unlocked' \/ SomeAt("remove")' \/ SomeAt("write")'
         /\ SomeAt("remove") => Unlocked' \/ SomeAt("rename")'
         /\ SomeAt("rename") => Unlocked' \/ SomeAt("write")'
         /\ SomeAt("write") => Unlocked'
  <2> SUFFICES ASSUME Live, NEW c \in Command, inside[c] # "out", Work(c)
      PROVE  /\ SomeAt("check") => Unlocked' \/ SomeAt("remove")' \/ SomeAt("write")'
             /\ SomeAt("remove") => Unlocked' \/ SomeAt("rename")'
             /\ SomeAt("rename") => Unlocked' \/ SomeAt("write")'
             /\ SomeAt("write") => Unlocked'
    BY DEF HolderWorks
  <2>1. \A t \in {"check", "remove", "rename", "write"} : SomeAt(t) => inside[c] = t
    BY Exclusive DEF SomeAt
  <2>2. Unlocked' \/ \E t \in Onward(inside[c]) : SomeAt(t)'
    BY HolderGoes
  <2> QED
    BY <2>1, <2>2 DEF Onward
<1>4. ThreadsCanGoOn => (~Unlocked => ENABLED <<HolderWorks>>_vars)
  BY DEF ThreadsCanGoOn
<1> QED
  BY <1>1, <1>2, <1>3, <1>4, AlwaysLive, PTL DEF Spec, FairLog

-----------------------------------------------------------------------------
(* A command goes through its stages.                                      *)

\* Where the bridge goes from each stage of a command.
After(s) ==
    CASE s = "audit" -> {"act", "answer", "finished", "lost"}
      [] s = "act" -> {"record", "lost"}
      [] s = "record" -> {"finished", "lost"}
      [] s = "answer" -> {"grace", "finished", "lost"}
      [] s = "grace" -> {"recordSleep", "lost"}
      [] s = "recordSleep" -> {"finished", "lost"}
      [] s = "none" -> {"audit", "finished"}
      [] OTHER -> {}

\* What an append that returns does to the stage of its command.
LEMMA AppendAfter ==
    ASSUME IInv, NEW c \in Command, NEW wrote \in BOOLEAN, NEW ok \in BOOLEAN,
           AppendEnds(c, wrote, ok)
    PROVE  at'[c] \in After(at[c]) /\ \A d \in Command \ {c} : at'[d] = at[d]
  BY DEF AppendEnds, Audited, NotAudited, Recorded, Goes, AfterAudit, After, IInv, TypeOK

LEMMA StageAfter ==
    ASSUME Live, NEW c \in Command, [Next]_vars
    PROVE  at'[c] \in {at[c]} \cup After(at[c])
<1> USE DEF Live, IInv, TypeOK
<1>1. ASSUME NEW d \in Command, Client(d) PROVE at' = at
  BY <1>1 DEF Client, SendCommand, Hear, GiveUp, ClientStep
<1>2. ASSUME NEW d \in Command, Work(d) PROVE at'[c] \in {at[c]} \cup After(at[c])
  <2>1. CASE Act(d) \/ AnswerSleep(d) \/ Suspend(d)
    BY <2>1 DEF Act, AnswerSleep, Suspend, Goes, After
  <2>2. CASE AppendStep(d)
    BY <2>2 DEF AppendStep, commandVars
  <2>3. CASE \E wrote, ok \in BOOLEAN : AppendEnds(d, wrote, ok)
    BY <2>3, AppendAfter
  <2> QED
    BY <1>2, <2>1, <2>2, <2>3 DEF Work
<1>3. ASSUME NEW d \in Command, DropHandler(d) \/ \E verified \in BOOLEAN : Receive(d, verified)
      PROVE  at'[c] \in {at[c]} \cup After(at[c])
  BY <1>3 DEF DropHandler, Receive, Goes, After
<1>4. CASE FinishStop \/ Crash
  BY <1>4 DEF FinishStop, Crash, Stopped, Handler, SleepThread, After
<1>5. CASE StopService \/ StartService \/ UNCHANGED vars
  BY <1>5 DEF StopService, StartService, vars, commandVars
<1> QED
  BY <1>1, <1>2, <1>3, <1>4, <1>5 DEF Next

\* The thread of a command leaves its stage or its place in the log.
LEMMA WorkAdvances ==
    ASSUME Live, NEW c \in Command, Work(c)
    PROVE  at'[c] # at[c] \/ (Appending(c) /\ inside'[c] \in Onward(inside[c]))
<1> USE DEF Live, IInv, TypeOK, LogTypeOK
<1>1. CASE Act(c) \/ AnswerSleep(c) \/ Suspend(c)
  BY <1>1 DEF Act, AnswerSleep, Suspend, Goes
<1>2. CASE MovesOn(c) /\ Appending(c)
  BY <1>2 DEF MovesOn
<1> QED
  BY <1>1, <1>2, AppendMoves DEF Work

\* While its command stays a writer goes no other way.
LEMMA PlaceAfter ==
    ASSUME Live, NEW c \in Command, [Next]_vars, Appending(c), at'[c] = at[c]
    PROVE  inside'[c] \in {inside[c]} \cup Onward(inside[c])
<1> USE DEF Live, IInv, TypeOK, LogTypeOK
<1>1. CASE UNCHANGED inside
  BY <1>1
<1>2. CASE \A d \in Command : inside'[d] = "out" /\ (Appending(d) => at'[d] = "lost")
  BY <1>2 DEF Appending
<1>3. ASSUME NEW d \in Command, MovesOn(d), Appending(d)
      PROVE  inside'[c] \in {inside[c]} \cup Onward(inside[c])
  BY <1>3 DEF MovesOn
<1> QED
  BY <1>1, <1>2, <1>3, LogMoves

CommandAt(c, s) == at[c] = s

WriterAt(c, t) == inside[c] = t

Passes(c, s) == CommandAt(c, s) ~> ~CommandAt(c, s)

\* A command that appends is past it some time.
LEMMA AppendReturns ==
    ASSUME NEW c \in Command, NEW s \in {"audit", "record", "recordSleep"}
    PROVE  FairSpec /\ []ThreadsCanGoOn => Passes(c, s)
<1>1. Live => \/ WriterAt(c, "out") \/ WriterAt(c, "check") \/ WriterAt(c, "remove")
              \/ WriterAt(c, "rename") \/ WriterAt(c, "write")
  BY DEF Live, IInv, TypeOK, LogTypeOK, WriterAt
<1>2. Live /\ [Next]_vars /\ CommandAt(c, s) /\ CommandAt(c, s)'
      => /\ WriterAt(c, "out") => WriterAt(c, "out")' \/ WriterAt(c, "check")'
         /\ WriterAt(c, "check") => WriterAt(c, "check")' \/ WriterAt(c, "remove")' \/ WriterAt(c, "write")'
         /\ WriterAt(c, "remove") => WriterAt(c, "remove")' \/ WriterAt(c, "rename")'
         /\ WriterAt(c, "rename") => WriterAt(c, "rename")' \/ WriterAt(c, "write")'
         /\ WriterAt(c, "write") => WriterAt(c, "write")'
  BY PlaceAfter DEF CommandAt, WriterAt, Appending, Onward
<1>3. Live /\ <<Work(c)>>_vars /\ CommandAt(c, s) /\ CommandAt(c, s)'
      => /\ WriterAt(c, "out") => WriterAt(c, "check")'
         /\ WriterAt(c, "check") => WriterAt(c, "remove")' \/ WriterAt(c, "write")'
         /\ WriterAt(c, "remove") => WriterAt(c, "rename")'
         /\ WriterAt(c, "rename") => WriterAt(c, "write")'
         /\ ~WriterAt(c, "write")
  BY WorkAdvances DEF CommandAt, WriterAt, Onward
<1>4. ThreadsCanGoOn /\ CommandAt(c, s) /\ (WriterAt(c, "out") => Unlocked) => ENABLED <<Work(c)>>_vars
  BY DEF ThreadsCanGoOn, CommandAt, WriterAt, Handler, SleepThread, Appending
<1>5. FairSpec => FairCommand(c)
  BY DEF FairSpec
<1>6. FairSpec => Spec /\ FairLog
  BY DEF FairSpec
<1>7. ~(WriterAt(c, "out") /\ WriterAt(c, "check"))
  BY DEF WriterAt
<1> QED
  BY <1>1, <1>2, <1>3, <1>4, <1>5, <1>6, <1>7, FreeAgain, AlwaysLive, PTL DEF Spec, FairLog, FairCommand, Passes

\* One that does not append does what it is at.
LEMMA CommandActs ==
    ASSUME NEW c \in Command, NEW s \in {"act", "answer", "grace"}
    PROVE  FairSpec /\ []ThreadsCanGoOn => Passes(c, s)
<1>1. Live /\ <<Work(c)>>_vars /\ CommandAt(c, s) => ~CommandAt(c, s)'
  BY WorkAdvances DEF CommandAt, Appending
<1>2. ThreadsCanGoOn /\ CommandAt(c, s) => ENABLED <<Work(c)>>_vars
  BY DEF ThreadsCanGoOn, CommandAt, Handler, SleepThread, Appending
<1>3. FairSpec => FairCommand(c)
  BY DEF FairSpec
<1>4. FairSpec => Spec
  BY DEF FairSpec
<1> QED
  BY <1>1, <1>2, <1>3, <1>4, AlwaysLive, PTL DEF FairCommand, Passes

(* No command is stuck in the bridge (CommandsEnd): the handler or the     *)
(* sleep thread that carries it gets through the audit log (append behind  *)
(* its mutex) and all the other stages, whatever fails on the way, if the  *)
(* guards are all that holds a thread back, which is what ThreadsCanGoOn   *)
(* says and a run checks.                                                  *)
THEOREM NoneStuck == FairSpec /\ []ThreadsCanGoOn => CommandsEnd
<1> SUFFICES ASSUME NEW c \in Command
             PROVE  FairSpec /\ []ThreadsCanGoOn
                    => (at[c] \in Handler \cup SleepThread ~> at[c] \in {"finished", "lost"})
  BY DEF CommandsEnd
<1> DEFINE A(s) == CommandAt(c, s)
<1>1. Live /\ [Next]_vars
      => /\ A("audit") => A("audit")' \/ A("act")' \/ A("answer")' \/ A("finished")' \/ A("lost")'
         /\ A("act") => A("act")' \/ A("record")' \/ A("lost")'
         /\ A("record") => A("record")' \/ A("finished")' \/ A("lost")'
         /\ A("answer") => A("answer")' \/ A("grace")' \/ A("finished")' \/ A("lost")'
         /\ A("grace") => A("grace")' \/ A("recordSleep")' \/ A("lost")'
         /\ A("recordSleep") => A("recordSleep")' \/ A("finished")' \/ A("lost")'
  BY StageAfter DEF CommandAt, After
<1>2. FairSpec /\ []ThreadsCanGoOn
      => Passes(c, "audit") /\ Passes(c, "record") /\ Passes(c, "recordSleep")
  BY AppendReturns
<1>3. FairSpec /\ []ThreadsCanGoOn
      => Passes(c, "act") /\ Passes(c, "answer") /\ Passes(c, "grace")
  BY CommandActs
<1>4. /\ at[c] \in Handler \cup SleepThread
         <=> \/ A("audit") \/ A("act") \/ A("record") \/ A("answer") \/ A("grace") \/ A("recordSleep")
      /\ at[c] \in {"finished", "lost"} <=> A("finished") \/ A("lost")
  BY DEF CommandAt, Handler, SleepThread
<1>5. FairSpec => Spec
  BY DEF FairSpec
<1> QED
  BY <1>1, <1>2, <1>3, <1>4, <1>5, AlwaysLive, PTL DEF Spec, Passes
=============================================================================
