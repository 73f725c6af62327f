---------------------------- MODULE BridgeCommand ----------------------------
(***************************************************************************)
(* A power command from the firmware's request to the PC going down: the   *)
(* client (firmware/src/bridge_client.rs, and who tells the user what came *)
(* of it), the handler of the bridge (m5stack-pc-bridge/src/server.rs),    *)
(* its audit log (module AuditLog) and the stop of the Windows service.    *)
(*                                                                         *)
(* The firmware sends one command at a time, under its power lock, but it  *)
(* gives up after REQUEST_TIMEOUT and may then send the next one: the      *)
(* bridge can be busy with several.  A command stands for one signed       *)
(* request; that it is let in only once is the subject of NonceStore.      *)
(***************************************************************************)
EXTENDS Naturals, Sequences

CONSTANTS Command,    \* signed requests of the firmware
          MaxLines,   \* AUDIT_LOG_MAX_BYTES, in lines
          None        \* no answer yet

ASSUME MaxLinesAssumption == MaxLines \in Nat \ {0}
ASSUME NoneAssumption == None \notin {"2xx", "error"}

PowerAction == {"reboot", "shutdown", "sleep"}

Line == [of : Command, result : {"accepted", "ok", "failed"}]

VARIABLES client,    \* what the firmware knows of each command
          action,    \* what each command asks for
          at,        \* where the bridge is with each command
          done,      \* commands whose operation Windows has carried out
          reply,     \* HTTP answer: "2xx" or "error", None before it
          service,   \* Windows service: "up", "stopping" or "down"
          dryRun,    \* AgentConfig.dry_run
          current, rotated, inside,   \* see AuditLog
          written    \* history: all lines ever written, in order

commandVars == <<client, action, at, done, reply>>
vars == <<commandVars, service, dryRun, current, rotated, inside, written>>

INSTANCE AuditLog WITH Writer <- Command

\* A request whose handler (or blocking task) has not ended; an accepted
\* sleep has left its handler and is with a thread of its own.
Handler == {"audit", "act", "record", "answer"}

SleepThread == {"grace", "recordSleep"}

TypeOK ==
    /\ LogTypeOK
    /\ client \in [Command -> {"unsent", "waiting", "accepted", "rejected", "failed"}]
    /\ action \in [Command -> PowerAction]
    /\ at \in [Command -> {"none", "finished", "lost"} \cup Handler \cup SleepThread]
    /\ done \subseteq Command
    /\ reply \in [Command -> {"2xx", "error", None}]
    /\ service \in {"up", "stopping", "down"} /\ dryRun \in BOOLEAN

Init ==
    /\ LogInit /\ written = <<>>
    /\ client = [c \in Command |-> "unsent"]
    /\ action \in [Command -> PowerAction]
    /\ at = [c \in Command |-> "none"]
    /\ done = {}
    /\ reply = [c \in Command |-> None]
    /\ service = "up" /\ dryRun \in BOOLEAN

-----------------------------------------------------------------------------
(* The firmware.                                                           *)

ClientStep(c, from, to) ==
    /\ client[c] = from
    /\ client' = [client EXCEPT ![c] = to]
    /\ UNCHANGED <<action, at, done, reply, service, dryRun, written>> /\ LogIdle

\* send_command: the caller holds the power lock until it returns.
SendCommand(c) ==
    /\ \A other \in Command : client[other] # "waiting"
    /\ ClientStep(c, "unsent", "waiting")

\* 2xx is told as accepted, any other status as rejected.
Hear(c) ==
    /\ reply[c] # None
    /\ ClientStep(c, "waiting", IF reply[c] = "2xx" THEN "accepted" ELSE "rejected")

\* REQUEST_TIMEOUT, a refused or a broken connection: told as failed.
GiveUp(c) == ClientStep(c, "waiting", "failed")

-----------------------------------------------------------------------------
(* The handler of the bridge.                                              *)

Goes(c, from, to) == at[c] = from /\ at' = [at EXCEPT ![c] = to]

Answer(c, status) == reply' = [reply EXCEPT ![c] = status]

Elsewhere == UNCHANGED <<client, action, service, dryRun>>

\* A request that was sent may be read after its client gave up.  One that
\* is not verified (clock, nonce) is refused.
Receive(c, verified) ==
    /\ service = "up" /\ client[c] # "unsent"
    /\ Goes(c, "none", IF verified THEN "audit" ELSE "finished")
    /\ IF verified THEN UNCHANGED reply ELSE Answer(c, "error")
    /\ UNCHANGED <<done, written>> /\ Elsewhere /\ LogIdle

\* Faulty variant: a sleep is handled like the others.
ActAtOnce(c) == "act"

\* Where a command that is on record goes: a sleep is answered first.
AfterAudit(c) == IF action[c] = "sleep" THEN "answer" ELSE "act"

\* Faulty variant: a command that could not be recorded is carried out.
NotAuditedButGoingOn(c) == Goes(c, "audit", AfterAudit(c)) /\ UNCHANGED reply

\* Fail-closed: 500, and nothing is carried out.
NotAudited(c) == Goes(c, "audit", "finished") /\ Answer(c, "error")

Audited(c) == Goes(c, "audit", AfterAudit(c)) /\ UNCHANGED reply

\* run_power_action of a reboot or shutdown: shutdown.exe, which may fail.
Act(c) ==
    /\ Goes(c, "act", "record")
    /\ \/ ~dryRun /\ done' = done \cup {c}
       \/ UNCHANGED done
    /\ UNCHANGED <<reply, written>> /\ Elsewhere /\ LogIdle

\* What run_power_action returned.
Succeeded(c) == dryRun \/ c \in done

\* Faulty variant: the answer depends on the log as well.
AnswerAfter(c, logged) == IF Succeeded(c) /\ logged THEN "2xx" ELSE "error"

\* The outcome is on record or that failed: the answer is the same.
AnswerOf(c, logged) == IF Succeeded(c) THEN "2xx" ELSE "error"

Recorded(c, logged) ==
    \/ Goes(c, "record", "finished") /\ Answer(c, AnswerOf(c, logged))
    \/ Goes(c, "recordSleep", "finished") /\ UNCHANGED reply

\* sleep_accepted: 200 first; the sleep is left to a thread, if there is any.
AnswerSleep(c) ==
    /\ Goes(c, "answer", IF dryRun THEN "finished" ELSE "grace")
    /\ Answer(c, "2xx")
    /\ UNCHANGED <<done, written>> /\ Elsewhere /\ LogIdle

\* The server drops a handler whose client has closed the connection: a
\* blocking task goes on, but sleep_accepted ends where it awaits one.
DropHandler(c) ==
    /\ client[c] = "failed"
    /\ Goes(c, "answer", "lost")
    /\ UNCHANGED <<done, reply, written>> /\ Elsewhere /\ LogIdle

\* After SLEEP_RESPONSE_GRACE; SetSuspendState comes back after the sleep.
Suspend(c) ==
    /\ Goes(c, "grace", "recordSleep")
    /\ done' \in {done, done \cup {c}}
    /\ UNCHANGED <<reply, written>> /\ Elsewhere /\ LogIdle

-----------------------------------------------------------------------------
(* The handler and the audit log.                                          *)

Appending(c) == at[c] \in {"audit", "record", "recordSleep"}

Text(c) == IF at[c] = "audit" THEN "accepted" ELSE IF Succeeded(c) THEN "ok" ELSE "failed"

\* The steps of append up to the line.
AppendStep(c) ==
    /\ Appending(c)
    /\ Enter(c) \/ Check(c) \/ Remove(c) \/ Rename(c)
    /\ UNCHANGED <<commandVars, service, dryRun, written>>

\* append returns: Ok; an error after the line was written; or an error
\* without a line.
AppendEnds(c, wrote, ok) ==
    /\ Appending(c) /\ (ok => wrote)
    /\ LET line == [of |-> c, result |-> Text(c)]
       IN IF wrote THEN Write(c, line) /\ written' = Append(written, line)
                   ELSE Fail(c) /\ UNCHANGED written
    /\ IF ok THEN Audited(c) \/ Recorded(c, TRUE)
             ELSE NotAudited(c) \/ Recorded(c, FALSE)
    /\ UNCHANGED done /\ Elsewhere

-----------------------------------------------------------------------------
(* The service.                                                            *)

Stopped ==
    /\ at' = [c \in Command |-> IF at[c] \in Handler \cup SleepThread THEN "lost" ELSE at[c]]
    /\ LogCrash
    /\ service' = "down"
    /\ UNCHANGED <<client, action, done, reply, dryRun, written>>

\* Stop and Shutdown of the service control manager.
StopService ==
    /\ service = "up" /\ service' = "stopping"
    /\ UNCHANGED <<commandVars, dryRun, written>> /\ LogIdle

\* Graceful: the requests in progress are finished first.
FinishStop ==
    /\ service = "stopping"
    /\ \A c \in Command : at[c] \notin Handler
    /\ Stopped

\* A crash, a kill, or the reboot or shutdown that has been asked for.
Crash == service # "down" /\ Stopped

StartService ==
    /\ service = "down" /\ service' = "up"
    /\ UNCHANGED <<commandVars, dryRun, written>> /\ LogIdle

-----------------------------------------------------------------------------

Client(c) == SendCommand(c) \/ Hear(c) \/ GiveUp(c)

\* One step of the thread that carries out the command.
Work(c) ==
    \/ Act(c) \/ AnswerSleep(c) \/ Suspend(c) \/ AppendStep(c)
    \/ \E wrote, ok \in BOOLEAN : AppendEnds(c, wrote, ok)

Next ==
    \/ \E c \in Command :
          \/ Client(c) \/ Work(c) \/ DropHandler(c)
          \/ \E verified \in BOOLEAN : Receive(c, verified)
    \/ StopService \/ FinishStop \/ Crash \/ StartService

Spec == Init /\ [][Next]_vars

\* The thread that is inside the audit log.
HolderWorks == \E c \in Command : inside[c] # "out" /\ Work(c)

\* A thread of the bridge goes on; the mutex of the log, which is released
\* again and again, is given to a thread that waits for it.
FairLog == WF_vars(HolderWorks)

FairCommand(c) == SF_vars(Work(c))

FairSpec == Spec /\ FairLog /\ \A c \in Command : FairCommand(c)

-----------------------------------------------------------------------------
(* Properties.                                                             *)

Says(c, result) == \E i \in 1..Len(written) : written[i] = [of |-> c, result |-> result]

(* Nothing happens to the PC that the audit log does not know (docs/       *)
(* security.md, fail-closed), and what it says of the outcome is true,     *)
(* wherever an append fails, a client gives up or the service ends.        *)
AuditTrail ==
    \A c \in Command :
        /\ c \in done => Says(c, "accepted") /\ ~dryRun
        /\ Says(c, "ok") => c \in done \/ dryRun
        /\ Says(c, "failed") => c \notin done

(* What the user is told is true: a command that was rejected is not       *)
(* carried out, now or later, and an accepted reboot or shutdown has been. *)
(* (Of a command that "failed", by a time-out, nothing is known, and an    *)
(* accepted sleep is still to come.)                                       *)
UserIsToldTheTruth ==
    \A c \in Command :
        /\ client[c] = "rejected" => c \notin done /\ at[c] \in {"finished", "lost"}
        /\ client[c] = "accepted" /\ action[c] # "sleep" => Succeeded(c)

(* A sleep is answered before it happens: the PC could not answer after it *)
(* (server.rs, SLEEP_RESPONSE_GRACE).                                      *)
SleepAnsweredFirst ==
    \A c \in done : action[c] = "sleep" => reply[c] = "2xx"

(* Rotation loses old lines only: the last MaxLines are in one of the two  *)
(* files at any moment, also between the steps of a rotation and when the  *)
(* bridge ends there.                                                      *)
RecentLinesKept ==
    LET kept == rotated \o current
        n == IF Len(written) < MaxLines THEN Len(written) ELSE MaxLines
    IN /\ Len(kept) >= n
       /\ SubSeq(kept, Len(kept) - n + 1, Len(kept))
            = SubSeq(written, Len(written) - n + 1, Len(written))

(* No command is stuck in the bridge, behind the audit log of another one  *)
(* or its own: an error does not leave the log locked.                     *)
CommandsEnd ==
    \A c \in Command : at[c] \in Handler \cup SleepThread ~> at[c] \in {"finished", "lost"}

(* A command that is being handled can go on, whatever failed before       *)
(* (server.rs command, run_sleep; audit_log.rs append), but for the log    *)
(* when another one is inside, and that one can: the mutex is never left   *)
(* locked by a command that is over.                                       *)
ThreadsCanGoOn ==
    /\ \A c \in Command :
          at[c] \in Handler \cup SleepThread /\ (Appending(c) /\ inside[c] = "out" => Unlocked)
          => ENABLED <<Work(c)>>_vars
    /\ ~Unlocked => ENABLED <<HolderWorks>>_vars

(* docs/security.md:74 as it is written: what became of an accepted sleep  *)
(* is in the audit log or the server's log, so a service that stops in     *)
(* good order does not leave one behind that has neither been carried out  *)
(* nor failed.                                                             *)
StopLeavesNoSleep == [][FinishStop => \A c \in Command : at[c] # "grace"]_vars
=============================================================================
