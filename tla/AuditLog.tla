------------------------------ MODULE AuditLog ------------------------------
(***************************************************************************)
(* The audit log of the bridge (m5stack-pc-bridge/src/audit_log.rs): one   *)
(* file that is appended to under a process-wide mutex, and the one before *)
(* it, into which it is renamed when it has grown too large.               *)
(*                                                                         *)
(* append is split where it touches the file system.  A writer is a thread *)
(* of the bridge; the mutex is held by the writer that is inside, and is   *)
(* given back whatever goes wrong there (a poisoned mutex is taken over).  *)
(* A file that does not exist is an empty one.  The size of a file is its  *)
(* number of lines.                                                        *)
(***************************************************************************)
EXTENDS Naturals, Sequences

CONSTANTS Writer,     \* threads that append
          Line,       \* lines they append
          MaxLines    \* AUDIT_LOG_MAX_BYTES, in lines

VARIABLES current,   \* audit.log
          rotated,   \* audit.log.1
          inside     \* where each writer is in append, or "out"

files == <<current, rotated>>

LogTypeOK ==
    /\ current \in Seq(Line) /\ rotated \in Seq(Line)
    /\ Len(current) <= MaxLines
    /\ inside \in [Writer -> {"out", "check", "remove", "rename", "write"}]

LogInit == current = <<>> /\ rotated = <<>> /\ inside = [w \in Writer |-> "out"]

Moves(w, from, to) == inside[w] = from /\ inside' = [inside EXCEPT ![w] = to]

\* Faulty variant: no mutex.
UnlockedAlways == TRUE

Unlocked == \A w \in Writer : inside[w] = "out"

\* AUDIT_LOG_LOCK.lock()
Enter(w) == Unlocked /\ Moves(w, "out", "check") /\ UNCHANGED files

TooLarge == Len(current) >= MaxLines

\* rotate_if_too_large
Check(w) ==
    /\ Moves(w, "check", IF TooLarge THEN "remove" ELSE "write")
    /\ UNCHANGED files

Remove(w) ==
    /\ Moves(w, "remove", "rename")
    /\ rotated' = <<>> /\ UNCHANGED current

Rename(w) ==
    /\ Moves(w, "rename", "write")
    /\ current # <<>>
    /\ rotated' = current /\ current' = <<>>

\* The line is written; sync_all may still fail.
Write(w, line) ==
    /\ Moves(w, "write", "out")
    /\ current' = Append(current, line) /\ UNCHANGED rotated

\* Faulty variant: an error leaves the mutex locked.
FailKeepingLock(w) == inside[w] # "out" /\ UNCHANGED <<inside, files>>

\* Any step of append may fail: disk full, no permission, file in use.
Fail(w) ==
    /\ inside[w] # "out"
    /\ inside' = [inside EXCEPT ![w] = "out"]
    /\ UNCHANGED files

\* The process ends: the files stay as they are.
LogCrash == inside' = [w \in Writer |-> "out"] /\ UNCHANGED files

LogIdle == UNCHANGED <<files, inside>>
=============================================================================
