--------------------------- MODULE OperationGate ---------------------------
(***************************************************************************)
(* What the firmware promises about operations on the PC and on itself,    *)
(* whoever asks for them: the Telegram chat or the touch panel.            *)
(*                                                                         *)
(*  - At most one operation is being carried out at a time.                *)
(*  - A confirmation code is offered once, is the only live one, dies with *)
(*    time, by any use, by /lock and by a restart, and approves exactly    *)
(*    the operation it was offered for.                                    *)
(*  - A settings change, a sleep and a firmware update never happen        *)
(*    without such an approval.                                            *)
(*  - While the gate is closed nothing starts.  Closing it does not abort  *)
(*    the operation that is already under way: the gate is "closing" until *)
(*    that one operation has finished.                                     *)
(*  - Another firmware is started only at the end of an update to it.  It  *)
(*    is then on trial: unless it is kept, the next restart brings back    *)
(*    the one that it replaced.                                            *)
(***************************************************************************)
EXTENDS Naturals

CONSTANTS Nonce,       \* confirmation codes
          Approvable,  \* operations that a code can be offered for
          Direct,      \* operations that may start without a code
          Setting,     \* settings that can be changed from the chat
          Value,       \* values a setting can have
          Version,     \* firmware versions
          Ttl,         \* lifetime of a code, in ticks of the clock
          None         \* no code, no operation

VARIABLES gate,      \* "open", "closing" or "closed"
          live,      \* the live code with what it approves, or None
          used,      \* codes offered so far
          approved,  \* approved operation that has not started, or None
          busy,      \* operation being carried out, or None
          settings,  \* the stored settings
          version,   \* the installed firmware
          fallback   \* the one before it while version is on trial, or None

vars == <<gate, live, used, approved, busy, settings, version, fallback>>

IsChange(op) == op.type = "config"

Init ==
    /\ gate = "open"
    /\ live = None
    /\ used = {}
    /\ approved = None
    /\ busy = None
    /\ settings \in [Setting -> Value]
    /\ version \in Version /\ fallback = None

Offer(n, op) ==
    /\ gate = "open" /\ n \notin used
    /\ live' = [nonce |-> n, op |-> op, left |-> Ttl]
    /\ used' = used \cup {n}
    /\ UNCHANGED <<gate, approved, busy, settings, version, fallback>>

\* Time passes: a code that has reached its last tick is dead.
Age ==
    /\ live # None
    /\ live' = IF live.left = 1 THEN None ELSE [live EXCEPT !.left = @ - 1]
    /\ UNCHANGED <<gate, used, approved, busy, settings, version, fallback>>

\* Cancelled, superseded by a wrong code, or used for another operation.
Withdraw ==
    /\ live # None /\ live' = None
    /\ UNCHANGED <<gate, used, approved, busy, settings, version, fallback>>

Approve(n) ==
    /\ gate = "open" /\ approved = None
    /\ live # None /\ live.nonce = n /\ ~IsChange(live.op)
    /\ approved' = live.op
    /\ live' = None
    /\ UNCHANGED <<gate, used, busy, settings, version, fallback>>

\* A settings change is carried out in the step that approves it; the
\* storage may refuse it.
Apply(n) ==
    /\ gate = "open"
    /\ live # None /\ live.nonce = n /\ IsChange(live.op)
    /\ live' = None
    /\ settings' \in {settings,
                      [settings EXCEPT ![live.op.item] = live.op.value]}
    /\ UNCHANGED <<gate, used, approved, busy, version, fallback>>

StartApproved ==
    /\ gate = "open" /\ busy = None /\ approved # None
    /\ busy' = approved /\ approved' = None
    /\ UNCHANGED <<gate, live, used, settings, version, fallback>>

StartDirect(op) ==
    /\ gate = "open" /\ busy = None
    /\ busy' = op
    /\ UNCHANGED <<gate, live, used, approved, settings, version, fallback>>

Finish ==
    /\ busy # None /\ busy' = None
    /\ gate' = IF gate = "closing" THEN "closed" ELSE gate
    /\ UNCHANGED <<live, used, approved, settings, version, fallback>>

Close ==
    /\ approved = None
    /\ gate' = IF busy = None THEN "closed" ELSE "closing"
    /\ live' = None
    /\ UNCHANGED <<used, approved, busy, settings, version, fallback>>

Open ==
    /\ gate' = "open"
    /\ UNCHANGED <<live, used, approved, busy, settings, version, fallback>>

\* The firmware on trial has proved itself.
Keep ==
    /\ fallback' = None
    /\ UNCHANGED <<gate, live, used, approved, busy, settings, version>>

\* A restart forgets everything but the settings, the two firmwares and what
\* is in the chat.  It is also how an update under way ends.
Restart ==
    /\ gate' = "open" /\ live' = None /\ approved' = None /\ busy' = None
    /\ \/ fallback # None /\ version' = fallback /\ fallback' = None
       \/ fallback = None /\ UNCHANGED <<version, fallback>>
       \/ /\ fallback = None /\ fallback' = version
          /\ busy # None /\ busy = [type |-> "update", to |-> version']
    /\ UNCHANGED <<used, settings>>

Next ==
    \/ \E n \in Nonce : (\E op \in Approvable : Offer(n, op)) \/ Approve(n) \/ Apply(n)
    \/ \E op \in Direct : StartDirect(op)
    \/ Age \/ Withdraw \/ StartApproved \/ Finish \/ Close \/ Open \/ Keep \/ Restart

Spec == Init /\ [][Next]_vars
=============================================================================
