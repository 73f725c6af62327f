----------------------------- MODULE ChatAlerts -----------------------------
(***************************************************************************)
(* The polling thread with the alert about users that are not allowed      *)
(* (telegram.rs, AlertThrottle of pc-remote-signing).  The bridge throttles *)
(* its alert about requests that fail authentication by the same code.     *)
(*                                                                         *)
(* The throttle lives in RAM and looks at the time only when it counts.    *)
(***************************************************************************)
EXTENDS TelegramPoll

CONSTANTS Strangers,  \* updates of users that are not allowed
          Threshold,  \* DEFAULT_THRESHOLD: 3
          Interval,   \* DEFAULT_INTERVAL: one hour
          MaxTime     \* bound on the clock

ASSUME AlertAssumption ==
    Strangers \subseteq Nat /\ Threshold \in Nat \ {0} /\ Interval \in Nat /\ MaxTime \in Nat

VARIABLES failures,  \* AlertThrottle.failures
          lastFired, \* AlertThrottle.last_fired, or None
          time,      \* monotonic clock since the start
          strange,   \* history: accesses counted since the start
          told,      \* history: accesses the alerts since the start speak of
          alerts     \* history: alerts since the start

throttle == <<failures, lastFired, time, strange, told, alerts>>
alertVars == <<vars, throttle>>

AlertInit ==
    /\ Init
    /\ failures = 0 /\ lastFired = None /\ time = 0 /\ strange = 0 /\ told = 0 /\ alerts = 0

Quiet == lastFired # None /\ time - lastFired < Interval

\* Faulty variant: what comes in the quiet time is not counted.
CountOutsideQuiet == IF Quiet THEN failures ELSE failures + 1

Counted == failures + 1

\* AlertThrottle::record: with the alert the count starts anew, whether the
\* message can be sent or not.
Record ==
    /\ strange' = strange + 1
    /\ IF Counted < Threshold \/ Quiet
       THEN failures' = Counted /\ UNCHANGED <<lastFired, told, alerts>>
       ELSE /\ told' = told + Counted /\ failures' = 0 /\ lastFired' = time
            /\ alerts' = alerts + 1
    /\ UNCHANGED time

\* The handler of an update is the first to look at the user.
HandleUpdates ==
    /\ ProcessUpdates
    /\ IF handled' # handled /\ handled'[Len(handled')] \in Strangers
       THEN Record ELSE UNCHANGED throttle

TimePasses ==
    /\ time < MaxTime /\ time' = time + 1
    /\ UNCHANGED <<vars, failures, lastFired, strange, told, alerts>>

AlertRestart ==
    /\ Restart
    /\ failures' = 0 /\ lastFired' = None /\ time' = 0 /\ strange' = 0 /\ told' = 0 /\ alerts' = 0

AlertWork ==
    \/ HandleUpdates
    \/ /\ \/ GetUpdates \/ HandlerReturns \/ PollFails \/ BackoffEnds
          \/ \E installed \in BOOLEAN : EnsureRootCa(installed)
       /\ UNCHANGED throttle

AlertNext ==
    \/ AlertWork \/ TimePasses \/ AlertRestart
    \/ (WifiChanges \/ Send) /\ UNCHANGED throttle
    \/ \E spawned \in BOOLEAN : StartTelegram(spawned) /\ UNCHANGED throttle

AlertSpec ==
    /\ AlertInit /\ [][AlertNext]_alertVars
    /\ WF_vars(AlertWork) /\ SF_vars(StartTelegram(TRUE) /\ UNCHANGED throttle)

\* Alerts speak of every access that was counted, once, those of the quiet
\* time included; each speaks of a threshold of them at least, and there is
\* one in each Interval at most (AlertThrottle::record).
AlertsAccountFor ==
    /\ told + failures = strange
    /\ told >= alerts * Threshold
    /\ (alerts - 1) * Interval <= time
=============================================================================
