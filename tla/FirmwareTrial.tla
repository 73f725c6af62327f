--------------------------- MODULE FirmwareTrial ---------------------------
(***************************************************************************)
(* What a firmware update promises.  The device has an installed firmware  *)
(* that works.  Another one is tried only if the owner has approved a      *)
(* version and the bridge has signed that very image under that version;   *)
(* each approval serves once.  A firmware on trial becomes the installed   *)
(* one only if it works; otherwise the installed one comes back, whatever  *)
(* was lost or switched off on the way.                                    *)
(***************************************************************************)
CONSTANTS Image,    \* firmware images
          Version,  \* versions that can be written beside an image
          Works,    \* images that pass their self-test
          None

VARIABLES installed,  \* the firmware that is there to come back to
          trial,      \* the firmware being tried, or None
          approved,   \* version the owner has agreed to, or None
          signed      \* the bridge: <<version, image>> it has vouched for

vars == <<installed, trial, approved, signed>>

Init ==
    /\ installed \in Works
    /\ trial = None /\ approved = None /\ signed = {}

Sign(v, i) ==
    /\ signed' = signed \cup {<<v, i>>}
    /\ approved' \in {approved, None}
    /\ UNCHANGED <<installed, trial>>

Approve(v) ==
    /\ approved' = v
    /\ UNCHANGED <<installed, trial, signed>>

Withdraw ==
    /\ approved' = None
    /\ UNCHANGED <<installed, trial, signed>>

Try(i) ==
    /\ trial = None /\ <<approved, i>> \in signed
    /\ trial' = i /\ approved' = None
    /\ UNCHANGED <<installed, signed>>

Keep ==
    /\ trial \in Works
    /\ installed' = trial /\ trial' = None
    /\ UNCHANGED <<approved, signed>>

Revert ==
    /\ trial # None
    /\ trial' = None
    /\ UNCHANGED <<installed, approved, signed>>

Next ==
    \/ \E v \in Version, i \in Image : Sign(v, i)
    \/ \E v \in Version : Approve(v)
    \/ Withdraw
    \/ \E i \in Image : Try(i)
    \/ Keep
    \/ Revert

Spec == Init /\ [][Next]_vars
=============================================================================
