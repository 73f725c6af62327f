-------------------------- MODULE OtaUpdateProofs --------------------------
(***************************************************************************)
(* The firmware update is proved never to leave the device without an      *)
(* image it can come back to, and to implement FirmwareTrial, for any      *)
(* images, versions, sizes and number of changes of the bridge's files.    *)
(*                                                                         *)
(* AlwaysBootable alone is not inductive: it has to be known that the      *)
(* slot being written is not the one that is started (SlotsInOrder), that  *)
(* the image switched to is the one of the manifest (ManifestIsSigned),    *)
(* and that a firmware can only mark itself valid if it works (OnlineWorks). *)
(***************************************************************************)
EXTENDS OtaUpdate, TLAPS

\* Which slot runs, and which is being written.
SlotsInOrder ==
    /\ running # None /\ phase # "applying" => running = boot /\ state[boot] # "new"
    /\ phase = "applying" => boot = Other(running) /\ state[boot] = "new"
    /\ phase \in {"flash", "check"} => state[running] = "valid"

\* What the flash is checked against is what the bridge signed under the
\* version that was agreed to.
ManifestIsSigned ==
    /\ reading # None => manifest = None /\ phase \in {"offer", "recheck"}
    /\ manifest # None => <<manifest.version, manifest.image>> \in signed
    /\ phase \in {"initiate", "flash", "check"} => manifest.version = agreed

\* Only an image that works has ever a connection.
OnlineWorks == wifi => app = "looping" /\ Health[slots[running].image] = "works"

\* The last report before the image is checked counts all that was received.
ReportedAll ==
    phase = "check" => told = OtaProgressPercent(Received, Size[manifest.image])

IInv ==
    /\ TypeOK /\ AlwaysBootable /\ SlotsInOrder /\ ManifestIsSigned /\ OnlineWorks
    /\ ProgressToldInFull /\ ReportedAll

-----------------------------------------------------------------------------
(* Arithmetic of the progress report.                                      *)

\* What has been received in full is reported as 100 %, and nothing as more.
LEMMA PercentInFull ==
    ASSUME NEW total \in Nat \ {0}
    PROVE  OtaProgressPercent(total, total) = 100
  BY DEF OtaProgressPercent

LEMMA PercentBounded ==
    ASSUME NEW total \in Nat \ {0}, NEW received \in Nat
    PROVE  OtaProgressPercent(received, total) \in 0..100
  BY DEF OtaProgressPercent

LEMMA OtherSlot ==
    ASSUME NEW s \in Slot
    PROVE  Other(s) \in Slot /\ Other(s) # s /\ Other(Other(s)) = s
  BY DEF Slot, Other


-----------------------------------------------------------------------------
(* The initial states.                                                     *)

LEMMA InitSafe == Init => IInv
<1> SUFFICES ASSUME Init PROVE IInv
  OBVIOUS
<1> USE OtaAssumption DEF Init, Slot
<1>1. PICK i \in Image :
           slots = [s \in Slot |-> [image |-> i, got |-> IF s = 0 THEN Size[i] ELSE 0]]
  OBVIOUS
<1>2. slots \in [Slot -> Content]
  BY <1>1 DEF Content
<1>3. TypeOK
  BY <1>2 DEF TypeOK
<1>4. AlwaysBootable
  BY DEF AlwaysBootable, Fallback, OnTrial, Whole
<1>5. SlotsInOrder /\ ManifestIsSigned /\ OnlineWorks /\ ProgressToldInFull /\ ReportedAll
  BY DEF SlotsInOrder, ManifestIsSigned, OnlineWorks, ProgressToldInFull, ReportedAll
<1> QED
  BY <1>3, <1>4, <1>5 DEF IInv

-----------------------------------------------------------------------------
(* Steps that leave the slots alone.                                       *)

\* As long as the slots and what runs stay, nothing about booting changes.
LEMMA SlotsStay ==
    ASSUME UNCHANGED <<flash, device>>
    PROVE  /\ AlwaysBootable => AlwaysBootable'
           /\ OnlineWorks => OnlineWorks'
  BY DEF flash, device, AlwaysBootable, Fallback, OnTrial, OnlineWorks

LEMMA BridgeSafe ==
    ASSUME IInv, Bridge PROVE IInv'
<1> USE DEF bridge, flash, device, download, chat
<1>1. AlwaysBootable' /\ OnlineWorks'
  BY SlotsStay DEF IInv, Bridge, PlaceFiles, ReadBin, SignManifest
<1>2. SlotsInOrder' /\ ProgressToldInFull'
  BY DEF IInv, Bridge, PlaceFiles, ReadBin, SignManifest, SlotsInOrder, ProgressToldInFull
<1>3. CASE \E i \in Image \cup {None}, v \in Version : PlaceFiles(i, v)
  BY <1>1, <1>2, <1>3
  DEF IInv, PlaceFiles, TypeOK, ManifestIsSigned, ReportedAll, Received
<1>4. CASE ReadBin
  BY <1>1, <1>2, <1>4
  DEF IInv, ReadBin, TypeOK, ManifestIsSigned, ReportedAll, Received
<1>5. CASE SignManifest
  <2>1. TypeOK'
    BY <1>5 DEF IInv, SignManifest, TypeOK, ManifestIsSigned
  <2>2. ManifestIsSigned'
    BY <1>5 DEF IInv, SignManifest, TypeOK, ManifestIsSigned
  <2>3. ReportedAll'
    BY <1>5 DEF IInv, SignManifest, ManifestIsSigned, ReportedAll
  <2> QED
    BY <1>1, <1>2, <2>1, <2>2, <2>3 DEF IInv
<1> QED
  BY <1>3, <1>4, <1>5 DEF Bridge

\* The steps of the chat thread before the flash, and every failure, only
\* change what is on offer or under way.
LEMMA TalkSafe ==
    ASSUME IInv, UNCHANGED <<bridge, signed, flash, device>>,
           TypeOK', ManifestIsSigned', phase # "applying",
           phase' \notin {"applying", "check"}, phase' = "flash" => phase = "flash",
           told' \in {0, told}
    PROVE  IInv'
<1>1. AlwaysBootable' /\ OnlineWorks'
  BY SlotsStay DEF IInv
<1>2. SlotsInOrder' /\ ProgressToldInFull' /\ ReportedAll'
  BY DEF IInv, flash, device, SlotsInOrder, ProgressToldInFull, ReportedAll
<1> QED
  BY <1>1, <1>2 DEF IInv

LEMMA GiveUpSafe ==
    ASSUME IInv, GiveUp, phase # "applying", UNCHANGED pending,
           UNCHANGED <<bridge, signed, flash, device>>
    PROVE  IInv'
<1>1. TypeOK'
  BY DEF IInv, TypeOK, GiveUp, bridge, flash, device
<1>2. ManifestIsSigned'
  BY DEF ManifestIsSigned, GiveUp
<1> QED
  BY <1>1, <1>2, TalkSafe DEF GiveUp

LEMMA OfferSafe ==
    ASSUME IInv, HandleUpdateCommand \/ OfferUpdate \/ OfferFails \/ PendingEnds
                 \/ Confirm \/ ExecuteConfirmedOtaUpdate \/ RecheckFails
    PROVE  IInv'
<1> USE DEF bridge, flash, device, download
<1>1. CASE HandleUpdateCommand
  <2>1. TypeOK' /\ ManifestIsSigned'
    BY <1>1 DEF HandleUpdateCommand, Online, IInv, TypeOK, ManifestIsSigned
  <2> QED
    BY <1>1, <2>1, TalkSafe DEF HandleUpdateCommand
<1>2. CASE OfferUpdate
  <2>1. pending' \in Version \cup {None}
    BY <1>2 DEF OfferUpdate, IInv, TypeOK
  <2>2. TypeOK' /\ ManifestIsSigned'
    BY <1>2, <2>1 DEF OfferUpdate, IInv, TypeOK, ManifestIsSigned
  <2> QED
    BY <1>2, <2>2, TalkSafe DEF OfferUpdate
<1>3. CASE OfferFails
  <2>1. TypeOK' /\ ManifestIsSigned'
    BY <1>3 DEF OfferFails, IInv, TypeOK, ManifestIsSigned
  <2> QED
    BY <1>3, <2>1, TalkSafe DEF OfferFails
<1>4. CASE PendingEnds
  <2>1. TypeOK' /\ ManifestIsSigned'
    BY <1>4 DEF PendingEnds, IInv, TypeOK, ManifestIsSigned
  <2> QED
    BY <1>4, <2>1, TalkSafe DEF PendingEnds
<1>5. CASE Confirm
  <2>1. TypeOK' /\ ManifestIsSigned'
    BY <1>5 DEF Confirm, IInv, TypeOK, ManifestIsSigned
  <2> QED
    BY <1>5, <2>1, TalkSafe DEF Confirm
<1>6. CASE ExecuteConfirmedOtaUpdate /\ manifest.version = agreed
  <2>1. TypeOK' /\ ManifestIsSigned'
    BY <1>6 DEF ExecuteConfirmedOtaUpdate, IInv, TypeOK, ManifestIsSigned
  <2> QED
    BY <1>6, <2>1, TalkSafe DEF ExecuteConfirmedOtaUpdate
<1>7. CASE ExecuteConfirmedOtaUpdate /\ manifest.version # agreed
  BY <1>7, GiveUpSafe DEF ExecuteConfirmedOtaUpdate
<1>8. CASE RecheckFails
  BY <1>8, GiveUpSafe DEF RecheckFails
<1> QED
  BY <1>1, <1>2, <1>3, <1>4, <1>5, <1>6, <1>7, <1>8

-----------------------------------------------------------------------------
(* The flash.                                                              *)

(* While an image is written, the slot that runs is the one that is        *)
(* started, it is valid and whole, and it is not the one being written.    *)
LEMMA WritingAside ==
    ASSUME IInv, running # None, phase # "applying", state[running] # "pending"
    PROVE  /\ running \in Slot /\ boot = running /\ Other(running) \in Slot
           /\ Other(running) # running
           /\ state[running] = "valid" /\ ~OnTrial /\ Fallback = running
           /\ Whole(slots[running]) /\ Health[slots[running].image] = "works"
  BY OtherSlot DEF IInv, TypeOK, SlotsInOrder, AlwaysBootable, OnTrial, Fallback

\* So what is written there does not matter to AlwaysBootable.
LEMMA WritingSafe ==
    ASSUME IInv, running # None, phase # "applying", state[running] # "pending",
           UNCHANGED <<state, boot, device>>, NEW c,
           slots' = [slots EXCEPT ![Other(running)] = c]
    PROVE  AlwaysBootable' /\ OnlineWorks'
<1>1. slots'[running] = slots[running]
  BY WritingAside DEF IInv, TypeOK
<1>2. AlwaysBootable'
  BY <1>1, WritingAside DEF AlwaysBootable, Fallback, OnTrial
<1>3. OnlineWorks'
  BY <1>1 DEF IInv, OnlineWorks, device
<1> QED
  BY <1>2, <1>3

LEMMA InitiateSafe ==
    ASSUME IInv, InitiateUpdate PROVE IInv'
<1> USE DEF InitiateUpdate
<1>1. running # None /\ phase = "initiate"
  BY DEF IInv, TypeOK
<1>2. slots' = [slots EXCEPT ![Other(running)] = [slots[Other(running)] EXCEPT !.got = 0]]
  OBVIOUS
<1>3. AlwaysBootable' /\ OnlineWorks'
  BY <1>1, <1>2, WritingSafe
<1>4. slots' \in [Slot -> Content]
  BY <1>1, WritingAside DEF IInv, TypeOK, Content
<1>5. TypeOK'
  BY <1>1, <1>4 DEF IInv, TypeOK, bridge, device
<1>6. SlotsInOrder'
  BY <1>1, WritingAside DEF IInv, SlotsInOrder, device
<1>7. ManifestIsSigned' /\ ProgressToldInFull' /\ ReportedAll'
  BY <1>1 DEF IInv, ManifestIsSigned, ProgressToldInFull, ReportedAll
<1> QED
  BY <1>3, <1>5, <1>6, <1>7 DEF IInv

LEMMA GetFirmwareSafe ==
    ASSUME IInv, GetFirmware PROVE IInv'
<1> USE DEF GetFirmware
<1>1. running # None /\ phase = "flash" /\ state[running] = "valid"
  BY DEF IInv, TypeOK, SlotsInOrder
<1>2. AlwaysBootable' /\ OnlineWorks'
  BY <1>1, WritingSafe
<1>3. slots' \in [Slot -> Content]
  BY <1>1, WritingAside DEF IInv, TypeOK, Content
<1>4. TypeOK'
  BY <1>1, <1>3 DEF IInv, TypeOK, bridge, device
<1>5. SlotsInOrder' /\ ManifestIsSigned' /\ ProgressToldInFull' /\ ReportedAll'
  BY <1>1 DEF IInv, SlotsInOrder, ManifestIsSigned, ProgressToldInFull, ReportedAll, device
<1> QED
  BY <1>2, <1>4, <1>5 DEF IInv

LEMMA ReceiveSafe ==
    ASSUME IInv, NEW n \in 1..MaxRead, NEW damaged \in BOOLEAN, ReceiveChunk(n, damaged)
    PROVE  IInv'
<1>1. running # None /\ phase = "flash" /\ state[running] = "valid"
  BY DEF ReceiveChunk, IInv, TypeOK, SlotsInOrder
<1>2. manifest \in [version : Version, image : Image] /\ Size[manifest.image] \in Nat \ {0}
  BY <1>1, OtaAssumption DEF IInv, TypeOK
<1>3. n \in Nat /\ Received \in Nat
  BY <1>1, WritingAside, OtaAssumption DEF IInv, TypeOK, Content, Received
<1>4. CASE Received + n > Size[manifest.image]
  BY <1>1, <1>4, GiveUpSafe DEF ReceiveChunk, bridge, flash
<1>5. CASE ~(Received + n > Size[manifest.image])
  <2>1. PICK c \in Content : slots' = [slots EXCEPT ![Other(running)] = c]
    <3> DEFINE old == slots[Other(running)]
               new == [image |-> IF damaged THEN None ELSE old.image, got |-> old.got + n]
    <3>1. new \in Content
      BY <1>1, <1>3, WritingAside DEF IInv, TypeOK, Content
    <3>2. slots' = [slots EXCEPT ![Other(running)] = new]
      BY <1>5 DEF ReceiveChunk
    <3> QED
      BY <3>1, <3>2
  <2>2. told' \in 0..100
    <3> DEFINE percent == OtaProgressPercent(Received + n, Size[manifest.image])
    <3>1. percent \in 0..100
      <4>1. Received + n \in Nat
        BY <1>3
      <4> QED
        BY <1>2, <4>1, PercentBounded
    <3>2. told' \in {percent, told}
      BY <1>5 DEF ReceiveChunk
    <3>3. told \in 0..100
      BY DEF IInv, TypeOK, ProgressToldInFull
    <3> HIDE DEF percent
    <3> QED
      BY <3>1, <3>2, <3>3
  <2>3. UNCHANGED <<bridge, signed, state, boot, device, pending, phase, agreed, reading,
                    manifest, serving>>
    BY <1>5 DEF ReceiveChunk
  <2>4. AlwaysBootable' /\ OnlineWorks'
    BY <1>1, <2>1, <2>3, WritingSafe
  <2>5. TypeOK'
    BY <1>1, <2>1, <2>2, <2>3, WritingAside DEF IInv, TypeOK, bridge, device
  <2>6. SlotsInOrder' /\ ManifestIsSigned' /\ ProgressToldInFull' /\ ReportedAll'
    BY <1>1, <2>2, <2>3
    DEF IInv, SlotsInOrder, ManifestIsSigned, ProgressToldInFull, ReportedAll, device
  <2> QED
    BY <2>4, <2>5, <2>6 DEF IInv
<1> QED
  BY <1>4, <1>5

LEMMA EndOfBodySafe ==
    ASSUME IInv, EndOfBody PROVE IInv'
<1> USE DEF EndOfBody, flash, device
<1>1. running # None /\ phase = "flash" /\ state[running] = "valid"
  BY DEF IInv, TypeOK, SlotsInOrder
<1>2. manifest \in [version : Version, image : Image] /\ Size[manifest.image] \in Nat \ {0}
  BY <1>1, OtaAssumption DEF IInv, TypeOK
<1>3. Received \in Nat
  BY <1>1, WritingAside DEF IInv, TypeOK, Content, Received
<1>4. told' \in 0..100
  BY <1>2, <1>3, PercentBounded
<1>5. TypeOK'
  BY <1>1, <1>4 DEF IInv, TypeOK, bridge
<1>6. AlwaysBootable' /\ OnlineWorks'
  BY SlotsStay DEF IInv
<1>7. SlotsInOrder' /\ ManifestIsSigned' /\ ProgressToldInFull'
  BY <1>1, <1>4 DEF IInv, SlotsInOrder, ManifestIsSigned, ProgressToldInFull
<1>8. ReportedAll'
  BY DEF ReportedAll, Received
<1> QED
  BY <1>5, <1>6, <1>7, <1>8 DEF IInv

\* The slot that was switched to holds all of the manifest's image, and the
\* one that runs stays beside it.
LEMMA Activated ==
    ASSUME IInv, Activate
    PROVE  /\ running \in Slot /\ boot' = Other(running) /\ boot' # running
           /\ state'[boot'] = "new" /\ state'[running] = "valid"
           /\ OnTrial' /\ Fallback' = running /\ Fallback = running /\ ~OnTrial
           /\ Whole(slots[boot']) /\ slots[boot'].image = manifest.image
           /\ Whole(slots[running]) /\ Health[slots[running].image] = "works"
           /\ state' \in [Slot -> {"none", "new", "pending", "valid", "aborted"}]
           /\ manifest \in [version : Version, image : Image]
<1>1. running # None /\ phase = "check" /\ state[running] = "valid"
  BY DEF Activate, IInv, TypeOK, SlotsInOrder
<1>2. manifest \in [version : Version, image : Image]
  BY <1>1 DEF IInv, TypeOK
<1>3. /\ state' \in [Slot -> {"none", "new", "pending", "valid", "aborted"}]
      /\ state'[Other(running)] = "new" /\ state'[running] = "valid"
      /\ boot' = Other(running)
  BY <1>1, WritingAside DEF Activate, IInv, TypeOK
<1>4. OnTrial' /\ Fallback' = running
  BY <1>1, <1>3, WritingAside, OtherSlot DEF OnTrial, Fallback
<1>5. Whole(slots[Other(running)]) /\ slots[Other(running)].image = manifest.image
  BY <1>2, OtaAssumption DEF Activate, VerifyOtaImage, Whole
<1> QED
  BY <1>1, <1>2, <1>3, <1>4, <1>5, WritingAside

LEMMA ActivateSafe ==
    ASSUME IInv, Activate PROVE IInv'
<1> USE DEF Activate
<1>1. AlwaysBootable'
  BY Activated DEF AlwaysBootable
<1>2. TypeOK'
  BY Activated, OtherSlot DEF IInv, TypeOK, bridge, device, download
<1>3. SlotsInOrder' /\ ManifestIsSigned' /\ OnlineWorks'
  BY Activated DEF IInv, TypeOK, SlotsInOrder, ManifestIsSigned, OnlineWorks, device, download
<1>4. told = 100
  <2>1. Received = Size[manifest.image] /\ Size[manifest.image] \in Nat \ {0}
    BY Activated, OtaAssumption DEF VerifyOtaImage, Received
  <2> QED
    BY <2>1, PercentInFull DEF IInv, ReportedAll
<1>5. ProgressToldInFull' /\ ReportedAll'
  BY <1>4 DEF ProgressToldInFull, ReportedAll, download
<1> QED
  BY <1>1, <1>2, <1>3, <1>5 DEF IInv

LEMMA FlashSafe ==
    ASSUME IInv, InitiateUpdate \/ GetFirmware
                 \/ (\E n \in 1..MaxRead, damaged \in BOOLEAN : ReceiveChunk(n, damaged))
                 \/ EndOfBody \/ Activate \/ RejectImage \/ FlashFails
    PROVE  IInv'
<1>1. CASE RejectImage \/ FlashFails
  BY <1>1, GiveUpSafe DEF RejectImage, FlashFails
<1> QED
  BY <1>1, InitiateSafe, GetFirmwareSafe, ReceiveSafe, EndOfBodySafe, ActivateSafe

-----------------------------------------------------------------------------
(* Restarts and the self-test.                                             *)

LEMMA ResetSafe ==
    ASSUME IInv, Reset PROVE IInv'
<1> USE DEF Reset, flash
<1>1. TypeOK'
  BY DEF IInv, TypeOK, bridge
<1>2. AlwaysBootable'
  BY DEF IInv, AlwaysBootable, Fallback, OnTrial
<1>3. SlotsInOrder' /\ ManifestIsSigned' /\ OnlineWorks' /\ ProgressToldInFull' /\ ReportedAll'
  BY DEF SlotsInOrder, ManifestIsSigned, OnlineWorks, ProgressToldInFull, ReportedAll
<1> QED
  BY <1>1, <1>2, <1>3 DEF IInv

\* The bootloader starts a new slot once; a slot that comes back unmarked is
\* given up for the other one, which is valid.
LEMMA Booted ==
    ASSUME IInv, Bootloader
    PROVE  \/ /\ state[boot] = "pending" /\ boot' = Other(boot) /\ state'[boot'] = "valid"
              /\ boot' = Fallback /\ ~OnTrial' /\ Fallback' = boot'
           \/ /\ state[boot] # "pending" /\ boot' = boot /\ Fallback' = Fallback
              /\ state'[boot] # "new" /\ (OnTrial' <=> OnTrial)
              /\ state'[Fallback] = state[Fallback]
<1> USE DEF Bootloader, IInv, TypeOK, AlwaysBootable, Fallback, OnTrial
<1>1. CASE state[boot] = "pending"
  BY <1>1, OtherSlot
<1>2. CASE state[boot] # "pending"
  BY <1>2, OtherSlot
<1> QED
  BY <1>1, <1>2

LEMMA BootloaderSafe ==
    ASSUME IInv, Bootloader PROVE IInv'
<1> USE DEF Bootloader, chat, download
<1>1. boot' \in Slot /\ phase = "idle"
      /\ state' \in [Slot -> {"none", "new", "pending", "valid", "aborted"}]
  BY OtherSlot DEF IInv, TypeOK
<1>2. TypeOK'
  BY <1>1, OtaAssumption DEF IInv, TypeOK, bridge, Slot
<1>3. AlwaysBootable'
  BY Booted DEF IInv, AlwaysBootable
<1>4. SlotsInOrder'
  BY <1>1, Booted DEF SlotsInOrder, Fallback
<1>5. ManifestIsSigned' /\ OnlineWorks' /\ ProgressToldInFull' /\ ReportedAll'
  BY <1>1
  DEF IInv, TypeOK, ManifestIsSigned, OnlineWorks, ProgressToldInFull, ReportedAll
<1> QED
  BY <1>2, <1>3, <1>4, <1>5 DEF IInv

\* The firmware that marks itself is the one that runs, and it works; while
\* another one waits for the restart, the mark changes nothing.
LEMMA Marked ==
    ASSUME IInv, MarkAppValid
    PROVE  /\ running \in Slot /\ state'[running] = "valid"
           /\ Health[slots[running].image] = "works"
           /\ \/ /\ phase = "applying" /\ UNCHANGED state
              \/ /\ phase # "applying" /\ running = boot /\ ~OnTrial' /\ Fallback' = boot
                 /\ (~OnTrial => UNCHANGED state)
<1> USE DEF MarkAppValid
<1>1. running \in Slot /\ Health[slots[running].image] = "works"
  BY DEF IInv, TypeOK, OnlineWorks, BootSelfTestPassed
<1>2. CASE phase = "applying"
  <2>1. state[running] = "valid"
    BY <1>1, <1>2, OtherSlot
    DEF IInv, SlotsInOrder, AlwaysBootable, Fallback, OnTrial
  <2> QED
    BY <1>1, <1>2, <2>1 DEF IInv, TypeOK
<1>3. CASE phase # "applying"
  <2>1. running = boot
    BY <1>1, <1>3, OtaAssumption DEF IInv, SlotsInOrder, Slot
  <2>2. state'[running] = "valid" /\ ~OnTrial' /\ Fallback' = boot
    BY <1>1, <2>1 DEF IInv, TypeOK, OnTrial, Fallback
  <2>3. ~OnTrial => UNCHANGED state
    BY <2>1 DEF IInv, TypeOK, AlwaysBootable, Fallback
  <2> QED
    BY <1>1, <1>3, <2>1, <2>2, <2>3
<1> QED
  BY <1>2, <1>3

LEMMA MarkSafe ==
    ASSUME IInv, MarkAppValid PROVE IInv'
<1> USE DEF MarkAppValid, chat, download
<1>1. TypeOK'
  BY Marked DEF IInv, TypeOK, bridge
<1>2. AlwaysBootable'
  BY Marked DEF IInv, AlwaysBootable, Fallback, OnTrial
<1>3. SlotsInOrder'
  BY Marked DEF IInv, SlotsInOrder
<1>4. ManifestIsSigned' /\ OnlineWorks' /\ ProgressToldInFull' /\ ReportedAll'
  BY DEF IInv, ManifestIsSigned, OnlineWorks, ProgressToldInFull, ReportedAll, Received
<1> QED
  BY <1>1, <1>2, <1>3, <1>4 DEF IInv

LEMMA RunningSafe ==
    ASSUME IInv, EnterLoop \/ WifiChanges
    PROVE  IInv'
<1> USE DEF EnterLoop, WifiChanges, flash, chat, download
<1>1. TypeOK'
  BY DEF IInv, TypeOK, bridge
<1>2. AlwaysBootable'
  BY DEF IInv, AlwaysBootable, Fallback, OnTrial
<1>3. SlotsInOrder' /\ ManifestIsSigned' /\ ProgressToldInFull' /\ ReportedAll'
  BY DEF IInv, SlotsInOrder, ManifestIsSigned, ProgressToldInFull, ReportedAll, Received
<1>4. OnlineWorks'
  BY DEF IInv, OnlineWorks
<1> QED
  BY <1>1, <1>2, <1>3, <1>4 DEF IInv

LEMMA DeviceSafe ==
    ASSUME IInv, Device \/ RestartSelf PROVE IInv'
  BY ResetSafe, BootloaderSafe, RunningSafe, MarkSafe
  DEF Device, Crash, PowerLoss, RestartSelf

-----------------------------------------------------------------------------
(* Together.                                                               *)

LEMMA StutterSafe ==
    ASSUME IInv, UNCHANGED vars PROVE IInv'
<1> USE DEF vars, bridge, flash, device, chat, download
<1>1. TypeOK' /\ AlwaysBootable' /\ OnlineWorks'
  BY SlotsStay DEF IInv, TypeOK
<1>2. SlotsInOrder' /\ ManifestIsSigned' /\ ProgressToldInFull' /\ ReportedAll'
  BY DEF IInv, SlotsInOrder, ManifestIsSigned, ProgressToldInFull, ReportedAll, Received
<1> QED
  BY <1>1, <1>2 DEF IInv

LEMMA Inductive == IInv /\ [Next]_vars => IInv'
<1> SUFFICES ASSUME IInv, [Next]_vars PROVE IInv'
  OBVIOUS
<1>1. CASE Bridge
  BY <1>1, BridgeSafe
<1>2. CASE Chat
  BY <1>2, OfferSafe, FlashSafe, DeviceSafe DEF Chat
<1>3. CASE Device
  BY <1>3, DeviceSafe
<1>4. CASE UNCHANGED vars
  BY <1>4, StutterSafe
<1> QED
  BY <1>1, <1>2, <1>3, <1>4 DEF Next

LEMMA Safety == Spec => []IInv
  BY InitSafe, Inductive, PTL DEF Spec

(* The phases of the chat thread, the two slots and what the bridge sends   *)
(* stay within their types.                                                *)
THEOREM TypeCorrect == Spec => []TypeOK
<1>1. IInv => TypeOK
  BY DEF IInv
<1> QED
  BY <1>1, Safety, PTL

(* Wherever the power is cut during download_and_flash, the restart or the *)
(* self-test, the slot that is started is whole, and beside an image that  *)
(* has not proved itself there is one that has.                            *)
THEOREM NeverBricked == Spec => []AlwaysBootable
<1>1. IInv => AlwaysBootable
  BY DEF IInv
<1> QED
  BY <1>1, Safety, PTL

(* An image that is applied was reported up to 100 %, and never more, for  *)
(* any sizes of images and reads (the report after the loop).              *)
THEOREM ToldInFull == Spec => []ProgressToldInFull
<1>1. IInv => ProgressToldInFull
  BY DEF IInv
<1> QED
  BY <1>1, Safety, PTL

-----------------------------------------------------------------------------
(* The update implements FirmwareTrial.                                    *)

Installed == slots[Fallback].image
OnTrialImage == IF OnTrial THEN slots[boot].image ELSE None
WorkingImages == {i \in Image : Health[i] = "works"}
TrialStep == Trial!Next \/ UNCHANGED Trial!vars

LEMMA InitRefines == Init => Trial!Init
<1> SUFFICES ASSUME Init PROVE Trial!Init
  OBVIOUS
<1>1. boot = 0 /\ state[boot] = "valid"
  BY DEF Init, Slot
<1>2. ~OnTrial /\ Fallback = 0
  BY <1>1 DEF OnTrial, Fallback
<1>3. slots[0].image \in WorkingImages
  BY DEF Init, Slot, WorkingImages
<1> QED
  BY <1>2, <1>3 DEF Init, Trial!Init, WorkingImages

\* Steps that touch neither the slots nor what the bridge has signed can only
\* approve a version or take the approval back.
LEMMA ApprovalStep ==
    ASSUME UNCHANGED <<signed, Installed, OnTrialImage>>,
           agreed' \in Version \cup {None, agreed}
    PROVE  TrialStep
<1> USE DEF Installed, OnTrialImage
<1>1. CASE agreed' \in Version
  BY <1>1 DEF TrialStep, Trial!Next, Trial!Approve
<1>2. CASE agreed' = None
  BY <1>2 DEF TrialStep, Trial!Next, Trial!Withdraw
<1>3. CASE agreed' = agreed
  BY <1>3 DEF TrialStep, Trial!vars
<1> QED
  BY <1>1, <1>2, <1>3

LEMMA FlashView ==
    ASSUME UNCHANGED flash PROVE UNCHANGED <<Installed, OnTrialImage>>
  BY DEF flash, Installed, OnTrialImage, Fallback, OnTrial

LEMMA BridgeRefines ==
    ASSUME IInv, Bridge PROVE TrialStep
<1>1. UNCHANGED <<Installed, OnTrialImage>>
  BY FlashView DEF Bridge, PlaceFiles, ReadBin, SignManifest
<1>2. CASE SignManifest
  <2>1. Trial!Sign(version, reading)
    BY <1>1, <1>2 DEF SignManifest, Trial!Sign, Installed, OnTrialImage
  <2>2. version \in Version /\ reading \in Image
    BY <1>2 DEF IInv, TypeOK, SignManifest
  <2> QED
    BY <2>1, <2>2 DEF TrialStep, Trial!Next
<1>3. CASE ~SignManifest
  BY <1>1, <1>3, ApprovalStep DEF Bridge, PlaceFiles, ReadBin, chat
<1> QED
  BY <1>2, <1>3

LEMMA TalkRefines ==
    ASSUME IInv, HandleUpdateCommand \/ OfferUpdate \/ OfferFails \/ PendingEnds
                 \/ Confirm \/ ExecuteConfirmedOtaUpdate \/ RecheckFails
                 \/ EndOfBody \/ RejectImage \/ FlashFails
    PROVE  TrialStep
<1> USE DEF HandleUpdateCommand, OfferUpdate, OfferFails, PendingEnds, Confirm,
            ExecuteConfirmedOtaUpdate, RecheckFails, EndOfBody, RejectImage, FlashFails, GiveUp
<1>1. UNCHANGED <<signed, flash>>
  OBVIOUS
<1>2. agreed' \in Version \cup {None, agreed}
  BY DEF IInv, TypeOK
<1> QED
  BY <1>1, <1>2, FlashView, ApprovalStep

\* What is written aside of the slot that runs is neither installed nor on
\* trial.
LEMMA WritingView ==
    ASSUME IInv, running # None, phase # "applying", state[running] # "pending",
           UNCHANGED <<state, boot>>, NEW c,
           slots' = [slots EXCEPT ![Other(running)] = c]
    PROVE  UNCHANGED <<Installed, OnTrialImage>>
<1>1. slots'[running] = slots[running]
  BY WritingAside DEF IInv, TypeOK
<1> QED
  BY <1>1, WritingAside DEF Installed, OnTrialImage, Fallback, OnTrial

LEMMA WritingRefines ==
    ASSUME IInv, InitiateUpdate \/ GetFirmware
                 \/ (\E n \in 1..MaxRead, damaged \in BOOLEAN : ReceiveChunk(n, damaged))
    PROVE  TrialStep
<1> USE DEF InitiateUpdate, GetFirmware, ReceiveChunk, GiveUp
<1>1. running # None /\ phase # "applying" /\ state[running] # "pending"
  BY DEF IInv, TypeOK, SlotsInOrder
<1>2. UNCHANGED <<signed, state, boot>> /\ agreed' \in {None, agreed}
  BY DEF flash
<1>3. PICK c : slots' = [slots EXCEPT ![Other(running)] = c] \/ slots' = slots
  OBVIOUS
<1>4. UNCHANGED <<Installed, OnTrialImage>>
  BY <1>1, <1>2, <1>3, WritingView, FlashView DEF flash
<1> QED
  BY <1>2, <1>4, ApprovalStep

\* The switch tries the image the bridge signed under the approved version.
LEMMA ActivateRefines ==
    ASSUME IInv, Activate PROVE TrialStep
<1>1. <<agreed, manifest.image>> \in signed /\ manifest.image \in Image
  BY Activated, OtaAssumption DEF IInv, ManifestIsSigned, TypeOK, Activate
<1>2. Trial!Try(manifest.image)
  BY <1>1, Activated DEF Activate, Trial!Try
<1> QED
  BY <1>1, <1>2 DEF TrialStep, Trial!Next

LEMMA ResetRefines ==
    ASSUME IInv, Reset PROVE TrialStep
  BY FlashView, ApprovalStep DEF Reset

LEMMA BootloaderRefines ==
    ASSUME IInv, Bootloader PROVE TrialStep
<1>1. CASE state[boot] = "pending"
  <2>1. Trial!Revert
    BY <1>1, Booted, OtaAssumption
    DEF IInv, TypeOK, AlwaysBootable, Whole, OnTrial, Bootloader, chat, Trial!Revert
  <2> QED
    BY <2>1 DEF TrialStep, Trial!Next
<1>2. CASE state[boot] # "pending"
  <2>1. UNCHANGED <<Installed, OnTrialImage, signed, agreed>>
    BY <1>2, Booted DEF Bootloader, Installed, OnTrialImage, chat
  <2> QED
    BY <2>1, ApprovalStep
<1> QED
  BY <1>1, <1>2

\* A firmware that marks itself while on trial is kept.
LEMMA MarkRefines ==
    ASSUME IInv, MarkAppValid PROVE TrialStep
<1>1. CASE UNCHANGED state
  BY <1>1, FlashView, ApprovalStep DEF MarkAppValid, flash, chat
<1>2. CASE ~UNCHANGED state
  <2>1. OnTrial /\ ~OnTrial' /\ Fallback' = boot /\ Health[slots[boot].image] = "works"
    BY <1>2, Marked
  <2>2. slots[boot].image \in Image
    BY OtaAssumption DEF IInv, TypeOK, AlwaysBootable, Whole, Content
  <2>3. Trial!Keep
    BY <2>1, <2>2 DEF MarkAppValid, chat, Trial!Keep
  <2> QED
    BY <2>3 DEF TrialStep, Trial!Next
<1> QED
  BY <1>1, <1>2

LEMMA DeviceRefines ==
    ASSUME IInv, Device \/ RestartSelf PROVE TrialStep
<1>1. CASE EnterLoop \/ WifiChanges
  BY <1>1, FlashView, ApprovalStep DEF EnterLoop, WifiChanges, chat
<1> QED
  BY <1>1, ResetRefines, BootloaderRefines, MarkRefines
  DEF Device, Crash, PowerLoss, RestartSelf

LEMMA StepRefines == IInv /\ [Next]_vars => [Trial!Next]_(Trial!vars)
<1> SUFFICES ASSUME IInv, [Next]_vars PROVE TrialStep
  BY DEF TrialStep
<1>1. CASE Bridge
  BY <1>1, BridgeRefines
<1>2. CASE Chat
  BY <1>2, TalkRefines, WritingRefines, ActivateRefines, DeviceRefines DEF Chat
<1>3. CASE Device
  BY <1>3, DeviceRefines
<1>4. CASE UNCHANGED vars
  BY <1>4, FlashView, ApprovalStep DEF vars, chat
<1> QED
  BY <1>1, <1>2, <1>3, <1>4 DEF Next

(* The update implements FirmwareTrial for any images and any changes of    *)
(* the bridge's files: only an image signed under the approved version is  *)
(* tried, once per approval, and it is kept only if it works.              *)
THEOREM TrialImplemented == Spec => UpdateContract
  BY InitRefines, StepRefines, Safety, PTL DEF Spec, UpdateContract, Trial!Spec

-----------------------------------------------------------------------------
(* What the promise of FirmwareTrial comes to for the slots.               *)

\* The bridge has signed the image, under some version.
Vouched(i) == \E v \in Version : <<v, i>> \in signed

\* Whatever is tried was signed; nothing else is ever started as a trial.
OnlySignedTried == OnTrial => Vouched(slots[boot].image)

\* A trial begins under the version that was agreed to, and uses it up.
TriedAsAgreed ==
    [][~OnTrial /\ OnTrial'
       => agreed # None /\ agreed' = None /\ <<agreed, slots'[boot'].image>> \in signed]_vars

\* The firmware to come back to is replaced by one thing only: the one that
\* was on trial, which works.
OnlyTriedKept ==
    [][Installed' # Installed
       => OnTrial /\ Installed' = slots[boot].image /\ Installed' \in WorkingImages /\ ~OnTrial']_vars

LEMMA TrialChanges ==
    ASSUME TrialStep
    PROVE  /\ signed \subseteq signed'
           /\ OnTrialImage' # OnTrialImage /\ OnTrialImage' # None => Trial!Try(OnTrialImage')
           /\ Installed' # Installed => Trial!Keep
<1> USE DEF OnTrialImage, Installed
<1>1. CASE \E i \in Image : Trial!Try(i)
  BY <1>1 DEF Trial!Try
<1>2. CASE Trial!Keep \/ Trial!Revert
  BY <1>2 DEF Trial!Keep, Trial!Revert
<1>3. CASE \E v \in Version, i \in Image : Trial!Sign(v, i)
  BY <1>3 DEF Trial!Sign
<1>4. CASE (\E v \in Version : Trial!Approve(v)) \/ Trial!Withdraw \/ UNCHANGED Trial!vars
  BY <1>4 DEF Trial!Approve, Trial!Withdraw, Trial!vars
<1> QED
  BY <1>1, <1>2, <1>3, <1>4 DEF TrialStep, Trial!Next

\* An image on trial is one: the slot that is started is never empty.
OneIsTried ==
    /\ OnTrial => OnTrialImage = slots[boot].image /\ OnTrialImage # None
    /\ ~OnTrial => OnTrialImage = None

LEMMA TriedIsSome == (IInv => OneIsTried) /\ (IInv' => OneIsTried')
  BY DEF IInv, AlwaysBootable, Whole, OnTrialImage, OneIsTried

\* A firmware is tried only if the bridge has signed that very image, over
\* any restarts and whatever was exchanged on the bridge in between
\* (download_and_flash, verify_ota_image).
THEOREM TriedWasSigned == Spec => []OnlySignedTried
<1>1. Init => OnlySignedTried
  BY DEF Init, OnlySignedTried, OnTrial, Slot
<1>2. IInv /\ IInv' /\ OnlySignedTried /\ [Next]_vars => OnlySignedTried'
  <2> SUFFICES ASSUME IInv, IInv', OnlySignedTried, [Next]_vars, OnTrial'
               PROVE  Vouched(slots[boot].image)'
    BY DEF OnlySignedTried
  <2>1. TrialStep
    BY StepRefines DEF TrialStep
  <2>2. OnTrialImage' = slots'[boot'].image /\ OnTrialImage' # None
    BY TriedIsSome DEF OneIsTried
  <2>3. CASE OnTrialImage' = OnTrialImage
    <3>1. OnTrial /\ slots[boot].image = slots'[boot'].image
      BY <2>2, <2>3, TriedIsSome DEF OneIsTried
    <3> QED
      BY <2>1, <3>1, TrialChanges DEF OnlySignedTried, Vouched
  <2>4. CASE OnTrialImage' # OnTrialImage
    <3>1. <<agreed, slots'[boot'].image>> \in signed /\ signed' = signed
      BY <2>1, <2>2, <2>4, TrialChanges DEF Trial!Try
    <3>2. agreed \in Version
      BY <3>1 DEF IInv, TypeOK
    <3> QED
      BY <3>1, <3>2 DEF Vouched
  <2> QED
    BY <2>3, <2>4
<1> QED
  BY <1>1, <1>2, Safety, PTL DEF Spec

\* A trial begins only under the version the owner agreed to, for which the
\* bridge signed that image, and one agreement serves for one trial
\* (execute_confirmed_ota_update, run_ota_update).
THEOREM TrialsAreAgreed == Spec => TriedAsAgreed
<1>1. IInv /\ IInv' /\ [Next]_vars /\ ~OnTrial /\ OnTrial'
      => agreed # None /\ agreed' = None /\ <<agreed, slots'[boot'].image>> \in signed
  <2> SUFFICES ASSUME IInv, IInv', [Next]_vars, ~OnTrial, OnTrial'
               PROVE  agreed # None /\ agreed' = None /\ <<agreed, slots'[boot'].image>> \in signed
    OBVIOUS
  <2>1. OnTrialImage = None
    BY TriedIsSome DEF OneIsTried
  <2>2. OnTrialImage' = slots'[boot'].image /\ OnTrialImage' # None
    BY TriedIsSome DEF OneIsTried
  <2>3. Trial!Try(OnTrialImage')
    BY <2>1, <2>2, StepRefines, TrialChanges DEF TrialStep
  <2>4. <<agreed, slots'[boot'].image>> \in signed /\ agreed' = None
    BY <2>2, <2>3 DEF Trial!Try
  <2>5. agreed # None
    BY <2>4, OtaAssumption DEF IInv, TypeOK
  <2> QED
    BY <2>4, <2>5
<1> QED
  BY <1>1, Safety, PTL DEF Spec, TriedAsAgreed

\* The firmware there is to come back to is replaced by nothing but one that
\* was on trial and works: no download, crash or power loss changes it
\* (mark_app_valid_after_self_test).
THEOREM KeptWasTried == Spec => OnlyTriedKept
<1>1. IInv /\ IInv' /\ [Next]_vars /\ Installed' # Installed
      => OnTrial /\ Installed' = slots[boot].image /\ Installed' \in WorkingImages /\ ~OnTrial'
  <2> SUFFICES ASSUME IInv, IInv', [Next]_vars, Installed' # Installed
               PROVE  OnTrial /\ Installed' = slots[boot].image /\ Installed' \in WorkingImages /\ ~OnTrial'
    OBVIOUS
  <2>1. Trial!Keep
    BY StepRefines, TrialChanges DEF TrialStep
  <2>2. OnTrialImage \in WorkingImages /\ Installed' = OnTrialImage /\ OnTrialImage' = None
    BY <2>1 DEF Trial!Keep, OnTrialImage, Installed, WorkingImages
  <2>3. OnTrialImage # None
    BY <2>2, OtaAssumption DEF WorkingImages
  <2>4. OnTrial' => OnTrialImage' # None
    BY TriedIsSome DEF OneIsTried
  <2> QED
    BY <2>2, <2>3, <2>4, TriedIsSome DEF OneIsTried
<1> QED
  BY <1>1, Safety, PTL DEF Spec, OnlyTriedKept

-----------------------------------------------------------------------------
(* A trial ends.                                                           *)

\* A firmware that is in its loop does not fall over, and one on trial has
\* not been marked.
LoopRuns == app = "looping" => Health[slots[running].image] # "crashes"

TrialUnmarked == app = "looping" /\ state[running] = "pending" => ~validated

StartsUnmarked == app # "looping" => ~validated

Live == IInv /\ LoopRuns /\ TrialUnmarked /\ StartsUnmarked

\* The bridge and the chat change nothing that runs, but by a restart.
LEMMA ChatAside ==
    ASSUME IInv, Bridge \/ (Chat /\ ~RestartSelf)
    PROVE  /\ UNCHANGED <<running, app, validated>>
           /\ running # None => slots'[running] = slots[running] /\ state'[running] = state[running]
           /\ OnTrial => UNCHANGED <<slots, state, boot>>
<1>1. CASE Bridge
  BY <1>1 DEF Bridge, PlaceFiles, ReadBin, SignManifest, flash, device
<1>2. CASE HandleUpdateCommand \/ OfferUpdate \/ OfferFails \/ PendingEnds \/ Confirm
           \/ ExecuteConfirmedOtaUpdate \/ RecheckFails
  BY <1>2 DEF HandleUpdateCommand, OfferUpdate, OfferFails, PendingEnds, Confirm,
              ExecuteConfirmedOtaUpdate, RecheckFails, flash, device
<1>3. CASE EndOfBody \/ RejectImage \/ FlashFails
  BY <1>3 DEF EndOfBody, RejectImage, FlashFails, flash, device
<1>4. CASE InitiateUpdate \/ GetFirmware \/ Activate
           \/ \E n \in 1..MaxRead, damaged \in BOOLEAN : ReceiveChunk(n, damaged)
  <2>1. /\ phase \in {"initiate", "flash", "check"} /\ UNCHANGED device
        /\ phase = "initiate" => state[running] # "pending"
    BY <1>4 DEF InitiateUpdate, GetFirmware, Activate, ReceiveChunk
  <2>2. running \in Slot /\ running = boot /\ ~OnTrial
    BY <2>1 DEF IInv, TypeOK, SlotsInOrder, OnTrial
  <2>3. slots'[running] = slots[running] /\ state'[running] = state[running]
    BY <1>4, <2>2, OtherSlot
    DEF IInv, TypeOK, InitiateUpdate, GetFirmware, Activate, ReceiveChunk, flash
  <2> QED
    BY <2>1, <2>2, <2>3 DEF device
<1> QED
  BY <1>1, <1>2, <1>3, <1>4 DEF Chat

LEMMA LiveInductive ==
    /\ Init => Live
    /\ Live /\ [Next]_vars => Live'
<1>1. Init => Live
  BY InitSafe DEF Init, Live, LoopRuns, TrialUnmarked, StartsUnmarked
<1>2. ASSUME Live, [Next]_vars PROVE Live'
  <2> USE DEF Live, LoopRuns, TrialUnmarked, StartsUnmarked
  <2>1. IInv'
    BY <1>2, Inductive
  <2>2. CASE Bridge \/ (Chat /\ ~RestartSelf)
    <3>1. app = "looping" => running # None
      BY <1>2 DEF IInv, TypeOK
    <3> QED
      BY <1>2, <2>1, <2>2, <3>1, ChatAside
  <2>3. CASE RestartSelf \/ Crash \/ PowerLoss
    BY <2>1, <2>3 DEF RestartSelf, Crash, PowerLoss, Reset
  <2>4. CASE Bootloader
    BY <1>2, <2>1, <2>4 DEF Bootloader, IInv, TypeOK
  <2>5. CASE EnterLoop
    BY <1>2, <2>1, <2>5 DEF EnterLoop, flash
  <2>6. CASE WifiChanges
    BY <1>2, <2>1, <2>6 DEF WifiChanges, flash
  <2>7. CASE MarkAppValid
    BY <1>2, <2>1, <2>7 DEF MarkAppValid, IInv, TypeOK
  <2>8. CASE UNCHANGED vars
    BY <1>2, <2>1, <2>8 DEF vars, flash, device
  <2> QED
    BY <1>2, <2>2, <2>3, <2>4, <2>5, <2>6, <2>7, <2>8 DEF Next, Device
<1> QED
  BY <1>1, <1>2

LEMMA AlwaysLive == Spec => []Live
  BY LiveInductive, PTL DEF Spec

\* The stages of a trial of a firmware that falls over or works.
Tried == OnTrial /\ Health[slots[boot].image] # "offline"
Applying == Tried /\ state[boot] = "new" /\ running # None
ToStart == Tried /\ state[boot] = "new" /\ running = None
Starting == Tried /\ state[boot] = "pending" /\ app = "starting"
Looping == Tried /\ state[boot] = "pending" /\ app = "looping"
ToRevert == Tried /\ state[boot] = "pending" /\ running = None
Falls == Health[slots[boot].image] = "crashes"

LEMMA TrialStages ==
    ASSUME Live
    PROVE  /\ Tried <=> Applying \/ ToStart \/ Starting \/ Looping \/ ToRevert
           /\ Applying => phase = "applying"
           /\ Starting \/ Looping => running = boot
           /\ Looping => ~validated /\ Health[slots[running].image] = "works"
  BY OtaAssumption
     DEF Live, LoopRuns, TrialUnmarked, IInv, TypeOK, SlotsInOrder, Tried, Applying, ToStart,
         Starting, Looping, ToRevert, OnTrial, Content, AlwaysBootable, Whole

\* Where each step of the system leaves a trial.
LEMMA TrialSteps ==
    ASSUME Live, [Next]_vars
    PROVE  /\ Applying => Applying' \/ ToStart'
           /\ ToStart => ToStart' \/ Starting'
           /\ Starting => Starting' \/ Looping' \/ ToRevert'
           /\ Looping => Looping' \/ ToRevert' \/ ~OnTrial'
           /\ ToRevert => ToRevert' \/ ~OnTrial'
           /\ OnTrial /\ OnTrial' => (Falls' <=> Falls)
<1> USE DEF Tried, Applying, ToStart, Starting, Looping, ToRevert, OnTrial, Falls
<1>1. CASE Bridge \/ (Chat /\ ~RestartSelf)
  BY <1>1, ChatAside DEF Live
<1>2. CASE RestartSelf \/ Crash \/ PowerLoss
  BY <1>2 DEF RestartSelf, Crash, PowerLoss, Reset, flash
<1>3. CASE Bootloader
  BY <1>3, OtherSlot, Booted DEF Bootloader, Live, IInv, TypeOK
<1>4. CASE EnterLoop
  BY <1>4 DEF EnterLoop, flash
<1>5. CASE WifiChanges
  BY <1>5 DEF WifiChanges, flash
<1>6. CASE MarkAppValid
  <2>1. CASE phase = "applying"
    BY <1>6, <2>1, OtherSlot DEF MarkAppValid, Live, IInv, TypeOK, SlotsInOrder
  <2>2. CASE phase # "applying"
    <3>1. running = boot /\ app = "looping" /\ state' = [state EXCEPT ![boot] = "valid"]
      BY <1>6, <2>2 DEF MarkAppValid, Live, IInv, TypeOK, SlotsInOrder
    <3>2. state'[boot'] = "valid" /\ state[boot] # "new"
      BY <1>6, <2>2, <3>1 DEF MarkAppValid, Live, IInv, TypeOK, SlotsInOrder
    <3> QED
      BY <1>6, <3>1, <3>2 DEF MarkAppValid, Live, IInv, TypeOK
  <2> QED
    BY <2>1, <2>2
<1>7. CASE UNCHANGED vars
  BY <1>7 DEF vars, flash, device
<1> QED
  BY <1>1, <1>2, <1>3, <1>4, <1>5, <1>6, <1>7 DEF Next, Device

\* What the steps that are certain to come do to a trial.
LEMMA TrialProgress ==
    ASSUME Live
    PROVE  /\ RestartSelf => ~Applying'
           /\ Bootloader => (ToStart => ~ToStart') /\ (ToRevert => ~OnTrial')
           /\ Crash => ~Starting'
           /\ EnterLoop => ~Starting'
           /\ MarkAppValid => (Looping => ~OnTrial')
<1> USE DEF Tried, Applying, ToStart, Starting, Looping, ToRevert
<1>1. RestartSelf => ~Applying'
  BY DEF RestartSelf, Reset
<1>2. Crash => ~Starting'
  BY DEF Crash, Reset
<1>3. EnterLoop => ~Starting'
  BY DEF EnterLoop
<1>4. Bootloader => (ToStart => ~ToStart') /\ (ToRevert => ~OnTrial')
  BY OtaAssumption, Booted DEF Bootloader, Live, IInv, TypeOK, Slot
<1>5. MarkAppValid => (Looping => ~OnTrial')
  BY Marked DEF Live, IInv, SlotsInOrder
<1> QED
  BY <1>1, <1>2, <1>3, <1>4, <1>5

Wifi == wifi

\* The hypothesis of TrialIsDecided: that the guards of a step are all that
\* holds it back.  None of these steps waits for a lock or a thread, so it says
\* no more than what is ENABLED, which the provers do not reason about.
DeviceCanGoOn ==
    /\ running = None => ENABLED <<Bootloader>>_vars
    /\ app = "starting" => \/ Health[slots[running].image] # "crashes" /\ ENABLED <<EnterLoop>>_vars
                           \/ Health[slots[running].image] = "crashes" /\ ENABLED <<Crash>>_vars
    /\ app = "looping" /\ Health[slots[running].image] = "works" /\ ~wifi
          => ENABLED <<~wifi /\ WifiChanges>>_vars
    /\ app = "looping" /\ wifi /\ ~validated => ENABLED <<MarkAppValid>>_vars
    /\ phase = "applying" => ENABLED <<RestartSelf>>_vars

(* A firmware on trial that falls over or works is decided upon            *)
(* (TrialEnds; the bootloader, mark_app_valid), however often the power is *)
(* cut: a new slot is started once, then either its firmware is marked or  *)
(* the other slot comes back.                                              *)
THEOREM TrialIsDecided == FairSpec /\ []DeviceCanGoOn => TrialEnds
<1>1. Live /\ [Next]_vars
      => /\ Applying => Applying' \/ ToStart'
         /\ ToStart => ToStart' \/ Starting'
         /\ Starting => Starting' \/ Looping' \/ ToRevert'
         /\ Looping => Looping' \/ ToRevert' \/ ~OnTrial'
         /\ ToRevert => ToRevert' \/ ~OnTrial'
         /\ Starting /\ Starting' => (Falls' <=> Falls)
  BY TrialSteps DEF Starting, Tried
<1>2. Live
      => /\ <<RestartSelf>>_vars => ~Applying'
         /\ <<Bootloader>>_vars => (ToStart => ~ToStart') /\ (ToRevert => ~OnTrial')
         /\ <<Crash>>_vars => ~Starting'
         /\ <<EnterLoop>>_vars => ~Starting'
         /\ <<MarkAppValid>>_vars => (Looping => ~OnTrial')
  BY TrialProgress
<1>3. <<~wifi /\ WifiChanges>>_vars => Wifi'
  BY DEF WifiChanges, Wifi
<1>4. Live /\ DeviceCanGoOn
      => /\ Applying => ENABLED <<RestartSelf>>_vars
         /\ ToStart \/ ToRevert => ENABLED <<Bootloader>>_vars
         /\ Starting /\ Falls => ENABLED <<Crash>>_vars
         /\ Starting /\ ~Falls => ENABLED <<EnterLoop>>_vars
         /\ Looping /\ ~Wifi => ENABLED <<~wifi /\ WifiChanges>>_vars
         /\ Looping /\ Wifi => ENABLED <<MarkAppValid>>_vars
  BY TrialStages DEF DeviceCanGoOn, ToStart, ToRevert, Starting, Looping, Falls, Wifi
<1>5. Live => (Tried <=> Applying \/ ToStart \/ Starting \/ Looping \/ ToRevert)
  BY TrialStages
<1>6. ~(Applying /\ ~OnTrial) /\ ~(ToRevert /\ ~OnTrial) /\ ~(Looping /\ ~OnTrial)
  BY DEF Applying, ToRevert, Looping, Tried
<1>7. TrialEnds <=> (Tried ~> ~OnTrial)
  BY PTL DEF TrialEnds, Tried
<1>8. FairSpec /\ []DeviceCanGoOn => (ToRevert ~> ~OnTrial)
  BY <1>1, <1>2, <1>4, <1>6, AlwaysLive, PTL DEF FairSpec, Spec, Fairness
<1>9. FairSpec /\ []DeviceCanGoOn => (Looping ~> ToRevert \/ ~OnTrial)
  BY <1>1, <1>2, <1>3, <1>4, <1>6, AlwaysLive, PTL DEF FairSpec, Spec, Fairness
<1>10. FairSpec /\ []DeviceCanGoOn => (Starting ~> Looping \/ ToRevert)
  BY <1>1, <1>2, <1>4, AlwaysLive, PTL DEF FairSpec, Spec, Fairness
<1>11. FairSpec /\ []DeviceCanGoOn => (ToStart ~> Starting)
  BY <1>1, <1>2, <1>4, AlwaysLive, PTL DEF FairSpec, Spec, Fairness
<1>12. FairSpec /\ []DeviceCanGoOn => (Applying ~> ToStart)
  BY <1>1, <1>2, <1>4, AlwaysLive, PTL DEF FairSpec, Spec, Fairness
<1> QED
  BY <1>5, <1>7, <1>8, <1>9, <1>10, <1>11, <1>12, AlwaysLive, PTL DEF FairSpec
=============================================================================
