----------------------------- MODULE OtaUpdate -----------------------------
(***************************************************************************)
(* The firmware update: the two files the bridge serves (firmware.rs), the *)
(* chat thread that offers, confirms, downloads and flashes (telegram.rs,  *)
(* ota.rs), the self-test of the UI loop (main.rs), and the two slots with *)
(* the bootloader's rollback.                                              *)
(*                                                                         *)
(* The power lock and the confirmation code with its deadline are the      *)
(* subject of PowerControl: here an offer is the version it names.  A      *)
(* SHA-256 is the image it is taken from; a signature is the pair of       *)
(* version and image it covers.  A body that does not arrive, does not     *)
(* parse or does not carry the bridge's signature is a failed request.     *)
(***************************************************************************)
EXTENDS Versions, FiniteSets

CONSTANTS Image,       \* firmware images
          Version,     \* texts firmware.version may hold
          Unknown,     \* UNKNOWN_VERSION of the bridge: no such file
          Size,        \* image -> its size, in reads of OTA_CHUNK_SIZE
          VersionOf,   \* image -> FIRMWARE_VERSION built into it
          Health,      \* image -> "works", "crashes" or is "offline"
          Step,        \* OTA_PROGRESS_STEP_PERCENT
          MaxRead,     \* bound on the units one read returns
          MaxSwaps,    \* bound on the changes of the bridge's files
          None

ASSUME OtaAssumption ==
    /\ Unknown \in Version
    /\ Size \in [Image -> Nat \ {0}]
    /\ Health \in [Image -> {"works", "crashes", "offline"}]
    /\ Step \in Nat /\ MaxRead \in Nat /\ MaxSwaps \in Nat
    /\ None \notin Image /\ None \notin Version /\ None \notin {0, 1}

VARIABLES bin,       \* bridge: firmware.bin, or None
          version,   \* bridge: firmware.version
          swaps,     \* bridge: changes of the files so far
          signed,    \* bridge: <<version, image>> of the manifests it signed
          slots,     \* flash: what each app slot holds
          state,     \* otadata: the state of each slot
          boot,      \* otadata: the slot the bootloader starts
          running,   \* the slot that runs, or None while resetting
          app,       \* where its main is
          wifi,      \* Status.wifi_connected
          validated, \* ota_validated of the UI loop
          phase,     \* where the chat thread is in an update
          pending,   \* PendingKind::FirmwareUpdate: version on offer
          agreed,    \* confirmed version of the update under way
          reading,   \* bridge: image read for the manifest being built
          manifest,  \* the manifest the flash is checked against
          serving,   \* image the bridge sends as the body of GET /firmware
          told       \* last percentage given to on_progress

bridge == <<bin, version, swaps>>
flash == <<slots, state, boot>>
device == <<running, app, wifi, validated>>
download == <<reading, manifest, serving, told>>
chat == <<phase, pending, agreed, download>>
vars == <<bridge, signed, flash, device, chat>>

Slot == {0, 1}
Other(s) == 1 - s
\* The image the bytes in a slot belong to, or None, and how many there are.
Content == [image : Image \cup {None}, got : Nat]
Whole(c) == c.image # None /\ c.got = Size[c.image]

TypeOK ==
    /\ bin \in Image \cup {None} /\ version \in Version /\ swaps \in Nat
    /\ signed \subseteq (Version \X Image)
    /\ slots \in [Slot -> Content] /\ boot \in Slot
    /\ state \in [Slot -> {"none", "new", "pending", "valid", "aborted"}]
    /\ running \in Slot \cup {None}
    /\ app \in {"off", "starting", "looping"}
    /\ wifi \in BOOLEAN /\ validated \in BOOLEAN
    /\ phase \in {"idle", "offer", "recheck", "initiate", "flash", "check", "applying"}
    /\ pending \in Version \cup {None} /\ agreed \in Version \cup {None}
    /\ reading \in Image \cup {None} /\ serving \in Image \cup {None}
    /\ manifest \in [version : Version, image : Image] \cup {None}
    /\ told \in Nat
    /\ agreed # None <=> phase \in {"recheck", "initiate", "flash", "check"}
    /\ phase \in {"initiate", "flash", "check", "applying"} => manifest # None
    /\ phase # "idle" => app = "looping"
    /\ app = "off" <=> running = None

\* The device left the factory, or the last update, with a working image.
Init ==
    /\ bin \in Image \cup {None} /\ version \in Version /\ swaps = 0 /\ signed = {}
    /\ \E i \in Image :
         /\ Health[i] = "works"
         /\ slots = [s \in Slot |-> [image |-> i, got |-> IF s = 0 THEN Size[i] ELSE 0]]
    /\ state = [s \in Slot |-> IF s = 0 THEN "valid" ELSE "none"]
    /\ boot = 0 /\ running = None /\ app = "off" /\ wifi = FALSE /\ validated = FALSE
    /\ phase = "idle" /\ pending = None /\ agreed = None
    /\ reading = None /\ manifest = None /\ serving = None /\ told = 0

-----------------------------------------------------------------------------
(* The bridge: the owner replaces firmware.bin, firmware.version or both   *)
(* between two accesses of the bridge, or takes firmware.bin away.         *)

PlaceFiles(i, v) ==
    /\ swaps < MaxSwaps
    /\ bin' = i /\ version' = v /\ swaps' = swaps + 1
    /\ UNCHANGED <<signed, flash, device, chat>>

\* build_manifest reads firmware.bin first ...
ReadBin ==
    /\ phase \in {"offer", "recheck"} /\ wifi
    /\ reading = None /\ manifest = None /\ bin # None
    /\ reading' = bin
    /\ UNCHANGED <<bridge, signed, flash, device, phase, pending, agreed, manifest, serving,
                   told>>

\* ... then firmware.version, and signs the two together.
SignManifest ==
    /\ reading # None
    /\ manifest' = [version |-> version, image |-> reading]
    /\ signed' = signed \cup {<<version, reading>>}
    /\ reading' = None
    /\ UNCHANGED <<bridge, flash, device, phase, pending, agreed, serving, told>>

-----------------------------------------------------------------------------
(* The chat thread, from /update to the confirmation.                      *)

Online == app = "looping" /\ wifi

HandleUpdateCommand ==
    /\ phase = "idle" /\ Online
    /\ phase' = "offer"
    /\ UNCHANGED <<bridge, signed, flash, device, pending, agreed, download>>

\* The manifest has arrived: the same version is not offered.
OfferUpdate ==
    /\ phase = "offer" /\ manifest # None /\ wifi
    /\ pending' = IF ShowsConfirmButton(CompareVersions(VersionOf[slots[running].image], manifest.version))
                  THEN manifest.version ELSE pending
    /\ phase' = "idle" /\ manifest' = None
    /\ UNCHANGED <<bridge, signed, flash, device, agreed, reading, serving, told>>

\* An error of fetch_verified_manifest in /update: nothing is offered.
OfferFails ==
    /\ phase = "offer"
    /\ phase' = "idle" /\ reading' = None /\ manifest' = None
    /\ UNCHANGED <<bridge, signed, flash, device, pending, agreed, serving, told>>

\* Cancelled, out of time, or replaced by another confirmation.
PendingEnds ==
    /\ pending # None /\ phase = "idle"
    /\ pending' = None
    /\ UNCHANGED <<bridge, signed, flash, device, phase, agreed, download>>

\* The code or the button of the offer: the manifest is fetched again.
Confirm ==
    /\ phase = "idle" /\ pending # None /\ app = "looping"
    /\ pending' = None /\ agreed' = pending
    /\ phase' = "recheck"
    /\ UNCHANGED <<bridge, signed, flash, device, download>>

\* The user is told the error and has to begin again from /update.
GiveUp ==
    /\ phase' = "idle" /\ agreed' = None
    /\ reading' = None /\ manifest' = None /\ serving' = None /\ told' = 0

\* The version must still be the confirmed one; this manifest is then used
\* for the flash and is not fetched again.
ExecuteAnyVersion ==  \* faulty (#189): the version of the new manifest is not compared
    /\ phase = "recheck" /\ manifest # None /\ wifi
    /\ phase' = "initiate"
    /\ UNCHANGED <<bridge, signed, flash, device, pending, agreed, download>>
ExecuteConfirmedOtaUpdate ==
    /\ phase = "recheck" /\ manifest # None /\ wifi
    /\ IF manifest.version = agreed
       THEN phase' = "initiate" /\ UNCHANGED <<agreed, download>>
       ELSE GiveUp
    /\ UNCHANGED <<bridge, signed, flash, device, pending>>

RecheckFails ==
    /\ phase = "recheck"
    /\ GiveUp
    /\ UNCHANGED <<bridge, signed, flash, device, pending>>

-----------------------------------------------------------------------------
(* download_and_flash.                                                     *)

\* initiate_update erases the slot that does not run.  ESP-IDF refuses while
\* the running firmware has not passed its own self-test.
InitiateUpdate ==
    /\ phase = "initiate" /\ state[running] # "pending"
    /\ slots' = [slots EXCEPT ![Other(running)].got = 0]
    /\ phase' = "flash" /\ told' = 0
    /\ UNCHANGED <<bridge, signed, state, boot, device, pending, agreed, reading, manifest,
                   serving>>

\* GET /firmware: one read of the file is the whole body.
GetFirmware ==
    /\ phase = "flash" /\ serving = None /\ bin # None /\ wifi
    /\ serving' = bin
    /\ slots' = [slots EXCEPT ![Other(running)] = [image |-> bin, got |-> 0]]
    /\ UNCHANGED <<bridge, signed, state, boot, device, phase, pending, agreed, reading,
                   manifest, told>>

Received == slots[Other(running)].got
OtaProgressPercent(received, total) ==
    ((IF received < total THEN received ELSE total) * 100) \div total

\* n units arrive, perhaps damaged.  What exceeds the size of the manifest
\* is not written: the update is dropped, which aborts it.
ReceiveChunk(n, damaged) ==
    /\ phase = "flash" /\ serving # None /\ wifi
    /\ Received + n <= Size[serving]
    /\ IF Received + n > Size[manifest.image]
       THEN GiveUp /\ UNCHANGED slots
       ELSE /\ slots' = [slots EXCEPT ![Other(running)] =
                           [image |-> IF damaged THEN None ELSE @.image, got |-> @.got + n]]
            /\ LET percent == OtaProgressPercent(Received + n, Size[manifest.image])
               IN  told' = IF percent >= told + Step THEN percent ELSE told
            /\ UNCHANGED <<phase, agreed, reading, manifest, serving>>
    /\ UNCHANGED <<bridge, signed, state, boot, device, pending>>

\* The body has ended, perhaps early; on_progress is called once more.
EndOfBodySilent ==  \* faulty (#143): no report after the loop
    /\ phase = "flash" /\ serving # None
    /\ phase' = "check"
    /\ UNCHANGED <<bridge, signed, flash, device, pending, agreed, download>>
EndOfBody ==
    /\ phase = "flash" /\ serving # None
    /\ phase' = "check"
    /\ told' = OtaProgressPercent(Received, Size[manifest.image])
    /\ UNCHANGED <<bridge, signed, flash, device, pending, agreed, reading, manifest, serving>>

\* Size and hash of what was received against the manifest.
VerifyHashOnly ==  \* faulty: a part of the image will do
    LET c == slots[Other(running)]
    IN  c.image = manifest.image
VerifyOtaImage ==
    LET c == slots[Other(running)]
    IN  c.got = Size[manifest.image] /\ c.image = manifest.image

\* complete() switches the boot partition; on_applying follows.
Activate ==
    /\ phase = "check" /\ VerifyOtaImage
    /\ boot' = Other(running)
    /\ state' = [state EXCEPT ![Other(running)] = "new"]
    /\ phase' = "applying" /\ agreed' = None
    /\ UNCHANGED <<bridge, signed, slots, device, pending, download>>

RejectImage ==
    /\ phase = "check" /\ ~VerifyOtaImage
    /\ GiveUp
    /\ UNCHANGED <<bridge, signed, flash, device, pending>>

\* Any other OtaError on the way (no clock, no connection, another status, a
\* slot that cannot be written): dropping the update aborts it.
FlashFails ==
    /\ phase \in {"initiate", "flash", "check"}
    /\ GiveUp
    /\ UNCHANGED <<bridge, signed, flash, device, pending>>

-----------------------------------------------------------------------------
(* The device: restarts, the bootloader, the UI loop.                      *)

\* What is in RAM is gone, and the request under way with it.
Reset ==
    /\ running' = None /\ app' = "off" /\ wifi' = FALSE /\ validated' = FALSE
    /\ phase' = "idle" /\ pending' = None /\ agreed' = None
    /\ reading' = None /\ manifest' = None /\ serving' = None /\ told' = 0
    /\ UNCHANGED <<bridge, signed, flash>>

\* run_ota_update: restart().
RestartSelf == phase = "applying" /\ Reset

\* A firmware that falls before its loop is started again.
Crash == app = "starting" /\ Health[slots[running].image] = "crashes" /\ Reset

PowerLoss == running # None /\ Reset

\* A new slot is started once; if it comes here again without having been
\* marked, the other slot is started instead.
Bootloader ==
    /\ running = None
    /\ boot' = IF state[boot] = "pending" THEN Other(boot) ELSE boot
    /\ state' = [state EXCEPT ![boot] = CASE @ = "new" -> "pending"
                                          [] @ = "pending" -> "aborted"
                                          [] OTHER -> @]
    /\ running' = boot' /\ app' = "starting"
    /\ UNCHANGED <<bridge, signed, slots, wifi, validated, chat>>

\* main up to its loop.
EnterLoop ==
    /\ app = "starting" /\ Health[slots[running].image] # "crashes"
    /\ app' = "looping"
    /\ UNCHANGED <<bridge, signed, flash, running, wifi, validated, chat>>

WifiChanges ==
    /\ app = "looping" /\ Health[slots[running].image] = "works"
    /\ wifi' = ~wifi
    /\ UNCHANGED <<bridge, signed, flash, running, app, validated, chat>>

BootSelfTestPassed(displayOk, wifiConnected) == displayOk /\ wifiConnected

\* Once per STATUS cycle until it has succeeded; an error is tried again.
MarkAppValidOnce ==  \* faulty: a mark that failed is not tried again
    /\ app = "looping" /\ ~validated /\ BootSelfTestPassed(app = "looping", wifi)
    /\ state' \in {state, [state EXCEPT ![running] = "valid"]}
    /\ validated' = TRUE
    /\ UNCHANGED <<bridge, signed, slots, boot, running, app, wifi, chat>>
MarkAppValid ==
    /\ app = "looping" /\ ~validated
    /\ BootSelfTestPassed(app = "looping", wifi)
    /\ state' = [state EXCEPT ![running] = "valid"]
    /\ validated' = TRUE
    /\ UNCHANGED <<bridge, signed, slots, boot, running, app, wifi, chat>>

Bridge == \/ \E i \in Image \cup {None}, v \in Version : PlaceFiles(i, v)
          \/ ReadBin
          \/ SignManifest
Chat == \/ HandleUpdateCommand
        \/ OfferUpdate
        \/ OfferFails
        \/ PendingEnds
        \/ Confirm
        \/ ExecuteConfirmedOtaUpdate
        \/ RecheckFails
        \/ InitiateUpdate
        \/ GetFirmware
        \/ \E n \in 1..MaxRead, damaged \in BOOLEAN : ReceiveChunk(n, damaged)
        \/ EndOfBody
        \/ Activate
        \/ RejectImage
        \/ FlashFails
        \/ RestartSelf
Device == \/ Crash
          \/ PowerLoss
          \/ Bootloader
          \/ EnterLoop
          \/ WifiChanges
          \/ MarkAppValid
Next == Bridge \/ Chat \/ Device

\* The bootloader and main always go on; the Wi-Fi is there again and again;
\* writing the mark does not fail forever.
Fairness ==
    /\ WF_vars(Bootloader) /\ WF_vars(EnterLoop) /\ WF_vars(Crash)
    /\ WF_vars(~wifi /\ WifiChanges)
    /\ SF_vars(MarkAppValid)
    /\ WF_vars(RestartSelf)

Spec == Init /\ [][Next]_vars
FairSpec == Spec /\ Fairness

-----------------------------------------------------------------------------
(* Properties.                                                             *)

OnTrial == state[boot] \in {"new", "pending"}
Fallback == IF OnTrial THEN Other(boot) ELSE boot

\* Whatever is cut off, and whenever: the slot that is started holds an image
\* that is complete, and one that has not proved itself has beside it a slot
\* with an image that has (ota.rs: rollback, drop of the update).
AlwaysBootable ==
    /\ Whole(slots[boot])
    /\ state[Fallback] = "valid" /\ Whole(slots[Fallback])
    /\ Health[slots[Fallback].image] = "works"

\* The progress never ends below 100 % for an image that is applied, and never
\* passes it (download_and_flash: the report after the loop, #143).
ProgressToldInFull ==
    /\ told <= 100
    /\ phase = "applying" => told = 100

\* The update does what FirmwareTrial promises: only an approved version, only
\* an image signed under it, one trial per approval, kept only if it works.
Trial ==
    INSTANCE FirmwareTrial WITH
        Works <- {i \in Image : Health[i] = "works"},
        installed <- slots[Fallback].image,
        trial <- IF OnTrial THEN slots[boot].image ELSE None,
        approved <- agreed
UpdateContract == Trial!Spec

\* A firmware on trial that falls over or works is decided upon: it is marked,
\* or the old one comes back (mark_app_valid_after_self_test, bootloader).
\* One that never gets online waits for the power to be cut.
TrialEnds ==
    OnTrial /\ Health[slots[boot].image] # "offline" ~> ~OnTrial
=============================================================================
