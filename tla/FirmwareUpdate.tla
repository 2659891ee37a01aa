--------------------------- MODULE FirmwareUpdate ---------------------------
(***************************************************************************)
(* Firmware over the air: the upload handler of src/webserver.cpp, the     *)
(* boot checks of src/boot_checks.cpp and the marker and history of        *)
(* src/ota_history.cpp.  The Update library, the image states in otadata   *)
(* and the bootloader are not in the repository: they are modelled from    *)
(* what this code asks of them.  There are two slots; an upload goes to    *)
(* the one that is not running, a new image runs on probation, and a reset *)
(* before setup() ends makes the bootloader go back to the other one.      *)
(*                                                                         *)
(* Dashboard.tla composes these actions with the rest of the web server.   *)
(***************************************************************************)
EXTENDS Naturals, Sequences

Slots == {"app0", "app1"}
NoSlot == "none"
Spare(s) == CHOOSE t \in Slots : t # s

VARIABLES
    flash,      \* otadata: the state of each slot's image, and the slot that
                \* boots next
    running,    \* the slot that runs
    update,     \* g_otaError, and whether the Update library is in an upload
    phase,      \* how far this boot has come, or the upload it receives
    nvs,        \* "otastate": the slot of the last rollback reported, and
                \* the outcome the Firmware page shows
    told,       \* history: the slots whose present rollback was reported
    previous    \* history: how the last update that ran before the present one
                \* ended, per slot

firmwareVars == <<flash, running, update, phase, nvs, told, previous>>

\* Phases of setup(): "probe" reads the image state, "healthy" reports it,
\* "invalid" looks for a rollback and "remember" stores what it reported.
Setup == {"probe", "healthy", "invalid", "remember"}
Up == phase = "up"

FirmwareInit ==
    /\ flash = [image |-> [s \in Slots |-> IF s = "app0" THEN "valid" ELSE "none"],
                boots |-> "app0"]
    /\ running = "app0"
    /\ update = [error |-> FALSE, running |-> FALSE]
    /\ phase = "up"
    /\ nvs = [invalid |-> NoSlot, outcome |-> "none", slot |-> NoSlot]
    /\ told = {}
    /\ previous = [s \in Slots |-> "none"]

----------------------------------------------------------------------------
(***************************************************************************)
(* The upload, chunk by chunk.  The web server is one task: it serves      *)
(* nothing else until the upload ends or its connection drops.             *)
(***************************************************************************)

\* Update.begin: refused while an upload is under way; the image in the spare
\* slot is overwritten from here on.
Begun(busy, works) == [error |-> busy \/ ~works, running |-> busy \/ works]

\* What an upload that dropped left behind is cleared by the next one's first chunk.
Leftover == FALSE

UploadStarts(works) ==
    /\ Up
    /\ update' = Begun(Leftover, works)
    /\ phase' = "upload"
    /\ flash' = IF update'.error THEN flash
                ELSE [flash EXCEPT !.image[Spare(running)] = "none"]
    /\ told' = IF update'.error THEN told ELSE told \ {Spare(running)}
    /\ previous' = IF update'.error THEN previous
                   ELSE [previous EXCEPT ![Spare(running)] =
                            IF flash.image[Spare(running)] \in {"valid", "aborted"}
                            THEN flash.image[Spare(running)] ELSE @]
    /\ UNCHANGED <<running, nvs>>

\* A chunk that cannot be written: the rest is received and thrown away.
ChunkFails ==
    /\ phase = "upload" /\ ~update.error
    /\ update' = [error |-> TRUE, running |-> FALSE]
    /\ UNCHANGED <<flash, running, phase, nvs, told, previous>>

\* The last chunk: Update.end verifies the image and makes it boot next.
UploadEnds(verified) ==
    /\ phase = "upload"
    /\ IF update.error THEN UNCHANGED <<flash, update>>
       ELSE /\ update' = [error |-> ~verified, running |-> FALSE]
            /\ flash' = IF verified
                        THEN [flash EXCEPT !.image[Spare(running)] = "new",
                                           !.boots = Spare(running)]
                        ELSE flash
    /\ phase' = IF update'.error THEN "up" ELSE "restarting"
    /\ UNCHANGED <<running, nvs, told, previous>>

\* The connection is gone: the last chunk never comes.
UploadDrops ==
    /\ phase = "upload"
    /\ phase' = "up"
    /\ UNCHANGED <<flash, running, update, nvs, told, previous>>

\* The task that restarts the board could not be created: the new image waits
\* for some other reset.
RestartTaskFails ==
    /\ phase = "restarting"
    /\ phase' = "up"
    /\ UNCHANGED <<flash, running, update, nvs, told, previous>>

----------------------------------------------------------------------------
(***************************************************************************)
(* Reset and boot                                                          *)
(***************************************************************************)

\* The bootloader: an image still on probation has failed; one that is new
\* goes on probation; one that is not whole is passed over.
Loaded(f) ==
    LET state == f.image[f.boots]
        other == Spare(f.boots)
    IN CASE state = "pending" ->
                [image |-> [f.image EXCEPT ![f.boots] = "aborted"], boots |-> other]
         [] state = "new" -> [f EXCEPT !.image[f.boots] = "pending"]
         [] state = "none" -> [f EXCEPT !.boots = other]
         [] OTHER -> f

Restarts ==
    /\ flash' = Loaded(flash)
    /\ running' = flash'.boots
    /\ update' = [error |-> FALSE, running |-> FALSE]
    /\ phase' = "probe"
    /\ UNCHANGED <<nvs, told, previous>>

\* confirmFirmwareAndReportRollback, at the end of setup().
MarkValid ==
    /\ phase = "probe"
    /\ flash' = [flash EXCEPT !.image[running] = "valid"]
    /\ phase' = IF flash.image[running] = "pending" THEN "healthy" ELSE "invalid"
    /\ UNCHANGED <<running, update, nvs, told, previous>>

ReportHealthy ==
    /\ phase = "healthy"
    /\ nvs' = [nvs EXCEPT !.outcome = "healthy", !.slot = running]
    /\ phase' = "invalid"
    /\ UNCHANGED <<flash, running, update, told, previous>>

Invalid == IF flash.image[Spare(running)] = "aborted" THEN Spare(running) ELSE NoSlot

\* Mutant: the marker is kept when the slot is valid again.
MarkerKept == nvs.invalid

\* forgetReportedInvalidPartition.
MarkerForgotten == NoSlot

ReportRollback ==
    /\ phase = "invalid"
    /\ IF Invalid # NoSlot /\ Invalid # nvs.invalid
       THEN /\ told' = told \cup {Invalid}
            /\ phase' = "remember"
            /\ UNCHANGED nvs
       ELSE /\ nvs' = IF Invalid = NoSlot
                      THEN [nvs EXCEPT !.invalid = MarkerForgotten] ELSE nvs
            /\ phase' = "up"
            /\ UNCHANGED told
    /\ UNCHANGED <<flash, running, update, previous>>

RememberRollback ==
    /\ phase = "remember"
    /\ nvs' = [invalid |-> Invalid, outcome |-> "rolledback", slot |-> Invalid]
    /\ phase' = "up"
    /\ UNCHANGED <<flash, running, update, told, previous>>

Firmware ==
    \/ \E works \in BOOLEAN : UploadStarts(works)
    \/ ChunkFails
    \/ \E verified \in BOOLEAN : UploadEnds(verified)
    \/ UploadDrops
    \/ RestartTaskFails
    \/ MarkValid \/ ReportHealthy \/ ReportRollback \/ RememberRollback

----------------------------------------------------------------------------
\* Once a boot is over, a rolled-back update has been reported, unless the
\* update of that slot before it was rolled back as well: its marker still
\* stands (confirmFirmwareAndReportRollback, ota_history.cpp).
RollbacksTold ==
    \A s \in Slots :
        Up /\ flash.image[s] = "aborted" => s \in told \/ previous[s] = "aborted"

=============================================================================
