-------------------------- MODULE HardwareSettings --------------------------
(***************************************************************************)
(* The settings of the three optional hardware features - internet         *)
(* watchdog, camera bridge watchdog, 220V power monitor - from the Hardware*)
(* pages and imported configurations to the pins claimed at boot           *)
(* (src/webserver.cpp, src/config_backup.cpp, src/net_watchdog.cpp,        *)
(* src/bridge_watchdog.cpp, src/power_monitor.cpp).                        *)
(*                                                                         *)
(* A save writes its keys to NVS one by one and gives up at the first that *)
(* fails.  The pages run on the web server's task, /restore on loop()'s:   *)
(* their saves interleave key by key, and the power may go between two     *)
(* keys.  An import on the Security page takes the steps of /restore.      *)
(***************************************************************************)
EXTENDS Integers, Sequences

CONSTANTS
    Pins,       \* the GPIO numbers a setting may hold
    NvsFails    \* may NVS refuse a write?

ASSUME ConstantsAssumption == Pins \subseteq Int /\ NvsFails \in BOOLEAN

VARIABLES
    nvs,        \* the settings stored for each feature
    active,     \* g_activePin of each feature, NoPin if it is not available
    page,       \* the save a Hardware page is in the middle of
    import,     \* the sections and keys an import has still to write
    banner,     \* the page's last answer; for a failure, whether it changed NVS
    plain       \* history: NVS holds page saves only, each written to its end

vars == <<nvs, active, page, import, banner, plain>>

Features == {"internet", "bridge", "power"}
NoPin == -1

\* cameras: are the names of the pair given?  They are the bridge watchdog's.
\* The keys after the pin (polarity, threshold, pulse) go by "rest".
Setting(f) == [enabled : BOOLEAN, pin : Pins,
               cameras : IF f = "bridge" THEN BOOLEAN ELSE {FALSE}]
Keys(f) ==
    IF f = "bridge" THEN <<"enabled", "cameras", "pin", "rest">>
    ELSE <<"enabled", "pin", "rest">>

\* SD and RTC pins, strapping pins, flash and PSRAM, USB and UART0, no GPIO.
IsReservedOrUnsafePin(pin) ==
    \/ pin \in {10, 12, 13, 11, 8, 9} \cup {0, 3, 45, 46}
    \/ pin \in (26..37) \cup {19, 20, 43, 44}
    \/ pin < 0 \/ pin > 48

WatchdogPinsConflict(a, b) == a.enabled /\ b.enabled /\ a.pin = b.pin

-----------------------------------------------------------------------------
\* initNetWatchdog, initBridgeWatchdog and initPowerMonitor: each feature gives
\* way to those that setup() starts before it.
StartedBeforeButBridge(f) == IF f = "internet" THEN {} ELSE {"internet"}
StartedBefore(f) ==
    CASE f = "internet" -> {}
      [] f = "bridge" -> {"internet"}
      [] f = "power" -> {"internet", "bridge"}

Starts(store, f) ==
    /\ store[f].enabled
    /\ ~IsReservedOrUnsafePin(store[f].pin)
    /\ \A g \in StartedBefore(f) : ~WatchdogPinsConflict(store[f], store[g])

BootPins(store) ==
    [f \in Features |-> IF Starts(store, f) THEN store[f].pin ELSE NoPin]

\* A save is at the key it writes next; an import has sections left.
NoSave == [feature |-> "none", at |-> 0, new |-> <<>>, changed |-> FALSE]
Save(f, s) == [feature |-> f, at |-> 1, new |-> s, changed |-> FALSE]
Key(save) == Keys(save.feature)[save.at]

Sections == <<"internet", "bridge", "power">>
NoImport == [save |-> NoSave, left |-> 0]
Section == Sections[4 - import.left]

Init ==
    /\ nvs \in [Features -> [enabled : {FALSE}, pin : Pins, cameras : {FALSE}]]
    /\ active = BootPins(nvs)
    /\ page = NoSave
    /\ import = NoImport
    /\ banner = "none"
    /\ plain = TRUE

\* The checks of the three save routes, against what is stored at that moment.
AcceptsUnsafe(f, s) ==
    /\ f = "bridge" /\ s.enabled => s.cameras
    /\ \A g \in Features \ {f} : ~WatchdogPinsConflict(s, nvs[g])
Accepts(f, s) ==
    /\ f = "bridge" /\ s.enabled => s.cameras
    /\ s.enabled => ~IsReservedOrUnsafePin(s.pin)
    /\ \A g \in Features \ {f} : ~WatchdogPinsConflict(s, nvs[g])

\* One of the POST routes /hardware/.../save; what it rejects is not saved.
PageSave(f, s) ==
    /\ page = NoSave
    /\ Accepts(f, s)
    /\ page' = Save(f, s)
    /\ banner' = "none"
    /\ UNCHANGED <<nvs, active, import, plain>>

\* One put of a save: putString answers 0, which reads as a failure, for an
\* empty name too, although it has stored it.
Written(store, save) ==
    IF Key(save) = "rest" THEN store
    ELSE [store EXCEPT ![save.feature][Key(save)] = save.new[Key(save)]]
Succeeds(save) == Key(save) = "cameras" => save.new.cameras

\* The save goes on while its puts succeed and keys are left.
Rest(save, ok) ==
    IF ok /\ save.at < Len(Keys(save.feature))
    THEN [save EXCEPT !.at = @ + 1, !.changed = @ \/ nvs' # nvs] ELSE NoSave

PagePut(stored) ==
    /\ page # NoSave
    /\ stored \/ NvsFails
    /\ nvs' = IF stored THEN Written(nvs, page) ELSE nvs
    /\ LET ok == stored /\ Succeeds(page)
       IN  /\ page' = Rest(page, ok)
           /\ banner' = CASE ~ok /\ (page.changed \/ nvs' # nvs) -> "failed, changed"
                          [] ~ok /\ ~page.changed /\ nvs' = nvs -> "failed"
                          [] ok -> IF page' = NoSave THEN "saved" ELSE banner
           /\ plain' = (plain /\ ok)
    /\ UNCHANGED <<active, import>>

\* applyConfigImport over the hardware sections: whatever section the text has
\* is saved without a look at the pins, the next one whatever came of it.
ImportStart ==
    /\ import = NoImport
    /\ import' = [save |-> NoSave, left |-> Len(Sections)]
    /\ plain' = FALSE
    /\ UNCHANGED <<nvs, active, page, banner>>

ImportSection(s) ==
    /\ import.save = NoSave /\ import.left > 0
    /\ s \in Setting(Section)
    /\ import' = [save |-> Save(Section, s), left |-> import.left - 1]
    /\ UNCHANGED <<nvs, active, page, banner, plain>>

ImportSkip ==
    /\ import.save = NoSave /\ import.left > 0
    /\ import' = [import EXCEPT !.left = @ - 1]
    /\ UNCHANGED <<nvs, active, page, banner, plain>>

ImportPut(stored) ==
    /\ import.save # NoSave
    /\ stored \/ NvsFails
    /\ nvs' = IF stored THEN Written(nvs, import.save) ELSE nvs
    /\ import' = [import EXCEPT !.save = Rest(@, stored /\ Succeeds(@))]
    /\ UNCHANGED <<active, page, banner, plain>>

\* Any reboot, a power cut in the middle of a save included.
Reboot ==
    /\ active' = BootPins(nvs)
    /\ page' = NoSave
    /\ import' = NoImport
    /\ banner' = "none"
    /\ plain' = (plain /\ page = NoSave)
    /\ UNCHANGED nvs

Next ==
    \/ \E f \in Features : \E s \in Setting(f) : PageSave(f, s)
    \/ \E stored \in BOOLEAN : PagePut(stored)
    \/ ImportStart
    \/ \E s \in UNION {Setting(f) : f \in Features} : ImportSection(s)
    \/ ImportSkip
    \/ \E stored \in BOOLEAN : ImportPut(stored)
    \/ Reboot

Spec == Init /\ [][Next]_vars

-----------------------------------------------------------------------------
Saves ==
    {save \in [feature : Features, at : 1..4, new : Setting("bridge"), changed : BOOLEAN] :
        save.at <= Len(Keys(save.feature))}

TypeOK ==
    /\ nvs \in [Features -> Setting("bridge")]
    /\ active \in [Features -> Pins \cup {NoPin}]
    /\ page \in Saves \cup {NoSave}
    /\ import \in [save : Saves \cup {NoSave}, left : 0..Len(Sections)]
    /\ banner \in {"none", "saved", "failed", "failed, changed"}
    /\ plain \in BOOLEAN

\* Whatever was imported, half written or interleaved, no two features ever
\* drive one pin, and none drives a pin the board needs.
ActivePinsDisjoint ==
    \A f \in Features : active[f] # NoPin =>
        /\ ~IsReservedOrUnsafePin(active[f])
        /\ \A g \in Features \ {f} : active[g] # active[f]

\* The pages alone never store what boot has to refuse: as long as every save
\* came from a page and was written to its end, every enabled feature starts.
PagesStoreWhatStarts ==
    plain /\ page = NoSave /\ import = NoImport =>
        \A f \in Features : nvs[f].enabled => Starts(nvs, f)

=============================================================================
