---------------------------- MODULE RelayWatchdog ----------------------------
(***************************************************************************)
(* The watchdogs loop() runs beside the WiFi uplink: the internet watchdog *)
(* (src/net_watchdog.cpp) and the camera bridge watchdog                   *)
(* (src/bridge_watchdog.cpp), which power-cycle a device by a relay when   *)
(* an outage has lasted, and the mains monitor (src/power_monitor.cpp),    *)
(* which confirms a change the same way.  `watched` is the one explored:   *)
(* they meet only in the link, so a run takes them one at a time, with a   *)
(* board that knows one network, and the changes of credentials without    *)
(* any ("none").                                                           *)
(*                                                                         *)
(* The router that the internet relay feeds also carries the networks      *)
(* RouterNets: a pulse takes them out of the air.  Times are ages in ticks *)
(* of one check interval, counted up to Threshold; None is no time.        *)
(***************************************************************************)
EXTENDS WifiLink

CONSTANTS
    Watched,        \* bound: what is explored, of "none", "net", "bridge", "power"
    RouterNets,     \* the networks of the router
    Threshold       \* the outage threshold, or the debounce time

ASSUME WatchdogAssumption ==
    /\ Watched \subseteq {"none", "net", "bridge", "power"}
    /\ RouterNets \subseteq Nets
    /\ Threshold \in Nat \ {0}

None == -1

VARIABLES
    watched,    \* which of them this is
    outage,     \* g_firstFailureMs or its like, and g_outageEpisodeStartMs
    confirmed,  \* g_confirmedPowerPresent
    relay,      \* the device has power
    pulse,      \* the tasks in a relay pulse
    checked,    \* this interval's check is done
    well,       \* the internet is reachable, a bridge camera answers, or
                \* the mains is on
    resolved,   \* both bridge cameras are known and enabled
    seen        \* history: ages of the first failed check since the last good
                \* one, and of the last automatic pulse

watchVars == <<watched, outage, confirmed, relay, pulse, checked, well,
               resolved, seen>>
vars == <<wifiVars, watchVars>>

NoOutage == [first |-> None, episode |-> None]

Init ==
    /\ WifiInit
    /\ watched \in Watched
    /\ watched # "none" => nvs.primary # NoSlot /\ nvs.backup = NoSlot
    /\ outage = NoOutage
    /\ confirmed = TRUE
    /\ relay = TRUE
    /\ pulse = {}
    /\ checked = FALSE
    /\ well = TRUE
    /\ resolved = TRUE
    /\ seen = [failing |-> None, pulsed |-> None]

----------------------------------------------------------------------------
(***************************************************************************)
(* Checks                                                                  *)
(***************************************************************************)
Active == job["loop"].pc # "off"
LoopFree == booted /\ job["loop"].pc = "idle" /\ "loop" \notin pulse

\* loop() checks the relays' watchdogs only while WiFi is connected, and the
\* bridge's only while its pair can be told.
Checks ==
    /\ watched # "none" /\ LoopFree /\ ~checked
    /\ watched = "power" \/ link # NoNet
    /\ watched = "bridge" => resolved

Good == IF watched = "power" THEN well = confirmed ELSE well

CheckGood ==
    /\ Checks /\ Good
    /\ outage' = NoOutage
    /\ checked' = TRUE
    /\ seen' = [seen EXCEPT !.failing = None]
    /\ UNCHANGED <<wifiVars, watched, confirmed, relay, pulse, well, resolved>>

Failing == IF seen.failing = None THEN [seen EXCEPT !.failing = 0] ELSE seen

OutageThresholdReached == outage.first >= Threshold

\* Mutant: every failed check restarts the outage clock.
FailedRestarts ==
    [first |-> 0, episode |-> IF outage.first = None THEN 0 ELSE outage.episode]

\* The first failure starts the outage clock.
Failed == IF outage.first = None THEN [first |-> 0, episode |-> 0] ELSE outage

CheckWaits ==
    /\ Checks /\ ~Good
    /\ outage.first = None \/ ~OutageThresholdReached
    /\ outage' = Failed
    /\ checked' = TRUE
    /\ seen' = Failing
    /\ UNCHANGED <<wifiVars, watched, confirmed, relay, pulse, well, resolved>>

\* Mutant: the clock keeps running.
NotRestarted == outage

\* Mutant: the start of the episode moves with the clock.
RestartedWhole == [first |-> 0, episode |-> 0]

\* The clock is restarted, not cleared, so that pulses keep their distance;
\* the start of the episode stays for the report.
Restarted == [outage EXCEPT !.first = 0]

\* De-energizing the relay takes the router's networks and its uplink along.
Cut ==
    /\ relay' = FALSE
    /\ IF watched = "net"
       THEN /\ inAir' = inAir \ RouterNets
            /\ link' = Dropped(inAir \ RouterNets)
            /\ well' = FALSE
       ELSE UNCHANGED <<inAir, link, well>>
    /\ UNCHANGED <<nvs, ram, begun, job, booted, started, retry, upsets, torn>>

CheckPulses ==
    /\ Checks /\ ~Good /\ watched # "power"
    /\ outage.first # None /\ OutageThresholdReached
    /\ outage' = Restarted
    /\ pulse' = pulse \cup {"loop"}
    /\ Cut
    /\ checked' = TRUE
    /\ seen' = [Failing EXCEPT !.pulsed = 0]
    /\ UNCHANGED <<watched, confirmed, resolved>>

CheckConfirms ==
    /\ Checks /\ ~Good /\ watched = "power"
    /\ outage.first # None /\ OutageThresholdReached
    /\ confirmed' = well
    /\ outage' = NoOutage
    /\ checked' = TRUE
    /\ seen' = [seen EXCEPT !.failing = None]
    /\ UNCHANGED <<wifiVars, watched, relay, pulse, well, resolved>>

\* The dashboard's test pulse runs on the web server's task.
ManualPulse ==
    /\ started /\ link # NoNet /\ watched \in {"net", "bridge"}
    /\ job["web"].pc = "idle" /\ "web" \notin pulse
    /\ pulse' = pulse \cup {"web"}
    /\ Cut
    /\ UNCHANGED <<watched, outage, confirmed, checked, resolved, seen>>

\* The first pulse to end energizes the relay, whatever another is about.
PulseEnds(t) ==
    /\ t \in pulse
    /\ pulse' = pulse \ {t}
    /\ relay' = TRUE
    /\ UNCHANGED <<wifiVars, watched, outage, confirmed, checked, well, resolved, seen>>

----------------------------------------------------------------------------
(***************************************************************************)
(* Boot, time, the world                                                   *)
(***************************************************************************)
Older(age) == IF age \in {None, Threshold} THEN age ELSE age + 1

\* loop() passes many times in a tick: what is due in one is done in it.
Tick ==
    /\ ~Checks
    /\ ~(LoopFree /\ link = NoNet /\ WifiReconnectDue)
    /\ retry' = Aged
    /\ checked' = FALSE
    /\ outage' = [first |-> Older(outage.first), episode |-> Older(outage.episode)]
    /\ seen' = [failing |-> Older(seen.failing), pulsed |-> Older(seen.pulsed)]
    /\ UNCHANGED <<nvs, ram, link, begun, job, booted, started, inAir, upsets,
                   torn, watched, confirmed, relay, pulse, well, resolved>>

\* Mutant: setup() leaves the pin at the level it has.
RelayAtBootKept == relay

\* The resting state: the device has power.
RelayAtBoot == TRUE

\* setup() energizes the relay and reads the mains before anything else.
BootWatch ==
    /\ Boot
    /\ relay' = RelayAtBoot
    /\ confirmed' = IF watched = "power" THEN well ELSE confirmed
    /\ UNCHANGED <<watched, outage, pulse, checked, well, resolved, seen>>

ResetWatch ==
    /\ Reset
    /\ outage' = NoOutage
    /\ pulse' = {}
    /\ checked' = FALSE
    /\ seen' = [failing |-> None, pulsed |-> None]
    /\ UNCHANGED <<watched, confirmed, relay, well, resolved>>

LoopStep ==
    \/ BootWatch
    \/ /\ "loop" \notin pulse
       /\ PutKey("loop") \/ Attempt \/ TryPrimary \/ TryBackup \/ Tried
       /\ UNCHANGED watchVars
    \/ CheckGood \/ CheckWaits \/ CheckPulses \/ CheckConfirms
    \/ PulseEnds("loop")

WebStep ==
    \/ /\ "web" \notin pulse
       /\ (watched = "none" /\ SaveNetwork) \/ PutKey("web")
       /\ UNCHANGED watchVars
    \/ ManualPulse \/ PulseEnds("web")

\* Without its power the router carries nothing.
Powered == IF watched = "net" /\ ~relay THEN Nets \ RouterNets ELSE Nets

World ==
    \/ AirChange(Powered) /\ UNCHANGED watchVars
    \/ AutoReconnect /\ UNCHANGED watchVars
    \/ /\ watched = "net" => relay
       /\ watched # "none" /\ well' = ~well
       /\ UNCHANGED <<wifiVars, watched, outage, confirmed, relay, pulse,
                      checked, resolved, seen>>
    \/ /\ watched = "bridge"
       /\ resolved' = ~resolved
       /\ UNCHANGED <<wifiVars, watched, outage, confirmed, relay, pulse,
                      checked, well, seen>>

Next == LoopStep \/ WebStep \/ Tick \/ World \/ ResetWatch

\* The loop and the web server's task are scheduled, and time passes.
Fairness ==
    /\ WF_vars(LoopStep)
    /\ WF_vars(PutKey("web") /\ UNCHANGED watchVars)
    /\ WF_vars(PulseEnds("web"))
    /\ WF_vars(Tick)

Spec == Init /\ [][Next]_vars /\ Fairness

----------------------------------------------------------------------------
(***************************************************************************)
(* Properties                                                              *)
(***************************************************************************)

\* A stored network has its own password or none, however the page, an import
\* and a promotion followed one another, unless a save failed half way or met
\* another (saveWifiCredentials writes key by key, without a lock).
PasswordsBelong ==
    (~torn /\ \A t \in Tasks : ~Busy(t)) =>
        \A name \in DOMAIN nvs : nvs[name].password \in {nvs[name].ssid, NoNet}

\* While one of its networks stays in reach the board keeps coming online,
\* although the retry's due time is compared across the wrap of millis() and
\* is never cleared (connectWiFi, wifiReconnectDue).
ComesOnline ==
    \A n \in Nets :
        <>[](n \in inAir /\ \E name \in DOMAIN ram : ram[name] = Slot(n, n))
            => []<>(link # NoNet)

\* With no pulse under way the device has power: after a reset in the middle
\* of a pulse, and however loop()'s pulse and a manual one overlap (pulseRelay).
PoweredUnlessPulsed == (Active /\ pulse = {}) => relay

\* loop() cuts the power, or confirms a change of the mains, only when every
\* check for the threshold failed, and pulses again no sooner than after it
\* (outageThresholdReached on a clock that a pulse restarts).
PulsesSpaced ==
    [][("loop" \in pulse' \ pulse \/ (Active /\ confirmed' # confirmed)) =>
         /\ seen.failing >= Threshold
         /\ seen.pulsed \in {None, Threshold}]_vars

\* The report of an outage names the start of the episode, over every pulse
\* and WiFi outage in it (g_outageEpisodeStartMs).
EpisodeIsWhole == outage.first # None => outage.episode = seen.failing

\* An outage that lasts while the board is connected gets pulse after pulse.
OutageGetsPulse ==
    <>[](/\ watched \in {"net", "bridge"} /\ link # NoNet /\ ~well
         /\ watched = "bridge" => resolved)
        => []<>("loop" \in pulse)

\* What setup() logs when WiFi is not there at boot: "cameras and the web UI
\* will start automatically once loop() reconnects" (src/main.cpp).
MonitoringStarts == <>[](link # NoNet) => []<>started
=============================================================================
