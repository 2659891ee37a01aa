------------------------ MODULE RelayWatchdogProofs ------------------------
(***************************************************************************)
(* The relays and their outage clocks, then the stored credentials, for    *)
(* every threshold, any networks and any number of resets and saves.       *)
(***************************************************************************)
EXTENDS RelayWatchdog, TLAPS

\* A time: none, or an age that is counted up to the threshold.
Ages == {None} \cup 0..Threshold

Outages == [first : Ages, episode : Ages]
Sightings == [failing : Ages, pulsed : Ages]

\* The outage clock runs exactly while checks have been failing, started with
\* the first of them or later, and no earlier than the last pulse.
ClockInv ==
    /\ outage \in Outages
    /\ seen \in Sightings
    /\ outage.first = None <=> seen.failing = None
    /\ outage.first # None =>
          /\ outage.episode = seen.failing
          /\ outage.first <= seen.failing
          /\ seen.pulsed # None => outage.first <= seen.pulsed

\* Every task has a job, and a board that runs has its relay on but in a pulse.
PowerInv ==
    /\ DOMAIN job = Tasks
    /\ PoweredUnlessPulsed

\* The inductive invariant.
IInv == ClockInv /\ PowerInv

-----------------------------------------------------------------------------
\* Ages are integers; growing older keeps none apart and keeps their order.
LEMMA AgeFacts ==
    /\ None \in Ages /\ 0 \in Ages /\ 0 # None
    /\ \A a \in Ages : a \in Int /\ (a # None => 0 <= a /\ a <= Threshold)
    /\ \A a \in Ages : Older(a) \in Ages /\ (Older(a) = None <=> a = None)
    /\ \A a, b \in Ages : (a # None /\ b # None /\ a <= b) => Older(a) <= Older(b)
BY WatchdogAssumption DEF Ages, None, Older

\* What an outage clock and what was seen are made of.
LEMMA FieldFacts ==
    /\ outage \in Outages <=>
         outage = [first |-> outage.first, episode |-> outage.episode]
         /\ outage.first \in Ages /\ outage.episode \in Ages
    /\ seen \in Sightings <=>
         seen = [failing |-> seen.failing, pulsed |-> seen.pulsed]
         /\ seen.failing \in Ages /\ seen.pulsed \in Ages
BY DEF Outages, Sightings

\* At first no clock runs, loop() has not begun and the power is on.
LEMMA IInvInit == Init => IInv
<1> SUFFICES ASSUME Init PROVE IInv
  OBVIOUS
<1>1. outage = [first |-> None, episode |-> None] /\ seen = [failing |-> None, pulsed |-> None]
  BY DEF Init, NoOutage
<1>2. ClockInv
  BY <1>1, AgeFacts DEF ClockInv, Outages, Sightings
<1>3. DOMAIN job = Tasks
  BY DEF Init, WifiInit
<1>4. PoweredUnlessPulsed
  BY DEF Init, PoweredUnlessPulsed
<1> QED
  BY <1>2, <1>3, <1>4 DEF IInv, PowerInv

-----------------------------------------------------------------------------
(***************************************************************************)
(* The outage clock                                                        *)
(***************************************************************************)
\* A check that finds all well, a confirmed change and a reset stop the clock.
LEMMA ClockStops ==
    ASSUME ClockInv, outage' = NoOutage,
           \/ seen' = [seen EXCEPT !.failing = None]
           \/ seen' = [failing |-> None, pulsed |-> None]
    PROVE  ClockInv'
<1>1. outage' = [first |-> None, episode |-> None]
  BY DEF NoOutage
<1>2. seen'.failing = None /\ seen' \in Sightings
  BY AgeFacts DEF ClockInv, Sightings
<1> QED
  BY <1>1, <1>2, AgeFacts DEF ClockInv, Outages

\* A failed check starts the clock, or leaves it.
LEMMA CheckWaitsKeepsClock ==
    ASSUME ClockInv, CheckWaits
    PROVE  ClockInv'
<1>1. outage' = Failed /\ seen' = Failing
  BY DEF CheckWaits
<1>2. CASE outage.first = None
  <2>1. outage' = [first |-> 0, episode |-> 0] /\ seen' = [seen EXCEPT !.failing = 0]
    BY <1>1, <1>2 DEF Failed, Failing, ClockInv
  <2>2. /\ outage'.first = 0 /\ outage'.episode = 0
        /\ seen'.failing = 0 /\ seen'.pulsed = seen.pulsed
        /\ outage' \in Outages /\ seen' \in Sightings
    BY <2>1, AgeFacts DEF ClockInv, Outages, Sightings
  <2>3. seen.pulsed \in Ages
    BY FieldFacts DEF ClockInv
  <2> QED
    BY <2>2, <2>3, AgeFacts DEF ClockInv
<1>3. CASE outage.first # None
  <2>1. outage' = outage /\ seen' = seen
    BY <1>1, <1>3 DEF Failed, Failing, ClockInv
  <2> QED
    BY <2>1 DEF ClockInv
<1> QED
  BY <1>2, <1>3

\* A pulse restarts the clock and keeps the start of the episode.
LEMMA CheckPulsesKeepsClock ==
    ASSUME ClockInv, CheckPulses
    PROVE  ClockInv'
<1>1. outage' = [outage EXCEPT !.first = 0] /\ seen' = [seen EXCEPT !.pulsed = 0]
  BY DEF CheckPulses, Restarted, Failing, ClockInv
<1>2. /\ outage'.first = 0 /\ outage'.episode = outage.episode
      /\ seen'.failing = seen.failing /\ seen'.pulsed = 0
      /\ outage' \in Outages /\ seen' \in Sightings
  BY <1>1, AgeFacts DEF ClockInv, Outages, Sightings
<1>3. outage.first # None
  BY DEF CheckPulses
<1>4. seen.failing \in Ages
  BY FieldFacts DEF ClockInv
<1> QED
  BY <1>2, <1>3, <1>4, AgeFacts DEF ClockInv

\* All ages grow together.
LEMMA TickKeepsClock ==
    ASSUME ClockInv, Tick
    PROVE  ClockInv'
<1>1. /\ outage.first \in Ages /\ outage.episode \in Ages
      /\ seen.failing \in Ages /\ seen.pulsed \in Ages
  BY FieldFacts DEF ClockInv
<1>2. /\ outage' = [first |-> Older(outage.first), episode |-> Older(outage.episode)]
      /\ seen' = [failing |-> Older(seen.failing), pulsed |-> Older(seen.pulsed)]
  BY DEF Tick
<1>3. outage' \in Outages /\ seen' \in Sightings
  BY <1>1, <1>2, AgeFacts DEF Outages, Sightings
<1>4. /\ outage'.first = Older(outage.first) /\ outage'.episode = Older(outage.episode)
      /\ seen'.failing = Older(seen.failing) /\ seen'.pulsed = Older(seen.pulsed)
  BY <1>2
<1>5. outage'.first = None <=> seen'.failing = None
  BY <1>1, <1>4, AgeFacts DEF ClockInv
<1>6. ASSUME outage'.first # None
      PROVE  /\ outage'.episode = seen'.failing
             /\ outage'.first <= seen'.failing
             /\ seen'.pulsed # None => outage'.first <= seen'.pulsed
  <2>1. outage.first # None
    BY <1>1, <1>4, <1>6, AgeFacts
  <2>2. outage.episode = seen.failing /\ outage.first <= seen.failing /\ seen.failing # None
    BY <2>1 DEF ClockInv
  <2>3. outage'.first <= seen'.failing
    BY <1>1, <1>4, <2>1, <2>2, AgeFacts
  <2>4. ASSUME seen'.pulsed # None PROVE outage'.first <= seen'.pulsed
    <3>1. seen.pulsed # None
      BY <1>1, <1>4, <2>4, AgeFacts
    <3>2. outage.first <= seen.pulsed
      BY <2>1, <3>1 DEF ClockInv
    <3> QED
      BY <1>1, <1>4, <2>1, <3>1, <3>2, AgeFacts
  <2> QED
    BY <1>4, <2>2, <2>3, <2>4
<1> QED
  BY <1>3, <1>5, <1>6 DEF ClockInv

\* Any other step leaves the clock alone.
LEMMA NextKeepsClock ==
    ASSUME ClockInv, Next
    PROVE  ClockInv'
<1>1. CASE CheckGood \/ CheckConfirms \/ ResetWatch
  BY <1>1, ClockStops DEF CheckGood, CheckConfirms, ResetWatch
<1>2. CASE CheckWaits
  BY <1>2, CheckWaitsKeepsClock
<1>3. CASE CheckPulses
  BY <1>3, CheckPulsesKeepsClock
<1>4. CASE Tick
  BY <1>4, TickKeepsClock
<1>5. CASE UNCHANGED <<outage, seen>>
  BY <1>5 DEF ClockInv
<1>6. \/ CheckGood \/ CheckConfirms \/ ResetWatch \/ CheckWaits \/ CheckPulses \/ Tick
      \/ UNCHANGED <<outage, seen>>
  <2>1. LoopStep => \/ CheckGood \/ CheckConfirms \/ CheckWaits \/ CheckPulses
                    \/ UNCHANGED <<outage, seen>>
    BY DEF LoopStep, BootWatch, PulseEnds, watchVars
  <2>2. WebStep => UNCHANGED <<outage, seen>>
    BY DEF WebStep, ManualPulse, PulseEnds, watchVars
  <2>3. World => UNCHANGED <<outage, seen>>
    BY DEF World, watchVars
  <2> QED
    BY <2>1, <2>2, <2>3 DEF Next
<1> QED
  BY <1>1, <1>2, <1>3, <1>4, <1>5, <1>6

-----------------------------------------------------------------------------
(***************************************************************************)
(* The relay                                                               *)
(***************************************************************************)
\* A step that leaves the relay and the pulses alone does not start loop(): an
\* uplink step of loop() finds it running, any other leaves it as it is.
LEMMA UplinkKeepsPower ==
    ASSUME PowerInv, relay' = relay, pulse' = pulse,
           \/ job' = job
           \/ \E t \in Tasks : PutKey(t)
           \/ SaveNetwork \/ Attempt \/ TryPrimary \/ TryBackup \/ Tried
    PROVE  PowerInv'
<1>1. DOMAIN job = Tasks /\ "loop" \in Tasks /\ "web" \in Tasks
  BY DEF PowerInv, Tasks
<1>2. DOMAIN job' = Tasks
  BY <1>1 DEF PutKey, SaveNetwork, Attempt, TryPrimary, TryBackup, Tried
<1>3. Active' => Active
  <2>1. CASE job' = job
    BY <2>1 DEF Active
  <2>2. CASE \E t \in Tasks : PutKey(t)
    <3>1. PICK t \in Tasks : PutKey(t)
      BY <2>2
    <3>2. PICK j : job' = [job EXCEPT ![t] = j]
      BY <3>1 DEF PutKey
    <3>3. CASE t = "loop"
      BY <3>1, <3>3 DEF PutKey, Busy, Active
    <3>4. CASE t # "loop"
      BY <1>1, <3>2, <3>4 DEF Active
    <3> QED
      BY <3>3, <3>4
  <2>3. CASE SaveNetwork
    <3>1. PICK j : job' = [job EXCEPT !["web"] = j]
      BY <2>3 DEF SaveNetwork
    <3> QED
      BY <1>1, <3>1 DEF Active
  <2>4. CASE Attempt \/ TryPrimary \/ TryBackup \/ Tried
    BY <2>4 DEF Attempt, TryPrimary, TryBackup, Tried, Active
  <2> QED
    BY <2>1, <2>2, <2>3, <2>4
<1> QED
  BY <1>2, <1>3 DEF PowerInv, PoweredUnlessPulsed

\* Cutting the power is a pulse; a pulse that ends, and boot, give it back; a
\* reset leaves loop() off.
LEMMA NextKeepsPower ==
    ASSUME PowerInv, Next
    PROVE  PowerInv'
<1>0. DOMAIN job = Tasks /\ "loop" \in Tasks
  BY DEF PowerInv, Tasks
<1>1. CASE BootWatch
  <2>1. relay' = TRUE
    BY <1>1 DEF BootWatch, RelayAtBoot
  <2>2. DOMAIN job' = Tasks
    BY <1>0, <1>1 DEF BootWatch, Boot
  <2> QED
    BY <2>1, <2>2 DEF PowerInv, PoweredUnlessPulsed
<1>2. CASE CheckPulses \/ ManualPulse
  <2>1. job' = job /\ pulse' # {}
    BY <1>2 DEF CheckPulses, ManualPulse, Cut
  <2> QED
    BY <1>0, <2>1 DEF PowerInv, PoweredUnlessPulsed
<1>3. CASE \E t \in Tasks : PulseEnds(t)
  <2>1. relay' = TRUE /\ job' = job
    BY <1>3 DEF PulseEnds, wifiVars
  <2> QED
    BY <1>0, <2>1 DEF PowerInv, PoweredUnlessPulsed
<1>4. CASE ResetWatch
  <2>1. job' = [t \in Tasks |-> IF t = "loop" THEN Off ELSE Idle]
    BY <1>4 DEF ResetWatch, Reset
  <2>2. job'["loop"].pc = "off"
    BY <1>0, <2>1 DEF Off
  <2> QED
    BY <2>1, <2>2 DEF PowerInv, PoweredUnlessPulsed, Active
<1>5. CASE CheckGood \/ CheckWaits \/ CheckConfirms \/ Tick \/ World
  <2>1. job' = job /\ relay' = relay /\ pulse' = pulse
    BY <1>5 DEF CheckGood, CheckWaits, CheckConfirms, Tick, World, AirChange,
                AutoReconnect, wifiVars, watchVars
  <2> QED
    BY <2>1, UplinkKeepsPower
<1>6. CASE /\ UNCHANGED watchVars
           /\ \/ \E t \in Tasks : PutKey(t)
              \/ SaveNetwork \/ Attempt \/ TryPrimary \/ TryBackup \/ Tried
  <2>1. relay' = relay /\ pulse' = pulse
    BY <1>6 DEF watchVars
  <2> QED
    BY <1>6, <2>1, UplinkKeepsPower
<1>7. "web" \in Tasks
  BY DEF Tasks
<1>8. LoopStep => \/ BootWatch \/ CheckGood \/ CheckWaits \/ CheckPulses \/ CheckConfirms
                  \/ \E t \in Tasks : PulseEnds(t)
                  \/ /\ UNCHANGED watchVars
                     /\ \/ \E t \in Tasks : PutKey(t)
                        \/ Attempt \/ TryPrimary \/ TryBackup \/ Tried
  BY <1>0 DEF LoopStep
<1>9. WebStep => \/ ManualPulse
                 \/ \E t \in Tasks : PulseEnds(t)
                 \/ /\ UNCHANGED watchVars
                    /\ (\E t \in Tasks : PutKey(t)) \/ SaveNetwork
  BY <1>7 DEF WebStep
<1> QED
  BY <1>1, <1>2, <1>3, <1>4, <1>5, <1>6, <1>8, <1>9 DEF Next

-----------------------------------------------------------------------------
\* The clocks and the relay of every reachable state (net_watchdog.cpp,
\* bridge_watchdog.cpp, power_monitor.cpp).
THEOREM RelayInvariant == Spec => []IInv
<1>1. IInv /\ [Next]_vars => IInv'
  <2> SUFFICES ASSUME IInv, [Next]_vars PROVE IInv'
    OBVIOUS
  <2>1. CASE Next
    BY <2>1, NextKeepsClock, NextKeepsPower DEF IInv
  <2>2. CASE UNCHANGED vars
    BY <2>2 DEF IInv, ClockInv, PowerInv, PoweredUnlessPulsed, Active, vars,
                wifiVars, watchVars
  <2> QED
    BY <2>1, <2>2
<1> QED
  BY <1>1, IInvInit, PTL DEF Spec

\* Between pulses the device has power, after any reset and however loop()'s
\* pulse and the dashboard's overlap (pulseRelay).
THEOREM RelayPowered == Spec => []PoweredUnlessPulsed
<1>1. IInv => PoweredUnlessPulsed
  BY DEF IInv, PowerInv
<1> QED
  BY <1>1, RelayInvariant, PTL

\* The episode an outage is reported with began with its first failed check
\* (g_outageEpisodeStartMs).
THEOREM RelayEpisodeWhole == Spec => []EpisodeIsWhole
<1>1. IInv => EpisodeIsWhole
  BY DEF IInv, ClockInv, EpisodeIsWhole
<1> QED
  BY <1>1, RelayInvariant, PTL

\* A step in which loop() begins a pulse or confirms a change of the mains.
Strikes == "loop" \in pulse' \ pulse \/ (Active /\ confirmed' # confirmed)

\* loop() does so only in a check whose clock has reached the threshold.
LEMMA StrikesAreChecks ==
    ASSUME [Next]_vars, Strikes
    PROVE  CheckPulses \/ CheckConfirms
<1>1. ~UNCHANGED <<pulse, confirmed>>
  BY DEF Strikes
<1>2. ~UNCHANGED vars
  BY <1>1 DEF vars, watchVars
<1>3. ~BootWatch
  <2> SUFFICES ASSUME BootWatch PROVE FALSE
    OBVIOUS
  <2>1. ~Active /\ pulse' = pulse
    BY DEF BootWatch, Boot, Active
  <2> QED
    BY <2>1 DEF Strikes
<1>4. ~ManualPulse
  BY DEF ManualPulse, Strikes
<1>5. \A t \in Tasks : ~PulseEnds(t)
  BY DEF PulseEnds, Strikes
<1>6. ~ResetWatch
  BY DEF ResetWatch, Strikes
<1>7. LoopStep => CheckPulses \/ CheckConfirms
  BY <1>1, <1>3, <1>5 DEF LoopStep, Tasks, CheckGood, CheckWaits, watchVars
<1>8. ~WebStep
  BY <1>1, <1>4, <1>5 DEF WebStep, Tasks, watchVars
<1>9. ~World /\ ~Tick
  BY <1>1 DEF World, Tick, watchVars
<1> QED
  BY <1>2, <1>6, <1>7, <1>8, <1>9 DEF Next

\* loop() cuts the power only when checks failed for the threshold, and again
\* only after it (outageThresholdReached).
THEOREM RelayPulsesSpaced == Spec => PulsesSpaced
<1>1. IInv /\ [Next]_vars =>
        [Strikes => seen.failing >= Threshold /\ seen.pulsed \in {None, Threshold}]_vars
  <2> SUFFICES ASSUME IInv, [Next]_vars, Strikes
               PROVE  seen.failing >= Threshold /\ seen.pulsed \in {None, Threshold}
    OBVIOUS
  <2>1. outage.first # None /\ outage.first >= Threshold
    BY StrikesAreChecks DEF CheckPulses, CheckConfirms, OutageThresholdReached
  <2>2. outage.first \in Ages /\ seen.failing \in Ages /\ seen.pulsed \in Ages
    BY FieldFacts DEF IInv, ClockInv
  <2>3. outage.first <= seen.failing /\ (seen.pulsed # None => outage.first <= seen.pulsed)
    BY <2>1 DEF IInv, ClockInv
  <2>4. outage.first \in Int /\ seen.failing \in Int /\ seen.pulsed \in Int /\ Threshold \in Int
    BY <2>2, AgeFacts, WatchdogAssumption
  <2>5. seen.failing >= Threshold
    BY <2>1, <2>3, <2>4
  <2>6. ASSUME seen.pulsed # None PROVE seen.pulsed = Threshold
    <3>1. seen.pulsed <= Threshold
      BY <2>2, <2>6, AgeFacts
    <3> QED
      BY <2>1, <2>3, <2>4, <2>6, <3>1
  <2> QED
    BY <2>5, <2>6
<1> QED
  BY <1>1, RelayInvariant, PTL DEF Spec, PulsesSpaced, Strikes

-----------------------------------------------------------------------------
(***************************************************************************)
(* The stored credentials                                                  *)
(***************************************************************************)
NetNames == Nets \cup {NoNet}
NetSlots == [ssid : NetNames, password : NetNames]
Credentials == [primary : NetSlots, backup : NetSlots]
Saves == [pc : {"save"}, key : 1..4, creds : Credentials,
          then : {"idle", "primary", "tried"}]

\* Each network has its own password, or none.
Belongs(c) ==
    /\ c.primary.password \in {c.primary.ssid, NoNet}
    /\ c.backup.password \in {c.backup.ssid, NoNet}

\* The keys before `key` hold what the save of c has written.
Written(c, key) ==
    /\ key > 1 => nvs.primary.ssid = c.primary.ssid
    /\ key > 2 => nvs.primary.password = c.primary.password
    /\ key > 3 => nvs.backup.ssid = c.backup.ssid

CredentialTypes ==
    /\ nvs \in Credentials /\ ram \in Credentials
    /\ DOMAIN job = Tasks
    /\ torn \in BOOLEAN
    /\ \A t \in Tasks : Busy(t) => job[t] \in Saves
    /\ job["loop"].pc = "off" => job["web"].pc = "idle" /\ ~started

\* While nothing was torn one task saves at most, what it saves belongs, the
\* keys behind it are of that, and with no save under way what is stored belongs.
NotTorn ==
    /\ ~(Busy("loop") /\ Busy("web"))
    /\ Belongs(ram)
    /\ \A t \in Tasks : Busy(t) => Belongs(job[t].creds) /\ Written(job[t].creds, job[t].key)
    /\ (\A t \in Tasks : ~Busy(t)) => Belongs(nvs)

\* The inductive invariant of the credentials.
CredentialInv == CredentialTypes /\ (~torn => NotTorn)

\* The parts of credentials, and of a save of them.
LEMMA CredentialFacts ==
    /\ \A c \in Credentials :
         /\ c.primary \in NetSlots /\ c.backup \in NetSlots
         /\ c = [primary |-> c.primary, backup |-> c.backup]
    /\ \A s \in NetSlots : s.ssid \in NetNames /\ s.password \in NetNames
    /\ \A p, b \in NetSlots : [primary |-> p, backup |-> b] \in Credentials
    /\ \A m, n \in NetNames :
         /\ Slot(m, n) \in NetSlots /\ Slot(m, n).ssid = m /\ Slot(m, n).password = n
    /\ NoSlot \in NetSlots /\ NoSlot.ssid = NoNet /\ NoSlot.password = NoNet
BY DEF Credentials, NetSlots, NetNames, Slot, NoSlot

LEMMA SecretsBelong == Secrets \in Credentials /\ Belongs(Secrets)
BY CredentialFacts, WifiAssumption DEF Secrets, Belongs, NetNames

LEMMA SavingFacts ==
    ASSUME NEW c \in Credentials, NEW then \in {"idle", "primary", "tried"}
    PROVE  /\ Saving(c, then) \in Saves /\ Saving(c, then).pc = "save"
           /\ Saving(c, then).creds = c /\ Written(c, Saving(c, then).key)
BY DEF Saving, Saves, Written

LEMMA CredentialInit == Init => CredentialInv
<1> SUFFICES ASSUME Init PROVE CredentialInv
  OBVIOUS
<1>1. /\ ram = [primary |-> NoSlot, backup |-> NoSlot] /\ torn = FALSE /\ started = FALSE
      /\ job = [t \in Tasks |-> IF t = "loop" THEN Off ELSE Idle]
      /\ nvs \in InitialCredentials
  BY DEF Init, WifiInit
<1>2. /\ DOMAIN job = Tasks /\ \A t \in Tasks : ~Busy(t)
      /\ job["loop"].pc = "off" /\ job["web"].pc = "idle"
  BY <1>1 DEF Tasks, Busy, Off, Idle
<1>3. ram \in Credentials /\ Belongs(ram)
  BY <1>1, CredentialFacts DEF Belongs
<1>4. nvs \in Credentials /\ Belongs(nvs)
  <2>1. CASE nvs = [primary |-> NoSlot, backup |-> NoSlot]
    BY <2>1, CredentialFacts DEF Belongs
  <2>2. CASE nvs = Secrets
    BY <2>2, SecretsBelong
  <2>3. ASSUME NEW n \in Nets, nvs = [Secrets EXCEPT !.backup = Slot(n, n)]
        PROVE  nvs \in Credentials /\ Belongs(nvs)
    <3>1. Slot(n, n) \in NetSlots /\ Slot(n, n).ssid = n /\ Slot(n, n).password = n
      BY CredentialFacts DEF NetNames
    <3>2. nvs.primary = Secrets.primary /\ nvs.backup = Slot(n, n) /\ nvs \in Credentials
      BY <2>3, <3>1, SecretsBelong DEF Credentials
    <3> QED
      BY <3>1, <3>2, SecretsBelong DEF Belongs
  <2> QED
    BY <1>1, <2>1, <2>2, <2>3 DEF InitialCredentials
<1>5. NotTorn
  BY <1>2, <1>3, <1>4 DEF NotTorn, Tasks
<1> QED
  BY <1>1, <1>2, <1>3, <1>4, <1>5 DEF CredentialInv, CredentialTypes

\* What one put of a key changes.
WithKey(n, x, y, v) == [n EXCEPT ![x][y] = v]
OnlyKey(m, n, x, y, v) ==
    /\ m \in Credentials
    /\ m[x][y] = v
    /\ \A a \in {"primary", "backup"}, b \in {"ssid", "password"} :
          <<a, b>> # <<x, y>> => m[a][b] = n[a][b]

LEMMA OnePut ==
    ASSUME NEW n \in Credentials, NEW v \in NetNames,
           NEW x \in {"primary", "backup"}, NEW y \in {"ssid", "password"},
           NEW m, m = WithKey(n, x, y, v)
    PROVE  OnlyKey(m, n, x, y, v)
<1>1. \A a \in {"primary", "backup"} : n[a] \in NetSlots
  BY DEF Credentials
<1>2. \A s \in NetSlots, w \in NetNames, b \in {"ssid", "password"} :
        /\ [s EXCEPT ![b] = w] \in NetSlots
        /\ [s EXCEPT ![b] = w][b] = w
        /\ \A d \in {"ssid", "password"} : d # b => [s EXCEPT ![b] = w][d] = s[d]
  BY DEF NetSlots
<1>3. m = [n EXCEPT ![x] = [n[x] EXCEPT ![y] = v]]
  BY DEF Credentials, WithKey
<1>4. PICK s \in NetSlots : s = [n[x] EXCEPT ![y] = v]
  BY <1>1, <1>2
<1>5. m = [n EXCEPT ![x] = s]
  BY <1>3, <1>4
<1>6. /\ m \in Credentials /\ m[x] = s
      /\ \A a \in {"primary", "backup"} : a # x => m[a] = n[a]
  BY <1>5 DEF Credentials
<1>7. s[y] = v /\ \A b \in {"ssid", "password"} : b # y => s[b] = n[x][b]
  <2>1. PICK r \in NetSlots : r = n[x]
    BY <1>1
  <2>2. s = [r EXCEPT ![y] = v]
    BY <1>4, <2>1
  <2>3. s[y] = v /\ \A b \in {"ssid", "password"} : b # y => s[b] = r[b]
    BY <2>2 DEF NetSlots
  <2> QED
    BY <2>1, <2>3
<1> QED
  BY <1>6, <1>7 DEF OnlyKey
\* One key more is written, or the save is torn.
LEMMA PutKeyKeeps ==
    ASSUME CredentialInv, NEW t \in Tasks, PutKey(t)
    PROVE  CredentialInv'
<1>1. /\ Busy(t) /\ job[t] \in Saves /\ DOMAIN job = Tasks
      /\ ram' = ram /\ started' = started
  BY DEF PutKey, CredentialInv, CredentialTypes
<1>2. PICK k \in 1..4, c \in Credentials, then \in {"idle", "primary", "tried"} :
         job[t] = [pc |-> "save", key |-> k, creds |-> c, then |-> then]
  BY <1>1 DEF Saves
<1>3. /\ job[t].key = k /\ job[t].creds = c /\ job[t].then = then
      /\ job' = [job EXCEPT ![t] = IF k < 4 THEN [job[t] EXCEPT !.key = k + 1] ELSE [pc |-> then]]
  BY <1>2 DEF PutKey, Keys
<1>4. /\ DOMAIN job' = Tasks
      /\ \A u \in Tasks : u # t => job'[u] = job[u]
      /\ k < 4 => job'[t] = [pc |-> "save", key |-> k + 1, creds |-> c, then |-> then]
      /\ k = 4 => job'[t].pc = then
  BY <1>1, <1>2, <1>3
<1>5. /\ k < 4 => job'[t] \in Saves
      /\ \A u \in Tasks : Busy(u)' => Busy(u)
      /\ \A u \in Tasks : Busy(u)' => job'[u] \in Saves
      /\ job'["loop"].pc = "off" => job'["web"].pc = "idle" /\ ~started'
      /\ ram' \in Credentials
  <2>1. k < 4 => job'[t] \in Saves /\ job'[t].pc = "save"
    BY <1>2, <1>4 DEF Saves
  <2>2. \A u \in Tasks : Busy(u)' => Busy(u)
    BY <1>1, <1>4 DEF Busy
  <2>3. \A u \in Tasks : Busy(u)' => job'[u] \in Saves
    BY <1>1, <1>2, <1>4, <2>1 DEF Busy, CredentialInv, CredentialTypes
  <2>4. job'["loop"].pc = "off" => job'["web"].pc = "idle" /\ ~started'
    BY <1>1, <1>2, <1>4, <2>1 DEF Busy, Tasks, CredentialInv, CredentialTypes
  <2> QED
    BY <1>1, <2>1, <2>2, <2>3, <2>4 DEF CredentialInv, CredentialTypes
<1>6. CASE torn' = TRUE /\ nvs' = nvs
  BY <1>4, <1>5, <1>6 DEF CredentialInv, CredentialTypes
<1>7. CASE torn' = torn /\ nvs' = [nvs EXCEPT ![Keys[k][1]][Keys[k][2]] = c[Keys[k][1]][Keys[k][2]]]
  <2>1. /\ nvs \in Credentials /\ nvs.primary \in NetSlots /\ nvs.backup \in NetSlots
        /\ c.primary \in NetSlots /\ c.backup \in NetSlots
    BY <1>2, CredentialFacts DEF CredentialInv, CredentialTypes
  <2>2. PICK x \in {"primary", "backup"}, y \in {"ssid", "password"} :
           /\ <<x, y>> = Keys[k]
           /\ k = 1 <=> x = "primary" /\ y = "ssid"
           /\ k = 2 <=> x = "primary" /\ y = "password"
           /\ k = 3 <=> x = "backup" /\ y = "ssid"
           /\ k = 4 <=> x = "backup" /\ y = "password"
    BY <1>2 DEF Keys
  <2>3. /\ nvs' \in Credentials
        /\ nvs'.primary.ssid = IF k = 1 THEN c.primary.ssid ELSE nvs.primary.ssid
        /\ nvs'.primary.password = IF k = 2 THEN c.primary.password ELSE nvs.primary.password
        /\ nvs'.backup.ssid = IF k = 3 THEN c.backup.ssid ELSE nvs.backup.ssid
        /\ nvs'.backup.password = IF k = 4 THEN c.backup.password ELSE nvs.backup.password
    <3>1. x = Keys[k][1] /\ y = Keys[k][2]
      BY <2>2
    <3>2. nvs' = [nvs EXCEPT ![x][y] = c[x][y]]
      BY <1>7, <3>1, Zenon
    <3>3. c[x][y] \in NetNames
      BY <2>1 DEF NetSlots
    <3>4. PICK v \in NetNames : v = c[x][y]
      BY <3>3
    <3>5. nvs' = WithKey(nvs, x, y, v)
      BY <3>2, <3>4, Zenon DEF WithKey
    <3>6. nvs \in Credentials
      BY <2>1
    <3>7. OnlyKey(nvs', nvs, x, y, v)
      BY <3>5, <3>6, OnePut, Zenon
    <3> QED
      BY <2>2, <3>4, <3>7 DEF OnlyKey
  <2>4. ASSUME Written(c, k)
        PROVE  /\ k < 4 => Written(c, k + 1)'
               /\ k = 4 => (Belongs(c) => Belongs(nvs'))
    BY <1>2, <2>3, <2>4 DEF Written, Belongs
  <2>5. ASSUME ~torn PROVE NotTorn'
    <3>1. /\ NotTorn /\ Belongs(c) /\ Written(c, k)
          /\ \A u \in Tasks : u # t => ~Busy(u)
      BY <1>1, <1>3, <2>5 DEF CredentialInv, NotTorn, Tasks
    <3>2. \A u \in Tasks : u # t => ~Busy(u)'
      BY <1>5, <3>1
    <3>3. Belongs(ram')
      BY <1>1, <3>1 DEF NotTorn
    <3>4. CASE k < 4
      <4>1. job'[t].pc = "save" /\ job'[t].creds = c /\ job'[t].key = k + 1
        BY <1>4, <3>4
      <4>2. Busy(t)' /\ Belongs(job'[t].creds) /\ Written(job[t].creds, job[t].key)'
        BY <2>4, <3>1, <3>4, <4>1 DEF Busy, Written
      <4> QED
        BY <3>2, <3>3, <4>2 DEF NotTorn, Tasks
    <3>5. CASE k = 4
      <4>1. Belongs(nvs')
        BY <2>4, <3>1, <3>5
      <4>2. ~Busy(t)'
        BY <1>2, <1>4, <3>5 DEF Busy
      <4> QED
        BY <3>2, <3>3, <4>1, <4>2 DEF NotTorn, Tasks
    <3> QED
      BY <1>2, <3>4, <3>5
  <2> QED
    BY <1>4, <1>5, <1>7, <2>3, <2>5 DEF CredentialInv, CredentialTypes
<1> QED
  BY <1>3, <1>6, <1>7 DEF PutKey

\* What the page or an import stores belongs, when what is stored does.
LEMMA FormsBelong ==
    ASSUME nvs \in Credentials,
           NEW c \in ImportedCredentials \cup {Filled(f) : f \in {f \in Forms : Accepted(f)}}
    PROVE  c \in Credentials /\ (Belongs(nvs) => Belongs(c))
<1>1. NoNet \in NetNames /\ Nets \subseteq NetNames
  BY DEF NetNames
<1>2. CASE c \in ImportedCredentials
  <2>1. PICK m \in Nets, n \in NetNames : c = [primary |-> Slot(m, NoNet), backup |-> Slot(n, NoNet)]
    BY <1>2 DEF ImportedCredentials, NetNames
  <2> QED
    BY <1>1, <2>1, CredentialFacts DEF Belongs
<1>3. ASSUME NEW f \in Forms, Accepted(f), c = Filled(f)
      PROVE  c \in Credentials /\ (Belongs(nvs) => Belongs(c))
  <2>1. /\ f.primary \in NetNames /\ f.backup \in NetNames
        /\ f.typed \in BOOLEAN /\ f.backupTyped \in BOOLEAN
    BY DEF Forms, NetNames
  <2>2. nvs.primary \in NetSlots /\ nvs.backup \in NetSlots
        /\ nvs.primary.password \in NetNames /\ nvs.backup.password \in NetNames
    BY CredentialFacts
  <2>3. /\ c.primary = Slot(f.primary, IF f.typed THEN f.primary ELSE nvs.primary.password)
        /\ c.backup = IF f.backup = NoNet THEN NoSlot
                      ELSE Slot(f.backup, IF f.backupTyped THEN f.backup ELSE nvs.backup.password)
        /\ c = [primary |-> c.primary, backup |-> c.backup]
    BY <1>3 DEF Filled
  <2>4. /\ c.primary \in NetSlots /\ c.primary.ssid = f.primary
        /\ c.primary.password = IF f.typed THEN f.primary ELSE nvs.primary.password
    BY <2>1, <2>2, <2>3, CredentialFacts
  <2>5. /\ c.backup \in NetSlots /\ c.backup.ssid = f.backup
        /\ f.backup = NoNet => c.backup.password = NoNet
        /\ f.backup # NoNet => c.backup.password = IF f.backupTyped THEN f.backup ELSE nvs.backup.password
    BY <2>1, <2>2, <2>3, CredentialFacts
  <2>6. c \in Credentials
    BY <2>3, <2>4, <2>5, CredentialFacts
  <2>7. /\ f.typed \/ f.primary = nvs.primary.ssid
        /\ f.backupTyped \/ f.backup \in {NoNet, nvs.backup.ssid}
    BY <1>3 DEF Accepted
  <2>8. Belongs(nvs) => Belongs(c)
    BY <2>1, <2>4, <2>5, <2>7 DEF Belongs
  <2> QED
    BY <2>6, <2>8
<1> QED
  BY <1>2, <1>3

LEMMA SaveNetworkKeeps ==
    ASSUME CredentialInv, SaveNetwork
    PROVE  CredentialInv'
<1>1. PICK c \in ImportedCredentials \cup {Filled(f) : f \in {f \in Forms : Accepted(f)}} :
         job' = [job EXCEPT !["web"] = Saving(c, "idle")]
  BY DEF SaveNetwork
<1>2. /\ job["web"].pc = "idle" /\ started /\ nvs' = nvs /\ ram' = ram /\ started' = started
      /\ torn' = (torn \/ Busy("loop")) /\ nvs \in Credentials /\ DOMAIN job = Tasks
  BY DEF SaveNetwork, CredentialInv, CredentialTypes
<1>3. c \in Credentials /\ (Belongs(nvs) => Belongs(c))
  BY <1>2, FormsBelong
<1>4. /\ DOMAIN job' = Tasks /\ job'["loop"] = job["loop"]
      /\ job'["web"] \in Saves /\ job'["web"].pc = "save"
      /\ job'["web"].creds = c /\ Written(c, job'["web"].key)
  BY <1>1, <1>2, <1>3, SavingFacts DEF Tasks
<1>5. torn' \in BOOLEAN /\ (~torn' => ~torn /\ ~Busy("loop"))
  BY <1>2, Zenon
<1>6. CredentialTypes'
  BY <1>2, <1>4, <1>5 DEF CredentialInv, CredentialTypes, Tasks, Busy
<1>7. ASSUME ~torn' PROVE NotTorn'
  <2>1. Belongs(nvs) /\ Belongs(ram)
    BY <1>2, <1>5, <1>7 DEF CredentialInv, NotTorn, Tasks, Busy
  <2> QED
    BY <1>2, <1>3, <1>4, <1>5, <1>7, <2>1 DEF NotTorn, Tasks, Busy, Belongs, Written
<1> QED
  BY <1>6, <1>7 DEF CredentialInv

LEMMA BootKeeps ==
    ASSUME CredentialInv, Boot
    PROVE  CredentialInv'
<1>1. /\ job["loop"].pc = "off" /\ job["web"].pc = "idle" /\ ~started
      /\ nvs' = nvs /\ started' = started /\ nvs \in Credentials /\ DOMAIN job = Tasks
  BY DEF Boot, CredentialInv, CredentialTypes
<1>2. ~Busy("loop") /\ ~Busy("web") /\ \A t \in Tasks : ~Busy(t)
  BY <1>1 DEF Busy, Tasks
<1>3. torn' = torn
  BY <1>2 DEF Boot, CredentialInv, CredentialTypes
<1>4. CASE nvs.primary.ssid = NoNet
  <2>1. ram' = Secrets /\ job' = [job EXCEPT !["loop"] = Saving(Secrets, "primary")]
    BY <1>4 DEF Boot
  <2>2. /\ DOMAIN job' = Tasks /\ job'["web"] = job["web"]
        /\ job'["loop"] \in Saves /\ job'["loop"].pc = "save"
        /\ job'["loop"].creds = Secrets /\ Written(Secrets, job'["loop"].key)
    BY <1>1, <2>1, SecretsBelong, SavingFacts DEF Tasks
  <2>3. CredentialTypes'
    BY <1>1, <1>3, <2>1, <2>2, SecretsBelong DEF CredentialInv, CredentialTypes, Tasks, Busy
  <2>4. NotTorn'
    BY <1>1, <2>1, <2>2, SecretsBelong DEF NotTorn, Tasks, Busy, Belongs, Written
  <2> QED
    BY <2>3, <2>4 DEF CredentialInv
<1>5. CASE nvs.primary.ssid # NoNet
  <2>1. ram' = nvs /\ job' = [job EXCEPT !["loop"] = [pc |-> "primary"]]
    BY <1>5 DEF Boot
  <2>2. DOMAIN job' = Tasks /\ job'["web"] = job["web"] /\ job'["loop"].pc = "primary"
    BY <1>1, <2>1 DEF Tasks
  <2>3. CredentialTypes'
    BY <1>1, <1>3, <2>1, <2>2 DEF CredentialInv, CredentialTypes, Tasks, Busy
  <2>4. ASSUME ~torn' PROVE NotTorn'
    BY <1>1, <1>2, <1>3, <2>1, <2>2, <2>4 DEF CredentialInv, NotTorn, Tasks, Busy, Belongs
  <2> QED
    BY <2>3, <2>4 DEF CredentialInv
<1> QED
  BY <1>4, <1>5

\* loop() goes from one step to the next, saving nothing.
LEMMA LoopMoves ==
    ASSUME CredentialInv, NEW pc \in {"idle", "primary", "backup", "tried"},
           ~Busy("loop"), job["loop"].pc # "off",
           job' = [job EXCEPT !["loop"] = [pc |-> pc]],
           nvs' = nvs, ram' = ram, torn' = torn
    PROVE  CredentialInv'
<1>1. DOMAIN job = Tasks
  BY DEF CredentialInv, CredentialTypes
<1>2. /\ DOMAIN job' = Tasks /\ job'["web"] = job["web"] /\ job'["loop"].pc = pc
      /\ ~Busy("loop")' /\ (Busy("web")' <=> Busy("web"))
  BY <1>1 DEF Tasks, Busy
<1>3. CredentialTypes'
  BY <1>2 DEF CredentialInv, CredentialTypes, Tasks
<1>4. ASSUME ~torn PROVE NotTorn'
  BY <1>2, <1>4 DEF CredentialInv, NotTorn, Tasks, Belongs, Written
<1> QED
  BY <1>3, <1>4 DEF CredentialInv

LEMMA TryBackupKeeps ==
    ASSUME CredentialInv, TryBackup
    PROVE  CredentialInv'
<1>1. /\ job["loop"].pc = "backup" /\ ~Busy("loop") /\ nvs' = nvs /\ started' = started
      /\ DOMAIN job = Tasks /\ ram \in Credentials /\ torn \in BOOLEAN
  BY DEF TryBackup, Busy, CredentialInv, CredentialTypes
<1>2. CASE ~Joins(ram.backup)
  BY <1>1, <1>2, LoopMoves DEF TryBackup
<1>3. CASE Joins(ram.backup)
  <2> DEFINE swapped == [primary |-> ram.backup, backup |-> ram.primary]
  <2>1. /\ ram' = swapped /\ job' = [job EXCEPT !["loop"] = Saving(swapped, "tried")]
        /\ torn' = (torn \/ Busy("web"))
    BY <1>3 DEF TryBackup
  <2>2. swapped \in Credentials /\ (Belongs(ram) => Belongs(swapped))
    BY <1>1, CredentialFacts DEF Belongs
  <2> HIDE DEF swapped
  <2>3. /\ DOMAIN job' = Tasks /\ job'["web"] = job["web"]
        /\ job'["loop"] \in Saves /\ job'["loop"].pc = "save"
        /\ job'["loop"].creds = swapped /\ Written(swapped, job'["loop"].key)
    BY <1>1, <2>1, <2>2, SavingFacts DEF Tasks
  <2>4. torn' \in BOOLEAN /\ (~torn' => ~torn /\ ~Busy("web"))
    BY <2>1, Zenon
  <2>5. CredentialTypes'
    BY <1>1, <2>1, <2>2, <2>3, <2>4 DEF CredentialInv, CredentialTypes, Tasks, Busy
  <2>6. ASSUME ~torn' PROVE NotTorn'
    <3>1. Belongs(swapped) /\ ~Busy("web")
      BY <2>2, <2>4, <2>6 DEF CredentialInv, NotTorn
    <3> QED
      BY <1>1, <2>1, <2>3, <3>1 DEF NotTorn, Tasks, Busy, Belongs, Written
  <2> QED
    BY <2>5, <2>6 DEF CredentialInv
<1> QED
  BY <1>2, <1>3

\* A reset drops what is in RAM; a save it cuts short is torn.
LEMMA ResetKeepsCredentials ==
    ASSUME CredentialInv, Reset
    PROVE  CredentialInv'
<1>1. /\ torn' = (torn \/ \E t \in Tasks : Busy(t)) /\ nvs' = nvs /\ started' = FALSE
      /\ ram' = [primary |-> NoSlot, backup |-> NoSlot]
      /\ job' = [t \in Tasks |-> IF t = "loop" THEN Off ELSE Idle]
  BY DEF Reset
<1>2. /\ DOMAIN job' = Tasks /\ job'["web"].pc = "idle" /\ \A t \in Tasks : ~Busy(t)'
  BY <1>1 DEF Tasks, Busy, Off, Idle
<1>3. torn' \in BOOLEAN /\ (~torn' => ~torn /\ \A t \in Tasks : ~Busy(t))
  BY <1>1, Zenon
<1>4. ram' \in Credentials /\ Belongs(ram')
  BY <1>1, CredentialFacts DEF Belongs
<1>5. CredentialTypes'
  BY <1>1, <1>2, <1>3, <1>4 DEF CredentialInv, CredentialTypes
<1>6. ASSUME ~torn' PROVE NotTorn'
  BY <1>1, <1>2, <1>3, <1>4, <1>6 DEF CredentialInv, NotTorn, Tasks, Belongs
<1> QED
  BY <1>5, <1>6 DEF CredentialInv

LEMMA NextKeepsCredentials ==
    ASSUME CredentialInv, [Next]_vars
    PROVE  CredentialInv'
<1>1. CASE UNCHANGED <<nvs, ram, job, started, torn>>
  BY <1>1 DEF CredentialInv, CredentialTypes, NotTorn, Busy, Belongs, Written
<1>2. CASE Attempt
  <2>1. job["loop"].pc = "idle" /\ ~Busy("loop")
    BY <1>2 DEF Attempt, Busy
  <2> QED
    BY <1>2, <2>1, LoopMoves DEF Attempt
<1>3. CASE TryPrimary
  <2>1. job["loop"].pc = "primary" /\ ~Busy("loop") /\ AfterPrimary \in {"tried", "backup"}
    BY <1>3 DEF TryPrimary, Busy, AfterPrimary
  <2> QED
    BY <1>3, <2>1, LoopMoves DEF TryPrimary
<1>4. CASE Tried
  <2>1. job["loop"].pc = "tried" /\ ~Busy("loop")
    BY <1>4 DEF Tried, Busy
  <2> QED
    BY <1>4, <2>1, LoopMoves DEF Tried, Idle
<1>5. [Next]_vars =>
        \/ UNCHANGED <<nvs, ram, job, started, torn>>
        \/ \E t \in Tasks : PutKey(t)
        \/ SaveNetwork \/ Boot \/ Attempt \/ TryPrimary \/ TryBackup \/ Tried \/ Reset
  BY DEF Next, LoopStep, WebStep, World, BootWatch, ResetWatch, Tick, CheckGood, CheckWaits,
     CheckPulses, CheckConfirms, Cut, PulseEnds, ManualPulse, AirChange, AutoReconnect, Tasks,
     vars, wifiVars
<1> QED
  BY <1>1, <1>2, <1>3, <1>4, <1>5, PutKeyKeeps, SaveNetworkKeeps, BootKeeps, TryBackupKeeps,
     ResetKeepsCredentials

\* What is stored, in RAM and being saved, in every reachable state.
THEOREM CredentialInvariant == Spec => []CredentialInv
BY CredentialInit, NextKeepsCredentials, PTL DEF Spec

\* A stored network has its own password or none, unless a save failed half way
\* or met another (saveWifiCredentials).
THEOREM PasswordsStayWithNetworks == Spec => []PasswordsBelong
<1>1. CredentialInv => PasswordsBelong
  <2> SUFFICES ASSUME CredentialInv, ~torn, \A t \in Tasks : ~Busy(t), NEW name \in DOMAIN nvs
               PROVE  nvs[name].password \in {nvs[name].ssid, NoNet}
    BY DEF PasswordsBelong
  <2>1. Belongs(nvs)
    BY DEF CredentialInv, NotTorn
  <2>2. name \in {"primary", "backup"}
    BY DEF CredentialInv, CredentialTypes, Credentials
  <2> QED
    BY <2>1, <2>2 DEF Belongs
<1> QED
  BY <1>1, CredentialInvariant, PTL
=============================================================================
