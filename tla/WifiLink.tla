------------------------------ MODULE WifiLink ------------------------------
(***************************************************************************)
(* The WiFi uplink: the stored credentials (src/network_store.cpp), the    *)
(* dashboard's Network page and an import that change them, the connection *)
(* to the primary or the backup network with its backed-off retries        *)
(* (src/wifi_connect.cpp), and setup() and loop() around them              *)
(* (src/main.cpp).                                                         *)
(*                                                                         *)
(* A network's password is named like the network; NoNet is no network and *)
(* the blank password.  Credentials are written to NVS key by key, by      *)
(* loop() (a promoted backup) and by the web server's task, with no lock   *)
(* between them.                                                           *)
(***************************************************************************)
EXTENDS Integers, Sequences, FiniteSets

CONSTANTS
    Nets, NoNet,    \* the networks there are, and none
    SecretsNet,     \* WIFI_SSID of secrets.h
    BackoffStart,   \* WIFI_RETRY_BACKOFF_START_MS, in ticks
    BackoffMax,     \* WIFI_RETRY_BACKOFF_MAX_MS, in ticks
    Half,           \* half the range of millis(), in ticks
    MaxUpsets       \* bound: saves and imports of credentials, resets, and
                    \* writes NVS refuses

ASSUME WifiAssumption ==
    /\ NoNet \notin Nets /\ SecretsNet \in Nets
    /\ {BackoffStart, BackoffMax, Half} \subseteq Nat \ {0}
    /\ BackoffStart <= BackoffMax /\ BackoffMax < Half
    /\ MaxUpsets \in Nat

VARIABLES
    nvs,        \* the stored credentials
    ram,        \* g_wifiCredentials
    link,       \* the network WiFi is connected to
    begun,      \* the network last given to WiFi.begin()
    job,        \* per task, what it is in the middle of
    booted,     \* setup() has returned
    started,    \* g_monitoringStarted
    retry,      \* the reconnect backoff: its delay, and how long it is due
    inAir,      \* the networks in reach
    upsets,     \* history: what MaxUpsets bounds
    torn        \* history: a save of credentials failed, was cut short by a
                \* reset, or met another one

wifiVars == <<nvs, ram, link, begun, job, booted, started, retry, inAir,
              upsets, torn>>

Tasks == {"loop", "web"}
Off == [pc |-> "off"]
Idle == [pc |-> "idle"]

Slot(ssid, password) == [ssid |-> ssid, password |-> password]
NoSlot == Slot(NoNet, NoNet)
Secrets == [primary |-> Slot(SecretsNet, SecretsNet), backup |-> NoSlot]

\* saveWifiCredentials writes these, in this order; the other settings of the
\* page have keys of their own and are left out.
Keys == <<<<"primary", "ssid">>, <<"primary", "password">>,
          <<"backup", "ssid">>, <<"backup", "password">>>>

Saving(creds, then) == [pc |-> "save", key |-> 1, creds |-> creds, then |-> then]

Joins(slot) == slot.ssid \in inAir /\ slot.password = slot.ssid

\* A board on which nothing is stored yet, or one set up earlier, perhaps with
\* a backup network added.
InitialCredentials ==
    {[primary |-> NoSlot, backup |-> NoSlot], Secrets} \cup
    {[Secrets EXCEPT !.backup = Slot(n, n)] : n \in Nets \ {SecretsNet}}

WifiInit ==
    /\ nvs \in InitialCredentials
    /\ ram = [primary |-> NoSlot, backup |-> NoSlot]
    /\ link = NoNet /\ begun = NoSlot
    /\ job = [t \in Tasks |-> IF t = "loop" THEN Off ELSE Idle]
    /\ booted = FALSE /\ started = FALSE
    /\ retry = [delay |-> 0, since |-> 0]
    /\ inAir \in SUBSET Nets
    /\ upsets = 0
    /\ torn = FALSE

----------------------------------------------------------------------------
(***************************************************************************)
(* Credentials                                                             *)
(***************************************************************************)
Busy(t) == job[t].pc = "save"

Upset ==
    /\ upsets < MaxUpsets
    /\ upsets' = upsets + 1

PutKey(t) ==
    /\ Busy(t)
    /\ LET k == Keys[job[t].key]
       IN \/ /\ nvs' = [nvs EXCEPT ![k[1]][k[2]] = job[t].creds[k[1]][k[2]]]
             /\ UNCHANGED <<upsets, torn>>
          \/ /\ Upset
             /\ torn' = TRUE
             /\ UNCHANGED nvs
    /\ job' = [job EXCEPT ![t] = IF @.key < Len(Keys)
                                 THEN [@ EXCEPT !.key = job[t].key + 1]
                                 ELSE [pc |-> @.then]]
    /\ UNCHANGED <<ram, link, begun, booted, started, retry, inAir>>

\* What the Network page posts: two networks, each with its password typed or
\* left blank.
Forms == [primary : Nets, typed : BOOLEAN,
          backup : Nets \cup {NoNet}, backupTyped : BOOLEAN]

Filled(form) ==
    LET Kept(slot, ssid, typed) == Slot(ssid, IF typed THEN ssid ELSE slot.password)
    IN [primary |-> Kept(nvs.primary, form.primary, form.typed),
        backup |-> IF form.backup = NoNet THEN NoSlot
                   ELSE Kept(nvs.backup, form.backup, form.backupTyped)]

\* Mutant: only the primary network's password is asked for.
AcceptedUnasked(form) == form.typed \/ form.primary = nvs.primary.ssid

\* A new network needs its password; a blank one keeps what is stored.
Accepted(form) ==
    /\ form.typed \/ form.primary = nvs.primary.ssid
    /\ form.backupTyped \/ form.backup \in {NoNet, nvs.backup.ssid}

\* An import brings networks without passwords.
ImportedCredentials ==
    {[primary |-> Slot(m, NoNet), backup |-> Slot(n, NoNet)] :
        m \in Nets, n \in Nets \cup {NoNet}}

\* The dashboard runs once monitoring does.
SaveNetwork ==
    /\ started /\ link # NoNet /\ job["web"].pc = "idle"
    /\ Upset
    /\ \E creds \in ImportedCredentials \cup {Filled(f) : f \in {f \in Forms : Accepted(f)}} :
        job' = [job EXCEPT !["web"] = Saving(creds, "idle")]
    /\ torn' = (torn \/ Busy("loop"))
    /\ UNCHANGED <<nvs, ram, link, begun, booted, started, retry, inAir>>

----------------------------------------------------------------------------
(***************************************************************************)
(* Connecting                                                              *)
(***************************************************************************)
\* setup() loads the credentials, seeding them on a board that has none.
Boot ==
    /\ job["loop"].pc = "off"
    /\ IF nvs.primary.ssid = NoNet
       THEN /\ ram' = Secrets
            /\ job' = [job EXCEPT !["loop"] = Saving(Secrets, "primary")]
       ELSE /\ ram' = nvs
            /\ job' = [job EXCEPT !["loop"] = [pc |-> "primary"]]
    /\ torn' = (torn \/ (nvs.primary.ssid = NoNet /\ Busy("web")))
    /\ UNCHANGED <<nvs, link, begun, booted, started, retry, inAir, upsets>>

\* A signed difference: a due time further back than half the clock reads as
\* one to come.
WifiReconnectDue == retry.since >= 0

\* loop() finds WiFi down and an attempt due.
Attempt ==
    /\ booted /\ job["loop"].pc = "idle"
    /\ link = NoNet
    /\ WifiReconnectDue
    /\ job' = [job EXCEPT !["loop"] = [pc |-> "primary"]]
    /\ UNCHANGED <<nvs, ram, link, begun, booted, started, retry, inAir, upsets, torn>>

\* Mutant: a reconnect tries the primary network only.
AfterPrimaryAlone ==
    IF Joins(ram.primary) \/ ram.backup.ssid = NoNet \/ booted THEN "tried" ELSE "backup"

AfterPrimary ==
    IF Joins(ram.primary) \/ ram.backup.ssid = NoNet THEN "tried" ELSE "backup"

TryPrimary ==
    /\ job["loop"].pc = "primary"
    /\ begun' = ram.primary
    /\ link' = IF Joins(ram.primary) THEN ram.primary.ssid ELSE NoNet
    /\ job' = [job EXCEPT !["loop"] = [pc |-> AfterPrimary]]
    /\ UNCHANGED <<nvs, ram, booted, started, retry, inAir, upsets, torn>>

\* If only the backup works, it is promoted to primary and the swap is saved.
TryBackup ==
    /\ job["loop"].pc = "backup"
    /\ begun' = ram.backup
    /\ IF Joins(ram.backup)
       THEN LET swapped == [primary |-> ram.backup, backup |-> ram.primary]
            IN /\ link' = ram.backup.ssid
               /\ ram' = swapped
               /\ job' = [job EXCEPT !["loop"] = Saving(swapped, "tried")]
               /\ torn' = (torn \/ Busy("web"))
       ELSE /\ link' = NoNet
            /\ job' = [job EXCEPT !["loop"] = [pc |-> "tried"]]
            /\ UNCHANGED <<ram, torn>>
    /\ UNCHANGED <<nvs, booted, started, retry, inAir, upsets>>

\* nextBackoffDelayMs.
NextDelay(delay) ==
    CASE delay = 0 -> BackoffStart
      [] 2 * delay < BackoffMax -> 2 * delay
      [] OTHER -> BackoffMax

\* recordWifiReconnectResult; the first attempt, setup()'s, is not recorded.
Recorded(connected) ==
    CASE ~booted -> retry
      [] booted /\ connected -> [retry EXCEPT !.delay = 0]
      [] OTHER -> [delay |-> NextDelay(retry.delay), since |-> -NextDelay(retry.delay)]

\* After the attempt, setup() or loop() looks at the link: when it is up,
\* monitoring starts, or the clock is set again.
Tried ==
    /\ job["loop"].pc = "tried"
    /\ retry' = Recorded(link # NoNet)
    /\ started' = (started \/ link # NoNet)
    /\ booted' = TRUE
    /\ job' = [job EXCEPT !["loop"] = Idle]
    /\ UNCHANGED <<nvs, ram, link, begun, inAir, upsets, torn>>

----------------------------------------------------------------------------
(***************************************************************************)
(* The world                                                               *)
(***************************************************************************)
Dropped(air) == IF link \in air THEN link ELSE NoNet

AirChange(powered) ==
    /\ \E air \in SUBSET powered :
        /\ inAir' = air
        /\ link' = Dropped(air)
    /\ UNCHANGED <<nvs, ram, begun, job, booted, started, retry, upsets, torn>>

\* WiFi.setAutoReconnect(true): the WiFi library keeps trying the network it
\* was last given, and connects on its own.
AutoReconnect ==
    /\ link = NoNet /\ Joins(begun)
    /\ link' = begun.ssid
    /\ UNCHANGED <<nvs, ram, begun, job, booted, started, retry, inAir, upsets, torn>>

Aged == [retry EXCEPT !.since = IF @ = Half - 1 THEN -Half ELSE @ + 1]

Reset ==
    /\ Upset
    /\ torn' = (torn \/ \E t \in Tasks : Busy(t))
    /\ ram' = [primary |-> NoSlot, backup |-> NoSlot]
    /\ link' = NoNet /\ begun' = NoSlot
    /\ job' = [t \in Tasks |-> IF t = "loop" THEN Off ELSE Idle]
    /\ booted' = FALSE /\ started' = FALSE
    /\ retry' = [delay |-> 0, since |-> 0]
    /\ UNCHANGED <<nvs, inAir>>


=============================================================================
