------------------------------ MODULE Dashboard ------------------------------
(***************************************************************************)
(* The web server of src/webserver.cpp as one component: the limiter that  *)
(* counts failed logins per address, the login itself and the page that    *)
(* changes it (src/auth_store.cpp), the background jobs the pages start    *)
(* (include/background_job.h), and, from FirmwareUpdate, uploads and boot. *)
(*                                                                         *)
(* The server is one task, so requests do not overlap; jobs are tasks of   *)
(* their own and a reset may come between any two steps.  The limiter      *)
(* reads a clock of ticks that wraps as millis() does; any number of       *)
(* requests may be answered in one tick.                                   *)
(* Requests are taken from the moment setup() is over.                     *)
(***************************************************************************)
EXTENDS FirmwareUpdate, Integers, FiniteSets

CONSTANTS
    Addresses, Admin,   \* addresses of browsers; Admin is one of them
    MaxTracked,         \* MAX_TRACKED_IPS
    MaxFailures,        \* RATE_LIMIT_MAX_FAILURES
    LockoutStart,       \* RATE_LIMIT_LOCKOUT_START_MS, in ticks
    LockoutMax,         \* RATE_LIMIT_LOCKOUT_MAX_MS, in ticks
    Half,               \* half the range of millis(), 2^31 ms, in ticks
    Passwords,          \* the logins the Security page is given
    Jobs,               \* the background jobs explored
    Agendas             \* bound: the kinds of requests made in one behaviour

ASSUME DashboardAssumption ==
    /\ IsFiniteSet(Addresses) /\ Admin \in Addresses
    /\ {MaxTracked, MaxFailures, LockoutStart, LockoutMax} \subseteq Nat \ {0}
    /\ LockoutStart <= LockoutMax /\ LockoutMax < Half /\ Half \in Nat
    /\ Agendas \subseteq SUBSET {"guess", "login", "job", "firmware"}

VARIABLES
    agenda,     \* the kinds of requests this behaviour makes
    clock,      \* millis(), in ticks: it wraps at twice Half
    table,      \* the limiter's entry for each address, used or not
    login,      \* the stored user and password, and the live ones
    save,       \* the save of a login in progress
    jobs,       \* BackgroundJobState and result of each job
    tasks,      \* the jobs whose task runs
    sending,    \* a Telegram send holds g_telegramNetMutex
    accident,   \* history: a save of the login was cut short, or its rollback
                \* was refused
    guesses     \* history, per address: failed logins in a row, how long it
                \* is to be refused, the clock when it was last seen, and who
                \* else was seen since or has a clock that is no smaller

webVars == <<agenda, clock, table, login, save, jobs, tasks, sending, accident, guesses>>
vars == <<firmwareVars, webVars>>

NoLogin == "none"
Whole(p) == [user |-> p, pass |-> p]
NoSave == [pc |-> "idle"]

Ready == Up /\ save.pc = "idle"

----------------------------------------------------------------------------
(***************************************************************************)
(* The limiter                                                             *)
(***************************************************************************)
\* left is lockoutUntilMs - millis() as a signed number, 0 without a stamp.
Clean(used, seen) ==
    [used |-> used, fails |-> 0, stamped |-> FALSE, left |-> 0, last |-> 0, seen |-> seen]
Unused == Clean(FALSE, 0)
NewEntry == Clean(TRUE, clock)

Tracked(t) == {a \in Addresses : t[a].used}

\* The entries whose lastSeenMs is the smallest number, whatever order they were
\* seen in.  Of several seen in one tick any may be the smallest.
LeastSeen(t) == {v \in Tracked(t) : \A b \in Tracked(t) : t[v].seen <= t[b].seen}

\* Mutant: an entry that is found keeps the time it was last seen.
FindOrCreateUnseen(t, a) ==
    CASE a \in Tracked(t) -> {t}
      [] a \notin Tracked(t) /\ Cardinality(Tracked(t)) < MaxTracked ->
            {[t EXCEPT ![a] = NewEntry]}
      [] OTHER -> {[t EXCEPT ![v] = Unused, ![a] = NewEntry] : v \in LeastSeen(t)}

\* Mutant: a new entry keeps what the one that gave way had to its charge.
FindOrCreateInheriting(t, a) ==
    CASE a \in Tracked(t) -> {[t EXCEPT ![a].seen = clock]}
      [] a \notin Tracked(t) /\ Cardinality(Tracked(t)) < MaxTracked ->
            {[t EXCEPT ![a] = NewEntry]}
      [] OTHER -> {[t EXCEPT ![v] = Unused, ![a] = [t[v] EXCEPT !.seen = clock]] :
                        v \in LeastSeen(t)}

\* The table once the entry of a is found, or made: a full table gives up one
\* of those it takes for the least recently seen.
FindOrCreate(t, a) ==
    CASE a \in Tracked(t) -> {[t EXCEPT ![a].seen = clock]}
      [] a \notin Tracked(t) /\ Cardinality(Tracked(t)) < MaxTracked ->
            {[t EXCEPT ![a] = NewEntry]}
      [] OTHER -> {[t EXCEPT ![v] = Unused, ![a] = NewEntry] : v \in LeastSeen(t)}

\* The difference is taken as signed: past Half the stamp is ahead again.
LockedOut(t, a) == t[a].stamped /\ t[a].left > 0

NextBackoff(last) ==
    IF last = 0 THEN LockoutStart
    ELSE IF 2 * last > LockoutMax THEN LockoutMax ELSE 2 * last

\* The entry after a login that failed, or one that was right.
Counted(e, allowed) ==
    IF allowed THEN [e EXCEPT !.fails = 0, !.stamped = FALSE, !.left = 0, !.last = 0]
    ELSE IF e.fails + 1 >= MaxFailures
    THEN [e EXCEPT !.fails = 0, !.last = NextBackoff(e.last),
                   !.stamped = TRUE, !.left = NextBackoff(e.last)]
    ELSE [e EXCEPT !.fails = @ + 1]

Judged(t, a, allowed) == [t EXCEPT ![a] = Counted(@, allowed)]

\* isAllowed: with no user or no password set, everyone is.
Open == NoLogin \in {login.live.user, login.live.pass}

Never == -1
Fresh == [misses |-> 0, barred |-> 0, others |-> {}, seen |-> Never]

\* The addresses whose last sight does not compare as earlier than one now.
Outlasting(a) == {b \in Addresses \ {a} : guesses[b].seen >= clock}

\* What an observer of the requests expects of the limiter: `outcome` is
\* "refused", "failed" or "allowed".  It forgets an address that gave way
\* when it was allowed to.
Observed(a, outcome) ==
    LET excused == a \notin Tracked(table) /\ Cardinality(guesses[a].others) >= MaxTracked
        own == [IF excused THEN Fresh ELSE guesses[a] EXCEPT
                    !.others = Outlasting(a), !.seen = clock]
    IN [b \in Addresses |->
          CASE b # a -> [guesses[b] EXCEPT !.others = @ \cup {a}]
            [] b = a /\ outcome = "refused" -> own
            [] b = a /\ outcome = "allowed" -> [own EXCEPT !.misses = 0, !.barred = 0]
            [] OTHER ->
                IF own.misses + 1 >= MaxFailures
                THEN [own EXCEPT !.misses = 0, !.barred = LockoutStart]
                ELSE [own EXCEPT !.misses = @ + 1]]

\* A request with a wrong login: refused while locked out, else counted.
Guess(a) ==
    /\ "guess" \in agenda /\ Ready /\ ~Open
    /\ \E t \in FindOrCreate(table, a) :
        \/ /\ LockedOut(t, a)
           /\ table' = t
           /\ guesses' = Observed(a, "refused")
        \/ /\ ~LockedOut(t, a)
           /\ table' = Judged(t, a, FALSE)
           /\ guesses' = Observed(a, "failed")
    /\ UNCHANGED <<firmwareVars, agenda, clock, login, save, jobs, tasks, sending, accident>>

\* A request with the right login, or when none is needed, that gets through.
Admitted(a) ==
    \E t \in FindOrCreate(table, a) :
        /\ ~LockedOut(t, a)
        /\ table' = Judged(t, a, TRUE)
        /\ guesses' = Observed(a, "allowed")

Visit(a) ==
    /\ "guess" \in agenda /\ Ready /\ Admitted(a)
    /\ UNCHANGED <<firmwareVars, agenda, clock, login, save, jobs, tasks, sending, accident>>

\* A stamp stays when its lockout is over, and the clock goes round.
Elapsed(e) ==
    IF e.stamped
    THEN [e EXCEPT !.left = IF @ = 1 - Half THEN Half ELSE @ - 1] ELSE e

\* Bound: time is counted only where logins are guessed.
Tick ==
    /\ "guess" \in agenda
    /\ clock' = IF clock + 1 = 2 * Half THEN 0 ELSE clock + 1
    /\ table' = [a \in Addresses |-> Elapsed(table[a])]
    /\ guesses' = [a \in Addresses |->
                    [guesses[a] EXCEPT !.barred = IF @ > 0 THEN @ - 1 ELSE 0]]
    /\ UNCHANGED <<firmwareVars, agenda, login, save, jobs, tasks, sending, accident>>

----------------------------------------------------------------------------
(***************************************************************************)
(* The Security page.  Two keys are written one after the other; if one of *)
(* them alone was stored, it is put back.                                  *)
(***************************************************************************)
SaveLogin(p) ==
    /\ "login" \in agenda /\ Ready /\ Admitted(Admin)
    /\ save' = [pc |-> "user", new |-> p, before |-> login.stored,
                userOk |-> FALSE, passOk |-> FALSE]
    /\ UNCHANGED <<firmwareVars, agenda, clock, login, jobs, tasks, sending, accident>>

PutUser(works) ==
    /\ save.pc = "user"
    /\ save' = [save EXCEPT !.pc = "pass", !.userOk = works]
    /\ login' = IF works THEN [login EXCEPT !.stored.user = save.new] ELSE login
    /\ UNCHANGED <<firmwareVars, agenda, clock, table, jobs, tasks, sending, accident, guesses>>

PutPass(works) ==
    /\ save.pc = "pass"
    /\ save' = [save EXCEPT !.pc = "check", !.passOk = works]
    /\ login' = IF works THEN [login EXCEPT !.stored.pass = save.new] ELSE login
    /\ UNCHANGED <<firmwareVars, agenda, clock, table, jobs, tasks, sending, accident, guesses>>

\* Mutant: a key stored alone stays.
NotRolledBack == login.stored

RolledBack ==
    IF save.userOk THEN [login.stored EXCEPT !.user = save.before.user]
    ELSE [login.stored EXCEPT !.pass = save.before.pass]

\* The live login changes only if both keys were stored.
LoginSaved(works) ==
    /\ save.pc = "check"
    /\ save' = NoSave
    /\ CASE save.userOk /\ save.passOk ->
            /\ login' = [login EXCEPT !.live = Whole(save.new)]
            /\ accident' = FALSE
         [] ~save.userOk /\ ~save.passOk -> UNCHANGED <<login, accident>>
         [] OTHER ->
            /\ login' = IF works THEN [login EXCEPT !.stored = RolledBack] ELSE login
            /\ accident' = (accident \/ ~works)
    /\ UNCHANGED <<firmwareVars, agenda, clock, table, jobs, tasks, sending, guesses>>

----------------------------------------------------------------------------
(***************************************************************************)
(* Background jobs: one slot each.                                         *)
(***************************************************************************)
NoResult == "none"

\* What each job may find; the work itself is done by other components.
StorageCheckResults == {"inactive", "readable", "unreadable"}
EraseAllResults == {"erased", "errors"}
TestMessageResults == {"nobody", "sent", "failed"}
WifiScanResults == {"failed", "nothing", "networks"}
TestAlertResults == {"sent", "failed"}
DiscoveryResults == {"nothing", "cameras"}

\* testCameraConnection, by the requests the camera answers.
TestConnection(url, password, answers) ==
    CASE ~url -> "url missing"
      [] url /\ ~password -> "login missing"
      [] url /\ password /\ "services" \notin answers -> "unreachable"
      [] OTHER -> "report"

TestConnectionResults ==
    {TestConnection(url, password, answers) :
        url \in BOOLEAN, password \in BOOLEAN, answers \in SUBSET {"services"}}

\* testOneCameraConnectionBrief, and the row of a camera that is disabled.
TestAllRow(enabled, password, answers) ==
    CASE ~enabled -> "skipped"
      [] enabled /\ (~password \/ "services" \notin answers) -> "unreachable"
      [] enabled /\ password /\ answers = {"services"} -> "no events"
      [] OTHER -> "ok"

TestAllResults ==
    {TestAllRow(enabled, password, answers) :
        enabled \in BOOLEAN, password \in BOOLEAN,
        answers \in SUBSET {"services", "events"}}

Results(j) ==
    CASE j = "storageCheck" -> StorageCheckResults
      [] j = "eraseAll" -> EraseAllResults
      [] j = "testMessage" -> TestMessageResults
      [] j = "wifiScan" -> WifiScanResults
      [] j = "testConnection" -> TestConnectionResults
      [] j = "testAlert" -> TestAlertResults
      [] j = "testAll" -> TestAllResults
      [] j = "discovery" -> DiscoveryResults

\* These wait for a Telegram send in progress: both at once need much memory.
Deferred(j) == j \in {"testAll", "discovery"} /\ sending

\* Mutant: a start that failed leaves the job in progress.
StartFailedStuck(s) == s
StartFailed(s) == [s EXCEPT !.inProgress = FALSE]

Started(s) == [s EXCEPT !.inProgress = TRUE]
Finished(s, result) == [inProgress |-> FALSE, hasResult |-> TRUE, result |-> result]

StartJob(j, created) ==
    /\ "job" \in agenda /\ Ready /\ Admitted(Admin)
    /\ IF Deferred(j) \/ jobs[j].inProgress THEN UNCHANGED <<jobs, tasks>>
       ELSE /\ jobs' = [jobs EXCEPT ![j] =
                    IF created THEN Started(@) ELSE StartFailed(Started(@))]
            /\ tasks' = IF created THEN tasks \cup {j} ELSE tasks
    /\ UNCHANGED <<firmwareVars, agenda, clock, login, save, sending, accident>>

FinishJob(j, result) ==
    /\ j \in tasks
    /\ jobs' = [jobs EXCEPT ![j] = Finished(@, result)]
    /\ tasks' = tasks \ {j}
    /\ UNCHANGED <<firmwareVars, agenda, clock, table, login, save, sending, accident, guesses>>

\* A send of any task begins or ends.
SendChanges ==
    /\ "job" \in agenda
    /\ sending' = ~sending
    /\ UNCHANGED <<firmwareVars, agenda, clock, table, login, save, jobs, tasks, accident, guesses>>

----------------------------------------------------------------------------
NoEntries == [a \in Addresses |-> Unused]
Unknown == [a \in Addresses |-> Fresh]
NoJobs == [j \in Jobs |-> [inProgress |-> FALSE, hasResult |-> FALSE, result |-> NoResult]]

Init ==
    /\ FirmwareInit
    /\ agenda \in Agendas
    /\ clock = 0 /\ table = NoEntries
    /\ \E p \in Passwords \cup {NoLogin} :
        login = [stored |-> Whole(p), live |-> Whole(p)]
    /\ save = NoSave
    /\ jobs = NoJobs
    /\ tasks = {}
    /\ sending = FALSE
    /\ accident = FALSE
    /\ guesses = Unknown

\* Power loss, a crash, or the restart a page or an upload asks for: what is
\* in RAM is gone, and startWebServer takes the login that is stored.
Reset ==
    /\ Restarts
    /\ clock' = 0 /\ table' = NoEntries /\ guesses' = Unknown
    /\ login' = [login EXCEPT !.live = login.stored]
    /\ save' = NoSave
    /\ jobs' = NoJobs /\ tasks' = {} /\ sending' = FALSE
    /\ accident' = (accident \/ save.pc \in {"pass", "check"})
    /\ UNCHANGED agenda

\* An upload is a request like any other; its chunks, and boot, go on by
\* themselves.
FirmwareStep ==
    /\ IF Up THEN "firmware" \in agenda /\ Ready /\ Admitted(Admin)
             ELSE UNCHANGED <<table, guesses>>
    /\ Firmware
    /\ UNCHANGED <<agenda, clock, login, save, jobs, tasks, sending, accident>>

Next ==
    \/ \E a \in Addresses : Guess(a) \/ Visit(a)
    \/ Tick
    \/ \E p \in Passwords : SaveLogin(p)
    \/ \E works \in BOOLEAN : PutUser(works) \/ PutPass(works) \/ LoginSaved(works)
    \/ \E j \in Jobs, created \in BOOLEAN : StartJob(j, created)
    \/ \E j \in Jobs : \E result \in Results(j) : FinishJob(j, result)
    \/ SendChanges
    \/ FirmwareStep
    \/ Reset

\* A job's task is never held up for good: every request it makes has a
\* timeout of its own.
Spec ==
    /\ Init /\ [][Next]_vars
    /\ \A j \in Jobs : WF_vars(\E result \in Results(j) : FinishJob(j, result))

----------------------------------------------------------------------------
(***************************************************************************)
(* Properties                                                              *)
(***************************************************************************)

\* An address that failed too often is refused until its lockout is over: only
\* as many others as the table holds can make it give way, all of them seen
\* since it was, or at a time that compares as no earlier.  Of a table filled
\* before the clock wrapped all the others compare so, and one address more
\* makes the one just seen give way (RateLimitMiddleware).
LockoutHolds ==
    \A a \in Addresses :
        /\ guesses[a].barred > 0
        /\ Cardinality(guesses[a].others) < MaxTracked
        => LockedOut(table, a)

\* An address is locked out by failed logins of its own and by nothing else: it
\* inherits no lockout with a place in the table, and one that is over does not
\* come back, until its stamp has gone all the way round and the difference of
\* findOrCreate's caller changes its sign (RateLimitMiddleware).
OnlyFailuresLockOut ==
    [][\A a \in Addresses :
          ~LockedOut(table, a) /\ LockedOut(table', a)
            => guesses'[a].barred > 0 \/ table'[a].left = Half]_vars

\* The stored user and password are of one login, and the one the board asks
\* for, unless a reset or a second refused write hit the save
\* (saveDashboardAuth, "the stored pair is never half old, half new").
LoginPairWhole ==
    save.pc = "idle" /\ ~accident =>
        login.stored.user = login.stored.pass /\ login.live = login.stored

\* A job that was started is over some time, also when its task could not be
\* created: the page does not say "in progress" for ever (BackgroundJob).
JobsEnd == \A j \in Jobs : jobs[j].inProgress ~> ~jobs[j].inProgress
=============================================================================
