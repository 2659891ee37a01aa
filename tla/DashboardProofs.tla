--------------------------- MODULE DashboardProofs ---------------------------
(***************************************************************************)
(* The web server: the login the dashboard asks for, the firmware a board  *)
(* runs and reports, and the limiter of failed logins, whatever addresses, *)
(* jobs and uploads there are beside them.                                 *)
(***************************************************************************)
EXTENDS Dashboard, FiniteSetTheorems, TLAPS

Texts == Passwords \cup {NoLogin}
Pairs == [user : Texts, pass : Texts]
Logins == [stored : Pairs, live : Pairs]
Saves == [pc : {"user", "pass", "check"}, new : Passwords, before : Pairs,
          userOk : BOOLEAN, passOk : BOOLEAN]

IsWhole(pair) == pair.user = pair.pass

LoginTypes ==
    /\ login \in Logins
    /\ save.pc = "idle" \/ save \in Saves
    /\ accident \in BOOLEAN

\* What the keys that were written without an error hold, accident or not.
Written ==
    /\ save.pc \in {"pass", "check"} /\ save.userOk => login.stored.user = save.new
    /\ save.pc = "check" /\ save.passOk => login.stored.pass = save.new

\* Without an accident a save starts from a whole login that is the live one,
\* and a key it has not written, or not been able to, is still of that login.
Untouched ==
    ~accident =>
        /\ IsWhole(login.live)
        /\ save.pc \in {"idle", "user"} => login.stored = login.live
        /\ save.pc # "idle" => save.before = login.live
        /\ (save.pc = "pass" \/ (save.pc = "check" /\ ~save.passOk)) =>
              login.stored.pass = save.before.pass
        /\ save.pc \in {"pass", "check"} /\ ~save.userOk =>
              login.stored.user = save.before.user

\* The inductive invariant.
IInv == LoginTypes /\ Written /\ Untouched

-----------------------------------------------------------------------------
\* The parts of a pair, of the two logins and of a save.
LEMMA PairFacts ==
    /\ \A p \in Pairs : p = [user |-> p.user, pass |-> p.pass] /\ p.user \in Texts /\ p.pass \in Texts
    /\ \A p, q \in Pairs : p.user = q.user /\ p.pass = q.pass => p = q
    /\ \A l \in Logins : l = [stored |-> l.stored, live |-> l.live] /\ l.stored \in Pairs /\ l.live \in Pairs
    /\ \A t \in Texts : Whole(t) \in Pairs /\ Whole(t).user = t /\ Whole(t).pass = t
BY DEF Pairs, Logins, Whole

\* At first the live login is the stored one.
LEMMA IInvInit == Init => IInv
<1> SUFFICES ASSUME Init PROVE IInv
  OBVIOUS
<1>1. PICK p \in Texts : login = [stored |-> Whole(p), live |-> Whole(p)]
  BY DEF Init, Texts
<1>2. login.stored = Whole(p) /\ login.live = Whole(p) /\ login \in Logins
  BY <1>1, PairFacts DEF Logins
<1>3. save.pc = "idle" /\ accident = FALSE
  BY DEF Init, NoSave
<1>4. IsWhole(login.live)
  BY <1>2, PairFacts DEF IsWhole
<1> QED
  BY <1>2, <1>3, <1>4 DEF IInv, LoginTypes, Written, Untouched

\* The page begins a save.
LEMMA SaveLoginKeeps ==
    ASSUME IInv, NEW p \in Passwords, SaveLogin(p)
    PROVE  IInv'
<1>1. /\ save' = [pc |-> "user", new |-> p, before |-> login.stored,
                  userOk |-> FALSE, passOk |-> FALSE]
      /\ login' = login /\ accident' = accident
  BY DEF SaveLogin
<1>2. save.pc = "idle"
  BY DEF SaveLogin, Ready
<1>3. login.stored \in Pairs
  BY PairFacts DEF IInv, LoginTypes
<1>4. save' \in Saves
  BY <1>1, <1>3 DEF Saves
<1>5. save'.pc = "user" /\ save'.before = login.stored
  BY <1>1
<1>6. LoginTypes' /\ Written'
  BY <1>1, <1>4, <1>5 DEF IInv, LoginTypes, Written
<1>7. Untouched'
  BY <1>1, <1>2, <1>5 DEF IInv, Untouched
<1> QED
  BY <1>6, <1>7 DEF IInv

\* The user is written, or not.
LEMMA PutUserKeeps ==
    ASSUME IInv, NEW works \in BOOLEAN, PutUser(works)
    PROVE  IInv'
<1>1. save.pc = "user" /\ save \in Saves /\ login \in Logins /\ accident' = accident
  BY DEF PutUser, IInv, LoginTypes
<1>2. save' = [save EXCEPT !.pc = "pass", !.userOk = works]
  BY DEF PutUser
<1>3. /\ save' \in Saves /\ save'.pc = "pass" /\ save'.userOk = works
      /\ save'.new = save.new /\ save'.before = save.before /\ save.new \in Texts
  BY <1>1, <1>2 DEF Saves, Texts
<1>4. CASE works
  <2>1. login' = [login EXCEPT !.stored.user = save.new]
    BY <1>4 DEF PutUser
  <2>2. /\ login' \in Logins /\ login'.stored.user = save.new
        /\ login'.stored.pass = login.stored.pass /\ login'.live = login.live
    BY <1>1, <1>3, <2>1 DEF Logins, Pairs
  <2>3. LoginTypes' /\ Written'
    BY <1>1, <1>3, <2>2 DEF IInv, LoginTypes, Written
  <2>4. Untouched'
    BY <1>1, <1>3, <1>4, <2>2 DEF IInv, Untouched
  <2> QED
    BY <2>3, <2>4 DEF IInv
<1>5. CASE ~works
  <2>1. login' = login
    BY <1>5 DEF PutUser
  <2>2. LoginTypes' /\ Written'
    BY <1>1, <1>3, <1>5, <2>1 DEF IInv, LoginTypes, Written
  <2>3. Untouched'
    BY <1>1, <1>3, <1>5, <2>1 DEF IInv, Untouched
  <2> QED
    BY <2>2, <2>3 DEF IInv
<1> QED
  BY <1>4, <1>5

\* The password is written, or not.
LEMMA PutPassKeeps ==
    ASSUME IInv, NEW works \in BOOLEAN, PutPass(works)
    PROVE  IInv'
<1>1. save.pc = "pass" /\ save \in Saves /\ login \in Logins /\ accident' = accident
  BY DEF PutPass, IInv, LoginTypes
<1>2. save' = [save EXCEPT !.pc = "check", !.passOk = works]
  BY DEF PutPass
<1>3. /\ save' \in Saves /\ save'.pc = "check" /\ save'.passOk = works
      /\ save'.userOk = save.userOk
      /\ save'.new = save.new /\ save'.before = save.before /\ save.new \in Texts
  BY <1>1, <1>2 DEF Saves, Texts
<1>4. CASE works
  <2>1. login' = [login EXCEPT !.stored.pass = save.new]
    BY <1>4 DEF PutPass
  <2>2. /\ login' \in Logins /\ login'.stored.pass = save.new
        /\ login'.stored.user = login.stored.user /\ login'.live = login.live
    BY <1>1, <1>3, <2>1 DEF Logins, Pairs
  <2>3. LoginTypes' /\ Written'
    BY <1>1, <1>3, <2>2 DEF IInv, LoginTypes, Written
  <2>4. Untouched'
    BY <1>1, <1>3, <1>4, <2>2 DEF IInv, Untouched
  <2> QED
    BY <2>3, <2>4 DEF IInv
<1>5. CASE ~works
  <2>1. login' = login
    BY <1>5 DEF PutPass
  <2>2. LoginTypes' /\ Written'
    BY <1>1, <1>3, <1>5, <2>1 DEF IInv, LoginTypes, Written
  <2>3. Untouched'
    BY <1>1, <1>3, <1>5, <2>1 DEF IInv, Untouched
  <2> QED
    BY <2>2, <2>3 DEF IInv
<1> QED
  BY <1>4, <1>5

\* The save ends: with both keys the new login is live, with one it is put
\* back, with none nothing happened.
LEMMA LoginSavedKeeps ==
    ASSUME IInv, NEW works \in BOOLEAN, LoginSaved(works)
    PROVE  IInv'
<1>1. save.pc = "check" /\ save \in Saves /\ login \in Logins
  BY DEF LoginSaved, IInv, LoginTypes
<1>2. save'.pc = "idle"
  BY DEF LoginSaved, NoSave
<1>3. /\ save.userOk \in BOOLEAN /\ save.passOk \in BOOLEAN
      /\ save.new \in Texts /\ save.before \in Pairs
  BY <1>1 DEF Saves, Texts
<1>4. CASE save.userOk /\ save.passOk
  <2>1. login' = [login EXCEPT !.live = Whole(save.new)] /\ accident' = FALSE
    BY <1>4 DEF LoginSaved
  <2>2. /\ login' \in Logins /\ login'.live = Whole(save.new)
        /\ login'.stored = login.stored
    BY <1>1, <1>3, <2>1, PairFacts DEF Logins
  <2>3. login.stored.user = save.new /\ login.stored.pass = save.new
    BY <1>1, <1>4 DEF IInv, Written
  <2>4. login'.stored = login'.live /\ IsWhole(login'.live)
    BY <1>1, <1>3, <2>2, <2>3, PairFacts DEF IsWhole
  <2> QED
    BY <1>2, <2>1, <2>2, <2>4 DEF IInv, LoginTypes, Written, Untouched
<1>5. CASE ~save.userOk /\ ~save.passOk
  <2>1. login' = login /\ accident' = accident
    BY <1>5 DEF LoginSaved
  <2>2. ~accident => login.stored = login.live /\ IsWhole(login.live)
    BY <1>1, <1>5, PairFacts DEF IInv, Untouched
  <2> QED
    BY <1>1, <1>2, <2>1, <2>2 DEF IInv, LoginTypes, Written, Untouched
<1>6. CASE save.userOk # save.passOk
  <2>1. /\ login' = IF works THEN [login EXCEPT !.stored = RolledBack] ELSE login
        /\ accident' = (accident \/ ~works)
    BY <1>3, <1>6 DEF LoginSaved
  <2>2. login.stored \in Pairs /\ login.live \in Pairs
    BY <1>1, PairFacts
  <2>3. /\ RolledBack \in Pairs
        /\ save.userOk => RolledBack.user = save.before.user
                          /\ RolledBack.pass = login.stored.pass
        /\ ~save.userOk => RolledBack.pass = save.before.pass
                           /\ RolledBack.user = login.stored.user
    BY <1>3, <2>2 DEF RolledBack, Pairs
  <2>4. accident' \in BOOLEAN
    BY <2>1, Zenon
  <2>5. CASE works
    <3>1. login' \in Logins /\ login'.stored = RolledBack /\ login'.live = login.live
      BY <1>1, <2>1, <2>3, <2>5 DEF Logins
    <3>2. accident' = accident
      BY <2>1, <2>5 DEF IInv, LoginTypes
    <3>3. ASSUME ~accident PROVE RolledBack = login.live /\ IsWhole(login.live)
      <4>1. /\ save.before = login.live /\ IsWhole(login.live)
            /\ ~save.passOk => login.stored.pass = save.before.pass
            /\ ~save.userOk => login.stored.user = save.before.user
        BY <1>1, <3>3 DEF IInv, Untouched
      <4>2. RolledBack.user = save.before.user /\ RolledBack.pass = save.before.pass
        BY <1>3, <1>6, <2>3, <4>1
      <4> QED
        BY <1>3, <2>3, <4>1, <4>2, PairFacts
    <3> QED
      BY <1>2, <2>4, <3>1, <3>2, <3>3 DEF IInv, LoginTypes, Written, Untouched
  <2>6. CASE ~works
    <3>1. login' = login /\ accident' = TRUE
      BY <2>1, <2>6
    <3> QED
      BY <1>1, <1>2, <3>1 DEF IInv, LoginTypes, Written, Untouched
  <2> QED
    BY <2>5, <2>6
<1> QED
  BY <1>3, <1>4, <1>5, <1>6

\* A reset takes the stored login; it is an accident once a key was written.
LEMMA ResetKeeps ==
    ASSUME IInv, Reset
    PROVE  IInv'
<1>1. /\ login' = [login EXCEPT !.live = login.stored] /\ save'.pc = "idle"
      /\ accident' = (accident \/ save.pc \in {"pass", "check"})
      /\ login \in Logins
  BY DEF Reset, NoSave, IInv, LoginTypes
<1>2. login' \in Logins /\ login'.stored = login.stored /\ login'.live = login.stored
  BY <1>1, PairFacts DEF Logins
<1>3. accident' \in BOOLEAN
  BY <1>1, Zenon
<1>4. ASSUME ~accident' PROVE IsWhole(login.stored)
  <2>1. ~accident /\ save.pc \notin {"pass", "check"}
    BY <1>1, <1>4, Zenon
  <2>2. save.pc \in {"idle", "user"}
    BY <2>1 DEF IInv, LoginTypes, Saves
  <2> QED
    BY <2>1, <2>2 DEF IInv, Untouched
<1> QED
  BY <1>1, <1>2, <1>3, <1>4 DEF IInv, LoginTypes, Written, Untouched

-----------------------------------------------------------------------------
\* Every other step, of the limiter, the jobs or an upload, leaves the login
\* alone.
LEMMA NextKeeps ==
    ASSUME IInv, [Next]_vars
    PROVE  IInv'
<1>1. CASE UNCHANGED <<login, save, accident>>
  BY <1>1 DEF IInv, LoginTypes, Written, Untouched
<1>2. (\E a \in Addresses : Guess(a) \/ Visit(a)) \/ Tick \/ SendChanges \/ FirmwareStep
        => UNCHANGED <<login, save, accident>>
  BY DEF Guess, Visit, Tick, SendChanges, FirmwareStep
<1>3. (\E j \in Jobs : (\E created \in BOOLEAN : StartJob(j, created))
                       \/ \E result \in Results(j) : FinishJob(j, result))
        => UNCHANGED <<login, save, accident>>
  BY DEF StartJob, FinishJob
<1>4. CASE UNCHANGED vars
  BY <1>1, <1>4 DEF vars, webVars
<1>5. CASE Next
  BY <1>1, <1>2, <1>3, <1>5, SaveLoginKeeps, PutUserKeeps, PutPassKeeps,
     LoginSavedKeeps, ResetKeeps DEF Next
<1> QED
  BY <1>4, <1>5

\* The stored and the live login of every reachable state (saveDashboardAuth).
THEOREM LoginInvariant == Spec => []IInv
BY IInvInit, NextKeeps, PTL DEF Spec

\* The stored login is never half old and half new, and is the one the board
\* asks for, unless a reset or a second refused write hit its save.
THEOREM LoginWhole == Spec => []LoginPairWhole
<1>1. IInv => LoginPairWhole
  BY DEF IInv, Untouched, IsWhole, LoginPairWhole
<1> QED
  BY <1>1, LoginInvariant, PTL

-----------------------------------------------------------------------------
(***************************************************************************)
(* Firmware: what a rollback leaves in flash, in the marker and in what    *)
(* was reported.                                                           *)
(***************************************************************************)
ImageStates == {"none", "new", "pending", "valid", "aborted"}
Phases == Setup \cup {"up", "upload", "restarting"}
Markers == [invalid : Slots \cup {NoSlot}, outcome : {"none", "healthy", "rolledback"},
            slot : Slots \cup {NoSlot}]

FirmwareTypes ==
    /\ flash \in [image : [Slots -> ImageStates], boots : Slots]
    /\ running \in Slots
    /\ phase \in Phases
    /\ nvs \in Markers
    /\ told \subseteq Slots
    /\ previous \in [Slots -> {"none", "valid", "aborted"}]

\* The image that runs is valid, or on probation beside a valid one; the slot
\* that boots next is the running one, unless an upload made it the other; what
\* was in the other is gone once an upload has begun.
Bootable ==
    /\ \/ flash.image[running] = "valid"
       \/ /\ phase = "probe" /\ flash.image[running] = "pending"
          /\ flash.image[Spare(running)] = "valid"
    /\ flash.image[Spare(running)] # "pending"
    /\ flash.boots = Spare(running) =>
          phase # "probe" /\ flash.image[Spare(running)] \in {"none", "new"}
    /\ phase = "upload" /\ ~update.error => flash.image[Spare(running)] = "none"

Excused(s) == s \in told \/ previous[s] = "aborted"

\* What the marker of slot s says of it.
MarkerFits(s) ==
    /\ flash.image[s] = "aborted" => Excused(s)
    /\ flash.image[s] \in {"none", "new", "pending"} => previous[s] = "aborted"
    /\ flash.image[s] = "valid" => phase \in Setup

\* A marker fits its slot; "remember" stores what was reported; and setup()
\* does not end with a rollback that nobody was told of.
Reported ==
    /\ nvs.invalid \in Slots => MarkerFits(nvs.invalid)
    /\ phase = "remember" => Invalid \in Slots /\ Invalid \in told
    /\ phase \notin Setup => \A s \in Slots : flash.image[s] = "aborted" => Excused(s)

\* The inductive invariant of the firmware.
FirmwareInv == FirmwareTypes /\ Bootable /\ Reported

\* There are two slots.
LEMMA SpareFacts ==
    /\ NoSlot \notin Slots
    /\ \A s \in Slots : /\ Spare(s) \in Slots /\ Spare(s) # s /\ Spare(Spare(s)) = s
                        /\ \A t \in Slots : t = s \/ t = Spare(s)
<1>1. Spare("app0") = "app1" /\ Spare("app1") = "app0"
  BY DEF Spare, Slots
<1> QED
  BY <1>1 DEF Slots, NoSlot

LEMMA FirmwareInit0 == Init => FirmwareInv
<1> SUFFICES ASSUME FirmwareInit PROVE FirmwareInv
  BY DEF Init
<1>1. /\ flash.image = [s \in Slots |-> IF s = "app0" THEN "valid" ELSE "none"]
      /\ flash.boots = "app0" /\ running = "app0" /\ running \in Slots
      /\ phase = "up" /\ nvs.invalid = NoSlot /\ phase \notin Setup /\ phase \in Phases
  BY DEF FirmwareInit, Slots, Setup, Phases
<1>2. FirmwareTypes
  BY <1>1 DEF FirmwareInit, FirmwareTypes, ImageStates, Markers, NoSlot, Slots
<1>3. Bootable
  BY <1>1, SpareFacts DEF Bootable
<1>4. Reported
  BY <1>1, SpareFacts DEF Reported, Setup
<1> QED
  BY <1>2, <1>3, <1>4 DEF FirmwareInv

LEMMA FirmwareStepKeeps ==
    ASSUME FirmwareInv, Firmware
    PROVE  FirmwareInv'
<1> DEFINE spare == Spare(running)
<1>1. /\ running \in Slots /\ spare \in Slots /\ spare # running
      /\ \A t \in Slots : t = running \/ t = spare
      /\ flash.image \in [Slots -> ImageStates] /\ flash.boots \in Slots
      /\ flash = [image |-> flash.image, boots |-> flash.boots]
  BY SpareFacts DEF FirmwareInv, FirmwareTypes
<1>2. ASSUME NEW works \in BOOLEAN, UploadStarts(works) PROVE FirmwareInv'
  <2>1. phase = "up" /\ phase' = "upload" /\ running' = running /\ nvs' = nvs
    BY <1>2 DEF UploadStarts, Up
  <2>2. CASE update'.error
    <3>1. flash' = flash /\ told' = told /\ previous' = previous
      BY <1>2, <2>2 DEF UploadStarts
    <3> QED
      BY <2>1, <2>2, <3>1 DEF FirmwareInv, FirmwareTypes, Bootable, Reported, MarkerFits, Excused,
         Invalid, Setup, Phases
  <2>3. CASE ~update'.error
    <3>1. /\ flash' = [flash EXCEPT !.image[spare] = "none"]
          /\ told' = told \ {spare}
          /\ previous' = [previous EXCEPT ![spare] =
                            IF flash.image[spare] \in {"valid", "aborted"}
                            THEN flash.image[spare] ELSE @]
      BY <1>2, <2>3 DEF UploadStarts
    <3>2. flash'.image = [flash.image EXCEPT ![spare] = "none"] /\ flash'.boots = flash.boots
      BY <1>1, <3>1
    <3>3. FirmwareTypes'
      BY <1>1, <2>1, <3>1, <3>2 DEF FirmwareInv, FirmwareTypes, ImageStates, Phases
    <3>4. Bootable'
      BY <1>1, <2>1, <3>1, <3>2 DEF FirmwareInv, FirmwareTypes, Bootable
    <3>5. ASSUME nvs.invalid = spare PROVE previous'[spare] = "aborted"
      BY <1>1, <2>1, <3>1, <3>5 DEF FirmwareInv, FirmwareTypes, Reported, MarkerFits, Setup, Bootable, ImageStates
    <3>6. Reported'
      BY <1>1, <2>1, <3>1, <3>2, <3>5 DEF FirmwareInv, FirmwareTypes, Reported, MarkerFits, Excused, Setup
    <3> QED
      BY <3>3, <3>4, <3>6 DEF FirmwareInv
  <2> QED
    BY <2>2, <2>3
<1>3. ASSUME NEW verified \in BOOLEAN, UploadEnds(verified) PROVE FirmwareInv'
  <2>1. /\ phase = "upload" /\ phase' \in {"up", "restarting"}
        /\ running' = running /\ nvs' = nvs /\ told' = told /\ previous' = previous
    BY <1>3 DEF UploadEnds
  <2>2. CASE flash' = flash
    BY <2>1, <2>2 DEF FirmwareInv, FirmwareTypes, Bootable, Reported, MarkerFits, Excused,
       Setup, Phases
  <2>3. CASE ~update.error /\ flash' = [flash EXCEPT !.image[spare] = "new", !.boots = spare]
    <3>1. /\ flash'.image = [flash.image EXCEPT ![spare] = "new"] /\ flash'.boots = spare
          /\ flash' = [image |-> flash'.image, boots |-> flash'.boots]
      BY <1>1, <2>3
    <3>2. FirmwareTypes'
      BY <1>1, <2>1, <3>1 DEF FirmwareInv, FirmwareTypes, ImageStates, Phases
    <3>3. Bootable'
      BY <1>1, <2>1, <3>1 DEF FirmwareInv, FirmwareTypes, Bootable
    <3>4. Reported'
      BY <1>1, <2>1, <2>3, <3>1 DEF FirmwareInv, FirmwareTypes, Bootable, Reported, MarkerFits, Excused,
         Setup
    <3> QED
      BY <3>2, <3>3, <3>4 DEF FirmwareInv
  <2> QED
    BY <1>3, <2>2, <2>3 DEF UploadEnds
<1>4. CASE ChunkFails \/ UploadDrops \/ RestartTaskFails
  <2>1. /\ phase \notin Setup /\ phase' \in {"up", "upload"} /\ flash' = flash
        /\ running' = running /\ nvs' = nvs /\ told' = told /\ previous' = previous
        /\ phase' = "upload" => update'.error
    BY <1>4 DEF ChunkFails, UploadDrops, RestartTaskFails, Setup
  <2> QED
    BY <2>1 DEF FirmwareInv, FirmwareTypes, Bootable, Reported, MarkerFits, Excused, Setup, Phases
<1>5. CASE MarkValid
  <2>1. /\ phase = "probe" /\ phase' \in {"healthy", "invalid"}
        /\ flash' = [flash EXCEPT !.image[running] = "valid"]
        /\ running' = running /\ nvs' = nvs /\ told' = told /\ previous' = previous
    BY <1>5 DEF MarkValid
  <2>2. flash'.image = [flash.image EXCEPT ![running] = "valid"] /\ flash'.boots = flash.boots
    BY <1>1, <2>1
  <2> QED
    BY <1>1, <2>1, <2>2 DEF FirmwareInv, FirmwareTypes, Bootable, Reported, MarkerFits, Excused,
       Setup, Phases, ImageStates
<1>6. CASE ReportHealthy
  <2>1. /\ phase = "healthy" /\ phase' = "invalid" /\ flash' = flash
        /\ running' = running /\ told' = told /\ previous' = previous
        /\ nvs' \in Markers /\ nvs'.invalid = nvs.invalid
    BY <1>1, <1>6 DEF ReportHealthy, FirmwareInv, FirmwareTypes, Markers
  <2> QED
    BY <2>1 DEF FirmwareInv, FirmwareTypes, Bootable, Reported, MarkerFits, Excused, Setup, Phases
<1>7. CASE ReportRollback
  <2>1. /\ phase = "invalid" /\ flash' = flash /\ running' = running /\ previous' = previous
        /\ \A s \in Slots : flash.image[s] = "aborted" => Invalid = s
        /\ Invalid \in Slots => flash.image[Invalid] = "aborted"
        /\ Invalid # NoSlot <=> Invalid \in Slots
        /\ Invalid' = Invalid
    BY <1>1, <1>7, SpareFacts DEF ReportRollback, Invalid, FirmwareInv, Bootable
  <2>2. CASE Invalid # NoSlot /\ Invalid # nvs.invalid
    <3>1. told' = told \cup {Invalid} /\ phase' = "remember" /\ nvs' = nvs
      BY <1>7, <2>2 DEF ReportRollback
    <3> QED
      BY <2>1, <2>2, <3>1 DEF FirmwareInv, FirmwareTypes, Bootable, Reported, MarkerFits, Excused, Setup, Phases
  <2>3. CASE Invalid = NoSlot
    <3>1. told' = told /\ phase' = "up" /\ nvs' \in Markers /\ nvs'.invalid = NoSlot
      BY <1>7, <2>3 DEF ReportRollback, MarkerForgotten, FirmwareInv, FirmwareTypes, Markers
    <3> QED
      BY <2>1, <2>3, <3>1, SpareFacts DEF FirmwareInv, FirmwareTypes, Bootable, Reported, MarkerFits, Excused, Setup, Phases
  <2>4. CASE Invalid # NoSlot /\ Invalid = nvs.invalid
    <3>1. told' = told /\ phase' = "up" /\ nvs' = nvs
      BY <1>7, <2>4 DEF ReportRollback
    <3> QED
      BY <2>1, <2>4, <3>1 DEF FirmwareInv, FirmwareTypes, Bootable, Reported, MarkerFits, Excused, Setup, Phases
  <2> QED
    BY <2>2, <2>3, <2>4
<1>8. CASE RememberRollback
  <2>1. /\ phase = "remember" /\ phase' = "up" /\ flash' = flash
        /\ running' = running /\ told' = told /\ previous' = previous
        /\ nvs' = [invalid |-> Invalid, outcome |-> "rolledback", slot |-> Invalid]
    BY <1>8 DEF RememberRollback
  <2>2. /\ Invalid \in Slots /\ Invalid \in told /\ flash.image[Invalid] = "aborted"
        /\ \A s \in Slots : flash.image[s] = "aborted" => s = Invalid
    BY <1>1, <2>1, SpareFacts DEF FirmwareInv, Reported, Invalid, Bootable
  <2>3. nvs' \in Markers /\ nvs'.invalid = Invalid
    BY <2>1, <2>2 DEF Markers
  <2> QED
    BY <2>1, <2>2, <2>3 DEF FirmwareInv, FirmwareTypes, Bootable, Reported, MarkerFits, Excused, Setup, Phases
<1> QED
  BY <1>2, <1>3, <1>4, <1>5, <1>6, <1>7, <1>8 DEF Firmware

\* The bootloader: it runs a valid image or puts a new one on probation, and
\* an image that was on probation has failed.
LEMMA RestartKeeps ==
    ASSUME FirmwareInv, Restarts
    PROVE  FirmwareInv'
<1> DEFINE spare == Spare(running)
<1>1. /\ running \in Slots /\ spare \in Slots /\ spare # running /\ Spare(spare) = running
      /\ \A t \in Slots : t = running \/ t = spare
      /\ flash.image \in [Slots -> ImageStates] /\ flash.boots \in Slots
      /\ flash = [image |-> flash.image, boots |-> flash.boots]
  BY SpareFacts DEF FirmwareInv, FirmwareTypes
<1>2. /\ flash' = Loaded(flash) /\ running' = flash'.boots /\ phase' = "probe"
      /\ nvs' = nvs /\ told' = told /\ previous' = previous
  BY DEF Restarts
<1>3. CASE flash.boots = running /\ flash.image[running] = "pending"
  <2>1. /\ flash'.image = [flash.image EXCEPT ![running] = "aborted"] /\ flash'.boots = spare
        /\ flash' = [image |-> flash'.image, boots |-> flash'.boots]
        /\ phase = "probe" /\ flash.image[spare] = "valid"
    BY <1>1, <1>2, <1>3 DEF Loaded, FirmwareInv, Bootable
  <2> QED
    BY <1>1, <1>2, <1>3, <2>1 DEF FirmwareInv, FirmwareTypes, Bootable, Reported, MarkerFits, Excused,
       Setup, Phases, ImageStates
<1>4. CASE flash.boots = running /\ flash.image[running] = "valid"
  <2>1. flash' = flash /\ running' = running
    BY <1>1, <1>2, <1>4 DEF Loaded
  <2> QED
    BY <1>1, <1>2, <1>4, <2>1 DEF FirmwareInv, FirmwareTypes, Bootable, Reported, MarkerFits, Excused,
       Setup, Phases
<1>5. CASE flash.boots = spare /\ flash.image[spare] = "new"
  <2>1. /\ flash'.image = [flash.image EXCEPT ![spare] = "pending"] /\ flash'.boots = spare
        /\ flash' = [image |-> flash'.image, boots |-> flash'.boots]
        /\ flash.image[running] = "valid"
    BY <1>1, <1>2, <1>5 DEF Loaded, FirmwareInv, Bootable
  <2> QED
    BY <1>1, <1>2, <1>5, <2>1 DEF FirmwareInv, FirmwareTypes, Bootable, Reported, MarkerFits, Excused,
       Setup, Phases, ImageStates
<1>6. CASE flash.boots = spare /\ flash.image[spare] = "none"
  <2>1. /\ flash'.image = flash.image /\ flash'.boots = running
        /\ flash' = [image |-> flash'.image, boots |-> flash'.boots]
        /\ flash.image[running] = "valid"
    BY <1>1, <1>2, <1>6 DEF Loaded, FirmwareInv, Bootable
  <2> QED
    BY <1>1, <1>2, <1>6, <2>1 DEF FirmwareInv, FirmwareTypes, Bootable, Reported, MarkerFits, Excused,
       Setup, Phases
<1> QED
  BY <1>1, <1>3, <1>4, <1>5, <1>6 DEF FirmwareInv, Bootable

LEMMA NextKeepsFirmware ==
    ASSUME FirmwareInv, [Next]_vars
    PROVE  FirmwareInv'
<1>1. CASE UNCHANGED firmwareVars
  BY <1>1 DEF firmwareVars, FirmwareInv, FirmwareTypes, Bootable, Reported, MarkerFits, Excused, Invalid
<1>2. CASE Firmware
  BY <1>2, FirmwareStepKeeps
<1>3. CASE Restarts
  BY <1>3, RestartKeeps
<1>4. [Next]_vars => UNCHANGED firmwareVars \/ Firmware \/ Restarts
  BY DEF Next, Guess, Visit, Tick, SaveLogin, PutUser, PutPass, LoginSaved, StartJob, FinishJob,
     SendChanges, FirmwareStep, Reset, vars
<1> QED
  BY <1>1, <1>2, <1>3, <1>4

\* What is in flash, in the marker and reported, in every reachable state.
THEOREM FirmwareInvariant == Spec => []FirmwareInv
BY FirmwareInit0, NextKeepsFirmware, PTL DEF Spec

\* Once a boot is over, a rolled-back update has been reported, unless the one
\* before it in that slot was rolled back as well.
THEOREM RollbackReported == Spec => []RollbacksTold
<1>1. FirmwareInv => RollbacksTold
  BY DEF FirmwareInv, Reported, Excused, RollbacksTold, Up, Setup
<1> QED
  BY <1>1, FirmwareInvariant, PTL

-----------------------------------------------------------------------------
(***************************************************************************)
(* The limiter: the table of addresses against what an observer of the     *)
(* requests expects.                                                       *)
(***************************************************************************)
Backoffs == {0} \cup LockoutStart..LockoutMax
Entries == [used : BOOLEAN, fails : Nat, stamped : BOOLEAN,
            left : (1 - Half)..Half, last : Backoffs, seen : Nat]
Views == [misses : Nat, barred : Nat, others : SUBSET Addresses, seen : Int]

\* The entry e locks its address out as long as the view v expects.
Covers(e, v) == v.barred = 0 \/ (e.stamped /\ e.left >= v.barred)

\* The entry of an address that is tracked is what the observer expects, and
\* the others that would stay when it gives way are among those it lists; one
\* that is not tracked has nothing to its charge, or gave way to as many others
\* as the table holds.
Fits(t, g, a) ==
    IF t[a].used
    THEN /\ t[a].seen = g[a].seen /\ t[a].fails = g[a].misses /\ Covers(t[a], g[a])
         /\ \A b \in Addresses \ {a} : t[b].used /\ t[a].seen <= t[b].seen => b \in g[a].others
    ELSE \/ Cardinality(g[a].others) >= MaxTracked
         \/ g[a].misses = 0 /\ g[a].barred = 0

\* A table and the views of an observer, as they may be together.
Agree(t, g) ==
    /\ t \in [Addresses -> Entries] /\ Cardinality(Tracked(t)) <= MaxTracked
    /\ g \in [Addresses -> Views]
    /\ \A a \in Addresses : Fits(t, g, a)

\* The inductive invariant of the limiter.
LimiterInv == clock \in Nat /\ Agree(table, guesses)

LEMMA LimitFacts ==
    /\ MaxTracked \in Nat /\ MaxFailures \in Nat /\ MaxFailures > 0
    /\ LockoutStart \in Nat /\ LockoutStart > 0 /\ Half \in Nat /\ LockoutMax \in Nat
    /\ LockoutMax < Half /\ LockoutStart <= LockoutMax
    /\ 0 \in (1 - Half)..Half /\ 0 \in Backoffs
BY DashboardAssumption DEF Backoffs

\* What makes an entry.
LEMMA EntryMade ==
    ASSUME NEW used \in BOOLEAN, NEW fails \in Nat, NEW stamped \in BOOLEAN,
           NEW left \in (1 - Half)..Half, NEW last \in Backoffs, NEW seen \in Nat
    PROVE  [used |-> used, fails |-> fails, stamped |-> stamped, left |-> left,
            last |-> last, seen |-> seen] \in Entries
BY Zenon DEF Entries

\* The parts of an entry.
LEMMA EntryFacts ==
    /\ Unused \in Entries /\ Fresh \in Views
    /\ clock \in Nat => /\ NewEntry \in Entries /\ NewEntry.used /\ NewEntry.seen = clock
                        /\ NewEntry.fails = 0 /\ NewEntry.left = 0 /\ ~NewEntry.stamped
    /\ ~Unused.used /\ ~Unused.stamped /\ Unused.left = 0
<1>1. ASSUME NEW used \in BOOLEAN, NEW seen \in Nat
      PROVE  /\ Clean(used, seen) \in Entries /\ Clean(used, seen).used = used
             /\ Clean(used, seen).seen = seen /\ Clean(used, seen).fails = 0
             /\ Clean(used, seen).left = 0 /\ ~Clean(used, seen).stamped
  <2>1. 0 \in Nat /\ FALSE \in BOOLEAN
    OBVIOUS
  <2>2. Clean(used, seen) \in Entries
    BY <2>1, LimitFacts, EntryMade, Zenon DEF Clean
  <2> QED
    BY <2>2 DEF Clean
<1>2. Fresh \in Views
  <2>1. Never \in Int
    BY DEF Never
  <2> QED
    BY <2>1 DEF Fresh, Views
<1> QED
  BY <1>1, <1>2 DEF Unused, NewEntry

LEMMA CountFacts ==
    ASSUME NEW S \in SUBSET Addresses
    PROVE  /\ IsFiniteSet(S) /\ Cardinality(S) \in Nat
           /\ \A T \in SUBSET S : Cardinality(T) <= Cardinality(S)
           /\ \A x \in S : Cardinality(S \ {x}) = Cardinality(S) - 1
           /\ \A x \in Addresses \ S : Cardinality(S \cup {x}) = Cardinality(S) + 1
<1>1. IsFiniteSet(S)
  BY FS_Subset, DashboardAssumption
<1>2. \A T \in SUBSET S : Cardinality(T) <= Cardinality(S)
  BY <1>1, FS_Subset
<1>3. \A x \in S : Cardinality(S \ {x}) = Cardinality(S) - 1
  BY <1>1, FS_RemoveElement
<1>4. \A x \in Addresses \ S : Cardinality(S \cup {x}) = Cardinality(S) + 1
  BY <1>1, FS_AddElement
<1> QED
  BY <1>1, <1>2, <1>3, <1>4, FS_CardinalityType

\* The address asked for has an entry, its own or a new one, seen now.
LEMMA TouchOwn ==
    ASSUME LimiterInv, NEW a \in Addresses, NEW t \in FindOrCreate(table, a)
    PROVE  /\ t \in [Addresses -> Entries]
           /\ t[a] = IF table[a].used THEN [table[a] EXCEPT !.seen = clock] ELSE NewEntry
           /\ t[a].used /\ t[a].seen = clock
<1>1. clock \in Nat /\ table \in [Addresses -> Entries]
  BY DEF LimiterInv, Agree
<1>2. a \in Tracked(table) <=> table[a].used
  BY DEF Tracked
<1>3. CASE a \in Tracked(table)
  <2>1. t = [table EXCEPT ![a].seen = clock]
    BY <1>3 DEF FindOrCreate
  <2>2. table[a] \in Entries
    BY <1>1
  <2>3. [table[a] EXCEPT !.seen = clock] \in Entries
    BY <1>1, <2>2 DEF Entries
  <2>4. t[a] = [table[a] EXCEPT !.seen = clock] /\ t \in [Addresses -> Entries]
    BY <1>1, <2>1, <2>3
  <2> QED
    BY <1>2, <1>3, <2>2, <2>4 DEF Entries
<1>4. CASE a \notin Tracked(table)
  <2>1. \/ t = [table EXCEPT ![a] = NewEntry]
        \/ \E v \in LeastSeen(table) : t = [table EXCEPT ![v] = Unused, ![a] = NewEntry]
    BY <1>4 DEF FindOrCreate
  <2>2. t[a] = NewEntry /\ t \in [Addresses -> Entries]
    BY <1>1, <2>1, EntryFacts
  <2> QED
    BY <1>1, <1>2, <1>4, <2>2, EntryFacts
<1> QED
  BY <1>3, <1>4

\* Every other address keeps its entry, but for the one whose number is the
\* smallest of a full table.
LEMMA TouchOthers ==
    ASSUME LimiterInv, NEW a \in Addresses, NEW t \in FindOrCreate(table, a),
           NEW b \in Addresses \ {a}
    PROVE  \/ t[b] = table[b]
           \/ /\ t[b] = Unused /\ ~table[a].used /\ b \in LeastSeen(table)
              /\ Cardinality(Tracked(table)) = MaxTracked
<1>1. table \in [Addresses -> Entries] /\ Cardinality(Tracked(table)) <= MaxTracked
  BY DEF LimiterInv, Agree
<1>2. CASE a \in Tracked(table)
  BY <1>1, <1>2 DEF FindOrCreate
<1>3. CASE a \notin Tracked(table) /\ Cardinality(Tracked(table)) < MaxTracked
  BY <1>1, <1>3 DEF FindOrCreate
<1>4. CASE a \notin Tracked(table) /\ ~(Cardinality(Tracked(table)) < MaxTracked)
  <2>1. PICK v \in LeastSeen(table) : t = [table EXCEPT ![v] = Unused, ![a] = NewEntry]
    BY <1>4 DEF FindOrCreate
  <2>2. t[b] = IF b = v THEN Unused ELSE table[b]
    BY <1>1, <2>1
  <2>3. Tracked(table) \in SUBSET Addresses /\ MaxTracked \in Nat
    BY DashboardAssumption DEF Tracked
  <2>4. Cardinality(Tracked(table)) = MaxTracked
    BY <1>1, <1>4, <2>3, CountFacts
  <2> QED
    BY <1>4, <2>2, <2>4 DEF Tracked
<1> QED
  BY <1>2, <1>3, <1>4

\* No more are tracked than the table holds.
LEMMA TouchFits ==
    ASSUME LimiterInv, NEW a \in Addresses, NEW t \in FindOrCreate(table, a)
    PROVE  Cardinality(Tracked(t)) <= MaxTracked
<1> DEFINE S == Tracked(table)
<1>1. table \in [Addresses -> Entries] /\ Cardinality(S) <= MaxTracked /\ S \in SUBSET Addresses
  BY DEF LimiterInv, Agree, Tracked
<1>2. MaxTracked \in Nat /\ Cardinality(S) \in Nat
  BY <1>1, CountFacts, DashboardAssumption
<1>3. t[a].used
  BY TouchOwn
<1>4. CASE a \in S
  <2>1. \A b \in Addresses : t[b].used <=> table[b].used
    BY <1>1, <1>3, <1>4 DEF FindOrCreate, Tracked
  <2> QED
    BY <1>1, <2>1 DEF Tracked
<1>5. CASE a \notin S /\ Cardinality(S) < MaxTracked
  <2>1. Tracked(t) = S \cup {a}
    BY <1>1, <1>3, <1>5 DEF FindOrCreate, Tracked
  <2>2. Cardinality(S \cup {a}) = Cardinality(S) + 1
    BY <1>1, <1>5, CountFacts
  <2> QED
    BY <1>2, <1>5, <2>1, <2>2
<1>6. CASE a \notin S /\ ~(Cardinality(S) < MaxTracked)
  <2>1. PICK v \in LeastSeen(table) : t = [table EXCEPT ![v] = Unused, ![a] = NewEntry]
    BY <1>6 DEF FindOrCreate
  <2>2. v \in S
    BY DEF LeastSeen
  <2>3. Tracked(t) = (S \ {v}) \cup {a}
    BY <1>1, <1>3, <1>6, <2>1, <2>2, EntryFacts DEF Tracked
  <2>4. Cardinality(S \ {v}) = Cardinality(S) - 1
    BY <1>1, <2>2, CountFacts
  <2>5. Cardinality((S \ {v}) \cup {a}) = Cardinality(S \ {v}) + 1
    <3>1. S \ {v} \in SUBSET Addresses /\ a \in Addresses \ (S \ {v})
      BY <1>1, <1>6
    <3> HIDE DEF S
    <3> QED
      BY <3>1, CountFacts
  <2> QED
    BY <1>1, <1>2, <2>3, <2>4, <2>5
<1> QED
  BY <1>4, <1>5, <1>6

\* One that gives way does so to as many others as the table holds: all that
\* were in it beside it, and the new one.
LEMMA GaveWay ==
    ASSUME LimiterInv, NEW a \in Addresses, ~table[a].used,
           NEW b \in LeastSeen(table), Cardinality(Tracked(table)) = MaxTracked
    PROVE  Cardinality(guesses[b].others \cup {a}) >= MaxTracked
<1> DEFINE S == Tracked(table)
           R == (S \ {b}) \cup {a}
<1>1. b \in S /\ S \in SUBSET Addresses /\ a \in Addresses \ S
  BY DEF LeastSeen, Tracked
<1>2. Fits(table, guesses, b) /\ guesses[b] \in Views /\ table[b].used
  BY <1>1 DEF LimiterInv, Agree, Tracked
<1>3. \A c \in S \ {b} : c \in guesses[b].others
  BY <1>1, <1>2 DEF Fits, LeastSeen, Tracked
<1>4. R \subseteq guesses[b].others \cup {a} /\ guesses[b].others \cup {a} \in SUBSET Addresses
  BY <1>1, <1>2, <1>3 DEF Views
<1>5. Cardinality(R) = Cardinality(S)
  <2>1. Cardinality(S \ {b}) = Cardinality(S) - 1 /\ Cardinality(S) \in Nat
    BY <1>1, CountFacts
  <2>2. S \ {b} \in SUBSET Addresses /\ a \in Addresses \ (S \ {b})
    BY <1>1
  <2> HIDE DEF S
  <2>3. Cardinality(R) = Cardinality(S \ {b}) + 1
    BY <2>2, CountFacts
  <2> QED
    BY <2>1, <2>3
<1>6. Cardinality(R) <= Cardinality(guesses[b].others \cup {a})
  <2> HIDE DEF R
  <2> QED
    BY <1>4, CountFacts
<1> QED
  BY <1>5, <1>6

\* What the observer holds of an address it sees, before the outcome counts.
Own(a) ==
    [IF a \notin Tracked(table) /\ Cardinality(guesses[a].others) >= MaxTracked
     THEN Fresh ELSE guesses[a] EXCEPT !.others = Outlasting(a), !.seen = clock]

LEMMA OwnFacts ==
    ASSUME LimiterInv, NEW a \in Addresses, NEW t \in FindOrCreate(table, a)
    PROVE  /\ Own(a) \in Views /\ Own(a).others = Outlasting(a) /\ Own(a).seen = clock
           /\ t[a].fails = Own(a).misses /\ Covers(t[a], Own(a))
<1> DEFINE g == IF a \notin Tracked(table) /\ Cardinality(guesses[a].others) >= MaxTracked
                THEN Fresh ELSE guesses[a]
<1>1. clock \in Nat /\ guesses[a] \in Views /\ Fits(table, guesses, a) /\ table[a] \in Entries
  BY DEF LimiterInv, Agree
<1>2. g \in Views
  BY <1>1, EntryFacts
<1>3. Outlasting(a) \in SUBSET Addresses
  BY DEF Outlasting
<1>4. Own(a) = [g EXCEPT !.others = Outlasting(a), !.seen = clock]
  BY DEF Own
<1>5. t[a] = IF table[a].used THEN [table[a] EXCEPT !.seen = clock] ELSE NewEntry
  BY TouchOwn
<1>6. a \in Tracked(table) <=> table[a].used
  BY DEF Tracked
<1>7. g.misses = t[a].fails /\ Covers(t[a], g)
  <2>1. CASE table[a].used
    <3>1. g = guesses[a]
      BY <1>6, <2>1
    <3>2. t[a] = [table[a] EXCEPT !.seen = clock]
      BY <1>5, <2>1
    <3>3. t[a].fails = table[a].fails /\ t[a].stamped = table[a].stamped /\ t[a].left = table[a].left
      BY <1>1, <3>2 DEF Entries
    <3> QED
      BY <1>1, <2>1, <3>1, <3>3 DEF Fits, Covers
  <2>2. CASE ~table[a].used
    <3>1. g.misses = 0 /\ g.barred = 0
      BY <1>1, <1>6, <2>2 DEF Fits, Fresh
    <3>2. t[a].fails = 0
      BY <1>1, <1>5, <2>2, EntryFacts
    <3> QED
      BY <3>1, <3>2 DEF Covers
  <2> QED
    BY <2>1, <2>2
<1> HIDE DEF g
<1>8. /\ Own(a) \in Views /\ Own(a).others = Outlasting(a) /\ Own(a).seen = clock
      /\ Own(a).misses = g.misses /\ Own(a).barred = g.barred
  <2>1. clock \in Int
    BY <1>1
  <2> QED
    BY <1>2, <1>3, <1>4, <2>1 DEF Views
<1> QED
  BY <1>7, <1>8 DEF Covers

\* The views once a is seen, and its own view is v.
Seen(a, v) ==
    [b \in Addresses |-> IF b # a THEN [guesses[b] EXCEPT !.others = @ \cup {a}] ELSE v]

\* One address is seen: with an entry and a view that fit each other, the table
\* and the observer still agree.
LEMMA SeenKeeps ==
    ASSUME LimiterInv, NEW a \in Addresses, NEW t \in FindOrCreate(table, a),
           NEW e \in Entries, NEW v \in Views, NEW u, NEW g,
           u = [t EXCEPT ![a] = e], g = Seen(a, v),
           e.used, e.seen = clock, v.seen = clock, v.others = Outlasting(a),
           e.fails = v.misses, Covers(e, v)
    PROVE  Agree(u, g)
<1>1. /\ clock \in Nat /\ table \in [Addresses -> Entries] /\ guesses \in [Addresses -> Views]
      /\ \A b \in Addresses : Fits(table, guesses, b)
  BY DEF LimiterInv, Agree
<1>2. t \in [Addresses -> Entries] /\ t[a].used
  BY TouchOwn
<1>3. u \in [Addresses -> Entries] /\ u[a] = e /\ \A b \in Addresses \ {a} : u[b] = t[b]
  BY <1>2
<1>4. Cardinality(Tracked(u)) <= MaxTracked
  <2>1. Tracked(u) = Tracked(t)
    BY <1>2, <1>3 DEF Tracked
  <2> QED
    BY <2>1, TouchFits
<1>5. \A b \in Addresses \ {a} :
         /\ guesses[b] \in Views /\ g[b] \in Views /\ g[b].others = guesses[b].others \cup {a}
         /\ g[b].misses = guesses[b].misses /\ g[b].barred = guesses[b].barred
         /\ g[b].seen = guesses[b].seen
  BY <1>1 DEF Views, Seen
<1>6. g[a] = v /\ g \in [Addresses -> Views]
  BY <1>5 DEF Seen
<1>7. \A b \in Addresses \ {a} : u[b] = table[b] \/ ~u[b].used
  BY <1>3, TouchOthers, EntryFacts
<1>8. Fits(u, g, a)
  <2>1. ASSUME NEW b \in Addresses \ {a}, u[b].used, e.seen <= u[b].seen
        PROVE  b \in v.others
    <3>1. u[b] = table[b]
      BY <1>7, <2>1
    <3>2. table[b].seen = guesses[b].seen
      BY <1>1, <2>1, <3>1 DEF Fits
    <3>3. clock \in Int /\ guesses[b].seen \in Int /\ clock <= guesses[b].seen
      BY <1>1, <1>5, <2>1, <3>1, <3>2 DEF Views
    <3> QED
      BY <3>3 DEF Outlasting
  <2> QED
    BY <1>3, <1>6, <2>1 DEF Fits
<1>9. ASSUME NEW b \in Addresses \ {a} PROVE Fits(u, g, b)
  <2>1. CASE u[b] = table[b] /\ table[b].used
    <3>1. ASSUME NEW c \in Addresses \ {b}, u[c].used, u[b].seen <= u[c].seen
          PROVE  c \in g[b].others
      <4>1. CASE c = a
        BY <1>5, <4>1
      <4>2. CASE c # a
        BY <1>1, <1>5, <1>7, <2>1, <3>1, <4>2 DEF Fits
      <4> QED
        BY <4>1, <4>2
    <3>2. /\ u[b].seen = g[b].seen /\ u[b].fails = g[b].misses /\ Covers(u[b], g[b])
      BY <1>1, <1>5, <2>1 DEF Fits, Covers
    <3> QED
      BY <2>1, <3>1, <3>2 DEF Fits
  <2>2. CASE u[b] = table[b] /\ ~table[b].used
    <3>1. CASE Cardinality(guesses[b].others) >= MaxTracked
      <4>1. guesses[b].others \cup {a} \in SUBSET Addresses
        BY <1>5 DEF Views
      <4>2. /\ Cardinality(guesses[b].others) <= Cardinality(guesses[b].others \cup {a})
            /\ Cardinality(guesses[b].others \cup {a}) \in Nat
        BY <4>1, CountFacts
      <4>3. Cardinality(guesses[b].others) \in Nat /\ MaxTracked \in Nat
        BY <1>5, CountFacts, DashboardAssumption DEF Views
      <4>4. g[b].others = guesses[b].others \cup {a}
        BY <1>5
      <4>5. Cardinality(g[b].others) >= MaxTracked
        BY <3>1, <4>2, <4>3, <4>4
      <4> QED
        BY <2>2, <4>5 DEF Fits
    <3>2. CASE guesses[b].misses = 0 /\ guesses[b].barred = 0
      BY <1>5, <2>2, <3>2 DEF Fits
    <3> QED
      BY <1>1, <2>2, <3>1, <3>2 DEF Fits
  <2>3. CASE u[b] # table[b]
    <3>1. /\ t[b] = Unused /\ ~table[a].used /\ b \in LeastSeen(table)
          /\ Cardinality(Tracked(table)) = MaxTracked
      BY <1>3, <2>3, TouchOthers
    <3>2. Cardinality(guesses[b].others \cup {a}) >= MaxTracked
      BY <3>1, GaveWay
    <3> QED
      BY <1>3, <1>5, <3>1, <3>2, EntryFacts DEF Fits
  <2> QED
    BY <2>1, <2>2, <2>3
<1> QED
  BY <1>3, <1>4, <1>6, <1>8, <1>9 DEF Agree

\* How the observer's views change when it sees an address.
LEMMA ObservedFacts ==
    ASSUME NEW a \in Addresses
    PROVE  /\ Observed(a, "refused") = Seen(a, Own(a))
           /\ Observed(a, "allowed") = Seen(a, [Own(a) EXCEPT !.misses = 0, !.barred = 0])
           /\ Observed(a, "failed") =
                Seen(a, IF Own(a).misses + 1 >= MaxFailures
                        THEN [Own(a) EXCEPT !.misses = 0, !.barred = LockoutStart]
                        ELSE [Own(a) EXCEPT !.misses = @ + 1])
<1>1. Observed(a, "refused") = Seen(a, Own(a))
  BY DEF Observed, Own, Seen
<1>2. Observed(a, "allowed") = Seen(a, [Own(a) EXCEPT !.misses = 0, !.barred = 0])
  BY DEF Observed, Own, Seen
<1>3. Observed(a, "failed") =
          Seen(a, IF Own(a).misses + 1 >= MaxFailures
                  THEN [Own(a) EXCEPT !.misses = 0, !.barred = LockoutStart]
                  ELSE [Own(a) EXCEPT !.misses = @ + 1])
  BY DEF Observed, Own, Seen
<1> QED
  BY <1>1, <1>2, <1>3

LEMMA BackoffFacts ==
    ASSUME NEW last \in Backoffs
    PROVE  /\ NextBackoff(last) \in LockoutStart..LockoutMax
           /\ NextBackoff(last) \in (1 - Half)..Half /\ NextBackoff(last) > 0
BY DashboardAssumption DEF Backoffs, NextBackoff

\* A login that was judged: the entry it leaves.
LEMMA CountedFacts ==
    ASSUME NEW e \in Entries, NEW allowed \in BOOLEAN, NEW f, f = Counted(e, allowed)
    PROVE  /\ f \in Entries /\ f.used = e.used /\ f.seen = e.seen
           /\ allowed => f.fails = 0 /\ ~f.stamped
           /\ ~allowed /\ e.fails + 1 >= MaxFailures =>
                 f.fails = 0 /\ f.stamped /\ f.left >= LockoutStart
           /\ ~allowed /\ ~(e.fails + 1 >= MaxFailures) =>
                 f.fails = e.fails + 1 /\ f.stamped = e.stamped /\ f.left = e.left
<1>1. CASE allowed
  <2>1. f = [e EXCEPT !.fails = 0, !.stamped = FALSE, !.left = 0, !.last = 0]
    BY <1>1 DEF Counted
  <2>2. 0 \in (1 - Half)..Half /\ 0 \in Backoffs
    BY LimitFacts
  <2>3. f = [used |-> e.used, fails |-> 0, stamped |-> FALSE, left |-> 0, last |-> 0,
             seen |-> e.seen]
    BY <2>1 DEF Entries
  <2>4. e.used \in BOOLEAN /\ e.seen \in Nat /\ 0 \in Nat /\ FALSE \in BOOLEAN
    BY DEF Entries
  <2>5. f \in Entries
    BY <2>2, <2>3, <2>4, EntryMade, Zenon
  <2>6. f.used = e.used /\ f.seen = e.seen /\ f.fails = 0 /\ ~f.stamped
    BY <2>3
  <2> QED
    BY <1>1, <2>5, <2>6
<1>2. CASE ~allowed /\ e.fails + 1 >= MaxFailures
  <2> DEFINE long == NextBackoff(e.last)
  <2>1. f = [e EXCEPT !.fails = 0, !.last = long, !.stamped = TRUE, !.left = long]
    BY <1>2 DEF Counted
  <2>2. e.last \in Backoffs
    BY DEF Entries
  <2>3. long \in LockoutStart..LockoutMax /\ long \in (1 - Half)..Half /\ long \in Backoffs
    BY <2>2, BackoffFacts DEF Backoffs
  <2> HIDE DEF long
  <2>4. f = [used |-> e.used, fails |-> 0, stamped |-> TRUE, left |-> long, last |-> long,
             seen |-> e.seen]
    BY <2>1 DEF Entries
  <2>6. e.used \in BOOLEAN /\ e.seen \in Nat
    BY DEF Entries
  <2>7. f \in Entries
    <3>1. 0 \in Nat /\ TRUE \in BOOLEAN
      OBVIOUS
    <3> QED
      BY <2>3, <2>4, <2>6, <3>1, EntryMade, Zenon
  <2>5. long >= LockoutStart
    BY <2>3
  <2>8. f.used = e.used /\ f.seen = e.seen /\ f.fails = 0 /\ f.stamped /\ f.left = long
    BY <2>4
  <2> QED
    BY <1>2, <2>5, <2>7, <2>8
<1>3. CASE ~allowed /\ ~(e.fails + 1 >= MaxFailures)
  <2>1. f = [e EXCEPT !.fails = @ + 1]
    BY <1>3 DEF Counted
  <2> QED
    BY <1>3, <2>1 DEF Entries
<1> QED
  BY <1>1, <1>2, <1>3

\* A request that is refused.
LEMMA RefusedKeeps ==
    ASSUME LimiterInv, NEW a \in Addresses, NEW t \in FindOrCreate(table, a)
    PROVE  Agree(t, Observed(a, "refused"))
<1>1. t \in [Addresses -> Entries] /\ t[a].used /\ t[a].seen = clock
  BY TouchOwn
<1>2. t[a] \in Entries /\ t = [t EXCEPT ![a] = t[a]]
  BY <1>1
<1>3. /\ Own(a) \in Views /\ Own(a).others = Outlasting(a) /\ Own(a).seen = clock
      /\ t[a].fails = Own(a).misses /\ Covers(t[a], Own(a))
  BY OwnFacts
<1>4. Observed(a, "refused") = Seen(a, Own(a))
  BY ObservedFacts
<1> QED
  BY <1>1, <1>2, <1>3, <1>4, SeenKeeps

\* A request that is judged.
LEMMA JudgedKeeps ==
    ASSUME LimiterInv, NEW a \in Addresses, NEW t \in FindOrCreate(table, a),
           NEW allowed \in BOOLEAN
    PROVE  Agree(Judged(t, a, allowed), Observed(a, IF allowed THEN "allowed" ELSE "failed"))
<1> DEFINE o == Own(a)
           e == Counted(t[a], allowed)
           v == IF allowed THEN [o EXCEPT !.misses = 0, !.barred = 0]
                ELSE IF o.misses + 1 >= MaxFailures
                THEN [o EXCEPT !.misses = 0, !.barred = LockoutStart]
                ELSE [o EXCEPT !.misses = @ + 1]
<1>0. t \in [Addresses -> Entries] /\ t[a].used /\ t[a].seen = clock
  BY TouchOwn
<1>1. t \in [Addresses -> Entries] /\ t[a].used /\ t[a].seen = clock /\ t[a] \in Entries
  BY <1>0
<1>2. /\ o \in Views /\ o.others = Outlasting(a) /\ o.seen = clock
      /\ t[a].fails = o.misses /\ Covers(t[a], o)
  BY OwnFacts
<1>3. Observed(a, IF allowed THEN "allowed" ELSE "failed") = Seen(a, v)
  <2>1. CASE allowed
    <3>1. v = [Own(a) EXCEPT !.misses = 0, !.barred = 0]
      BY <2>1
    <3> QED
      BY <2>1, <3>1, ObservedFacts
  <2>2. CASE ~allowed
    <3>1. v = IF Own(a).misses + 1 >= MaxFailures
              THEN [Own(a) EXCEPT !.misses = 0, !.barred = LockoutStart]
              ELSE [Own(a) EXCEPT !.misses = @ + 1]
      BY <2>2
    <3> QED
      BY <2>2, <3>1, ObservedFacts
  <2> QED
    BY <2>1, <2>2
<1>4. /\ e \in Entries /\ e.used = t[a].used /\ e.seen = t[a].seen
      /\ allowed => e.fails = 0 /\ ~e.stamped
      /\ ~allowed /\ t[a].fails + 1 >= MaxFailures =>
            e.fails = 0 /\ e.stamped /\ e.left >= LockoutStart
      /\ ~allowed /\ ~(t[a].fails + 1 >= MaxFailures) =>
            e.fails = t[a].fails + 1 /\ e.stamped = t[a].stamped /\ e.left = t[a].left
  BY <1>1, CountedFacts
<1>5. Judged(t, a, allowed) = [t EXCEPT ![a] = e]
  BY DEF Judged
<1> HIDE DEF o, e
<1>6. /\ v \in Views /\ v.others = o.others /\ v.seen = o.seen
      /\ e.fails = v.misses /\ Covers(e, v)
  <2>1. CASE allowed
    <3>1. v = [o EXCEPT !.misses = 0, !.barred = 0]
      BY <2>1
    <3> HIDE DEF v
    <3>2. /\ v \in Views /\ v.others = o.others /\ v.seen = o.seen
          /\ v.misses = 0 /\ v.barred = 0
      BY <1>2, <3>1 DEF Views
    <3> QED
      BY <1>4, <2>1, <3>2 DEF Covers
  <2>2. CASE ~allowed /\ o.misses + 1 >= MaxFailures
    <3>1. v = [o EXCEPT !.misses = 0, !.barred = LockoutStart]
      BY <2>2
    <3> HIDE DEF v
    <3>2. /\ v \in Views /\ v.others = o.others /\ v.seen = o.seen
          /\ v.misses = 0 /\ v.barred = LockoutStart
      BY <1>2, <3>1, LimitFacts DEF Views
    <3> QED
      BY <1>2, <1>4, <2>2, <3>2 DEF Covers
  <2>3. CASE ~allowed /\ ~(o.misses + 1 >= MaxFailures)
    <3>1. v = [o EXCEPT !.misses = o.misses + 1]
      BY <2>3
    <3> HIDE DEF v
    <3>2. /\ v \in Views /\ v.others = o.others /\ v.seen = o.seen
          /\ v.misses = o.misses + 1 /\ v.barred = o.barred
      BY <1>2, <3>1 DEF Views
    <3> QED
      BY <1>2, <1>4, <2>3, <3>2 DEF Covers
  <2> QED
    BY <2>1, <2>2, <2>3
<1> HIDE DEF v
<1>8. Agree([t EXCEPT ![a] = e], Seen(a, v))
  BY <1>1, <1>2, <1>4, <1>6, SeenKeeps
<1> QED
  BY <1>3, <1>5, <1>8

\* Time passes for an entry, and for what is expected of it.
LEMMA ElapsedFacts ==
    ASSUME NEW e \in Entries
    PROVE  /\ Elapsed(e) \in Entries /\ Elapsed(e).used = e.used /\ Elapsed(e).seen = e.seen
           /\ Elapsed(e).fails = e.fails /\ Elapsed(e).stamped = e.stamped
           /\ e.stamped => Elapsed(e).left = IF e.left = 1 - Half THEN Half ELSE e.left - 1
           /\ \A g, h : /\ Covers(e, g) /\ g.barred \in Nat
                        /\ h.barred = (IF g.barred > 0 THEN g.barred - 1 ELSE 0)
                        => Covers(Elapsed(e), h)
<1>1. e.left \in (1 - Half)..Half /\ Half \in Nat /\ Half > 0
  BY DashboardAssumption DEF Entries
<1>2. CASE ~e.stamped
  BY <1>2 DEF Elapsed, Covers
<1>3. CASE e.stamped
  <2> DEFINE left == IF e.left = 1 - Half THEN Half ELSE e.left - 1
  <2>1. Elapsed(e) = [e EXCEPT !.left = left]
    BY <1>3 DEF Elapsed
  <2>2. left \in (1 - Half)..Half
    BY <1>1
  <2>3. e.left > 0 => left = e.left - 1
    BY <1>1
  <2>4. left = IF e.left = 1 - Half THEN Half ELSE e.left - 1
    OBVIOUS
  <2> HIDE DEF left
  <2>5. /\ Elapsed(e) \in Entries /\ Elapsed(e).left = left
        /\ Elapsed(e).used = e.used /\ Elapsed(e).seen = e.seen /\ Elapsed(e).fails = e.fails
        /\ Elapsed(e).stamped = e.stamped
    BY <2>1, <2>2 DEF Entries
  <2>6. ASSUME NEW g, NEW h, Covers(e, g), g.barred \in Nat,
               h.barred = (IF g.barred > 0 THEN g.barred - 1 ELSE 0)
        PROVE  Covers(Elapsed(e), h)
    BY <1>1, <1>3, <2>3, <2>5, <2>6 DEF Covers
  <2> QED
    BY <2>4, <2>5, <2>6
<1> QED
  BY <1>2, <1>3

\* Time passes for the table and for the observer alike.
LEMMA TickKeeps ==
    ASSUME LimiterInv, Tick
    PROVE  LimiterInv'
<1>1. /\ clock \in Nat /\ table \in [Addresses -> Entries] /\ guesses \in [Addresses -> Views]
      /\ Cardinality(Tracked(table)) <= MaxTracked
  BY DEF LimiterInv, Agree
<1>2. table' = [a \in Addresses |-> Elapsed(table[a])]
  BY DEF Tick
<1>3. \A a \in Addresses :
         /\ table'[a] \in Entries /\ table'[a].used = table[a].used
         /\ table'[a].seen = table[a].seen /\ table'[a].fails = table[a].fails
         /\ \A g, h : Covers(table[a], g) /\ g.barred \in Nat
                    /\ h.barred = (IF g.barred > 0 THEN g.barred - 1 ELSE 0)
                    => Covers(table'[a], h)
  <2>1. \A a \in Addresses : table[a] \in Entries /\ table'[a] = Elapsed(table[a])
    BY <1>1, <1>2
  <2> QED
    BY <2>1, ElapsedFacts
<1>4. \A a \in Addresses :
         /\ guesses[a] \in Views /\ guesses'[a] \in Views
         /\ guesses'[a].others = guesses[a].others /\ guesses'[a].seen = guesses[a].seen
         /\ guesses'[a].misses = guesses[a].misses
         /\ guesses'[a].barred = IF guesses[a].barred > 0 THEN guesses[a].barred - 1 ELSE 0
  BY <1>1 DEF Tick, Views
<1>5. table' \in [Addresses -> Entries] /\ guesses' \in [Addresses -> Views] /\ clock' \in Nat
  <2>1. table' \in [Addresses -> Entries]
    BY <1>2, <1>3
  <2>2. guesses' \in [Addresses -> Views]
    BY <1>4 DEF Tick
  <2> QED
    BY <1>1, <2>1, <2>2 DEF Tick
<1>6. Tracked(table') = Tracked(table)
  BY <1>3 DEF Tracked
<1>7. ASSUME NEW a \in Addresses PROVE Fits(table', guesses', a)
  <2>1. Fits(table, guesses, a) /\ guesses[a].barred \in Nat
    BY <1>4 DEF LimiterInv, Agree, Views
  <2>2. CASE table[a].used
    <3>1. Covers(table[a], guesses[a])
      BY <2>1, <2>2 DEF Fits
    <3>2. Covers(table'[a], guesses'[a])
      BY <1>3, <1>4, <2>1, <3>1
    <3>3. \A b \in Addresses \ {a} :
             table'[b].used /\ table'[a].seen <= table'[b].seen => b \in guesses'[a].others
      BY <1>3, <1>4, <2>1, <2>2 DEF Fits
    <3>4. table'[a].seen = guesses'[a].seen /\ table'[a].fails = guesses'[a].misses
      BY <1>3, <1>4, <2>1, <2>2 DEF Fits
    <3> QED
      BY <1>3, <2>2, <3>2, <3>3, <3>4 DEF Fits
  <2>3. CASE ~table[a].used
    BY <1>3, <1>4, <2>1, <2>3 DEF Fits
  <2> QED
    BY <2>2, <2>3
<1> QED
  BY <1>1, <1>5, <1>6, <1>7 DEF LimiterInv, Agree

\* Nobody has been seen yet, at first or after a reset.
LEMMA UnknownFits == Agree(NoEntries, Unknown)
<1>1. NoEntries \in [Addresses -> Entries] /\ Unknown \in [Addresses -> Views]
  BY EntryFacts DEF NoEntries, Unknown
<1>2. Tracked(NoEntries) = {}
  BY EntryFacts DEF Tracked, NoEntries
<1>3. Cardinality({}) <= MaxTracked
  BY FS_EmptySet, DashboardAssumption
<1>4. ASSUME NEW a \in Addresses PROVE Fits(NoEntries, Unknown, a)
  <2>1. Unknown[a] = Fresh /\ NoEntries[a] = Unused
    BY DEF Unknown, NoEntries
  <2>2. Unknown[a].misses = 0 /\ Unknown[a].barred = 0
    BY <2>1 DEF Fresh
  <2> QED
    BY <2>1, <2>2, EntryFacts DEF Fits
<1> QED
  BY <1>1, <1>2, <1>3, <1>4 DEF Agree

LEMMA LimiterInit == Init => LimiterInv
BY UnknownFits DEF Init, LimiterInv

LEMMA NextKeepsLimiter ==
    ASSUME LimiterInv, [Next]_vars
    PROVE  LimiterInv'
<1>1. CASE UNCHANGED <<clock, table, guesses>>
  BY <1>1 DEF LimiterInv, Agree, Fits, Tracked
<1>2. ASSUME NEW a \in Addresses, Admitted(a), UNCHANGED clock PROVE LimiterInv'
  <2>1. PICK t \in FindOrCreate(table, a) :
            table' = Judged(t, a, TRUE) /\ guesses' = Observed(a, "allowed")
    BY <1>2 DEF Admitted
  <2>2. Agree(Judged(t, a, TRUE), Observed(a, "allowed"))
    BY JudgedKeeps
  <2>3. Agree(table', guesses')
    BY <2>1, <2>2
  <2> QED
    BY <1>2, <2>3 DEF LimiterInv
<1>3. ASSUME NEW a \in Addresses, Guess(a) PROVE LimiterInv'
  <2>1. PICK t \in FindOrCreate(table, a) :
           \/ table' = t /\ guesses' = Observed(a, "refused")
           \/ table' = Judged(t, a, FALSE) /\ guesses' = Observed(a, "failed")
    BY <1>3 DEF Guess
  <2>2. Agree(t, Observed(a, "refused"))
    BY RefusedKeeps
  <2>3. Agree(Judged(t, a, FALSE), Observed(a, "failed"))
    BY JudgedKeeps
  <2>4. Agree(table', guesses')
    BY <2>1, <2>2, <2>3
  <2> QED
    BY <1>3, <2>4 DEF LimiterInv, Guess
<1>4. CASE Reset
  <2>1. clock' = 0 /\ table' = NoEntries /\ guesses' = Unknown
    BY <1>4 DEF Reset
  <2>2. Agree(table', guesses')
    BY <2>1, UnknownFits
  <2> QED
    BY <2>1, <2>2 DEF LimiterInv
<1>5. Admin \in Addresses
  BY DashboardAssumption
<1>6. [Next]_vars =>
        \/ UNCHANGED <<clock, table, guesses>> \/ Tick \/ Reset
        \/ \E a \in Addresses : Guess(a) \/ (Admitted(a) /\ UNCHANGED clock)
  BY <1>5 DEF Next, Visit, SaveLogin, PutUser, PutPass, LoginSaved, StartJob, FinishJob,
     SendChanges, FirmwareStep, vars, webVars
<1> QED
  BY <1>1, <1>2, <1>3, <1>4, <1>6, TickKeeps

\* The limiter's table and what an observer expects of it, in every reachable state.
THEOREM LimiterInvariant == Spec => []LimiterInv
BY LimiterInit, NextKeepsLimiter, PTL DEF Spec

\* An address that failed too often is refused until its lockout is over, unless
\* as many others as the table holds were seen since, or compare as seen no
\* earlier (RateLimitMiddleware).
THEOREM LockoutsHold == Spec => []LockoutHolds
<1>1. ASSUME LimiterInv, NEW a \in Addresses, guesses[a].barred > 0,
             Cardinality(guesses[a].others) < MaxTracked
      PROVE  LockedOut(table, a)
  <2>1. /\ Fits(table, guesses, a) /\ guesses[a] \in Views /\ table[a] \in Entries
        /\ MaxTracked \in Nat
    BY <1>1, DashboardAssumption DEF LimiterInv, Agree
  <2>2. /\ guesses[a].barred \in Nat /\ Cardinality(guesses[a].others) \in Nat
        /\ table[a].left \in Int
    BY <2>1, CountFacts, DashboardAssumption DEF Views, Entries
  <2>3. table[a].used
    BY <1>1, <2>1, <2>2 DEF Fits
  <2>4. Covers(table[a], guesses[a])
    BY <2>1, <2>3 DEF Fits
  <2> QED
    BY <1>1, <2>2, <2>4 DEF LockedOut, Covers
<1>2. LimiterInv => LockoutHolds
  BY <1>1 DEF LockoutHolds
<1> QED
  BY <1>2, LimiterInvariant, PTL

\* What the property asks of the address b in one step.
LockedByOwn(b) ==
    ~LockedOut(table, b) /\ LockedOut(table', b)
        => guesses'[b].barred > 0 \/ table'[b].left = Half

\* Finding or making an entry locks nobody out.
LEMMA TouchLocksNobody ==
    ASSUME LimiterInv, NEW a \in Addresses, NEW t \in FindOrCreate(table, a),
           NEW b \in Addresses, LockedOut(t, b)
    PROVE  LockedOut(table, b)
<1>1. clock \in Nat /\ table[a] \in Entries
  BY DEF LimiterInv, Agree
<1>2. CASE b = a
  <2>1. t[a] = IF table[a].used THEN [table[a] EXCEPT !.seen = clock] ELSE NewEntry
    BY TouchOwn
  <2>2. CASE table[a].used
    <3>1. t[a].stamped = table[a].stamped /\ t[a].left = table[a].left
      BY <1>1, <2>1, <2>2 DEF Entries
    <3> QED
      BY <1>2, <3>1 DEF LockedOut
  <2>3. CASE ~table[a].used
    BY <1>1, <1>2, <2>1, <2>3, EntryFacts DEF LockedOut
  <2> QED
    BY <2>2, <2>3
<1>3. CASE b # a
  BY <1>3, TouchOthers, EntryFacts DEF LockedOut
<1> QED
  BY <1>2, <1>3

\* Judging a login can lock out its own address only, for the failures the
\* observer has counted too.
LEMMA JudgedLocksOwn ==
    ASSUME LimiterInv, NEW a \in Addresses, NEW t \in FindOrCreate(table, a),
           NEW allowed \in BOOLEAN, table' = Judged(t, a, allowed),
           guesses' = Observed(a, IF allowed THEN "allowed" ELSE "failed"),
           NEW b \in Addresses
    PROVE  LockedByOwn(b)
<1> DEFINE e == Counted(t[a], allowed)
<1>0. t \in [Addresses -> Entries]
  BY TouchOwn
<1>1. t \in [Addresses -> Entries] /\ t[a] \in Entries
  BY <1>0
<1>2. /\ Own(a) \in Views /\ t[a].fails = Own(a).misses
  BY OwnFacts
<1>3. table' = [t EXCEPT ![a] = e]
  BY DEF Judged
<1>4. LockedOut(t, b) => LockedOut(table, b)
  BY TouchLocksNobody
<1>5. /\ allowed => ~e.stamped
      /\ ~allowed /\ ~(t[a].fails + 1 >= MaxFailures) =>
            e.stamped = t[a].stamped /\ e.left = t[a].left
  BY <1>1, CountedFacts
<1> HIDE DEF e
<1>6. CASE b # a
  BY <1>1, <1>3, <1>4, <1>6 DEF LockedByOwn, LockedOut
<1>7. CASE b = a /\ allowed
  BY <1>1, <1>3, <1>5, <1>7 DEF LockedByOwn, LockedOut
<1>8. CASE b = a /\ ~allowed /\ ~(t[a].fails + 1 >= MaxFailures)
  BY <1>1, <1>3, <1>4, <1>5, <1>8 DEF LockedByOwn, LockedOut
<1>9. CASE b = a /\ ~allowed /\ t[a].fails + 1 >= MaxFailures
  <2> DEFINE v == [Own(a) EXCEPT !.misses = 0, !.barred = LockoutStart]
  <2>1. guesses' = Observed(a, "failed")
    BY <1>9
  <2>2. Observed(a, "failed") = Seen(a, v)
    BY <1>2, <1>9, ObservedFacts
  <2>3. v.barred = LockoutStart
    BY <1>2 DEF Views
  <2> HIDE DEF v
  <2>4. guesses'[a] = v
    BY <2>1, <2>2 DEF Seen
  <2> QED
    BY <1>9, <2>3, <2>4, LimitFacts DEF LockedByOwn
<1> QED
  BY <1>6, <1>7, <1>8, <1>9

\* The tick that locks an address out takes its stamp round the clock.
LEMMA TickLocksAtTurn ==
    ASSUME LimiterInv, Tick, NEW b \in Addresses
    PROVE  LockedByOwn(b)
<1> DEFINE e == table[b]
<1>1. e \in Entries /\ table'[b] = Elapsed(e)
  BY DEF LimiterInv, Agree, Tick
<1> HIDE DEF e
<1>2. e.left \in Int
  BY <1>1, DashboardAssumption DEF Entries
<1>3. /\ Elapsed(e).stamped = e.stamped
      /\ e.stamped => Elapsed(e).left = IF e.left = 1 - Half THEN Half ELSE e.left - 1
  BY <1>1, ElapsedFacts
<1>4. Elapsed(e).stamped /\ Elapsed(e).left > 0 =>
          Elapsed(e).left = Half \/ (e.stamped /\ e.left > 0)
  BY <1>2, <1>3
<1> QED
  BY <1>1, <1>4 DEF LockedByOwn, LockedOut, e

\* An address is locked out by failed logins of its own and by nothing else,
\* until a stamp has gone all the way round the clock (RateLimitMiddleware).
THEOREM OnlyFailuresLock == Spec => OnlyFailuresLockOut
<1>1. ASSUME LimiterInv, [Next]_vars, NEW b \in Addresses
      PROVE  LockedByOwn(b)
  <2>1. CASE UNCHANGED <<table, guesses>>
    BY <2>1 DEF LockedByOwn, LockedOut
  <2>2. ASSUME NEW a \in Addresses, Admitted(a) PROVE LockedByOwn(b)
    <3>1. PICK t \in FindOrCreate(table, a) :
              table' = Judged(t, a, TRUE) /\ guesses' = Observed(a, "allowed")
      BY <2>2 DEF Admitted
    <3> QED
      BY <1>1, <3>1, JudgedLocksOwn
  <2>3. ASSUME NEW a \in Addresses, Guess(a) PROVE LockedByOwn(b)
    <3>1. PICK t \in FindOrCreate(table, a) :
             \/ table' = t
             \/ table' = Judged(t, a, FALSE) /\ guesses' = Observed(a, "failed")
      BY <2>3 DEF Guess
    <3>2. CASE table' = t
      BY <1>1, <3>2, TouchLocksNobody DEF LockedByOwn
    <3>3. CASE table' = Judged(t, a, FALSE) /\ guesses' = Observed(a, "failed")
      BY <1>1, <3>3, JudgedLocksOwn
    <3> QED
      BY <3>1, <3>2, <3>3
  <2>4. CASE Reset
    <3>1. table'[b] = Unused
      BY <2>4 DEF Reset, NoEntries
    <3> QED
      BY <3>1, EntryFacts DEF LockedByOwn, LockedOut
  <2>5. Admin \in Addresses
    BY DashboardAssumption
  <2>6. [Next]_vars =>
          \/ UNCHANGED <<table, guesses>> \/ Tick \/ Reset
          \/ \E a \in Addresses : Guess(a) \/ Admitted(a)
    BY <2>5 DEF Next, Visit, SaveLogin, PutUser, PutPass, LoginSaved, StartJob, FinishJob,
       SendChanges, FirmwareStep, vars, webVars
  <2> QED
    BY <1>1, <2>1, <2>2, <2>3, <2>4, <2>6, TickLocksAtTurn
<1>2. LimiterInv /\ [Next]_vars =>
        [\A a \in Addresses :
          ~LockedOut(table, a) /\ LockedOut(table', a)
            => guesses'[a].barred > 0 \/ table'[a].left = Half]_vars
  BY <1>1 DEF LockedByOwn
<1> QED
  BY <1>2, LimiterInvariant, PTL DEF Spec, OnlyFailuresLockOut
=============================================================================
