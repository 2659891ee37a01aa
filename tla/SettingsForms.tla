---------------------------- MODULE SettingsForms ----------------------------
(***************************************************************************)
(* The dashboard's camera and user forms: what the edit page shows of a    *)
(* stored record and what a submission of it stores                        *)
(* (lib/camera_form/camera_form.cpp, lib/user_form/user_form.cpp).  A       *)
(* submission is a function on the fields it carries: a checkbox that is   *)
(* off is not among them.  Numbers are the value toInt() finds in the text *)
(* typed, 0 for text that is no number or for a blank.                     *)
(***************************************************************************)
EXTENDS Integers, RecordFormats

\* A number is shown in units of `scale` and stored in a field of `size`
\* values (0 for the 32-bit ones, which the clamps keep from overflowing).
Number(scale, least, most, default, orDefault, size) ==
    [scale |-> scale, least |-> least, most |-> most, default |-> default,
     orDefault |-> orDefault, size |-> size]

CameraNumbers ==
    [snapshotMaxWidth     |-> Number(1, 0, 4096, 0, FALSE, 65536),
     snapshotMaxHeight    |-> Number(1, 0, 4096, 0, FALSE, 65536),
     alertCooldownMs      |-> Number(1000, 1, 86400, 30000, TRUE, 0),
     offlineThresholdMs   |-> Number(60000, 1, 10080, 300000, TRUE, 0),
     snapshotBurstCount   |-> Number(1, 1, 10, 1, FALSE, 0),
     pollIntervalMs       |-> Number(1, 250, 30000, 2000, TRUE, 0),
     motionWatchdogHours  |-> Number(1, 0, 168, 0, FALSE, 65536),
     timelapseIntervalMin |-> Number(1, 0, 1440, 0, FALSE, 65536),
     retentionDays        |-> Number(1, 0, 3650, 0, FALSE, 65536)]

UserNumbers == [maxCommandsPerMinute |-> Number(1, 0, 600, 0, FALSE, 65536)]

CameraFlags ==
    {"enabled", "useWSSecurity", "includeInitialTerminationTime",
     "includeReplyToAnonymous", "quietHoursEnabled",
     "timelapseSendToTelegram", "personAlertsEnabled",
     "vehicleAlertsEnabled", "petAlertsEnabled", "petAlertsTextOnly",
     "motionDigestEnabled"}

UserFlags == {"allCameras", "systemMessages", "canCommand", "canSnap",
              "canReset", "canBackup", "canRestore"}

Times == {"quietStartMinute", "quietEndMinute"}

\* minutesToHHMM and parseHHMMToMinutes.
HoursMinutes(minutes) == <<(minutes \div 60) % 24, minutes % 60>>

MinutesOf(time) ==
    IF time[1] \in 0..23 /\ time[2] \in 0..59 THEN time[1] * 60 + time[2] ELSE 0

----------------------------------------------------------------------------
Shown(number, stored) == stored \div number.scale

Clamped(number, v) ==
    CASE v < number.least -> number.least
      [] v > number.most -> number.most
      [] OTHER -> v

\* Mutant: the default is not scaled where a blank entry falls back to it.
ParseNumberUnscaled(number, typed) ==
    LET v == IF typed <= 0 /\ number.orDefault THEN number.default ELSE typed
        stored == Clamped(number, v) * number.scale
    IN IF number.size = 0 THEN stored ELSE stored % number.size

ParseNumber(number, typed) ==
    LET v == IF typed <= 0 /\ number.orDefault
             THEN Shown(number, number.default) ELSE typed
        stored == Clamped(number, v) * number.scale
    IN IF number.size = 0 THEN stored ELSE stored % number.size

\* A number the submission does not carry reads as its default.
Typed(number, submitted, f) ==
    IF f \in DOMAIN submitted THEN submitted[f] ELSE Shown(number, number.default)

CameraForm(camera) ==
    [f \in DOMAIN CameraNumbers \cup Times \cup {"pass"}
           \cup {g \in CameraFlags : camera[g]} |->
        CASE f \in DOMAIN CameraNumbers -> Shown(CameraNumbers[f], camera[f])
          [] f \in Times -> HoursMinutes(camera[f])
          [] f = "pass" -> ""
          [] OTHER -> TRUE]

ParseCameraForm(submitted) ==
    [f \in DOMAIN CameraNumbers \cup Times \cup {"pass"} \cup CameraFlags |->
        CASE f \in DOMAIN CameraNumbers ->
                ParseNumber(CameraNumbers[f], Typed(CameraNumbers[f], submitted, f))
          [] f \in Times ->
                IF f \in DOMAIN submitted THEN MinutesOf(submitted[f]) ELSE 0
          [] f = "pass" -> submitted["pass"]
          [] OTHER -> f \in DOMAIN submitted]

\* An edit that leaves the password blank keeps the stored one.
SavedCamera(stored, submitted) ==
    LET camera == ParseCameraForm(submitted)
    IN IF camera.pass = "" THEN [camera EXCEPT !.pass = stored.pass] ELSE camera

UserForm(user, cams) ==
    [f \in DOMAIN UserNumbers \cup {"language", "cameras"}
           \cup {g \in UserFlags : user[g]} |->
        CASE f \in DOMAIN UserNumbers -> Shown(UserNumbers[f], user[f])
          [] f = "language" -> user.language
          [] f = "cameras" -> user.cameraNames \cap cams
          [] OTHER -> TRUE]

\* The cameras picked are only read when "All cameras" is off.
ParseUserForm(submitted, cams) ==
    [f \in DOMAIN UserNumbers \cup {"language", "cameraNames"} \cup UserFlags |->
        CASE f \in DOMAIN UserNumbers ->
                ParseNumber(UserNumbers[f], Typed(UserNumbers[f], submitted, f))
          [] f = "language" -> submitted.language
          [] f = "cameraNames" ->
                IF "allCameras" \in DOMAIN submitted THEN {}
                ELSE submitted.cameras \cap cams
          [] OTHER -> f \in DOMAIN submitted]

----------------------------------------------------------------------------
(***************************************************************************)
(* What the forms promise                                                  *)
(***************************************************************************)
ParseNumbers(numbers) ==
    {<<f, n>> : f \in DOMAIN numbers, n \in {-1, 0, 1, 249, 70000}}
    \cup {<<f, numbers[f].most + d>> : f \in DOMAIN numbers, d \in {-1, 0, 1}}

\* Submissions that differ in one place from what the form shows of a default
\* camera: another number, another time, a flag the other way, a password.
DefaultCamera ==
    [f \in DOMAIN CameraNumbers \cup Times \cup {"pass"} \cup CameraFlags |->
        CASE f \in DOMAIN CameraNumbers -> CameraNumbers[f].default
          [] f \in Times -> 0
          [] f = "pass" -> "stored"
          [] OTHER -> Fallback(f)]

With(submitted, f, v) ==
    [g \in DOMAIN submitted \cup {f} |-> IF g = f THEN v ELSE submitted[g]]

CameraSubmissions ==
    LET form == CameraForm(DefaultCamera)
    IN {form, With(form, "pass", "new")}
       \cup {With(form, p[1], p[2]) : p \in ParseNumbers(CameraNumbers)}
       \cup {With(form, f, t) : f \in Times, t \in {<<23, 59>>, <<7, 5>>, <<24, 0>>}}
       \cup {With(form, f, TRUE) : f \in CameraFlags}
       \cup {[g \in DOMAIN form \ {f} |-> form[g]] : f \in CameraFlags}

UserSubmissions ==
    {[f \in DOMAIN UserNumbers \cup {"language", "cameras"} \cup flags |->
        CASE f \in DOMAIN UserNumbers -> n
          [] f = "language" -> "pt"
          [] f = "cameras" -> picked
          [] OTHER -> TRUE] :
        n \in {-1, 0, 600, 601}, picked \in SUBSET {"a", "b"},
        flags \in {UserFlags} \cup {{f} : f \in UserFlags}}

\* What an import may have stored: records that no form would store as they are.
ImportedCameras ==
    {[DefaultCamera EXCEPT ![f] = v] : f \in DOMAIN CameraNumbers, v \in {0, 1, 45500}}
    \cup {[DefaultCamera EXCEPT ![f] = v] : f \in Times, v \in {1439, 1500}}
    \cup {[DefaultCamera EXCEPT ![f] = ~@] : f \in CameraFlags}

ImportedUsers ==
    {[f \in DOMAIN UserNumbers \cup {"language", "cameraNames"} \cup UserFlags |->
        CASE f \in DOMAIN UserNumbers -> n
          [] f = "language" -> "pt"
          [] f = "cameraNames" -> names
          [] OTHER -> f \in flags] :
        n \in {0, 600, 601}, names \in SUBSET {"a", "b"},
        flags \in {{}, UserFlags} \cup {{f} : f \in UserFlags}}

\* The values of a number field that its form can store.
FormValues(number) == {n * number.scale : n \in number.least..number.most}

\* Of a camera, whatever it holds, saving the edit page as shown changes only
\* numbers and times that no form would store, and none the second time.
ShownCameraKept(camera) ==
    LET again == SavedCamera(camera, CameraForm(camera))
    IN /\ \A f \in CameraFlags \cup {"pass"} : again[f] = camera[f]
       /\ \A f \in DOMAIN CameraNumbers :
             camera[f] \in FormValues(CameraNumbers[f]) => again[f] = camera[f]
       /\ \A f \in Times : camera[f] \in 0..1439 => again[f] = camera[f]
       /\ SavedCamera(again, CameraForm(again)) = again

\* Of a user likewise, and of the cameras picked, those that are no longer there.
ShownUserKept(user, cams) ==
    LET again == ParseUserForm(UserForm(user, cams), cams)
    IN /\ \A f \in UserFlags \cup {"language"} : again[f] = user[f]
       /\ user.maxCommandsPerMinute \in 0..600 =>
             again.maxCommandsPerMinute = user.maxCommandsPerMinute
       /\ ~user.allCameras => again.cameraNames = user.cameraNames \cap cams
       /\ ParseUserForm(UserForm(again, cams), cams) = again

\* Whatever is typed, what is stored is within the field's range, with the
\* field's default for a blank that has no meaning of its own, and saving the
\* edit page of it as shown changes nothing, not even the password that is never
\* shown.  A record that came by an import keeps what a form can store of it.
\* (parseCameraForm, renderCameraForm, parseUserForm, renderTelegramUserForm,
\* saveCameraSubmission.)
FormsRoundTrip ==
    /\ \A submitted \in CameraSubmissions :
        LET camera == SavedCamera(DefaultCamera, submitted)
        IN /\ \A f \in DOMAIN CameraNumbers :
                /\ camera[f] \in FormValues(CameraNumbers[f])
                /\ submitted[f] <= 0 => camera[f] = CameraNumbers[f].default
           /\ SavedCamera(camera, CameraForm(camera)) = camera
    /\ \A camera \in ImportedCameras : ShownCameraKept(camera)
    /\ \A cams \in SUBSET {"a", "b"} :
        /\ \A submitted \in UserSubmissions :
            LET user == ParseUserForm(submitted, cams)
            IN /\ user.maxCommandsPerMinute \in 0..600
               /\ ParseUserForm(UserForm(user, cams), cams) = user
        /\ \A user \in ImportedUsers : ShownUserKept(user, cams)
=============================================================================
