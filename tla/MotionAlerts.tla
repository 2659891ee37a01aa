---------------------------- MODULE MotionAlerts ----------------------------
(***************************************************************************)
(* src/telegram_alerts.cpp as one camera's task runs it (src/camera.cpp):  *)
(* each pass of the loop pulls events, turns them into motion or pet,      *)
(* tamper and signal-loss alerts behind one cooldown, reports the motion   *)
(* the cooldown swallowed (checkPendingMotionDigest) and serves as a clock *)
(* for the window all cameras share (checkMultiCameraAlertDigest).         *)
(*                                                                         *)
(* The alert fields of a CameraState are written by that camera's task     *)
(* alone, so one task, Self, is modelled in full.  The other tasks meet it *)
(* only in the shared window: they note themselves and check at any time.  *)
(*                                                                         *)
(* A time stamp is modelled by its age.  Sending and fetching take time,   *)
(* so Tick runs between any two steps.  What other tasks may change at any *)
(* moment (mute, subscribers, quiet hours, the resolved snapshot URI) is   *)
(* an input of each step that reads it.                                    *)
(***************************************************************************)
EXTENDS Integers

CONSTANTS
    Self,           \* the camera whose task is modelled
    Others,         \* the other cameras
    Cooldown,       \* safeAlertCooldownMs, in ticks
    Window,         \* MULTI_CAMERA_DIGEST_WINDOW_MS, in ticks
    MaxAge,         \* bound: an age stops growing here
    MaxCount        \* bound: suppressedMotionCount stops growing here

ASSUME ConstantsAssumption ==
    /\ Self \notin Others
    /\ Cooldown \in Nat \ {0}
    /\ Window \in Nat \ {0}
    /\ MaxAge \in Nat
    /\ MaxAge > Cooldown
    /\ MaxAge >= Window
    /\ MaxCount \in Nat \ {0}

VARIABLES
    pc,         \* where the task is in its pass
    fired,      \* events of the pull that remain to be handled
    alert,      \* the alert fields of Self's CameraState
    window,     \* g_multiCameraDigestWindowStartMs and g_multiCameraDigestCameras
    wifi,       \* WiFi.status() == WL_CONNECTED
    photo       \* history: age of the motion or pet alert last sent, and whether
                \* quiet hours withheld a later one

vars == <<pc, fired, alert, window, wifi, photo>>

Cameras == Others \cup {Self}
Steps == {"pull", "motion", "note", "tamper", "signal", "digest", "window"}
Events == {"motion", "pet", "tamper", "signal"}
Env == [enabled : BOOLEAN, quiet : BOOLEAN, subscribed : BOOLEAN,
        uri : BOOLEAN, textOnly : BOOLEAN]

Ages == 0..MaxAge
Older(a) == IF a < MaxAge THEN a + 1 ELSE a

Init ==
    /\ pc = "pull"
    /\ fired = {}
    /\ alert = [ever |-> FALSE, since |-> MaxAge, armed |-> FALSE,
                count |-> 0, last |-> MaxAge]
    /\ window = [open |-> FALSE, age |-> 0, cameras |-> {}]
    /\ wifi = TRUE
    /\ photo = [age |-> MaxAge, withheld |-> FALSE]

\* millis() - lastAlert is still below the cooldown.
Cooling == alert.ever /\ alert.since < Cooldown

-----------------------------------------------------------------------------
\* A pass with WiFi up; events may be empty (no pull due, not subscribed, a
\* snapshot in flight, nothing reported).  parseEvents lets motion win over pet.
Pull(events) ==
    /\ pc = "pull"
    /\ wifi
    /\ ~({"motion", "pet"} \subseteq events)
    /\ fired' = events
    /\ pc' = "motion"
    /\ UNCHANGED <<alert, window, wifi, photo>>

IsMotion == "motion" \in fired
MotionOrPet == fired \cap {"motion", "pet"} # {}

\* triggerMotionAlert, the early returns that change nothing: nothing fired,
\* muted, quiet with nothing to capture, nobody subscribed, no snapshot URI.
MotionIgnored(env) ==
    /\ pc = "motion"
    /\ \/ ~MotionOrPet
       \/ ~env.enabled
       \/ ~Cooling /\ env.quiet /\ ~env.uri
       \/ ~Cooling /\ ~env.quiet /\ ~env.subscribed
       \/ ~Cooling /\ ~env.quiet /\ ~env.uri /\ (IsMotion \/ ~env.textOnly)
    /\ pc' = "tamper"
    /\ UNCHANGED <<fired, alert, window, wifi, photo>>

\* triggerMotionAlert within the cooldown: count motion for the digest.
Count(a) ==
    IF a.armed
    THEN [a EXCEPT !.count = IF @ < MaxCount THEN @ + 1 ELSE @, !.last = 0]
    ELSE a

MotionSuppressed(env) ==
    /\ pc = "motion"
    /\ MotionOrPet
    /\ env.enabled
    /\ Cooling
    /\ alert' = IF IsMotion THEN Count(alert) ELSE alert
    /\ pc' = "tamper"
    /\ UNCHANGED <<fired, window, wifi, photo>>

\* triggerMotionAlert in quiet hours: the snapshot is stored, nothing is sent.
QuietLeavingDigest(a) == [a EXCEPT !.since = 0, !.ever = TRUE]
Quieted(a) ==
    [a EXCEPT !.since = 0, !.ever = TRUE, !.armed = FALSE, !.count = 0]

MotionQuiet(env) ==
    /\ pc = "motion"
    /\ MotionOrPet
    /\ env.enabled /\ ~Cooling /\ env.quiet /\ env.uri
    /\ alert' = Quieted(alert)
    /\ photo' = [photo EXCEPT !.withheld = TRUE]
    /\ pc' = "tamper"
    /\ UNCHANGED <<fired, window, wifi>>

\* triggerMotionAlert sending, a photo burst or a pet text.
Sent(a) ==
    [a EXCEPT !.since = 0, !.ever = TRUE, !.armed = TRUE, !.count = 0]

MotionSent(env) ==
    /\ pc = "motion"
    /\ MotionOrPet
    /\ env.enabled /\ ~Cooling /\ ~env.quiet /\ env.subscribed
    /\ env.uri \/ (~IsMotion /\ env.textOnly)
    /\ alert' = Sent(alert)
    /\ photo' = [age |-> 0, withheld |-> FALSE]
    /\ pc' = "note"
    /\ UNCHANGED <<fired, window, wifi>>

\* noteMultiCameraAlert, under the window's mutex; a pet text has been sent to
\* every recipient by now.
Noted(w, c) ==
    [w EXCEPT !.open = TRUE, !.age = IF w.open THEN @ ELSE 0,
              !.cameras = @ \cup {c}]

Note ==
    /\ pc = "note"
    /\ window' = Noted(window, Self)
    /\ pc' = "tamper"
    /\ UNCHANGED <<fired, alert, wifi, photo>>

\* triggerTamperAlert and triggerSignalLossAlert, later in the same pull, both
\* through beginCameraAlert.
Begun(a) == [a EXCEPT !.since = 0, !.ever = TRUE]

CameraAlertIgnoringCooldown(kind, env) ==
    /\ pc = kind
    /\ alert' = IF kind \in fired /\ env.enabled /\ env.subscribed
                THEN Begun(alert) ELSE alert
    /\ pc' = IF kind = "tamper" THEN "signal" ELSE "digest"
    /\ UNCHANGED <<fired, window, wifi, photo>>

CameraAlert(kind, env) ==
    /\ pc = kind
    /\ alert' = IF kind \in fired /\ env.enabled /\ ~Cooling /\ env.subscribed
                THEN Begun(alert) ELSE alert
    /\ pc' = IF kind = "tamper" THEN "signal" ELSE "digest"
    /\ UNCHANGED <<fired, window, wifi, photo>>

\* checkPendingMotionDigest: when the cooldown is over, report and disarm.  The
\* text itself depends on motionDigestEnabled, mute and subscribers; the
\* bookkeeping does not.
DigestDue == alert.armed /\ alert.since >= Cooldown
FlushedButArmed(a) == [a EXCEPT !.count = 0]
Flushed(a) == [a EXCEPT !.armed = FALSE, !.count = 0]

DigestCheck ==
    /\ pc = "digest"
    /\ alert' = IF DigestDue THEN Flushed(alert) ELSE alert
    /\ pc' = "window"
    /\ UNCHANGED <<fired, window, wifi, photo>>

\* checkMultiCameraAlertDigest: any camera's task swaps a full window out.
ClosedKeepingCameras(w) == [w EXCEPT !.open = FALSE, !.age = 0]
Closed(w) == [open |-> FALSE, age |-> 0, cameras |-> {}]

WindowFull == window.open /\ window.age >= Window

WindowCheck ==
    /\ pc = "window"
    /\ window' = IF WindowFull THEN Closed(window) ELSE window
    /\ pc' = "pull"
    /\ fired' = {}
    /\ UNCHANGED <<alert, wifi, photo>>

\* The same two critical sections in the tasks of other cameras.
OthersMeetWindow ==
    /\ \/ \E c \in Others : window' = Noted(window, c)
       \/ WindowFull /\ window' = Closed(window)
    /\ UNCHANGED <<pc, fired, alert, wifi, photo>>

WifiChange ==
    /\ wifi' = ~wifi
    /\ UNCHANGED <<pc, fired, alert, window, photo>>

Tick ==
    /\ alert' = [alert EXCEPT !.since = Older(@), !.last = Older(@)]
    /\ window' = [window EXCEPT !.age = IF window.open THEN Older(@) ELSE 0]
    /\ photo' = [photo EXCEPT !.age = Older(@)]
    /\ UNCHANGED <<pc, fired, wifi>>

CameraStep ==
    \/ \E events \in SUBSET Events : Pull(events)
    \/ \E env \in Env :
          \/ MotionIgnored(env)
          \/ MotionSuppressed(env)
          \/ MotionQuiet(env)
          \/ MotionSent(env)
          \/ \E kind \in {"tamper", "signal"} : CameraAlert(kind, env)
    \/ Note
    \/ DigestCheck
    \/ WindowCheck

Next == CameraStep \/ OthersMeetWindow \/ WifiChange \/ Tick

Spec == Init /\ [][Next]_vars

\* FreeRTOS keeps scheduling the task and every call in a pass is bounded; time
\* passes.  Nothing is assumed of the other cameras' tasks.
FairSpec == Spec /\ WF_vars(Tick) /\ WF_vars(CameraStep)

-----------------------------------------------------------------------------
TypeOK ==
    /\ pc \in Steps
    /\ fired \subseteq Events
    /\ alert \in [ever : BOOLEAN, since : Ages, armed : BOOLEAN,
                  count : 0..MaxCount, last : Ages]
    /\ window \in [open : BOOLEAN, age : Ages, cameras : SUBSET Cameras]
    /\ wifi \in BOOLEAN
    /\ photo \in [age : Ages, withheld : BOOLEAN]

\* Alerts of one camera, of whatever kind, sent or withheld by quiet hours, are
\* at least a cooldown apart, also when one pull reports several.
CooldownSpacing ==
    [][alert'.since < alert.since => ~alert.ever \/ alert.since >= Cooldown]_vars

\* Motion is counted towards a digest only between the alert that armed it and
\* the flush: outside there is nothing a later cycle could report a second time.
DisarmedCountsNothing ==
    ~alert.armed => alert.count = 0

\* The digest follows an alert somebody received, not one quiet hours withheld,
\* and counts only motion seen since that alert.
DigestFollowsAlert ==
    alert.armed =>
        /\ ~photo.withheld
        /\ alert.count > 0 => alert.last <= photo.age

\* The shared window is open exactly while it holds a camera, whatever order
\* the tasks note and check in.
WindowHoldsCameras == window.open <=> window.cameras # {}

\* With WiFi up for good, an armed digest is flushed, or a new alert starts the
\* next cycle.
DigestCycleEnds ==
    <>[]wifi =>
        (alert.armed /\ alert.since > 0) ~> (~alert.armed \/ alert.since = 0)

=============================================================================
