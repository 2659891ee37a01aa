---------------------------- MODULE AlertControl ----------------------------
(***************************************************************************)
(* Muting one camera: /on, /off and their timers in                        *)
(* src/telegram_commands.cpp (loop()'s task), Mute all and Unmute all of   *)
(* the dashboard (the web server's task), and the saved preference that    *)
(* spawnCameraTask reads back after a reboot, and whenever the camera is   *)
(* enabled again on the running board.  The RAM fields are written under   *)
(* the camera's lock, the preference outside it, so the two tasks' write   *)
(* and save steps interleave; a save may be refused, unnoticed.            *)
(*                                                                         *)
(* A command over all cameras visits them one after the other, with other  *)
(* work before and after each: seen from one camera it is the same write   *)
(* and save.  A timer is modelled by the time left.                        *)
(***************************************************************************)
EXTENDS Integers

CONSTANT MaxDelay   \* bound: the longest timer, in ticks

ASSUME DelayAssumption == MaxDelay \in Nat \ {0}

VARIABLES
    camera,     \* CameraState: alertsEnabled and scheduledRevert*
    pref,       \* the saved preference, "c<index>" in namespace camctl
    task,       \* what loop() and the web server are in the middle of
    contended,  \* history: the last write of alertsEnabled came while the
                \* other task had yet to save its own
    lost,       \* history: the last save was refused, with no write since
    asked,      \* history: the state and the timer the last command asked for
    overtaken   \* history: the last command came while a due timer, read, was
                \* about to be carried out

alertVars == <<camera, pref, task, contended, lost, asked, overtaken>>

Writers == {"loop", "web"}
Other(t) == IF t = "loop" THEN "web" ELSE "loop"
Idle == [step |-> "idle", on |-> FALSE]

\* scheduledRevertDueMs = 0 is ~pending; due is pending with nothing left.
Timers == {[pending |-> FALSE, left |-> 0]}
              \cup [pending : {TRUE}, left : 1..MaxDelay]
NoTimer == [pending |-> FALSE, left |-> 0]

Asked(on, timer) == [on |-> on, limited |-> timer.pending, left |-> timer.left, after |-> ~on]

\* setup() or a live add: spawnCameraTask has read the preference.
AlertInit ==
    /\ pref \in BOOLEAN
    /\ camera = [enabled |-> pref, timer |-> NoTimer, toOn |-> FALSE]
    /\ task = [t \in Writers |-> Idle]
    /\ contended = FALSE
    /\ lost = FALSE
    /\ asked = Asked(pref, NoTimer)
    /\ overtaken = FALSE

-----------------------------------------------------------------------------
\* The fields a command leaves: a new command replaces any pending timer.
CommandedKeepingTimer(c, on, timer) ==
    [c EXCEPT !.enabled = on, !.timer = IF timer.pending THEN timer ELSE @]
Commanded(c, on, timer) == [enabled |-> on, timer |-> timer, toOn |-> ~on]

\* applyOnOffToCamera and setAllCamerasAlertState up to the end of the locked
\* block; the dashboard's Unmute all takes no duration.
Command(t, on, timer) ==
    /\ task[t].step = "idle"
    /\ t = "web" /\ on => timer = NoTimer
    /\ camera' = Commanded(camera, on, timer)
    /\ task' = [task EXCEPT ![t] = [step |-> "save", on |-> on]]
    /\ contended' = (task[Other(t)].step = "save")
    /\ lost' = FALSE
    /\ asked' = Asked(on, timer)
    /\ overtaken' = (task["loop"].step = "revert")
    /\ UNCHANGED pref

\* saveAlertEnabledPref, then the reply; the result of putBool is not looked at.
SaveOpposite(t) == ~task[t].on
Saved(t) == task[t].on

Save(t, stored) ==
    /\ task[t].step = "save"
    /\ pref' = IF stored THEN Saved(t) ELSE pref
    /\ lost' = ~stored
    /\ task' = [task EXCEPT ![t] = Idle]
    /\ UNCHANGED <<camera, contended, asked, overtaken>>

\* checkScheduledAlertReverts reads the timer under the lock...
RevertRead ==
    /\ task["loop"].step = "idle"
    /\ camera.timer.pending /\ camera.timer.left = 0
    /\ task' = [task EXCEPT !["loop"] = [step |-> "revert", on |-> camera.toOn]]
    /\ UNCHANGED <<camera, pref, contended, lost, asked, overtaken>>

\* ...and takes the lock again to carry out what it read.
Reverted(c, on) == [c EXCEPT !.enabled = on, !.timer = NoTimer]

RevertWrite ==
    /\ task["loop"].step = "revert"
    /\ camera' = Reverted(camera, task["loop"].on)
    /\ task' = [task EXCEPT !["loop"].step = "save"]
    /\ contended' = (task["web"].step = "save")
    /\ lost' = FALSE
    /\ UNCHANGED <<pref, asked, overtaken>>

Sooner(n) == IF n > 0 THEN n - 1 ELSE 0

Tick ==
    /\ camera.timer.left > 0 \/ asked.left > 0
    /\ camera' = [camera EXCEPT !.timer.left = Sooner(@)]
    /\ asked' = [asked EXCEPT !.left = Sooner(@)]
    /\ UNCHANGED <<pref, task, contended, lost, overtaken>>

\* The dashboard enables the camera again: spawnCameraTask takes the preference
\* over under the lock and leaves the timer, which has gone on, as it is.
Respawn ==
    /\ task["web"].step = "idle"
    /\ camera' = [camera EXCEPT !.enabled = pref]
    /\ contended' = (task["loop"].step = "save")
    /\ lost' = FALSE
    /\ asked' = [asked EXCEPT !.on = pref]
    /\ UNCHANGED <<pref, task, overtaken>>

\* Timers are not persisted; spawnCameraTask restores alertsEnabled.
Restart ==
    /\ camera' = [enabled |-> pref, timer |-> NoTimer, toOn |-> FALSE]
    /\ task' = [t \in Writers |-> Idle]
    /\ contended' = FALSE
    /\ lost' = FALSE
    /\ asked' = Asked(pref, NoTimer)
    /\ overtaken' = FALSE
    /\ UNCHANGED pref

AlertNext ==
    \/ \E t \in Writers :
          \/ \E on \in BOOLEAN, timer \in Timers : Command(t, on, timer)
          \/ \E stored \in BOOLEAN : Save(t, stored)
    \/ RevertRead
    \/ RevertWrite
    \/ Tick
    \/ Respawn
    \/ Restart

AlertSpec == AlertInit /\ [][AlertNext]_alertVars

-----------------------------------------------------------------------------
TypeOK ==
    /\ camera \in [enabled : BOOLEAN, toOn : BOOLEAN,
                   timer : [pending : BOOLEAN, left : 0..MaxDelay]]
    /\ pref \in BOOLEAN
    /\ task \in [Writers -> [step : {"idle", "save", "revert"}, on : BOOLEAN]]
    /\ contended \in BOOLEAN
    /\ lost \in BOOLEAN
    /\ asked \in [on : BOOLEAN, limited : BOOLEAN, left : 0..MaxDelay, after : BOOLEAN]
    /\ overtaken \in BOOLEAN

\* A command stands until the next one: the camera is as the last command left it
\* (or as the preference was when the task was spawned since), or as that
\* command's own timer leaves it once it ran out.  No older command's timer ends
\* it, whichever tasks the commands came from, unless that timer had been read as
\* due when the command came.
CommandStands ==
    ~overtaken =>
        \/ camera.enabled = asked.on
        \/ asked.limited /\ asked.left = 0 /\ camera.enabled = asked.after

\* A mute survives a reboot: unless two commands (or a command and a re-enabling)
\* overlapped or a save was refused, the preference is the state in RAM, or lags
\* it by the one command whose save is still to come, so a reboot in between
\* restores a state the camera had.
PrefLagsOneCommand ==
    ~contended /\ ~lost /\ pref # camera.enabled =>
        \E t \in Writers : task[t].step = "save" /\ task[t].on = camera.enabled

=============================================================================
