---------------------------- MODULE LiveCameras -----------------------------
(***************************************************************************)
(* Cameras added, edited, disabled and deleted in the dashboard while the  *)
(* board runs (src/webserver_cameras.cpp, src/camera_tasks.cpp, the top of *)
(* cameraTaskFn in src/camera.cpp).  Three kinds of task take part:        *)
(*   - the web server saves to NVS, then stages a configuration or a stop  *)
(*     request in the camera's slot, or starts a task for it;              *)
(*   - loop() alone appends slots, from the one-camera hand-over;          *)
(*   - a camera task applies what is staged for its slot, alone writes the *)
(*     slot's configuration, and exits on a stop.                          *)
(*                                                                         *)
(* A configuration is what decides monitoring: "on", "off" (disabled), or  *)
(* "no_login" (enabled without credentials).  Renames are not modelled.    *)
(***************************************************************************)
EXTENDS Integers, Sequences, SequencesExt

CONSTANTS
    Names,
    MaxCameras,     \* MAX_CAMERAS, the capacity reserved in setup()
    MaxTasks        \* bound: tasks a slot may have at once

ASSUME ConstantsAssumption ==
    /\ IsFiniteSet(Names) /\ "none" \notin Names
    /\ MaxCameras \in Nat
    /\ MaxTasks \in Nat \ {0}

VARIABLES
    saved,      \* NVS: the stored configuration of each name, or "absent"
    live,       \* g_cameras and g_cameraStates, index-aligned
    staged,     \* g_pendingNewCamera
    adding,     \* the camera loop() has taken from staged and not yet appended
    web,        \* the save the web server is in the middle of
    orderly,    \* history: since boot, each request came when all was settled
                \* and reached the store, and no name was added that has a slot
    told        \* history: names whose user was told it is not monitored

vars == <<saved, live, staged, adding, web, orderly, told>>

Configs == {"on", "off", "no_login"}
Enabled(config) == config \in {"on", "no_login"}
Camera == [name : Names, cfg : Configs]
NoCamera == [name |-> "none", cfg |-> "off"]
WebIdle == [step |-> "idle", slot |-> 0, was |-> FALSE, cfg |-> "off"]

\* A slot as boot or a live add leaves it, with the number of its tasks that
\* have been created and not yet reached their loop, and of those that have.
Slot(camera, tasks) ==
    [name |-> camera.name, cfg |-> camera.cfg, pending |-> "none",
     stop |-> FALSE, starting |-> tasks, running |-> 0]

\* setup(): a slot per stored camera, a task for each enabled one.
Boot(store) ==
    LET stored == SetToSeq({n \in Names : store[n] # "absent"})
    IN  [i \in DOMAIN stored |->
            Slot([name |-> stored[i], cfg |-> store[stored[i]]],
                 IF Enabled(store[stored[i]]) THEN 1 ELSE 0)]

Init ==
    /\ saved \in [Names -> {"absent", "on", "off"}]
    /\ live = Boot(saved)
    /\ staged = NoCamera
    /\ adding = NoCamera
    /\ web = WebIdle
    /\ orderly = TRUE
    /\ told = {}

SlotsOf(n) == {i \in DOMAIN live : live[i].name = n}
Settled ==
    /\ staged = NoCamera /\ adding = NoCamera /\ web = WebIdle
    /\ \A i \in DOMAIN live :
          /\ live[i].starting = 0
          /\ \/ live[i].pending = "none" /\ ~live[i].stop
             \/ live[i].name \in told

-----------------------------------------------------------------------------
\* spawnCameraTask; without memory for the task only the message goes out.
Spawned(slot, created) ==
    IF created THEN [slot EXCEPT !.starting = @ + 1] ELSE slot
ToldUnless(created, n) == IF created THEN told ELSE told \cup {n}

\* A save the store refuses ends the request there, with a message: no step.
\*
\* saveCameraSubmission for a new camera: addCamera, then stagePendingNewCamera
\* with its unlocked look at the number of slots.
WebAdd(n, cfg) ==
    /\ web = WebIdle
    /\ saved[n] = "absent"
    /\ saved' = [saved EXCEPT ![n] = cfg]
    /\ staged' = IF Len(live) < MaxCameras THEN [name |-> n, cfg |-> cfg] ELSE staged
    /\ orderly' = (orderly /\ Settled /\ SlotsOf(n) = {})
    /\ told' = IF Len(live) < MaxCameras THEN told ELSE told \cup {n}
    /\ UNCHANGED <<live, adding, web>>

\* findLiveCameraIndex: the first slot of that name; 0 for none.
SlotIndex(n) ==
    IF SlotsOf(n) = {} THEN 0
    ELSE CHOOSE i \in SlotsOf(n) : \A j \in SlotsOf(n) : i <= j

\* saveCameraSubmission for a stored camera: what runs is looked up, the store
\* is written (slowly), and the save goes on with what it saw before.
WebEdit(n, cfg) ==
    /\ web = WebIdle
    /\ saved[n] # "absent"
    /\ saved' = [saved EXCEPT ![n] = cfg]
    /\ LET i == SlotIndex(n)
       IN  web' = [step |-> "stage", slot |-> i, cfg |-> cfg,
                   was |-> i # 0 /\ Enabled(live[i].cfg)]
    /\ orderly' = (orderly /\ Settled)
    /\ UNCHANGED <<live, staged, adding, told>>

StagedStarting(slot, created) ==
    Spawned([slot EXCEPT !.pending = web.cfg], created)
Staged(slot, created) ==
    CASE web.was /\ Enabled(web.cfg) -> [slot EXCEPT !.pending = web.cfg]
      [] ~web.was /\ Enabled(web.cfg) ->
            Spawned([slot EXCEPT !.pending = web.cfg], created)
      [] web.was /\ ~Enabled(web.cfg) -> [slot EXCEPT !.stop = TRUE]
      [] OTHER -> slot

WebStage(created) ==
    /\ web.step = "stage"
    /\ created /\ web.slot # 0 =>
          live[web.slot].starting + live[web.slot].running < MaxTasks
    /\ IF web.slot = 0 THEN UNCHANGED <<live, told>>
       ELSE /\ live' = [live EXCEPT ![web.slot] = Staged(@, created)]
            /\ told' = IF ~web.was /\ Enabled(web.cfg)
                       THEN ToldUnless(created, live[web.slot].name) ELSE told
    /\ web' = WebIdle
    /\ UNCHANGED <<saved, staged, adding, orderly>>

\* /delete: stopLiveCameraIfRunning, then deleteCamera, whose failure nobody
\* looks at.
Stopping(slot) == [slot EXCEPT !.stop = TRUE]
WebDelete(n, stored) ==
    /\ web = WebIdle
    /\ saved[n] # "absent"
    /\ saved' = [saved EXCEPT ![n] = IF stored THEN "absent" ELSE @]
    /\ LET i == SlotIndex(n)
       IN  live' = IF i # 0 /\ Enabled(live[i].cfg)
                   THEN [live EXCEPT ![i] = Stopping(@)] ELSE live
    /\ orderly' = (orderly /\ Settled /\ stored)
    /\ UNCHANGED <<staged, adding, web, told>>

\* applyQuietHoursToAllCameras and its siblings: every stored camera that is
\* running gets its stored configuration staged again.
WebEditAll ==
    /\ web = WebIdle
    /\ live' = [i \in DOMAIN live |->
                  IF /\ saved[live[i].name] # "absent"
                     /\ i = SlotIndex(live[i].name)
                     /\ Enabled(live[i].cfg)
                  THEN [live[i] EXCEPT !.pending = saved[live[i].name]]
                  ELSE live[i]]
    /\ orderly' = (orderly /\ Settled)
    /\ UNCHANGED <<saved, staged, adding, web, told>>

\* applyPendingNewCameraIfAny takes the hand-over slot under its mutex...
TakeNew ==
    /\ adding = NoCamera
    /\ staged # NoCamera
    /\ adding' = staged
    /\ staged' = NoCamera
    /\ UNCHANGED <<saved, live, web, orderly, told>>

\* ...and appends, after checking the reserve again.
Appended(created) ==
    IF Len(live) >= MaxCameras THEN live
    ELSE Append(live, Spawned(Slot(adding, 0), created /\ Enabled(adding.cfg)))

AppendNew(created) ==
    /\ adding # NoCamera
    /\ live' = Appended(created)
    /\ adding' = NoCamera
    /\ told' = IF Enabled(adding.cfg) /\ Len(live) < MaxCameras
               THEN ToldUnless(created, adding.name) ELSE told
    /\ UNCHANGED <<saved, staged, web, orderly>>

\* applyPendingConfigIfAny.
Applied(slot) ==
    IF slot.pending = "none" THEN slot
    ELSE [slot EXCEPT !.cfg = slot.pending, !.pending = "none"]

\* cameraTaskFn up to its loop: the staged configuration, then the credentials.
Started(slot) ==
    LET ready == Applied([slot EXCEPT !.starting = @ - 1])
    IN  IF ready.cfg = "no_login" THEN ready ELSE [ready EXCEPT !.running = @ + 1]

TaskStart(i) ==
    /\ live[i].starting > 0
    /\ live' = [live EXCEPT ![i] = Started(@)]
    /\ told' = IF Applied(live[i]).cfg = "no_login" THEN told \cup {live[i].name} ELSE told
    /\ UNCHANGED <<saved, staged, adding, web, orderly>>

\* The top of its loop: a stop wins over a pending configuration.
StoppedIgnored(slot) == [slot EXCEPT !.stop = FALSE]
Stopped(slot) ==
    [slot EXCEPT !.stop = FALSE, !.cfg = "off", !.running = @ - 1]

TaskStop(i) ==
    /\ live[i].running > 0
    /\ live[i].stop
    /\ live' = [live EXCEPT ![i] = Stopped(@)]
    /\ UNCHANGED <<saved, staged, adding, web, orderly, told>>

TaskReload(i) ==
    /\ live[i].running > 0
    /\ ~live[i].stop
    /\ live[i].pending # "none"
    /\ live' = [live EXCEPT ![i] = Applied(@)]
    /\ told' = IF live[i].pending = "no_login" THEN told \cup {live[i].name} ELSE told
    /\ UNCHANGED <<saved, staged, adding, web, orderly>>

Reboot ==
    /\ live' = Boot(saved)
    /\ staged' = NoCamera
    /\ adding' = NoCamera
    /\ web' = WebIdle
    /\ orderly' = TRUE
    /\ told' = {}
    /\ UNCHANGED saved

Slots == 1..MaxCameras

WebStep ==
    \/ \E n \in Names :
          \/ \E cfg \in Configs : WebAdd(n, cfg) \/ WebEdit(n, cfg)
          \/ \E stored \in BOOLEAN : WebDelete(n, stored)
    \/ WebEditAll

LoopStep == TakeNew \/ \E created \in BOOLEAN : AppendNew(created)

TaskStep(i) == i \in DOMAIN live /\ (TaskStart(i) \/ TaskStop(i) \/ TaskReload(i))

Next ==
    \/ WebStep
    \/ \E created \in BOOLEAN : WebStage(created)
    \/ LoopStep
    \/ \E i \in Slots : TaskStep(i)
    \/ Reboot

Spec == Init /\ [][Next]_vars

\* Every task is scheduled and its blocking calls are bounded.
FairSpec ==
    /\ Spec
    /\ WF_vars(LoopStep)
    /\ WF_vars(\E created \in BOOLEAN : WebStage(created))
    /\ \A i \in Slots : WF_vars(TaskStep(i))

-----------------------------------------------------------------------------
Tasks(n) == {i \in SlotsOf(n) : live[i].starting + live[i].running > 0}

\* No two tasks poll one camera, provided the user lets each change settle and
\* adds no name that has a slot since boot: a deleted camera's slot stays, and a
\* look-up by its name finds it before the one of a camera added again.
OneTaskIfOrderly ==
    orderly => \A n \in Names : \A i, j \in Tasks(n) :
        i = j /\ live[i].starting + live[i].running = 1

\* When all has settled after such changes, the cameras monitored are exactly the
\* stored enabled ones, each with its stored configuration, except those whose
\* user was told otherwise.
MonitoredAsSaved ==
    orderly /\ Settled => \A n \in Names \ told :
        IF saved[n] \in {"absent", "off"}
        THEN Tasks(n) = {}
        ELSE \E i \in SlotsOf(n) : live[i].running = 1 /\ live[i].cfg = saved[n]

\* A camera that is disabled or deleted, and stays so, is at last polled by no
\* task, whatever its task was told or doing before: the stop is not lost on the
\* way from the request over the slot to the task, nor used up without an exit.
DisabledGoesQuiet ==
    \A n \in Names :
        <>[](orderly /\ saved[n] \in {"absent", "off"}) => <>[](Tasks(n) = {})

=============================================================================
