---------------------------- MODULE SnapshotStore ----------------------------
(***************************************************************************)
(* The snapshot history: the SD card (src/sd_store.cpp with the rules of   *)
(* lib/snapshot_storage), the PSRAM ring it falls back to                  *)
(* (src/snapshot_history.cpp), and the tasks that use them: a task per     *)
(* camera, the web server's gallery and its erase job, and loop() with the *)
(* retention sweep.                                                        *)
(*                                                                         *)
(* g_sdMutex serialises the work on the card, so it is one step; only a    *)
(* write has two, because a reset may fall between them.  What is read     *)
(* before the mutex is taken, and what is done after it is given back, are *)
(* steps of their own.  The tree of folders is left out, since every       *)
(* operation looks files up at any depth.  Time is counted in units that   *)
(* names can tell apart.                                                   *)
(***************************************************************************)
EXTENDS Integers, Sequences, FiniteSets, SequencesExt

CONSTANTS
    Cameras,        \* the cameras
    Gone,           \* the name of one that was renamed or deleted
    Card,           \* SD.totalBytes()
    Reserve,        \* SD_FREE_SPACE_RESERVE_BYTES
    Smallest, Largest, \* the sizes that photos have
    Cap,            \* SD_MAX_FILES_PER_CAMERA
    PruneMax,       \* SD_PRUNE_MAX_FILES_PER_WRITE
    RingSize,       \* SNAPSHOT_HISTORY_SIZE
    GlobalDays,     \* the global retention, in units of time
    Before,         \* how many photos an earlier boot left of a camera
    MaxOnCard,      \* bound: photos taken while SD is active
    MaxPhotos,      \* bound: photos taken
    MaxTime,        \* bound: the time
    MaxFaults       \* bound: resets, I/O errors, allocations that fail

ASSUME StoreAssumption ==
    /\ {Card, Reserve, Cap, PruneMax, RingSize, Smallest, Largest} \subseteq Nat \ {0}
    /\ {GlobalDays, Before, MaxOnCard, MaxPhotos, MaxTime, MaxFaults} \subseteq Nat
    /\ IsFiniteSet(Cameras) /\ Gone \notin Cameras
    /\ {"viewer", "loop"} \cap Cameras = {}
    /\ Smallest <= Largest /\ Reserve <= Card
    /\ Before <= Cap

VARIABLES
    files,      \* the photos on the card
    sdOn,       \* sdActive()
    bootCheck,  \* g_lastBootCheckResult.unreadableFiles, None when it did not run
    ring,       \* per camera: CameraState::snapshotHistory with its Next and Count
    ownDays,    \* per camera: CameraConfig::retentionDays
    clock,      \* the time, and whether the clock has been set
    job,        \* per task, what it is in the middle of
    photos,     \* history: photos taken
    pushed,     \* history: per camera, the photos given to the ring
    faults,     \* history: resets and other faults so far
    setBack     \* history: the clock was set back, or lost by a reset

vars == <<files, sdOn, bootCheck, ring, ownDays, clock, job, photos, pushed, faults, setBack>>

Tasks == Cameras \cup {"viewer", "loop"}
None == -1
Idle == [pc |-> "idle"]
EmptyRing == [jpg |-> [i \in 0..(RingSize - 1) |-> 0], next |-> 0, count |-> 0]

\* A photo's name carries the local time and orders photos by it, those named
\* before the clock was set first.  What follows the time orders those of one
\* unit arbitrarily: an unpadded millis(), which a reset starts again.  size
\* is that of the photo, kept what of it is on the card.
Photo(c, id, size) ==
    [camera |-> c, id |-> id, time |-> IF clock.set THEN clock.time ELSE None,
     size |-> size, kept |-> 0]

\* The space that photos take on the card, unit by unit.
Units(S) == {u \in S \X (1..Largest) : u[2] <= u[1].kept}
Bytes(S) == Cardinality(Units(S))
Free == Card - Bytes(files)

\* Photos of a camera that is gone: nothing but Erase all deletes them.
Orphans ==
    {[camera |-> Gone, id |-> -i, time |-> None, size |-> 1, kept |-> 1] : i \in 1..(Card - Reserve)}

\* Small ones of a camera, taken at an earlier boot before the clock was set.
Left(c) ==
    {[camera |-> c, id |-> -i, time |-> None, size |-> Smallest, kept |-> Smallest] :
        i \in 1..Before}

Init ==
    /\ sdOn = TRUE /\ bootCheck = None
    /\ ring = [c \in Cameras |-> EmptyRing]
    /\ \E own \in Cameras :
        /\ files \in {{}, Orphans, Left(own)} /\ Free >= Reserve
        /\ ownDays = [c \in Cameras |-> IF c = own THEN GlobalDays + 1 ELSE 0]
    /\ clock = [time |-> 0, set |-> FALSE]
    /\ job = [t \in Tasks |-> Idle]
    /\ photos = 0 /\ faults = 0 /\ setBack = FALSE
    /\ pushed = [c \in Cameras |-> <<>>]

----------------------------------------------------------------------------
(***************************************************************************)
(* The mutex, failures                                                     *)
(***************************************************************************)
MutexFree == \A t \in Tasks : job[t].pc # "writing"

Faults(n) ==
    /\ faults + n <= MaxFaults
    /\ faults' = faults + n
Fault == Faults(1)

Goes(t, next) == job' = [job EXCEPT ![t] = next]

\* markSdFailed, after the mutex is given back.
MarkFailed(t) ==
    /\ job[t].pc = "failed"
    /\ sdOn' = FALSE
    /\ Goes(t, Idle)
    /\ UNCHANGED <<files, bootCheck, ring, ownDays, clock, photos, pushed, faults, setBack>>

----------------------------------------------------------------------------
(***************************************************************************)
(* Taking a photo                                                          *)
(***************************************************************************)
Of(c) == {f \in files : f.camera = c}

AtMost(n, limit) == IF n > limit THEN limit ELSE n
AtLeast(n, limit) == IF n < limit THEN limit ELSE n

\* Those of S that a list by name may begin with, and one it may end with.
FirstByName(drop, S) == \A f \in drop, g \in S \ drop : f.time <= g.time
LastByName(f, drop) == \A g \in drop : g.time <= f.time

\* What the cap alone asks a camera to delete.
OverCap(c) == AtMost(AtLeast(Cardinality(Of(c)) - Cap + 1, 0), PruneMax)

\* Mutant: only the cap counts.
DropsForCap(c, size) ==
    {drop \in SUBSET Of(c) : FirstByName(drop, Of(c)) /\ Cardinality(drop) = OverCap(c)}

\* The photos of its own a camera may delete before it adds one of this size:
\* oldest first by name, as many as the cap asks for, and more until there is
\* room for the photo beside the reserve, but PruneMax at most.
Drops(c, size) ==
    {drop \in SUBSET Of(c) :
        LET needed == Reserve + size - Free
        IN /\ FirstByName(drop, Of(c))
           /\ Cardinality(drop) \in OverCap(c)..PruneMax
           /\ Bytes(drop) >= needed \/ Cardinality(drop) = PruneMax \/ drop = Of(c)
           /\ Cardinality(drop) > OverCap(c) =>
                \E f \in drop : LastByName(f, drop) /\ Bytes(drop \ {f}) < needed}

RingPush(r, id) ==
    [jpg |-> [r.jpg EXCEPT ![r.next] = id],
     next |-> (r.next + 1) % RingSize,
     count |-> AtMost(r.count + 1, RingSize)]

\* pushCameraSnapshot: to the card when it is active, else to the ring, which
\* leaves a photo out when PSRAM is low.
Snapshot(c) ==
    /\ job[c].pc = "idle" /\ photos < IF sdOn THEN MaxOnCard ELSE MaxPhotos
    /\ photos' = photos + 1
    /\ IF sdOn
       THEN /\ Goes(c, [pc |-> "write", id |-> photos + 1])
            /\ UNCHANGED <<ring, pushed, faults>>
       ELSE /\ UNCHANGED job
            /\ \/ /\ ring' = [ring EXCEPT ![c] = RingPush(@, photos + 1)]
                  /\ pushed' = [pushed EXCEPT ![c] = Append(@, photos + 1)]
                  /\ UNCHANGED faults
               \/ /\ Fault
                  /\ UNCHANGED <<ring, pushed>>
    /\ UNCHANGED <<files, sdOn, bootCheck, ownDays, clock, setBack>>

\* A deletion that fails is passed over; a folder or file that cannot be made
\* fails the write.
OpenFile(c) ==
    /\ job[c].pc = "write" /\ MutexFree
    /\ \E size \in Smallest..Largest :
       LET photo == Photo(c, job[c].id, size)
       IN \E drop \in Drops(c, size) :
            \/ /\ files' = (files \ drop) \cup {photo}
               /\ Goes(c, [pc |-> "writing", photo |-> photo])
               /\ UNCHANGED faults
            \/ /\ Fault
               /\ \E left \in drop : files' = (files \ (drop \ {left})) \cup {photo}
               /\ Goes(c, [pc |-> "writing", photo |-> photo])
            \/ /\ Fault
               /\ files' \in {files, files \ drop}
               /\ Goes(c, [pc |-> "failed"])
    /\ UNCHANGED <<sdOn, bootCheck, ring, ownDays, clock, photos, pushed, setBack>>

Stored(f, kept) == (files \ {f}) \cup {[f EXCEPT !.kept = kept]}

AfterShortWrite(f) == files \ {f}

\* The card may be full, which is no fault; a short write is removed, unless
\* that fails too.
CloseFile(c) ==
    /\ job[c].pc = "writing"
    /\ LET f == job[c].photo
           fits == f.size <= Free
       IN \/ /\ fits
             /\ files' = Stored(f, f.size)
             /\ Goes(c, Idle)
             /\ UNCHANGED faults
          \/ /\ Faults(IF fits THEN 1 ELSE 0)
             /\ files' = AfterShortWrite(f)
             /\ Goes(c, [pc |-> "failed"])
          \/ /\ Faults(IF fits THEN 2 ELSE 1)
             /\ \E kept \in 0..AtMost(f.size - 1, Free) : files' = Stored(f, kept)
             /\ Goes(c, [pc |-> "failed"])
    /\ UNCHANGED <<sdOn, bootCheck, ring, ownDays, clock, photos, pushed, setBack>>

----------------------------------------------------------------------------
(***************************************************************************)
(* Looking at photos                                                       *)
(***************************************************************************)
\* The orders, newest first, in which a listing may give a camera's photos.
NewestFirst(c) ==
    {s \in SetToSeqs(Of(c)) :
        \A i, j \in DOMAIN s : i < j => s[i].time >= s[j].time}

\* The ring's slot of an age.
RingIndex(r, age) == (r.next + RingSize - 1 - age) % RingSize

\* Mutant: the ring is read from the slot written next.
RingReadFromNext(r, age) == r.jpg[(r.next + RingSize - age) % RingSize]

RingRead(r, age) == r.jpg[RingIndex(r, age)]

\* The gallery shows one thumbnail for each photo there is; those of the ring
\* are read without any effect.
ShowGallery(c) ==
    /\ job["viewer"].pc = "idle" /\ sdOn
    /\ \E age \in 0..(Cardinality(Of(c)) - 1) :
        Goes("viewer", [pc |-> "ask", camera |-> c, age |-> age])
    /\ UNCHANGED <<files, sdOn, bootCheck, ring, ownDays, clock, photos, pushed, faults, setBack>>

\* Mutant: an age past the end reads as a file that cannot be opened.
MissingUnchecked(age, listing) == FALSE

Missing(age, listing) == age >= Len(listing)

\* A thumbnail asks for its photo by age, perhaps after SD was given up: the
\* look at sdActive() comes before the mutex.  An empty file has no buffer to be
\* read into, which counts as a failure.
ReadPhoto ==
    /\ job["viewer"].pc = "ask" /\ MutexFree
    /\ \E listing \in NewestFirst(job["viewer"].camera) :
        LET age == job["viewer"].age
            readable == age < Len(listing) /\ listing[age + 1].kept > 0
        IN \/ /\ Missing(age, listing) \/ readable
              /\ Goes("viewer", Idle)
              /\ UNCHANGED faults
           \/ /\ ~Missing(age, listing)
              /\ Faults(IF readable THEN 1 ELSE 0)
              /\ Goes("viewer", [pc |-> "failed"])
    /\ UNCHANGED <<files, sdOn, bootCheck, ring, ownDays, clock, photos, pushed, setBack>>

----------------------------------------------------------------------------
(***************************************************************************)
(* Erasing, retention, the activity log                                    *)
(***************************************************************************)
EraseAll ==
    /\ sdOn /\ MutexFree
    /\ \/ files' = {} /\ UNCHANGED faults
       \/ Fault /\ \E f \in files : files' = {f}
    /\ UNCHANGED <<sdOn, bootCheck, ring, ownDays, clock, job, photos, pushed, setBack>>

EffectiveDays(c) == IF ownDays[c] # 0 THEN ownDays[c] ELSE GlobalDays

\* Mutant: the cutoff's day goes too.
ExpiredEarly(f, today) ==
    EffectiveDays(f.camera) # 0 /\ f.time <= today - EffectiveDays(f.camera)

\* What was named before the clock was set is dated 1970.
Expired(f, today) ==
    /\ EffectiveDays(f.camera) # 0
    /\ f.time = None \/ f.time < today - EffectiveDays(f.camera)

\* The sweep reads the time once, then takes the mutex for each camera.  One by
\* a clock that is not set, in 1970, finds nothing older.
BeginSweep ==
    /\ job["loop"].pc = "idle" /\ sdOn /\ clock.set
    /\ Goes("loop", [pc |-> "sweep", left |-> Cameras, today |-> clock.time])
    /\ UNCHANGED <<files, sdOn, bootCheck, ring, ownDays, clock, photos, pushed, faults, setBack>>

Sweep(c) ==
    /\ job["loop"].pc = "sweep" /\ c \in job["loop"].left /\ MutexFree
    /\ LET due == {f \in Of(c) : Expired(f, job["loop"].today)}
       IN \/ files' = files \ due /\ UNCHANGED faults
          \/ Fault /\ \E f \in due : files' = (files \ due) \cup {f}
    /\ Goes("loop", IF job["loop"].left = {c} THEN Idle
                    ELSE [job["loop"] EXCEPT !.left = @ \ {c}])
    /\ UNCHANGED <<sdOn, bootCheck, ring, ownDays, clock, photos, pushed, setBack>>

\* logEvent appends to the log's file; one that cannot be opened, before or
\* after it is started afresh, turns SD off like any failure.
AppendFails ==
    /\ job["loop"].pc = "idle" /\ sdOn /\ MutexFree
    /\ Fault
    /\ Goes("loop", [pc |-> "failed"])
    /\ UNCHANGED <<files, sdOn, bootCheck, ring, ownDays, clock, photos, pushed, setBack>>

----------------------------------------------------------------------------
(***************************************************************************)
(* Boot and time                                                           *)
(***************************************************************************)
\* Mutant: the oldest file is looked at.
NewestOldest(c) == {f \in Of(c) : FirstByName({f}, Of(c))}

Newest(c) == {f \in Of(c) : LastByName(f, Of(c))}

\* checkNewestSnapshots counts the cameras whose newest file is empty.
Unreadable ==
    LET seen == {c \in Cameras : Of(c) # {}}
    IN {Cardinality({c \in seen : newest[c].kept = 0}) :
            newest \in {n \in [seen -> files] : \A c \in seen : n[c] \in Newest(c)}}

\* A reset, planned or not: waitForSdIdle gives the mutex back before the
\* restart, so a write may be under way after it as well.  setup() mounts the
\* card again, unless that fails, and the clock starts from the RTC or unset.
Reset ==
    /\ Fault
    /\ job' = [t \in Tasks |-> Idle]
    /\ ring' = [c \in Cameras |-> EmptyRing]
    /\ pushed' = [c \in Cameras |-> <<>>]
    /\ sdOn' \in BOOLEAN
    /\ bootCheck' \in IF sdOn' THEN Unreadable ELSE {None}
    /\ \E set \in BOOLEAN :
        /\ clock' = [clock EXCEPT !.set = set]
        /\ setBack' = (setBack \/ (clock.set /\ ~set))
    /\ UNCHANGED <<files, ownDays, photos>>

ClockSet ==
    /\ ~clock.set
    /\ clock' = [clock EXCEPT !.set = TRUE]
    /\ UNCHANGED <<files, sdOn, bootCheck, ring, ownDays, job, photos, pushed, faults, setBack>>

TimePasses ==
    /\ clock.time < MaxTime
    /\ clock' = [clock EXCEPT !.time = @ + 1]
    /\ UNCHANGED <<files, sdOn, bootCheck, ring, ownDays, job, photos, pushed, faults, setBack>>

\* A correction, or the hour that is repeated when summer time ends; once, as
\* a bound.
ClockSetBack ==
    /\ clock.set /\ clock.time > 0 /\ ~setBack
    /\ clock' = [clock EXCEPT !.time = @ - 1]
    /\ setBack' = TRUE
    /\ UNCHANGED <<files, sdOn, bootCheck, ring, ownDays, job, photos, pushed, faults>>

Next ==
    \/ \E c \in Cameras : Snapshot(c) \/ OpenFile(c) \/ CloseFile(c)
                          \/ ShowGallery(c) \/ Sweep(c)
    \/ \E t \in Tasks : MarkFailed(t)
    \/ ReadPhoto \/ EraseAll \/ BeginSweep \/ AppendFails
    \/ Reset \/ ClockSet \/ TimePasses \/ ClockSetBack

\* The cameras are interchangeable.
CameraSymmetry == Permutations(Cameras)

Spec == Init /\ [][Next]_vars

----------------------------------------------------------------------------
(***************************************************************************)
(* Properties                                                              *)
(***************************************************************************)

\* A camera that deletes as many photos as it may makes room for one: the
\* smallest are not that much smaller than the largest.
SizesAlike == Largest <= PruneMax * Smallest

\* Photos stay within each camera's cap; and if SizesAlike, the cameras together
\* leave the reserve but for the largest photo of each, even when the photos of
\* a camera that is gone hold all the rest of the card.  Every fault may cost one
\* photo more (ensureDirAndPrune deletes only the writer's own files).
CardBounded ==
    /\ \A c \in Cameras : Cardinality(Of(c)) <= Cap + faults
    /\ SizesAlike =>
        Free >= Reserve - Largest * (Cardinality({c \in Cameras : Of(c) # {}}) + faults)

\* A camera loses no photo while it keeps one that is named earlier, which was
\* taken earlier unless the clock was set back, or lost, or could not tell them
\* apart; and a sweep takes none within its retention that was named by a clock
\* that was set, whatever its own or the global setting (ensureDirAndPrune,
\* enforceSnapshotRetention).
DeletionsAreOld ==
    [][\A f \in files : (f \notin files' /\ f.kept > 0 /\ faults' = faults) =>
         /\ \A g \in files \cap files' : g.camera = f.camera =>
                f.time <= g.time /\ (~setBack => f.time = g.time \/ f.id < g.id)
         /\ job["loop"] # job'["loop"] /\ ~setBack /\ f.time # None =>
                f.time < clock.time - EffectiveDays(f.camera)]_vars

\* SD is given up only after a fault, although the photos change between the
\* listing of the gallery and the request for one of them by its age, and
\* between the look at sdActive() and the mutex; and no write finds the card
\* full, if SizesAlike and the reserve holds a photo of each camera
\* (readSdSnapshot, writeSdSnapshot).
OffOnlyByFault ==
    SizesAlike /\ Largest * Cardinality(Cameras) <= Reserve => sdOn \/ faults > 0

\* The boot check, which opens one file per camera, reports what a reset cut
\* short: unless the clock was set back, or lost, or its camera has another photo
\* of the same time, it is the last by name (checkNewestSnapshots).
BootSeesCut ==
    [][(Reset /\ sdOn' /\ ~setBack) =>
         ((\E c \in Cameras : /\ job[c].pc = "writing"
                              /\ \A g \in Of(c) \ {job[c].photo} : g.time # job[c].photo.time)
             => bootCheck' > 0)]_vars

\* The ring gives back the last photos it was given, newest first, whatever
\* slot it wraps at (pushRamSnapshot, readRamSnapshot).
RingKeepsNewest ==
    \A c \in Cameras :
        /\ ring[c].count = AtMost(Len(pushed[c]), RingSize)
        /\ \A age \in 0..(ring[c].count - 1) :
            RingRead(ring[c], age) = pushed[c][Len(pushed[c]) - age]
=============================================================================
