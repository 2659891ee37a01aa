------------------------- MODULE CameraTaskProofs --------------------------
(***************************************************************************)
(* What a camera's own task decides: what it sends (MotionAlerts, for any  *)
(* cooldown, any window and any set of other cameras) and whether it takes *)
(* the camera for gone (CameraContact, for any threshold, delays and       *)
(* timeouts that leave room for each other).  The two specifications share *)
(* no state and no name.                                                   *)
(***************************************************************************)
EXTENDS MotionAlerts, CameraContact, TLAPS

-----------------------------------------------------------------------------
\* MotionAlerts: its invariants are inductive together.
IInv ==
    /\ TypeOK
    /\ DisarmedCountsNothing
    /\ DigestFollowsAlert
    /\ WindowHoldsCameras

AlertRecord == [ever : BOOLEAN, since : Ages, armed : BOOLEAN,
                count : 0..MaxCount, last : Ages]
WindowRecord == [open : BOOLEAN, age : Ages, cameras : SUBSET Cameras]

\* Ages stay within the bound, and growing older keeps their order.
LEMMA OlderAge ==
    ASSUME NEW a \in Ages, NEW b \in Ages, a <= b
    PROVE  /\ Older(a) \in Ages
           /\ Older(a) <= Older(b)
BY ConstantsAssumption DEF Older, Ages

LEMMA AgeZero == 0 \in Ages /\ MaxAge \in Ages
BY ConstantsAssumption DEF Ages

\* The bookkeeping operators keep an alert record well formed.
LEMMA AlertOperators ==
    ASSUME NEW a \in AlertRecord
    PROVE  /\ Count(a) \in AlertRecord
           /\ Quieted(a) \in AlertRecord
           /\ Sent(a) \in AlertRecord
           /\ Begun(a) \in AlertRecord
           /\ Flushed(a) \in AlertRecord
<1>1. 0 \in 0..MaxCount
  BY ConstantsAssumption
<1>2. \A n \in 0..MaxCount : n < MaxCount => n + 1 \in 0..MaxCount
  BY ConstantsAssumption
<1> QED
  BY <1>1, <1>2, AgeZero DEF AlertRecord, Count, Quieted, Sent, Begun, Flushed

\* Noting a camera and swapping the window out keep it well formed, and open
\* exactly while it holds a camera.
LEMMA WindowOperators ==
    ASSUME NEW w \in WindowRecord, NEW c \in Cameras
    PROVE  /\ Noted(w, c) \in WindowRecord
           /\ Noted(w, c).open /\ Noted(w, c).cameras # {}
           /\ Closed(w) \in WindowRecord
           /\ ~Closed(w).open /\ Closed(w).cameras = {}
BY AgeZero DEF WindowRecord, Noted, Closed

\* The bookkeeping holds in every initial state.
LEMMA IInvInit == Init => IInv
BY AgeZero, ConstantsAssumption
   DEF Init, IInv, TypeOK, DisarmedCountsNothing, DigestFollowsAlert,
       WindowHoldsCameras, Steps

\* Every step of the task, of the other cameras and of the clock keeps it.
LEMMA IInvStep == IInv /\ [Next]_vars => IInv'
<1> SUFFICES ASSUME IInv, [Next]_vars PROVE IInv'
  OBVIOUS
<1> USE DEF IInv
<1>0. alert \in AlertRecord /\ window \in WindowRecord
  BY DEF TypeOK, AlertRecord, WindowRecord
<1>1. ASSUME NEW events \in SUBSET Events, Pull(events) PROVE IInv'
  BY <1>1 DEF Pull, TypeOK, DisarmedCountsNothing, DigestFollowsAlert,
              WindowHoldsCameras, Steps
<1>2. ASSUME NEW env \in Env, MotionIgnored(env) PROVE IInv'
  BY <1>2 DEF MotionIgnored, TypeOK, DisarmedCountsNothing, DigestFollowsAlert,
              WindowHoldsCameras, Steps
<1>3. ASSUME NEW env \in Env, MotionSuppressed(env) PROVE IInv'
  <2>1. alert' \in AlertRecord /\ (alert' = alert \/ alert' = Count(alert))
    BY <1>3, <1>0, AlertOperators DEF MotionSuppressed
  <2>2. TypeOK'
    BY <1>3, <2>1 DEF MotionSuppressed, TypeOK, AlertRecord, Steps
  <2>3. photo.age \in Nat
    BY DEF TypeOK, Ages
  <2>4. DisarmedCountsNothing'
    BY <2>1, <1>0 DEF DisarmedCountsNothing, Count, AlertRecord
  <2>5. DigestFollowsAlert'
    BY <1>3, <2>1, <2>3, <1>0 DEF MotionSuppressed, DigestFollowsAlert, Count, AlertRecord
  <2>6. WindowHoldsCameras'
    BY <1>3 DEF MotionSuppressed, WindowHoldsCameras
  <2> QED BY <2>2, <2>4, <2>5, <2>6
<1>4. ASSUME NEW env \in Env, MotionQuiet(env) PROVE IInv'
  <2>1. alert' = Quieted(alert) /\ alert' \in AlertRecord
    BY <1>4, <1>0, AlertOperators DEF MotionQuiet
  <2>2. TypeOK'
    BY <1>4, <2>1 DEF MotionQuiet, TypeOK, AlertRecord, Steps
  <2>3. DisarmedCountsNothing' /\ DigestFollowsAlert'
    BY <2>1, <1>0 DEF DisarmedCountsNothing, DigestFollowsAlert, Quieted, AlertRecord
  <2>4. WindowHoldsCameras'
    BY <1>4 DEF MotionQuiet, WindowHoldsCameras
  <2> QED BY <2>2, <2>3, <2>4
<1>5. ASSUME NEW env \in Env, MotionSent(env) PROVE IInv'
  <2>1. alert' = Sent(alert) /\ alert' \in AlertRecord
    BY <1>5, <1>0, AlertOperators DEF MotionSent
  <2>2. TypeOK'
    BY <1>5, <2>1, AgeZero DEF MotionSent, TypeOK, AlertRecord, Steps
  <2>3. DisarmedCountsNothing' /\ DigestFollowsAlert'
    BY <1>5, <2>1, <1>0
       DEF MotionSent, DisarmedCountsNothing, DigestFollowsAlert, Sent, AlertRecord
  <2>4. WindowHoldsCameras'
    BY <1>5 DEF MotionSent, WindowHoldsCameras
  <2> QED BY <2>2, <2>3, <2>4
<1>6. ASSUME NEW env \in Env, NEW kind \in {"tamper", "signal"}, CameraAlert(kind, env)
      PROVE IInv'
  <2>1. alert' \in AlertRecord /\ (alert' = alert \/ alert' = Begun(alert))
    BY <1>6, <1>0, AlertOperators DEF CameraAlert
  <2>2. TypeOK'
    BY <1>6, <2>1 DEF CameraAlert, TypeOK, AlertRecord, Steps
  <2>3. /\ alert'.armed = alert.armed
        /\ alert'.count = alert.count
        /\ alert'.last = alert.last
    BY <2>1, <1>0 DEF Begun, AlertRecord
  <2>4. DisarmedCountsNothing' /\ DigestFollowsAlert' /\ WindowHoldsCameras'
    BY <1>6, <2>3
       DEF CameraAlert, DisarmedCountsNothing, DigestFollowsAlert, WindowHoldsCameras
  <2> QED BY <2>2, <2>4
<1>7. CASE Note
  <2>1. window' = Noted(window, Self) /\ Self \in Cameras
    BY <1>7 DEF Note, Cameras
  <2>2. window' \in WindowRecord /\ window'.open /\ window'.cameras # {}
    BY <2>1, <1>0, WindowOperators
  <2> QED
    BY <1>7, <2>2 DEF Note, TypeOK, WindowRecord, Steps, DisarmedCountsNothing,
                      DigestFollowsAlert, WindowHoldsCameras
<1>8. CASE DigestCheck
  <2>1. alert' \in AlertRecord /\ (alert' = alert \/ alert' = Flushed(alert))
    BY <1>8, <1>0, AlertOperators DEF DigestCheck
  <2>2. TypeOK'
    BY <1>8, <2>1 DEF DigestCheck, TypeOK, AlertRecord, Steps
  <2>3. DisarmedCountsNothing' /\ DigestFollowsAlert' /\ WindowHoldsCameras'
    BY <1>8, <2>1, <1>0
       DEF DigestCheck, Flushed, AlertRecord, DisarmedCountsNothing,
           DigestFollowsAlert, WindowHoldsCameras
  <2> QED BY <2>2, <2>3
<1>9. CASE WindowCheck
  <2>1. window' \in WindowRecord /\ (window'.open <=> window'.cameras # {})
    <3>1. Self \in Cameras
      BY DEF Cameras
    <3> QED BY <1>9, <1>0, <3>1, WindowOperators DEF WindowCheck, WindowHoldsCameras
  <2> QED
    BY <1>9, <2>1 DEF WindowCheck, TypeOK, WindowRecord, Steps, DisarmedCountsNothing,
                      DigestFollowsAlert, WindowHoldsCameras
<1>10. CASE OthersMeetWindow
  <2>1. \/ \E c \in Cameras : window' = Noted(window, c)
        \/ window' = Closed(window)
    BY <1>10 DEF OthersMeetWindow, Cameras
  <2>2. Self \in Cameras
    BY DEF Cameras
  <2>3. window' \in WindowRecord /\ (window'.open <=> window'.cameras # {})
    BY <2>1, <2>2, <1>0, WindowOperators
  <2> QED
    BY <1>10, <2>3 DEF OthersMeetWindow, TypeOK, WindowRecord, DisarmedCountsNothing,
                       DigestFollowsAlert, WindowHoldsCameras
<1>11. CASE WifiChange
  BY <1>11 DEF WifiChange, TypeOK, DisarmedCountsNothing, DigestFollowsAlert,
               WindowHoldsCameras
<1>12. CASE Tick
  <2>1. /\ Older(alert.since) \in Ages /\ Older(alert.last) \in Ages
        /\ Older(window.age) \in Ages /\ Older(photo.age) \in Ages
    <3>1. /\ alert.since \in Ages /\ alert.last \in Ages
          /\ window.age \in Ages /\ photo.age \in Ages
      BY DEF TypeOK
    <3>2. \A a \in Ages : a <= a
      BY ConstantsAssumption DEF Ages
    <3> QED BY <3>1, <3>2, OlderAge
  <2>2. TypeOK'
    BY <1>12, <2>1, AgeZero DEF Tick, TypeOK
  <2>3. /\ alert'.armed = alert.armed /\ alert'.count = alert.count
        /\ alert'.last = Older(alert.last)
        /\ photo'.age = Older(photo.age) /\ photo'.withheld = photo.withheld
        /\ window'.open = window.open /\ window'.cameras = window.cameras
    BY <1>12 DEF Tick, TypeOK
  <2>4. DisarmedCountsNothing' /\ WindowHoldsCameras'
    BY <2>3 DEF DisarmedCountsNothing, WindowHoldsCameras
  <2>5. alert.last <= photo.age => Older(alert.last) <= Older(photo.age)
    BY OlderAge DEF TypeOK
  <2>6. DigestFollowsAlert'
    BY <2>3, <2>5 DEF DigestFollowsAlert
  <2> QED BY <2>2, <2>4, <2>6
<1>13. CASE UNCHANGED vars
  BY <1>13 DEF vars, TypeOK, DisarmedCountsNothing, DigestFollowsAlert,
               WindowHoldsCameras
<1> QED
  BY <1>1, <1>2, <1>3, <1>4, <1>5, <1>6, <1>7, <1>8, <1>9, <1>10, <1>11, <1>12, <1>13
     DEF Next, CameraStep

-----------------------------------------------------------------------------
\* The alert bookkeeping of a camera task, all of it, in every state.
THEOREM AlertInvariant == Spec => []IInv
<1>1. Init => IInv BY IInvInit
<1>2. IInv /\ [Next]_vars => IInv' BY IInvStep
<1> QED BY <1>1, <1>2, PTL DEF Spec

\* The alert state, the window and the events in hand keep their types.
THEOREM AlertTypeCorrect == Spec => []TypeOK
<1>1. IInv => TypeOK BY DEF IInv
<1> QED BY <1>1, AlertInvariant, PTL

\* Nothing is counted for a digest while none is armed.
THEOREM AlertDisarmedCountsNothing == Spec => []DisarmedCountsNothing
<1>1. IInv => DisarmedCountsNothing BY DEF IInv
<1> QED BY <1>1, AlertInvariant, PTL

\* A digest only ever counts motion that came after an alert that was sent.
THEOREM AlertDigestFollowsAlert == Spec => []DigestFollowsAlert
<1>1. IInv => DigestFollowsAlert BY DEF IInv
<1> QED BY <1>1, AlertInvariant, PTL

\* The shared window is open exactly while it holds a camera.
THEOREM AlertWindowHoldsCameras == Spec => []WindowHoldsCameras
<1>1. IInv => WindowHoldsCameras BY DEF IInv
<1> QED BY <1>1, AlertInvariant, PTL

\* No step moves lastAlert forward while a cooldown runs.
THEOREM AlertCooldownSpacing == Spec => CooldownSpacing
<1> DEFINE Spaced == alert'.since < alert.since =>
                        ~alert.ever \/ alert.since >= Cooldown
<1>1. TypeOK /\ [Next]_vars => [Spaced]_vars
  <2> SUFFICES ASSUME TypeOK, Next PROVE Spaced
    OBVIOUS
  <2>1. /\ alert \in AlertRecord
        /\ alert.since \in Nat
        /\ alert.ever \in BOOLEAN
    BY DEF TypeOK, AlertRecord, Ages
  <2>2. \/ alert' = alert
        \/ ~Cooling
        \/ alert'.since = alert.since
        \/ alert'.since = Older(alert.since)
    <3>1. ASSUME NEW env \in Env, MotionSuppressed(env)
          PROVE  alert'.since = alert.since
      BY <3>1, <2>1 DEF MotionSuppressed, Count, AlertRecord
    <3>2. CASE DigestCheck
      BY <3>2, <2>1 DEF DigestCheck, Flushed, AlertRecord
    <3>3. CASE Tick
      BY <3>3, <2>1 DEF Tick, AlertRecord
    <3>4. ASSUME NEW env \in Env, MotionQuiet(env) \/ MotionSent(env)
          PROVE  ~Cooling
      BY <3>4 DEF MotionQuiet, MotionSent
    <3>5. ASSUME NEW env \in Env, NEW kind \in {"tamper", "signal"}, CameraAlert(kind, env)
          PROVE  alert' = alert \/ ~Cooling
      BY <3>5 DEF CameraAlert
    <3>6. ASSUME NEW events \in SUBSET Events, Pull(events) PROVE alert' = alert
      BY <3>6 DEF Pull
    <3>7. ASSUME NEW env \in Env, MotionIgnored(env) PROVE alert' = alert
      BY <3>7 DEF MotionIgnored
    <3>8. CASE Note \/ WindowCheck \/ OthersMeetWindow \/ WifiChange
      BY <3>8 DEF Note, WindowCheck, OthersMeetWindow, WifiChange
    <3> QED
      BY <3>1, <3>2, <3>3, <3>4, <3>5, <3>6, <3>7, <3>8 DEF Next, CameraStep
  <2>3. Older(alert.since) >= alert.since
    BY <2>1 DEF Older
  <2>4. ~Cooling => ~alert.ever \/ alert.since >= Cooldown
    BY <2>1, ConstantsAssumption DEF Cooling
  <2>5. ASSUME alert' = alert \/ alert'.since = alert.since
                 \/ alert'.since = Older(alert.since)
        PROVE  ~(alert'.since < alert.since)
    <3>1. Older(alert.since) \in Nat
      BY <2>1, ConstantsAssumption DEF Older
    <3>2. alert'.since = alert.since \/ alert'.since = Older(alert.since)
      BY <2>5
    <3> QED BY <2>1, <2>3, <3>1, <3>2
  <2> QED BY <2>2, <2>4, <2>5
<1> QED BY <1>1, AlertTypeCorrect, PTL DEF Spec, CooldownSpacing

-----------------------------------------------------------------------------
\* CameraContact.  A camera may go unasked for the longest delay of a retry, and
\* some passes more: the time since its last answer, the SD write of its own task
\* apart, is bounded by where the task is and what the other task has in flight.
Silence == contact - blocked

ContactTypes ==
    /\ at \in {"top", "call", "store", "online", "health"}
    /\ spent \in 0..MaxPass
    /\ contact \in Int
    /\ blocked \in Nat
    /\ sub \in [active : BOOLEAN, age : Int]
    /\ retry \in [delay : 0..SafeCap, age : 0..MaxDelay]
    /\ other \in [step : {"idle", "fetch", "send", "store"}, ticks : Nat,
                  fetches : 0..2]
    /\ linked \in BOOLEAN
    /\ offline \in BOOLEAN /\ lostAlerted \in BOOLEAN /\ unanswered \in BOOLEAN

\* A fetch has begun since the task last polled, has not overrun, and only a photo
\* being written blocks.
OneFetch ==
    /\ other.fetches = 0 => other.step # "fetch"
    /\ other.step = "fetch" => other.ticks <= MaxPass
    /\ at # "store" => blocked = 0

\* The camera was last heard no longer ago than the last attempt to subscribe,
\* unless that attempt is so old that the next is due.
HeardAtAttempt == retry.age < MaxDelay => Silence <= retry.age

\* In the pass that asked, in the next one, while a fetch suspends the polling,
\* and in the pass that was skipped for it.  With a second fetch before the next
\* polled pass nothing bounds the silence.
AskedPass == at \in {"store", "online", "health"}
AskedSoon ==
    /\ other.fetches = 0 /\ AskedPass => Silence < LongestDelay + spent
    /\ other.fetches = 0 /\ ~AskedPass => Silence < LongestDelay + MaxPass + spent
    /\ other.fetches = 1 /\ other.step = "fetch" =>
          Silence < LongestDelay + 2 * MaxPass + other.ticks
    /\ other.fetches = 1 /\ other.step # "fetch" /\ AskedPass =>
          Silence < LongestDelay + 3 * MaxPass + spent

ContactInv ==
    /\ ContactTypes
    /\ OneFetch
    /\ ~unanswered => HeardAtAttempt /\ AskedSoon

\* What the constants leave room for.
LEMMA ThresholdRoom ==
    /\ Threshold \in Nat /\ RetryStart \in Nat \ {0} /\ MaxPass \in Nat /\ MaxBlocked \in Nat
    /\ Jitter \in Nat /\ Jitter < RetryStart
    /\ LongestDelay \in Nat \ {0}
    /\ LongestSilence = LongestDelay + 4 * MaxPass /\ LongestSilence \in Nat
    /\ SafeCap \in Nat /\ RetryStart <= SafeCap /\ SafeCap <= LongestDelay
    /\ MaxDelay \in Nat /\ SafeCap <= MaxDelay
    /\ MaxSilence \in Nat
<1>1. /\ Threshold \in Nat /\ RetryStart \in Nat \ {0} /\ MaxPass \in Nat /\ MaxBlocked \in Nat
      /\ Jitter \in Nat /\ Jitter < RetryStart /\ RetryMax \in Nat
  BY ThresholdAssumption
<1>2. /\ Threshold \div 2 \in Nat
      /\ LongestDelay \in Nat /\ RetryStart <= LongestDelay /\ Threshold \div 2 <= LongestDelay
  BY <1>1 DEF LongestDelay, Greatest
<1>3. SafeCap = Greatest(Least(Threshold \div 2, RetryMax), RetryStart)
  BY DEF SafeCap
<1>4. SafeCap \in Nat /\ RetryStart <= SafeCap /\ SafeCap <= LongestDelay
  BY <1>1, <1>2, <1>3 DEF Greatest, Least
<1>5. MaxDelay \in Nat /\ SafeCap <= MaxDelay
  BY <1>1, <1>2, <1>3 DEF MaxDelay, Greatest, Least
<1>6. LongestSilence = LongestDelay + 4 * MaxPass /\ LongestSilence \in Nat
  BY <1>1, <1>2 DEF LongestSilence
<1> QED
  BY <1>1, <1>2, <1>4, <1>5, <1>6 DEF MaxSilence, Greatest

\* The next delay stays within the detector-safe cap.
LEMMA NextDelayCapped ==
    ASSUME NEW delay \in 0..SafeCap
    PROVE  NextDelay(delay) \in 0..SafeCap
BY ThresholdRoom DEF NextDelay, Least

\* An attempt that is not due was made less than the longest delay ago.
LEMMA NotDueIsRecent ==
    ASSUME ContactTypes, ~Due(retry)
    PROVE  retry.age < LongestDelay /\ retry.age < MaxDelay
BY ThresholdRoom DEF ContactTypes, Due

LEMMA ContactStarts ==
    ASSUME ContactInit
    PROVE  ContactInv
<1>1. PICK answered \in BOOLEAN, active \in BOOLEAN, late \in BOOLEAN :
          /\ contact = IF ~answered /\ late THEN MaxSilence ELSE 0
          /\ sub = [active |-> active, age |-> 0]
          /\ retry = [delay |-> 0, age |-> IF late THEN MaxDelay ELSE 0]
          /\ unanswered = ~answered
  BY DEF ContactInit
<1>2. /\ at = "top" /\ spent = 0 /\ blocked = 0 /\ linked \in BOOLEAN
      /\ offline = FALSE /\ lostAlerted = FALSE
      /\ other = [step |-> "idle", ticks |-> 0, fetches |-> 0]
  BY DEF ContactInit
<1>3. ContactTypes
  <2>1. contact \in Int /\ spent \in 0..MaxPass /\ blocked \in Nat
    BY <1>1, <1>2, ThresholdRoom
  <2>2. retry \in [delay : 0..SafeCap, age : 0..MaxDelay]
    BY <1>1, ThresholdRoom
  <2>3. sub \in [active : BOOLEAN, age : Int]
    BY <1>1
  <2>4. unanswered \in BOOLEAN /\ offline \in BOOLEAN /\ lostAlerted \in BOOLEAN
    BY <1>1, <1>2, Zenon
  <2>5. other \in [step : {"idle", "fetch", "send", "store"}, ticks : Nat,
                   fetches : 0..2]
    BY <1>2
  <2>6. at \in {"top", "call", "store", "online", "health"} /\ linked \in BOOLEAN
    BY <1>2
  <2> QED
    BY <2>1, <2>2, <2>3, <2>4, <2>5, <2>6, Zenon DEF ContactTypes
<1>4. OneFetch
  BY <1>2 DEF OneFetch
<1>5. ASSUME ~unanswered PROVE HeardAtAttempt /\ AskedSoon
  <2>1. contact = 0 /\ Silence = 0
    BY <1>1, <1>2, <1>5 DEF Silence
  <2>2. retry.age \in Nat
    BY <1>3 DEF ContactTypes
  <2> QED
    BY <1>2, <2>1, <2>2, ThresholdRoom DEF HeardAtAttempt, AskedSoon, AskedPass
<1> QED
  BY <1>3, <1>4, <1>5 DEF ContactInv

\* The fields the invariant reads, as numbers.
LEMMA ContactNumbers ==
    ASSUME ContactTypes
    PROVE  /\ contact \in Int /\ spent \in Nat /\ spent <= MaxPass /\ blocked \in Nat
           /\ retry.age \in Nat /\ retry.age <= MaxDelay /\ retry.delay \in 0..SafeCap
           /\ other.ticks \in Nat
           /\ Silence \in Int
BY ThresholdRoom DEF ContactTypes, Silence

LEMMA NothingTaken == \A c \in Int : c - 0 = c
OBVIOUS

\* The camera has just been asked, or need not be yet: the invariant of the
\* rest of the pass.  Whatever answered resets the silence.
LEMMA AskedNow ==
    ASSUME ContactTypes', at' \in {"store", "online"}, spent' = spent, ContactTypes,
           other'.fetches = 0, other'.step # "fetch", blocked' = 0,
           ~unanswered' => \/ contact' = 0
                           \/ contact' < LongestDelay /\ HeardAtAttempt'
    PROVE  ContactInv'
<1>1. OneFetch'
  BY DEF OneFetch
<1>2. ASSUME ~unanswered' PROVE HeardAtAttempt' /\ AskedSoon'
  <2>1. /\ contact' \in Int /\ spent' \in 0..MaxPass
        /\ retry' \in [delay : 0..SafeCap, age : 0..MaxDelay]
    BY Zenon DEF ContactTypes
  <2>3. spent' \in Nat /\ retry'.age \in Nat
    BY <2>1, ThresholdRoom
  <2>4. Silence' = contact' - 0
    BY Zenon DEF Silence
  <2>5. Silence' = contact'
    BY <2>1, <2>4, NothingTaken, Zenon
  <2>2. contact' < LongestDelay /\ HeardAtAttempt'
    BY <1>2, <2>1, <2>3, <2>5, ThresholdRoom DEF HeardAtAttempt
  <2> QED
    BY <2>1, <2>2, <2>3, <2>5, ThresholdRoom DEF AskedSoon, AskedPass
<1> QED
  BY <1>1, <1>2 DEF ContactInv

\* The steps that ask the camera, or find that it need not be asked yet.
LEMMA AttemptStep ==
    ASSUME ContactInv, NEW o \in SubscribeOutcomes, Attempt(o)
    PROVE  ContactInv'
<1>1. ContactTypes /\ at = "call" /\ blocked = 0
  BY DEF ContactInv, OneFetch, Attempt
<1>2. o.answered \in BOOLEAN /\ o.kept \in BOOLEAN
  BY DEF SubscribeOutcomes, Outcome
<1>3. PICK early \in 0..Jitter :
          retry' = [delay |-> IF o.kept THEN 0 ELSE NextDelay(retry.delay), age |-> early]
  BY DEF Attempt
<1>4. /\ retry' \in [delay : 0..SafeCap, age : 0..MaxDelay] /\ retry'.age \in Nat
      /\ retry'.age = early
  <2>1. NextDelay(retry.delay) \in 0..SafeCap /\ 0 \in 0..SafeCap
    BY <1>1, NextDelayCapped, ContactNumbers, ThresholdRoom
  <2>2. early \in 0..MaxDelay /\ early \in Nat
    BY <1>3, ThresholdRoom
  <2> QED
    BY <1>3, <2>1, <2>2
<1>5. /\ contact' = IF o.answered THEN 0 ELSE contact
      /\ unanswered' = ~o.answered
      /\ at' = "online" /\ spent' = spent /\ blocked' = blocked /\ linked' = linked
      /\ offline' = offline /\ lostAlerted' = lostAlerted
      /\ sub' = [sub EXCEPT !.active = o.kept]
      /\ other' = [other EXCEPT !.fetches = 0]
  BY DEF Attempt, Answered
<1>6. other.step # "fetch"
  BY DEF Attempt
<1>7. other' \in [step : {"idle", "fetch", "send", "store"}, ticks : Nat, fetches : 0..2]
      /\ other'.fetches = 0 /\ other'.step # "fetch"
  BY <1>1, <1>5, <1>6 DEF ContactTypes
<1>8. ContactTypes'
  <2>1. sub' \in [active : BOOLEAN, age : Int]
    BY <1>1, <1>2, <1>5 DEF ContactTypes
  <2>2. contact' \in Int
    BY <1>1, <1>5, ContactNumbers
  <2>3. unanswered' \in BOOLEAN
    BY <1>2, <1>5, Zenon
  <2> QED
    BY <1>1, <1>4, <1>5, <1>7, <2>1, <2>2, <2>3, Zenon DEF ContactTypes
<1>9. ~unanswered' => contact' = 0
  BY <1>5
<1> QED
  BY <1>1, <1>5, <1>7, <1>8, <1>9, AskedNow

LEMMA PollStep ==
    ASSUME ContactInv, NEW pull \in PullOutcomes,
           NEW renewal \in RenewOutcomes \cup {NotRenewed},
           NEW shot \in BOOLEAN, Poll(pull, renewal, shot)
    PROVE  ContactInv'
<1>1. ContactTypes /\ at = "call" /\ blocked = 0
  BY DEF ContactInv, OneFetch, Poll
<1>2. /\ pull.answered \in BOOLEAN /\ pull.kept \in BOOLEAN
      /\ renewal.answered \in BOOLEAN /\ renewal.kept \in BOOLEAN
  <2>1. pull \in Outcome
    BY DEF PullOutcomes
  <2>2. NotRenewed \in Outcome
    BY DEF NotRenewed, Outcome
  <2>3. renewal \in Outcome
    BY <2>2 DEF RenewOutcomes
  <2> QED
    BY <2>1, <2>3 DEF Outcome
<1>3. PICK answered \in BOOLEAN : answered = (pull.answered \/ renewal.answered)
  BY <1>2
<1>4. /\ contact' = IF answered THEN 0 ELSE contact
      /\ unanswered' = ~answered
  BY <1>3 DEF Poll, Answered
<1>5. /\ at' = IF shot THEN "store" ELSE "online"
      /\ spent' = spent /\ blocked' = blocked /\ linked' = linked /\ retry' = retry
      /\ offline' = offline /\ lostAlerted' = lostAlerted
      /\ sub' = [sub EXCEPT !.active = pull.kept /\ renewal.kept]
      /\ other' = [other EXCEPT !.fetches = 0]
      /\ other.step # "fetch"
  BY DEF Poll
<1>6. other' \in [step : {"idle", "fetch", "send", "store"}, ticks : Nat, fetches : 0..2]
      /\ other'.fetches = 0 /\ other'.step # "fetch"
  BY <1>1, <1>5 DEF ContactTypes
<1>7. at' \in {"store", "online"}
  BY <1>5
<1>8. ContactTypes'
  <2>1. sub' \in [active : BOOLEAN, age : Int]
    <3>1. PICK active \in BOOLEAN : sub' = [sub EXCEPT !.active = active]
      BY <1>2, <1>5
    <3> QED
      BY <1>1, <3>1 DEF ContactTypes
  <2>2. contact' \in Int
    BY <1>1, <1>4, ContactNumbers
  <2>3. unanswered' \in BOOLEAN
    BY <1>4, Zenon
  <2>4. at' \in {"top", "call", "store", "online", "health"}
    BY <1>7
  <2> QED
    BY <1>1, <1>5, <1>6, <2>1, <2>2, <2>3, <2>4, Zenon DEF ContactTypes
<1>9. ~unanswered' => contact' = 0
  BY <1>4
<1> QED
  BY <1>1, <1>5, <1>6, <1>7, <1>8, <1>9, AskedNow

LEMMA AwaitRetryStep ==
    ASSUME ContactInv, AwaitRetry
    PROVE  ContactInv'
<1>1. ContactTypes /\ at = "call" /\ blocked = 0
  BY DEF ContactInv, OneFetch, AwaitRetry
<1>2. /\ at' = "online" /\ spent' = spent /\ blocked' = blocked /\ linked' = linked
      /\ retry' = retry /\ sub' = sub /\ contact' = contact /\ unanswered' = unanswered
      /\ offline' = offline /\ lostAlerted' = lostAlerted
      /\ other' = [other EXCEPT !.fetches = 0]
      /\ other.step # "fetch"
  BY DEF AwaitRetry
<1>3. retry.age < LongestDelay /\ retry.age < MaxDelay
  BY <1>1, NotDueIsRecent DEF AwaitRetry
<1>4. other' \in [step : {"idle", "fetch", "send", "store"}, ticks : Nat, fetches : 0..2]
      /\ other'.fetches = 0 /\ other'.step # "fetch"
  BY <1>1, <1>2 DEF ContactTypes
<1>5. ContactTypes'
  <2>1. at' \in {"top", "call", "store", "online", "health"}
    BY <1>2
  <2> QED
    BY <1>1, <1>2, <1>4, <2>1, Zenon DEF ContactTypes
<1>6. ASSUME ~unanswered' PROVE contact' < LongestDelay /\ HeardAtAttempt'
  <2>1. HeardAtAttempt
    BY <1>2, <1>6, Zenon DEF ContactInv
  <2>2. contact - blocked <= retry.age
    BY <1>3, <2>1 DEF HeardAtAttempt, Silence
  <2>3. contact <= retry.age
    BY <1>1, <2>2, ContactNumbers
  <2>4. HeardAtAttempt'
    BY <1>2, <2>1 DEF HeardAtAttempt, Silence
  <2> QED
    BY <1>1, <1>2, <1>3, <2>3, <2>4, ContactNumbers, ThresholdRoom
<1> QED
  BY <1>1, <1>2, <1>4, <1>5, <1>6, AskedNow

\* The other steps of the camera's task.
LEMMA TopStep ==
    ASSUME ContactInv, NEW reload \in BOOLEAN, Top(reload)
    PROVE  ContactInv'
<1>1. ContactTypes /\ OneFetch /\ at = "top" /\ blocked = 0
  BY DEF ContactInv, OneFetch, Top
<1>2. /\ spent' = (IF linked THEN spent ELSE 0)
      /\ blocked' = blocked /\ linked' = linked /\ contact' = contact
      /\ offline' = offline /\ lostAlerted' = lostAlerted /\ other' = other
      /\ at' \in {"top", "call"}
      /\ unanswered' = (unanswered \/ ~linked)
  BY DEF Top
<1>3. /\ retry' \in [delay : 0..SafeCap, age : 0..MaxDelay]
      /\ retry'.age = retry.age \/ retry'.age = MaxDelay
  <2>1. retry' = retry \/ retry' = [retry EXCEPT !.delay = 0, !.age = MaxDelay]
    BY DEF Top, Reloaded
  <2>2. 0 \in 0..SafeCap /\ MaxDelay \in 0..MaxDelay
    BY ThresholdRoom
  <2>3. retry \in [delay : 0..SafeCap, age : 0..MaxDelay]
    BY <1>1 DEF ContactTypes
  <2> QED
    BY <2>1, <2>2, <2>3
<1>4. ContactTypes'
  <2>1. sub' \in [active : BOOLEAN, age : Int]
    <3>1. PICK active \in BOOLEAN :
              sub' = IF linked THEN Refreshed([sub EXCEPT !.active = active])
                     ELSE [sub EXCEPT !.active = FALSE]
      <4>1. sub.active \in BOOLEAN
        BY <1>1 DEF ContactTypes
      <4> QED
        BY <4>1 DEF Top
    <3>2. sub \in [active : BOOLEAN, age : Int]
      BY <1>1 DEF ContactTypes
    <3>3. /\ [sub EXCEPT !.active = active] \in [active : BOOLEAN, age : Int]
          /\ [sub EXCEPT !.active = FALSE] \in [active : BOOLEAN, age : Int]
      BY <3>2
    <3>4. \A s \in [active : BOOLEAN, age : Int] :
              Refreshed(s) \in [active : BOOLEAN, age : Int]
      BY DEF Refreshed
    <3> QED
      BY <3>1, <3>3, <3>4, Zenon
  <2>2. unanswered \in BOOLEAN /\ linked \in BOOLEAN
    BY <1>1, Zenon DEF ContactTypes
  <2>3. unanswered' \in BOOLEAN
    BY <1>2, <2>2, Zenon
  <2>4. at' \in {"top", "call", "store", "online", "health"}
    BY <1>2
  <2>5. spent' \in 0..MaxPass
    BY <1>1, <1>2, ThresholdRoom DEF ContactTypes
  <2> QED
    BY <1>1, <1>2, <1>3, <2>1, <2>3, <2>4, <2>5, Zenon DEF ContactTypes
<1>5. OneFetch'
  BY <1>1, <1>2 DEF OneFetch
<1>6. ASSUME ~unanswered' PROVE HeardAtAttempt' /\ AskedSoon'
  <2>1. HeardAtAttempt /\ AskedSoon
    BY <1>2, <1>6, Zenon DEF ContactInv
  <2>2. HeardAtAttempt'
    BY <1>2, <1>3, <2>1, ThresholdRoom DEF HeardAtAttempt, Silence
  <2>4. spent' = spent
    BY <1>2, <1>6
  <2>3. AskedSoon'
    BY <1>1, <1>2, <2>1, <2>4 DEF AskedSoon, AskedPass, Silence
  <2> QED
    BY <2>2, <2>3
<1> QED
  BY <1>4, <1>5, <1>6 DEF ContactInv

LEMMA SkipBusyStep ==
    ASSUME ContactInv, SkipBusy
    PROVE  ContactInv'
<1>1. ContactTypes /\ OneFetch
  BY DEF ContactInv
<1>2. /\ at = "call" /\ other.step = "fetch" /\ at' = "online"
      /\ UNCHANGED <<spent, contact, sub, retry, offline, lostAlerted, linked, other,
                     blocked, unanswered>>
  BY DEF SkipBusy
<1>3. ContactTypes'
  BY <1>1, <1>2, Zenon DEF ContactTypes
<1>4. OneFetch'
  BY <1>1, <1>2 DEF OneFetch
<1>5. ASSUME ~unanswered' PROVE HeardAtAttempt' /\ AskedSoon'
  <2>1. HeardAtAttempt /\ AskedSoon
    BY <1>2, <1>5, Zenon DEF ContactInv
  <2>2. HeardAtAttempt'
    BY <1>2, <2>1 DEF HeardAtAttempt, Silence
  <2>3. other'.fetches # 0
    BY <1>1, <1>2 DEF OneFetch
  <2>4. AskedSoon'
    BY <1>1, <1>2, <2>1, <2>3 DEF AskedSoon, Silence, ContactTypes
  <2> QED
    BY <2>2, <2>4
<1> QED
  BY <1>3, <1>4, <1>5 DEF ContactInv

LEMMA StoreStep ==
    ASSUME ContactInv, Store
    PROVE  ContactInv'
<1>1. ContactTypes /\ OneFetch
  BY DEF ContactInv
<1>2. /\ at = "store" /\ at' = "online" /\ contact' = contact - blocked /\ blocked' = 0
      /\ UNCHANGED <<spent, sub, retry, offline, lostAlerted, linked, other, unanswered>>
  BY DEF Store, Stored
<1>3. contact' \in Int /\ blocked' \in Nat /\ Silence' = Silence
  BY <1>1, <1>2, ContactNumbers DEF Silence
<1>4. ContactTypes'
  <2>1. at' \in {"top", "call", "store", "online", "health"}
    BY <1>2
  <2> QED
    BY <1>1, <1>2, <1>3, <2>1, Zenon DEF ContactTypes
<1>5. OneFetch'
  BY <1>1, <1>2 DEF OneFetch
<1>6. ASSUME ~unanswered' PROVE HeardAtAttempt' /\ AskedSoon'
  <2>1. HeardAtAttempt /\ AskedSoon
    BY <1>2, <1>6, Zenon DEF ContactInv
  <2> QED
    BY <1>2, <1>3, <2>1 DEF HeardAtAttempt, AskedSoon, AskedPass
<1> QED
  BY <1>4, <1>5, <1>6 DEF ContactInv

LEMMA CheckOnlineStep ==
    ASSUME ContactInv, CheckOnline
    PROVE  ContactInv'
<1>1. ContactTypes /\ OneFetch
  BY DEF ContactInv
<1>2. /\ at = "online" /\ at' = "health" /\ offline' = AtLeastThreshold(contact)
      /\ UNCHANGED <<spent, contact, sub, retry, lostAlerted, linked, other, blocked,
                     unanswered>>
  BY DEF CheckOnline
<1>3. ContactTypes'
  <2>1. offline' \in BOOLEAN
    BY <1>2, Zenon DEF AtLeastThreshold
  <2>2. at' \in {"top", "call", "store", "online", "health"}
    BY <1>2
  <2> QED
    BY <1>1, <1>2, <2>1, <2>2, Zenon DEF ContactTypes
<1>4. OneFetch'
  BY <1>1, <1>2 DEF OneFetch
<1>5. ASSUME ~unanswered' PROVE HeardAtAttempt' /\ AskedSoon'
  <2>1. HeardAtAttempt /\ AskedSoon
    BY <1>2, <1>5, Zenon DEF ContactInv
  <2> QED
    BY <1>2, <2>1 DEF HeardAtAttempt, AskedSoon, AskedPass, Silence
<1> QED
  BY <1>3, <1>4, <1>5 DEF ContactInv

LEMMA CheckHealthStep ==
    ASSUME ContactInv, CheckHealth
    PROVE  ContactInv'
<1>1. ContactTypes /\ OneFetch
  BY DEF ContactInv
<1>2. /\ at = "health" /\ at' = "top" /\ spent' = 0
      /\ lostAlerted' = Health(offline, sub.age)
      /\ UNCHANGED <<contact, sub, retry, offline, linked, other, blocked, unanswered>>
  BY DEF CheckHealth
<1>3. ContactTypes'
  <2>1. lostAlerted' \in BOOLEAN
    BY <1>2, Zenon DEF Health, AtLeastThreshold
  <2>2. at' \in {"top", "call", "store", "online", "health"}
    BY <1>2
  <2>3. spent' \in 0..MaxPass
    BY <1>2, ThresholdRoom
  <2> QED
    BY <1>1, <1>2, <2>1, <2>2, <2>3, Zenon DEF ContactTypes
<1>4. OneFetch'
  BY <1>1, <1>2 DEF OneFetch
<1>5. ASSUME ~unanswered' PROVE HeardAtAttempt' /\ AskedSoon'
  <2>1. HeardAtAttempt /\ AskedSoon
    BY <1>2, <1>5, Zenon DEF ContactInv
  <2>2. Silence' = Silence
    BY <1>2 DEF Silence
  <2>3. HeardAtAttempt'
    BY <1>2, <2>1, <2>2 DEF HeardAtAttempt
  <2>4. other.fetches = 0 => Silence' < LongestDelay + MaxPass + spent'
    BY <1>1, <1>2, <2>1, <2>2, ContactNumbers, ThresholdRoom DEF AskedSoon, AskedPass
  <2> QED
    BY <1>2, <2>1, <2>2, <2>3, <2>4 DEF AskedSoon, AskedPass
<1> QED
  BY <1>3, <1>4, <1>5 DEF ContactInv

\* The steps of the other task.  The first fetch since a polled pass begins at
\* latest as the next pass is about to ask.
OtherRecords == [step : {"idle", "fetch", "send", "store"}, ticks : Nat, fetches : 0..2]

LEMMA OtherFetchStep ==
    ASSUME ContactInv, OtherFetch
    PROVE  ContactInv'
<1>1. ContactTypes /\ OneFetch
  BY DEF ContactInv
<1>2. /\ other.step = "idle"
      /\ other' = [step |-> "fetch", ticks |-> 0, fetches |-> Least(other.fetches + 1, 2)]
      /\ UNCHANGED <<at, spent, contact, sub, retry, offline, lostAlerted, blocked,
                     unanswered, linked>>
  BY DEF OtherFetch, task
<1>3. /\ other' \in OtherRecords /\ other'.step = "fetch" /\ other'.ticks = 0
      /\ other'.fetches # 0 /\ (other'.fetches = 1 => other.fetches = 0)
  <2>1. other.fetches \in 0..2
    BY <1>1 DEF ContactTypes
  <2>2. /\ Least(other.fetches + 1, 2) \in 1..2
        /\ Least(other.fetches + 1, 2) = 1 => other.fetches = 0
    BY <2>1 DEF Least
  <2> QED
    BY <1>2, <2>2 DEF OtherRecords
<1>4. ContactTypes'
  BY <1>1, <1>2, <1>3, Zenon DEF ContactTypes, OtherRecords
<1>5. OneFetch'
  BY <1>1, <1>2, <1>3, ThresholdRoom DEF OneFetch
<1>6. ASSUME ~unanswered' PROVE HeardAtAttempt' /\ AskedSoon'
  <2>1. HeardAtAttempt /\ AskedSoon
    BY <1>2, <1>6, Zenon DEF ContactInv
  <2>2. other.fetches = 0 => Silence < LongestDelay + MaxPass + spent
    BY <1>1, <2>1, ContactNumbers, ThresholdRoom DEF AskedSoon
  <2>3. other.fetches = 0 => Silence < LongestDelay + 2 * MaxPass + 0
    BY <1>1, <2>2, ContactNumbers, ThresholdRoom
  <2>4. HeardAtAttempt' /\ Silence' = Silence
    BY <1>2, <2>1 DEF HeardAtAttempt, Silence
  <2>5. AskedSoon'
    BY <1>3, <2>3, <2>4 DEF AskedSoon
  <2> QED
    BY <2>4, <2>5
<1> QED
  BY <1>4, <1>5, <1>6 DEF ContactInv

LEMMA OtherFetchedStep ==
    ASSUME ContactInv, NEW shot \in BOOLEAN, OtherFetched(shot)
    PROVE  ContactInv'
<1>1. ContactTypes /\ OneFetch
  BY DEF ContactInv
<1>2. /\ other.step = "fetch"
      /\ other' = [other EXCEPT !.step = IF shot THEN "send" ELSE "idle", !.ticks = 0]
      /\ UNCHANGED <<at, spent, contact, sub, retry, offline, lostAlerted, blocked,
                     unanswered, linked>>
  BY DEF OtherFetched, task
<1>3. /\ other' \in OtherRecords
      /\ other'.step \in {"send", "idle"} /\ other'.fetches = other.fetches
  <2>1. other \in OtherRecords
    BY <1>1 DEF ContactTypes, OtherRecords
  <2>2. PICK step \in {"send", "idle"} : other' = [other EXCEPT !.step = step, !.ticks = 0]
    BY <1>2
  <2> QED
    BY <2>1, <2>2 DEF OtherRecords
<1>4. ContactTypes'
  BY <1>1, <1>2, <1>3, Zenon DEF ContactTypes, OtherRecords
<1>5. other.fetches # 0 /\ other'.fetches # 0
  BY <1>1, <1>2, <1>3 DEF OneFetch
<1>6. OneFetch'
  BY <1>1, <1>2, <1>3 DEF OneFetch
<1>7. ASSUME ~unanswered' PROVE HeardAtAttempt' /\ AskedSoon'
  <2>1. HeardAtAttempt /\ AskedSoon
    BY <1>2, <1>7, Zenon DEF ContactInv
  <2>2. /\ other.fetches = 1 => Silence < LongestDelay + 2 * MaxPass + other.ticks
        /\ other.ticks <= MaxPass
    BY <1>1, <1>2, <2>1 DEF AskedSoon, OneFetch
  <2>3. other.fetches = 1 => Silence < LongestDelay + 3 * MaxPass + spent
    BY <1>1, <2>2, ContactNumbers, ThresholdRoom
  <2>4. HeardAtAttempt' /\ Silence' = Silence
    BY <1>2, <2>1 DEF HeardAtAttempt, Silence
  <2> QED
    BY <1>2, <1>3, <1>5, <2>3, <2>4 DEF AskedSoon
<1> QED
  BY <1>4, <1>6, <1>7 DEF ContactInv

LEMMA OtherWriteStep ==
    ASSUME ContactInv, OtherWrite
    PROVE  ContactInv'
<1>1. ContactTypes /\ OneFetch
  BY DEF ContactInv
<1>2. /\ other.step = "send"
      /\ other' = [other EXCEPT !.step = "store"]
      /\ UNCHANGED <<at, spent, contact, sub, retry, offline, lostAlerted, blocked,
                     unanswered, linked>>
  BY DEF OtherWrite, task
<1>3. /\ other' \in OtherRecords
      /\ other'.step = "store" /\ other'.fetches = other.fetches
  <2>1. other \in OtherRecords
    BY <1>1 DEF ContactTypes, OtherRecords
  <2> QED
    BY <1>2, <2>1 DEF OtherRecords
<1>4. ContactTypes'
  BY <1>1, <1>2, <1>3, Zenon DEF ContactTypes, OtherRecords
<1>5. OneFetch'
  BY <1>1, <1>2, <1>3 DEF OneFetch
<1>6. ASSUME ~unanswered' PROVE HeardAtAttempt' /\ AskedSoon'
  <2>1. HeardAtAttempt /\ AskedSoon
    BY <1>2, <1>6, Zenon DEF ContactInv
  <2> QED
    BY <1>2, <1>3, <2>1 DEF HeardAtAttempt, AskedSoon, AskedPass, Silence
<1> QED
  BY <1>4, <1>5, <1>6 DEF ContactInv

\* The time the other task's write took is taken off the silence, late.
LEMMA OtherStoredStep ==
    ASSUME ContactInv, OtherStored
    PROVE  ContactInv'
<1>1. ContactTypes /\ OneFetch
  BY DEF ContactInv
<1>2. /\ other.step = "store" /\ contact' = contact - other.ticks
      /\ other' = [other EXCEPT !.step = "idle", !.ticks = 0]
      /\ UNCHANGED <<at, spent, sub, retry, offline, lostAlerted, linked, blocked,
                     unanswered>>
  BY DEF OtherStored, Stored
<1>3. /\ other' \in OtherRecords
      /\ other'.step = "idle" /\ other'.fetches = other.fetches
  <2>1. other \in OtherRecords
    BY <1>1 DEF ContactTypes, OtherRecords
  <2> QED
    BY <1>2, <2>1 DEF OtherRecords
<1>4. contact' \in Int /\ Silence' \in Int /\ Silence' <= Silence
  BY <1>1, <1>2, ContactNumbers DEF Silence
<1>5. ContactTypes'
  BY <1>1, <1>2, <1>3, <1>4, Zenon DEF ContactTypes, OtherRecords
<1>6. OneFetch'
  BY <1>1, <1>2, <1>3 DEF OneFetch
<1>7. ASSUME ~unanswered' PROVE HeardAtAttempt' /\ AskedSoon'
  <2>1. HeardAtAttempt /\ AskedSoon
    BY <1>2, <1>7, Zenon DEF ContactInv
  <2>2. HeardAtAttempt'
    BY <1>1, <1>2, <1>4, <2>1, ContactNumbers DEF HeardAtAttempt
  <2>3. AskedSoon'
    BY <1>1, <1>2, <1>3, <1>4, <2>1, ContactNumbers, ThresholdRoom DEF AskedSoon, AskedPass
  <2> QED
    BY <2>2, <2>3
<1> QED
  BY <1>5, <1>6, <1>7 DEF ContactInv

LEMMA LinkChangeStep ==
    ASSUME ContactInv, LinkChange
    PROVE  ContactInv'
<1>1. linked' \in BOOLEAN
  BY Zenon DEF LinkChange
<1>2. UNCHANGED <<at, spent, contact, sub, retry, offline, lostAlerted, blocked,
                  unanswered, other>>
  BY DEF LinkChange, task
<1> QED
  BY <1>1, <1>2, Zenon DEF ContactInv, ContactTypes, OneFetch, HeardAtAttempt, AskedSoon,
                           AskedPass, Silence

\* Time passes for everyone, and counts as silence unless this task is writing
\* to the card.
LEMMA ContactTickStep ==
    ASSUME ContactInv, ContactTick
    PROVE  ContactInv'
<1>1. ContactTypes /\ OneFetch
  BY DEF ContactInv
<1>2. /\ at = "store" => blocked' = blocked + 1 /\ spent' = spent
      /\ at # "store" => spent < MaxPass /\ blocked' = blocked /\ spent' = spent + 1
      /\ other.step = "fetch" => other.ticks < MaxPass
      /\ contact' = Least(contact + 1, MaxSilence)
      /\ sub' = [sub EXCEPT !.age = Least(@ + 1, Threshold)]
      /\ retry' = [retry EXCEPT !.age = Least(@ + 1, MaxDelay)]
      /\ UNCHANGED <<at, offline, lostAlerted, linked, unanswered>>
  BY DEF ContactTick
<1>3. /\ other.step = "fetch" => other'.ticks = other.ticks + 1
      /\ other' \in OtherRecords
      /\ other'.step = other.step /\ other'.fetches = other.fetches
  <2>1. other \in OtherRecords
    BY <1>1 DEF ContactTypes, OtherRecords
  <2>2. other.ticks + 1 \in Nat
    BY <2>1 DEF OtherRecords
  <2>3. \/ other' = [other EXCEPT !.ticks = other.ticks + 1]
        \/ other.step # "fetch" /\ other' = [other EXCEPT !.ticks = other.ticks]
    BY DEF ContactTick
  <2> QED
    BY <2>1, <2>2, <2>3 DEF OtherRecords
<1>4. /\ spent' \in 0..MaxPass /\ blocked' \in Nat /\ contact' \in Int
      /\ contact' <= contact + 1
  BY <1>1, <1>2, ContactNumbers, ThresholdRoom DEF Least
<1>5. /\ retry' \in [delay : 0..SafeCap, age : 0..MaxDelay]
      /\ retry'.age < MaxDelay => retry.age < MaxDelay /\ retry'.age = retry.age + 1
  <2>1. PICK age \in 0..MaxDelay :
            /\ retry' = [retry EXCEPT !.age = age]
            /\ age = Least(retry.age + 1, MaxDelay)
    BY <1>1, <1>2, ContactNumbers, ThresholdRoom DEF Least
  <2>2. retry' \in [delay : 0..SafeCap, age : 0..MaxDelay] /\ retry'.age = age
    BY <1>1, <2>1 DEF ContactTypes
  <2>3. age < MaxDelay => retry.age < MaxDelay /\ age = retry.age + 1
    BY <1>1, <2>1, ContactNumbers, ThresholdRoom DEF Least
  <2> QED
    BY <2>2, <2>3
<1>6. ContactTypes'
  <2>1. sub' \in [active : BOOLEAN, age : Int]
    <3>1. sub \in [active : BOOLEAN, age : Int]
      BY <1>1 DEF ContactTypes
    <3>2. Least(sub.age + 1, Threshold) \in Int
      BY <3>1, ThresholdRoom DEF Least
    <3> QED
      BY <1>2, <3>1, <3>2
  <2> QED
    BY <1>1, <1>2, <1>3, <1>4, <1>5, <2>1, Zenon DEF ContactTypes, OtherRecords
<1>7. OneFetch'
  BY <1>1, <1>2, <1>3, ContactNumbers, ThresholdRoom DEF OneFetch
<1>8. /\ Silence \in Int /\ Silence' \in Int /\ Silence' <= Silence + 1
      /\ at = "store" => Silence' <= Silence
  BY <1>1, <1>2, <1>4, ContactNumbers DEF Silence
<1>9. /\ spent \in Nat /\ spent' \in Nat
      /\ other.ticks \in Nat /\ other'.ticks \in Nat
  BY <1>1, <1>3, <1>4, ContactNumbers, ThresholdRoom DEF OtherRecords
<1>10. ASSUME NEW bound \in Nat, Silence < bound + spent
       PROVE  Silence' < bound + spent'
  <2>1. CASE at = "store"
    BY <1>2, <1>8, <1>9, <1>10, <2>1
  <2>2. CASE at # "store"
    BY <1>2, <1>8, <1>9, <1>10, <2>2
  <2> QED
    BY <2>1, <2>2
<1>11. ASSUME ~unanswered' PROVE HeardAtAttempt' /\ AskedSoon'
  <2>1. HeardAtAttempt /\ AskedSoon
    BY <1>2, <1>11, Zenon DEF ContactInv
  <2>2. HeardAtAttempt'
    BY <1>1, <1>5, <1>8, <2>1, ContactNumbers DEF HeardAtAttempt
  <2>6. LongestDelay \in Nat /\ LongestDelay + MaxPass \in Nat /\ LongestDelay + 3 * MaxPass \in Nat
        /\ LongestDelay + 2 * MaxPass \in Nat
    BY ThresholdRoom
  <2>7. /\ other.fetches = 0 /\ AskedPass => Silence' < LongestDelay + spent'
        /\ other.fetches = 0 /\ ~AskedPass => Silence' < LongestDelay + MaxPass + spent'
        /\ other.fetches = 1 /\ other.step # "fetch" /\ AskedPass =>
              Silence' < LongestDelay + 3 * MaxPass + spent'
    BY <2>1, <1>10, <2>6 DEF AskedSoon
  <2>8. other.fetches = 1 /\ other.step = "fetch" => Silence' < LongestDelay + 2 * MaxPass + other'.ticks
    BY <1>3, <1>8, <1>9, <2>1, <2>6 DEF AskedSoon
  <2>9. AskedPass' <=> AskedPass
    BY <1>2 DEF AskedPass
  <2> QED
    BY <1>3, <2>2, <2>7, <2>8, <2>9 DEF AskedSoon
<1> QED
  BY <1>6, <1>7, <1>11 DEF ContactInv

\* Every step keeps the invariant.
LEMMA ContactKeeps ==
    ASSUME ContactInv, [ContactNext]_contactVars
    PROVE  ContactInv'
<1>1. CASE ContactStep
  BY <1>1, TopStep, SkipBusyStep, AttemptStep, AwaitRetryStep, PollStep, StoreStep,
     CheckOnlineStep, CheckHealthStep, Zenon DEF ContactStep
<1>2. CASE OtherFetch \/ OtherEnds
  BY <1>2, OtherFetchStep, OtherFetchedStep, OtherWriteStep, OtherStoredStep DEF OtherEnds
<1>3. CASE LinkChange \/ ContactTick
  BY <1>3, LinkChangeStep, ContactTickStep
<1>4. CASE UNCHANGED contactVars
  <2>1. /\ at' = at /\ spent' = spent /\ contact' = contact /\ sub' = sub
        /\ retry' = retry /\ offline' = offline /\ lostAlerted' = lostAlerted
        /\ blocked' = blocked /\ unanswered' = unanswered /\ other' = other
        /\ linked' = linked
    BY <1>4 DEF contactVars
  <2>2. ContactTypes' /\ OneFetch'
    BY <2>1, Zenon DEF ContactInv, ContactTypes, OneFetch
  <2>3. HeardAtAttempt' = HeardAtAttempt /\ AskedSoon' = AskedSoon
    BY <2>1, Zenon DEF HeardAtAttempt, AskedSoon, AskedPass, Silence
  <2> QED
    BY <2>1, <2>2, <2>3, Zenon DEF ContactInv
<1> QED
  BY <1>1, <1>2, <1>3, <1>4 DEF ContactNext

\* What a camera's task knows of it, for any threshold, delays and timeouts that
\* leave room for each other (cameraTaskFn, src/camera.cpp).
THEOREM ContactInvariant == ContactSpec => []ContactInv
<1>1. ContactInit => ContactInv
  BY ContactStarts
<1>2. ContactInv /\ [ContactNext]_contactVars => ContactInv'
  BY ContactKeeps
<1> QED
  BY <1>1, <1>2, PTL DEF ContactSpec

\* A camera that answers whatever it is asked is silent for less than
\* LongestSilence when it is called OFFLINE, however long its retries are put off
\* and however slow the card is, unless snapshots were fetched one after the
\* other: with a threshold of LongestSilence or more it is called OFFLINE for an
\* answer dated in the future only (checkCameraOnlineStatus,
\* src/telegram_alerts.cpp).
THEOREM AnsweringCameraStaysOnline == ContactSpec => AnsweringIsNotOffline
<1>1. ASSUME ContactInv, [ContactNext]_contactVars, ~offline, offline'
      PROVE  unanswered \/ other.fetches > 1 \/ contact < LongestSilence
  <2>1. CheckOnline
    <3>1. offline' # offline
      BY <1>1
    <3>2. /\ \A reload \in BOOLEAN : Top(reload) => offline' = offline
          /\ SkipBusy => offline' = offline
          /\ \A o \in SubscribeOutcomes : Attempt(o) => offline' = offline
          /\ AwaitRetry => offline' = offline
          /\ \A pull \in PullOutcomes, renewal \in RenewOutcomes \cup {NotRenewed},
                shot \in BOOLEAN : Poll(pull, renewal, shot) => offline' = offline
          /\ Store => offline' = offline
          /\ CheckHealth => offline' = offline
      BY DEF Top, SkipBusy, Attempt, AwaitRetry, Poll, Store, CheckHealth
    <3>3. OtherFetch \/ OtherEnds => offline' = offline
      BY DEF OtherFetch, OtherEnds, OtherFetched, OtherWrite, OtherStored, task
    <3>4. LinkChange \/ ContactTick \/ UNCHANGED contactVars => offline' = offline
      BY DEF LinkChange, ContactTick, contactVars, task
    <3> QED
      BY <1>1, <3>1, <3>2, <3>3, <3>4, Zenon DEF ContactNext, ContactStep
  <2>2. at = "online" /\ AtLeastThreshold(contact)
    BY <1>1, <2>1, Zenon DEF CheckOnline
  <2>3. ContactTypes /\ OneFetch
    BY <1>1 DEF ContactInv
  <2>4. SUFFICES ASSUME ~unanswered, ~(other.fetches > 1)
                 PROVE  contact < LongestSilence
    OBVIOUS
  <2>5. AskedSoon /\ Silence = contact /\ AskedPass
    <3>1. AskedSoon
      BY <1>1, <2>4, Zenon DEF ContactInv
    <3>2. blocked = 0
      BY <2>2, <2>3 DEF OneFetch
    <3> QED
      BY <2>2, <2>3, <3>1, <3>2, ContactNumbers DEF AskedPass, Silence
  <2>6. other.fetches \in {0, 1}
    BY <2>3, <2>4 DEF ContactTypes
  <2>7. contact < LongestDelay + 4 * MaxPass
    BY <2>3, <2>5, <2>6, ContactNumbers, ThresholdRoom DEF AskedSoon, OneFetch
  <2> QED
    BY <2>7, ThresholdRoom
<1>2. ContactInv /\ [ContactNext]_contactVars
        => [~offline /\ offline' =>
                  unanswered \/ other.fetches > 1 \/ contact < LongestSilence]_contactVars
  BY <1>1
<1> QED
  BY <1>2, ContactInvariant, PTL DEF ContactSpec, AnsweringIsNotOffline

=============================================================================
