---------------------------- MODULE CameraContact ----------------------------
(***************************************************************************)
(* How one camera's task decides whether the camera is there               *)
(* (src/camera.cpp, src/telegram_alerts.cpp): every pass makes the SOAP    *)
(* calls that are due, then runs the OFFLINE detector on the time of the   *)
(* last answer and the subscription detector on the time it was last       *)
(* subscribed; without a subscription it retries with a growing delay.     *)
(* Another task (/snap in loop(), a test alert) may meanwhile fetch a      *)
(* snapshot, which suspends the polling, and write it to the SD card,      *)
(* which moves the time of the last answer.                                *)
(*                                                                         *)
(* Time stamps are modelled by their ages, and an age stops growing where  *)
(* no comparison can tell it from a greater one.  Polling is due every     *)
(* pass: its interval is well under a tick.                                *)
(***************************************************************************)
EXTENDS Integers

CONSTANTS
    Threshold,      \* cfg.offlineThresholdMs
    RetryStart,     \* RETRY_INTERVAL_MS
    RetryMax,       \* RETRY_BACKOFF_MAX_MS
    Jitter,         \* the most a retry is dated back
    MaxPass,        \* bound: time one pass, or one fetch, may take
    MaxBlocked      \* bound: time one SD write may block

ASSUME ThresholdAssumption ==
    /\ {Threshold, RetryStart, RetryMax, Jitter, MaxPass, MaxBlocked} \subseteq Nat
    /\ Jitter < RetryStart

VARIABLES
    at,             \* where the camera task is in its pass
    spent,          \* how long this pass has taken, SD write apart
    contact,        \* age of lastContactMs; negative: a time yet to come
    sub,            \* subscriptionActive and the age of lastSubscribedMs
    retry,          \* retryDelayMs and the age of lastRetry
    offline,        \* isOffline
    lostAlerted,    \* subscriptionLostAlerted
    linked,         \* whether WiFi is up
    other,          \* the other task; fetches: those it began since this task
                    \* last polled, counted to 2
    blocked,        \* how long this task's SD write has blocked
    unanswered      \* history: the camera owes an answer, or could give none

task == <<at, spent, contact, sub, retry, offline, lostAlerted, blocked, unanswered>>
contactVars == <<at, spent, contact, sub, retry, offline, lostAlerted, linked, other,
                 blocked, unanswered>>

Least(a, b) == IF a <= b THEN a ELSE b
Greatest(a, b) == IF a >= b THEN a ELSE b

\* The longest delay of a retry, and how long an answering camera may go unheard
\* with it: the pass of the last answer, the next one, a fetch that begins as that
\* one would ask, and the pass that finds it still under way.
LongestDelay == Greatest(Threshold \div 2, RetryStart)
LongestSilence == LongestDelay + 4 * MaxPass

\* Bounds of the ages.
MaxSilence == Greatest(Threshold, LongestSilence) + 2 * MaxBlocked
MaxDelay == Greatest(RetryStart, RetryMax)

-----------------------------------------------------------------------------
\* detectorSafeBackoffCapMs and nextBackoffDelayMs.
SafeCapUnclamped == Greatest(RetryMax, RetryStart)
SafeCap == Greatest(Least(Threshold \div 2, RetryMax), RetryStart)
NextDelay(delay) == IF delay = 0 THEN RetryStart ELSE Least(2 * delay, SafeCap)

\* An unsigned difference of millis(): one with a time yet to come is huge.
AtLeastThreshold(age) == age < 0 \/ age >= Threshold

Due(r) == r.age >= (IF r.delay > 0 THEN r.delay ELSE RetryStart)

\* cameraTaskFn up to its loop.  A task started late finds lastContactMs and
\* lastRetry at zero, which is long ago.
ContactInit ==
    /\ at = "top" /\ spent = 0 /\ blocked = 0
    /\ linked \in BOOLEAN
    /\ \E answered, active, late \in BOOLEAN :
          /\ active => answered
          /\ answered => linked
          /\ contact = IF ~answered /\ late THEN MaxSilence ELSE 0
          /\ sub = [active |-> active, age |-> 0]
          /\ retry = [delay |-> 0, age |-> IF late THEN MaxDelay ELSE 0]
          /\ unanswered = ~answered
    /\ offline = FALSE /\ lostAlerted = FALSE
    /\ other = [step |-> "idle", ticks |-> 0, fetches |-> 0]

-----------------------------------------------------------------------------
\* The top of a pass: an edit staged by the dashboard drops the subscription
\* and makes a retry due; without WiFi the pass ends here.
Reloaded(r) == [r EXCEPT !.delay = 0, !.age = MaxDelay]

Refreshed(s) == IF s.active THEN [s EXCEPT !.age = 0] ELSE s

Top(reload) ==
    /\ at = "top"
    /\ retry' = IF reload THEN Reloaded(retry) ELSE retry
    /\ LET active == sub.active /\ ~reload
       IN  sub' = IF linked THEN Refreshed([sub EXCEPT !.active = active])
                  ELSE [sub EXCEPT !.active = FALSE]
    /\ at' = IF linked THEN "call" ELSE "top"
    /\ unanswered' = (unanswered \/ ~linked)
    /\ spent' = IF linked THEN spent ELSE 0
    /\ UNCHANGED <<contact, offline, lostAlerted, linked, other, blocked>>

\* cameraSoapCall: any answer, a fault too, is contact.
Answered(answered) ==
    /\ answered => linked
    /\ contact' = IF answered THEN 0 ELSE contact
    /\ unanswered' = ~answered

\* A snapshot is being fetched: no SOAP in this pass.
SkipBusy ==
    /\ at = "call"
    /\ other.step = "fetch"
    /\ at' = "online"
    /\ UNCHANGED <<spent, contact, sub, retry, offline, lostAlerted, linked, other,
                   blocked, unanswered>>

\* How calls to the camera may end: whether any was answered, and whether there
\* is a subscription afterwards.  cameraSetupSequence, the retry's two calls and
\* the renewal hold one only if the camera said so...
Outcome == [answered : BOOLEAN, kept : BOOLEAN]
SubscribeOutcomes == {o \in Outcome : o.kept => o.answered}
RenewOutcomes == {o \in Outcome : o.kept => o.answered}
\* ...an unanswered pull keeps the subscription; a fault drops it, and so do
\* several answers in a row that are neither a result nor a fault.
PullOutcomes == {o \in Outcome : ~o.answered => o.kept}
NotRenewed == [answered |-> FALSE, kept |-> TRUE]

\* Subscribing again.
Attempt(o) ==
    /\ at = "call"
    /\ other.step # "fetch"
    /\ ~sub.active /\ Due(retry)
    /\ Answered(o.answered)
    /\ sub' = [sub EXCEPT !.active = o.kept]
    /\ \E early \in 0..Jitter :
          retry' = [delay |-> IF o.kept THEN 0 ELSE NextDelay(retry.delay),
                    age |-> early]
    /\ other' = [other EXCEPT !.fetches = 0]
    /\ at' = "online"
    /\ UNCHANGED <<spent, offline, lostAlerted, linked, blocked>>

AwaitRetry ==
    /\ at = "call"
    /\ other.step # "fetch"
    /\ ~sub.active /\ ~Due(retry)
    /\ other' = [other EXCEPT !.fetches = 0]
    /\ at' = "online"
    /\ UNCHANGED <<spent, contact, sub, retry, offline, lostAlerted, linked, blocked,
                   unanswered>>

\* Bound: no write to the card begins while the last answer is already dated in
\* the future by an earlier one.
MayWrite == contact >= 0

\* The pull and, if due and still subscribed, the renewal.  An event or a
\* timelapse may leave a photo to be written to the SD card.
Poll(pull, renewal, photo) ==
    /\ at = "call"
    /\ other.step # "fetch"
    /\ sub.active
    /\ ~pull.kept => renewal = NotRenewed
    /\ photo => MayWrite \/ pull.answered
    /\ Answered(pull.answered \/ renewal.answered)
    /\ sub' = [sub EXCEPT !.active = pull.kept /\ renewal.kept]
    /\ other' = [other EXCEPT !.fetches = 0]
    /\ at' = IF photo THEN "store" ELSE "online"
    /\ UNCHANGED <<spent, retry, offline, lostAlerted, linked, blocked>>

\* The end of pushCameraSnapshot: the time it was blocked is not silence.
Stored(ticks) == contact - ticks

Store ==
    /\ at = "store"
    /\ contact' = Stored(blocked)
    /\ blocked' = 0
    /\ at' = "online"
    /\ UNCHANGED <<spent, sub, retry, offline, lostAlerted, linked, other, unanswered>>

\* checkCameraOnlineStatus.
CheckOnline ==
    /\ at = "online"
    /\ offline' = AtLeastThreshold(contact)
    /\ at' = "health"
    /\ UNCHANGED <<spent, contact, sub, retry, lostAlerted, linked, other, blocked,
                   unanswered>>

\* evaluateSubscriptionHealth: what subscriptionLostAlerted becomes; the message
\* goes out when it turns TRUE.
HealthOnlyOffline(isOffline, age) == isOffline /\ AtLeastThreshold(age)
Health(isOffline, age) == ~isOffline /\ AtLeastThreshold(age)

CheckHealth ==
    /\ at = "health"
    /\ lostAlerted' = Health(offline, sub.age)
    /\ at' = "top"
    /\ spent' = 0
    /\ UNCHANGED <<contact, sub, retry, offline, linked, other, blocked, unanswered>>

ContactStep ==
    \/ \E reload \in BOOLEAN : Top(reload)
    \/ SkipBusy
    \/ \E o \in SubscribeOutcomes : Attempt(o)
    \/ AwaitRetry
    \/ \E pull \in PullOutcomes, renewal \in RenewOutcomes \cup {NotRenewed},
          photo \in BOOLEAN : Poll(pull, renewal, photo)
    \/ Store
    \/ CheckOnline
    \/ CheckHealth

-----------------------------------------------------------------------------
\* The other task: fetchOneSnapshot with its guard, as often as it is asked, the
\* sending, and pushCameraSnapshot if the fetch gave a photo and the card is in
\* use.
OtherFetch ==
    /\ other.step = "idle"
    /\ other' = [step |-> "fetch", ticks |-> 0, fetches |-> Least(other.fetches + 1, 2)]
    /\ UNCHANGED <<task, linked>>

OtherFetched(photo) ==
    /\ other.step = "fetch"
    /\ other' = [other EXCEPT !.step = IF photo THEN "send" ELSE "idle", !.ticks = 0]
    /\ UNCHANGED <<task, linked>>

OtherWrite ==
    /\ other.step = "send"
    /\ MayWrite
    /\ other' = [other EXCEPT !.step = "store"]
    /\ UNCHANGED <<task, linked>>

OtherStored ==
    /\ other.step = "store"
    /\ contact' = Stored(other.ticks)
    /\ other' = [other EXCEPT !.step = "idle", !.ticks = 0]
    /\ UNCHANGED <<at, spent, sub, retry, offline, lostAlerted, linked, blocked, unanswered>>

OtherEnds == (\E photo \in BOOLEAN : OtherFetched(photo)) \/ OtherWrite \/ OtherStored

LinkChange ==
    /\ linked' = ~linked
    /\ UNCHANGED <<task, other>>

\* No call blocks longer than its timeout.
ContactTick ==
    /\ IF at = "store" THEN blocked < MaxBlocked ELSE spent < MaxPass
    /\ other.step = "fetch" => other.ticks < MaxPass
    /\ other.step = "store" => other.ticks < MaxBlocked
    /\ blocked' = IF at = "store" THEN blocked + 1 ELSE blocked
    /\ spent' = IF at = "store" THEN spent ELSE spent + 1
    /\ contact' = Least(contact + 1, MaxSilence)
    /\ sub' = [sub EXCEPT !.age = Least(@ + 1, Threshold)]
    /\ retry' = [retry EXCEPT !.age = Least(@ + 1, MaxDelay)]
    /\ other' = [other EXCEPT !.ticks = IF other.step \in {"fetch", "store"}
                                        THEN @ + 1 ELSE @]
    /\ UNCHANGED <<at, offline, lostAlerted, linked, unanswered>>

ContactNext ==
    \/ ContactStep
    \/ OtherFetch
    \/ OtherEnds
    \/ LinkChange
    \/ ContactTick

ContactSpec == ContactInit /\ [][ContactNext]_contactVars

\* Both tasks are scheduled and none of their calls blocks for good.
FairContactSpec ==
    /\ ContactSpec
    /\ WF_contactVars(ContactStep)
    /\ WF_contactVars(OtherEnds)
    /\ WF_contactVars(ContactTick)

-----------------------------------------------------------------------------
\* A camera that answers whatever it is asked is never reported OFFLINE for a
\* silence of LongestSilence, however rarely it is asked (a backed-off retry, a
\* snapshot in flight, a slow card): not at all, then, if the threshold leaves
\* room for that, but for an answer dated in the future or snapshots fetched one
\* after the other, without a polled pass in between.
AnsweringIsNotOffline ==
    [][~offline /\ offline' =>
          unanswered \/ other.fetches > 1 \/ contact < LongestSilence]_contactVars

\* A camera that has WiFi and stays without a subscription is noticed, whether
\* it answers or not and whatever snapshots suspend the polling.
DeafIsNoticed ==
    <>[](linked /\ ~sub.active) => <>[](at = "top" => offline \/ lostAlerted)

=============================================================================
