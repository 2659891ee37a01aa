----------------------------- MODULE RetryQueue -----------------------------
(***************************************************************************)
(* src/telegram_retry_queue.cpp: the in-RAM queue of broadcast alerts that *)
(* could not be sent, filled by every camera task and by loop()            *)
(* (sendTelegramMessage), emptied by loop() alone                          *)
(* (flushTelegramRetryQueue).  The flush copies the queue under the mutex, *)
(* sends with the mutex released and removes each settled entry by its id, *)
(* so other tasks append and evict between any two of its steps.           *)
(*                                                                         *)
(* A queued message is its id and its time stamp; chat id and text play no *)
(* part.  One tick of now is a fixed share of TELEGRAM_RETRY_MAX_AGE_MS;   *)
(* the one-minute flush interval is shorter than a tick, so a flush may    *)
(* start at any moment WiFi is up.  A reboot empties the queue: that is    *)
(* Init again.                                                             *)
(***************************************************************************)
EXTENDS Integers, Sequences, SequencesExt

CONSTANTS
    Capacity,       \* TELEGRAM_RETRY_QUEUE_CAPACITY
    MaxAge,         \* TELEGRAM_RETRY_MAX_AGE_MS, in ticks
    MaxMessages,    \* bound: broadcasts that fail
    MaxNow          \* bound: ticks

ASSUME ConstantsAssumption ==
    /\ Capacity \in Nat \ {0}
    /\ MaxAge \in Nat
    /\ MaxMessages \in Nat
    /\ MaxNow \in Nat

VARIABLES
    queue,      \* g_queue: sequence of [id, at]
    nextId,     \* g_nextId
    flush,      \* the flush in progress: its step, what is left to send, its clock
    now,        \* millis()
    link,       \* what a send from the board can reach
    stamps,     \* history: stamps[i] is the time message i was enqueued
    accepted    \* history: ids of the messages Telegram has accepted

vars == <<queue, nextId, flush, now, link, stamps, accepted>>

Links == {"up", "wan_down", "wifi_down"}
Outcomes == {"delivered", "reply_lost", "failed"}
FlushSteps == {"idle", "send", "settle"}

NoFlush == [step |-> "idle", todo |-> <<>>, at |-> 0, delivered |-> FALSE]

Init ==
    /\ queue = <<>>
    /\ nextId = 1
    /\ flush = NoFlush
    /\ now = 0
    /\ link = "up"
    /\ stamps = <<>>
    /\ accepted = {}

-----------------------------------------------------------------------------
\* What a queue becomes when m is pushed: the oldest makes room for it.
Push(q, m) ==
    Append(IF Len(q) >= Capacity THEN Tail(q) ELSE q, m)

\* removeById: the entry goes if it is still there, and nothing else does.
RemoveById(q, id) ==
    IF \E i \in DOMAIN q : q[i].id = id
    THEN RemoveAt(q, CHOOSE i \in DOMAIN q : q[i].id = id)
    ELSE q

\* What one sendMessage call may end in.  A send can fail with the link up, once
\* or every time: the TLS mutex stays busy, or Telegram answers with another
\* code than 200.  A reply can be lost after Telegram took the message.
CanEnd(outcome) ==
    \/ outcome = "failed"
    \/ outcome # "failed" /\ link = "up"

\* sendTelegramMessage: the direct send to one recipient did not return 200, so
\* the calling task queues the text (while the bounded clock leaves it time to
\* grow too old).
Broadcast(outcome) ==
    /\ nextId <= MaxMessages
    /\ now + MaxAge < MaxNow
    /\ CanEnd(outcome)
    /\ outcome # "delivered"
    /\ queue' = Push(queue, [id |-> nextId, at |-> now])
    /\ nextId' = nextId + 1
    /\ stamps' = Append(stamps, now)
    /\ accepted' = IF outcome = "reply_lost" THEN accepted \cup {nextId} ELSE accepted
    /\ UNCHANGED <<flush, now, link>>

\* flushTelegramRetryQueue, first critical section: copy the queue, note the time.
FlushStart ==
    /\ flush.step = "idle"
    /\ link # "wifi_down"
    /\ queue # <<>>
    /\ flush' = [step |-> "send", todo |-> queue, at |-> now, delivered |-> FALSE]
    /\ UNCHANGED <<queue, nextId, now, link, stamps, accepted>>

\* The unlocked send of the next entry of the copy.
FlushSend(outcome) ==
    /\ flush.step = "send"
    /\ CanEnd(outcome)
    /\ flush' = [flush EXCEPT !.step = "settle", !.delivered = (outcome = "delivered")]
    /\ accepted' = IF outcome = "failed" THEN accepted
                                         ELSE accepted \cup {Head(flush.todo).id}
    /\ UNCHANGED <<queue, nextId, now, link, stamps>>

\* Whether the flush is done with m after this attempt.
SettledWithoutAge(m) == TRUE
SettledIfDelivered(m) == flush.delivered
Settled(m) == flush.delivered \/ flush.at - m.at > MaxAge

\* Second critical section of the loop body: removeById, then the next entry.
FlushSettle ==
    /\ flush.step = "settle"
    /\ queue' = IF Settled(Head(flush.todo))
                THEN RemoveById(queue, Head(flush.todo).id) ELSE queue
    /\ flush' = IF Len(flush.todo) = 1 THEN NoFlush
                ELSE [flush EXCEPT !.step = "send", !.todo = Tail(@), !.delivered = FALSE]
    /\ UNCHANGED <<nextId, now, link, stamps, accepted>>

Tick ==
    /\ now < MaxNow
    /\ now' = now + 1
    /\ UNCHANGED <<queue, nextId, flush, link, stamps, accepted>>

\* WiFi and the uplink come and go by themselves.
LinkChange ==
    /\ link' \in Links \ {link}
    /\ UNCHANGED <<queue, nextId, flush, now, stamps, accepted>>

Next ==
    \/ \E outcome \in Outcomes : Broadcast(outcome) \/ FlushSend(outcome)
    \/ FlushStart
    \/ FlushSettle
    \/ Tick
    \/ LinkChange

Spec == Init /\ [][Next]_vars

\* loop() keeps running: a flush begins, each send of it ends somehow (the waits
\* for the TLS mutex and for an answer are bounded), each is settled; and time
\* passes.  No send is assumed ever to succeed.
Fairness ==
    /\ WF_vars(FlushStart)
    /\ WF_vars(\E outcome \in Outcomes : FlushSend(outcome))
    /\ WF_vars(FlushSettle)
    /\ WF_vars(Tick)

FairSpec == Spec /\ Fairness

-----------------------------------------------------------------------------
Ids(q) == {q[i].id : i \in DOMAIN q}
TooOld == {i \in DOMAIN stamps : now - stamps[i] > MaxAge}

Entry == [id : Nat \ {0}, at : Nat]

\* Type of the state; ids are dealt out once and count the stamps.
TypeOK ==
    /\ queue \in Seq(Entry)
    /\ nextId \in Nat \ {0}
    /\ flush \in [step : FlushSteps, todo : Seq(Entry), at : Nat, delivered : BOOLEAN]
    /\ flush.step # "idle" => flush.todo # <<>>
    /\ now \in Nat
    /\ link \in Links
    /\ stamps \in Seq(Nat)
    /\ Len(stamps) = nextId - 1
    /\ accepted \subseteq 1..(nextId - 1)

\* The queue never outgrows TELEGRAM_RETRY_QUEUE_CAPACITY, whatever tasks push
\* between the steps of a flush.
WithinCapacity == Len(queue) <= Capacity

\* Entries stay in the order they were queued, by id and by time: alerts are
\* retried oldest first, the entry evicted for room is the oldest, and
\* getTelegramRetryQueueStatus may read the oldest age off index 0.
OldestFirst ==
    \A i, j \in DOMAIN queue :
        i < j => queue[i].id < queue[j].id /\ queue[i].at <= queue[j].at

\* An alert that was queued is still queued, or Telegram accepted it, or it is
\* past its maximum age, or Capacity newer alerts were queued after it.  In
\* particular a flush never takes out an alert it did not deliver, and never
\* one that was queued while it was sending.
NoSilentLoss ==
    \A i \in 1..(nextId - 1) :
        \/ i \in Ids(queue)
        \/ i \in accepted
        \/ i \in TooOld
        \/ (nextId - 1) - i >= Capacity

\* An attempt settles only messages of the flush's copy: an alert queued after
\* the copy was taken survives every removal of that flush.
FlushSparesNewer ==
    [][flush.step = "settle" /\ flush'.step # "settle" =>
          Ids(queue) \ Ids(flush.todo) \subseteq Ids(queue')]_vars

\* While WiFi stays up the queue empties, though every send may fail for ever
\* (no uplink, or a chat that Telegram refuses): an entry that cannot be
\* delivered leaves by its age, whatever else is queued and evicted meanwhile.
Drains == <>[](link # "wifi_down") => <>[](queue = <<>>)

\* The queue implements the outbox.
Outbox == INSTANCE AlertOutbox WITH
            issued <- nextId - 1,
            pending <- Ids(queue),
            tooOld <- TooOld

ImplementsOutbox == Outbox!OutboxSpec

=============================================================================
