----------------------------- MODULE CommandPoll ----------------------------
(***************************************************************************)
(* The Telegram command channel of src/telegram_commands.cpp: loop() polls *)
(* getUpdates, handles the batch one update after the other and stores the *)
(* last update's id once per poll, /reset stores it before it restarts,    *)
(* and a configuration file is taken as a restore if its caption or an     *)
(* earlier /restore says so.                                               *)
(*                                                                         *)
(* An update is its sender and what it asks for: "reset"; "restore", the   *)
(* arming command; a bare "file"; a file "captioned" /restore; "other",    *)
(* whatever has no say in any of this - the remaining commands, buttons,   *)
(* stickers, unknown chats, and commands refused for want of permission or *)
(* by the rate limit.  Its id is its place in `sent`.                      *)
(***************************************************************************)
EXTENDS Integers, Sequences, SequencesExt, FiniteSetsExt

CONSTANTS
    Users,
    Window,         \* RESTORE_PENDING_WINDOW_MS, in ticks
    ClockRange,     \* the values of millis(), 2^32 of them
    MaxUpdates,     \* bound: updates sent
    MaxBatch,       \* Telegram's limit on one getUpdates
    MaxFailures     \* bound: crashes, and saves NVS refuses

ASSUME PollAssumption ==
    /\ {Window, ClockRange, MaxUpdates, MaxBatch} \subseteq Nat \ {0}
    /\ MaxFailures \in Nat
    /\ "nobody" \notin Users

VARIABLES
    sent,       \* Telegram: every update sent to the bot
    confirmed,  \* Telegram: updates up to this id are forgotten
    stored,     \* lastUpdateId in NVS
    last,       \* lastUpdateId in RAM, -1 before the first poll
    poll,       \* the poll loop() is in the middle of
    arm,        \* g_pendingRestoreChatId and millis() since it was set
    handled,    \* history: how often each update was handled
    failures,   \* history: [crashes, saves], crashes and refused saves
    asked       \* history: since boot, who sent a /restore and no file since

pollVars == <<sent, confirmed, stored, last, poll, arm, handled, failures, asked>>

Asks == {"reset", "restore", "file", "captioned", "other"}
Update == [from : Users, asks : Asks]
UpdateIds == 1..MaxUpdates

NoArm == [from |-> "nobody", age |-> 0]
NoPoll == [on |-> FALSE, start |-> 0, batch |-> <<>>]

PollInit ==
    /\ sent = <<>>
    /\ confirmed = 0
    /\ stored = 0
    /\ last = -1
    /\ poll = NoPoll
    /\ arm = NoArm
    /\ handled = [i \in UpdateIds |-> 0]
    /\ failures = [crashes |-> 0, saves |-> 0]
    /\ asked = {}

Send(update) ==
    /\ Len(sent) < MaxUpdates
    /\ sent' = Append(sent, update)
    /\ UNCHANGED <<confirmed, stored, last, poll, arm, handled, failures, asked>>

-----------------------------------------------------------------------------
\* getUpdates?offset=n: the oldest updates from n on, those before n forgotten.
Offset(id) == id + 1
Answer(offset) ==
    LET first == Max({offset, confirmed + 1})
    IN  [k \in 1..Min({MaxBatch, Max({0, Len(sent) - first + 1})}) |-> first + k - 1]

\* pollTelegramCommands up to the parsed answer.  Without the mutex, the
\* connection or a sound answer the poll ends with lastUpdateId loaded at most;
\* Telegram may have had the request all the same.
Loaded == IF last < 0 THEN stored ELSE last

PollStart ==
    /\ ~poll.on
    /\ last' = Loaded
    /\ poll' = [on |-> TRUE, start |-> Loaded, batch |-> Answer(Offset(Loaded))]
    /\ confirmed' = Max({confirmed, Offset(Loaded) - 1})
    /\ UNCHANGED <<sent, stored, arm, handled, failures, asked>>

PollFails ==
    /\ ~poll.on
    /\ last' = Loaded
    /\ confirmed' \in {confirmed, Max({confirmed, Offset(Loaded) - 1})}
    /\ UNCHANGED <<sent, stored, poll, arm, handled, failures, asked>>

Id == Head(poll.batch)
Current == sent[Id]

\* The next update of the batch: lastUpdateId first, then the handler.
TakenUnnoted ==
    /\ poll.on /\ poll.batch # <<>>
    /\ handled' = [handled EXCEPT ![Id] = @ + 1]
    /\ poll' = [poll EXCEPT !.batch = Tail(@)]
    /\ UNCHANGED <<sent, confirmed, last>>

Taken ==
    /\ poll.on /\ poll.batch # <<>>
    /\ handled' = [handled EXCEPT ![Id] = @ + 1]
    /\ last' = Max({last, Id})
    /\ poll' = [poll EXCEPT !.batch = Tail(@)]
    /\ UNCHANGED <<sent, confirmed>>

HandleOther ==
    /\ Taken
    /\ Current.asks = "other"
    /\ UNCHANGED <<stored, arm, failures, asked>>

HandleRestore ==
    /\ Taken
    /\ Current.asks = "restore"
    /\ arm' = [from |-> Current.from, age |-> 0]
    /\ asked' = asked \cup {Current.from}
    /\ UNCHANGED <<stored, failures>>

\* handleTelegramDocument: does this file count as a restore?
\* (long)(millis() - expiry) < 0 holds again half a clock range after it ended.
Armed(u) == arm.from = u.from
WithinWindow(age) == (age - Window) % ClockRange >= ClockRange \div 2
ArmStandsForAnyone(u) == arm.from # "nobody" /\ WithinWindow(arm.age)
ArmStands(u) == Armed(u) /\ WithinWindow(arm.age)
IsRestore(u) == u.asks = "captioned" \/ ArmStands(u)

HandleOnlyRestores ==
    /\ Taken
    /\ Current.asks \in {"file", "captioned"} /\ IsRestore(Current)
    /\ arm' = IF Armed(Current) THEN NoArm ELSE arm
    /\ asked' = asked \ {Current.from}
    /\ UNCHANGED <<stored, failures>>

HandleFile ==
    /\ Taken
    /\ Current.asks \in {"file", "captioned"}
    /\ arm' = IF Armed(Current) THEN NoArm ELSE arm
    /\ asked' = asked \ {Current.from}
    /\ UNCHANGED <<stored, failures>>

Booted == last' = -1 /\ poll' = NoPoll /\ arm' = NoArm /\ asked' = {}

\* saveLastUpdateId: what NVS refuses goes unnoticed.
Stores(id) ==
    \/ stored' = id /\ UNCHANGED failures
    \/ /\ failures.crashes + failures.saves < MaxFailures
       /\ failures' = [failures EXCEPT !.saves = @ + 1]
       /\ UNCHANGED stored

\* /reset stores the id, replies and restarts.
ResetStoresBatch(id) == Stores(Max({id} \cup Range(poll.batch)))
ResetStores(id) == Stores(id)

HandleReset ==
    /\ poll.on /\ poll.batch # <<>>
    /\ Current.asks = "reset"
    /\ handled' = [handled EXCEPT ![Id] = @ + 1]
    /\ ResetStores(Max({last, Id}))
    /\ Booted
    /\ UNCHANGED <<sent, confirmed>>

PollEnd ==
    /\ poll.on /\ poll.batch = <<>>
    /\ IF last # poll.start THEN Stores(last) ELSE UNCHANGED <<stored, failures>>
    /\ poll' = NoPoll
    /\ UNCHANGED <<sent, confirmed, last, arm, handled, asked>>

Crash ==
    /\ failures.crashes + failures.saves < MaxFailures
    /\ failures' = [failures EXCEPT !.crashes = @ + 1]
    /\ Booted
    /\ UNCHANGED <<sent, confirmed, stored, handled>>

ArmAges ==
    /\ arm.from # "nobody"
    /\ arm' = [arm EXCEPT !.age = (@ + 1) % ClockRange]
    /\ UNCHANGED <<sent, confirmed, stored, last, poll, handled, failures, asked>>

Handle == HandleOther \/ HandleRestore \/ HandleFile \/ HandleReset

PollNext ==
    \/ \E update \in Update : Send(update)
    \/ PollStart
    \/ PollFails
    \/ HandleOther
    \/ HandleRestore
    \/ HandleFile
    \/ HandleReset
    \/ PollEnd
    \/ Crash
    \/ ArmAges

PollSpec == PollInit /\ [][PollNext]_pollVars

\* loop() polls on and on, and Telegram answers in the end.
FairPollSpec ==
    /\ PollSpec
    /\ WF_pollVars(PollStart) /\ WF_pollVars(Handle) /\ WF_pollVars(PollEnd)

-----------------------------------------------------------------------------
\* No command is lost: what Telegram has forgotten, and what the board will
\* never ask for again, has been handled.
NoUpdateSkipped ==
    \A i \in DOMAIN sent :
        i <= confirmed \/ i <= stored \/ (~poll.on /\ i <= last) => handled[i] > 0

\* A command is carried out again only after a crash before its poll was over,
\* or because NVS refused the id.  A /reset is not even repeated by a crash: "a
\* redelivered /reset once caused an endless reboot loop".
RepeatsNeedFailure ==
    \A i \in DOMAIN sent :
        handled[i] <= 1 + failures.saves
                        + (IF sent[i].asks = "reset" THEN 0 ELSE failures.crashes)

\* A bare file changes the configuration only if its own sender asked for it
\* since boot, and no other file of theirs has answered that already.
RestoreWasAskedFor ==
    [][HandleFile /\ Current.asks = "file" /\ IsRestore(Current)
        => Current.from \in asked]_pollVars

\* Whatever is sent is handled in the end.
EventuallyHandled ==
    \A i \in UpdateIds : (i \in DOMAIN sent) ~> (handled[i] > 0)

=============================================================================
