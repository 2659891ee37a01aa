------------------------------ MODULE ListStore ------------------------------
(***************************************************************************)
(* A list of records in NVS: the cameras (src/camera_store.cpp) or the     *)
(* Telegram users (src/telegram_users.cpp), and the import and the backup  *)
(* of src/config_backup.cpp.  A list is serialized to one text, cut into   *)
(* chunks and written key by key, with a reset or a refused write possible *)
(* between any two keys.  Edits hold the store's mutex over their load and *)
(* their save; plain loads do not, although a load may itself save.        *)
(*                                                                         *)
(* A record is written as two pieces, the head with its name and the tail  *)
(* with the fields later versions appended, so that a chunk boundary can   *)
(* fall inside one.  A head starts a record, as the record separator does. *)
(***************************************************************************)
EXTENDS SettingsForms

CONSTANTS
    Kinds,          \* the stores explored: "camera", "user"
    Names,          \* 1..n, in the order the names sort
    ChunkPieces,    \* NVS_CHUNK_MAX_BYTES, in pieces
    MaxRecords,     \* bound: records in a list
    MaxChanges,     \* bound: edits, imports and restores
    MaxFaults       \* bound: writes NVS refuses, and resets

ASSUME ConstantsAssumption ==
    /\ Kinds \subseteq {"camera", "user"}
    /\ {ChunkPieces, MaxRecords} \subseteq Nat \ {0}
    /\ {MaxChanges, MaxFaults} \subseteq Nat
    /\ Names \subseteq Nat

VARIABLES
    kind,       \* which of the two stores this is
    nvs,        \* the keys of its namespace, and of the backup's
    job,        \* per task, the save or import it is in the middle of
    lock,       \* the task that holds the store's mutex
    boot,       \* how far setup() has come, and the seeds still to add
    used,       \* history: what the bounds count
    allowed,    \* history: the lists that may be stored, as far as edits go
    mixed,      \* history: a save of more than one key's worth was cut short
    undo        \* history: the list an import replaced, while a restore of
                \* the backup is to bring it back

vars == <<kind, nvs, job, lock, boot, used, allowed, mixed, undo>>

Tasks == {"web", "loop"}
NoTask == "none"
NoKey == -1

Current == IF kind = "camera" THEN 8 ELSE 6

\* A camera's key is its name, a user's its name and its chat id.
Records ==
    IF kind = "camera"
    THEN {[name |-> n, id |-> n, v |-> w, late |-> w] : n \in Names, w \in 0..1}
    ELSE {[name |-> n, id |-> i, v |-> 0, late |-> 0] : n \in Names, i \in Names}

Clash(r, s) == r.name = s.name \/ r.id = s.id

Clashing(list) ==
    \E i, j \in DOMAIN list : i < j /\ Clash(list[i], list[j])

----------------------------------------------------------------------------
(***************************************************************************)
(* Text and chunks                                                         *)
(***************************************************************************)
Prose == [part |-> "prose"]

HeadOf(r) == [part |-> "head", name |-> r.name, id |-> r.id, v |-> r.v]
TailOf(r, version) == [part |-> "tail", late |-> r.late, version |-> version]

Pieces(list, version) ==
    [p \in 1..(2 * Len(list)) |->
        IF p % 2 = 1 THEN HeadOf(list[(p + 1) \div 2])
                     ELSE TailOf(list[p \div 2], version)]

\* As many keys as the longest text, a backup with its prose, may need.
ChunkKeys == 1..(2 * MaxRecords + 1)

SplitIntoChunks(text) ==
    [k \in 1..((Len(text) + ChunkPieces - 1) \div ChunkPieces) |->
        SubSeq(text, (k - 1) * ChunkPieces + 1,
               IF k * ChunkPieces < Len(text) THEN k * ChunkPieces
                                              ELSE Len(text))]

JoinChunks(area) == FlattenSeq([k \in 1..area.count |-> area.chunk[k]])

\* A record reaches from a head to the next; it parses if a tail is all that
\* follows and the schema's reader takes that many fields.
Starts(text) == {p \in DOMAIN text : text[p].part = "head"}

ParsesAt(text, p, schema) ==
    /\ p + 1 \in DOMAIN text
    /\ text[p + 1].part = "tail"
    /\ p + 2 \in DOMAIN text => text[p + 2].part # "tail"
    /\ Accepts(kind, schema, Len(Reader(kind, text[p + 1].version)))

\* The version 0 reader leaves the appended fields at their defaults.
RecordAt(text, p, schema) ==
    [name |-> text[p].name, id |-> text[p].id, v |-> text[p].v,
     late |-> IF schema = 0 THEN 0 ELSE text[p + 1].late]

Good(text, schema) == {p \in Starts(text) : ParsesAt(text, p, schema)}

Ascending(S) ==
    CHOOSE f \in [1..Cardinality(S) -> S] :
        \A i, j \in DOMAIN f : i < j => f[i] < f[j]

Parse(text, schema) ==
    LET at == Ascending(Good(text, schema))
    IN [list |-> [i \in DOMAIN at |-> RecordAt(text, at[i], schema)],
        dropped |-> 2 * Len(at) # Len(text)]

\* Cameras are kept by name, users in the order they were added.
ByName(list) ==
    IF kind = "camera"
    THEN LET order == CHOOSE p \in Bijection(DOMAIN list, DOMAIN list) :
                        \A i, j \in DOMAIN list :
                            i < j => list[p[i]].name <= list[p[j]].name
         IN [i \in DOMAIN list |-> list[order[i]]]
    ELSE list

----------------------------------------------------------------------------
(***************************************************************************)
(* Loading                                                                 *)
(***************************************************************************)
Seed ==
    <<[name |-> 1, id |-> 1, v |-> 0, late |-> 0]>>

Fresh == nvs.list.count = NoKey /\ nvs.legacy = <<>>

StoredText ==
    IF nvs.list.count # NoKey THEN JoinChunks(nvs.list) ELSE nvs.legacy

Stored == Parse(StoredText, nvs.schema)

Loaded == IF Fresh THEN Seed ELSE ByName(Stored.list)

\* A load saves what it read when the board is new, or when the records are
\* of another version and every one of them parsed.
LoadSaves == Fresh \/ (~Stored.dropped /\ nvs.schema # Current)

----------------------------------------------------------------------------
Idle == [pc |-> "idle"]

\* A save only removes chunks below the old count: what a save that was cut
\* short wrote behind it stays.
Leftover == \E k \in ChunkKeys : k > nvs.list.count /\ nvs.list.chunk[k] # <<>>

\* Only a save that replaces one key's worth of current records by another
\* is a single write that counts; and a chunk left behind the count comes back
\* if a later save writes the count but not the chunk.
Risky(target) ==
    \/ nvs.legacy # <<>> \/ nvs.schema # Current
    \/ nvs.list.count \notin 0..1
    \/ Leftover
    \/ Len(SplitIntoChunks(Pieces(target, Current))) > 1

ListBusy(t) == job[t].pc # "idle" /\ job[t].area = "list"

Save(target, next, locked) ==
    [pc |-> "keys", area |-> "list", i |-> 1, target |-> target,
     next |-> next, locked |-> locked, ok |-> TRUE, risky |-> Risky(target)]

SaveBackup(target, next) ==
    [pc |-> "keys", area |-> "backup", i |-> 1, target |-> target,
     next |-> next, locked |-> FALSE, ok |-> TRUE, risky |-> FALSE]

TextOf(j) ==
    IF j.area = "list" THEN Pieces(j.target, Current)
    ELSE <<Prose>> \o Pieces(j.target, Current)

\* A load that saves without the mutex may meet another save; saves under the
\* mutex may not.
Overlapped(t, locked) ==
    \E other \in Tasks \ {t} :
        ListBusy(other) /\ ~(locked /\ job[other].locked)

\* Mutant: the mutex is not taken.
LoadThenSaveUnlocked(t, target, locked) ==
    LET first == IF LoadSaves THEN Save(Loaded, <<target>>, locked)
                              ELSE Save(target, <<>>, locked)
    IN /\ job' = [job EXCEPT ![t] = first]
       /\ lock' = lock
       /\ allowed' = allowed \cup {ByName(Loaded), ByName(target)}
       /\ mixed' = (mixed \/ Overlapped(t, locked))

\* A task's load-modify-save: if the load has to save first, that save and
\* then this one.
LoadThenSave(t, target, locked) ==
    LET first == IF LoadSaves THEN Save(Loaded, <<target>>, locked)
                              ELSE Save(target, <<>>, locked)
    IN /\ job' = [job EXCEPT ![t] = first]
       /\ lock' = IF locked THEN t ELSE lock
       /\ allowed' = allowed \cup {ByName(Loaded), ByName(target)}
       /\ mixed' = (mixed \/ Overlapped(t, locked))

NoUndo == [phase |-> "none"]

Init ==
    /\ kind \in Kinds
    /\ \E list \in {<<>>, Seed}, version \in {0, Current - 1, Current},
          newer \in BOOLEAN, place \in {"none", "legacy", "list"} :
        LET written == IF newer THEN Current ELSE version
            text == Pieces(list, written)
            old == place = "legacy" /\ list # <<>>
        IN nvs = [list |-> [count |-> IF place = "list"
                                      THEN Len(SplitIntoChunks(text)) ELSE NoKey,
                            chunk |-> [k \in ChunkKeys |->
                                IF place = "list" /\ k \in DOMAIN SplitIntoChunks(text)
                                THEN SplitIntoChunks(text)[k] ELSE <<>>]],
                  legacy |-> IF old THEN text ELSE <<>>,
                  schema |-> IF old \/ place = "list" THEN version ELSE 0,
                  backup |-> [count |-> 0,
                              chunk |-> [k \in ChunkKeys |-> <<>>]],
                  seeded |-> kind = "camera" /\ place = "list"]
    /\ job = [t \in Tasks |-> Idle]
    /\ lock = NoTask
    /\ boot = [at |-> "off", todo |-> <<>>]
    /\ used = [changes |-> 0, faults |-> 0]
    /\ allowed = {Loaded}
    /\ mixed = FALSE
    /\ undo = NoUndo

----------------------------------------------------------------------------
(***************************************************************************)
(* Writing, one key at a time                                              *)
(***************************************************************************)
Writing(t) == job[t].pc = "keys"

ChunksOf(t) == SplitIntoChunks(TextOf(job[t]))

Fault ==
    /\ used.faults < MaxFaults
    /\ used' = [used EXCEPT !.faults = @ + 1]

PutChunk(t) ==
    /\ Writing(t)
    /\ job[t].i <= Len(ChunksOf(t))
    /\ \/ /\ nvs' = [nvs EXCEPT ![job[t].area].chunk[job[t].i] =
                        ChunksOf(t)[job[t].i]]
          /\ job' = [job EXCEPT ![t].i = @ + 1]
          /\ UNCHANGED used
       \/ /\ Fault
          /\ job' = [job EXCEPT ![t].i = @ + 1, ![t].ok = FALSE]
          /\ UNCHANGED nvs
    /\ UNCHANGED <<kind, lock, boot, allowed, mixed, undo>>

ChunksPut(t) == Writing(t) /\ job[t].i > Len(ChunksOf(t))

RemoveChunk(t) ==
    /\ ChunksPut(t)
    /\ job[t].i <= nvs[job[t].area].count
    /\ nvs' = [nvs EXCEPT ![job[t].area].chunk[job[t].i] = <<>>]
    /\ job' = [job EXCEPT ![t].i = @ + 1]
    /\ UNCHANGED <<kind, lock, boot, used, allowed, mixed, undo>>

HasLegacy(t) == job[t].area = "list" /\ nvs.legacy # <<>>

RemoveLegacy(t) ==
    /\ ChunksPut(t)
    /\ job[t].i > nvs[job[t].area].count
    /\ HasLegacy(t)
    /\ nvs' = [nvs EXCEPT !.legacy = <<>>]
    /\ UNCHANGED <<kind, job, lock, boot, used, allowed, mixed, undo>>

PutCount(t) ==
    /\ ChunksPut(t)
    /\ job[t].i > nvs[job[t].area].count
    /\ ~HasLegacy(t)
    /\ LET after == IF job[t].area = "list" THEN "schema" ELSE "saved"
       IN \/ /\ nvs' = [nvs EXCEPT ![job[t].area].count = Len(ChunksOf(t))]
             /\ job' = [job EXCEPT ![t].pc = after]
             /\ UNCHANGED used
          \/ /\ Fault
             /\ job' = [job EXCEPT ![t].pc = after, ![t].ok = FALSE]
             /\ UNCHANGED nvs
    /\ UNCHANGED <<kind, lock, boot, allowed, mixed, undo>>

PutSchema(t) ==
    /\ job[t].pc = "schema"
    /\ \/ /\ nvs' = [nvs EXCEPT !.schema = Current]
          /\ job' = [job EXCEPT ![t].pc = "saved"]
          /\ UNCHANGED used
       \/ /\ Fault
          /\ job' = [job EXCEPT ![t].pc = "saved", ![t].ok = FALSE]
          /\ UNCHANGED nvs
    /\ UNCHANGED <<kind, lock, boot, allowed, mixed, undo>>

\* The save returns: to the edit whose load it was, or to the caller, which
\* gives the mutex back.
SaveReturns(t) ==
    /\ job[t].pc = "saved" /\ job[t].area = "list"
    /\ IF job[t].next # <<>>
       THEN /\ job' = [job EXCEPT ![t] = Save(job[t].next[1], <<>>, job[t].locked)]
            /\ UNCHANGED <<lock, undo>>
       ELSE /\ job' = [job EXCEPT ![t] = Idle]
            /\ lock' = IF job[t].locked THEN NoTask ELSE lock
            /\ undo' = CASE undo.phase = "importing" /\ job[t].ok ->
                                [undo EXCEPT !.phase = "imported"]
                         [] undo.phase = "restoring" /\ job[t].ok ->
                                [undo EXCEPT !.phase = "restored"]
                         [] undo.phase = "none" -> undo
                         [] OTHER -> NoUndo
    /\ allowed' = IF job[t].ok /\ job[t].next = <<>> /\ ~mixed
                  THEN {ByName(job[t].target)} ELSE allowed
    /\ mixed' = (mixed \/ (job[t].risky /\ ~job[t].ok))
    /\ UNCHANGED <<kind, nvs, boot, used>>

----------------------------------------------------------------------------
(***************************************************************************)
(* Edits, loads, imports                                                   *)
(***************************************************************************)
Free(t) == boot.at = "up" /\ job[t].pc = "idle"

Changes ==
    /\ used.changes < MaxChanges
    /\ used' = [used EXCEPT !.changes = @ + 1]

\* Add, delete, replace one record under another name or the same, or change
\* every record; an addition or replacement that clashes is refused.
Additions ==
    {Append(Loaded, r) : r \in {s \in Records :
        Len(Loaded) < MaxRecords
        /\ \A i \in DOMAIN Loaded : ~Clash(Loaded[i], s)}}

\* Mutant: a rename is compared with its own slot only.
ReplacementsUnchecked ==
    {ReplaceAt(Loaded, p[1], p[2]) : p \in (DOMAIN Loaded) \X Records}

Deletions == {RemoveAt(Loaded, i) : i \in DOMAIN Loaded}

Replacements ==
    {ReplaceAt(Loaded, p[1], p[2]) : p \in {q \in (DOMAIN Loaded) \X Records :
        \A i \in DOMAIN Loaded \ {q[1]} : ~Clash(Loaded[i], q[2])}}

UpdatesOfAll ==
    IF kind = "camera" /\ Loaded # <<>>
    THEN {[i \in DOMAIN Loaded |-> [Loaded[i] EXCEPT !.v = w, !.late = w]] : w \in 0..1}
    ELSE {}

Edit(t) ==
    /\ Free(t) /\ lock = NoTask /\ Changes
    /\ \E target \in Additions \cup Deletions \cup Replacements \cup UpdatesOfAll :
        LoadThenSave(t, target, TRUE)
    /\ undo' = NoUndo
    /\ UNCHANGED <<kind, nvs, boot>>

\* Any page, export or check that loads the list, without the mutex.
Load(t) ==
    /\ Free(t) /\ LoadSaves
    /\ job' = [job EXCEPT ![t] = Save(Loaded, <<>>, FALSE)]
    /\ allowed' = allowed \cup {ByName(Loaded)}
    /\ mixed' = (mixed \/ Overlapped(t, FALSE))
    /\ undo' = NoUndo
    /\ UNCHANGED <<kind, nvs, lock, boot, used>>

Files == {<<>>} \cup {<<r>> : r \in Records} \cup {<<r, s>> : r, s \in Records}

\* The backup of what is stored now comes first; `file` is already parsed.
Import(t) ==
    /\ Free(t) /\ ~LoadSaves /\ Changes
    /\ \E file \in Files :
        /\ Len(file) <= MaxRecords
        /\ job' = [job EXCEPT ![t] = SaveBackup(Loaded, <<file>>)]
    /\ undo' = IF \A other \in Tasks : job[other].pc = "idle"
               THEN [phase |-> "importing", list |-> Loaded] ELSE NoUndo
    /\ UNCHANGED <<kind, nvs, lock, boot, allowed, mixed>>

\* Importing the backup: its text is read before a new one is written.
BackupText == JoinChunks(nvs.backup)

\* Mutant: the backup is written before the one to restore is read.
RestoreAfterBackup(t) ==
    /\ Free(t) /\ ~LoadSaves /\ Changes
    /\ BackupText # <<>>
    /\ job' = [job EXCEPT ![t] = SaveBackup(Loaded, <<Loaded>>)]
    /\ undo' = IF undo.phase = "imported" /\ \A other \in Tasks : job[other].pc = "idle"
               THEN [undo EXCEPT !.phase = "restoring"] ELSE NoUndo
    /\ UNCHANGED <<kind, nvs, lock, boot, allowed, mixed>>

Restore(t) ==
    /\ Free(t) /\ ~LoadSaves /\ Changes
    /\ BackupText # <<>>
    /\ LET file == Parse(BackupText, Current).list
       IN /\ Len(file) <= MaxRecords
          /\ job' = [job EXCEPT ![t] = SaveBackup(Loaded, <<file>>)]
    /\ undo' = IF undo.phase = "imported" /\ \A other \in Tasks : job[other].pc = "idle"
               THEN [undo EXCEPT !.phase = "restoring"] ELSE NoUndo
    /\ UNCHANGED <<kind, nvs, lock, boot, allowed, mixed>>

\* After the backup, saved or not: a list that clashes with itself is
\* rejected, any other replaces the stored one under the mutex.
Apply(t) ==
    /\ job[t].pc = "saved" /\ job[t].area = "backup"
    /\ LET target == job[t].next[1]
           kept == IF job[t].ok THEN undo ELSE NoUndo
       IN IF Clashing(target)
          THEN /\ job' = [job EXCEPT ![t] = Idle]
               /\ undo' = IF kept.phase = "importing"
                          THEN [kept EXCEPT !.phase = "imported"] ELSE NoUndo
               /\ UNCHANGED <<lock, allowed, mixed>>
          ELSE /\ lock = NoTask
               /\ job' = [job EXCEPT ![t] = Save(target, <<>>, TRUE)]
               /\ lock' = t
               /\ allowed' = allowed \cup {ByName(target)}
               /\ mixed' = (mixed \/ Overlapped(t, TRUE))
               /\ undo' = kept
    /\ UNCHANGED <<kind, nvs, boot, used>>

----------------------------------------------------------------------------
(***************************************************************************)
(* Boot and reset                                                          *)
(***************************************************************************)
Missing ==
    IF \E i \in DOMAIN Loaded : Loaded[i].name = Seed[1].name THEN <<>> ELSE Seed

BootLoad ==
    /\ boot.at = "off"
    /\ boot' = [at |-> "seeds",
                todo |-> IF kind = "camera" /\ ~nvs.seeded THEN Missing ELSE <<>>]
    /\ job' = [job EXCEPT !["loop"] =
                IF LoadSaves THEN Save(Loaded, <<>>, FALSE) ELSE Idle]
    /\ allowed' = allowed \cup {ByName(Loaded)}
    /\ UNCHANGED <<kind, nvs, lock, used, mixed, undo>>

\* One seed camera the list has not got is added like any other.
BootSeed ==
    /\ boot.at = "seeds" /\ boot.todo # <<>>
    /\ job["loop"].pc = "idle"
    /\ boot' = [boot EXCEPT !.todo = Tail(@)]
    /\ LET s == Head(boot.todo)
       IN IF Len(Loaded) >= MaxRecords \/ \E i \in DOMAIN Loaded : Clash(Loaded[i], s)
          THEN UNCHANGED <<job, lock, allowed, mixed, undo>>
          ELSE LoadThenSave("loop", Append(Loaded, s), TRUE) /\ undo' = NoUndo
    /\ UNCHANGED <<kind, nvs, used>>

\* The flag that ends the seeding is put without a look at the result: if NVS
\* refuses it, the next boot seeds again.
BootEnds ==
    /\ boot.at = "seeds" /\ boot.todo = <<>>
    /\ job["loop"].pc = "idle"
    /\ boot' = [boot EXCEPT !.at = "up"]
    /\ nvs' \in {nvs, [nvs EXCEPT !.seeded = (kind = "camera")]}
    /\ UNCHANGED <<kind, job, lock, used, allowed, mixed, undo>>

Crash ==
    /\ Fault
    /\ boot' = [at |-> "off", todo |-> <<>>]
    /\ job' = [t \in Tasks |-> Idle]
    /\ lock' = NoTask
    /\ mixed' = (mixed \/ \E t \in Tasks : ListBusy(t) /\ job[t].risky)
    /\ undo' = IF undo.phase \in {"importing", "restoring"} THEN NoUndo ELSE undo
    /\ UNCHANGED <<kind, nvs, allowed>>

Step(t) ==
    \/ PutChunk(t) \/ RemoveChunk(t) \/ RemoveLegacy(t)
    \/ PutCount(t) \/ PutSchema(t) \/ SaveReturns(t)
    \/ Edit(t) \/ Load(t) \/ Import(t) \/ Restore(t) \/ Apply(t)

Next ==
    \/ \E t \in Tasks : Step(t)
    \/ BootLoad \/ BootSeed \/ BootEnds
    \/ Crash

Spec == Init /\ [][Next]_vars

----------------------------------------------------------------------------
(***************************************************************************)
(* Properties                                                              *)
(***************************************************************************)
Torn == mixed \/ \E t \in Tasks : ListBusy(t) /\ job[t].risky

\* As long as lists fit one chunk and are of the current version, a reset or
\* a refused write at any point of a save leaves the list as it was or as it
\* was to be, and an edit that succeeded stays: no task's save undoes
\* another's (saveCameras, saveTelegramUsers and the mutexes around them).
SavesAreWhole == ~Torn => Loaded \in allowed

\* No two stored records share a name, or two users a chat id, whatever is
\* added, renamed, imported or restored (addCamera, updateCamera,
\* addTelegramUser, updateTelegramUser, parseConfigImport).
KeysAreUnique == ~Torn => ~Clashing(Loaded)

\* Importing the backup that an import left brings back the list as it was,
\* if nothing failed and nobody edited meanwhile (applyConfigImport).
RestoreUndoesImport == undo.phase = "restored" => Loaded = undo.list

\* The first boot of this firmware finds what any earlier one stored: see
\* EveryVersionReads (the deserialize functions of camera_serialize.cpp,
\* telegram_user_serialize.cpp and network_serialize.cpp).
FirstBoot == boot.at = "off" /\ used.faults = 0
RecordsUpgrade == FirstBoot => EveryVersionReads

\* Editing through the forms stores values in range and keeps what a form can
\* store: see FormsRoundTrip (parseCameraForm, renderCameraForm, parseUserForm,
\* renderTelegramUserForm, saveCameraSubmission).
FormsKeepSettings == FirstBoot => FormsRoundTrip

=============================================================================
