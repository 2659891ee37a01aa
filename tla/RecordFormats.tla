---------------------------- MODULE RecordFormats ----------------------------
(***************************************************************************)
(* The stored and exported form of a camera, a Telegram user and the       *)
(* network settings: one sequence of fields per record, and one reader for *)
(* every schema version there has been.  A field is written as a text; a   *)
(* reader converts it back, falls back to the field's default where the    *)
(* code does, and refuses a record whose number of fields is not its own.  *)
(*                                                                         *)
(* A record is written by one layout only, the current one; older versions *)
(* wrote a prefix of it, since fields were only ever appended.  Splitting a *)
(* line at its separators is abstracted: a record is a sequence of fields. *)
(***************************************************************************)
EXTENDS Naturals, Sequences, SequencesExt, FiniteSetsExt

Digits == <<"0", "1", "2">>     \* the numbers a sample record holds

Texts == {"name", "deviceServiceUrl", "snapshotUriOverride", "user", "pass",
          "preferredProfileKeyword", "notes",
          "chatId", "cameraNames",
          "ssid", "backupSsid", "hostname", "staticIP", "staticSubnet",
          "staticGateway", "staticDNS", "ntpServer", "posixTz"}

Numbers == {"alertCooldownMs", "offlineThresholdMs", "snapshotBurstCount",
            "quietStartMinute", "quietEndMinute", "motionWatchdogHours",
            "timelapseIntervalMin", "pollIntervalMs", "retentionDays",
            "snapshotMaxWidth", "snapshotMaxHeight",
            "maxCommandsPerMinute", "language", "ntpSyncIntervalMs"}

\* Flags that are on unless turned off; only the last three are read so.
OnByDefault == {"enabled", "useWSSecurity", "personAlertsEnabled",
                "vehicleAlertsEnabled", "motionDigestEnabled"}

OptOut == {"personAlertsEnabled", "vehicleAlertsEnabled",
           "motionDigestEnabled"}

\* The values a default-constructed record has.
Fallback(f) ==
    CASE f \in Texts -> ""
      [] f \in Numbers -> 0
      [] OTHER -> f \in OnByDefault

\* String(n), "1" or "0", or the text itself.
Written(f, value) ==
    CASE f \in Texts -> value
      [] f \in Numbers -> Digits[value + 1]
      [] OTHER -> IF value THEN "1" ELSE "0"

\* A blank number, or a blank opt-out flag, keeps the default; any other
\* flag is on for "1" alone.  A language other than 1 is English.
ReadBack(f, text) ==
    IF text = "" /\ f \in Numbers \cup OptOut THEN Fallback(f)
    ELSE CASE f \in Texts -> text
           [] f = "language" -> IF text = "1" THEN 1 ELSE 0
           [] f \in Numbers \ {"language"} ->
                SelectInSeq(Digits, LAMBDA d : d = text) - 1
           [] OTHER -> text = "1"

CameraLayout == <<
    "name", "deviceServiceUrl", "enabled", "useWSSecurity",
    "includeInitialTerminationTime", "includeReplyToAnonymous",
    "snapshotUriOverride", "preferredProfileKeyword", "user", "pass", "notes",
    "alertCooldownMs", "offlineThresholdMs", "snapshotBurstCount",
    "quietHoursEnabled", "quietStartMinute", "quietEndMinute",
    "motionWatchdogHours", "timelapseIntervalMin", "pollIntervalMs",
    "timelapseSendToTelegram", "retentionDays", "petAlertsEnabled",
    "petAlertsTextOnly", "snapshotMaxWidth", "snapshotMaxHeight",
    "personAlertsEnabled", "vehicleAlertsEnabled", "motionDigestEnabled">>

UserLayout == <<
    "name", "chatId", "allCameras", "cameraNames", "systemMessages",
    "canCommand", "canSnap", "canReset", "maxCommandsPerMinute", "language",
    "canBackup", "canRestore">>

NetworkLayout == <<
    "ssid", "backupSsid", "hostname", "useStaticIP", "staticIP",
    "staticSubnet", "staticGateway", "staticDNS", "ntpServer",
    "ntpSyncIntervalMs", "posixTz">>

Serialize(layout, record) ==
    [k \in DOMAIN layout |-> Written(layout[k], record[layout[k]])]

(***************************************************************************)
(* The readers: which field each version takes from which place.           *)
(***************************************************************************)
CameraV0 == <<
    "name", "deviceServiceUrl", "enabled", "useWSSecurity",
    "includeInitialTerminationTime", "includeReplyToAnonymous",
    "snapshotUriOverride", "preferredProfileKeyword", "user", "pass", "notes",
    "alertCooldownMs", "offlineThresholdMs", "snapshotBurstCount">>
CameraV1 == CameraV0
CameraV2 == CameraV1 \o <<"quietHoursEnabled", "quietStartMinute",
                "quietEndMinute", "motionWatchdogHours",
                "timelapseIntervalMin">>
\* Mutant: a later field was put before the one version 3 added.
CameraV3Shifted == Append(CameraV2, "timelapseSendToTelegram")
CameraV3 == Append(CameraV2, "pollIntervalMs")
CameraV4 == CameraV3 \o <<"timelapseSendToTelegram", "retentionDays">>
CameraV5 == CameraV4 \o <<"petAlertsEnabled", "petAlertsTextOnly">>
CameraV6 == CameraV5 \o <<"snapshotMaxWidth", "snapshotMaxHeight">>
CameraV7 == CameraV6 \o <<"personAlertsEnabled", "vehicleAlertsEnabled">>
CameraV8 == Append(CameraV7, "motionDigestEnabled")

UserV0 == <<"name", "chatId", "allCameras", "cameraNames", "systemMessages",
            "canCommand", "canSnap">>
UserV1 == UserV0
UserV2 == Append(UserV1, "canReset")
UserV3 == Append(UserV2, "maxCommandsPerMinute")
UserV4 == Append(UserV3, "language")
UserV5 == Append(UserV4, "canBackup")
UserV6 == Append(UserV5, "canRestore")

NetworkV1 == <<
    "ssid", "backupSsid", "hostname", "useStaticIP", "staticIP",
    "staticSubnet", "staticGateway", "staticDNS", "ntpServer",
    "ntpSyncIntervalMs", "posixTz">>

\* deserializeCamera and deserializeUser: a version this build does not know
\* is read by its newest reader.  Readers are numbered from version 0.
CameraReader(version) ==
    LET readers == <<CameraV0, CameraV1, CameraV2, CameraV3, CameraV4,
                     CameraV5, CameraV6, CameraV7, CameraV8>>
    IN IF version < Len(readers) THEN readers[version + 1] ELSE CameraV8

UserReader(version) ==
    LET readers == <<UserV0, UserV1, UserV2, UserV3, UserV4, UserV5, UserV6>>
    IN IF version < Len(readers) THEN readers[version + 1] ELSE UserV6

Reader(kind, version) ==
    CASE kind = "camera" -> CameraReader(version)
      [] kind = "user" -> UserReader(version)
      [] kind = "network" -> NetworkV1

\* The fields every record had before there were versions.
Unversioned(kind) == IF kind = "camera" THEN 11 ELSE 6

\* Version 0 only asks for a least number of fields, any other for its own.
Accepts(kind, version, fields) ==
    IF version = 0 /\ kind # "network" THEN fields >= Unversioned(kind)
    ELSE fields = Len(Reader(kind, version))

Deserialize(kind, version, fields) ==
    LET reader == Reader(kind, version)
        Place(f) == SelectInSeq(reader, LAMBDA g : g = f)
    IN [f \in Range(Reader(kind, 99)) |->
            IF Place(f) \in 1..Len(fields) THEN ReadBack(f, fields[Place(f)])
            ELSE Fallback(f)]

(***************************************************************************)
(* Samples: the default record, and records that differ from it in one     *)
(* field, so that a reader that takes a field from a wrong place shows.    *)
(***************************************************************************)
Layouts == [camera |-> CameraLayout, user |-> UserLayout,
            network |-> NetworkLayout]
Versions == [camera |-> 0..8, user |-> 0..6, network |-> {1}]

Other(f) ==
    CASE f \in Texts -> "1"
      [] f \in Numbers -> 1
      [] OTHER -> f \notin OnByDefault

Samples(layout) ==
    LET base == [f \in Range(layout) |-> Fallback(f)]
    IN {base} \cup {[base EXCEPT ![f] = Other(f)] : f \in Range(layout)}

\* Every record written under an earlier version comes back with the fields
\* that version had and the defaults for the ones added since, and a current
\* one comes back whole; no reader takes a record of another version, except
\* that version 0 also takes longer ones.
EveryVersionReads ==
    \A kind \in DOMAIN Layouts : \A version \in Versions[kind] :
        LET layout == Layouts[kind]
            size == Len(Reader(kind, version))
        IN /\ \A record \in Samples(layout) :
                Deserialize(kind, version,
                            SubSeq(Serialize(layout, record), 1, size)) =
                    [f \in Range(layout) |->
                        IF SelectInSeq(layout, LAMBDA g : g = f) <= size
                        THEN record[f] ELSE Fallback(f)]
           /\ Accepts(kind, version, size)
           /\ \A later \in Versions[kind] :
                /\ version > 0
                /\ Len(Reader(kind, later)) # size
                => ~Accepts(kind, version, Len(Reader(kind, later)))
==============================================================================
