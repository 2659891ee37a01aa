----------------------- MODULE HardwareSettingsProofs -----------------------
(***************************************************************************)
(* The safety properties of HardwareSettings for any set of GPIO numbers,  *)
(* with and without failing NVS writes.                                    *)
(***************************************************************************)
EXTENDS HardwareSettings, TLAPS

\* No enabled feature has an unsafe pin, no two enabled ones the same pin.
Sound(store) ==
    \A f \in Features :
        /\ store[f].enabled => ~IsReservedOrUnsafePin(store[f].pin)
        /\ \A g \in Features \ {f} : ~WatchdogPinsConflict(store[f], store[g])

\* What is stored once the page's save is through.
Finished == IF page = NoSave THEN nvs ELSE [nvs EXCEPT ![page.feature] = page.new]

\* The keys of the page's save up to `at` are written.
Progress ==
    page # NoSave =>
        /\ page.at > 1 => nvs[page.feature].enabled = page.new.enabled
        /\ page.at = Len(Keys(page.feature)) => nvs[page.feature].pin = page.new.pin

PageInv == plain => import = NoImport /\ Sound(Finished) /\ Progress

Settings == Setting("bridge")

\* Every feature's settings are records of one shape.
LEMMA SettingFacts ==
    /\ \A f \in Features : Setting(f) \subseteq Settings
    /\ Settings = [enabled : BOOLEAN, pin : Pins, cameras : BOOLEAN]
BY DEF Setting, Settings, Features

\* The key a save writes next, by its place: enabled first, pin last but one.
LEMMA KeyFacts ==
    ASSUME NEW save \in Saves
    PROVE  /\ save.feature \in Features
           /\ save.at \in 1..4 /\ save.at <= Len(Keys(save.feature))
           /\ Len(Keys(save.feature)) \in {3, 4}
           /\ Key(save) \in {"enabled", "cameras", "pin", "rest"}
           /\ Key(save) = "enabled" <=> save.at = 1
           /\ Key(save) = "pin" <=> save.at = Len(Keys(save.feature)) - 1
           /\ Key(save) = "rest" <=> save.at = Len(Keys(save.feature))
<1>1. save.feature \in Features /\ save.at \in 1..4 /\ save.at <= Len(Keys(save.feature))
  BY DEF Saves
<1>2. CASE save.feature = "bridge"
  <2>1. Keys(save.feature) = <<"enabled", "cameras", "pin", "rest">>
    BY <1>2 DEF Keys
  <2> QED
    BY <1>1, <2>1 DEF Key
<1>3. CASE save.feature # "bridge"
  <2>1. Keys(save.feature) = <<"enabled", "pin", "rest">>
    BY <1>3 DEF Keys
  <2> QED
    BY <1>1, <2>1 DEF Key
<1> QED
  BY <1>2, <1>3

\* A put keeps the store well formed and touches one key of one feature.
LEMMA WrittenFacts ==
    ASSUME NEW store \in [Features -> Settings], NEW save \in Saves
    PROVE  /\ Written(store, save) \in [Features -> Settings]
           /\ \A g \in Features \ {save.feature} : Written(store, save)[g] = store[g]
           /\ Written(store, save)[save.feature].enabled =
                IF save.at = 1 THEN save.new.enabled ELSE store[save.feature].enabled
           /\ Written(store, save)[save.feature].pin =
                IF save.at = Len(Keys(save.feature)) - 1 THEN save.new.pin
                ELSE store[save.feature].pin
<1> DEFINE f == save.feature
           k == Key(save)
<1>1. /\ f \in Features /\ store[f] \in Settings /\ save.new \in Settings
      /\ k \in {"enabled", "cameras", "pin", "rest"}
      /\ k = "enabled" <=> save.at = 1
      /\ k = "pin" <=> save.at = Len(Keys(f)) - 1
  BY KeyFacts DEF Saves, Settings
<1>2. CASE k = "rest"
  <2>1. Written(store, save) = store
    BY <1>2 DEF Written
  <2> QED
    BY <1>1, <1>2, <2>1
<1>3. CASE k # "rest"
  <2> DEFINE new == [store[f] EXCEPT ![k] = save.new[k]]
  <2>1. Written(store, save) = [store EXCEPT ![f] = new]
    BY <1>3 DEF Written
  <2>2. /\ new \in Settings
        /\ new.enabled = IF k = "enabled" THEN save.new.enabled ELSE store[f].enabled
        /\ new.pin = IF k = "pin" THEN save.new.pin ELSE store[f].pin
    <3>1. /\ store[f] \in [enabled : BOOLEAN, pin : Pins, cameras : BOOLEAN]
          /\ save.new \in [enabled : BOOLEAN, pin : Pins, cameras : BOOLEAN]
      BY <1>1, SettingFacts
    <3>2. CASE k = "enabled"
      BY <3>1, <3>2, SettingFacts
    <3>3. CASE k = "cameras"
      BY <3>1, <3>3, SettingFacts
    <3>4. CASE k = "pin"
      BY <3>1, <3>4, SettingFacts
    <3> QED
      BY <1>1, <1>3, <3>2, <3>3, <3>4
  <2> HIDE DEF new
  <2>3. Written(store, save)[f] = new
    BY <1>1, <2>1
  <2> QED
    BY <1>1, <2>1, <2>2, <2>3
<1> QED
  BY <1>2, <1>3

\* What is left of a save after a put is a save, one key further, or none.
LEMMA RestFacts ==
    ASSUME NEW save \in Saves, NEW ok \in BOOLEAN
    PROVE  /\ Rest(save, ok) \in Saves \cup {NoSave}
           /\ Rest(save, ok) # NoSave =>
                /\ ok
                /\ Rest(save, ok).feature = save.feature
                /\ Rest(save, ok).new = save.new
                /\ Rest(save, ok).at = save.at + 1
           /\ ok /\ Rest(save, ok) = NoSave => save.at = Len(Keys(save.feature))
<1> DEFINE next == [save EXCEPT !.at = @ + 1, !.changed = @ \/ nvs' # nvs]
<1>1. save \in [feature : Features, at : 1..4, new : Settings, changed : BOOLEAN]
  BY DEF Saves, Settings
<1>2. /\ save.at \in 1..4 /\ save.at <= Len(Keys(save.feature))
      /\ Len(Keys(save.feature)) \in {3, 4}
  BY KeyFacts
<1>3. CASE ok /\ save.at < Len(Keys(save.feature))
  <2> DEFINE changed == save.changed \/ nvs' # nvs
  <2>a. changed \in BOOLEAN
    BY Zenon
  <2>b. save.at + 1 \in 1..4 /\ save.at + 1 <= Len(Keys(save.feature))
    <3>1. \A a \in 1..4, n \in {3, 4} : a < n => a + 1 \in 1..4 /\ a + 1 <= n
      OBVIOUS
    <3> QED
      BY <1>2, <1>3, <3>1
  <2>c. next = [save EXCEPT !.at = @ + 1, !.changed = changed]
    OBVIOUS
  <2> HIDE DEF next, changed
  <2>1. /\ next \in [feature : Features, at : 1..4, new : Settings, changed : BOOLEAN]
        /\ next.feature = save.feature /\ next.new = save.new /\ next.at = save.at + 1
    BY <1>1, <2>a, <2>b, <2>c
  <2>2. Rest(save, ok) = next
    BY <1>3 DEF Rest, next
  <2>3. next \in Saves
    BY <2>b, <2>1 DEF Saves, Settings
  <2>4. next # NoSave
    BY <2>1, <1>2 DEF NoSave
  <2> QED
    BY <1>3, <2>1, <2>2, <2>3, <2>4
<1>4. CASE ~(ok /\ save.at < Len(Keys(save.feature)))
  BY <1>2, <1>4 DEF Rest
<1> QED
  BY <1>3, <1>4

-----------------------------------------------------------------------------
\* The backstops at boot keep the claimed pins apart, whatever is stored.
LEMMA BootPinsDisjoint ==
    ASSUME NEW store, NEW f \in Features, BootPins(store)[f] # NoPin
    PROVE  /\ ~IsReservedOrUnsafePin(BootPins(store)[f])
           /\ \A g \in Features \ {f} : BootPins(store)[g] # BootPins(store)[f]
<1>1. \A g \in Features : BootPins(store)[g] = IF Starts(store, g) THEN store[g].pin ELSE NoPin
  BY DEF BootPins
<1>2. Starts(store, f) /\ BootPins(store)[f] = store[f].pin
  BY <1>1
<1>3. ~IsReservedOrUnsafePin(store[f].pin)
  BY <1>2 DEF Starts
<1>4. ASSUME NEW g \in Features \ {f}, BootPins(store)[g] = BootPins(store)[f]
      PROVE  FALSE
  <2>1. Starts(store, g) /\ store[g].pin = store[f].pin
    BY <1>1, <1>2, <1>4
  <2>2. store[f].enabled /\ store[g].enabled
    BY <1>2, <2>1 DEF Starts
  <2>3. g \in StartedBefore(f) \/ f \in StartedBefore(g)
    BY <1>4 DEF Features, StartedBefore
  <2>4. ~WatchdogPinsConflict(store[f], store[g]) \/ ~WatchdogPinsConflict(store[g], store[f])
    BY <1>2, <2>1, <2>3 DEF Starts
  <2> QED
    BY <2>1, <2>2, <2>4 DEF WatchdogPinsConflict
<1> QED
  BY <1>2, <1>3, <1>4

\* What the pages' checks let through is what boot accepts.
LEMMA SoundStarts ==
    ASSUME NEW store, Sound(store), NEW f \in Features, store[f].enabled
    PROVE  Starts(store, f)
<1>1. \A g \in StartedBefore(f) : g \in Features \ {f}
  BY DEF StartedBefore, Features
<1> QED
  BY <1>1 DEF Sound, Starts

\* Only the enable flag and the pin matter to it.
LEMMA SoundSame ==
    ASSUME NEW one, NEW other, Sound(one),
           \A f \in Features : /\ other[f].enabled = one[f].enabled
                              /\ other[f].pin = one[f].pin
    PROVE  Sound(other)
BY DEF Sound, WatchdogPinsConflict

\* The checks of a save route keep the store sound once the save is through.
LEMMA AcceptedIsSound ==
    ASSUME nvs \in [Features -> Settings], Sound(nvs),
           NEW f \in Features, NEW s \in Setting(f), Accepts(f, s)
    PROVE  Sound([nvs EXCEPT ![f] = s])
<1> DEFINE new == [nvs EXCEPT ![f] = s]
<1>1. new[f] = s /\ \A g \in Features \ {f} : new[g] = nvs[g]
  OBVIOUS
<1> HIDE DEF new
<1>2. /\ s.enabled => ~IsReservedOrUnsafePin(s.pin)
      /\ \A g \in Features \ {f} : ~WatchdogPinsConflict(s, nvs[g])
  BY DEF Accepts
<1>3. ASSUME NEW h \in Features
      PROVE  /\ new[h].enabled => ~IsReservedOrUnsafePin(new[h].pin)
             /\ \A g \in Features \ {h} : ~WatchdogPinsConflict(new[h], new[g])
  <2>1. CASE h = f
    BY <1>1, <1>2, <2>1
  <2>2. CASE h # f
    <3>1. ~WatchdogPinsConflict(nvs[h], s)
      BY <1>2, <2>2 DEF WatchdogPinsConflict
    <3> QED
      BY <1>1, <2>2, <3>1 DEF Sound
  <2> QED
    BY <2>1, <2>2
<1>4. Sound(new)
  BY <1>3 DEF Sound
<1> QED
  BY <1>4 DEF new

\* The inductive invariant.
IInv == TypeOK /\ ActivePinsDisjoint /\ PageInv

\* The value that stands for no save is no save.
LEMMA NoSaveIsNone == NoSave \notin Saves
BY DEF NoSave, Saves

\* Boot claims pins that are stored, or none.
LEMMA BootPinsType ==
    ASSUME NEW store \in [Features -> Settings]
    PROVE  BootPins(store) \in [Features -> Pins \cup {NoPin}]
<1>1. \A f \in Features : store[f].pin \in Pins
  BY SettingFacts
<1> QED
  BY <1>1 DEF BootPins

\* As delivered, with every feature off, the invariant holds.
LEMMA IInvInit == Init => IInv
<1> SUFFICES ASSUME Init PROVE IInv
  OBVIOUS
<1>1. nvs \in [Features -> Settings]
  BY SettingFacts DEF Init
<1>2. \A f \in Features : nvs[f].enabled = FALSE
  BY DEF Init
<1>3. Sound(nvs)
  BY <1>2 DEF Sound, WatchdogPinsConflict
<1>4. TypeOK
  <2>1. import \in [save : Saves \cup {NoSave}, left : 0..Len(Sections)]
    BY DEF Init, NoImport, Sections
  <2> QED
    BY <1>1, <2>1, BootPinsType DEF Init, TypeOK, Settings
<1>5. ActivePinsDisjoint
  BY BootPinsDisjoint DEF Init, ActivePinsDisjoint
<1>6. PageInv
  BY <1>3 DEF Init, PageInv, Finished, Progress
<1> QED
  BY <1>4, <1>5, <1>6 DEF IInv

\* A save route that accepts its input leaves a sound store to write.
LEMMA PageSaveStep ==
    ASSUME IInv, NEW f \in Features, NEW s \in Setting(f), PageSave(f, s)
    PROVE  IInv'
<1>1. page' = Save(f, s) /\ page' \in Saves /\ page' # NoSave
  <2>1. s \in Settings
    BY SettingFacts
  <2>2. Len(Keys(f)) >= 1
    BY DEF Keys
  <2>3. Save(f, s) \in Saves
    BY <2>1, <2>2 DEF Save, Saves, Settings
  <2> QED
    BY <2>3, NoSaveIsNone DEF PageSave
<1>2. TypeOK'
  BY <1>1 DEF IInv, TypeOK, PageSave
<1>3. ActivePinsDisjoint'
  BY DEF IInv, ActivePinsDisjoint, PageSave
<1>4. PageInv'
  <2> SUFFICES ASSUME plain PROVE import = NoImport /\ Sound(Finished)' /\ Progress'
    BY DEF PageInv, PageSave
  <2>1. import = NoImport /\ Sound(nvs)
    BY DEF IInv, PageInv, Finished, PageSave
  <2>2. Finished' = [nvs EXCEPT ![f] = s]
    BY <1>1 DEF Finished, Save, PageSave
  <2>3. Sound([nvs EXCEPT ![f] = s])
    BY <2>1, AcceptedIsSound DEF IInv, TypeOK, Settings, PageSave
  <2>4. Sound(Finished)'
    BY <2>2, <2>3 DEF Sound, Features, WatchdogPinsConflict
  <2>5. Progress'
    <3>1. page'.at = 1 /\ page'.feature = f
      BY <1>1 DEF Save
    <3>2. Len(Keys(f)) # 1
      BY DEF Keys
    <3> QED
      BY <3>1, <3>2 DEF Progress
  <2> QED
    BY <2>1, <2>4, <2>5
<1> QED
  BY <1>2, <1>3, <1>4 DEF IInv

\* A put of the page's save moves the save along, ends it, or spoils `plain`.
LEMMA PagePutStep ==
    ASSUME IInv, NEW stored \in BOOLEAN, PagePut(stored)
    PROVE  IInv'
<1> DEFINE ok == stored /\ Succeeds(page)
<1>0. ok \in BOOLEAN
  BY Zenon
<1>1. page \in Saves /\ nvs \in [Features -> Settings]
  BY DEF IInv, TypeOK, PagePut, Settings
<1>2. /\ nvs' = IF stored THEN Written(nvs, page) ELSE nvs
      /\ page' = Rest(page, ok)
      /\ plain' = (plain /\ ok)
      /\ active' = active /\ import' = import
  BY DEF PagePut
<1>3. nvs' \in [Features -> Settings]
  BY <1>1, <1>2, WrittenFacts
<1> HIDE DEF ok
<1>4. TypeOK'
  <2>1. page' \in Saves \cup {NoSave}
    BY <1>0, <1>1, <1>2, RestFacts
  <2>2. plain' \in BOOLEAN
    BY <1>2, Zenon
  <2>3. banner' \in {"none", "saved", "failed", "failed, changed"}
    <3>1. banner \in {"none", "saved", "failed", "failed, changed"}
      BY DEF IInv, TypeOK
    <3>2. \/ banner' = "failed, changed" \/ banner' = "failed"
          \/ banner' = "saved" \/ banner' = banner
      BY DEF PagePut
    <3> QED
      BY <3>1, <3>2
  <2> QED
    BY <1>2, <1>3, <2>1, <2>2, <2>3 DEF IInv, TypeOK, Settings
<1>5. ActivePinsDisjoint'
  BY <1>2 DEF IInv, ActivePinsDisjoint
<1>6. PageInv'
  <2> SUFFICES ASSUME plain' PROVE import' = NoImport /\ Sound(Finished)' /\ Progress'
    BY DEF PageInv
  <2>1. plain /\ ok /\ stored
    BY <1>2, Zenon DEF ok
  <2>2. import = NoImport /\ Sound(Finished) /\ Progress
    BY <2>1 DEF IInv, PageInv
  <2>3. page # NoSave
    BY DEF PagePut
  <2> DEFINE f == page.feature
             n == Len(Keys(f))
  <2>4. f \in Features /\ page.new \in Settings
    BY <1>1 DEF Saves, Settings
  <2>5. /\ \A g \in Features \ {f} : nvs'[g] = nvs[g]
        /\ nvs'[f].enabled = IF page.at = 1 THEN page.new.enabled ELSE nvs[f].enabled
        /\ nvs'[f].pin = IF page.at = n - 1 THEN page.new.pin ELSE nvs[f].pin
    BY <1>1, <1>2, <2>1, WrittenFacts
  <2>6. /\ page.at \in 1..4 /\ page.at <= n /\ n \in {3, 4}
    BY <1>1, KeyFacts
  <2>7. /\ page.at > 1 => nvs[f].enabled = page.new.enabled
        /\ page.at = n => nvs[f].pin = page.new.pin
    BY <2>2, <2>3 DEF Progress
  <2>8. nvs'[f].enabled = page.new.enabled
    <3>1. \A a \in 1..4 : a = 1 \/ a > 1
      OBVIOUS
    <3> QED
      BY <2>5, <2>6, <2>7, <3>1
  <2>9. Sound([nvs EXCEPT ![f] = page.new])
    BY <2>2, <2>3 DEF Finished
  <2> DEFINE fin == [nvs EXCEPT ![f] = page.new]
  <2>10. fin[f] = page.new /\ \A g \in Features \ {f} : fin[g] = nvs[g]
    BY <1>1, <2>4
  <2>11. CASE page' = NoSave
    <3>1. page.at = n
      BY <1>0, <1>1, <1>2, <2>1, <2>11, RestFacts
    <3>2. nvs'[f].pin = page.new.pin
      <4>1. \A a \in 1..4 : a = a => ~(a = a - 1)
        OBVIOUS
      <4> QED
        BY <2>5, <2>6, <2>7, <3>1, <4>1
    <3> HIDE DEF fin
    <3>3. \A g \in Features : nvs'[g].enabled = fin[g].enabled /\ nvs'[g].pin = fin[g].pin
      BY <2>5, <2>8, <2>10, <3>2
    <3>4. Sound(fin)
      BY <2>9 DEF fin
    <3>5. Sound(nvs')
      BY <3>3, <3>4, SoundSame
    <3>6. Finished' = nvs'
      BY <2>11 DEF Finished
    <3>7. Sound(Finished)'
      BY <3>5, <3>6 DEF Sound, WatchdogPinsConflict
    <3> QED
      BY <1>2, <2>2, <2>11, <3>7 DEF Progress
  <2>12. CASE page' # NoSave
    <3>1. page'.feature = f /\ page'.new = page.new /\ page'.at = page.at + 1
      BY <1>0, <1>1, <1>2, <2>12, RestFacts
    <3>2. Finished' = [nvs' EXCEPT ![f] = page.new]
      BY <2>12, <3>1 DEF Finished
    <3> DEFINE fin2 == [nvs' EXCEPT ![f] = page.new]
    <3>3. fin2[f] = page.new /\ \A g \in Features \ {f} : fin2[g] = nvs'[g]
      BY <1>3, <2>4
    <3> HIDE DEF fin, fin2
    <3>4. \A g \in Features : fin2[g].enabled = fin[g].enabled /\ fin2[g].pin = fin[g].pin
      BY <2>5, <2>10, <3>3
    <3>5. Sound(fin2)
      BY <2>9, <3>4, SoundSame DEF fin
    <3>6. Sound(Finished)'
      BY <3>2, <3>5 DEF Sound, WatchdogPinsConflict, fin2
    <3>7. page'.at = n => nvs'[f].pin = page.new.pin
      <4>1. \A a \in 1..4, m \in {3, 4} : a + 1 = m => a = m - 1
        OBVIOUS
      <4> QED
        BY <2>5, <2>6, <3>1, <4>1
    <3>8. Progress'
      BY <2>8, <3>1, <3>7 DEF Progress
    <3> QED
      BY <1>2, <2>2, <3>6, <3>8
  <2> QED
    BY <2>11, <2>12
<1> QED
  BY <1>4, <1>5, <1>6 DEF IInv

\* A step of an import: `plain` has been given up when it started.
LEMMA ImportSteps ==
    ASSUME IInv,
           \/ ImportStart
           \/ \E s \in UNION {Setting(f) : f \in Features} : ImportSection(s)
           \/ ImportSkip
           \/ \E stored \in BOOLEAN : ImportPut(stored)
    PROVE  IInv'
<1>1. /\ nvs \in [Features -> Settings]
      /\ import \in [save : Saves \cup {NoSave}, left : 0..3]
  BY DEF IInv, TypeOK, Settings, Sections
<1>2. import = NoImport => import.save = NoSave /\ import.left = 0
  BY DEF NoImport
<1>3. plain' = FALSE
  <2>1. CASE ImportStart
    BY <2>1 DEF ImportStart
  <2>2. CASE ~ImportStart
    <3>1. import # NoImport
      BY <1>1, <1>2, <2>2 DEF ImportSection, ImportSkip, ImportPut
    <3>2. ~plain /\ plain \in BOOLEAN
      BY <3>1 DEF IInv, PageInv, TypeOK
    <3> QED
      BY <2>2, <3>2 DEF ImportSection, ImportSkip, ImportPut
  <2> QED
    BY <2>1, <2>2
<1>4. nvs' \in [Features -> Settings]
  <2>1. CASE \E stored \in BOOLEAN : ImportPut(stored)
    <3>1. PICK stored \in BOOLEAN : ImportPut(stored)
      BY <2>1
    <3>2. import.save \in Saves
      BY <1>1, <3>1 DEF ImportPut
    <3> QED
      BY <1>1, <3>1, <3>2, WrittenFacts DEF ImportPut
  <2>2. CASE ~\E stored \in BOOLEAN : ImportPut(stored)
    BY <1>1, <2>2 DEF ImportStart, ImportSection, ImportSkip
  <2> QED
    BY <2>1, <2>2
<1>5. import' \in [save : Saves \cup {NoSave}, left : 0..3]
  <2>1. CASE ImportStart
    BY <2>1 DEF ImportStart, Sections
  <2>2. ASSUME NEW s \in UNION {Setting(f) : f \in Features}, ImportSection(s)
        PROVE  import' \in [save : Saves \cup {NoSave}, left : 0..3]
    <3>1. import.left \in 1..3
      BY <1>1, <2>2 DEF ImportSection
    <3>2. Section \in Features /\ import.left - 1 \in 0..3
      BY <3>1 DEF Section, Sections, Features
    <3>3. s \in Settings
      BY SettingFacts
    <3>4. Len(Keys(Section)) >= 1
      BY DEF Keys
    <3>5. Save(Section, s) \in Saves
      BY <3>2, <3>3, <3>4 DEF Save, Saves, Settings
    <3> QED
      BY <2>2, <3>2, <3>5 DEF ImportSection
  <2>3. CASE ImportSkip
    <3>1. import.left \in 0..3 /\ import.left > 0
      BY <1>1, <2>3 DEF ImportSkip
    <3>2. import.left - 1 \in 0..3
      BY <3>1
    <3> QED
      BY <1>1, <2>3, <3>2 DEF ImportSkip
  <2>4. ASSUME NEW stored \in BOOLEAN, ImportPut(stored)
        PROVE  import' \in [save : Saves \cup {NoSave}, left : 0..3]
    <3> DEFINE ok == stored /\ Succeeds(import.save)
    <3>1. ok \in BOOLEAN
      BY Zenon
    <3>2. import.save \in Saves
      BY <1>1, <2>4 DEF ImportPut
    <3>3. import' = [import EXCEPT !.save = Rest(import.save, ok)]
      BY <2>4 DEF ImportPut
    <3> HIDE DEF ok
    <3>4. Rest(import.save, ok) \in Saves \cup {NoSave}
      BY <3>1, <3>2, RestFacts
    <3> QED
      BY <1>1, <3>3, <3>4
  <2> QED
    BY <2>1, <2>2, <2>3, <2>4
<1>6. UNCHANGED <<active, page, banner>>
  BY DEF ImportStart, ImportSection, ImportSkip, ImportPut
<1>7. TypeOK'
  BY <1>3, <1>4, <1>5, <1>6 DEF IInv, TypeOK, Settings, Sections
<1>8. ActivePinsDisjoint'
  BY <1>6 DEF IInv, ActivePinsDisjoint
<1> QED
  BY <1>3, <1>7, <1>8 DEF IInv, PageInv

\* A reboot claims what the store allows and forgets the saves under way.
LEMMA RebootStep ==
    ASSUME IInv, Reboot
    PROVE  IInv'
<1>1. nvs \in [Features -> Settings] /\ nvs' = nvs
  BY DEF IInv, TypeOK, Settings, Reboot
<1>2. TypeOK'
  <2>1. import' \in [save : Saves \cup {NoSave}, left : 0..Len(Sections)]
    BY DEF Reboot, NoImport, Sections
  <2>2. plain' \in BOOLEAN
    BY Zenon DEF Reboot
  <2>3. active' \in [Features -> Pins \cup {NoPin}]
    BY <1>1, BootPinsType DEF Reboot
  <2> QED
    BY <1>1, <2>1, <2>2, <2>3 DEF Reboot, TypeOK, Settings
<1>3. ActivePinsDisjoint'
  BY BootPinsDisjoint DEF Reboot, ActivePinsDisjoint
<1>4. PageInv'
  <2> SUFFICES ASSUME plain' PROVE Sound(Finished)' /\ import' = NoImport /\ Progress'
    BY DEF PageInv
  <2>1. plain /\ page = NoSave
    BY Zenon DEF Reboot
  <2>2. Sound(nvs)
    BY <2>1 DEF IInv, PageInv, Finished
  <2>3. Finished' = nvs
    BY <1>1 DEF Finished, Reboot
  <2> QED
    BY <2>2, <2>3 DEF Sound, WatchdogPinsConflict, Progress, Reboot
<1> QED
  BY <1>2, <1>3, <1>4 DEF IInv

\* Every step keeps the invariant.
LEMMA IInvStep == IInv /\ [Next]_vars => IInv'
<1> SUFFICES ASSUME IInv, [Next]_vars PROVE IInv'
  OBVIOUS
<1>1. CASE \E f \in Features : \E s \in Setting(f) : PageSave(f, s)
  BY <1>1, PageSaveStep
<1>2. CASE \E stored \in BOOLEAN : PagePut(stored)
  BY <1>2, PagePutStep
<1>3. CASE \/ ImportStart
           \/ \E s \in UNION {Setting(f) : f \in Features} : ImportSection(s)
           \/ ImportSkip
           \/ \E stored \in BOOLEAN : ImportPut(stored)
  BY <1>3, ImportSteps
<1>4. CASE Reboot
  BY <1>4, RebootStep
<1>5. CASE UNCHANGED vars
  BY <1>5 DEF vars, IInv, TypeOK, ActivePinsDisjoint, PageInv, Finished, Progress, Sound,
     WatchdogPinsConflict
<1> QED
  BY <1>1, <1>2, <1>3, <1>4, <1>5 DEF Next

\* The invariant of the settings and the pins, for any GPIO numbers and with or
\* without NVS writes that fail.
THEOREM HardwareInvariant == Spec => []IInv
BY IInvInit, IInvStep, PTL DEF Spec

\* The settings, pins and saves under way have their types: no step of a save
\* runs past its keys, and boot claims only pins that are stored.
THEOREM HardwareTypes == Spec => []TypeOK
<1>1. IInv => TypeOK
  BY DEF IInv
<1> QED
  BY <1>1, HardwareInvariant, PTL

\* No two features drive one pin and none drives a pin the board needs, however
\* saves and imports interleave, fail or are cut short (src/net_watchdog.cpp,
\* src/bridge_watchdog.cpp, src/power_monitor.cpp).
THEOREM PinsStayDisjoint == Spec => []ActivePinsDisjoint
<1>1. IInv => ActivePinsDisjoint
  BY DEF IInv
<1> QED
  BY <1>1, HardwareInvariant, PTL

\* What the Hardware pages accept (src/webserver.cpp) is what boot starts, as
\* long as no import or failed save has touched the settings.
THEOREM PagesStoreOnlyWhatStarts == Spec => []PagesStoreWhatStarts
<1>1. IInv => PagesStoreWhatStarts
  <2> SUFFICES ASSUME IInv, plain, page = NoSave, NEW f \in Features, nvs[f].enabled
               PROVE  Starts(nvs, f)
    BY DEF PagesStoreWhatStarts
  <2>1. Sound(nvs)
    BY DEF IInv, PageInv, Finished
  <2> QED
    BY <2>1, SoundStarts
<1> QED
  BY <1>1, HardwareInvariant, PTL

=============================================================================
