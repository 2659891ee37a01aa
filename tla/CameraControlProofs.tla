------------------------- MODULE CameraControlProofs -------------------------
(***************************************************************************)
(* What the user may change about cameras while the board runs: which are  *)
(* stored and monitored, and how (LiveCameras, for any set of names and any *)
(* MAX_CAMERAS), and whether one of them alerts (AlertControl, for timers  *)
(* of any length).  The two specifications share no state and no name.     *)
(***************************************************************************)
EXTENDS LiveCameras, AlertControl, FiniteSetTheorems, SequenceTheorems, TLAPS

-----------------------------------------------------------------------------
SlotRecords == [name : Names, cfg : Configs, pending : Configs \cup {"none"},
                stop : BOOLEAN, starting : Nat, running : Nat]
WebSteps == [step : {"idle", "stage"}, slot : Nat, was : BOOLEAN, cfg : Configs]
Stores == [Names -> Configs \cup {"absent"}]

Types ==
    /\ saved \in Stores
    /\ live \in Seq(SlotRecords)
    /\ staged \in Camera \cup {NoCamera} /\ adding \in Camera \cup {NoCamera}
    /\ web \in WebSteps /\ web.slot \in {0} \cup DOMAIN live
    /\ web.step = "idle" => web = WebIdle
    /\ told \subseteq Names
    /\ orderly \in BOOLEAN

\* The tasks of a slot, and its configuration once what is staged is applied.
Active(s) == s.starting + s.running
Final(s) == IF s.pending = "none" THEN s.cfg ELSE s.pending

\* The web server is about to stage a save for slot i, or a stop.
Staging(i) == web.step = "stage" /\ web.slot = i
StopComing(i) == Staging(i) /\ web.was /\ ~Enabled(web.cfg)

\* A camera has one slot.
OneSlot == \A i, j \in DOMAIN live : live[i].name = live[j].name => i = j

\* A slot has at most one task, which monitors unless it is about to be stopped.
OneTask(i) ==
    /\ live[i].starting + live[i].running <= 1
    /\ live[i].running = 1 => Enabled(live[i].cfg)
    /\ live[i].starting = 1 => Enabled(Final(live[i])) /\ Final(live[i]) = saved[live[i].name]
    /\ live[i].pending = "off" => Active(live[i]) = 0 \/ live[i].stop
    /\ saved[live[i].name] = "off" /\ live[i].running = 1 => live[i].stop \/ StopComing(i)
    /\ Staging(i) => web.cfg = saved[live[i].name] /\ (web.was \/ Active(live[i]) = 0)

\* What is stored is what the slot is about to be.
Follows(i) ==
    /\ ~Enabled(saved[live[i].name]) =>
          \/ Active(live[i]) = 0 /\ live[i].cfg = "off" /\ ~live[i].stop /\ ~StopComing(i)
          \/ live[i].running = 1 /\ live[i].stop /\ ~StopComing(i)
          \/ live[i].running = 1 /\ ~live[i].stop /\ StopComing(i)
    /\ Enabled(saved[live[i].name]) =>
          /\ ~live[i].stop
          /\ Active(live[i]) = 1 \/ Staging(i)
          /\ Staging(i) \/ Final(live[i]) = saved[live[i].name]
          /\ Staging(i) => (web.was <=> Active(live[i]) = 1)

\* A camera on its way from the web server to loop() has no slot yet, and there
\* is room for it.
HandedOver(c) ==
    c # NoCamera =>
        /\ \A i \in DOMAIN live : live[i].name # c.name
        /\ Len(live) < MaxCameras
        /\ c.cfg = saved[c.name]

\* A stored camera whose user was told nothing has a slot or is on its way.
Reaches(n) ==
    saved[n] # "absent" =>
        \/ \E i \in DOMAIN live : live[i].name = n
        \/ n \in {staged.name, adding.name}

OrderlyInv ==
    /\ OneSlot
    /\ staged = NoCamera \/ adding = NoCamera
    /\ HandedOver(staged) /\ HandedOver(adding)
    /\ \A i \in DOMAIN live : OneTask(i)
    /\ \A i \in DOMAIN live : live[i].name \notin told => Follows(i)
    /\ \A n \in Names \ told : Reaches(n)

\* The inductive invariant of LiveCameras: nothing is claimed of what follows a
\* change made before the one before had settled.
IInv == Types /\ (orderly => OrderlyInv)

-----------------------------------------------------------------------------
\* SetToSeq lists each element of a finite set once.
LEMMA SetToSeqLists ==
    ASSUME NEW S, IsFiniteSet(S)
    PROVE  /\ Cardinality(S) \in Nat
           /\ SetToSeq(S) \in [1..Cardinality(S) -> S]
           /\ \A i, j \in 1..Cardinality(S) : SetToSeq(S)[i] = SetToSeq(S)[j] => i = j
           /\ \A x \in S : \E i \in 1..Cardinality(S) : SetToSeq(S)[i] = x
<1> DEFINE I == 1..Cardinality(S)
<1>1. Cardinality(S) \in Nat /\ Bijection(I, S) # {}
  BY FS_CardinalityType DEF ExistsBijection
<1>2. SetToSeq(S) \in [I -> S] /\ IsInjective(SetToSeq(S))
  <2>1. PICK f \in Bijection(I, S) : TRUE
    BY <1>1
  <2>2. f \in [I -> S] /\ IsInjective(f)
    BY <2>1 DEF Bijection, Injection
  <2> QED
    BY <2>2 DEF SetToSeq
<1>3. \A i, j \in I : SetToSeq(S)[i] = SetToSeq(S)[j] => i = j
  BY <1>2 DEF IsInjective
<1>4. \A x \in S : \E i \in I : SetToSeq(S)[i] = x
  <2> SUFFICES ASSUME NEW x \in S, \A i \in I : SetToSeq(S)[i] # x PROVE FALSE
    OBVIOUS
  <2>1. IsFiniteSet(S \ {x}) /\ Cardinality(S \ {x}) = Cardinality(S) - 1
    BY FS_RemoveElement
  <2>2. IsFiniteSet(I) /\ Cardinality(I) = Cardinality(S)
    BY <1>1, FS_Interval
  <2>3. SetToSeq(S) \in [I -> S \ {x}]
    BY <1>2
  <2>4. \E i, j \in I : i # j /\ SetToSeq(S)[i] = SetToSeq(S)[j]
    <3>1. Cardinality(S \ {x}) < Cardinality(I)
      BY <1>1, <2>1, <2>2
    <3> HIDE DEF I
    <3> QED
      BY <2>1, <2>2, <2>3, <3>1, FS_PigeonHole
  <2> QED
    BY <1>3, <2>4
<1> QED
  BY <1>1, <1>2, <1>3, <1>4

\* The slots of a sequence of slots are well formed.
LEMMA SlotTyped ==
    ASSUME NEW s \in Seq(SlotRecords), NEW i \in DOMAIN s
    PROVE  i \in Nat \ {0} /\ s[i] \in SlotRecords /\ DOMAIN s = 1..Len(s)
<1>1. Len(s) \in Nat /\ DOMAIN s = 1..Len(s)
  BY LenProperties
<1> QED
  BY <1>1, ElementOfSeq

\* setup() leaves one slot for each stored camera, with a task on its way if the
\* camera is enabled.
LEMMA BootLists ==
    ASSUME NEW store \in Stores, NEW slots, slots = Boot(store)
    PROVE  /\ slots \in Seq(SlotRecords)
           /\ \A i \in DOMAIN slots :
                 /\ slots[i].cfg = store[slots[i].name] /\ slots[i].cfg # "absent"
                 /\ slots[i].pending = "none" /\ ~slots[i].stop
                 /\ slots[i].running = 0
                 /\ slots[i].starting = IF Enabled(slots[i].cfg) THEN 1 ELSE 0
           /\ \A i, j \in DOMAIN slots : slots[i].name = slots[j].name => i = j
           /\ \A n \in Names : store[n] # "absent" => \E i \in DOMAIN slots : slots[i].name = n
<1> DEFINE S == {n \in Names : store[n] # "absent"}
           s == SetToSeq(S)
           k == Cardinality(S)
<1>1. IsFiniteSet(S)
  BY ConstantsAssumption, FS_Subset
<1>2. /\ k \in Nat /\ s \in [1..k -> S] /\ DOMAIN s = 1..k
      /\ \A i, j \in 1..k : s[i] = s[j] => i = j
      /\ \A x \in S : \E i \in 1..k : s[i] = x
  BY <1>1, SetToSeqLists
<1>3. /\ DOMAIN slots = 1..k
      /\ \A i \in 1..k : slots[i] = Slot([name |-> s[i], cfg |-> store[s[i]]],
                                         IF Enabled(store[s[i]]) THEN 1 ELSE 0)
      /\ slots = [i \in 1..k |-> slots[i]]
  BY <1>2 DEF Boot
<1> HIDE DEF s, k
<1>4. \A i \in 1..k : /\ slots[i].name = s[i] /\ slots[i].cfg = store[s[i]]
                      /\ slots[i].pending = "none" /\ ~slots[i].stop
                      /\ slots[i].running = 0
                      /\ slots[i].starting = IF Enabled(slots[i].cfg) THEN 1 ELSE 0
  <2> TAKE i \in 1..k
  <2> DEFINE n == IF Enabled(store[s[i]]) THEN 1 ELSE 0
  <2>1. slots[i] = Slot([name |-> s[i], cfg |-> store[s[i]]], n)
    BY <1>3
  <2> HIDE DEF n
  <2>2. /\ slots[i].name = s[i] /\ slots[i].cfg = store[s[i]]
        /\ slots[i].pending = "none" /\ slots[i].stop = FALSE
        /\ slots[i].running = 0 /\ slots[i].starting = n
    BY <2>1 DEF Slot
  <2> QED
    BY <2>2 DEF n
<1>5. \A i \in 1..k : s[i] \in Names /\ store[s[i]] \in Configs
  BY <1>2 DEF Stores
<1>6. \A i \in 1..k : slots[i] \in SlotRecords
  <2> TAKE i \in 1..k
  <2> DEFINE n == IF Enabled(store[s[i]]) THEN 1 ELSE 0
  <2>1. slots[i] = Slot([name |-> s[i], cfg |-> store[s[i]]], n) /\ n \in Nat
    BY <1>3
  <2> HIDE DEF n
  <2>2. s[i] \in Names /\ store[s[i]] \in Configs
    BY <1>5
  <2> QED
    BY <2>1, <2>2 DEF Slot, SlotRecords
<1>7. slots \in Seq(SlotRecords)
  BY <1>2, <1>3, <1>6, SeqDef
<1>8. \A i \in 1..k : slots[i].cfg # "absent"
  BY <1>4, <1>5 DEF Configs
<1> QED
  BY <1>2, <1>3, <1>4, <1>7, <1>8

\* The state setup() leaves.
Booted ==
    /\ saved \in Stores
    /\ live = Boot(saved)
    /\ staged = NoCamera /\ adding = NoCamera /\ web = WebIdle
    /\ orderly = TRUE /\ told = {}

LEMMA BootedInv == Booted => IInv
<1> SUFFICES ASSUME Booted PROVE IInv
  OBVIOUS
<1>1. /\ live \in Seq(SlotRecords)
      /\ \A i \in DOMAIN live :
            /\ live[i].cfg = saved[live[i].name] /\ live[i].cfg # "absent"
            /\ live[i].pending = "none" /\ ~live[i].stop
            /\ live[i].running = 0
            /\ live[i].starting = IF Enabled(live[i].cfg) THEN 1 ELSE 0
      /\ \A i, j \in DOMAIN live : live[i].name = live[j].name => i = j
      /\ \A n \in Names : saved[n] # "absent" => \E i \in DOMAIN live : live[i].name = n
  BY BootLists DEF Booted
<1>2. Types
  BY <1>1 DEF Booted, Types, WebIdle, WebSteps, Configs
<1>3. \A i \in DOMAIN live : ~Staging(i)
  BY DEF Staging, Booted, WebIdle
<1>4. \A i \in DOMAIN live : OneTask(i)
  BY <1>1, <1>3 DEF OneTask, Active, Final, StopComing, Enabled
<1>5. \A i \in DOMAIN live : Follows(i)
  <2> TAKE i \in DOMAIN live
  <2>1. live[i].cfg \in Configs
    BY <1>1, SlotTyped DEF SlotRecords
  <2> QED
    BY <1>1, <1>3, <2>1 DEF Follows, Active, Final, StopComing, Enabled, Configs
<1>6. OrderlyInv
  BY <1>1, <1>4, <1>5 DEF OrderlyInv, OneSlot, HandedOver, Reaches, Booted
<1> QED
  BY <1>2, <1>6 DEF IInv

LEMMA IInvInit == Init => IInv
<1>1. Init => Booted
  BY DEF Init, Booted, Stores, Configs
<1> QED
  BY <1>1, BootedInv

LEMMA BootKeeps == Booted' => IInv'
BY BootedInv, PTL

-----------------------------------------------------------------------------
\* One slot is replaced by another of the same name.
LEMMA SlotChanged ==
    ASSUME NEW s \in Seq(SlotRecords), NEW t, NEW i \in DOMAIN s, NEW e \in SlotRecords,
           t = [s EXCEPT ![i] = e]
    PROVE  /\ t \in Seq(SlotRecords) /\ DOMAIN t = DOMAIN s /\ Len(t) = Len(s)
           /\ t[i] = e /\ \A j \in DOMAIN s : j # i => t[j] = s[j]
<1>1. DOMAIN s = 1..Len(s)
  BY LenProperties
<1>2. /\ t \in Seq(SlotRecords) /\ Len(t) = Len(s)
      /\ \A j \in 1..Len(s) : t[j] = IF j = i THEN e ELSE s[j]
  BY <1>1, ExceptSeq
<1>3. DOMAIN t = 1..Len(t)
  BY <1>2, LenProperties
<1> QED
  BY <1>1, <1>2, <1>3

\* A step of slot i alone, of its tasks or of a save of its camera, needs to be
\* looked at in that slot only.
LEMMA SlotStep ==
    ASSUME Types, OrderlyInv, NEW i \in DOMAIN live, NEW e \in SlotRecords,
           e.name = live[i].name, live' = [live EXCEPT ![i] = e],
           \A n \in Names : n # live[i].name => saved'[n] = saved[n],
           staged' = staged, adding' = adding, told \subseteq told',
           web' = web \/ (web.slot \in {0, i} /\ web'.slot \in {0, i}),
           OneTask(i)', live[i].name \notin told' => Follows(i)'
    PROVE  OrderlyInv'
<1>1. /\ live \in Seq(SlotRecords)
      /\ DOMAIN live' = DOMAIN live /\ Len(live') = Len(live)
      /\ live'[i] = e /\ \A j \in DOMAIN live : j # i => live'[j] = live[j]
  BY SlotChanged DEF Types
<1>2. \A j \in DOMAIN live : live'[j].name = live[j].name
  BY <1>1
<1>3. ASSUME NEW j \in DOMAIN live, j # i
      PROVE  /\ OneTask(j)' <=> OneTask(j)
             /\ Follows(j)' <=> Follows(j)
  <2>1. live'[j] = live[j] /\ j # 0
    BY <1>1, <1>3, SlotTyped
  <2>2. live[j].name \in Names /\ live[j].name # live[i].name
    BY <1>1, <1>3, SlotTyped DEF OrderlyInv, OneSlot, SlotRecords
  <2>3. saved'[live[j].name] = saved[live[j].name]
    BY <2>2
  <2>4. CASE web' = web
    BY <2>1, <2>3, <2>4 DEF OneTask, Follows, Staging, StopComing
  <2>5. CASE web.slot \in {0, i} /\ web'.slot \in {0, i}
    <3>1. ~Staging(j) /\ ~Staging(j)'
      BY <1>3, <2>1, <2>5 DEF Staging
    <3>2. ~StopComing(j) /\ ~StopComing(j)'
      BY <3>1 DEF StopComing
    <3> QED
      BY <2>1, <2>3, <3>1, <3>2 DEF OneTask, Follows
  <2> QED
    BY <2>4, <2>5
<1>4. \A j \in DOMAIN live : OneTask(j)'
  BY <1>3 DEF OrderlyInv
<1>5. \A j \in DOMAIN live : live[j].name \notin told' => Follows(j)'
  BY <1>3 DEF OrderlyInv
<1>6. ASSUME NEW c \in Camera \cup {NoCamera}, HandedOver(c)
      PROVE  c # NoCamera =>
                /\ \A j \in DOMAIN live' : live'[j].name # c.name
                /\ Len(live') < MaxCameras
                /\ c.cfg = saved'[c.name]
  BY <1>1, <1>2, <1>6 DEF HandedOver, Camera
<1>7. HandedOver(staged)' /\ HandedOver(adding)'
  BY <1>6 DEF OrderlyInv, Types, HandedOver
<1>8. \A n \in Names \ told' : Reaches(n)'
  BY <1>1, <1>2 DEF OrderlyInv, Reaches
<1>9. OneSlot' /\ (staged' = NoCamera \/ adding' = NoCamera)
  BY <1>1, <1>2 DEF OrderlyInv, OneSlot
<1> QED
  BY <1>1, <1>2, <1>4, <1>5, <1>7, <1>8, <1>9 DEF OrderlyInv

\* The web server stages the rest of a save, or finds that the camera has no
\* slot.
LEMMA StageStep ==
    ASSUME IInv, NEW created \in BOOLEAN, WebStage(created)
    PROVE  IInv'
<1>1. Types /\ (orderly => OrderlyInv)
  BY DEF IInv
<1>2. /\ web.step = "stage" /\ web' = WebIdle /\ saved' = saved /\ staged' = staged
      /\ adding' = adding /\ orderly' = orderly
  BY DEF WebStage
<1>3. ~Staging(0)' /\ \A j \in Nat : ~Staging(j)' /\ ~StopComing(j)'
  BY <1>2 DEF Staging, StopComing, WebIdle
<1>4. CASE web.slot = 0
  <2>1. live' = live /\ told' = told
    BY <1>4 DEF WebStage
  <2>2. Types'
    BY <1>1, <1>2, <2>1 DEF Types, WebIdle, WebSteps, Configs
  <2>3. ASSUME OrderlyInv PROVE OrderlyInv'
    <3>1. ASSUME NEW j \in DOMAIN live
          PROVE  ~Staging(j) /\ ~StopComing(j) /\ ~Staging(j)' /\ ~StopComing(j)'
      BY <1>1, <1>3, <1>4, SlotTyped DEF Types, Staging, StopComing
    <3>2. \A j \in DOMAIN live : (OneTask(j)' <=> OneTask(j)) /\ (Follows(j)' <=> Follows(j))
      BY <1>2, <2>1, <3>1 DEF OneTask, Follows
    <3> QED
      BY <1>2, <2>1, <2>3, <3>2 DEF OrderlyInv, OneSlot, HandedOver, Reaches
  <2> QED
    BY <1>1, <1>2, <2>2, <2>3 DEF IInv
<1>5. CASE web.slot # 0
  <2>0. PICK i \in DOMAIN live : i = web.slot
    BY <1>1, <1>5 DEF Types
  <2>1. i \in Nat \ {0} /\ live \in Seq(SlotRecords) /\ live[i] \in SlotRecords
    BY <1>1, SlotTyped DEF Types
  <2>2. PICK s \in SlotRecords : s = live[i]
    BY <2>1
  <2>3. PICK e : e = Staged(s, created)
    OBVIOUS
  <2>4. live' = [live EXCEPT ![i] = e]
    BY <1>5, <2>0, <2>2, <2>3 DEF WebStage
  <2>5. /\ s.name \in Names /\ s.cfg \in Configs /\ s.pending \in Configs \cup {"none"}
        /\ s.stop \in BOOLEAN /\ s.starting \in Nat /\ s.running \in Nat
    BY <2>2 DEF SlotRecords
  <2>6. web \in WebSteps /\ web.cfg \in Configs
    BY <1>1 DEF Types, WebSteps
  <2>7. /\ e \in SlotRecords /\ e.name = s.name /\ e.running = s.running /\ e.cfg = s.cfg
        /\ e.stop = IF web.was /\ ~Enabled(web.cfg) THEN TRUE ELSE s.stop
        /\ e.pending = IF Enabled(web.cfg) THEN web.cfg ELSE s.pending
        /\ e.starting = IF ~web.was /\ Enabled(web.cfg) /\ created
                        THEN s.starting + 1 ELSE s.starting
    <3>1. CASE web.was /\ Enabled(web.cfg)
      BY <2>3, <2>5, <2>6, <3>1 DEF Staged, SlotRecords
    <3>2. CASE ~web.was /\ Enabled(web.cfg)
      <4>1. PICK x : x = [s EXCEPT !.pending = web.cfg]
        OBVIOUS
      <4>2. e = IF created THEN [x EXCEPT !.starting = @ + 1] ELSE x
        BY <2>3, <3>2, <4>1 DEF Staged, Spawned
      <4>3. /\ x \in SlotRecords /\ x.name = s.name /\ x.running = s.running /\ x.cfg = s.cfg
            /\ x.stop = s.stop /\ x.pending = web.cfg /\ x.starting = s.starting
        BY <2>5, <2>6, <4>1 DEF SlotRecords
      <4> QED
        BY <3>2, <4>2, <4>3 DEF SlotRecords
    <3>3. CASE web.was /\ ~Enabled(web.cfg)
      BY <2>3, <2>5, <2>6, <3>3 DEF Staged, SlotRecords
    <3>4. CASE ~web.was /\ ~Enabled(web.cfg)
      BY <2>3, <2>5, <2>6, <3>4 DEF Staged, SlotRecords
    <3> QED
      BY <3>1, <3>2, <3>3, <3>4
  <2>8. live' \in Seq(SlotRecords) /\ DOMAIN live' = DOMAIN live /\ live'[i] = e
    BY <2>1, <2>4, <2>7, SlotChanged
  <2>9. /\ told' \subseteq Names /\ told \subseteq told'
        /\ ~web.was /\ Enabled(web.cfg) /\ ~created => s.name \in told'
    BY <1>1, <1>5, <2>0, <2>2, <2>5 DEF WebStage, ToldUnless, Types
  <2>10. Types'
    BY <1>1, <1>2, <2>8, <2>9 DEF Types, WebIdle, WebSteps, Configs
  <2>11. ASSUME OrderlyInv PROVE OrderlyInv'
    <3>1. /\ Staging(i) /\ ~Staging(i)' /\ ~StopComing(i)'
          /\ OneTask(i) /\ (s.name \notin told => Follows(i))
      BY <1>2, <1>3, <2>0, <2>1, <2>2, <2>11 DEF OrderlyInv, Staging
    <3>2. web.cfg = saved[s.name] /\ (web.was \/ Active(s) = 0)
      BY <2>2, <3>1 DEF OneTask
    <3>3. /\ s.starting + s.running <= 1 /\ (s.running = 1 => Enabled(s.cfg))
          /\ s.starting = 1 => Enabled(web.cfg)
          /\ s.pending = "off" => s.starting + s.running = 0 \/ s.stop
          /\ web.cfg = "off" /\ s.running = 1 => s.stop \/ web.was
      BY <2>2, <3>1, <3>2 DEF OneTask, Active, StopComing
    <3>4. e.starting + e.running <= 1
      BY <2>5, <2>7, <3>2, <3>3 DEF Active
    <3>5. e.running = 1 => Enabled(e.cfg)
      BY <2>7, <3>3
    <3>6. Enabled(web.cfg) => Final(e) = web.cfg
      BY <2>7 DEF Final, Enabled
    <3>7. e.starting = 1 => Enabled(web.cfg)
      BY <2>7, <3>3
    <3>8. e.pending = "off" => Active(e) = 0 \/ e.stop
      BY <2>5, <2>7, <3>2, <3>3 DEF Active, Enabled
    <3>9. web.cfg = "off" /\ e.running = 1 => e.stop
      BY <2>7, <3>3 DEF Enabled
    <3>10. OneTask(i)'
      BY <1>2, <2>7, <2>8, <3>1, <3>2, <3>4, <3>5, <3>6, <3>7, <3>8, <3>9 DEF OneTask
    <3>11. s.name \notin told' => Follows(i)'
      <4> SUFFICES ASSUME s.name \notin told' PROVE Follows(i)'
        OBVIOUS
      <4>1. Follows(i)
        BY <2>9, <3>1
      <4>2. ~Enabled(web.cfg) => \/ ~e.stop /\ Active(e) = 0 /\ e.cfg = "off"
                                 \/ e.stop /\ e.running = 1
        BY <2>2, <2>5, <2>7, <3>1, <3>2, <4>1 DEF Follows, Active, StopComing
      <4>3. Enabled(web.cfg) => ~e.stop /\ Active(e) = 1
        BY <2>2, <2>5, <2>7, <2>9, <3>1, <3>2, <4>1 DEF Follows, Active
      <4> QED
        BY <1>2, <2>7, <2>8, <3>1, <3>2, <3>6, <4>2, <4>3 DEF Follows
    <3> QED
      <4>1. web.slot = i /\ web'.slot = 0
        BY <1>2, <2>0 DEF WebIdle
      <4> QED
        BY <1>1, <1>2, <2>2, <2>4, <2>7, <2>9, <2>11, <3>10, <3>11, <4>1, SlotStep
  <2> QED
    BY <1>1, <1>2, <2>10, <2>11 DEF IInv
<1> QED
  BY <1>4, <1>5

\* What a step of a task does to its slot: the web server's step stands as it
\* is, and told can only grow by the camera's own name.
LEMMA TaskTypes ==
    ASSUME Types, NEW i \in DOMAIN live, NEW e \in SlotRecords,
           live' = [live EXCEPT ![i] = e],
           told' = told \/ told' = told \cup {live[i].name},
           UNCHANGED <<saved, staged, adding, web, orderly>>
    PROVE  /\ Types' /\ told \subseteq told' /\ live'[i] = e
           /\ (Staging(i)' <=> Staging(i)) /\ (StopComing(i)' <=> StopComing(i))
<1>1. live \in Seq(SlotRecords) /\ live[i].name \in Names
  BY SlotTyped DEF Types, SlotRecords
<1>2. live' \in Seq(SlotRecords) /\ DOMAIN live' = DOMAIN live /\ live'[i] = e
  BY <1>1, SlotChanged
<1>3. Types'
  BY <1>1, <1>2 DEF Types
<1> QED
  BY <1>2, <1>3 DEF Staging, StopComing

\* The typed fields of a slot.
LEMMA SlotFields ==
    ASSUME NEW s \in SlotRecords
    PROVE  /\ s.name \in Names /\ s.cfg \in Configs /\ s.pending \in Configs \cup {"none"}
           /\ s.stop \in BOOLEAN /\ s.starting \in Nat /\ s.running \in Nat
           /\ Final(s) \in Configs
BY DEF SlotRecords, Final

\* Applying what is staged.
LEMMA AppliedSlot ==
    ASSUME NEW s \in SlotRecords
    PROVE  /\ Applied(s) \in SlotRecords
           /\ Applied(s).name = s.name /\ Applied(s).cfg = Final(s)
           /\ Applied(s).pending = "none" /\ Applied(s).stop = s.stop
           /\ Applied(s).starting = s.starting /\ Applied(s).running = s.running
BY SlotFields DEF Applied, Final, SlotRecords

\* A task that reaches its loop, or gives up without credentials.
LEMMA StartStep ==
    ASSUME IInv, NEW i \in DOMAIN live, TaskStart(i)
    PROVE  IInv'
<1>1. Types /\ (orderly => OrderlyInv) /\ live[i] \in SlotRecords
  BY SlotTyped DEF IInv, Types
<1>2. PICK s \in SlotRecords : s = live[i]
  BY <1>1
<1>3. PICK e : e = Started(s)
  OBVIOUS
<1>4. /\ live' = [live EXCEPT ![i] = e] /\ s.starting > 0
      /\ told' = IF Final(s) = "no_login" THEN told \cup {s.name} ELSE told
      /\ UNCHANGED <<saved, staged, adding, web, orderly>>
  BY <1>2, <1>3, AppliedSlot DEF TaskStart
<1>5. /\ e \in SlotRecords /\ e.name = s.name /\ e.cfg = Final(s)
      /\ e.pending = "none" /\ e.stop = s.stop /\ e.starting = s.starting - 1
      /\ e.running = IF Final(s) = "no_login" THEN s.running ELSE s.running + 1
  <2>1. PICK x : x = [s EXCEPT !.starting = @ - 1]
    OBVIOUS
  <2>2. /\ x \in SlotRecords /\ x.name = s.name /\ x.cfg = s.cfg /\ x.pending = s.pending
        /\ x.stop = s.stop /\ x.starting = s.starting - 1 /\ x.running = s.running
    BY <1>4, <2>1, SlotFields DEF SlotRecords
  <2>3. PICK r \in SlotRecords : r = Applied(x)
    BY <2>2, AppliedSlot
  <2>4. /\ r.name = s.name /\ r.cfg = Final(s) /\ r.pending = "none"
        /\ r.stop = s.stop /\ r.starting = s.starting - 1 /\ r.running = s.running
    BY <2>2, <2>3, AppliedSlot DEF Final
  <2>5. e = IF r.cfg = "no_login" THEN r ELSE [r EXCEPT !.running = @ + 1]
    BY <1>3, <2>1, <2>3 DEF Started
  <2> QED
    BY <2>4, <2>5, SlotFields DEF SlotRecords
<1>6. /\ Types' /\ told \subseteq told' /\ live'[i] = e
      /\ (Staging(i)' <=> Staging(i)) /\ (StopComing(i)' <=> StopComing(i))
  BY <1>1, <1>2, <1>4, <1>5, TaskTypes
<1>7. ASSUME OrderlyInv PROVE OrderlyInv'
  <2>1. OneTask(i) /\ (s.name \notin told => Follows(i))
    BY <1>2, <1>7 DEF OrderlyInv
  <2>2. /\ s.starting = 1 /\ s.running = 0 /\ Enabled(Final(s)) /\ Final(s) = saved[s.name]
        /\ Staging(i) => web.cfg = saved[s.name] /\ web.was
    BY <1>2, <1>4, <2>1, SlotFields DEF OneTask, Active
  <2>3. /\ e.starting = 0 /\ Final(e) = Final(s)
        /\ e.running = IF Final(s) = "no_login" THEN 0 ELSE 1
    BY <1>5, <2>2 DEF Final
  <2>4. OneTask(i)'
    BY <1>4, <1>5, <1>6, <2>2, <2>3 DEF OneTask, Active, Enabled
  <2>5. s.name \notin told' => Follows(i)'
    <3> SUFFICES ASSUME s.name \notin told' PROVE Follows(i)'
      OBVIOUS
    <3>1. Final(s) # "no_login" /\ Follows(i)
      BY <1>4, <2>1
    <3>2. ~e.stop /\ Active(e) = 1 /\ (Staging(i) => web.was)
      BY <1>2, <1>5, <2>2, <2>3, <3>1 DEF Follows, Active
    <3> QED
      BY <1>4, <1>5, <1>6, <2>2, <2>3, <3>2 DEF Follows
  <2> QED
    BY <1>1, <1>2, <1>4, <1>5, <1>6, <1>7, <2>4, <2>5, SlotStep
<1> QED
  BY <1>1, <1>4, <1>6, <1>7 DEF IInv

\* A task that is told to stop exits.
LEMMA StopStep ==
    ASSUME IInv, NEW i \in DOMAIN live, TaskStop(i)
    PROVE  IInv'
<1>1. Types /\ (orderly => OrderlyInv) /\ live[i] \in SlotRecords
  BY SlotTyped DEF IInv, Types
<1>2. PICK s \in SlotRecords : s = live[i]
  BY <1>1
<1>3. PICK e : e = Stopped(s)
  OBVIOUS
<1>4. /\ live' = [live EXCEPT ![i] = e] /\ s.running > 0 /\ s.stop
      /\ UNCHANGED <<saved, staged, adding, web, orderly, told>>
  BY <1>2, <1>3 DEF TaskStop
<1>5. /\ e \in SlotRecords /\ e.name = s.name /\ e.cfg = "off" /\ e.pending = s.pending
      /\ e.stop = FALSE /\ e.starting = s.starting /\ e.running = s.running - 1
  <2>1. "off" \in Configs /\ s.running - 1 \in Nat /\ FALSE \in BOOLEAN
    BY <1>4, SlotFields DEF Configs
  <2> QED
    BY <1>3, <2>1 DEF Stopped, SlotRecords
<1>6. /\ Types' /\ told \subseteq told' /\ live'[i] = e
      /\ (Staging(i)' <=> Staging(i)) /\ (StopComing(i)' <=> StopComing(i))
  BY <1>1, <1>2, <1>4, <1>5, TaskTypes
<1>7. ASSUME OrderlyInv PROVE OrderlyInv'
  <2>1. OneTask(i) /\ (s.name \notin told => Follows(i))
    BY <1>2, <1>7 DEF OrderlyInv
  <2>2. s.running = 1 /\ s.starting = 0 /\ (Staging(i) => web.cfg = saved[s.name])
    BY <1>2, <1>4, <2>1, SlotFields DEF OneTask
  <2>3. e.running = 0 /\ e.starting = 0 /\ Active(e) = 0
    BY <1>5, <2>2 DEF Active
  <2>4. OneTask(i)'
    BY <1>4, <1>5, <1>6, <2>2, <2>3 DEF OneTask
  <2>5. s.name \notin told' => Follows(i)'
    <3> SUFFICES ASSUME s.name \notin told PROVE Follows(i)'
      BY <1>4
    <3>1. ~Enabled(saved[s.name]) /\ ~StopComing(i)
      BY <1>2, <1>4, <2>1, <2>2 DEF Follows, Active
    <3> QED
      BY <1>4, <1>5, <1>6, <2>3, <3>1 DEF Follows
  <2> QED
    BY <1>1, <1>2, <1>4, <1>5, <1>6, <1>7, <2>4, <2>5, SlotStep
<1> QED
  BY <1>1, <1>4, <1>6, <1>7 DEF IInv

\* A task takes over the configuration staged for it.
LEMMA ReloadStep ==
    ASSUME IInv, NEW i \in DOMAIN live, TaskReload(i)
    PROVE  IInv'
<1>1. Types /\ (orderly => OrderlyInv) /\ live[i] \in SlotRecords
  BY SlotTyped DEF IInv, Types
<1>2. PICK s \in SlotRecords : s = live[i]
  BY <1>1
<1>3. PICK e : e = Applied(s)
  OBVIOUS
<1>4. /\ live' = [live EXCEPT ![i] = e]
      /\ s.running > 0 /\ ~s.stop /\ s.pending # "none"
      /\ told' = IF s.pending = "no_login" THEN told \cup {s.name} ELSE told
      /\ UNCHANGED <<saved, staged, adding, web, orderly>>
  BY <1>2, <1>3 DEF TaskReload
<1>5. /\ e \in SlotRecords /\ e.name = s.name /\ e.cfg = s.pending /\ e.pending = "none"
      /\ e.stop = s.stop /\ e.starting = s.starting /\ e.running = s.running
  BY <1>3, <1>4, AppliedSlot DEF Final
<1>6. /\ Types' /\ told \subseteq told' /\ live'[i] = e
      /\ (Staging(i)' <=> Staging(i)) /\ (StopComing(i)' <=> StopComing(i))
  BY <1>1, <1>2, <1>4, <1>5, TaskTypes
<1>7. ASSUME OrderlyInv PROVE OrderlyInv'
  <2>1. OneTask(i) /\ (s.name \notin told => Follows(i))
    BY <1>2, <1>7 DEF OrderlyInv
  <2>2. /\ s.running = 1 /\ s.starting = 0
        /\ saved[s.name] = "off" => StopComing(i)
        /\ Staging(i) => web.cfg = saved[s.name] /\ web.was
    BY <1>2, <1>4, <2>1, SlotFields DEF OneTask, Active
  <2>3. Enabled(s.pending) /\ Final(s) = s.pending
    BY <1>2, <1>4, <2>1, <2>2, SlotFields DEF OneTask, Active, Enabled, Configs, Final
  <2>4. OneTask(i)'
    BY <1>4, <1>5, <1>6, <2>2, <2>3 DEF OneTask
  <2>5. s.name \notin told' => Follows(i)'
    <3> SUFFICES ASSUME s.name \notin told' PROVE Follows(i)'
      OBVIOUS
    <3>1. Follows(i)
      BY <1>6, <2>1
    <3>2. /\ ~Enabled(saved[s.name]) => StopComing(i)
          /\ Enabled(saved[s.name]) => Staging(i) \/ s.pending = saved[s.name]
      BY <1>2, <1>4, <2>2, <2>3, <3>1 DEF Follows, Active
    <3>3. Active(e) = 1 /\ Final(e) = s.pending
      BY <1>5, <2>2 DEF Active, Final
    <3> QED
      BY <1>4, <1>5, <1>6, <2>2, <3>2, <3>3 DEF Follows
  <2> QED
    BY <1>1, <1>2, <1>4, <1>5, <1>6, <1>7, <2>4, <2>5, SlotStep
<1> QED
  BY <1>1, <1>4, <1>6, <1>7 DEF IInv

-----------------------------------------------------------------------------
\* A set of natural numbers that is not empty has a least element: the strict
\* inclusion of its initial segments is well founded.
LEMMA Least ==
    ASSUME NEW T \in SUBSET Nat, T # {}
    PROVE  \E i \in T : \A j \in T : i <= j
<1> DEFINE R == StrictSubsetOrdering(Nat)
           Upto == {1..i : i \in T}
<1>1. Upto \subseteq FiniteSubsetsOf(Nat) /\ Upto # {}
  <2>1. \A i \in T : 1..i \in SUBSET Nat /\ IsFiniteSet(1..i)
    BY FS_Interval
  <2> QED
    BY <2>1 DEF FiniteSubsetsOf
<1>2. IsWellFoundedOn(R, FiniteSubsetsOf(Nat))
  BY FS_StrictSubsetOrderingWellFounded
<1>3. \E x \in Upto : \A y \in Upto : <<y, x>> \notin R
  <2> HIDE DEF R, Upto
  <2> QED
    BY <1>1, <1>2, WFMin
<1>4. PICK i \in T : \A j \in T : <<1..j, 1..i>> \notin R
  BY <1>3
<1>5. \A j \in T : i <= j
  <2> SUFFICES ASSUME NEW j \in T, j < i PROVE FALSE
    OBVIOUS
  <2>1. /\ 1..j \subseteq 1..i /\ i \in 1..i /\ i \notin 1..j
        /\ 1..j \in SUBSET Nat /\ 1..i \in SUBSET Nat
    OBVIOUS
  <2>2. 1..j # 1..i
    BY <2>1
  <2> QED
    BY <1>4, <2>1, <2>2 DEF StrictSubsetOrdering
<1> QED
  BY <1>5

\* findLiveCameraIndex finds a slot of that name, if there is one.
LEMMA SlotFound ==
    ASSUME live \in Seq(SlotRecords), NEW n \in Names
    PROVE  \/ SlotIndex(n) = 0 /\ \A i \in DOMAIN live : live[i].name # n
           \/ /\ SlotIndex(n) \in DOMAIN live /\ SlotIndex(n) # 0
              /\ live[SlotIndex(n)].name = n
<1>1. CASE SlotsOf(n) = {}
  BY <1>1 DEF SlotIndex, SlotsOf
<1>2. CASE SlotsOf(n) # {}
  <2>1. SlotsOf(n) \in SUBSET Nat /\ \A i \in SlotsOf(n) : i # 0
    BY SlotTyped DEF SlotsOf
  <2>2. \E i \in SlotsOf(n) : \A j \in SlotsOf(n) : i <= j
    BY <1>2, <2>1, Least
  <2>3. SlotIndex(n) \in SlotsOf(n)
    BY <1>2, <2>2 DEF SlotIndex
  <2> QED
    BY <2>1, <2>3 DEF SlotsOf
<1> QED
  BY <1>1, <1>2

\* When all has settled, a camera whose user was told nothing is monitored if
\* and only if it is stored enabled, and with the stored configuration.
LEMMA SettledSlots ==
    ASSUME Types, OrderlyInv, Settled
    PROVE  /\ web = WebIdle /\ staged = NoCamera /\ adding = NoCamera
           /\ \A i \in DOMAIN live :
                 /\ ~Staging(i) /\ ~StopComing(i)
                 /\ live[i].starting = 0 /\ live[i].running \in {0, 1}
                 /\ live[i].name \notin told =>
                       /\ live[i].pending = "none" /\ ~live[i].stop
                       /\ Enabled(saved[live[i].name]) =>
                             live[i].running = 1 /\ live[i].cfg = saved[live[i].name]
                       /\ ~Enabled(saved[live[i].name]) =>
                             live[i].running = 0 /\ live[i].cfg = "off"
<1>1. web = WebIdle /\ staged = NoCamera /\ adding = NoCamera
  BY DEF Settled
<1>2. ASSUME NEW i \in DOMAIN live
      PROVE  /\ ~Staging(i) /\ ~StopComing(i)
             /\ live[i].starting = 0 /\ live[i].running \in {0, 1}
             /\ live[i].name \notin told =>
                   /\ live[i].pending = "none" /\ ~live[i].stop
                   /\ Enabled(saved[live[i].name]) =>
                         live[i].running = 1 /\ live[i].cfg = saved[live[i].name]
                   /\ ~Enabled(saved[live[i].name]) =>
                         live[i].running = 0 /\ live[i].cfg = "off"
  <2>1. ~Staging(i) /\ ~StopComing(i)
    BY <1>1 DEF Staging, StopComing, WebIdle
  <2>2. PICK s \in SlotRecords : s = live[i]
    BY SlotTyped DEF Types
  <2>3. s.starting = 0 /\ s.running \in {0, 1}
    <3>1. OneTask(i) /\ s.starting = 0
      BY <2>2 DEF Settled, OrderlyInv
    <3> QED
      BY <2>2, <3>1, SlotFields DEF OneTask
  <2>4. ASSUME s.name \notin told
        PROVE  /\ s.pending = "none" /\ ~s.stop
               /\ Enabled(saved[s.name]) => s.running = 1 /\ s.cfg = saved[s.name]
               /\ ~Enabled(saved[s.name]) => s.running = 0 /\ s.cfg = "off"
    <3>1. Follows(i) /\ s.pending = "none" /\ ~s.stop
      BY <2>2, <2>4 DEF Settled, OrderlyInv
    <3> QED
      BY <2>1, <2>2, <2>3, <3>1 DEF Follows, Active, Final
  <2> QED
    BY <2>1, <2>2, <2>3, <2>4
<1> QED
  BY <1>1, <1>2

\* A save of a camera without a slot, all settled, disturbs no slot.
LEMMA UnslottedSave ==
    ASSUME Types, OrderlyInv, NEW n \in Names,
           \A i \in DOMAIN live : live[i].name # n,
           \A m \in Names : m # n => saved'[m] = saved[m],
           live' = live, told \subseteq told', web.slot = 0, web'.slot = 0,
           staged' = NoCamera \/ adding' = NoCamera,
           HandedOver(staged)', HandedOver(adding)',
           n \notin told' => Reaches(n)',
           staged = NoCamera, adding = NoCamera
    PROVE  OrderlyInv'
<1>1. ASSUME NEW j \in DOMAIN live
      PROVE  /\ OneTask(j)' <=> OneTask(j)
             /\ Follows(j)' <=> Follows(j)
  <2>1. live[j].name \in Names /\ live[j].name # n /\ j # 0
    BY SlotTyped DEF Types, SlotRecords
  <2>2. saved'[live[j].name] = saved[live[j].name]
    BY <2>1
  <2>3. ~Staging(j) /\ ~Staging(j)' /\ ~StopComing(j) /\ ~StopComing(j)'
    BY <2>1 DEF Staging, StopComing
  <2> QED
    BY <2>2, <2>3 DEF OneTask, Follows
<1>2. ASSUME NEW m \in Names \ told' PROVE Reaches(m)'
  <2>1. CASE m = n
    BY <1>2, <2>1
  <2>2. CASE m # n
    <3>1. Reaches(m) /\ saved'[m] = saved[m] /\ m # "none"
      BY <1>2, <2>2, ConstantsAssumption DEF OrderlyInv
    <3> QED
      BY <3>1 DEF Reaches, NoCamera
  <2> QED
    BY <2>1, <2>2
<1> QED
  BY <1>1, <1>2 DEF OrderlyInv, OneSlot

\* A new camera is stored and handed over, or its user is told there is no room.
LEMMA AddStep ==
    ASSUME IInv, NEW n \in Names, NEW cfg \in Configs, WebAdd(n, cfg)
    PROVE  IInv'
<1>1. /\ Types /\ (orderly => OrderlyInv)
      /\ web = WebIdle /\ saved' = [saved EXCEPT ![n] = cfg]
      /\ live' = live /\ adding' = adding /\ web' = web
      /\ orderly' = (orderly /\ Settled /\ SlotsOf(n) = {})
  BY DEF IInv, WebAdd
<1> DEFINE c == [name |-> n, cfg |-> cfg]
<1>2. /\ staged' = IF Len(live) < MaxCameras THEN c ELSE staged
      /\ told' = IF Len(live) < MaxCameras THEN told ELSE told \cup {n}
  BY DEF WebAdd
<1>3. c \in Camera /\ c.name = n /\ c.cfg = cfg
  BY DEF Camera
<1> HIDE DEF c
<1>4. Types'
  <2>1. saved' \in Stores
    BY <1>1 DEF Types, Stores
  <2>2. orderly' \in BOOLEAN
    BY <1>1, Zenon DEF Types
  <2> QED
    BY <1>1, <1>2, <1>3, <2>1, <2>2 DEF Types
<1>5. ASSUME orderly' PROVE OrderlyInv'
  <2>1. OrderlyInv /\ Settled /\ SlotsOf(n) = {}
    BY <1>1, <1>5
  <2>2. staged = NoCamera /\ adding = NoCamera /\ \A i \in DOMAIN live : live[i].name # n
    BY <1>1, <2>1, SettledSlots DEF SlotsOf
  <2>3. saved'[n] = cfg /\ \A m \in Names : m # n => saved'[m] = saved[m]
    BY <1>1 DEF Types, Stores
  <2>4. HandedOver(staged)' /\ HandedOver(adding)'
    BY <1>1, <1>2, <1>3, <2>2, <2>3 DEF HandedOver
  <2>5. n \notin told' => Reaches(n)'
    BY <1>2, <1>3 DEF Reaches
  <2>6. web.slot = 0 /\ web'.slot = 0 /\ told \subseteq told'
    BY <1>1, <1>2 DEF WebIdle
  <2> QED
    BY <1>1, <2>1, <2>2, <2>3, <2>4, <2>5, <2>6, UnslottedSave
<1> QED
  BY <1>4, <1>5 DEF IInv

\* A stored camera is saved again: what runs was looked up before.
LEMMA EditStep ==
    ASSUME IInv, NEW n \in Names, NEW cfg \in Configs, WebEdit(n, cfg)
    PROVE  IInv'
<1>1. /\ Types /\ (orderly => OrderlyInv)
      /\ web = WebIdle /\ saved[n] # "absent" /\ saved' = [saved EXCEPT ![n] = cfg]
      /\ live' = live /\ adding' = adding /\ staged' = staged /\ told' = told
      /\ orderly' = (orderly /\ Settled)
  BY DEF IInv, WebEdit
<1>2. PICK i : i = SlotIndex(n)
  OBVIOUS
<1>3. PICK was \in BOOLEAN : was = (i # 0 /\ Enabled(live[i].cfg))
  OBVIOUS
<1>4. web' = [step |-> "stage", slot |-> i, cfg |-> cfg, was |-> was]
  BY <1>2, <1>3 DEF WebEdit
<1>5. /\ web'.step = "stage" /\ web'.slot = i /\ web'.cfg = cfg
      /\ web'.was <=> (i # 0 /\ Enabled(live[i].cfg))
  BY <1>3, <1>4
<1>6. \/ i = 0 /\ \A j \in DOMAIN live : live[j].name # n
      \/ i \in DOMAIN live /\ i # 0 /\ live[i].name = n
  BY <1>1, <1>2, SlotFound DEF Types
<1>7. Types'
  <2>1. saved' \in Stores
    BY <1>1 DEF Types, Stores
  <2>2. orderly' \in BOOLEAN
    BY <1>1, Zenon DEF Types
  <2>3. i \in Nat /\ i \in {0} \cup DOMAIN live
    BY <1>1, <1>6, SlotTyped DEF Types
  <2>4. web' \in WebSteps
    BY <1>3, <1>4, <2>3 DEF WebSteps
  <2> QED
    BY <1>1, <1>5, <2>1, <2>2, <2>3, <2>4 DEF Types
<1>8. saved'[n] = cfg /\ \A m \in Names : m # n => saved'[m] = saved[m]
  BY <1>1 DEF Types, Stores
<1>9. ASSUME orderly' PROVE OrderlyInv'
  <2>1. OrderlyInv /\ Settled
    BY <1>1, <1>9
  <2>2. staged = NoCamera /\ adding = NoCamera
    BY <2>1, <1>1, SettledSlots
  <2>3. CASE i = 0 /\ \A j \in DOMAIN live : live[j].name # n
    <3>1. (Reaches(n) /\ n # "none") \/ n \in told
      BY <2>1, ConstantsAssumption DEF OrderlyInv
    <3>2. n \in told'
      BY <1>1, <2>2, <2>3, <3>1 DEF Reaches, NoCamera
    <3>3. HandedOver(staged)' /\ HandedOver(adding)'
      BY <1>1, <2>2 DEF HandedOver
    <3>4. web.slot = 0 /\ web'.slot = 0 /\ told \subseteq told'
      BY <1>1, <1>5, <2>3 DEF WebIdle
    <3> QED
      BY <1>1, <1>8, <2>1, <2>2, <2>3, <3>2, <3>3, <3>4, UnslottedSave
  <2>4. CASE i \in DOMAIN live /\ i # 0 /\ live[i].name = n
    <3>1. PICK s \in SlotRecords : s = live[i]
      BY <1>1, <2>4, SlotTyped DEF Types
    <3>2. /\ s.starting = 0 /\ s.running \in {0, 1} /\ s.name = n
          /\ s.name \notin told =>
                /\ s.pending = "none" /\ ~s.stop
                /\ Enabled(saved[s.name]) => s.running = 1 /\ s.cfg = saved[s.name]
                /\ ~Enabled(saved[s.name]) => s.running = 0 /\ s.cfg = "off"
      BY <1>1, <2>1, <2>4, <3>1, SettledSlots
    <3>3. OneTask(i) /\ ~Staging(i)
      BY <1>1, <2>1, <2>4, SettledSlots DEF OrderlyInv
    <3>4. /\ Staging(i)' /\ (web'.was <=> Enabled(s.cfg))
          /\ StopComing(i)' <=> Enabled(s.cfg) /\ ~Enabled(cfg)
      BY <1>5, <2>4, <3>1 DEF Staging, StopComing
    <3>5. OneTask(i)'
      BY <1>1, <1>5, <1>8, <3>1, <3>2, <3>3, <3>4 DEF OneTask, Active, Enabled
    <3>6. s.name \notin told' => Follows(i)'
      BY <1>1, <1>8, <3>1, <3>2, <3>4 DEF Follows, Active, Enabled
    <3>7. live' = [live EXCEPT ![i] = s]
      BY <1>1, <3>1 DEF Types
    <3>8. web.slot = 0 /\ web'.slot = i
      BY <1>1, <1>5 DEF WebIdle
    <3> QED
      <4>1. /\ s.name = live[i].name /\ live[i].name = n /\ told \subseteq told'
            /\ staged' = staged /\ adding' = adding
            /\ web.slot \in {0, i} /\ web'.slot \in {0, i}
        BY <1>1, <2>4, <3>1, <3>8
      <4> QED
        BY <1>1, <1>8, <2>1, <2>4, <3>5, <3>6, <3>7, <4>1, SlotStep
  <2> QED
    BY <1>6, <2>3, <2>4
<1> QED
  BY <1>7, <1>9 DEF IInv

\* A deletion asks the camera's task to stop, and takes the camera from the
\* store if the store lets it.
LEMMA DeleteStep ==
    ASSUME IInv, NEW n \in Names, NEW stored \in BOOLEAN, WebDelete(n, stored)
    PROVE  IInv'
<1>1. /\ Types /\ (orderly => OrderlyInv)
      /\ web = WebIdle /\ saved[n] # "absent"
      /\ saved' = [saved EXCEPT ![n] = IF stored THEN "absent" ELSE @]
      /\ adding' = adding /\ staged' = staged /\ told' = told /\ web' = web
      /\ orderly' = (orderly /\ Settled /\ stored)
  BY DEF IInv, WebDelete
<1>2. PICK i : i = SlotIndex(n)
  OBVIOUS
<1>3. live' = IF i # 0 /\ Enabled(live[i].cfg)
              THEN [live EXCEPT ![i] = Stopping(live[i])] ELSE live
  BY <1>2 DEF WebDelete
<1>4. \/ i = 0 /\ \A j \in DOMAIN live : live[j].name # n
      \/ i \in DOMAIN live /\ i # 0 /\ live[i].name = n
  BY <1>1, <1>2, SlotFound DEF Types
<1>5. saved' \in Stores /\ orderly' \in BOOLEAN
  <2>1. saved' \in Stores
    BY <1>1 DEF Types, Stores
  <2>2. orderly' \in BOOLEAN
    BY <1>1, Zenon DEF Types
  <2> QED
    BY <2>1, <2>2
<1>6. stored => saved'[n] = "absent" /\ \A m \in Names : m # n => saved'[m] = saved[m]
  BY <1>1 DEF Types, Stores
<1>7. CASE i = 0 /\ \A j \in DOMAIN live : live[j].name # n
  <2>1. live' = live
    BY <1>3, <1>7
  <2>2. Types'
    BY <1>1, <1>5, <2>1 DEF Types
  <2>3. ASSUME orderly' PROVE OrderlyInv'
    <3>1. OrderlyInv /\ Settled /\ stored
      BY <1>1, <2>3
    <3>2. staged = NoCamera /\ adding = NoCamera /\ web.slot = 0 /\ web'.slot = 0
      BY <1>1, <3>1, SettledSlots DEF WebIdle
    <3>3. HandedOver(staged)' /\ HandedOver(adding)' /\ Reaches(n)'
      BY <1>1, <1>6, <3>1, <3>2 DEF HandedOver, Reaches
    <3> QED
      BY <1>1, <1>6, <1>7, <2>1, <3>1, <3>2, <3>3, UnslottedSave
  <2> QED
    BY <2>2, <2>3 DEF IInv
<1>8. CASE i \in DOMAIN live /\ i # 0 /\ live[i].name = n
  <2>1. PICK s \in SlotRecords : s = live[i]
    BY <1>1, <1>8, SlotTyped DEF Types
  <2>2. PICK e : e = IF Enabled(s.cfg) THEN Stopping(s) ELSE s
    OBVIOUS
  <2>3. live' = [live EXCEPT ![i] = e]
    <3>1. CASE Enabled(s.cfg)
      BY <1>3, <1>8, <2>1, <2>2, <3>1
    <3>2. CASE ~Enabled(s.cfg)
      <4>1. live' = live /\ e = live[i] /\ live \in Seq(SlotRecords)
        BY <1>1, <1>3, <2>1, <2>2, <3>2 DEF Types
      <4> QED
        BY <4>1
    <3> QED
      BY <3>1, <3>2
  <2>4. /\ e \in SlotRecords /\ e.name = n /\ e.cfg = s.cfg /\ e.pending = s.pending
        /\ e.starting = s.starting /\ e.running = s.running
        /\ e.stop <=> Enabled(s.cfg) \/ s.stop
    BY <1>8, <2>1, <2>2 DEF Stopping, SlotRecords
  <2>5. live' \in Seq(SlotRecords) /\ DOMAIN live' = DOMAIN live /\ live'[i] = e
    BY <1>1, <1>8, <2>3, <2>4, SlotChanged DEF Types
  <2>6. Types'
    BY <1>1, <1>5, <2>5 DEF Types
  <2>7. ASSUME orderly' PROVE OrderlyInv'
    <3>1. OrderlyInv /\ Settled /\ stored
      BY <1>1, <2>7
    <3>2. /\ s.starting = 0 /\ s.running \in {0, 1} /\ ~Staging(i) /\ ~StopComing(i)
          /\ n \notin told =>
                /\ s.pending = "none" /\ ~s.stop
                /\ Enabled(saved[n]) => s.running = 1 /\ s.cfg = saved[n]
                /\ ~Enabled(saved[n]) => s.running = 0 /\ s.cfg = "off"
      BY <1>1, <1>8, <2>1, <3>1, SettledSlots
    <3>3. OneTask(i) /\ ~Staging(i)' /\ ~StopComing(i)'
      BY <1>1, <1>8, <3>1, <3>2 DEF OrderlyInv, Staging, StopComing
    <3>4. OneTask(i)'
      <4>1. saved'[n] = "absent" /\ e.starting = 0 /\ e.running \in {0, 1}
        BY <1>6, <2>4, <3>1, <3>2
      <4>2. e.running = 1 => Enabled(e.cfg)
        BY <2>1, <2>4, <3>3 DEF OneTask
      <4>3. e.pending = "off" => Active(e) = 0 \/ e.stop
        BY <2>1, <2>4, <3>3 DEF OneTask, Active
      <4> QED
        BY <2>4, <2>5, <3>3, <4>1, <4>2, <4>3 DEF OneTask
    <3>5. n \notin told' => Follows(i)'
      <4> SUFFICES ASSUME n \notin told PROVE Follows(i)'
        BY <1>1
      <4>1. saved'[n] = "absent" /\ ~Enabled(saved'[n])
        BY <1>6, <3>1 DEF Enabled
      <4>2. \/ ~e.stop /\ Active(e) = 0 /\ e.cfg = "off"
            \/ e.stop /\ e.running = 1
        BY <2>4, <3>2 DEF Active, Enabled
      <4> QED
        BY <2>4, <2>5, <3>3, <4>1, <4>2 DEF Follows
    <3> QED
      BY <1>1, <1>6, <1>8, <2>1, <2>3, <2>4, <3>1, <3>4, <3>5, SlotStep
  <2> QED
    BY <2>6, <2>7 DEF IInv
<1> QED
  BY <1>4, <1>7, <1>8

\* The stored configuration is staged again for every camera that runs.
LEMMA EditAllStep ==
    ASSUME IInv, WebEditAll
    PROVE  IInv'
<1>1. /\ Types /\ (orderly => OrderlyInv) /\ web = WebIdle
      /\ UNCHANGED <<saved, staged, adding, web, told>>
      /\ orderly' = (orderly /\ Settled)
  BY DEF IInv, WebEditAll
<1>2. /\ live \in Seq(SlotRecords) /\ Len(live) \in Nat /\ DOMAIN live = 1..Len(live)
      /\ \A i \in DOMAIN live : live[i] \in SlotRecords
  BY <1>1, SlotTyped, LenProperties DEF Types
<1>3. /\ DOMAIN live' = 1..Len(live) /\ live' = [i \in 1..Len(live) |-> live'[i]]
      /\ \A i \in DOMAIN live :
            live'[i] = IF /\ saved[live[i].name] # "absent"
                          /\ i = SlotIndex(live[i].name)
                          /\ Enabled(live[i].cfg)
                       THEN [live[i] EXCEPT !.pending = saved[live[i].name]]
                       ELSE live[i]
  BY <1>2 DEF WebEditAll
<1>4. ASSUME NEW i \in DOMAIN live
      PROVE  /\ live'[i] \in SlotRecords
             /\ live'[i].name = live[i].name /\ live'[i].cfg = live[i].cfg
             /\ live'[i].stop = live[i].stop /\ live'[i].starting = live[i].starting
             /\ live'[i].running = live[i].running
             /\ \/ live'[i].pending = live[i].pending
                \/ live'[i].pending = saved[live[i].name] /\ saved[live[i].name] \in Configs
             /\ (/\ saved[live[i].name] # "absent" /\ Enabled(live[i].cfg)
                 /\ i = SlotIndex(live[i].name)) => live'[i].pending = saved[live[i].name]
  <2>1. PICK s \in SlotRecords : s = live[i]
    BY <1>2
  <2>2. PICK c \in Configs \cup {"absent"} : c = saved[s.name]
    BY <1>1, <2>1, SlotFields DEF Types, Stores
  <2>3. live'[i] = IF c # "absent" /\ i = SlotIndex(s.name) /\ Enabled(s.cfg)
                   THEN [s EXCEPT !.pending = c] ELSE s
    BY <1>3, <2>1, <2>2
  <2>4. c # "absent" => [s EXCEPT !.pending = c] \in SlotRecords
    BY <2>2 DEF SlotRecords
  <2> QED
    BY <2>1, <2>2, <2>3, <2>4 DEF SlotRecords
<1>5. live' \in Seq(SlotRecords) /\ Len(live') = Len(live) /\ DOMAIN live' = DOMAIN live
  <2>1. \A i \in 1..Len(live) : live'[i] \in SlotRecords
    BY <1>2, <1>4
  <2>2. live' \in Seq(SlotRecords)
    BY <1>2, <1>3, <2>1, SeqDef
  <2>3. Len(live') \in Nat /\ DOMAIN live' = 1..Len(live')
    BY <2>2, LenProperties
  <2> QED
    BY <1>2, <1>3, <2>2, <2>3
<1>6. Types'
  <2>1. orderly' \in BOOLEAN
    BY <1>1, Zenon DEF Types
  <2> QED
    BY <1>1, <1>5, <2>1 DEF Types
<1>7. ASSUME orderly' PROVE OrderlyInv'
  <2>1. OrderlyInv /\ Settled
    BY <1>1, <1>7
  <2>2. \A i \in DOMAIN live : OneTask(i)' /\ (live[i].name \notin told => Follows(i)')
    <3> TAKE i \in DOMAIN live
    <3>1. PICK s \in SlotRecords : s = live[i]
      BY <1>2
    <3>2. /\ s.starting = 0 /\ s.running \in {0, 1} /\ ~Staging(i) /\ ~StopComing(i)
          /\ s.name \notin told =>
                /\ s.pending = "none" /\ ~s.stop
                /\ Enabled(saved[s.name]) => s.running = 1 /\ s.cfg = saved[s.name]
                /\ ~Enabled(saved[s.name]) => s.running = 0 /\ s.cfg = "off"
      BY <1>1, <2>1, <3>1, SettledSlots
    <3>3. OneTask(i) /\ ~Staging(i)' /\ ~StopComing(i)'
      BY <1>1, <2>1, <3>2 DEF OrderlyInv, Staging, StopComing
    <3>4. OneTask(i)'
      BY <1>1, <1>4, <3>1, <3>2, <3>3 DEF OneTask, Active
    <3>5. ASSUME s.name \notin told PROVE Follows(i)'
      <4>1. Final(live'[i]) = saved[s.name] \/ ~Enabled(saved[s.name])
        BY <1>4, <3>1, <3>2, <3>5 DEF Final, Enabled
      <4> QED
        BY <1>1, <1>4, <3>1, <3>2, <3>3, <3>5, <4>1 DEF Follows, Active
    <3> QED
      BY <3>1, <3>4, <3>5
  <2>3. /\ OneSlot' /\ HandedOver(staged)' /\ HandedOver(adding)'
        /\ \A n \in Names \ told : Reaches(n)'
    BY <1>1, <1>4, <1>5, <2>1 DEF OrderlyInv, OneSlot, HandedOver, Reaches
  <2> QED
    BY <1>1, <1>4, <1>5, <2>1, <2>2, <2>3 DEF OrderlyInv
<1> QED
  BY <1>6, <1>7 DEF IInv

-----------------------------------------------------------------------------
\* loop() takes the camera that is handed over.
LEMMA TakeStep ==
    ASSUME IInv, TakeNew
    PROVE  IInv'
<1>1. /\ Types /\ (orderly => OrderlyInv)
      /\ adding = NoCamera /\ adding' = staged /\ staged' = NoCamera
      /\ UNCHANGED <<saved, live, web, orderly, told>>
  BY DEF IInv, TakeNew
<1>2. Types'
  BY <1>1 DEF Types
<1>3. ASSUME OrderlyInv PROVE OrderlyInv'
  <2>1. \A i \in DOMAIN live : (OneTask(i)' <=> OneTask(i)) /\ (Follows(i)' <=> Follows(i))
    BY <1>1 DEF OneTask, Follows, Staging, StopComing
  <2>2. HandedOver(staged)' /\ HandedOver(adding)' /\ OneSlot'
    BY <1>1, <1>3 DEF OrderlyInv, HandedOver, OneSlot
  <2>3. \A n \in Names \ told : Reaches(n)'
    BY <1>1, <1>3 DEF OrderlyInv, Reaches
  <2> QED
    BY <1>1, <1>3, <2>1, <2>2, <2>3 DEF OrderlyInv
<1> QED
  BY <1>1, <1>2, <1>3 DEF IInv

\* loop() appends a slot for it, and starts its task.
LEMMA AppendStep ==
    ASSUME IInv, NEW created \in BOOLEAN, AppendNew(created)
    PROVE  IInv'
<1>1. /\ Types /\ (orderly => OrderlyInv)
      /\ adding # NoCamera /\ adding' = NoCamera
      /\ UNCHANGED <<saved, staged, web, orderly>>
  BY DEF IInv, AppendNew
<1>2. PICK c \in Camera : c = adding
  BY <1>1 DEF Types
<1>3. c.name \in Names /\ c.cfg \in Configs
  BY <1>2 DEF Camera
<1>4. told' \subseteq Names /\ told \subseteq told'
  BY <1>1, <1>2, <1>3 DEF AppendNew, ToldUnless, Types
<1>5. live \in Seq(SlotRecords) /\ Len(live) \in Nat /\ DOMAIN live = 1..Len(live)
  BY <1>1, LenProperties DEF Types
<1>6. CASE Len(live) >= MaxCameras
  <2>1. live' = live
    BY <1>6 DEF AppendNew, Appended
  <2>2. Types'
    BY <1>1, <1>4, <2>1 DEF Types
  <2>3. ~OrderlyInv
    BY <1>1, <1>5, <1>6, ConstantsAssumption DEF OrderlyInv, HandedOver
  <2> QED
    BY <1>1, <2>2, <2>3 DEF IInv
<1>7. CASE ~(Len(live) >= MaxCameras)
  <2>1. PICK k \in Nat : k = Len(live) + 1
    BY <1>5
  <2>2. PICK e : e = Spawned(Slot(c, 0), created /\ Enabled(c.cfg))
    OBVIOUS
  <2>3. /\ e \in SlotRecords /\ e.name = c.name /\ e.cfg = c.cfg /\ e.pending = "none"
        /\ ~e.stop /\ e.running = 0
        /\ e.starting = IF created /\ Enabled(c.cfg) THEN 1 ELSE 0
    <3>1. PICK x : x = Slot(c, 0)
      OBVIOUS
    <3>2. /\ x \in SlotRecords /\ x.name = c.name /\ x.cfg = c.cfg /\ x.pending = "none"
          /\ ~x.stop /\ x.running = 0 /\ x.starting = 0
      BY <1>3, <3>1 DEF Slot, SlotRecords
    <3>3. CASE created /\ Enabled(c.cfg)
      <4>1. e = [x EXCEPT !.starting = x.starting + 1]
        BY <2>2, <3>1, <3>3 DEF Spawned
      <4> QED
        BY <3>2, <3>3, <4>1 DEF SlotRecords
    <3>4. CASE ~(created /\ Enabled(c.cfg))
      <4>1. e = x
        BY <2>2, <3>1, <3>4 DEF Spawned
      <4> QED
        BY <3>2, <3>4, <4>1
    <3> QED
      BY <3>3, <3>4
  <2>4. live' = Append(live, e)
    BY <1>2, <1>7, <2>2 DEF AppendNew, Appended
  <2>5. /\ live' \in Seq(SlotRecords) /\ Len(live') = k /\ DOMAIN live' = 1..k
        /\ \A i \in DOMAIN live : live'[i] = live[i]
        /\ live'[k] = e
    <3>1. /\ live' \in Seq(SlotRecords) /\ Len(live') = k /\ live'[k] = e
          /\ \A i \in DOMAIN live : live'[i] = live[i]
      BY <1>5, <2>1, <2>3, <2>4, AppendProperties
    <3> QED
      BY <3>1, LenProperties
  <2>6. DOMAIN live' = DOMAIN live \cup {k} /\ k \notin DOMAIN live /\ k # 0
    BY <1>5, <2>1, <2>5
  <2>7. Types'
    BY <1>1, <1>4, <2>5, <2>6 DEF Types
  <2>8. ASSUME OrderlyInv PROVE OrderlyInv'
    <3>1. /\ \A i \in DOMAIN live : live[i].name # c.name
          /\ c.cfg = saved[c.name] /\ staged = NoCamera
      BY <1>1, <1>2, <2>8 DEF OrderlyInv, HandedOver
    <3>2. \A i \in DOMAIN live : (OneTask(i)' <=> OneTask(i)) /\ (Follows(i)' <=> Follows(i))
      BY <1>1, <2>5 DEF OneTask, Follows, Staging, StopComing
    <3>3. ~Staging(k)' /\ ~StopComing(k)'
      <4>1. web'.slot # k
        BY <1>1, <2>6 DEF Types
      <4> QED
        BY <4>1 DEF Staging, StopComing
    <3>4. OneTask(k)'
      BY <1>1, <2>3, <2>5, <3>1, <3>3 DEF OneTask, Active, Final
    <3>5. c.name \notin told' => Follows(k)'
      <4>1. Enabled(c.cfg) /\ ~created => c.name \in told'
        BY <1>2, <1>5, <1>7, ConstantsAssumption DEF AppendNew, ToldUnless
      <4>2. ~Enabled(c.cfg) => c.cfg = "off"
        BY <1>3 DEF Enabled, Configs
      <4> QED
        BY <1>1, <2>3, <2>5, <3>1, <3>3, <4>1, <4>2 DEF Follows, Active, Final
    <3>6. OneSlot'
      <4> SUFFICES ASSUME NEW i \in DOMAIN live', NEW j \in DOMAIN live',
                          live'[i].name = live'[j].name
                   PROVE  i = j
        BY DEF OneSlot
      <4>1. \A m \in DOMAIN live : live'[m] = live[m] /\ live'[m].name # c.name
        BY <2>5, <3>1
      <4>2. CASE i = k \/ j = k
        BY <2>3, <2>5, <2>6, <4>1, <4>2
      <4>3. CASE i \in DOMAIN live /\ j \in DOMAIN live
        BY <2>8, <4>1, <4>3 DEF OrderlyInv, OneSlot
      <4> QED
        BY <2>6, <4>2, <4>3
    <3>7. HandedOver(staged)' /\ HandedOver(adding)'
      BY <1>1, <3>1 DEF HandedOver
    <3>8. ASSUME NEW n \in Names \ told' PROVE Reaches(n)'
      <4>1. Reaches(n) /\ n # "none"
        BY <1>4, <2>8, <3>8, ConstantsAssumption DEF OrderlyInv
      <4>2. saved[n] # "absent" => (\E i \in DOMAIN live : live[i].name = n) \/ n = c.name
        BY <1>2, <3>1, <4>1 DEF Reaches, NoCamera
      <4> QED
        BY <1>1, <2>3, <2>5, <2>6, <4>2 DEF Reaches
    <3>9. \A i \in DOMAIN live' : OneTask(i)' /\ (live'[i].name \notin told' => Follows(i)')
      BY <1>4, <2>3, <2>5, <2>6, <2>8, <3>2, <3>4, <3>5 DEF OrderlyInv
    <3> QED
      BY <1>1, <3>6, <3>7, <3>8, <3>9 DEF OrderlyInv
  <2> QED
    BY <1>1, <2>7, <2>8 DEF IInv
<1> QED
  BY <1>6, <1>7

\* A reboot.
LEMMA RebootStep ==
    ASSUME IInv, Reboot
    PROVE  IInv'
<1>1. Booted'
  BY DEF IInv, Types, Reboot, Booted
<1> QED
  BY <1>1, BootKeeps

\* Every step keeps the invariant.
LEMMA IInvStep == IInv /\ [Next]_vars => IInv'
<1> SUFFICES ASSUME IInv, [Next]_vars PROVE IInv'
  OBVIOUS
<1>1. CASE WebStep
  BY <1>1, AddStep, EditStep, DeleteStep, EditAllStep DEF WebStep
<1>2. CASE \E created \in BOOLEAN : WebStage(created)
  BY <1>2, StageStep
<1>3. CASE LoopStep
  BY <1>3, TakeStep, AppendStep DEF LoopStep
<1>4. CASE \E i \in Slots : TaskStep(i)
  BY <1>4, StartStep, StopStep, ReloadStep DEF TaskStep
<1>5. CASE Reboot
  BY <1>5, RebootStep
<1>6. CASE UNCHANGED vars
  BY <1>6 DEF vars, IInv, Types, OrderlyInv, OneSlot, OneTask, Follows, Staging, StopComing,
              HandedOver, Reaches
<1> QED
  BY <1>1, <1>2, <1>3, <1>4, <1>5, <1>6 DEF Next

\* The inductive invariant holds in every reachable state: cameras are added,
\* edited, disabled and deleted while the board runs (src/webserver_cameras.cpp,
\* src/camera_tasks.cpp) for any number of cameras.
THEOREM LiveInvariant == Spec => []IInv
BY IInvInit, IInvStep, PTL DEF Spec

\* No two tasks poll one camera (cameraTaskFn), provided each change was made
\* when the one before had settled and no name was added that had a slot since
\* boot, whose first slot every look-up by name would find.
THEOREM LiveOneTask == Spec => []OneTaskIfOrderly
<1>1. IInv => OneTaskIfOrderly
  <2> SUFFICES ASSUME Types, OrderlyInv,
                      NEW n \in Names, NEW i \in Tasks(n), NEW j \in Tasks(n)
               PROVE  i = j /\ live[i].starting + live[i].running = 1
    BY DEF IInv, OneTaskIfOrderly
  <2>1. /\ i \in DOMAIN live /\ j \in DOMAIN live /\ live[i].name = n /\ live[j].name = n
        /\ live[i].starting + live[i].running > 0
    BY DEF Tasks, SlotsOf
  <2>2. i = j /\ OneTask(i)
    BY <2>1 DEF OrderlyInv, OneSlot
  <2>3. live[i] \in SlotRecords
    BY <2>1, SlotTyped DEF Types
  <2>4. live[i].starting \in Nat /\ live[i].running \in Nat
    BY <2>3, SlotFields
  <2> QED
    BY <2>1, <2>2, <2>4 DEF OneTask
<1> QED
  BY <1>1, LiveInvariant, PTL

\* When all has settled, the cameras monitored are the stored enabled ones, each
\* with its stored configuration, except those whose user was told otherwise.
THEOREM LiveMonitoredAsSaved == Spec => []MonitoredAsSaved
<1>1. IInv => MonitoredAsSaved
  <2> SUFFICES ASSUME Types, OrderlyInv, Settled, NEW n \in Names \ told
               PROVE  IF saved[n] \in {"absent", "off"}
                      THEN Tasks(n) = {}
                      ELSE \E i \in SlotsOf(n) : live[i].running = 1 /\ live[i].cfg = saved[n]
    BY DEF IInv, MonitoredAsSaved
  <2>1. /\ staged = NoCamera /\ adding = NoCamera
        /\ \A i \in SlotsOf(n) :
              /\ live[i].starting = 0
              /\ Enabled(saved[n]) => live[i].running = 1 /\ live[i].cfg = saved[n]
              /\ ~Enabled(saved[n]) => live[i].running = 0
    BY SettledSlots DEF SlotsOf
  <2>2. CASE saved[n] \in {"absent", "off"}
    <3>1. ~Enabled(saved[n])
      BY <2>2 DEF Enabled
    <3> QED
      BY <2>1, <2>2, <3>1 DEF Tasks
  <2>3. CASE saved[n] \notin {"absent", "off"}
    <3>1. Enabled(saved[n]) /\ saved[n] # "absent"
      BY <2>3 DEF Types, Stores, Configs, Enabled
    <3>2. \E i \in DOMAIN live : live[i].name = n
      BY <2>1, <3>1, ConstantsAssumption DEF OrderlyInv, Reaches, NoCamera
    <3> QED
      BY <2>1, <2>3, <3>1, <3>2 DEF SlotsOf
  <2> QED
    BY <2>2, <2>3
<1> QED
  BY <1>1, LiveInvariant, PTL

-----------------------------------------------------------------------------
\* While no two commands have overlapped, at most one save is to come and it is
\* of what the camera's state is; without one to come or one refused the
\* preference has caught up.
PrefInv ==
    ~contended =>
        /\ \A t \in Writers : task[t].step = "save" =>
              /\ task[t].on = camera.enabled
              /\ task[Other(t)].step # "save"
        /\ ~lost /\ (\A t \in Writers : task[t].step # "save") => pref = camera.enabled

\* A pending timer, and one that loop() is about to carry out, is the last
\* command's own.
TimerIsAsked ==
    ~overtaken =>
        /\ camera.timer.pending =>
              asked.limited /\ camera.timer.left = asked.left /\ camera.toOn = asked.after
        /\ task["loop"].step = "revert" =>
              asked.limited /\ asked.left = 0 /\ task["loop"].on = asked.after

\* The inductive invariant of AlertControl.
MuteInv == TypeOK /\ CommandStands /\ TimerIsAsked /\ PrefInv

TimerRecords == [pending : BOOLEAN, left : 0..MaxDelay]
AlertRecords == [enabled : BOOLEAN, toOn : BOOLEAN, timer : TimerRecords]
TaskRecords == [step : {"idle", "save", "revert"}, on : BOOLEAN]
AskedRecords == [on : BOOLEAN, limited : BOOLEAN, left : 0..MaxDelay, after : BOOLEAN]

\* The two tasks are each other's other.
LEMMA OtherFacts ==
    \A t \in Writers :
        /\ Other(t) \in Writers \ {t}
        /\ \A u \in Writers : u = t \/ u = Other(t)
BY DEF Writers, Other

\* No timer, and whatever timer a command takes, is well formed.
LEMMA TimerFacts ==
    NoTimer \in TimerRecords /\ Timers \subseteq TimerRecords
<1>1. 0 \in 0..MaxDelay /\ 1..MaxDelay \subseteq 0..MaxDelay
  BY DelayAssumption
<1>2. NoTimer \in TimerRecords
  BY <1>1 DEF NoTimer, TimerRecords
<1>3. [pending : {TRUE}, left : 1..MaxDelay] \subseteq TimerRecords
  BY <1>1 DEF TimerRecords
<1> QED
  BY <1>2, <1>3 DEF Timers, NoTimer

\* What a command asks for.
LEMMA AskedFacts ==
    ASSUME NEW on \in BOOLEAN, NEW timer \in TimerRecords
    PROVE  /\ Asked(on, timer) \in AskedRecords
           /\ Asked(on, timer).on = on /\ Asked(on, timer).after = (~on)
           /\ Asked(on, timer).limited = timer.pending
           /\ Asked(on, timer).left = timer.left
BY DEF Asked, AskedRecords, TimerRecords

\* The types, with their names.
LEMMA MuteTypeFacts ==
    TypeOK <=>
               /\ camera \in AlertRecords
               /\ pref \in BOOLEAN
               /\ task \in [Writers -> TaskRecords]
               /\ contended \in BOOLEAN
               /\ lost \in BOOLEAN
               /\ asked \in AskedRecords
               /\ overtaken \in BOOLEAN
BY DEF TypeOK, AlertRecords, TimerRecords, TaskRecords, AskedRecords

\* The state in which spawnCameraTask leaves a slot at boot: no task is busy, no
\* timer runs, the preference is the state.
LEMMA FreshIsSound ==
    ASSUME pref' \in BOOLEAN,
           camera' = [enabled |-> pref', timer |-> NoTimer, toOn |-> FALSE],
           task' = [t \in Writers |-> Idle],
           contended' = FALSE, lost' = FALSE, overtaken' = FALSE,
           asked' = Asked(pref', NoTimer)
    PROVE  MuteInv'
<1>1. NoTimer \in TimerRecords /\ NoTimer.pending = FALSE
  BY TimerFacts DEF NoTimer
<1>2. camera' \in AlertRecords /\ camera'.enabled = pref' /\ camera'.timer.pending = FALSE
  BY <1>1 DEF AlertRecords
<1>3. task' \in [Writers -> TaskRecords] /\ \A t \in Writers : task'[t].step = "idle"
  BY DEF Idle, TaskRecords
<1>4. asked' \in AskedRecords /\ asked'.on = pref'
  BY <1>1, AskedFacts
<1>5. TypeOK'
  BY <1>2, <1>3, <1>4 DEF TypeOK, AlertRecords, TimerRecords, TaskRecords, AskedRecords
<1>6. CommandStands'
  BY <1>2, <1>4 DEF CommandStands
<1>7. TimerIsAsked'
  BY <1>2, <1>3 DEF TimerIsAsked, Writers
<1>8. PrefInv'
  BY <1>2, <1>3 DEF PrefInv
<1> QED
  BY <1>5, <1>6, <1>7, <1>8 DEF MuteInv

-----------------------------------------------------------------------------
\* A write of alertsEnabled under the lock, its save still to come: it overlaps
\* exactly if the other task has a save to come as well.
LEMMA WriteKeepsPrefInv ==
    ASSUME task \in [Writers -> TaskRecords], NEW t \in Writers,
           contended' = (task[Other(t)].step = "save"),
           task' = [task EXCEPT ![t] = [step |-> "save", on |-> camera.enabled']]
    PROVE  PrefInv'
<1>1. SUFFICES ASSUME ~contended'
               PROVE  /\ \A u \in Writers : task'[u].step = "save" =>
                            /\ task'[u].on = camera'.enabled
                            /\ task'[Other(u)].step # "save"
                      /\ ~(\A u \in Writers : task'[u].step # "save")
  BY DEF PrefInv
<1>2. task[Other(t)].step # "save"
  BY <1>1, Zenon
<1>3. task'[t] = [step |-> "save", on |-> camera'.enabled]
  OBVIOUS
<1>4. task'[Other(t)] = task[Other(t)]
  BY OtherFacts
<1>5. task'[t].step = "save" /\ task'[t].on = camera'.enabled
  BY <1>3
<1>6. task'[Other(t)].step # "save"
  BY <1>2, <1>4
<1> QED
  BY <1>5, <1>6, OtherFacts

\* A command: the new state and the new timer belong together, and an older timer
\* is gone, unless loop() has already read it.
LEMMA CommandStep ==
    ASSUME MuteInv,
           NEW t \in Writers, NEW on \in BOOLEAN, NEW timer \in Timers,
           Command(t, on, timer)
    PROVE  MuteInv'
<1>1. camera' = [enabled |-> on, timer |-> timer, toOn |-> ~on]
  BY DEF Command, Commanded
<1>2. camera'.enabled = on /\ camera'.toOn = (~on) /\ camera'.timer = timer
  BY <1>1
<1>3. timer \in TimerRecords /\ camera' \in AlertRecords
  BY <1>1, TimerFacts DEF AlertRecords
<1>4. /\ task \in [Writers -> TaskRecords] /\ pref' = pref /\ pref \in BOOLEAN
      /\ task[t].step = "idle"
      /\ task' = [task EXCEPT ![t] = [step |-> "save", on |-> on]]
      /\ contended' = (task[Other(t)].step = "save") /\ lost' = FALSE
      /\ asked' = Asked(on, timer) /\ overtaken' = (task["loop"].step = "revert")
  BY MuteTypeFacts DEF MuteInv, Command
<1>5. task' \in [Writers -> TaskRecords]
  <2>1. [step |-> "save", on |-> on] \in TaskRecords
    BY DEF TaskRecords
  <2> QED
    BY <1>4, <2>1
<1>6. contended' \in BOOLEAN /\ overtaken' \in BOOLEAN
  BY <1>4, Zenon
<1>7. /\ asked' \in AskedRecords /\ asked'.on = on /\ asked'.after = (~on)
      /\ asked'.limited = timer.pending /\ asked'.left = timer.left
  BY <1>3, <1>4, AskedFacts
<1>8. TypeOK'
  BY <1>3, <1>4, <1>5, <1>6, <1>7
     DEF TypeOK, AlertRecords, TimerRecords, TaskRecords, AskedRecords
<1>9. CommandStands'
  BY <1>2, <1>7 DEF CommandStands
<1>10. TimerIsAsked'
  <2> SUFFICES ASSUME ~overtaken'
               PROVE  task'["loop"].step # "revert"
    BY <1>2, <1>7 DEF TimerIsAsked
  <2>1. task["loop"].step # "revert" /\ "loop" \in Writers
    BY <1>4, Zenon DEF Writers
  <2>2. task'["loop"] = IF t = "loop" THEN [step |-> "save", on |-> on] ELSE task["loop"]
    BY <1>4, <2>1
  <2> QED
    BY <2>1, <2>2
<1>11. PrefInv'
  BY <1>2, <1>4, WriteKeepsPrefInv
<1> QED
  BY <1>8, <1>9, <1>10, <1>11 DEF MuteInv

\* A save: the preference catches up, unless commands have overlapped or the
\* store refuses it.
LEMMA SaveStep ==
    ASSUME MuteInv, NEW t \in Writers, NEW stored \in BOOLEAN, Save(t, stored)
    PROVE  MuteInv'
<1>1. /\ task \in [Writers -> TaskRecords] /\ pref \in BOOLEAN
      /\ task[t].step = "save" /\ pref' = (IF stored THEN task[t].on ELSE pref)
      /\ task' = [task EXCEPT ![t] = Idle] /\ lost' = (~stored)
      /\ camera' = camera /\ contended' = contended
      /\ asked' = asked /\ overtaken' = overtaken
  BY MuteTypeFacts DEF MuteInv, Save, Saved
<1>2. task' \in [Writers -> TaskRecords] /\ pref' \in BOOLEAN
  <2>1. Idle \in TaskRecords /\ task[t] \in TaskRecords
    BY <1>1 DEF Idle, TaskRecords
  <2>2. pref' \in BOOLEAN
    BY <1>1, <2>1 DEF TaskRecords
  <2> QED
    BY <1>1, <2>1, <2>2
<1>3. TypeOK'
  BY <1>1, <1>2 DEF MuteInv, TypeOK, TaskRecords
<1>4. CommandStands'
  BY <1>1 DEF MuteInv, CommandStands
<1>5. TimerIsAsked'
  <2>1. task'["loop"].step = "revert" => task'["loop"] = task["loop"]
    <3>1. "loop" \in Writers
      BY DEF Writers
    <3> QED
      BY <1>1, <3>1 DEF Idle
  <2> QED
    BY <1>1, <2>1 DEF MuteInv, TimerIsAsked
<1>6. PrefInv'
  <2> SUFFICES ASSUME ~contended'
               PROVE  /\ \A u \in Writers : task'[u].step # "save"
                      /\ ~lost' => pref' = camera'.enabled
    BY DEF PrefInv
  <2>1. task[t].on = camera.enabled /\ task[Other(t)].step # "save"
    BY <1>1 DEF MuteInv, PrefInv
  <2>2. task'[t].step # "save"
    BY <1>1 DEF Idle
  <2>3. task'[Other(t)].step # "save"
    BY <1>1, <2>1, OtherFacts
  <2> QED
    BY <1>1, <2>1, <2>2, <2>3, OtherFacts
<1> QED
  BY <1>3, <1>4, <1>5, <1>6 DEF MuteInv

\* Reading a due timer: nothing but loop()'s place changes.
LEMMA RevertReadStep ==
    ASSUME MuteInv, RevertRead
    PROVE  MuteInv'
<1>1. /\ task \in [Writers -> TaskRecords] /\ camera \in AlertRecords
      /\ task["loop"].step = "idle" /\ "loop" \in Writers
      /\ camera.timer.pending /\ camera.timer.left = 0
      /\ task' = [task EXCEPT !["loop"] = [step |-> "revert", on |-> camera.toOn]]
      /\ camera' = camera /\ pref' = pref /\ contended' = contended /\ lost' = lost
      /\ asked' = asked /\ overtaken' = overtaken
  BY MuteTypeFacts DEF MuteInv, RevertRead, Writers
<1>2. [step |-> "revert", on |-> camera.toOn] \in TaskRecords
  BY <1>1 DEF AlertRecords, TaskRecords
<1>3. task' \in [Writers -> TaskRecords]
  BY <1>1, <1>2
<1>4. TypeOK'
  BY <1>1, <1>3 DEF MuteInv, TypeOK, TaskRecords
<1>5. CommandStands'
  BY <1>1 DEF MuteInv, CommandStands
<1>6. TimerIsAsked'
  <2>1. task'["loop"].on = camera.toOn
    BY <1>1
  <2> QED
    BY <1>1, <2>1 DEF MuteInv, TimerIsAsked
<1>7. \A u \in Writers : (task'[u].step = "save" <=> task[u].step = "save")
  BY <1>1
<1>8. \A u \in Writers : task'[u].step = "save" => task'[u].on = task[u].on
  BY <1>1
<1>9. PrefInv'
  BY <1>1, <1>7, <1>8, OtherFacts DEF MuteInv, PrefInv
<1> QED
  BY <1>4, <1>5, <1>6, <1>9 DEF MuteInv

\* Carrying a revert out: a write like a command's, which leaves no timer; what
\* it brings is what the last command's timer was for.
LEMMA RevertWriteStep ==
    ASSUME MuteInv, RevertWrite
    PROVE  MuteInv'
<1>1. /\ task \in [Writers -> TaskRecords] /\ camera \in AlertRecords
      /\ task["loop"] \in TaskRecords /\ "loop" \in Writers
      /\ task["loop"].step = "revert"
      /\ camera' = [camera EXCEPT !.enabled = task["loop"].on, !.timer = NoTimer]
      /\ task' = [task EXCEPT !["loop"].step = "save"]
      /\ pref' = pref /\ contended' = (task[Other("loop")].step = "save")
      /\ lost' = FALSE /\ asked' = asked /\ overtaken' = overtaken
  BY MuteTypeFacts DEF MuteInv, RevertWrite, Reverted, Other, Writers
<1>2. /\ camera' \in AlertRecords /\ camera'.enabled = task["loop"].on
      /\ camera'.timer = NoTimer /\ NoTimer.pending = FALSE
  BY <1>1, TimerFacts DEF AlertRecords, TaskRecords, NoTimer
<1>3. task' = [task EXCEPT !["loop"] = [step |-> "save", on |-> camera.enabled']]
  <2>1. ASSUME NEW r \in TaskRecords
        PROVE  [r EXCEPT !.step = "save"] = [step |-> "save", on |-> r.on]
    BY <2>1 DEF TaskRecords
  <2>2. task' = [task EXCEPT !["loop"] = [task["loop"] EXCEPT !.step = "save"]]
    BY <1>1
  <2> QED
    BY <1>1, <1>2, <2>1, <2>2
<1>4. task' \in [Writers -> TaskRecords]
  BY <1>1 DEF TaskRecords
<1>5. contended' \in BOOLEAN
  BY <1>1, Zenon
<1>6. TypeOK'
  BY <1>1, <1>2, <1>4, <1>5, MuteTypeFacts
     DEF MuteInv, TypeOK, AlertRecords, TimerRecords, TaskRecords, AskedRecords
<1>7. CommandStands'
  BY <1>1, <1>2 DEF MuteInv, TimerIsAsked, CommandStands
<1>8. TimerIsAsked'
  <2>1. task'["loop"].step = "save"
    BY <1>1, <1>3
  <2> QED
    BY <1>2, <2>1 DEF TimerIsAsked
<1>9. PrefInv'
  BY <1>1, <1>3, WriteKeepsPrefInv
<1> QED
  BY <1>6, <1>7, <1>8, <1>9 DEF MuteInv

\* Time takes the camera's timer and the one asked for towards their ends alike.
LEMMA TickStep ==
    ASSUME MuteInv, Tick
    PROVE  MuteInv'
<1>1. /\ camera \in AlertRecords /\ asked \in AskedRecords
      /\ camera' = [camera EXCEPT !.timer.left = Sooner(camera.timer.left)]
      /\ asked' = [asked EXCEPT !.left = Sooner(asked.left)]
      /\ task' = task /\ pref' = pref /\ contended' = contended /\ lost' = lost
      /\ overtaken' = overtaken
  BY MuteTypeFacts DEF MuteInv, Tick
<1>2. \A n \in 0..MaxDelay : Sooner(n) \in 0..MaxDelay
  BY DelayAssumption DEF Sooner
<1> DEFINE timer == [camera.timer EXCEPT !.left = Sooner(camera.timer.left)]
<1>3. camera.timer \in TimerRecords /\ asked.left \in 0..MaxDelay
  BY <1>1 DEF AlertRecords, AskedRecords
<1>4. Sooner(camera.timer.left) \in 0..MaxDelay /\ Sooner(asked.left) \in 0..MaxDelay
  BY <1>2, <1>3 DEF TimerRecords
<1>5. /\ timer \in TimerRecords /\ timer.pending = camera.timer.pending
      /\ timer.left = Sooner(camera.timer.left)
  BY <1>3, <1>4 DEF TimerRecords
<1>6. camera' = [camera EXCEPT !.timer = timer]
  BY <1>1
<1> HIDE DEF timer
<1>7. /\ camera' \in AlertRecords /\ camera'.timer = timer
      /\ camera'.enabled = camera.enabled /\ camera'.toOn = camera.toOn
  BY <1>1, <1>5, <1>6 DEF AlertRecords
<1>8. /\ asked' \in AskedRecords /\ asked'.left = Sooner(asked.left)
      /\ asked'.on = asked.on /\ asked'.after = asked.after /\ asked'.limited = asked.limited
  BY <1>1, <1>4 DEF AskedRecords
<1>9. Sooner(0) = 0
  BY DEF Sooner
<1>10. TypeOK'
  BY <1>1, <1>7, <1>8, MuteTypeFacts
     DEF MuteInv, TypeOK, AlertRecords, TimerRecords, AskedRecords
<1>11. CommandStands'
  BY <1>1, <1>7, <1>8, <1>9 DEF MuteInv, CommandStands
<1>12. TimerIsAsked'
  BY <1>1, <1>5, <1>7, <1>8, <1>9 DEF MuteInv, TimerIsAsked
<1>13. PrefInv'
  BY <1>1, <1>7 DEF MuteInv, PrefInv
<1> QED
  BY <1>10, <1>11, <1>12, <1>13 DEF MuteInv

\* A camera enabled again takes the preference over and keeps its timer.
LEMMA RespawnStep ==
    ASSUME MuteInv, Respawn
    PROVE  MuteInv'
<1>1. /\ camera \in AlertRecords /\ asked \in AskedRecords /\ pref \in BOOLEAN
      /\ task \in [Writers -> TaskRecords] /\ task["web"].step = "idle"
      /\ camera' = [camera EXCEPT !.enabled = pref]
      /\ asked' = [asked EXCEPT !.on = pref]
      /\ contended' = (task["loop"].step = "save") /\ lost' = FALSE
      /\ task' = task /\ pref' = pref /\ overtaken' = overtaken
  BY MuteTypeFacts DEF MuteInv, Respawn
<1>2. /\ camera' \in AlertRecords /\ camera'.enabled = pref
      /\ camera'.timer = camera.timer /\ camera'.toOn = camera.toOn
  BY <1>1 DEF AlertRecords
<1>3. /\ asked' \in AskedRecords /\ asked'.on = pref /\ asked'.left = asked.left
      /\ asked'.after = asked.after /\ asked'.limited = asked.limited
  BY <1>1 DEF AskedRecords
<1>4. contended' \in BOOLEAN
  BY <1>1, Zenon
<1>5. TypeOK'
  BY <1>1, <1>2, <1>3, <1>4, MuteTypeFacts
     DEF MuteInv, TypeOK, AlertRecords, TimerRecords, AskedRecords
<1>6. CommandStands'
  BY <1>2, <1>3 DEF CommandStands
<1>7. TimerIsAsked'
  BY <1>1, <1>2, <1>3 DEF MuteInv, TimerIsAsked
<1>8. PrefInv'
  <2> SUFFICES ASSUME ~contended'
               PROVE  \A t \in Writers : task[t].step # "save"
    BY <1>1, <1>2 DEF PrefInv
  <2>1. task["loop"].step # "save"
    BY <1>1, Zenon
  <2> QED
    BY <1>1, <2>1 DEF Writers
<1> QED
  BY <1>5, <1>6, <1>7, <1>8 DEF MuteInv

\* Every step keeps the invariant.
LEMMA MuteStep ==
    ASSUME MuteInv, [AlertNext]_alertVars
    PROVE  MuteInv'
<1>1. CASE \E t \in Writers, on \in BOOLEAN, timer \in Timers :
               Command(t, on, timer)
  BY <1>1, CommandStep
<1>2. CASE \E t \in Writers, stored \in BOOLEAN : Save(t, stored)
  BY <1>2, SaveStep
<1>3. CASE RevertRead
  BY <1>3, RevertReadStep
<1>4. CASE RevertWrite
  BY <1>4, RevertWriteStep
<1>5. CASE Tick
  BY <1>5, TickStep
<1>6. CASE Respawn
  BY <1>6, RespawnStep
<1>7. CASE Restart
  <2>1. pref' \in BOOLEAN /\ pref' = pref
    BY <1>7 DEF MuteInv, TypeOK, Restart
  <2> QED
    BY <1>7, <2>1, FreshIsSound DEF Restart
<1>8. CASE UNCHANGED alertVars
  BY <1>8 DEF alertVars, MuteInv, TypeOK, CommandStands, TimerIsAsked, PrefInv
<1> QED
  BY <1>1, <1>2, <1>3, <1>4, <1>5, <1>6, <1>7, <1>8 DEF AlertNext

\* A slot that spawnCameraTask has just filled satisfies the invariant.
LEMMA MuteInit ==
    ASSUME AlertInit
    PROVE  MuteInv
<1>1. NoTimer \in TimerRecords /\ NoTimer.pending = FALSE
  BY TimerFacts DEF NoTimer
<1>2. camera \in AlertRecords /\ camera.enabled = pref /\ camera.timer.pending = FALSE
  BY <1>1 DEF AlertInit, AlertRecords
<1>3. task \in [Writers -> TaskRecords] /\ \A t \in Writers : task[t].step = "idle"
  BY DEF AlertInit, Idle, TaskRecords
<1>4. asked \in AskedRecords /\ asked.on = pref
  BY <1>1, AskedFacts DEF AlertInit
<1>5. TypeOK
  BY <1>2, <1>3, <1>4, MuteTypeFacts DEF AlertInit
<1>6. CommandStands /\ TimerIsAsked
  BY <1>2, <1>3, <1>4 DEF CommandStands, TimerIsAsked, Writers
<1>7. PrefInv
  BY <1>2, <1>3 DEF PrefInv
<1> QED
  BY <1>5, <1>6, <1>7 DEF MuteInv

\* The invariant of one camera's mute, for timers of any length.
THEOREM MuteInvariant ==
    AlertSpec => []MuteInv
<1>1. AlertInit => MuteInv
  BY MuteInit
<1>2. MuteInv /\ [AlertNext]_alertVars => MuteInv'
  BY MuteStep
<1> QED
  BY <1>1, <1>2, PTL DEF AlertSpec

\* The fields of a camera, its preference and the tasks have their types: no
\* timer runs below zero.
THEOREM MuteTypes ==
    AlertSpec => []TypeOK
<1>1. MuteInv => TypeOK
  BY DEF MuteInv
<1> QED
  BY <1>1, MuteInvariant, PTL

\* A command stands until the next one or its own timer, however the commands of
\* both tasks, re-enabling and the two halves of a revert interleave, unless it
\* came between the two halves (src/telegram_commands.cpp).
THEOREM MuteCommandStands ==
    AlertSpec => []CommandStands
<1>1. MuteInv => CommandStands
  BY DEF MuteInv
<1> QED
  BY <1>1, MuteInvariant, PTL

\* Unless two commands overlapped or a save was refused, a reboot at any moment
\* restores the camera's state or the one before a command whose save was still
\* to come.
THEOREM MutePrefLags ==
    AlertSpec => []PrefLagsOneCommand
<1>1. MuteInv => PrefLagsOneCommand
  <2> SUFFICES ASSUME MuteInv, ~contended, ~lost, pref # camera.enabled
               PROVE  \E t \in Writers : task[t].step = "save" /\ task[t].on = camera.enabled
    BY DEF PrefLagsOneCommand
  <2> QED
    BY DEF MuteInv, PrefInv
<1> QED
  BY <1>1, MuteInvariant, PTL

=============================================================================
