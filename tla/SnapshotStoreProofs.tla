------------------------ MODULE SnapshotStoreProofs ------------------------
(***************************************************************************)
(* The photos kept in PSRAM, for a ring of any size, then those on the     *)
(* card, for any card, cameras, limits and faults.                         *)
(***************************************************************************)
EXTENDS SnapshotStore, FiniteSetTheorems, TLAPS

RingSlots == 0..(RingSize - 1)
Rings == [jpg : [RingSlots -> Int], next : RingSlots, count : 0..RingSize]

\* What the ring of one camera keeps of the photos given to it.
Keeps(r, p) ==
    /\ r.count = AtMost(Len(p), RingSize)
    /\ \A age \in 0..(r.count - 1) : RingRead(r, age) = p[Len(p) - age]

RingInv ==
    /\ ring \in [Cameras -> Rings]
    /\ pushed \in [Cameras -> Seq(Int)]
    /\ photos \in Nat
    /\ \A c \in Cameras : Keeps(ring[c], pushed[c])

-----------------------------------------------------------------------------
\* The remainder of what is less than twice the size.
LEMMA WrapOnce ==
    \A a \in 0..(2 * RingSize - 1) :
        a % RingSize = IF a < RingSize THEN a ELSE a - RingSize
<1> SUFFICES ASSUME NEW R \in Nat \ {0}, NEW a \in 0..(2 * R - 1)
             PROVE  a % R = IF a < R THEN a ELSE a - R
  BY StoreAssumption
<1>1. CASE a < R
  BY <1>1
<1>2. CASE a >= R
  BY <1>2
<1> QED
  BY <1>1, <1>2

\* The slot written next, and the slot of an age, without remainders.
LEMMA SlotFacts ==
    \A n \in RingSlots :
        /\ (n + 1) % RingSize = IF n + 1 = RingSize THEN 0 ELSE n + 1
        /\ \A age \in RingSlots :
              (n + RingSize - 1 - age) % RingSize =
                  IF age < n THEN n - 1 - age ELSE n - 1 - age + RingSize
<1> SUFFICES ASSUME NEW n \in RingSlots
             PROVE  /\ (n + 1) % RingSize = IF n + 1 = RingSize THEN 0 ELSE n + 1
                    /\ \A age \in RingSlots :
                          (n + RingSize - 1 - age) % RingSize =
                              IF age < n THEN n - 1 - age ELSE n - 1 - age + RingSize
  OBVIOUS
<1>1. RingSize \in Nat \ {0} /\ n \in 0..(RingSize - 1)
  BY StoreAssumption DEF RingSlots
<1>2. n + 1 \in 0..(2 * RingSize - 1)
  BY <1>1
<1>3. (n + 1) % RingSize = IF n + 1 = RingSize THEN 0 ELSE n + 1
  BY <1>1, <1>2, WrapOnce
<1>4. ASSUME NEW age \in RingSlots
      PROVE  (n + RingSize - 1 - age) % RingSize =
                 IF age < n THEN n - 1 - age ELSE n - 1 - age + RingSize
  <2>1. age \in 0..(RingSize - 1)
    BY DEF RingSlots
  <2> DEFINE a == n + RingSize - 1 - age
  <2>2. a \in 0..(2 * RingSize - 1)
    BY <1>1, <2>1
  <2>3. a % RingSize = IF a < RingSize THEN a ELSE a - RingSize
    BY <2>2, WrapOnce
  <2>4. a < RingSize <=> ~(age < n)
    BY <1>1, <2>1
  <2> QED
    BY <1>1, <2>1, <2>3, <2>4
<1> QED
  BY <1>3, <1>4

\* A photo pushed takes the slot written next, its neighbours keep theirs and
\* are one older.
LEMMA PushKeeps ==
    ASSUME NEW r \in Rings, NEW p \in Seq(Int), NEW id \in Int, Keeps(r, p)
    PROVE  RingPush(r, id) \in Rings /\ Keeps(RingPush(r, id), Append(p, id))
<1> DEFINE s == RingPush(r, id)
           q == Append(p, id)
<1>1. RingSize \in Nat \ {0}
  BY StoreAssumption
<1>2. r.jpg \in [RingSlots -> Int] /\ r.next \in RingSlots /\ r.count \in 0..RingSize
  BY DEF Rings
<1>3. /\ s = [jpg |-> [r.jpg EXCEPT ![r.next] = id], next |-> (r.next + 1) % RingSize,
              count |-> AtMost(r.count + 1, RingSize)]
      /\ s.jpg = [r.jpg EXCEPT ![r.next] = id]
      /\ s.next = (r.next + 1) % RingSize
      /\ s.count = AtMost(r.count + 1, RingSize)
  BY DEF RingPush
<1>8. /\ Len(p) \in Nat /\ Len(q) = Len(p) + 1 /\ q[Len(p) + 1] = id
      /\ \A i \in 1..Len(p) : q[i] = p[i]
  OBVIOUS
<1> HIDE DEF s, q
<1>4. s.next = (IF r.next + 1 = RingSize THEN 0 ELSE r.next + 1) /\ s.next \in RingSlots
  <2>1. s.next = (IF r.next + 1 = RingSize THEN 0 ELSE r.next + 1)
    BY <1>2, <1>3, SlotFacts
  <2>2. r.next \in 0..(RingSize - 1)
    BY <1>2 DEF RingSlots
  <2> QED
    BY <1>1, <2>1, <2>2 DEF RingSlots
<1>5. s.count = (IF r.count + 1 > RingSize THEN RingSize ELSE r.count + 1) /\ s.count \in 0..RingSize
  BY <1>1, <1>2, <1>3 DEF AtMost
<1>6. s.jpg \in [RingSlots -> Int]
  BY <1>2, <1>3
<1>7. s \in Rings
  BY <1>3, <1>4, <1>5, <1>6 DEF Rings
<1>9. r.count = IF Len(p) > RingSize THEN RingSize ELSE Len(p)
  BY DEF Keeps, AtMost
<1>10. s.count = AtMost(Len(q), RingSize)
  BY <1>1, <1>5, <1>8, <1>9 DEF AtMost
<1>11. ASSUME NEW age \in 0..(s.count - 1)
       PROVE  RingRead(s, age) = q[Len(q) - age]
  <2>1. age \in RingSlots /\ age \in Nat
    BY <1>1, <1>5 DEF RingSlots
  <2> DEFINE slot == RingIndex(s, age)
  <2>2. slot = IF age < s.next THEN s.next - 1 - age ELSE s.next - 1 - age + RingSize
    BY <1>4, <2>1, SlotFacts DEF RingIndex
  <2>3. RingRead(s, age) = s.jpg[slot]
    BY DEF RingRead
  <2>4. slot \in RingSlots
    BY <1>1, <1>4, <2>1, <2>2 DEF RingSlots
  <2> HIDE DEF slot
  <2>5. CASE age = 0
    <3>1. slot = r.next
      BY <1>1, <1>2, <1>4, <2>2, <2>5 DEF RingSlots
    <3>2. s.jpg[slot] = id
      BY <1>2, <1>3, <3>1
    <3> QED
      BY <1>8, <2>3, <2>5, <3>2
  <2>6. CASE age > 0
    <3>1. age - 1 \in RingSlots /\ age - 1 \in 0..(r.count - 1)
      BY <1>1, <1>2, <1>5, <2>1, <2>6 DEF RingSlots
    <3>2. RingIndex(r, age - 1) =
            IF age - 1 < r.next THEN r.next - 1 - (age - 1) ELSE r.next - 1 - (age - 1) + RingSize
      BY <1>2, <3>1, SlotFacts DEF RingIndex
    <3>3. slot = RingIndex(r, age - 1) /\ slot # r.next
      <4>1. r.next \in 0..(RingSize - 1) /\ age \in 1..(RingSize - 1)
        BY <1>1, <1>2, <2>1, <2>6 DEF RingSlots
      <4> DEFINE n == r.next
      <4>2. s.next = IF n + 1 = RingSize THEN 0 ELSE n + 1
        BY <1>4
      <4>3. RingIndex(r, age - 1) = IF age - 1 < n THEN n - age ELSE n - age + RingSize
        BY <1>1, <3>2, <4>1
      <4> HIDE DEF n
      <4>4. n \in 0..(RingSize - 1)
        BY <4>1 DEF n
      <4>5. slot = IF age - 1 < n THEN n - age ELSE n - age + RingSize
        BY <1>1, <2>2, <4>1, <4>2, <4>4
      <4>6. slot # n
        BY <1>1, <4>1, <4>4, <4>5
      <4> QED
        BY <4>3, <4>5, <4>6 DEF n
    <3>4. s.jpg[slot] = r.jpg[slot]
      BY <1>2, <1>3, <2>4, <3>3
    <3>5. r.jpg[slot] = p[Len(p) - (age - 1)]
      BY <3>1, <3>3 DEF Keeps, RingRead
    <3>6. Len(p) - (age - 1) \in 1..Len(p) /\ Len(q) - age = Len(p) - (age - 1)
      <4>1. r.count <= Len(p) /\ r.count \in Int
        BY <1>1, <1>2, <1>8, <1>9
      <4>2. age \in Int /\ age >= 1 /\ age - 1 <= r.count - 1
        BY <2>1, <2>6, <3>1, <4>1
      <4> QED
        BY <1>8, <4>1, <4>2
    <3> QED
      BY <1>8, <2>3, <3>4, <3>5, <3>6
  <2>7. age = 0 \/ age > 0
    BY <2>1
  <2> QED
    BY <2>5, <2>6, <2>7
<1>12. Keeps(s, q)
  BY <1>10, <1>11 DEF Keeps
<1> QED
  BY <1>7, <1>12 DEF s, q

\* An empty ring keeps nothing.
LEMMA EmptyKeeps == EmptyRing \in Rings /\ Keeps(EmptyRing, <<>>)
<1>1. RingSize \in Nat \ {0}
  BY StoreAssumption
<1>2. EmptyRing \in Rings
  BY <1>1 DEF EmptyRing, Rings, RingSlots
<1>3. EmptyRing.count = 0
  BY DEF EmptyRing
<1>4. AtMost(Len(<<>>), RingSize) = 0
  BY <1>1 DEF AtMost
<1>5. Keeps(EmptyRing, <<>>)
  BY <1>3, <1>4 DEF Keeps
<1> QED
  BY <1>2, <1>5

\* At first, and after a reset, every ring is empty.
LEMMA EmptyRings ==
    [c \in Cameras |-> EmptyRing] \in [Cameras -> Rings]
    /\ [c \in Cameras |-> <<>>] \in [Cameras -> Seq(Int)]
    /\ \A c \in Cameras : Keeps([d \in Cameras |-> EmptyRing][c], [d \in Cameras |-> <<>>][c])
<1>1. <<>> \in Seq(Int)
  OBVIOUS
<1> QED
  BY <1>1, EmptyKeeps

-----------------------------------------------------------------------------
\* A photo goes to the card, to the ring of its camera, or nowhere.
LEMMA SnapshotKeeps ==
    ASSUME RingInv, NEW c \in Cameras, Snapshot(c)
    PROVE  RingInv'
<1>1. photos' = photos + 1 /\ photos \in Nat
  BY DEF Snapshot, RingInv
<1>2. CASE UNCHANGED <<ring, pushed>>
  BY <1>1, <1>2 DEF RingInv
<1>3. CASE /\ ring' = [ring EXCEPT ![c] = RingPush(@, photos + 1)]
           /\ pushed' = [pushed EXCEPT ![c] = Append(@, photos + 1)]
  <2>1. ring[c] \in Rings /\ pushed[c] \in Seq(Int) /\ Keeps(ring[c], pushed[c])
    BY DEF RingInv
  <2>2. photos + 1 \in Int
    BY <1>1
  <2> DEFINE r == RingPush(ring[c], photos + 1)
             p == Append(pushed[c], photos + 1)
  <2>3. r \in Rings /\ Keeps(r, p)
    BY <2>1, <2>2, PushKeeps
  <2>4. p \in Seq(Int)
    BY <2>1, <2>2
  <2>5. ring' = [ring EXCEPT ![c] = r] /\ pushed' = [pushed EXCEPT ![c] = p]
    BY <1>3
  <2> HIDE DEF r, p
  <2>6. ring' \in [Cameras -> Rings] /\ pushed' \in [Cameras -> Seq(Int)]
    BY <2>3, <2>4, <2>5 DEF RingInv
  <2>7. \A d \in Cameras : Keeps(ring'[d], pushed'[d])
    <3> TAKE d \in Cameras
    <3>1. CASE d = c
      <4>1. ring'[d] = r /\ pushed'[d] = p
        BY <2>5, <3>1 DEF RingInv
      <4> QED
        BY <2>3, <4>1
    <3>2. CASE d # c
      <4>1. ring'[d] = ring[d] /\ pushed'[d] = pushed[d]
        BY <2>5, <3>2 DEF RingInv
      <4> QED
        BY <4>1 DEF RingInv
    <3> QED
      BY <3>1, <3>2
  <2>8. \A d \in Cameras : Keeps(ring[d], pushed[d])'
    BY <2>7 DEF Keeps, RingRead, RingIndex
  <2> QED
    BY <1>1, <2>6, <2>8 DEF RingInv
<1> QED
  BY <1>2, <1>3 DEF Snapshot

\* Nothing else writes a ring, but a reset empties it.
LEMMA NextKeepsRings ==
    ASSUME RingInv, [Next]_vars
    PROVE  RingInv'
<1>1. CASE UNCHANGED <<ring, pushed, photos>>
  BY <1>1 DEF RingInv, Keeps, RingRead, RingIndex
<1>2. CASE Reset
  <2>1. /\ ring' = [c \in Cameras |-> EmptyRing] /\ pushed' = [c \in Cameras |-> <<>>]
        /\ photos' = photos
    BY <1>2 DEF Reset
  <2> QED
    BY <2>1, EmptyRings DEF RingInv
<1>3. CASE \E c \in Cameras : Snapshot(c)
  BY <1>3, SnapshotKeeps
<1>4. (\E c \in Cameras : OpenFile(c) \/ CloseFile(c) \/ ShowGallery(c) \/ Sweep(c))
        => UNCHANGED <<ring, pushed, photos>>
  BY DEF OpenFile, CloseFile, ShowGallery, Sweep
<1>5. (\E t \in Tasks : MarkFailed(t)) \/ ReadPhoto \/ EraseAll \/ BeginSweep \/ AppendFails
        \/ ClockSet \/ TimePasses \/ ClockSetBack
        => UNCHANGED <<ring, pushed, photos>>
  BY DEF MarkFailed, ReadPhoto, EraseAll, BeginSweep, AppendFails, ClockSet, TimePasses,
     ClockSetBack
<1>6. UNCHANGED vars => UNCHANGED <<ring, pushed, photos>>
  BY DEF vars
<1> QED
  BY <1>1, <1>2, <1>3, <1>4, <1>5, <1>6 DEF Next

\* The ring of every camera gives back the last photos it was given, newest
\* first, for any size (pushRamSnapshot, readRamSnapshot).
THEOREM RingNewestFirst == Spec => []RingKeepsNewest
<1>1. Init => RingInv
  <2> SUFFICES ASSUME Init PROVE RingInv
    OBVIOUS
  <2>1. ring = [c \in Cameras |-> EmptyRing] /\ pushed = [c \in Cameras |-> <<>>] /\ photos = 0
    BY DEF Init
  <2> QED
    BY <2>1, EmptyRings DEF RingInv
<1>2. RingInv => RingKeepsNewest
  BY DEF RingInv, Keeps, RingKeepsNewest
<1> QED
  BY <1>1, <1>2, NextKeepsRings, PTL DEF Spec

-----------------------------------------------------------------------------
(***************************************************************************)
(* Space, unit by unit                                                     *)
(***************************************************************************)
\* The units that the elements of S take when each takes h[f], Largest at most.
Under(S, h) == {u \in S \X (1..Largest) : u[2] <= h[u[1]]}
Heap(S, h) == Cardinality(Under(S, h))

LEMMA SizeFacts ==
    /\ Largest \in Nat \ {0} /\ Smallest \in Nat \ {0} /\ Smallest <= Largest
    /\ IsFiniteSet(1..Largest) /\ Cardinality(1..Largest) = Largest
<1>1. Largest \in Nat \ {0} /\ Smallest \in Nat \ {0} /\ Smallest <= Largest
  BY StoreAssumption
<1>2. IsFiniteSet(1..Largest) /\ Cardinality(1..Largest) = Largest
  BY <1>1, FS_Interval
<1> QED
  BY <1>1, <1>2

LEMMA HeapFinite ==
    ASSUME NEW h, NEW S, IsFiniteSet(S)
    PROVE  IsFiniteSet(Under(S, h)) /\ Heap(S, h) \in Nat
<1>1. IsFiniteSet(S \X (1..Largest)) /\ Under(S, h) \in SUBSET (S \X (1..Largest))
  BY SizeFacts, FS_Product DEF Under
<1>2. IsFiniteSet(Under(S, h))
  BY <1>1, FS_Subset
<1> QED
  BY <1>2, FS_CardinalityType DEF Heap

\* The units of a part and of the rest.
LEMMA HeapSplit ==
    ASSUME NEW h, NEW S, IsFiniteSet(S), NEW D \in SUBSET S
    PROVE  /\ IsFiniteSet(D) /\ IsFiniteSet(S \ D)
           /\ Heap(D, h) \in Nat /\ Heap(S \ D, h) \in Nat
           /\ Heap(S, h) = Heap(S \ D, h) + Heap(D, h)
<1>1. IsFiniteSet(D) /\ IsFiniteSet(S \ D)
  BY FS_Subset, FS_Difference
<1>2. /\ IsFiniteSet(Under(D, h)) /\ IsFiniteSet(Under(S \ D, h))
      /\ Heap(D, h) \in Nat /\ Heap(S \ D, h) \in Nat
  BY <1>1, HeapFinite
<1>3. Under(S, h) = Under(S \ D, h) \cup Under(D, h) /\ Under(S \ D, h) \cap Under(D, h) = {}
  BY DEF Under
<1>4. Heap(S, h) = Heap(S \ D, h) + Heap(D, h) - Cardinality({})
  BY <1>2, <1>3, FS_Union DEF Heap
<1> QED
  BY <1>1, <1>2, <1>4, FS_EmptySet

\* A smaller heap.
LEMMA HeapLess ==
    ASSUME NEW h, NEW k, NEW S, IsFiniteSet(S), NEW T \in SUBSET S,
           \A f \in T : h[f] \in Nat /\ k[f] \in Nat /\ k[f] <= h[f]
    PROVE  Heap(T, k) <= Heap(S, h) /\ Heap(T, k) \in Nat /\ Heap(S, h) \in Nat
<1>1. IsFiniteSet(T)
  BY FS_Subset
<1>2. Under(T, k) \in SUBSET Under(S, h)
  BY SizeFacts DEF Under
<1> QED
  BY <1>1, <1>2, HeapFinite, FS_Subset DEF Heap

\* The units of one element.
LEMMA HeapOne ==
    ASSUME NEW h, NEW f, h[f] \in Nat
    PROVE  Heap({f}, h) = AtMost(h[f], Largest)
<1> DEFINE n == AtMost(h[f], Largest)
<1>1. n \in Nat /\ n <= Largest /\ \A i \in 1..Largest : i <= h[f] <=> i <= n
  BY SizeFacts DEF AtMost
<1>2. Under({f}, h) = {f} \X (1..n)
  <2>1. \A i : i \in 1..Largest /\ i <= h[f] <=> i \in 1..n
    BY <1>1, SizeFacts
  <2> HIDE DEF n
  <2> QED
    BY <2>1 DEF Under
<1> HIDE DEF n
<1>3. IsFiniteSet(1..n) /\ Cardinality(1..n) = n
  BY <1>1, FS_Interval
<1>4. Cardinality({f} \X (1..n)) = 1 * n
  <2>1. IsFiniteSet({f}) /\ Cardinality({f}) = 1
    BY FS_Singleton
  <2>2. Cardinality({f} \X (1..n)) = Cardinality({f}) * Cardinality(1..n)
    BY <1>3, <2>1, FS_Product, Zenon
  <2> QED
    BY <1>3, <2>1, <2>2
<1>5. Cardinality({f} \X (1..n)) = n
  BY <1>1, <1>4
<1> QED
  BY <1>2, <1>5 DEF n, Heap

\* Every element takes its share, and Largest at most.
LEMMA HeapBounds ==
    ASSUME NEW h, NEW S, IsFiniteSet(S)
    PROVE  /\ Heap(S, h) <= Cardinality(S) * Largest
           /\ (\A f \in S : h[f] \in Nat /\ Smallest <= h[f])
                => Cardinality(S) * Smallest <= Heap(S, h)
<1>1. Heap(S, h) <= Cardinality(S) * Largest
  <2>1. /\ IsFiniteSet(S \X (1..Largest)) /\ Cardinality(S \X (1..Largest)) = Cardinality(S) * Largest
        /\ Under(S, h) \in SUBSET (S \X (1..Largest))
    BY SizeFacts, FS_Product DEF Under
  <2> QED
    BY <2>1, FS_Subset DEF Heap
<1>2. ASSUME \A f \in S : h[f] \in Nat /\ Smallest <= h[f]
      PROVE  Cardinality(S) * Smallest <= Heap(S, h)
  <2>1. IsFiniteSet(1..Smallest) /\ Cardinality(1..Smallest) = Smallest
    BY SizeFacts, FS_Interval
  <2>2. Cardinality(S \X (1..Smallest)) = Cardinality(S) * Smallest
    BY <2>1, FS_Product
  <2>3. S \X (1..Smallest) \in SUBSET Under(S, h)
    BY <1>2, SizeFacts DEF Under
  <2> QED
    BY <2>2, <2>3, HeapFinite, FS_Subset DEF Heap
<1> QED
  BY <1>1, <1>2

\* Units that are missing are those of elements that take less.
LEMMA HeapShort ==
    ASSUME NEW h, NEW k, NEW S, IsFiniteSet(S), NEW T \in SUBSET S,
           \A f \in S : h[f] \in Nat /\ k[f] \in Nat,
           \A f \in S \ T : h[f] <= k[f]
    PROVE  Heap(S, h) <= Heap(S, k) + Cardinality(T) * Largest
<1>1. /\ Heap(S, h) = Heap(S \ T, h) + Heap(T, h) /\ Heap(S \ T, h) \in Nat /\ Heap(T, h) \in Nat
      /\ IsFiniteSet(T)
  BY HeapSplit
<1>2. Heap(S \ T, h) <= Heap(S, k) /\ Heap(S, k) \in Nat
  BY HeapLess
<1>3. Heap(T, h) <= Cardinality(T) * Largest
  BY <1>1, HeapBounds
<1>4. Cardinality(T) * Largest \in Nat
  <2>1. Cardinality(T) \in Nat /\ Largest \in Nat
    BY <1>1, FS_CardinalityType, SizeFacts
  <2> QED
    BY <2>1
<1> QED
  BY <1>1, <1>2, <1>3, <1>4

-----------------------------------------------------------------------------
(***************************************************************************)
(* The photos on the card                                                  *)
(***************************************************************************)
Times == Nat \cup {None}
Records == [camera : Cameras \cup {Gone}, id : Int, time : Times,
            size : 1..Largest, kept : 0..Largest]
Pictures == {f \in Records : f.kept <= f.size /\ (f.camera \in Cameras => Smallest <= f.size)}
Sweeps == [pc : {"sweep"}, left : SUBSET Cameras, today : Nat]

Waits(c) == job[c].pc = "write"
Writes(c) == job[c].pc = "writing"
Takes(c) == Waits(c) \/ Writes(c)

\* The time by which a photo is named.
Now == IF clock.set THEN clock.time ELSE None

\* The cameras that have photos on the card.
Filled == {c \in Cameras : Of(c) # {}}

StoreTypes ==
    /\ files \subseteq Pictures /\ IsFiniteSet(files)
    /\ photos \in Nat /\ faults \in Nat /\ setBack \in BOOLEAN
    /\ clock \in [time : Nat, set : BOOLEAN]
    /\ ownDays \in [Cameras -> Nat]
    /\ DOMAIN job = Tasks
    /\ \A t \in Tasks : Waits(t) => t \in Cameras /\ job[t].id \in 1..photos
    /\ \A t \in Tasks : Writes(t) =>
          /\ t \in Cameras
          /\ job[t].photo \in Pictures /\ job[t].photo.camera = t
          /\ job[t].photo.kept = 0
    /\ job["loop"].pc = "sweep" =>
          job["loop"] \in Sweeps /\ (~setBack => job["loop"].today <= clock.time)
    /\ job["viewer"].pc = "ask" => job["viewer"].age \in Nat

\* One task writes at a time, and its file is on the card.
OneWriter ==
    /\ \A c \in Cameras : Writes(c) => job[c].photo \in files
    /\ \A c, d \in Cameras : Writes(c) /\ Writes(d) => c = d

\* f was taken before g, and is not named later, as long as the clock goes on.
Precedes(f, g) == f.id < g.id /\ (~setBack => f.time <= g.time)

\* The photos of a camera were taken one after the other, the one it is about to
\* write or is writing last.
InOrder(c) ==
    /\ \A f, g \in Of(c) : f # g => Precedes(f, g) \/ Precedes(g, f)
    /\ \A f \in Of(c) : f.id <= photos /\ (~setBack => f.time <= Now)
    /\ Waits(c) => \A f \in Of(c) : f.id < job[c].id
    /\ Writes(c) => \A f \in Of(c) : f = job[c].photo \/ Precedes(f, job[c].photo)

TakenInOrder == \A c \in Cameras : InOrder(c)

\* The space that photos take once each is whole, and what each camera takes of
\* it, the largest photo at most.
Sizes == [f \in Pictures |-> f.size]
Kept == [f \in Pictures |-> f.kept]
Planned(S) == Heap(S, Sizes)
PlannedOf == [c \in Cameras |-> Planned(Of(c))]
Share == Heap(Cameras, PlannedOf)

\* What fits without a fault, beside the share of each camera.
RoomLeft ==
    /\ \A c \in Cameras : Cardinality(Of(c)) <= Cap + faults
    /\ SizesAlike => Planned(files) <= Card - Reserve + Share + Largest * faults

\* The files that were cut short: each by a fault.
Cut == {f \in files : f.kept < f.size /\ \A c \in Cameras : Writes(c) => job[c].photo # f}

\* The card holds the share of every camera.
Roomy == SizesAlike /\ Largest * Cardinality(Cameras) <= Reserve

\* Only a fault cuts a file short, fails a task or turns SD off.
FaultsOnly ==
    /\ Cardinality(Cut) <= faults
    /\ Roomy => (~sdOn => faults > 0)
    /\ Roomy => \A t \in Tasks : job[t].pc = "failed" => faults > 0

\* The inductive invariant of the card.
CardInv == StoreTypes /\ OneWriter /\ TakenInOrder /\ RoomLeft /\ FaultsOnly

-----------------------------------------------------------------------------
\* The constants and the tasks.
LEMMA StoreFacts ==
    /\ Card \in Nat /\ Reserve \in Nat \ {0} /\ Cap \in Nat \ {0} /\ PruneMax \in Nat \ {0}
    /\ Reserve <= Card
    /\ IsFiniteSet(Cameras) /\ Cardinality(Cameras) \in Nat
    /\ Gone \notin Cameras /\ Cameras \subseteq Tasks
    /\ "loop" \in Tasks /\ "viewer" \in Tasks /\ "loop" \notin Cameras /\ "viewer" \notin Cameras
    /\ None \in Int
BY StoreAssumption, FS_CardinalityType DEF Tasks, None

LEMMA Numbers ==
    /\ Card \in Int /\ Reserve \in Int /\ Cap \in Int /\ PruneMax \in Int
    /\ Card >= Reserve /\ Reserve >= 1 /\ Cap >= 1 /\ PruneMax >= 1
    /\ Largest \in Int /\ Smallest \in Int /\ Smallest >= 1 /\ Largest >= Smallest
BY StoreFacts, SizeFacts

LEMMA PictureFacts ==
    ASSUME NEW f \in Pictures
    PROVE  /\ f.id \in Int /\ f.time \in Int /\ f.time >= None
           /\ f.size \in 1..Largest /\ f.kept \in 0..Largest /\ f.kept <= f.size
           /\ f.camera \in Cameras => Smallest <= f.size
           /\ Sizes[f] = f.size /\ Kept[f] = f.kept /\ Sizes[f] \in Nat /\ Kept[f] \in Nat
<1>1. f \in Records
  BY DEF Pictures
<1>2. f.time \in Times /\ f.size \in 1..Largest /\ f.kept \in 0..Largest /\ f.id \in Int
  BY <1>1 DEF Records
<1>3. f.time \in Int /\ f.time >= None
  BY <1>2 DEF Times, None
<1>4. f.size \in Nat /\ f.kept \in Nat
  BY <1>2, SizeFacts
<1> QED
  BY <1>2, <1>3, <1>4 DEF Pictures, Sizes, Kept

\* The units on the card are those of what is kept.
LEMMA BytesAreKept ==
    ASSUME NEW S \in SUBSET Pictures
    PROVE  Bytes(S) = Heap(S, Kept)
<1>1. Units(S) = Under(S, Kept)
  BY DEF Units, Under, Kept
<1> QED
  BY <1>1 DEF Bytes, Heap

LEMMA FilesFinite ==
    ASSUME IsFiniteSet(files)
    PROVE  /\ Cardinality(files) \in Nat
           /\ \A c : IsFiniteSet(Of(c)) /\ Cardinality(Of(c)) \in Nat
           /\ IsFiniteSet(Filled) /\ Cardinality(Filled) \in Nat
           /\ IsFiniteSet(Cut) /\ Cardinality(Cut) \in Nat
<1>1. \A c : Of(c) \in SUBSET files
  BY DEF Of
<1>2. Filled \in SUBSET Cameras /\ Cut \in SUBSET files
  BY DEF Filled, Cut
<1>3. \A c : IsFiniteSet(Of(c))
  BY <1>1, FS_Subset
<1>4. IsFiniteSet(Filled) /\ IsFiniteSet(Cut)
  BY <1>2, StoreFacts, FS_Subset
<1> QED
  BY <1>3, <1>4, FS_CardinalityType

\* Each fault may cost the largest photo.
LEMMA FaultSpace ==
    ASSUME NEW e \in Nat, NEW f \in Nat, e <= f
    PROVE  /\ Largest * e \in Nat /\ Largest * f \in Nat /\ Largest * (f - e) \in Nat
           /\ Largest * f = Largest * e + Largest * (f - e)
           /\ e < f => Largest <= Largest * (f - e)
           /\ Largest * 0 = 0
<1> DEFINE d == f - e
<1>1. Largest \in Nat /\ d \in Nat /\ f = e + d
  BY SizeFacts
<1>2. /\ Largest * e \in Nat /\ Largest * d \in Nat
      /\ Largest * (e + d) = Largest * e + Largest * d
      /\ Largest * 0 = 0
  BY <1>1
<1>3. ASSUME e < f PROVE Largest <= Largest * d
  <2>1. PICK k \in Nat : d = k + 1
    <3>1. d - 1 \in Nat
      BY <1>3
    <3> QED
      BY <3>1
  <2>2. Largest * (k + 1) = Largest * k + Largest /\ Largest * k \in Nat
    BY <1>1
  <2> QED
    BY <1>1, <2>1, <2>2
<1> QED
  BY <1>1, <1>2, <1>3

LEMMA SpaceOfFault ==
    \A f \in Nat : f >= 1 => Largest <= Largest * f
<1> SUFFICES ASSUME NEW f \in Nat, f >= 1 PROVE Largest <= Largest * f
  OBVIOUS
<1>1. PICK k \in Nat : f = k + 1
  <2>1. f - 1 \in Nat
    OBVIOUS
  <2> QED
    BY <2>1
<1>2. Largest * (k + 1) = Largest * k + Largest /\ Largest * k \in Nat
  BY SizeFacts
<1> QED
  BY <1>1, <1>2, SizeFacts

\* Some elements of a finite set removed, and one added.
LEMMA RemovedAdded ==
    ASSUME NEW S, IsFiniteSet(S), NEW D, D \subseteq S, NEW x
    PROVE  /\ IsFiniteSet((S \ D) \cup {x}) /\ Cardinality((S \ D) \cup {x}) \in Nat
           /\ Cardinality((S \ D) \cup {x}) <= Cardinality(S) - Cardinality(D) + 1
<1> DEFINE rest == S \ D
<1>1. rest \in SUBSET S /\ D \in SUBSET S
  OBVIOUS
<1>2. IsFiniteSet(rest) /\ IsFiniteSet(D)
  BY <1>1, FS_Subset
<1>3. rest \cup D = S /\ rest \cap D = {} /\ Cardinality({}) = 0
  BY FS_EmptySet
<1> HIDE DEF rest
<1>4. Cardinality(rest \cup D) = Cardinality(rest) + Cardinality(D) - Cardinality(rest \cap D)
  BY <1>2, FS_Union
<1>5. Cardinality(S) \in Nat /\ Cardinality(rest) \in Nat /\ Cardinality(D) \in Nat
  BY <1>2, FS_CardinalityType
<1>6. Cardinality(S) = Cardinality(rest) + Cardinality(D)
  BY <1>3, <1>4, <1>5
<1>7. /\ IsFiniteSet(rest \cup {x})
      /\ Cardinality(rest \cup {x}) = IF x \in rest THEN Cardinality(rest) ELSE Cardinality(rest) + 1
  BY <1>2, FS_AddElement
<1>8. Cardinality(rest \cup {x}) \in Nat /\ Cardinality(rest \cup {x}) <= Cardinality(rest) + 1
  BY <1>5, <1>7
<1> QED
  BY <1>5, <1>6, <1>7, <1>8 DEF rest

\* What changes with the files of one camera only: those of the others, and the
\* space of all but it, do not.
LEMMA OneCamera ==
    ASSUME IsFiniteSet(files), IsFiniteSet(files'), NEW c \in Cameras,
           files' \ Of(c)' = files \ Of(c)
    PROVE  /\ \A d \in Cameras : d # c => Of(d)' = Of(d)
           /\ Planned(files') - Planned(Of(c)') = Planned(files) - Planned(Of(c))
           /\ Share' - AtMost(Planned(Of(c)'), Largest) = Share - AtMost(Planned(Of(c)), Largest)
           /\ Planned(files) \in Nat /\ Planned(files') \in Nat
           /\ Planned(Of(c)) \in Nat /\ Planned(Of(c)') \in Nat
           /\ Share \in Nat /\ Share' \in Nat
<1>1. ASSUME NEW d \in Cameras, d # c PROVE Of(d)' = Of(d)
  <2>1. \A f : f \in Of(d) <=> f \in files \ Of(c) /\ f.camera = d
    BY <1>1 DEF Of
  <2>2. \A f : f \in Of(d)' <=> f \in files' \ Of(c)' /\ f.camera = d
    BY <1>1 DEF Of
  <2> QED
    BY <2>1, <2>2
<1>2. /\ \A d : Of(d) \in SUBSET files /\ IsFiniteSet(Of(d)) /\ Planned(Of(d)) \in Nat
      /\ \A d : Of(d)' \in SUBSET files' /\ IsFiniteSet(Of(d)') /\ Planned(Of(d)') \in Nat
  <2>1. \A d : Of(d) \in SUBSET files /\ Of(d)' \in SUBSET files'
    BY DEF Of
  <2>2. \A d : IsFiniteSet(Of(d)) /\ IsFiniteSet(Of(d)')
    BY <2>1, FS_Subset
  <2> QED
    BY <2>1, <2>2, HeapFinite DEF Planned
<1>3. /\ Planned(files) = Planned(files \ Of(c)) + Planned(Of(c))
      /\ Planned(files') = Planned(files' \ Of(c)') + Planned(Of(c)')
      /\ Planned(files) \in Nat /\ Planned(files') \in Nat /\ Planned(files \ Of(c)) \in Nat
  BY <1>2, HeapSplit, HeapFinite DEF Planned
<1>4. Planned(files') - Planned(Of(c)') = Planned(files) - Planned(Of(c))
  <2>1. Planned(Of(c)) \in Nat /\ Planned(Of(c)') \in Nat
    BY <1>2
  <2>2. Planned(files' \ Of(c)') = Planned(files \ Of(c))
    OBVIOUS
  <2> QED
    BY <1>3, <2>1, <2>2
<1> DEFINE h == [d \in Cameras |-> Planned(Of(d))]
           k == [d \in Cameras |-> Planned(Of(d)')]
<1>5. /\ Share = Heap(Cameras, h) /\ Share' = Heap(Cameras, k)
      /\ h[c] = Planned(Of(c)) /\ k[c] = Planned(Of(c)')
      /\ h[c] \in Nat /\ k[c] \in Nat
  BY <1>2 DEF Share, PlannedOf
<1>6. Heap(Cameras \ {c}, h) = Heap(Cameras \ {c}, k)
  <2>1. \A d \in Cameras \ {c} : h[d] = k[d]
    BY <1>1
  <2> HIDE DEF h, k
  <2>2. Under(Cameras \ {c}, h) = Under(Cameras \ {c}, k)
    BY <2>1 DEF Under
  <2> QED
    BY <2>2 DEF Heap
<1> HIDE DEF h, k
<1>7. /\ Heap(Cameras, h) = Heap(Cameras \ {c}, h) + Heap({c}, h)
      /\ Heap(Cameras, k) = Heap(Cameras \ {c}, k) + Heap({c}, k)
      /\ Heap(Cameras \ {c}, h) \in Nat /\ Heap({c}, h) \in Nat /\ Heap({c}, k) \in Nat
      /\ Heap(Cameras, h) \in Nat /\ Heap(Cameras, k) \in Nat
  <2>1. {c} \in SUBSET Cameras /\ IsFiniteSet(Cameras)
    BY StoreFacts
  <2> QED
    BY <2>1, HeapSplit, HeapFinite
<1>8. Heap({c}, h) = AtMost(h[c], Largest) /\ Heap({c}, k) = AtMost(k[c], Largest)
  BY <1>5, HeapOne
<1>9. Share' - AtMost(Planned(Of(c)'), Largest) = Share - AtMost(Planned(Of(c)), Largest)
  <2>1. Share' - Heap({c}, k) = Share - Heap({c}, h)
    BY <1>5, <1>6, <1>7
  <2> QED
    BY <1>5, <1>8, <2>1
<1> QED
  BY <1>1, <1>2, <1>3, <1>4, <1>5, <1>7, <1>9

-----------------------------------------------------------------------------
(***************************************************************************)
(* What steps have in common                                               *)
(***************************************************************************)
\* Room for q units of a camera that takes p, of n on the card, when x are owed
\* to faults and d more by those of the step.
RoomFor(p, q, n, x, d) ==
    \/ q <= p + d
    \/ q <= Largest + d
    \/ n <= Card - Reserve + x + d

\* The units of one camera and of all, and the shares, before and after.
Counts(p, q, m, n, s, t, x, d) ==
    /\ n - q = m - p /\ t - AtMost(q, Largest) = s - AtMost(p, Largest)
    /\ m <= Card - Reserve + s + x /\ RoomFor(p, q, n, x, d)

LEMMA RoomArithmetic ==
    \A p, q, m, n, s, t, x, d \in Nat :
        Counts(p, q, m, n, s, t, x, d) => n <= Card - Reserve + t + x + d
<1> SUFFICES ASSUME NEW p \in Nat, NEW q \in Nat, NEW m \in Nat, NEW n \in Nat,
                    NEW s \in Nat, NEW t \in Nat, NEW x \in Nat, NEW d \in Nat,
                    Counts(p, q, m, n, s, t, x, d)
             PROVE  n <= Card - Reserve + t + x + d
  OBVIOUS
<1>1. /\ n - q = m - p
      /\ t - (IF q > Largest THEN Largest ELSE q) = s - (IF p > Largest THEN Largest ELSE p)
      /\ m <= Card - Reserve + s + x
  BY DEF AtMost, Counts
<1>2. CASE q <= p + d
  BY <1>1, <1>2, Numbers
<1>3. CASE q <= Largest + d
  BY <1>1, <1>3, Numbers
<1>4. CASE n <= Card - Reserve + x + d
  BY <1>4, Numbers
<1> QED
  BY <1>2, <1>3, <1>4 DEF RoomFor, Counts

\* The room left when the files of one camera change, and there is room for what
\* is new.
LEMMA RoomKeeps ==
    ASSUME IsFiniteSet(files), IsFiniteSet(files'), NEW c \in Cameras,
           files' \ Of(c)' = files \ Of(c),
           RoomLeft, faults \in Nat, faults' \in Nat, faults <= faults',
           Cardinality(Of(c)') <= Cap + faults',
           SizesAlike => RoomFor(Planned(Of(c)), Planned(Of(c)'), Planned(files'),
                                 Largest * faults, Largest * (faults' - faults))
    PROVE  RoomLeft'
<1>1. /\ \A d \in Cameras : d # c => Of(d)' = Of(d)
      /\ Planned(files') - Planned(Of(c)') = Planned(files) - Planned(Of(c))
      /\ Share' - AtMost(Planned(Of(c)'), Largest) = Share - AtMost(Planned(Of(c)), Largest)
      /\ Planned(files) \in Nat /\ Planned(files') \in Nat
      /\ Planned(Of(c)) \in Nat /\ Planned(Of(c)') \in Nat
      /\ Share \in Nat /\ Share' \in Nat
  BY OneCamera
<1>2. /\ Largest * faults \in Nat /\ Largest * (faults' - faults) \in Nat
      /\ Largest * faults' = Largest * faults + Largest * (faults' - faults)
  BY FaultSpace
<1>3. ASSUME SizesAlike
      PROVE  Planned(files') <= Card - Reserve + Share' + Largest * faults'
  <2>1. Planned(files) <= Card - Reserve + Share + Largest * faults
    BY <1>3 DEF RoomLeft
  <2>2. RoomFor(Planned(Of(c)), Planned(Of(c)'), Planned(files'),
                Largest * faults, Largest * (faults' - faults))
    BY <1>3
  <2>3. Planned(files') <= Card - Reserve + Share' + Largest * faults + Largest * (faults' - faults)
    <3>1. Counts(Planned(Of(c)), Planned(Of(c)'), Planned(files), Planned(files'), Share, Share',
                 Largest * faults, Largest * (faults' - faults))
      BY <1>1, <2>1, <2>2, Zenon DEF Counts
    <3> QED
      BY <1>1, <1>2, <3>1, RoomArithmetic, Zenon
  <2> QED
    BY <1>1, <1>2, <2>3, Numbers
<1>4. ASSUME NEW d \in Cameras, d # c PROVE Cardinality(Of(d)') <= Cap + faults'
  <2>1. Of(d)' = Of(d) /\ Cardinality(Of(d)) <= Cap + faults /\ Cardinality(Of(d)) \in Nat
    BY <1>1, <1>4, FilesFinite DEF RoomLeft
  <2>2. Cardinality(Of(d)') = Cardinality(Of(d))
    BY <2>1
  <2> QED
    BY <2>1, <2>2, Numbers
<1>5. \A d \in Cameras : Cardinality(Of(d)') <= Cap + faults'
  BY <1>4
<1>6. SizesAlike' = SizesAlike
  BY DEF SizesAlike
<1> QED
  BY <1>3, <1>5, <1>6 DEF RoomLeft, Planned

\* Files that stay are no more than before.
LEMMA RoomStays ==
    ASSUME StoreTypes, RoomLeft, files' = files, faults' \in Nat, faults <= faults'
    PROVE  RoomLeft'
<1>1. Share' = Share /\ \A c : Of(c)' = Of(c)
  BY DEF Share, PlannedOf, Planned, Heap, Under, Of
<1>2. IsFiniteSet(files) /\ faults \in Nat
  BY DEF StoreTypes
<1>3. Planned(files) \in Nat /\ Share \in Nat /\ \A c : Cardinality(Of(c)) \in Nat
  BY <1>2, FilesFinite, HeapFinite, StoreFacts DEF Planned, Share
<1>4. ASSUME NEW c \in Cameras PROVE Cardinality(Of(c)) <= Cap + faults'
  <2>1. Cardinality(Of(c)) \in Nat /\ Cardinality(Of(c)) <= Cap + faults
    BY <1>3 DEF RoomLeft
  <2> QED
    BY <1>2, <2>1, Numbers
<1>5. ASSUME SizesAlike
      PROVE  Planned(files) <= Card - Reserve + Share + Largest * faults'
  <2>1. Planned(files) <= Card - Reserve + Share + Largest * faults
    BY <1>5 DEF RoomLeft
  <2>2. /\ Largest * faults \in Nat /\ Largest * (faults' - faults) \in Nat
        /\ Largest * faults' = Largest * faults + Largest * (faults' - faults)
    BY <1>2, FaultSpace
  <2> QED
    BY <1>3, <2>1, <2>2, Numbers
<1>6. SizesAlike' = SizesAlike
  BY DEF SizesAlike
<1> QED
  BY <1>1, <1>4, <1>5, <1>6 DEF RoomLeft, Planned

\* A step without a fault cuts nothing short, and one with a fault a file at most.
LEMMA CutStays ==
    ASSUME IsFiniteSet(files), Cardinality(Cut) <= faults, faults \in Nat, faults' \in Nat,
           \/ Cut' \subseteq Cut /\ faults <= faults'
           \/ faults < faults' /\ \E x : Cut' \subseteq Cut \cup {x}
    PROVE  Cardinality(Cut') <= faults'
<1>1. IsFiniteSet(Cut) /\ Cardinality(Cut) \in Nat
  BY FilesFinite
<1>2. CASE Cut' \subseteq Cut /\ faults <= faults'
  <2>1. Cut' \in SUBSET Cut
    BY <1>2
  <2>2. Cardinality(Cut') <= Cardinality(Cut) /\ Cardinality(Cut') \in Nat
    BY <1>1, <2>1, FS_Subset, FS_CardinalityType
  <2> QED
    BY <1>1, <1>2, <2>2
<1>3. ASSUME faults < faults', NEW x, Cut' \subseteq Cut \cup {x}
      PROVE  Cardinality(Cut') <= faults'
  <2>1. /\ IsFiniteSet(Cut \cup {x}) /\ Cardinality(Cut \cup {x}) <= Cardinality(Cut) + 1
        /\ Cut' \in SUBSET (Cut \cup {x}) /\ Cardinality(Cut \cup {x}) \in Nat
    <3>1. /\ IsFiniteSet(Cut \cup {x})
          /\ Cardinality(Cut \cup {x}) = IF x \in Cut THEN Cardinality(Cut) ELSE Cardinality(Cut) + 1
      BY <1>1, FS_AddElement
    <3> QED
      BY <1>1, <1>3, <3>1
  <2>2. Cardinality(Cut') <= Cardinality(Cut \cup {x}) /\ Cardinality(Cut') \in Nat
    BY <2>1, FS_Subset, FS_CardinalityType
  <2> QED
    BY <1>1, <1>3, <2>1, <2>2
<1> QED
  BY <1>2, <1>3

\* What a task's step makes of the jobs.
LEMMA GoesFacts ==
    ASSUME StoreTypes, NEW t \in Tasks, NEW next, Goes(t, next)
    PROVE  /\ DOMAIN job' = Tasks /\ job'[t] = next
           /\ \A u \in Tasks : u # t => job'[u] = job[u]
BY DEF Goes, StoreTypes

\* The time goes on, or is known to have been set back.
Onward == (setBack => setBack') /\ (~setBack' => Now <= Now')

LEMMA ClockStays ==
    ASSUME StoreTypes, clock' = clock, setBack' = setBack
    PROVE  /\ Onward /\ Now \in Int /\ Now' = Now
           /\ clock' \in [time : Nat, set : BOOLEAN] /\ setBack' \in BOOLEAN
<1>1. clock \in [time : Nat, set : BOOLEAN] /\ clock.time \in Nat /\ setBack \in BOOLEAN
  BY DEF StoreTypes
<1>2. Now \in Int /\ Now' = Now
  BY <1>1, StoreFacts DEF Now
<1> QED
  BY <1>1, <1>2 DEF Onward

\* The order of a camera's photos when it has no more of them than before.
LEMMA FewerInOrder ==
    ASSUME StoreTypes, NEW c \in Cameras, InOrder(c), Of(c)' \subseteq Of(c),
           photos' = photos, Onward, Now' \in Int, setBack' \in BOOLEAN,
           Takes(c)' => job'[c] = job[c]
    PROVE  InOrder(c)'
<1>1. /\ \A f \in Of(c) : f.id \in Int /\ f.time \in Int
      /\ Now \in Int
  <2>1. clock \in [time : Nat, set : BOOLEAN] /\ clock.time \in Nat
    BY DEF StoreTypes
  <2> QED
    BY <2>1, StoreFacts, PictureFacts DEF StoreTypes, Of, Now
<1>2. \A f, g \in Of(c)' : f # g => Precedes(f, g)' \/ Precedes(g, f)'
  BY DEF InOrder, Precedes, Onward
<1>3. ASSUME NEW f \in Of(c)' PROVE f.id <= photos /\ (~setBack' => f.time <= Now')
  <2>1. f.id <= photos /\ (~setBack => f.time <= Now) /\ f.time \in Int
    BY <1>1 DEF InOrder
  <2> QED
    BY <1>1, <2>1 DEF Onward
<1>4. Waits(c)' => \A f \in Of(c)' : f.id < job'[c].id
  BY DEF InOrder, Takes, Waits
<1>5. Writes(c)' => \A f \in Of(c)' : f = job'[c].photo \/ Precedes(f, job[c].photo)'
  <2> SUFFICES ASSUME Writes(c)', NEW f \in Of(c)'
               PROVE  f = job'[c].photo \/ Precedes(f, job[c].photo)'
    OBVIOUS
  <2>1. job'[c] = job[c] /\ Writes(c)
    BY DEF Takes, Writes
  <2>2. f = job[c].photo \/ Precedes(f, job[c].photo)
    BY <2>1 DEF InOrder
  <2> QED
    BY <2>1, <2>2 DEF Precedes, Onward
<1> QED
  BY <1>2, <1>3, <1>4, <1>5 DEF InOrder, Precedes

\* What keeps a fault to account for each failure.
LEMMA FailuresStay ==
    ASSUME FaultsOnly, faults \in Nat, faults' \in Nat, faults <= faults',
           Cardinality(Cut') <= faults',
           ~sdOn' => ~sdOn \/ faults' > 0 \/ \E t \in Tasks : job[t].pc = "failed",
           Roomy => \A t \in Tasks : job'[t].pc = "failed" => job[t].pc = "failed" \/ faults' > 0
    PROVE  FaultsOnly'
<1>1. faults > 0 => faults' > 0
  OBVIOUS
<1>2. ASSUME Roomy PROVE /\ ~sdOn' => faults' > 0
                         /\ \A t \in Tasks : job'[t].pc = "failed" => faults' > 0
  BY <1>1, <1>2 DEF FaultsOnly
<1>3. Roomy' = Roomy
  BY DEF Roomy, SizesAlike
<1> QED
  BY <1>2, <1>3 DEF FaultsOnly

\* A step that leaves the files alone and starts no photo.
LEMMA QuietKeeps ==
    ASSUME CardInv, files' = files, photos' = photos, ownDays' = ownDays,
           faults' \in Nat, faults <= faults',
           clock' \in [time : Nat, set : BOOLEAN], setBack' \in BOOLEAN, Onward,
           DOMAIN job' = Tasks,
           \A t \in Tasks : Takes(t)' => job'[t] = job[t],
           faults' = faults => \A c \in Cameras : Writes(c) => job'[c] = job[c],
           ~sdOn' => ~sdOn \/ faults' > 0 \/ \E t \in Tasks : job[t].pc = "failed",
           \A t \in Tasks : job'[t].pc = "failed" => job[t].pc = "failed" \/ faults' > 0,
           job'["loop"].pc = "sweep" =>
               job'["loop"] \in Sweeps /\ (~setBack' => job'["loop"].today <= clock'.time),
           job'["viewer"].pc = "ask" => job'["viewer"].age \in Nat
    PROVE  CardInv'
<1>1. StoreTypes /\ OneWriter /\ TakenInOrder /\ RoomLeft /\ FaultsOnly
  BY DEF CardInv
<1>2. faults \in Nat /\ photos \in Nat /\ IsFiniteSet(files)
  BY <1>1 DEF StoreTypes
<1>3. \A c : Of(c)' = Of(c)
  BY DEF Of
<1>4. \A t \in Tasks : /\ Waits(t)' => Waits(t) /\ job'[t] = job[t]
                       /\ Writes(t)' => Writes(t) /\ job'[t] = job[t]
  BY DEF Takes, Waits, Writes
<1>5. StoreTypes'
  BY <1>1, <1>4 DEF StoreTypes
<1>6. OneWriter'
  BY <1>1, <1>4, StoreFacts DEF OneWriter
<1>7. TakenInOrder'
  <2> SUFFICES ASSUME NEW c \in Cameras PROVE InOrder(c)'
    BY DEF TakenInOrder
  <2>1. InOrder(c) /\ c \in Tasks /\ Of(c)' \subseteq Of(c)
    BY <1>1, <1>3, StoreFacts DEF TakenInOrder
  <2>2. Now' \in Int
    <3>1. clock'.time \in Nat
      OBVIOUS
    <3> QED
      BY <3>1, StoreFacts DEF Now
  <2> QED
    BY <1>1, <2>1, <2>2, FewerInOrder
<1>8. RoomLeft'
  BY <1>1, RoomStays
<1>9. FaultsOnly'
  <2>1. CASE faults' = faults
    <3>1. Cut' \subseteq Cut
      BY <2>1, StoreFacts DEF Cut, Writes
    <3> QED
      BY <1>1, <1>2, <3>1, CutStays, FailuresStay DEF FaultsOnly
  <2>2. CASE faults < faults'
    <3>1. \E x : Cut' \subseteq Cut \cup {x}
      <4>1. CASE \E c \in Cameras : Writes(c)
        <5>1. PICK c \in Cameras : Writes(c)
          BY <4>1
        <5>2. \A d \in Cameras : Writes(d) => d = c
          BY <1>1, <5>1 DEF OneWriter
        <5>3. Cut' \subseteq Cut \cup {job[c].photo}
          BY <5>2 DEF Cut
        <5> QED
          BY <5>3
      <4>2. CASE \A c \in Cameras : ~Writes(c)
        <5>1. Cut' \subseteq Cut
          BY <4>2 DEF Cut
        <5> QED
          BY <5>1
      <4> QED
        BY <4>1, <4>2
    <3> QED
      BY <1>1, <1>2, <2>2, <3>1, CutStays, FailuresStay DEF FaultsOnly
  <2> QED
    BY <1>2, <2>1, <2>2
<1> QED
  BY <1>5, <1>6, <1>7, <1>8, <1>9 DEF CardInv

\* One task moves on and the files stay.
LEMMA TaskMoves ==
    ASSUME CardInv, NEW t \in Tasks, NEW next, Goes(t, next),
           files' = files, photos' = photos, ownDays' = ownDays, clock' = clock,
           setBack' = setBack, faults' \in Nat, faults <= faults', ~Writes(t),
           next.pc \notin {"write", "writing"},
           ~sdOn' => ~sdOn \/ faults' > 0 \/ job[t].pc = "failed",
           next.pc = "failed" => faults' > 0,
           next.pc = "sweep" => t = "loop" /\ next \in Sweeps /\ next.today <= clock.time,
           next.pc = "ask" => t = "viewer" /\ next.age \in Nat
    PROVE  CardInv'
<1>1. StoreTypes
  BY DEF CardInv
<1>2. /\ DOMAIN job' = Tasks /\ job'[t] = next
      /\ \A u \in Tasks : u # t => job'[u] = job[u]
  BY <1>1, GoesFacts
<1>3. clock' \in [time : Nat, set : BOOLEAN] /\ setBack' \in BOOLEAN /\ Onward
  BY <1>1, ClockStays
<1>4. \A u \in Tasks : Takes(u)' => job'[u] = job[u]
  BY <1>2 DEF Takes, Waits, Writes
<1>5. \A c \in Cameras : Writes(c) => job'[c] = job[c]
  BY <1>2, StoreFacts
<1>6. \A u \in Tasks : job'[u].pc = "failed" => job[u].pc = "failed" \/ faults' > 0
  BY <1>2
<1>7. job'["loop"].pc = "sweep" =>
        job'["loop"] \in Sweeps /\ (~setBack' => job'["loop"].today <= clock'.time)
  BY <1>1, <1>2, StoreFacts DEF StoreTypes
<1>8. job'["viewer"].pc = "ask" => job'["viewer"].age \in Nat
  BY <1>1, <1>2, StoreFacts DEF StoreTypes
<1> QED
  BY <1>2, <1>3, <1>4, <1>5, <1>6, <1>7, <1>8, QuietKeeps

-----------------------------------------------------------------------------
(***************************************************************************)
(* The steps that leave the files alone                                    *)
(***************************************************************************)
LEMMA MarkFailedKeeps ==
    ASSUME CardInv, NEW t \in Tasks, MarkFailed(t)
    PROVE  CardInv'
<1>1. /\ job[t].pc = "failed" /\ Goes(t, Idle) /\ faults' = faults
      /\ UNCHANGED <<files, photos, ownDays, clock, setBack>>
  BY DEF MarkFailed
<1>2. faults \in Nat /\ ~Writes(t)
  BY <1>1 DEF CardInv, StoreTypes, Writes
<1>3. Idle.pc = "idle"
  BY DEF Idle
<1> QED
  BY <1>1, <1>2, <1>3, TaskMoves

LEMMA ShowGalleryKeeps ==
    ASSUME CardInv, NEW c \in Cameras, ShowGallery(c)
    PROVE  CardInv'
<1>1. PICK age \in 0..(Cardinality(Of(c)) - 1) :
         Goes("viewer", [pc |-> "ask", camera |-> c, age |-> age])
  BY DEF ShowGallery
<1>2. /\ job["viewer"].pc = "idle" /\ faults' = faults /\ sdOn' = sdOn
      /\ UNCHANGED <<files, photos, ownDays, clock, setBack>>
  BY DEF ShowGallery
<1>3. faults \in Nat /\ ~Writes("viewer") /\ age \in Nat
  BY <1>2 DEF CardInv, StoreTypes, Writes
<1> QED
  BY <1>1, <1>2, <1>3, StoreFacts, TaskMoves

\* A photo that cannot be read is empty, while nobody writes: a fault cut it.
LEMMA EmptyIsCut ==
    ASSUME CardInv, MutexFree, NEW f \in files, f.kept = 0
    PROVE  faults > 0
<1>1. f \in Pictures /\ IsFiniteSet(files) /\ faults \in Nat
  BY DEF CardInv, StoreTypes
<1>2. f.kept < f.size
  BY <1>1, PictureFacts
<1>3. f \in Cut
  BY <1>2, StoreFacts DEF Cut, MutexFree, Writes
<1>4. IsFiniteSet(Cut) /\ Cardinality(Cut) \in Nat /\ Cardinality(Cut) # 0
  BY <1>1, <1>3, FilesFinite, FS_EmptySet
<1>5. Cardinality(Cut) <= faults
  BY DEF CardInv, FaultsOnly
<1> QED
  BY <1>1, <1>4, <1>5

LEMMA ReadPhotoKeeps ==
    ASSUME CardInv, ReadPhoto
    PROVE  CardInv'
<1>1. /\ job["viewer"].pc = "ask" /\ MutexFree /\ sdOn' = sdOn
      /\ UNCHANGED <<files, photos, ownDays, clock, setBack>>
  BY DEF ReadPhoto
<1>2. faults \in Nat /\ ~Writes("viewer") /\ "viewer" \in Tasks
  BY <1>1, StoreFacts DEF CardInv, StoreTypes, Writes
<1>3. CASE Goes("viewer", Idle) /\ faults' = faults
  BY <1>1, <1>2, <1>3, TaskMoves DEF Idle
<1>4. ASSUME NEW listing \in NewestFirst(job["viewer"].camera),
             ~Missing(job["viewer"].age, listing),
             ~(job["viewer"].age < Len(listing)
               /\ listing[job["viewer"].age + 1].kept > 0)
      PROVE  faults > 0
  <2> DEFINE c == job["viewer"].camera
             i == job["viewer"].age + 1
  <2>1. job["viewer"].age \in Nat /\ IsFiniteSet(files) /\ files \subseteq Pictures
    BY <1>1 DEF CardInv, StoreTypes
  <2>2. listing \in [1..Cardinality(Of(c)) -> Of(c)] /\ Cardinality(Of(c)) \in Nat
    BY <2>1, FilesFinite DEF NewestFirst, SetToSeqs
  <2>3. Len(listing) = Cardinality(Of(c))
    BY <2>2
  <2>4. job["viewer"].age < Len(listing)
    BY <1>4, <2>1, <2>2, <2>3 DEF Missing
  <2>5. i \in 1..Cardinality(Of(c))
    BY <2>1, <2>2, <2>3, <2>4
  <2>6. listing[i] \in files /\ ~(listing[i].kept > 0)
    BY <1>4, <2>2, <2>4, <2>5 DEF Of
  <2> HIDE DEF i, c
  <2>7. listing[i].kept \in 0..Largest
    BY <2>1, <2>6, PictureFacts
  <2>8. listing[i].kept = 0
    BY <2>6, <2>7, SizeFacts
  <2> QED
    BY <1>1, <2>6, <2>8, EmptyIsCut
<1>5. CASE Goes("viewer", [pc |-> "failed"])
  <2>1. PICK listing \in NewestFirst(job["viewer"].camera) :
           \/ Goes("viewer", Idle)
           \/ /\ ~Missing(job["viewer"].age, listing)
              /\ Faults(IF job["viewer"].age < Len(listing)
                           /\ listing[job["viewer"].age + 1].kept > 0 THEN 1 ELSE 0)
    BY DEF ReadPhoto
  <2>2. ~Goes("viewer", Idle)
    <3>1. StoreTypes /\ "viewer" \in Tasks
      BY StoreFacts DEF CardInv
    <3>2. job'["viewer"].pc = "failed"
      BY <1>5, <3>1, GoesFacts
    <3> QED
      BY <3>1, <3>2, GoesFacts DEF Idle
  <2>3. faults' \in Nat /\ faults <= faults' /\ faults' > 0
    BY <1>2, <1>4, <2>1, <2>2 DEF Faults
  <2> QED
    BY <1>1, <1>2, <1>5, <2>3, TaskMoves
<1> QED
  BY <1>3, <1>5 DEF ReadPhoto

LEMMA LoopTasksKeep ==
    ASSUME CardInv, BeginSweep \/ AppendFails
    PROVE  CardInv'
<1>1. /\ job["loop"].pc = "idle" /\ sdOn' = sdOn
      /\ UNCHANGED <<files, photos, ownDays, clock, setBack>>
  BY DEF BeginSweep, AppendFails
<1>2. faults \in Nat /\ ~Writes("loop") /\ "loop" \in Tasks /\ clock.time \in Nat
  BY <1>1, StoreFacts DEF CardInv, StoreTypes, Writes
<1>3. CASE BeginSweep
  <2>1. /\ Goes("loop", [pc |-> "sweep", left |-> Cameras, today |-> clock.time])
        /\ faults' = faults
    BY <1>3 DEF BeginSweep
  <2>2. [pc |-> "sweep", left |-> Cameras, today |-> clock.time] \in Sweeps
    BY <1>2 DEF Sweeps
  <2> QED
    BY <1>1, <1>2, <2>1, <2>2, TaskMoves
<1>4. CASE AppendFails
  <2>1. Goes("loop", [pc |-> "failed"]) /\ faults' = faults + 1
    BY <1>4 DEF AppendFails, Fault, Faults
  <2>2. faults' \in Nat /\ faults <= faults' /\ faults' > 0
    BY <1>2, <2>1
  <2> QED
    BY <1>1, <1>2, <2>1, <2>2, TaskMoves
<1> QED
  BY <1>3, <1>4

\* The clock is set, goes on or is set back.
LEMMA ClockKeeps ==
    ASSUME CardInv, ClockSet \/ TimePasses \/ ClockSetBack
    PROVE  CardInv'
<1>1. /\ UNCHANGED <<files, sdOn, ownDays, job, photos, faults>>
      /\ clock \in [time : Nat, set : BOOLEAN] /\ StoreTypes
      /\ clock.time \in Nat /\ clock.set \in BOOLEAN /\ setBack \in BOOLEAN
  BY DEF ClockSet, TimePasses, ClockSetBack, CardInv, StoreTypes
<1>2. /\ clock' \in [time : Nat, set : BOOLEAN] /\ setBack' \in BOOLEAN
      /\ setBack => setBack'
      /\ ~setBack' => clock.time <= clock'.time /\ (clock.set => clock'.set)
  <2>1. CASE ClockSet
    <3>1. clock' = [clock EXCEPT !.set = TRUE] /\ setBack' = setBack
      BY <2>1 DEF ClockSet
    <3>2. clock' \in [time : Nat, set : BOOLEAN] /\ clock'.time = clock.time /\ clock'.set = TRUE
      BY <1>1, <3>1
    <3> QED
      BY <1>1, <3>1, <3>2
  <2>2. CASE TimePasses
    <3>1. PICK d \in Nat : d = clock.time + 1
      BY <1>1
    <3>2. clock' = [clock EXCEPT !.time = d] /\ setBack' = setBack
      BY <2>2, <3>1 DEF TimePasses
    <3>3. clock' \in [time : Nat, set : BOOLEAN] /\ clock'.time = d /\ clock'.set = clock.set
      BY <1>1, <3>2
    <3> QED
      BY <1>1, <3>1, <3>2, <3>3
  <2>3. CASE ClockSetBack
    <3>1. PICK d \in Nat : d = clock.time - 1
      BY <1>1, <2>3 DEF ClockSetBack
    <3>2. clock' = [clock EXCEPT !.time = d] /\ setBack' = TRUE
      BY <2>3, <3>1 DEF ClockSetBack
    <3>3. clock' \in [time : Nat, set : BOOLEAN]
      BY <1>1, <3>2
    <3> QED
      BY <3>2, <3>3
  <2> QED
    BY <2>1, <2>2, <2>3
<1>3. Onward
  <2>1. clock'.time \in Nat
    BY <1>2
  <2> QED
    BY <1>1, <1>2, <2>1 DEF Onward, Now, None
<1>4. job'["loop"].pc = "sweep" =>
        job'["loop"] \in Sweeps /\ (~setBack' => job'["loop"].today <= clock'.time)
  <2> SUFFICES ASSUME job["loop"].pc = "sweep"
               PROVE  /\ job["loop"] \in Sweeps
                      /\ ~setBack' => job["loop"].today <= clock'.time
    BY <1>1
  <2>1. job["loop"] \in Sweeps /\ (~setBack => job["loop"].today <= clock.time)
    BY <1>1 DEF StoreTypes
  <2>2. clock.time \in Int /\ clock'.time \in Int /\ job["loop"].today \in Int
    BY <1>1, <1>2, <2>1 DEF Sweeps
  <2> QED
    BY <1>2, <2>1, <2>2
<1>5. faults \in Nat /\ DOMAIN job = Tasks /\ (job["viewer"].pc = "ask" => job["viewer"].age \in Nat)
  BY <1>1 DEF StoreTypes
<1> QED
  BY <1>1, <1>2, <1>3, <1>4, <1>5, QuietKeeps

\* A reset drops every task, and is a fault itself.
LEMMA ResetKeeps ==
    ASSUME CardInv, Reset
    PROVE  CardInv'
<1>1. /\ StoreTypes /\ clock \in [time : Nat, set : BOOLEAN] /\ faults \in Nat
      /\ clock.time \in Nat /\ clock.set \in BOOLEAN /\ setBack \in BOOLEAN
  BY DEF CardInv, StoreTypes
<1>2. /\ UNCHANGED <<files, ownDays, photos>> /\ faults' = faults + 1
      /\ job' = [t \in Tasks |-> Idle]
  BY DEF Reset, Fault, Faults
<1>3. PICK set \in BOOLEAN : /\ clock' = [clock EXCEPT !.set = set]
                             /\ setBack' = (setBack \/ (clock.set /\ ~set))
  BY DEF Reset
<1>4. faults' \in Nat /\ faults <= faults' /\ faults' > 0 /\ faults' # faults
  BY <1>1, <1>2
<1>5. clock' \in [time : Nat, set : BOOLEAN] /\ clock'.time = clock.time /\ clock'.set = set
  BY <1>1, <1>3
<1>6. setBack' \in BOOLEAN
  BY <1>3
<1>7. Onward
  BY <1>1, <1>3, <1>5 DEF Onward, Now, None
<1>8. DOMAIN job' = Tasks /\ \A t \in Tasks : job'[t].pc = "idle"
  BY <1>2 DEF Idle
<1>9. \A t \in Tasks : ~Takes(t)'
  BY <1>8 DEF Takes, Waits, Writes
<1> QED
  BY <1>2, <1>4, <1>5, <1>6, <1>7, <1>8, <1>9, StoreFacts, QuietKeeps

\* A photo taken is later than those of its camera.
LEMMA SnapshotCard ==
    ASSUME CardInv, NEW c \in Cameras, Snapshot(c)
    PROVE  CardInv'
<1>1. StoreTypes /\ c \in Tasks /\ photos \in Nat /\ faults \in Nat
  BY StoreFacts DEF CardInv, StoreTypes
<1>2. /\ job[c].pc = "idle" /\ photos' = photos + 1
      /\ UNCHANGED <<files, sdOn, ownDays, clock, setBack>>
  BY DEF Snapshot
<1>3. faults' \in Nat /\ faults <= faults'
  BY <1>1 DEF Snapshot, Fault, Faults
<1>4. /\ DOMAIN job' = Tasks
      /\ \A u \in Tasks : u # c => job'[u] = job[u]
      /\ job'[c].pc \in {"idle", "write"}
      /\ job'[c].pc = "write" => job'[c].id = photos + 1
  <2>1. CASE job' = job
    BY <1>1, <1>2, <2>1 DEF StoreTypes
  <2>2. CASE Goes(c, [pc |-> "write", id |-> photos + 1])
    BY <1>1, <2>2, GoesFacts
  <2> QED
    BY <2>1, <2>2 DEF Snapshot
<1>5. /\ \A u \in Tasks : u # c => (Waits(u)' <=> Waits(u)) /\ (Writes(u)' <=> Writes(u))
      /\ ~Writes(c)' /\ ~Writes(c) /\ ~Waits(c) /\ (Waits(c)' => job'[c].id = photos + 1)
  BY <1>2, <1>4 DEF Waits, Writes
<1>6. Onward /\ Now \in Int /\ Now' = Now
  BY <1>1, <1>2, ClockStays
<1>7. StoreTypes'
  <2>1. \A u \in Tasks : Waits(u)' => u \in Cameras /\ job'[u].id \in 1..photos'
    <3> SUFFICES ASSUME NEW u \in Tasks, Waits(u)'
                 PROVE  u \in Cameras /\ job'[u].id \in 1..photos'
      OBVIOUS
    <3>1. CASE u = c
      BY <1>1, <1>2, <1>5, <3>1
    <3>2. CASE u # c
      <4>1. u \in Cameras /\ job'[u] = job[u] /\ job[u].id \in 1..photos
        BY <1>1, <1>4, <1>5, <3>2 DEF StoreTypes
      <4> QED
        BY <1>1, <1>2, <4>1
    <3> QED
      BY <3>1, <3>2
  <2>2. \A u \in Tasks : Writes(u)' =>
          /\ u \in Cameras
          /\ job'[u].photo \in Pictures /\ job'[u].photo.camera = u
          /\ job'[u].photo.kept = 0
    BY <1>1, <1>4, <1>5 DEF StoreTypes
  <2>3. job'["loop"] = job["loop"] /\ job'["viewer"] = job["viewer"]
    BY <1>4, StoreFacts
  <2> QED
    BY <1>1, <1>2, <1>3, <1>4, <2>1, <2>2, <2>3 DEF StoreTypes
<1>8. OneWriter'
  <2>1. \A d \in Cameras : Writes(d)' => Writes(d) /\ job'[d] = job[d]
    BY <1>4, <1>5, StoreFacts
  <2> QED
    BY <1>2, <2>1 DEF CardInv, OneWriter
<1>9. \A d \in Cameras : InOrder(d)'
  <2> SUFFICES ASSUME NEW d \in Cameras PROVE InOrder(d)'
    OBVIOUS
  <2>1. InOrder(d) /\ Of(d)' = Of(d)
    BY <1>2 DEF CardInv, TakenInOrder, Of
  <2>2. \A f \in Of(d) : f.id \in Int /\ f.id <= photos
    BY <1>1, <2>1, PictureFacts DEF StoreTypes, Of, InOrder
  <2>3. \A f \in Of(d)' : f.id <= photos' /\ (~setBack' => f.time <= Now')
    BY <1>1, <1>2, <1>6, <2>1, <2>2 DEF InOrder
  <2>4. \A f, g \in Of(d)' : f # g => Precedes(f, g)' \/ Precedes(g, f)'
    BY <1>2, <2>1 DEF InOrder, Precedes
  <2>5. CASE d # c
    <3>1. job'[d] = job[d] /\ (Waits(d)' <=> Waits(d)) /\ (Writes(d)' <=> Writes(d))
      BY <1>4, <1>5, <2>5, StoreFacts
    <3> QED
      BY <1>2, <2>1, <2>3, <2>4, <3>1 DEF InOrder, Precedes
  <2>6. CASE d = c
    <3>1. Waits(d)' => \A f \in Of(d)' : f.id < job'[d].id
      BY <1>1, <1>5, <2>1, <2>2, <2>6
    <3> QED
      BY <1>5, <2>3, <2>4, <2>6, <3>1 DEF InOrder, Precedes
  <2> QED
    BY <2>5, <2>6
<1>10. RoomLeft'
  BY <1>1, <1>2, <1>3, RoomStays DEF CardInv
<1>11. FaultsOnly'
  <2>1. Cut' \subseteq Cut
    BY <1>2, <1>4, <1>5, StoreFacts DEF Cut
  <2>2. IsFiniteSet(files) /\ Cardinality(Cut) <= faults /\ FaultsOnly
    BY <1>1 DEF StoreTypes, CardInv, FaultsOnly
  <2>3. Cardinality(Cut') <= faults'
    BY <1>1, <1>3, <2>1, <2>2, CutStays
  <2>4. \A t \in Tasks : job'[t].pc = "failed" => job[t].pc = "failed"
    BY <1>4
  <2> QED
    BY <1>1, <1>2, <1>3, <2>2, <2>3, <2>4, FailuresStay
<1> QED
  BY <1>7, <1>8, <1>9, <1>10, <1>11 DEF CardInv, TakenInOrder

-----------------------------------------------------------------------------
(***************************************************************************)
(* The steps that change the files                                         *)
(***************************************************************************)
\* What the files of one camera may become while others' stay.
LEMMA FilesOfOne ==
    ASSUME CardInv, NEW c \in Cameras, IsFiniteSet(files'),
           files' \ Of(c)' = files \ Of(c),
           photos' = photos, clock' = clock, setBack' = setBack,
           faults' \in Nat, faults <= faults',
           \A u \in Tasks : u # c /\ Takes(u)' => job'[u] = job[u],
           Cardinality(Of(c)') <= Cap + faults',
           SizesAlike => RoomFor(Planned(Of(c)), Planned(Of(c)'), Planned(files'),
                                 Largest * faults, Largest * (faults' - faults)),
           InOrder(c)'
    PROVE  TakenInOrder' /\ RoomLeft'
<1>1. IsFiniteSet(files) /\ faults \in Nat /\ RoomLeft /\ StoreTypes
  BY DEF CardInv, StoreTypes
<1>2. \A d \in Cameras : d # c => Of(d)' = Of(d)
  BY <1>1, OneCamera
<1>3. RoomLeft'
  BY <1>1, RoomKeeps
<1>4. Onward /\ Now' \in Int /\ setBack' \in BOOLEAN
  BY <1>1, ClockStays
<1>5. ASSUME NEW d \in Cameras, d # c PROVE InOrder(d)'
  <2>1. InOrder(d) /\ d \in Tasks /\ Of(d)' \subseteq Of(d)
    BY <1>2, <1>5, StoreFacts DEF CardInv, TakenInOrder
  <2>2. Takes(d)' => job'[d] = job[d]
    BY <1>5, <2>1
  <2> QED
    BY <1>1, <1>4, <2>1, <2>2, FewerInOrder
<1> QED
  BY <1>3, <1>5 DEF TakenInOrder

\* Deleting files of one camera while nobody writes.
LEMMA DeletionKeeps ==
    ASSUME CardInv, NEW c \in Cameras, NEW D, D \subseteq Of(c), files' = files \ D,
           MutexFree, photos' = photos, clock' = clock, ownDays' = ownDays, sdOn' = sdOn,
           setBack' = setBack, faults' \in Nat, faults <= faults',
           DOMAIN job' = Tasks,
           \A t \in Tasks : Takes(t)' => Takes(t) /\ job'[t] = job[t],
           \A t \in Tasks : job'[t].pc = "failed" => job[t].pc = "failed" \/ faults' > 0,
           job'["loop"].pc = "sweep" =>
               job'["loop"] \in Sweeps /\ (~setBack => job'["loop"].today <= clock.time),
           job'["viewer"] = job["viewer"]
    PROVE  CardInv'
<1>1. /\ StoreTypes /\ files \subseteq Pictures /\ IsFiniteSet(files) /\ faults \in Nat
      /\ photos \in Nat
  BY DEF CardInv, StoreTypes
<1>2. \A t \in Tasks : ~Writes(t) /\ ~Writes(t)'
  BY DEF MutexFree, Takes, Waits, Writes
<1>3. /\ Of(c)' = Of(c) \ D /\ files' \ Of(c)' = files \ Of(c)
  BY DEF Of
<1>4. /\ IsFiniteSet(files') /\ IsFiniteSet(Of(c))
      /\ Cardinality(Of(c)) \in Nat /\ Cardinality(Of(c)') \in Nat
      /\ Cardinality(Of(c)') <= Cardinality(Of(c))
  <2>1. files' \in SUBSET files /\ Of(c) \in SUBSET files /\ Of(c)' \in SUBSET Of(c)
    BY <1>3 DEF Of
  <2>2. IsFiniteSet(files') /\ IsFiniteSet(Of(c))
    BY <1>1, <2>1, FS_Subset
  <2> QED
    BY <2>1, <2>2, FS_Subset, FS_CardinalityType
<1>5. Cardinality(Of(c)') <= Cap + faults'
  <2>1. Cardinality(Of(c)) <= Cap + faults
    BY DEF CardInv, RoomLeft
  <2> QED
    BY <1>1, <1>4, <2>1, Numbers
<1>6. RoomFor(Planned(Of(c)), Planned(Of(c)'), Planned(files'),
              Largest * faults, Largest * (faults' - faults))
  <2>1. /\ Planned(Of(c)) = Planned(Of(c) \ D) + Planned(D)
        /\ Planned(Of(c) \ D) \in Nat /\ Planned(D) \in Nat
    BY <1>4, HeapSplit DEF Planned
  <2>2. Planned(Of(c)') = Planned(Of(c) \ D)
    BY <1>3
  <2>3. Largest * (faults' - faults) \in Nat
    BY <1>1, FaultSpace
  <2> QED
    BY <2>1, <2>2, <2>3 DEF RoomFor
<1>7. Onward /\ Now' \in Int /\ setBack' \in BOOLEAN
  BY <1>1, ClockStays
<1>8. InOrder(c)'
  <2>1. InOrder(c) /\ c \in Tasks /\ Of(c)' \subseteq Of(c)
    BY <1>3, StoreFacts DEF CardInv, TakenInOrder
  <2> QED
    BY <1>1, <1>7, <2>1, FewerInOrder
<1>9. TakenInOrder' /\ RoomLeft'
  BY <1>3, <1>4, <1>5, <1>6, <1>8, FilesOfOne
<1>10. StoreTypes'
  BY <1>1, <1>2, <1>4 DEF StoreTypes, Takes, Waits
<1>11. OneWriter'
  BY <1>2, StoreFacts DEF OneWriter
<1>12. FaultsOnly'
  <2>1. Cut' \subseteq Cut
    BY <1>2, StoreFacts DEF Cut
  <2>2. Cardinality(Cut) <= faults /\ FaultsOnly
    BY DEF CardInv, FaultsOnly
  <2>3. Cardinality(Cut') <= faults'
    BY <1>1, <2>1, <2>2, CutStays
  <2> QED
    BY <1>1, <2>2, <2>3, FailuresStay
<1> QED
  BY <1>9, <1>10, <1>11, <1>12 DEF CardInv

LEMMA SweepKeeps ==
    ASSUME CardInv, NEW c \in Cameras, Sweep(c)
    PROVE  CardInv'
<1>1. /\ StoreTypes /\ faults \in Nat /\ job["loop"].pc = "sweep" /\ MutexFree
      /\ UNCHANGED <<sdOn, ownDays, clock, photos, setBack>>
      /\ job["loop"] \in Sweeps /\ (~setBack => job["loop"].today <= clock.time)
      /\ "loop" \in Tasks
  BY StoreFacts DEF CardInv, StoreTypes, Sweep
<1>2. PICK D : /\ D \subseteq Of(c) /\ files' = files \ D
               /\ faults' = faults \/ faults' = faults + 1
  <2> DEFINE due == {f \in Of(c) : Expired(f, job["loop"].today)}
  <2>1. due \subseteq Of(c) /\ Of(c) \subseteq files
    BY DEF Of
  <2>2. \/ files' = files \ due /\ faults' = faults
        \/ faults' = faults + 1 /\ \E f \in due : files' = (files \ due) \cup {f}
    BY DEF Sweep, Fault, Faults
  <2> HIDE DEF due
  <2>3. CASE files' = files \ due /\ faults' = faults
    BY <2>1, <2>3
  <2>4. ASSUME NEW f \in due, files' = (files \ due) \cup {f}, faults' = faults + 1
        PROVE  \E D : /\ D \subseteq Of(c) /\ files' = files \ D
                      /\ faults' = faults \/ faults' = faults + 1
    <3>1. due \ {f} \subseteq Of(c) /\ files' = files \ (due \ {f})
      BY <2>1, <2>4
    <3> QED
      BY <2>4, <3>1
  <2> QED
    BY <2>2, <2>3, <2>4
<1>3. faults' \in Nat /\ faults <= faults'
  BY <1>1, <1>2
<1> DEFINE next == IF job["loop"].left = {c} THEN Idle
                   ELSE [job["loop"] EXCEPT !.left = @ \ {c}]
<1>4. /\ next.pc \in {"idle", "sweep"}
      /\ next.pc = "sweep" => next \in Sweeps /\ (~setBack => next.today <= clock.time)
  <2>1. CASE job["loop"].left = {c}
    BY <2>1 DEF Idle
  <2>2. CASE job["loop"].left # {c}
    <3>1. PICK s \in Sweeps : s = job["loop"]
      BY <1>1
    <3>2. next = [s EXCEPT !.left = s.left \ {c}]
      BY <2>2, <3>1
    <3>3. next \in Sweeps /\ next.today = s.today
      BY <3>2 DEF Sweeps
    <3> QED
      BY <1>1, <3>1, <3>3 DEF Sweeps
  <2> QED
    BY <2>1, <2>2
<1>5. Goes("loop", next)
  BY DEF Sweep
<1> HIDE DEF next
<1>6. /\ DOMAIN job' = Tasks /\ job'["loop"] = next
      /\ \A u \in Tasks : u # "loop" => job'[u] = job[u]
  BY <1>1, <1>5, GoesFacts
<1>7. /\ \A t \in Tasks : Takes(t)' => Takes(t) /\ job'[t] = job[t]
      /\ \A t \in Tasks : job'[t].pc = "failed" => job[t].pc = "failed"
      /\ job'["viewer"] = job["viewer"]
  BY <1>4, <1>6, StoreFacts DEF Takes, Waits, Writes
<1> QED
  BY <1>1, <1>2, <1>3, <1>4, <1>6, <1>7, DeletionKeeps

LEMMA EraseAllKeeps ==
    ASSUME CardInv, EraseAll
    PROVE  CardInv'
<1>1. /\ StoreTypes /\ faults \in Nat /\ MutexFree /\ IsFiniteSet(files)
      /\ UNCHANGED <<sdOn, ownDays, clock, job, photos, setBack>> /\ files \subseteq Pictures
  BY DEF CardInv, StoreTypes, EraseAll
<1>2. /\ files' \subseteq files /\ IsFiniteSet(files')
      /\ faults' \in Nat /\ faults <= faults' /\ Cardinality(files') \in Nat
      /\ Cardinality(files') <= 1 /\ Cardinality(files') <= faults'
  <2>1. CASE files' = {} /\ faults' = faults
    BY <1>1, <2>1, FS_EmptySet
  <2>2. ASSUME NEW f \in files, files' = {f}, faults' = faults + 1
        PROVE  /\ files' \subseteq files /\ IsFiniteSet(files')
               /\ faults' \in Nat /\ faults <= faults' /\ Cardinality(files') \in Nat
               /\ Cardinality(files') <= 1 /\ Cardinality(files') <= faults'
    <3>1. IsFiniteSet(files') /\ Cardinality(files') = 1
      BY <2>2, FS_Singleton
    <3> QED
      BY <1>1, <2>2, <3>1
  <2> QED
    BY <2>1, <2>2 DEF EraseAll, Fault, Faults
<1>3. \A t \in Tasks : ~Writes(t) /\ ~Writes(t)'
  BY <1>1 DEF MutexFree, Writes
<1>4. \A c \in Cameras : Of(c)' \subseteq Of(c)
  BY <1>2 DEF Of
<1>5. TakenInOrder'
  <2> SUFFICES ASSUME NEW c \in Cameras PROVE InOrder(c)'
    BY DEF TakenInOrder
  <2>1. InOrder(c) /\ Of(c)' \subseteq Of(c) /\ job'[c] = job[c]
    BY <1>1, <1>4 DEF CardInv, TakenInOrder
  <2>2. Onward /\ Now' \in Int /\ setBack' \in BOOLEAN
    BY <1>1, ClockStays
  <2> QED
    BY <1>1, <2>1, <2>2, FewerInOrder
<1>6. RoomLeft'
  <2>1. \A c \in Cameras : Cardinality(Of(c)') <= Cap + faults'
    <3> SUFFICES ASSUME NEW c \in Cameras PROVE Cardinality(Of(c)') <= Cap + faults'
      OBVIOUS
    <3>1. Of(c)' \in SUBSET files'
      BY DEF Of
    <3>2. Cardinality(Of(c)') \in Nat /\ Cardinality(Of(c)') <= Cardinality(files')
      BY <1>2, <3>1, FS_Subset, FS_CardinalityType
    <3> QED
      BY <1>2, <3>2, Numbers
  <2>2. Planned(files') <= Cardinality(files') * Largest /\ Planned(files') \in Nat
    BY <1>2, HeapBounds, HeapFinite DEF Planned
  <2>3. Planned(files') <= Largest * faults'
    <3>1. Largest * faults' \in Nat /\ 0 \in Nat /\ 0 <= faults'
      BY <1>2, FaultSpace
    <3>2. CASE Cardinality(files') = 0
      <4>1. Planned(files') <= 0 * Largest
        BY <2>2, <3>2, Zenon
      <4>2. 0 * Largest = 0
        BY SizeFacts
      <4> QED
        BY <2>2, <3>1, <4>1, <4>2
    <3>3. CASE Cardinality(files') = 1
      <4>1. Planned(files') <= 1 * Largest
        BY <2>2, <3>3, Zenon
      <4>2. 1 * Largest = Largest /\ Largest \in Nat
        BY SizeFacts
      <4>3. Largest <= Largest * faults'
        <5>1. faults' \in Nat /\ faults' >= 1
          BY <1>2, <3>3
        <5> QED
          BY <5>1, SpaceOfFault
      <4> QED
        BY <2>2, <3>1, <4>1, <4>2, <4>3
    <3>4. Cardinality(files') = 0 \/ Cardinality(files') = 1
      BY <1>2
    <3> QED
      BY <3>2, <3>3, <3>4
  <2>4. Share' \in Nat
    <3>1. Share' = Heap(Cameras, PlannedOf')
      BY DEF Share, Heap, Under
    <3> QED
      BY <3>1, StoreFacts, HeapFinite
  <2>5. Planned(files') <= Card - Reserve + Share' + Largest * faults'
    <3>1. Largest * faults' \in Nat /\ 0 \in Nat /\ 0 <= faults'
      BY <1>2, FaultSpace
    <3> QED
      BY <2>2, <2>3, <2>4, <3>1, Numbers
  <2> QED
    BY <2>1, <2>5 DEF RoomLeft, Planned
<1>7. StoreTypes'
  BY <1>1, <1>2 DEF StoreTypes, Waits, Writes
<1>8. OneWriter'
  BY <1>3, StoreFacts DEF OneWriter
<1>9. FaultsOnly'
  <2>1. Cut' \subseteq Cut
    BY <1>2, <1>3, StoreFacts DEF Cut
  <2>2. Cardinality(Cut) <= faults /\ FaultsOnly
    BY DEF CardInv, FaultsOnly
  <2>3. Cardinality(Cut') <= faults'
    BY <1>1, <1>2, <2>1, <2>2, CutStays
  <2> QED
    BY <1>1, <1>2, <2>2, <2>3, FailuresStay
<1> QED
  BY <1>5, <1>6, <1>7, <1>8, <1>9 DEF CardInv

-----------------------------------------------------------------------------
(***************************************************************************)
(* A file is made                                                          *)
(***************************************************************************)
\* What is deleted before a photo is added, but for one that may be left: as many
\* photos as the cap asks for, and the room that the photo takes, if that is to
\* be had.
LEMMA DropFacts ==
    ASSUME StoreTypes, NEW c \in Cameras, NEW size \in Smallest..Largest,
           NEW drop \in Drops(c, size)
    PROVE  /\ drop \subseteq Of(c) /\ drop \subseteq files
           /\ IsFiniteSet(drop) /\ Cardinality(drop) \in Nat
           /\ OverCap(c) <= Cardinality(drop)
           /\ \/ Bytes(files \ drop) + size <= Card - Reserve
              \/ Cardinality(drop) = PruneMax
              \/ drop = Of(c)
<1>1. drop \subseteq Of(c) /\ drop \subseteq files /\ drop \in SUBSET files
  BY DEF Drops, Of
<1>2. IsFiniteSet(files) /\ files \subseteq Pictures /\ size \in Nat
  BY SizeFacts DEF StoreTypes
<1>3. IsFiniteSet(drop) /\ Cardinality(drop) \in Nat
  BY <1>1, <1>2, FS_Subset, FS_CardinalityType
<1>4. /\ Heap(files, Kept) = Heap(files \ drop, Kept) + Heap(drop, Kept)
      /\ Heap(files \ drop, Kept) \in Nat /\ Heap(drop, Kept) \in Nat
  BY <1>1, <1>2, HeapSplit
<1>5. Bytes(files) = Heap(files, Kept) /\ Bytes(drop) = Heap(drop, Kept)
      /\ Bytes(files \ drop) = Heap(files \ drop, Kept)
  BY <1>1, <1>2, BytesAreKept
<1>6. Bytes(drop) >= Reserve + size - Free => Bytes(files \ drop) + size <= Card - Reserve
  BY <1>2, <1>4, <1>5, Numbers DEF Free
<1>7. /\ Cardinality(drop) \in OverCap(c)..PruneMax
      /\ \/ Bytes(drop) >= Reserve + size - Free
         \/ Cardinality(drop) = PruneMax
         \/ drop = Of(c)
  BY DEF Drops
<1>8. OverCap(c) <= Cardinality(drop)
  BY <1>7
<1> QED
  BY <1>1, <1>3, <1>6, <1>7, <1>8

\* One that is left costs its place, and its space.
LEMMA OneLeft ==
    ASSUME NEW drop \in SUBSET Pictures, IsFiniteSet(drop), NEW left \in drop
    PROVE  /\ Cardinality(drop \ {left}) = Cardinality(drop) - 1
           /\ Cardinality(drop \ {left}) \in Nat
           /\ Planned(drop) <= Planned(drop \ {left}) + Largest
<1>1. IsFiniteSet(drop \ {left}) /\ Cardinality(drop \ {left}) = Cardinality(drop) - 1
  BY FS_RemoveElement
<1>2. Cardinality(drop \ {left}) \in Nat
  BY <1>1, FS_CardinalityType
<1>3. /\ Planned(drop) = Planned(drop \ {left}) + Planned({left})
      /\ Planned(drop \ {left}) \in Nat /\ Planned({left}) \in Nat
  <2>1. {left} \in SUBSET drop
    OBVIOUS
  <2> QED
    BY <2>1, HeapSplit DEF Planned
<1>4. Planned({left}) <= Largest
  <2>1. Sizes[left] \in Nat
    BY PictureFacts
  <2>2. Planned({left}) = AtMost(Sizes[left], Largest)
    BY <2>1, HeapOne DEF Planned
  <2> QED
    BY <2>1, <2>2, SizeFacts DEF AtMost
<1>5. Planned(drop) <= Planned(drop \ {left}) + Largest
  BY <1>3, <1>4, SizeFacts
<1> QED
  BY <1>1, <1>2, <1>5

\* The room for a photo, when d units are owed to a fault that left one.
LEMMA RoomForPhoto ==
    ASSUME StoreTypes, SizesAlike, MutexFree, Cardinality(Cut) <= faults,
           NEW c \in Cameras, NEW size \in Smallest..Largest, NEW drop \in Drops(c, size),
           NEW D \in SUBSET drop, NEW d \in Nat, Planned(drop) <= Planned(D) + d,
           NEW p \in Pictures, p.size = size, p \notin files
    PROVE  RoomFor(Planned(Of(c)), Planned((Of(c) \ D) \cup {p}), Planned((files \ D) \cup {p}),
                   Largest * faults, d)
<1>1. /\ drop \subseteq Of(c) /\ drop \subseteq files
      /\ IsFiniteSet(drop) /\ Cardinality(drop) \in Nat
      /\ \/ Bytes(files \ drop) + size <= Card - Reserve
         \/ Cardinality(drop) = PruneMax
         \/ drop = Of(c)
  BY DropFacts
<1>2. /\ IsFiniteSet(files) /\ files \subseteq Pictures /\ IsFiniteSet(Of(c)) /\ Of(c) \subseteq files
      /\ size \in Nat /\ size <= Largest /\ faults \in Nat
  <2>1. IsFiniteSet(files) /\ files \subseteq Pictures /\ faults \in Nat
    BY DEF StoreTypes
  <2>2. IsFiniteSet(Of(c))
    BY <2>1, FilesFinite
  <2>3. Of(c) \subseteq files
    BY DEF Of
  <2> QED
    BY <2>1, <2>2, <2>3, SizeFacts
<1>3. ASSUME NEW S, IsFiniteSet(S), drop \subseteq S, p \notin S
      PROVE  /\ Planned(S) \in Nat /\ Planned(S \ drop) \in Nat /\ Planned(drop) \in Nat
             /\ Planned(S) = Planned(S \ drop) + Planned(drop)
             /\ Planned((S \ D) \cup {p}) \in Nat
             /\ Planned((S \ D) \cup {p}) <= Planned(S \ drop) + d + size
  <2>1. /\ Planned(S) = Planned(S \ drop) + Planned(drop)
        /\ Planned(S \ drop) \in Nat /\ Planned(drop) \in Nat
    BY <1>3, HeapSplit DEF Planned
  <2>2. /\ Planned(S) = Planned(S \ D) + Planned(D) /\ IsFiniteSet(S \ D)
        /\ Planned(S \ D) \in Nat /\ Planned(D) \in Nat
    BY <1>3, HeapSplit DEF Planned
  <2>3. /\ Planned((S \ D) \cup {p}) = Planned(((S \ D) \cup {p}) \ {p}) + Planned({p})
        /\ Planned((S \ D) \cup {p}) \in Nat
    <3>1. IsFiniteSet((S \ D) \cup {p}) /\ {p} \in SUBSET ((S \ D) \cup {p})
      BY <2>2, FS_AddElement
    <3> QED
      BY <3>1, HeapSplit, HeapFinite DEF Planned
  <2>4. ((S \ D) \cup {p}) \ {p} = S \ D
    BY <1>3
  <2>5. Planned({p}) = size
    <3>1. Sizes[p] = size /\ Sizes[p] \in Nat
      BY PictureFacts
    <3>2. Planned({p}) = AtMost(Sizes[p], Largest)
      BY <3>1, HeapOne DEF Planned
    <3> QED
      BY <1>2, <3>1, <3>2, SizeFacts DEF AtMost
  <2>6. Planned((S \ D) \cup {p}) = Planned(S \ D) + size
    BY <2>3, <2>4, <2>5
  <2> QED
    BY <1>2, <2>1, <2>2, <2>3, <2>6
<1>4. /\ Planned(Of(c)) \in Nat /\ Planned(Of(c) \ drop) \in Nat /\ Planned(drop) \in Nat
      /\ Planned(Of(c)) = Planned(Of(c) \ drop) + Planned(drop)
      /\ Planned((Of(c) \ D) \cup {p}) \in Nat
      /\ Planned((Of(c) \ D) \cup {p}) <= Planned(Of(c) \ drop) + d + size
  BY <1>1, <1>2, <1>3
<1>5. /\ Planned(files \ drop) \in Nat /\ Planned((files \ D) \cup {p}) \in Nat
      /\ Planned((files \ D) \cup {p}) <= Planned(files \ drop) + d + size
  BY <1>1, <1>2, <1>3
<1>6. CASE Bytes(files \ drop) + size <= Card - Reserve
  <2> DEFINE S == files \ drop
             T == Cut \cap S
  <2>1. IsFiniteSet(S) /\ T \in SUBSET S /\ S \subseteq Pictures
    BY <1>2, FS_Difference
  <2>2. \A f \in S : Sizes[f] \in Nat /\ Kept[f] \in Nat
    BY <2>1, PictureFacts
  <2>3. \A f \in S \ T : Sizes[f] <= Kept[f]
    <3> SUFFICES ASSUME NEW f \in S \ T PROVE Sizes[f] <= Kept[f]
      OBVIOUS
    <3>1. f \in files /\ f \in Pictures /\ f \notin Cut
      BY <2>1
    <3>2. ~(f.kept < f.size)
      BY <3>1, StoreFacts DEF Cut, MutexFree, Writes
    <3>3. f.kept \in Nat /\ f.size \in Nat /\ Sizes[f] = f.size /\ Kept[f] = f.kept
      BY <3>1, PictureFacts, SizeFacts
    <3> QED
      BY <3>2, <3>3
  <2>4. /\ Planned(S) <= Heap(S, Kept) + Cardinality(T) * Largest
        /\ Heap(S, Kept) \in Nat
    BY <2>1, <2>2, <2>3, HeapShort, HeapFinite DEF Planned
  <2>5. Cardinality(T) \in Nat /\ Cardinality(T) <= faults
    <3>1. T \in SUBSET Cut /\ IsFiniteSet(Cut) /\ Cardinality(Cut) \in Nat
      BY <1>2, FilesFinite
    <3>2. Cardinality(T) \in Nat /\ Cardinality(T) <= Cardinality(Cut)
      BY <3>1, FS_Subset, FS_CardinalityType
    <3> QED
      BY <1>2, <3>1, <3>2
  <2>6. Cardinality(T) * Largest <= Largest * faults /\ Largest * faults \in Nat
    <3>1. /\ Largest * Cardinality(T) \in Nat /\ Largest * faults \in Nat
          /\ Largest * (faults - Cardinality(T)) \in Nat
          /\ Largest * faults = Largest * Cardinality(T) + Largest * (faults - Cardinality(T))
      BY <1>2, <2>5, FaultSpace
    <3>2. Cardinality(T) * Largest = Largest * Cardinality(T)
      BY <2>5, SizeFacts
    <3> QED
      BY <3>1, <3>2
  <2>7. Cardinality(T) * Largest \in Nat
    BY <2>5, SizeFacts
  <2>8. Bytes(S) = Heap(S, Kept)
    BY <2>1, BytesAreKept
  <2>9. Heap(S, Kept) + size <= Card - Reserve
    BY <1>6, <2>8
  <2>10. Planned(S) \in Nat /\ Planned((files \ D) \cup {p}) <= Planned(S) + d + size
    BY <1>5
  <2> HIDE DEF S, T
  <2>11. Planned((files \ D) \cup {p}) <= Card - Reserve + Largest * faults + d
    BY <1>2, <1>5, <2>4, <2>6, <2>7, <2>9, <2>10, Numbers
  <2> QED
    BY <2>11 DEF RoomFor
<1>7. CASE Cardinality(drop) = PruneMax
  <2>1. \A f \in drop : Sizes[f] \in Nat /\ Smallest <= Sizes[f]
    <3> SUFFICES ASSUME NEW f \in drop PROVE Sizes[f] \in Nat /\ Smallest <= Sizes[f]
      OBVIOUS
    <3>1. f \in Pictures /\ f.camera = c
      BY <1>1, <1>2 DEF Of
    <3> QED
      BY <3>1, PictureFacts
  <2>2. PruneMax * Smallest <= Planned(drop)
    BY <1>1, <1>7, <2>1, HeapBounds DEF Planned
  <2>3. Largest <= PruneMax * Smallest /\ PruneMax * Smallest \in Nat
    BY Numbers, StoreFacts, SizeFacts DEF SizesAlike
  <2>4. Planned((Of(c) \ D) \cup {p}) <= Planned(Of(c)) + d
    BY <1>2, <1>4, <2>2, <2>3, SizeFacts
  <2> QED
    BY <2>4 DEF RoomFor
<1>8. CASE drop = Of(c)
  <2>1. Planned(Of(c) \ drop) = 0
    <3>1. Of(c) \ drop = {}
      BY <1>8
    <3>2. Under({}, Sizes) = {}
      BY DEF Under
    <3> QED
      BY <3>1, <3>2, FS_EmptySet DEF Planned, Heap
  <2>2. Planned((Of(c) \ D) \cup {p}) <= Largest + d
    BY <1>2, <1>4, <2>1, SizeFacts
  <2> QED
    BY <2>2 DEF RoomFor
<1> QED
  BY <1>1, <1>6, <1>7, <1>8

\* A photo before a byte of it is written.
LEMMA PhotoFacts ==
    ASSUME StoreTypes, NEW c \in Cameras, NEW id \in Int, NEW size \in Smallest..Largest
    PROVE  LET p == Photo(c, id, size)
           IN /\ p \in Pictures /\ p.camera = c /\ p.id = id /\ p.size = size /\ p.kept = 0
              /\ p.time = Now
<1>1. clock.time \in Nat /\ clock.set \in BOOLEAN
  BY DEF StoreTypes
<1>2. Now \in Times
  BY <1>1 DEF Now, Times
<1>3. size \in 1..Largest /\ 0 \in 0..Largest /\ size \in Nat /\ Smallest <= size
  BY SizeFacts
<1>4. Photo(c, id, size) = [camera |-> c, id |-> id, time |-> Now, size |-> size, kept |-> 0]
  BY DEF Photo, Now
<1> QED
  BY <1>2, <1>3, <1>4 DEF Pictures, Records

\* A file is made for the photo to write, or that fails.
LEMMA OpenFileKeeps ==
    ASSUME CardInv, NEW c \in Cameras, OpenFile(c)
    PROVE  CardInv'
<1>1. /\ StoreTypes /\ faults \in Nat /\ job[c].pc = "write" /\ MutexFree
      /\ UNCHANGED <<sdOn, ownDays, clock, photos, setBack>> /\ photos \in Nat
      /\ c \in Tasks /\ IsFiniteSet(files) /\ files \subseteq Pictures
      /\ Waits(c) /\ job[c].id \in 1..photos /\ job[c].id \in Int
  BY StoreFacts DEF CardInv, StoreTypes, OpenFile, Waits
<1>2. \A t \in Tasks : ~Writes(t)
  BY <1>1 DEF MutexFree, Writes
<1>3. PICK size \in Smallest..Largest : \E drop \in Drops(c, size) :
        LET photo == Photo(c, job[c].id, size)
        IN \/ /\ files' = (files \ drop) \cup {photo}
              /\ Goes(c, [pc |-> "writing", photo |-> photo])
              /\ faults' = faults
           \/ /\ faults' = faults + 1
              /\ \E left \in drop : files' = (files \ (drop \ {left})) \cup {photo}
              /\ Goes(c, [pc |-> "writing", photo |-> photo])
           \/ /\ faults' = faults + 1
              /\ files' \in {files, files \ drop}
              /\ Goes(c, [pc |-> "failed"])
  BY DEF OpenFile, Fault, Faults
<1> DEFINE p == Photo(c, job[c].id, size)
<1>4. PICK drop \in Drops(c, size) :
        \/ /\ files' = (files \ drop) \cup {p}
           /\ Goes(c, [pc |-> "writing", photo |-> p])
           /\ faults' = faults
        \/ /\ faults' = faults + 1
           /\ \E left \in drop : files' = (files \ (drop \ {left})) \cup {p}
           /\ Goes(c, [pc |-> "writing", photo |-> p])
        \/ /\ faults' = faults + 1
           /\ files' \in {files, files \ drop}
           /\ Goes(c, [pc |-> "failed"])
  BY <1>3
<1>5. /\ p \in Pictures /\ p.camera = c /\ p.id = job[c].id /\ p.size = size /\ p.kept = 0
      /\ p.time = Now
  BY <1>1, PhotoFacts
<1> HIDE DEF p
<1>6. \A f \in Of(c) : f.id < p.id /\ (~setBack => f.time <= Now)
  BY <1>1, <1>5 DEF CardInv, TakenInOrder, InOrder
<1>7. p \notin files
  <2> SUFFICES ASSUME p \in files PROVE FALSE
    OBVIOUS
  <2>1. p.id < p.id /\ p.id \in Int
    BY <1>1, <1>5, <1>6 DEF Of
  <2> QED
    BY <2>1
<1>8. /\ drop \subseteq Of(c) /\ drop \subseteq files
      /\ IsFiniteSet(drop) /\ Cardinality(drop) \in Nat
      /\ OverCap(c) <= Cardinality(drop)
  BY <1>1, DropFacts
<1>9. /\ IsFiniteSet(Of(c)) /\ Cardinality(Of(c)) \in Nat /\ Cardinality(Of(c)) <= Cap + faults
  BY <1>1, FilesFinite DEF CardInv, RoomLeft
<1>10. ASSUME NEW D \in {{}, drop}, files' = files \ D, Goes(c, [pc |-> "failed"]),
             faults' = faults + 1
      PROVE  CardInv'
  <2>1. /\ DOMAIN job' = Tasks /\ job'[c] = [pc |-> "failed"]
        /\ \A u \in Tasks : u # c => job'[u] = job[u]
    BY <1>1, <1>10, GoesFacts
  <2>2. /\ \A t \in Tasks : Takes(t)' => Takes(t) /\ job'[t] = job[t]
        /\ \A t \in Tasks : job'[t].pc = "failed" => job[t].pc = "failed" \/ faults' > 0
        /\ job'["viewer"] = job["viewer"] /\ job'["loop"] = job["loop"]
    BY <1>1, <1>10, <2>1, StoreFacts DEF Takes, Waits, Writes
  <2>3. faults' \in Nat /\ faults <= faults'
    BY <1>1, <1>10
  <2>4. job["loop"].pc = "sweep" =>
          job["loop"] \in Sweeps /\ (~setBack => job["loop"].today <= clock.time)
    BY <1>1 DEF StoreTypes
  <2>5. D \subseteq Of(c)
    BY <1>8
  <2> QED
    BY <1>1, <1>10, <2>1, <2>2, <2>3, <2>4, <2>5, DeletionKeeps
<1>11. ASSUME NEW D \in SUBSET drop, files' = (files \ D) \cup {p},
             Goes(c, [pc |-> "writing", photo |-> p]), faults' \in Nat, faults <= faults',
             Cardinality(D) \in Nat, Cardinality(drop) <= Cardinality(D) + (faults' - faults),
             Planned(drop) <= Planned(D) + Largest * (faults' - faults)
      PROVE  CardInv'
  <2>1. /\ DOMAIN job' = Tasks /\ job'[c] = [pc |-> "writing", photo |-> p]
        /\ \A u \in Tasks : u # c => job'[u] = job[u]
    BY <1>1, <1>11, GoesFacts
  <2>2. /\ Writes(c)' /\ ~Waits(c)' /\ job'[c].photo = p
        /\ \A u \in Tasks : u # c => (Waits(u)' <=> Waits(u)) /\ ~Writes(u)' /\ job'[u] = job[u]
        /\ \A t \in Tasks : job'[t].pc = "failed" => job[t].pc = "failed"
        /\ job'["viewer"] = job["viewer"] /\ job'["loop"] = job["loop"]
    BY <1>1, <1>2, <2>1, StoreFacts DEF Waits, Writes
  <2>3. Of(c)' = (Of(c) \ D) \cup {p} /\ files' \ Of(c)' = files \ Of(c) /\ p \in files'
    BY <1>5, <1>7, <1>8, <1>11 DEF Of
  <2>4. /\ IsFiniteSet(files')
        /\ Cardinality(Of(c)') <= Cardinality(Of(c)) - Cardinality(D) + 1
        /\ Cardinality(Of(c)') \in Nat
    <3>1. D \subseteq Of(c) /\ D \subseteq files
      BY <1>8
    <3>2. IsFiniteSet((files \ D) \cup {p})
      BY <1>1, <3>1, RemovedAdded
    <3>3. /\ Cardinality((Of(c) \ D) \cup {p}) \in Nat
          /\ Cardinality((Of(c) \ D) \cup {p}) <= Cardinality(Of(c)) - Cardinality(D) + 1
      BY <1>9, <3>1, RemovedAdded
    <3> QED
      BY <1>11, <2>3, <3>2, <3>3
  <2>5. Cardinality(Of(c)') <= Cap + faults'
    <3>1. CASE Cardinality(Of(c)) < Cap
      BY <1>1, <1>9, <1>11, <2>4, <3>1, Numbers
    <3>2. CASE Cardinality(Of(c)) >= Cap
      <4>1. OverCap(c) >= 1 \/ OverCap(c) >= Cardinality(Of(c)) - Cap + 1
        BY <1>9, <3>2, Numbers DEF OverCap, AtMost, AtLeast
      <4>2. OverCap(c) \in Int
        BY <1>9, Numbers DEF OverCap, AtMost, AtLeast
      <4> QED
        BY <1>1, <1>8, <1>9, <1>11, <2>4, <3>2, <4>1, <4>2, Numbers
    <3> QED
      BY <1>9, <3>1, <3>2, Numbers
  <2>6. SizesAlike => RoomFor(Planned(Of(c)), Planned(Of(c)'), Planned(files'),
                              Largest * faults, Largest * (faults' - faults))
    <3>1. Largest * (faults' - faults) \in Nat
      BY <1>1, <1>11, FaultSpace
    <3>2. Cardinality(Cut) <= faults
      BY DEF CardInv, FaultsOnly
    <3>3. SizesAlike =>
            RoomFor(Planned(Of(c)), Planned((Of(c) \ D) \cup {p}), Planned((files \ D) \cup {p}),
                    Largest * faults, Largest * (faults' - faults))
      BY <1>1, <1>5, <1>7, <1>11, <3>1, <3>2, RoomForPhoto
    <3> QED
      BY <1>11, <2>3, <3>3
  <2>7. InOrder(c)'
    <3>1. /\ InOrder(c) /\ p.id <= photos /\ Now \in Int /\ Now' = Now
      BY <1>1, <1>5, ClockStays DEF CardInv, TakenInOrder
    <3>2. \A f \in Of(c) : Precedes(f, p)
      BY <1>5, <1>6 DEF Precedes
    <3>3. \A f \in Of(c)' : f = p \/ f \in Of(c)
      BY <2>3
    <3>4. \A f, g \in Of(c)' : f # g => Precedes(f, g) \/ Precedes(g, f)
      BY <3>1, <3>2, <3>3 DEF InOrder
    <3>5. \A f \in Of(c)' : f.id <= photos /\ (~setBack => f.time <= Now)
      BY <1>5, <3>1, <3>3 DEF InOrder
    <3>6. \A f \in Of(c)' : f = p \/ Precedes(f, p)
      BY <3>2, <3>3
    <3> QED
      BY <1>1, <2>2, <3>1, <3>4, <3>5, <3>6 DEF InOrder, Precedes
  <2>8. \A u \in Tasks : u # c /\ Takes(u)' => job'[u] = job[u]
    BY <2>2
  <2>9. TakenInOrder' /\ RoomLeft'
    BY <1>1, <1>11, <2>3, <2>4, <2>5, <2>6, <2>7, <2>8, FilesOfOne
  <2>10. StoreTypes'
    <3>1. \A u \in Tasks : Waits(u)' => u \in Cameras /\ job'[u].id \in 1..photos'
      BY <1>1, <2>2 DEF StoreTypes
    <3>2. \A u \in Tasks : Writes(u)' =>
            /\ u \in Cameras
            /\ job'[u].photo \in Pictures /\ job'[u].photo.camera = u
            /\ job'[u].photo.kept = 0
      BY <1>5, <2>2
    <3>3. files' \subseteq Pictures
      BY <1>1, <1>5, <1>11
    <3> QED
      BY <1>1, <1>11, <2>1, <2>2, <2>4, <3>1, <3>2, <3>3 DEF StoreTypes
  <2>11. OneWriter'
    BY <2>2, <2>3, StoreFacts DEF OneWriter
  <2>12. FaultsOnly'
    <3>1. Cut' \subseteq Cut
      <4> SUFFICES ASSUME NEW f \in Cut' PROVE f \in Cut
        OBVIOUS
      <4>1. f \in files' /\ f.kept < f.size /\ f # p
        BY <2>2 DEF Cut
      <4>2. f \in files
        BY <1>11, <4>1
      <4> QED
        BY <1>2, <4>1, <4>2, StoreFacts DEF Cut
    <3>2. Cardinality(Cut) <= faults /\ FaultsOnly
      BY DEF CardInv, FaultsOnly
    <3>3. Cardinality(Cut') <= faults'
      BY <1>1, <1>11, <3>1, <3>2, CutStays
    <3> QED
      BY <1>1, <1>11, <2>2, <3>2, <3>3, FailuresStay
  <2> QED
    BY <2>9, <2>10, <2>11, <2>12 DEF CardInv
<1>12. ASSUME files' = (files \ drop) \cup {p},
              Goes(c, [pc |-> "writing", photo |-> p]), faults' = faults
       PROVE  CardInv'
  <2>1. faults' \in Nat /\ faults <= faults' /\ faults' - faults = 0
    BY <1>1, <1>12
  <2>2. Cardinality(drop) <= Cardinality(drop) + (faults' - faults)
    BY <1>8, <2>1
  <2>3. Planned(drop) <= Planned(drop) + Largest * (faults' - faults)
    <3>1. Planned(drop) \in Nat
      BY <1>8, HeapFinite DEF Planned
    <3>2. Largest * (faults' - faults) \in Nat
      BY <1>1, <2>1, FaultSpace
    <3> QED
      BY <3>1, <3>2
  <2>4. drop \in SUBSET drop
    OBVIOUS
  <2> QED
    BY <1>8, <1>11, <1>12, <2>1, <2>2, <2>3, <2>4
<1>13. ASSUME NEW left \in drop, files' = (files \ (drop \ {left})) \cup {p},
              Goes(c, [pc |-> "writing", photo |-> p]), faults' = faults + 1
       PROVE  CardInv'
  <2> DEFINE D == drop \ {left}
  <2>1. /\ Cardinality(D) = Cardinality(drop) - 1 /\ Cardinality(D) \in Nat
        /\ Planned(drop) <= Planned(D) + Largest
    <3>1. drop \in SUBSET Pictures
      BY <1>1, <1>8
    <3> QED
      BY <1>8, <3>1, OneLeft
  <2>2. D \in SUBSET drop /\ files' = (files \ D) \cup {p}
    BY <1>13
  <2> HIDE DEF D
  <2>3. faults' \in Nat /\ faults <= faults' /\ faults' - faults = 1
    BY <1>1, <1>13
  <2>4. Cardinality(drop) <= Cardinality(D) + (faults' - faults)
    BY <1>8, <2>1, <2>3
  <2>5. Largest * (faults' - faults) = Largest
    BY <2>3, SizeFacts
  <2>6. Planned(drop) <= Planned(D) + Largest * (faults' - faults)
    BY <2>1, <2>5
  <2> QED
    BY <1>11, <1>13, <2>1, <2>2, <2>3, <2>4, <2>6
<1>14. ASSUME files' \in {files, files \ drop}, Goes(c, [pc |-> "failed"]),
              faults' = faults + 1
       PROVE  CardInv'
  <2>1. files' = files \ {} \/ files' = files \ drop
    BY <1>14
  <2> QED
    BY <1>10, <1>14, <2>1
<1> QED
  BY <1>4, <1>12, <1>13, <1>14

-----------------------------------------------------------------------------
(***************************************************************************)
(* A file is written                                                       *)
(***************************************************************************)
\* The shares of all cameras are in the reserve.
LEMMA ShareBound ==
    ASSUME Roomy
    PROVE  Share <= Reserve /\ Share \in Nat
<1>1. Share <= Cardinality(Cameras) * Largest /\ Share \in Nat
  BY StoreFacts, HeapBounds, HeapFinite DEF Share
<1>2. Cardinality(Cameras) * Largest = Largest * Cardinality(Cameras)
  BY StoreFacts, SizeFacts
<1>3. Largest * Cardinality(Cameras) <= Reserve
  BY DEF Roomy
<1>4. Share <= Largest * Cardinality(Cameras)
  BY <1>1, <1>2
<1>5. Largest * Cardinality(Cameras) \in Int
  BY StoreFacts, SizeFacts
<1> QED
  BY <1>1, <1>3, <1>4, <1>5, Numbers

\* Without a fault there is room for the photo that is being written.
LEMMA PhotoFits ==
    ASSUME CardInv, Roomy, faults = 0, NEW p \in files, p.kept = 0
    PROVE  p.size <= Free
<1>1. IsFiniteSet(files) /\ files \subseteq Pictures /\ {p} \in SUBSET files /\ p \in Pictures
  BY DEF CardInv, StoreTypes
<1>2. p.size \in Nat /\ p.size <= Largest /\ Sizes[p] = p.size /\ Kept[p] = 0
  BY <1>1, PictureFacts, SizeFacts
<1>3. Heap({p}, Sizes) = p.size /\ Heap({p}, Kept) = 0
  <2>1. Heap({p}, Sizes) = AtMost(p.size, Largest) /\ Heap({p}, Kept) = AtMost(0, Largest)
    BY <1>2, HeapOne
  <2> QED
    BY <1>2, <2>1, SizeFacts DEF AtMost
<1>4. /\ Heap(files, Sizes) = Heap(files \ {p}, Sizes) + Heap({p}, Sizes)
      /\ Heap(files, Kept) = Heap(files \ {p}, Kept) + Heap({p}, Kept)
      /\ Heap(files \ {p}, Kept) \in Nat /\ Heap(files \ {p}, Sizes) \in Nat
      /\ IsFiniteSet(files \ {p})
  BY <1>1, HeapSplit
<1>5. Heap(files \ {p}, Kept) <= Heap(files \ {p}, Sizes)
  <2>1. \A f \in files \ {p} : Sizes[f] \in Nat /\ Kept[f] \in Nat /\ Kept[f] <= Sizes[f]
    BY <1>1, PictureFacts
  <2> QED
    BY <1>4, <2>1, HeapLess
<1>6. Planned(files) <= Card - Reserve + Share + Largest * faults
  BY DEF CardInv, RoomLeft, Roomy
<1>7. Share <= Reserve /\ Share \in Nat /\ Largest * faults = 0
  BY ShareBound, SizeFacts
<1>8. Bytes(files) = Heap(files, Kept) /\ Planned(files) = Heap(files, Sizes)
  BY <1>1, BytesAreKept DEF Planned
<1>9. Planned(files) \in Nat /\ Bytes(files) \in Nat /\ Bytes(files) + p.size <= Planned(files)
  BY <1>2, <1>3, <1>4, <1>5, <1>8
<1>10. Planned(files) <= Card
  BY <1>6, <1>7, <1>9, Numbers
<1> QED
  BY <1>2, <1>9, <1>10, Numbers DEF Free

\* A file is given another that plans the same, at most.
LEMMA SamePlan ==
    ASSUME NEW S \in SUBSET Pictures, IsFiniteSet(S), NEW p \in S, NEW q \in Pictures,
           q.size = p.size, NEW T \in SUBSET ((S \ {p}) \cup {q})
    PROVE  /\ IsFiniteSet(T) /\ Planned(T) \in Nat /\ Planned(S) \in Nat /\ Planned(T) <= Planned(S)
<1> DEFINE A == S \ {p}
<1>1. p \in Pictures /\ {p} \in SUBSET S
  OBVIOUS
<1>2. IsFiniteSet(A) /\ Planned(S) = Planned(A) + Planned({p})
      /\ Planned(A) \in Nat /\ Planned({p}) \in Nat
  BY <1>1, HeapSplit DEF Planned
<1>3. Planned({p}) = Planned({q})
  <2>1. Sizes[p] = Sizes[q] /\ Sizes[p] \in Nat
    BY <1>1, PictureFacts
  <2>2. Planned({p}) = AtMost(Sizes[p], Largest) /\ Planned({q}) = AtMost(Sizes[q], Largest)
    BY <2>1, HeapOne DEF Planned
  <2> QED
    BY <2>1, <2>2
<1>4. A \in SUBSET Pictures
  OBVIOUS
<1> HIDE DEF A
<1> DEFINE B == A \cup {q}
<1>5. IsFiniteSet(B) /\ {q} \in SUBSET B /\ B \ {q} \in SUBSET A /\ T \in SUBSET B
      /\ B \in SUBSET Pictures
  BY <1>2, <1>4, FS_AddElement DEF A
<1>6. Planned(B) = Planned(B \ {q}) + Planned({q}) /\ Planned(B \ {q}) \in Nat
  BY <1>5, HeapSplit DEF Planned
<1>7. \A f \in B : Sizes[f] \in Nat /\ Sizes[f] <= Sizes[f]
  BY <1>5, PictureFacts
<1>8. Planned(B \ {q}) <= Planned(A)
  <2>1. \A f \in B \ {q} : Sizes[f] \in Nat /\ Sizes[f] <= Sizes[f]
    BY <1>7
  <2> HIDE DEF B
  <2> QED
    BY <1>2, <1>5, <2>1, HeapLess DEF Planned
<1>9. Planned(T) <= Planned(B) /\ Planned(T) \in Nat /\ Planned(B) \in Nat
  <2>1. \A f \in T : Sizes[f] \in Nat /\ Sizes[f] <= Sizes[f]
    BY <1>5, <1>7
  <2> HIDE DEF B
  <2> QED
    BY <1>5, <2>1, HeapLess DEF Planned
<1>10. IsFiniteSet(T)
  BY <1>5, FS_Subset
<1> HIDE DEF B
<1> QED
  BY <1>2, <1>3, <1>6, <1>8, <1>9, <1>10

\* The photo is whole, or the short write is removed or left.
LEMMA CloseFileKeeps ==
    ASSUME CardInv, NEW c \in Cameras, CloseFile(c)
    PROVE  CardInv'
<1> DEFINE p == job[c].photo
<1>1. /\ StoreTypes /\ faults \in Nat /\ Writes(c)
      /\ UNCHANGED <<sdOn, ownDays, clock, photos, setBack>> /\ photos \in Nat
      /\ c \in Tasks /\ IsFiniteSet(files) /\ files \subseteq Pictures
  BY StoreFacts DEF CardInv, StoreTypes, CloseFile, Writes
<1>2. p \in Pictures /\ p.camera = c /\ p.kept = 0 /\ p \in files
  BY <1>1 DEF CardInv, StoreTypes, OneWriter
<1>3. \A d \in Cameras : d # c => ~Writes(d)
  BY <1>1 DEF CardInv, OneWriter
<1>4. p.size \in Nat /\ p.size <= Largest /\ p.size >= 1 /\ Free \in Int
  <2>1. Bytes(files) \in Nat
    BY <1>1, BytesAreKept, HeapFinite
  <2> QED
    BY <1>2, <2>1, PictureFacts, SizeFacts, Numbers DEF Free
<1>5. Roomy /\ ~(p.size <= Free) => faults > 0
  <2>1. Roomy /\ faults = 0 => p.size <= Free
    BY <1>2, PhotoFits
  <2> QED
    BY <1>1, <2>1
<1>6. PICK next \in {Idle, [pc |-> "failed"]}, kept \in 0..p.size :
        /\ files' = Stored(p, kept) \/ files' = files \ {p}
        /\ Goes(c, next)
        /\ faults' \in Nat /\ faults <= faults'
        /\ Roomy /\ next.pc = "failed" => faults' > 0
        /\ files' = files \ {p} \/ kept = p.size \/ faults < faults'
  <2>1. CASE files' = Stored(p, p.size) /\ Goes(c, Idle) /\ faults' = faults
    <3>1. p.size \in 0..p.size /\ Idle.pc # "failed"
      BY <1>4 DEF Idle
    <3> QED
      BY <1>1, <2>1, <3>1
  <2>2. CASE /\ Faults(IF p.size <= Free THEN 1 ELSE 0)
             /\ files' = AfterShortWrite(p)
             /\ Goes(c, [pc |-> "failed"])
    <3>1. faults' \in Nat /\ faults <= faults' /\ (Roomy => faults' > 0)
      BY <1>1, <1>5, <2>2 DEF Faults
    <3>2. p.size \in 0..p.size /\ files' = files \ {p}
      BY <1>4, <2>2 DEF AfterShortWrite
    <3> QED
      BY <2>2, <3>1, <3>2
  <2>3. ASSUME NEW kept \in 0..AtMost(p.size - 1, Free), files' = Stored(p, kept),
               Faults(IF p.size <= Free THEN 2 ELSE 1), Goes(c, [pc |-> "failed"])
        PROVE  \E next \in {Idle, [pc |-> "failed"]}, k \in 0..p.size :
                 /\ files' = Stored(p, k) \/ files' = files \ {p}
                 /\ Goes(c, next)
                 /\ faults' \in Nat /\ faults <= faults'
                 /\ Roomy /\ next.pc = "failed" => faults' > 0
                 /\ files' = files \ {p} \/ k = p.size \/ faults < faults'
    <3>1. faults' \in Nat /\ faults < faults' /\ faults <= faults' /\ faults' > 0
      BY <1>1, <2>3 DEF Faults
    <3>2. kept \in 0..p.size
      BY <1>4, <2>3 DEF AtMost
    <3> QED
      BY <2>3, <3>1, <3>2
  <2> QED
    BY <2>1, <2>2, <2>3 DEF CloseFile
<1>7. /\ DOMAIN job' = Tasks /\ job'[c] = next /\ next.pc \in {"idle", "failed"}
      /\ \A u \in Tasks : u # c => job'[u] = job[u]
  BY <1>1, <1>6, GoesFacts DEF Idle
<1>8. /\ \A t \in Tasks : Waits(t)' => Waits(t) /\ job'[t] = job[t] /\ t # c
      /\ \A t \in Tasks : ~Writes(t)'
      /\ job'["viewer"] = job["viewer"] /\ job'["loop"] = job["loop"]
      /\ Roomy => \A t \in Tasks : job'[t].pc = "failed" => job[t].pc = "failed" \/ faults' > 0
  <2>1. \A t \in Tasks : t # c => ~Writes(t)
    BY <1>1, <1>3 DEF StoreTypes
  <2>2. \A t \in Tasks : ~Writes(t)'
    BY <1>7, <2>1 DEF Writes
  <2>3. \A t \in Tasks : Waits(t)' => Waits(t) /\ job'[t] = job[t] /\ t # c
    BY <1>7 DEF Waits
  <2>4. job'["viewer"] = job["viewer"] /\ job'["loop"] = job["loop"]
    BY <1>7, StoreFacts
  <2>5. Roomy => \A t \in Tasks : job'[t].pc = "failed" => job[t].pc = "failed" \/ faults' > 0
    BY <1>6, <1>7
  <2> QED
    BY <2>2, <2>3, <2>4, <2>5
<1> DEFINE q == [p EXCEPT !.kept = kept]
<1>9. /\ q \in Pictures /\ q.camera = c /\ q.kept = kept /\ q.id = p.id /\ q.time = p.time
      /\ q.size = p.size
  <2>1. p \in Records /\ kept \in 0..Largest /\ kept <= p.size /\ Smallest <= p.size
    <3>1. p.camera \in Cameras
      BY <1>2
    <3>2. p \in Records /\ Smallest <= p.size
      BY <1>2, <3>1 DEF Pictures
    <3>3. kept \in 0..Largest /\ kept <= p.size
      BY <1>4, SizeFacts
    <3> QED
      BY <3>2, <3>3
  <2>2. q \in Records /\ q.camera = c /\ q.kept = kept /\ q.id = p.id /\ q.time = p.time
        /\ q.size = p.size
    BY <1>2, <2>1 DEF Records
  <2> QED
    BY <2>1, <2>2 DEF Pictures
<1> HIDE DEF q
<1>10. /\ files' \subseteq (files \ {p}) \cup {q} /\ files \ {p} \subseteq files'
       /\ files' # files \ {p} => q \in files' /\ (kept = p.size \/ faults < faults')
  BY <1>6 DEF Stored, q
<1>11. /\ Of(c)' \subseteq (Of(c) \ {p}) \cup {q} /\ files' \ Of(c)' = files \ Of(c) /\ p \in Of(c)
  BY <1>2, <1>9, <1>10 DEF Of
<1> HIDE DEF p
<1>12. /\ IsFiniteSet(files') /\ IsFiniteSet(Of(c)) /\ Cardinality(Of(c)) \in Nat
       /\ Of(c) \in SUBSET Pictures
  <2>1. files' \in SUBSET ((files \ {p}) \cup {q}) /\ IsFiniteSet((files \ {p}) \cup {q})
    BY <1>1, <1>2, <1>10, FS_Difference, FS_RemoveElement, FS_AddElement
  <2>2. Of(c) \subseteq files
    BY DEF Of
  <2> QED
    BY <1>1, <2>1, <2>2, FilesFinite, FS_Subset
<1>13. Cardinality(Of(c)') <= Cap + faults'
  <2>1. Cardinality({p}) = 1 /\ {p} \subseteq Of(c)
    BY <1>11, FS_Singleton
  <2>2. /\ IsFiniteSet((Of(c) \ {p}) \cup {q})
        /\ Cardinality((Of(c) \ {p}) \cup {q}) \in Nat
        /\ Cardinality((Of(c) \ {p}) \cup {q}) <= Cardinality(Of(c)) - 1 + 1
    BY <1>12, <2>1, RemovedAdded
  <2>3. /\ Cardinality(Of(c)') \in Nat
        /\ Cardinality(Of(c)') <= Cardinality((Of(c) \ {p}) \cup {q})
    <3>1. Of(c)' \in SUBSET ((Of(c) \ {p}) \cup {q})
      BY <1>11
    <3> QED
      BY <2>2, <3>1, FS_Subset, FS_CardinalityType
  <2>4. Cardinality(Of(c)) <= Cap + faults
    BY DEF CardInv, RoomLeft
  <2> QED
    BY <1>1, <1>6, <1>12, <2>2, <2>3, <2>4, Numbers
<1>14. RoomFor(Planned(Of(c)), Planned(Of(c)'), Planned(files'),
               Largest * faults, Largest * (faults' - faults))
  <2>1. Of(c)' \in SUBSET ((Of(c) \ {p}) \cup {q})
    BY <1>11
  <2>2. /\ Planned(Of(c)') \in Nat /\ Planned(Of(c)) \in Nat
        /\ Planned(Of(c)') <= Planned(Of(c))
    BY <1>9, <1>11, <1>12, <2>1, SamePlan
  <2>3. Largest * (faults' - faults) \in Nat
    BY <1>1, <1>6, FaultSpace
  <2> QED
    BY <2>2, <2>3 DEF RoomFor
<1>15. InOrder(c)'
  <2>1. /\ InOrder(c) /\ \A f \in Of(c) : f # p => Precedes(f, p)
        /\ p.id <= photos /\ (~setBack => p.time <= Now) /\ Now' = Now
    BY <1>1, <1>11, ClockStays DEF CardInv, TakenInOrder, InOrder, p
  <2>2. \A f \in Of(c)' : f = q \/ (f \in Of(c) /\ f # p)
    BY <1>11
  <2>3. \A f \in Of(c)' : f # q => Precedes(f, q)
    BY <1>9, <2>1, <2>2 DEF Precedes
  <2>4. \A f, g \in Of(c)' : f # g => Precedes(f, g) \/ Precedes(g, f)
    BY <2>1, <2>2, <2>3 DEF InOrder
  <2>5. \A f \in Of(c)' : f.id <= photos /\ (~setBack => f.time <= Now)
    BY <1>9, <2>1, <2>2 DEF InOrder
  <2>6. ~Waits(c)' /\ ~Writes(c)'
    BY <1>1, <1>8
  <2> QED
    BY <1>1, <2>1, <2>4, <2>5, <2>6 DEF InOrder, Precedes
<1>16. TakenInOrder' /\ RoomLeft'
  <2>1. \A u \in Tasks : u # c /\ Takes(u)' => job'[u] = job[u]
    BY <1>7
  <2> QED
    BY <1>1, <1>6, <1>11, <1>12, <1>13, <1>14, <1>15, <2>1, FilesOfOne
<1>17. StoreTypes'
  <2>1. \A u \in Tasks : Waits(u)' => u \in Cameras /\ job'[u].id \in 1..photos'
    BY <1>1, <1>8 DEF StoreTypes
  <2>2. files' \subseteq Pictures
    BY <1>1, <1>9, <1>10
  <2> QED
    BY <1>1, <1>6, <1>7, <1>8, <1>12, <2>1, <2>2 DEF StoreTypes
<1>18. OneWriter'
  BY <1>8, StoreFacts DEF OneWriter
<1>19. FaultsOnly'
  <2>1. \A f \in files' : f # q /\ f \in Cut' => f \in Cut
    <3> SUFFICES ASSUME NEW f \in files', f # q, f \in Cut' PROVE f \in Cut
      OBVIOUS
    <3>1. f \in files /\ f # p /\ f.kept < f.size
      BY <1>10 DEF Cut
    <3>2. \A d \in Cameras : Writes(d) => job[d].photo # f
      BY <1>3, <3>1 DEF p
    <3> QED
      BY <3>1, <3>2 DEF Cut
  <2>2. Cut' \subseteq files'
    BY DEF Cut
  <2>3. \/ Cut' \subseteq Cut /\ faults <= faults'
        \/ faults < faults' /\ \E x : Cut' \subseteq Cut \cup {x}
    <3>1. CASE faults < faults'
      BY <2>1, <2>2, <3>1
    <3>2. CASE ~(faults < faults')
      <4>1. files' = files \ {p} \/ kept = p.size
        BY <1>10, <3>2
      <4>2. CASE kept = p.size
        <5>1. ~(q.kept < q.size)
          BY <1>4, <1>9, <4>2 DEF p
        <5>2. q \notin Cut'
          BY <5>1 DEF Cut
        <5> QED
          BY <1>6, <2>1, <2>2, <5>2
      <4>3. CASE files' = files \ {p} /\ kept # p.size
        <5>1. q \in Cut' => q \in Cut
          <6> SUFFICES ASSUME q \in Cut' PROVE q \in Cut
            OBVIOUS
          <6>1. q \in files /\ q # p /\ q.kept < q.size
            BY <4>3 DEF Cut
          <6>2. \A d \in Cameras : Writes(d) => job[d].photo # q
            BY <1>3, <6>1 DEF p
          <6> QED
            BY <6>1, <6>2 DEF Cut
        <5> QED
          BY <1>6, <2>1, <2>2, <5>1
      <4> QED
        BY <4>1, <4>2, <4>3
    <3> QED
      BY <3>1, <3>2
  <2>4. Cardinality(Cut) <= faults /\ FaultsOnly
    BY DEF CardInv, FaultsOnly
  <2>5. Cardinality(Cut') <= faults'
    BY <1>1, <1>6, <2>3, <2>4, CutStays
  <2> QED
    BY <1>1, <1>6, <1>8, <2>4, <2>5, FailuresStay
<1> QED
  BY <1>16, <1>17, <1>18, <1>19 DEF CardInv

-----------------------------------------------------------------------------
(***************************************************************************)
(* The invariant holds                                                     *)
(***************************************************************************)
\* As many photos as there are numbers, at most.
LEMMA Numbered ==
    ASSUME NEW n \in Nat, NEW S, NEW photo, photo \in [1..n -> S],
           S = {photo[i] : i \in 1..n}
    PROVE  IsFiniteSet(S) /\ Cardinality(S) \in Nat /\ Cardinality(S) <= n
<1>1. IsFiniteSet(1..n) /\ Cardinality(1..n) \in Nat /\ Cardinality(1..n) <= n
  <2>1. 1 \in Int /\ n \in Int /\ (1 > n => n = 0)
    OBVIOUS
  <2>2. IsFiniteSet(1..n) /\ Cardinality(1..n) = IF 1 > n THEN 0 ELSE n - 1 + 1
    BY <2>1, FS_Interval
  <2> QED
    BY <2>1, <2>2
<1>2. photo \in Surjection(1..n, S)
  BY DEF Surjection
<1>3. IsFiniteSet(S) /\ Cardinality(S) <= Cardinality(1..n)
  BY <1>1, <1>2, FS_Surjection
<1>4. Cardinality(S) \in Nat
  BY <1>3, FS_CardinalityType
<1> QED
  BY <1>1, <1>3, <1>4

\* The photos of earlier boots.
LEMMA OrphanFacts ==
    /\ IsFiniteSet(Orphans) /\ Orphans \subseteq Pictures
    /\ \A f \in Orphans : f.camera = Gone /\ f.size = 1 /\ f.kept = 1
<1> DEFINE n == Card - Reserve
           photo == [i \in 1..n |->
                       [camera |-> Gone, id |-> -i, time |-> None, size |-> 1, kept |-> 1]]
<1>1. n \in Nat
  BY Numbers
<1>2. photo \in [1..n -> Orphans] /\ Orphans = {photo[i] : i \in 1..n}
  BY DEF Orphans
<1>3. IsFiniteSet(Orphans)
  <2> HIDE DEF photo, n
  <2> QED
    BY <1>1, <1>2, Numbered
<1>4. \A f \in Orphans : f.camera = Gone /\ f.size = 1 /\ f.kept = 1
  BY DEF Orphans
<1>5. Orphans \subseteq Pictures
  <2> SUFFICES ASSUME NEW i \in 1..n
               PROVE  photo[i] \in Pictures
    BY <1>2
  <2>1. -i \in Int /\ 1 \in 1..Largest /\ 1 \in 0..Largest /\ None \in Times
    BY <1>1, SizeFacts DEF Times
  <2>2. photo[i] = [camera |-> Gone, id |-> -i, time |-> None, size |-> 1, kept |-> 1]
    OBVIOUS
  <2> HIDE DEF photo, n
  <2> QED
    BY <2>1, <2>2, StoreFacts DEF Pictures, Records
<1> QED
  BY <1>3, <1>4, <1>5

LEMMA LeftFacts ==
    ASSUME NEW own \in Cameras
    PROVE  /\ IsFiniteSet(Left(own)) /\ Left(own) \subseteq Pictures
           /\ Cardinality(Left(own)) \in Nat /\ Cardinality(Left(own)) <= Cap
           /\ \A f \in Left(own) : /\ f.camera = own /\ f.size = f.kept
                                   /\ f.time = None /\ f.id < 0
           /\ \A f, g \in Left(own) : f # g => f.id # g.id
<1> DEFINE n == Before
           photo == [i \in 1..n |->
                       [camera |-> own, id |-> -i, time |-> None,
                        size |-> Smallest, kept |-> Smallest]]
<1>1. n \in Nat /\ n <= Cap
  BY StoreAssumption
<1>2. photo \in [1..n -> Left(own)] /\ Left(own) = {photo[i] : i \in 1..n}
  BY DEF Left
<1>3. /\ IsFiniteSet(Left(own)) /\ Cardinality(Left(own)) \in Nat
      /\ Cardinality(Left(own)) <= Cap
  <2> HIDE DEF photo, n
  <2>1. /\ IsFiniteSet(Left(own)) /\ Cardinality(Left(own)) \in Nat
        /\ Cardinality(Left(own)) <= n
    BY <1>1, <1>2, Numbered
  <2> QED
    BY <1>1, <2>1, Numbers
<1>4. Left(own) \subseteq Pictures
  <2> SUFFICES ASSUME NEW i \in 1..n
               PROVE  photo[i] \in Pictures
    BY <1>2
  <2>1. -i \in Int /\ Smallest \in 1..Largest /\ Smallest \in 0..Largest /\ None \in Times
        /\ Smallest <= Smallest
    BY <1>1, SizeFacts DEF Times
  <2>2. photo[i] = [camera |-> own, id |-> -i, time |-> None,
                    size |-> Smallest, kept |-> Smallest]
    OBVIOUS
  <2> HIDE DEF photo, n
  <2> QED
    BY <2>1, <2>2 DEF Pictures, Records
<1>5. \A f \in Left(own) : \E i \in 1..n :
        f = [camera |-> own, id |-> -i, time |-> None, size |-> Smallest, kept |-> Smallest]
  BY <1>2
<1>6. /\ \A f \in Left(own) : f.camera = own /\ f.size = f.kept /\ f.time = None /\ f.id < 0
      /\ \A f, g \in Left(own) : f # g => f.id # g.id
  <2>1. \A f \in Left(own) : /\ f.camera = own /\ f.size = f.kept /\ f.time = None
                             /\ \E i \in 1..n : f.id = -i
    BY <1>5
  <2>2. \A f \in Left(own) : f.id < 0
    BY <1>1, <2>1
  <2>3. \A f, g \in Left(own) : f.id = g.id => f = g
    <3> SUFFICES ASSUME NEW f \in Left(own), NEW g \in Left(own), f.id = g.id PROVE f = g
      OBVIOUS
    <3>1. PICK i \in 1..n :
             f = [camera |-> own, id |-> -i, time |-> None, size |-> Smallest, kept |-> Smallest]
      BY <1>5
    <3>2. PICK j \in 1..n :
             g = [camera |-> own, id |-> -j, time |-> None, size |-> Smallest, kept |-> Smallest]
      BY <1>5
    <3>3. -i = -j
      BY <3>1, <3>2
    <3> QED
      BY <3>1, <3>2, <3>3
  <2> QED
    BY <2>1, <2>2, <2>3
<1> QED
  BY <1>3, <1>4, <1>6

\* What is on the card at first is whole, and leaves the reserve.
LEMMA CardInit == Init => CardInv
<1> SUFFICES ASSUME Init PROVE CardInv
  OBVIOUS
<1>1. PICK own \in Cameras :
        /\ files \in {{}, Orphans, Left(own)} /\ Free >= Reserve
        /\ ownDays = [c \in Cameras |-> IF c = own THEN GlobalDays + 1 ELSE 0]
  BY DEF Init
<1>2. /\ sdOn = TRUE /\ photos = 0 /\ faults = 0 /\ setBack = FALSE
      /\ job = [t \in Tasks |-> Idle] /\ clock = [time |-> 0, set |-> FALSE]
  BY DEF Init
<1>3. /\ files \subseteq Pictures /\ IsFiniteSet(files)
      /\ \A f \in files : f.kept = f.size
  <2>1. CASE files = {}
    BY <2>1, FS_EmptySet
  <2>2. CASE files = Orphans
    BY <2>2, OrphanFacts
  <2>3. CASE files = Left(own)
    BY <2>3, LeftFacts
  <2> QED
    BY <1>1, <2>1, <2>2, <2>3
<1>4. \A c \in Cameras : /\ Cardinality(Of(c)) <= Cap
                         /\ \A f \in Of(c) : f.time = None /\ f.id < 0
                         /\ \A f, g \in Of(c) : f # g => f.id # g.id
  <2> SUFFICES ASSUME NEW c \in Cameras
               PROVE  /\ Cardinality(Of(c)) <= Cap
                      /\ \A f \in Of(c) : f.time = None /\ f.id < 0
                      /\ \A f, g \in Of(c) : f # g => f.id # g.id
    OBVIOUS
  <2>1. CASE files \in {{}, Orphans}
    <3>1. Of(c) = {}
      BY <2>1, OrphanFacts, StoreFacts DEF Of
    <3>2. Cardinality(Of(c)) = 0
      BY <3>1, FS_EmptySet
    <3> QED
      BY <3>1, <3>2, Numbers
  <2>2. CASE files = Left(own)
    <3>1. Of(c) \in SUBSET Left(own)
      BY <2>2 DEF Of
    <3>2. Cardinality(Of(c)) \in Nat /\ Cardinality(Of(c)) <= Cardinality(Left(own))
      BY <3>1, LeftFacts, FS_Subset, FS_CardinalityType
    <3>3. Cardinality(Left(own)) \in Nat /\ Cardinality(Left(own)) <= Cap
      BY LeftFacts
    <3>4. Cardinality(Of(c)) <= Cap
      BY <3>2, <3>3, Numbers
    <3> QED
      BY <3>1, <3>4, LeftFacts
  <2> QED
    BY <1>1, <2>1, <2>2
<1>5. DOMAIN job = Tasks /\ \A t \in Tasks : job[t].pc = "idle"
  BY <1>2 DEF Idle
<1>6. StoreTypes
  <2>1. clock \in [time : Nat, set : BOOLEAN]
    BY <1>2
  <2>2. ownDays \in [Cameras -> Nat]
    BY <1>1, StoreAssumption
  <2> QED
    BY <1>2, <1>3, <1>5, <2>1, <2>2, StoreFacts DEF StoreTypes, Waits, Writes
<1>7. OneWriter
  BY <1>5, StoreFacts DEF OneWriter, Writes
<1>8. TakenInOrder
  <2> SUFFICES ASSUME NEW c \in Cameras PROVE InOrder(c)
    BY DEF TakenInOrder
  <2>1. Now = None
    BY <1>2 DEF Now
  <2>2. \A f \in Of(c) : f.id \in Int /\ f.id < 0 /\ f.time = None
    <3>1. \A f \in Of(c) : f \in Pictures
      BY <1>3 DEF Of
    <3> QED
      BY <1>4, <3>1, PictureFacts
  <2>3. \A f, g \in Of(c) : f # g => Precedes(f, g) \/ Precedes(g, f)
    <3> SUFFICES ASSUME NEW f \in Of(c), NEW g \in Of(c), f # g
                 PROVE  Precedes(f, g) \/ Precedes(g, f)
      OBVIOUS
    <3>1. f.id # g.id /\ f.id \in Int /\ g.id \in Int /\ f.time = None /\ g.time = None
      BY <1>4, <2>2
    <3>2. f.id < g.id \/ g.id < f.id
      BY <3>1
    <3>3. f.time <= g.time /\ g.time <= f.time
      BY <3>1, StoreFacts
    <3> QED
      BY <3>2, <3>3 DEF Precedes
  <2>4. \A f \in Of(c) : f.id <= photos /\ (~setBack => f.time <= Now)
    BY <1>2, <2>1, <2>2, StoreFacts
  <2>5. ~Waits(c) /\ ~Writes(c)
    BY <1>5, StoreFacts DEF Waits, Writes
  <2> QED
    BY <2>3, <2>4, <2>5 DEF InOrder
<1>9. RoomLeft
  <2>1. Planned(files) = Bytes(files) /\ Planned(files) \in Nat
    <3>1. Under(files, Sizes) = Under(files, Kept)
      <4>1. \A f \in files : Sizes[f] = Kept[f]
        BY <1>3, PictureFacts
      <4> QED
        BY <4>1 DEF Under
    <3> QED
      BY <1>3, <3>1, BytesAreKept, HeapFinite DEF Planned, Heap
  <2>2. Share \in Nat /\ Largest * faults = 0
    BY <1>2, StoreFacts, SizeFacts, HeapFinite DEF Share
  <2>3. Planned(files) <= Card - Reserve + Share + Largest * faults
    BY <1>1, <2>1, <2>2, Numbers DEF Free
  <2>4. \A c \in Cameras : Cardinality(Of(c)) <= Cap + faults
    BY <1>2, <1>4, Numbers
  <2> QED
    BY <2>3, <2>4 DEF RoomLeft
<1>10. FaultsOnly
  <2>1. Cut = {}
    <3>1. \A f \in files : ~(f.kept < f.size)
      BY <1>3, PictureFacts, SizeFacts
    <3> QED
      BY <3>1 DEF Cut
  <2>2. Cardinality(Cut) = 0
    BY <2>1, FS_EmptySet
  <2> QED
    BY <1>2, <1>5, <2>2 DEF FaultsOnly
<1> QED
  BY <1>6, <1>7, <1>8, <1>9, <1>10 DEF CardInv

LEMMA NextKeepsCard ==
    ASSUME CardInv, [Next]_vars
    PROVE  CardInv'
<1>1. CASE UNCHANGED vars
  <2>1. /\ UNCHANGED <<files, photos, ownDays, clock, setBack, job, sdOn, faults>>
        /\ StoreTypes /\ faults \in Nat
    BY <1>1 DEF vars, CardInv, StoreTypes
  <2>2. clock' \in [time : Nat, set : BOOLEAN] /\ setBack' \in BOOLEAN /\ Onward
    BY <2>1, ClockStays
  <2>3. /\ DOMAIN job' = Tasks /\ faults' \in Nat /\ faults <= faults'
        /\ job'["loop"].pc = "sweep" =>
               job'["loop"] \in Sweeps /\ (~setBack' => job'["loop"].today <= clock'.time)
        /\ job'["viewer"].pc = "ask" => job'["viewer"].age \in Nat
    BY <2>1 DEF StoreTypes
  <2> QED
    BY <2>1, <2>2, <2>3, QuietKeeps
<1>2. CASE \E c \in Cameras : Snapshot(c)
  BY <1>2, SnapshotCard
<1>3. CASE \E c \in Cameras : OpenFile(c)
  BY <1>3, OpenFileKeeps
<1>4. CASE \E c \in Cameras : CloseFile(c)
  BY <1>4, CloseFileKeeps
<1>5. CASE \E c \in Cameras : ShowGallery(c) \/ Sweep(c)
  BY <1>5, ShowGalleryKeeps, SweepKeeps
<1>6. CASE \E t \in Tasks : MarkFailed(t)
  BY <1>6, MarkFailedKeeps
<1>7. CASE ReadPhoto \/ EraseAll \/ BeginSweep \/ AppendFails
  BY <1>7, ReadPhotoKeeps, EraseAllKeeps, LoopTasksKeep
<1>8. CASE Reset \/ ClockSet \/ TimePasses \/ ClockSetBack
  BY <1>8, ResetKeeps, ClockKeeps
<1> QED
  BY <1>1, <1>2, <1>3, <1>4, <1>5, <1>6, <1>7, <1>8 DEF Next

\* What the card holds, in every reachable state.
THEOREM CardInvariant == Spec => []CardInv
BY CardInit, NextKeepsCard, PTL DEF Spec

\* Each camera keeps to its cap, and all to the reserve but for the largest photo
\* of each and one for every fault (ensureDirAndPrune).
THEOREM CardStaysBounded == Spec => []CardBounded
<1>1. CardInv => CardBounded
  <2> SUFFICES ASSUME CardInv PROVE CardBounded
    OBVIOUS
  <2>1. IsFiniteSet(files) /\ files \subseteq Pictures /\ RoomLeft /\ faults \in Nat
    BY DEF CardInv, StoreTypes
  <2>2. ASSUME SizesAlike PROVE Free >= Reserve - Largest * (Cardinality(Filled) + faults)
    <3>1. Planned(files) <= Card - Reserve + Share + Largest * faults
      BY <2>1, <2>2 DEF RoomLeft
    <3>2. Bytes(files) <= Planned(files) /\ Bytes(files) \in Nat /\ Planned(files) \in Nat
      <4>1. \A f \in files : Sizes[f] \in Nat /\ Kept[f] \in Nat /\ Kept[f] <= Sizes[f]
        BY <2>1, PictureFacts
      <4>2. Heap(files, Kept) <= Heap(files, Sizes)
            /\ Heap(files, Kept) \in Nat /\ Heap(files, Sizes) \in Nat
        BY <2>1, <4>1, HeapLess
      <4> QED
        BY <2>1, <4>2, BytesAreKept DEF Planned
    <3>3. Share <= Cardinality(Filled) * Largest /\ Share \in Nat
      <4>1. \A c \in Cameras \ Filled : PlannedOf[c] = 0
        <5> SUFFICES ASSUME NEW c \in Cameras \ Filled PROVE Planned(Of(c)) = 0
          BY DEF PlannedOf
        <5>1. Of(c) = {} /\ Under({}, Sizes) = {}
          BY DEF Filled, Under
        <5> QED
          BY <5>1, FS_EmptySet DEF Planned, Heap
      <4>2. Under(Cameras, PlannedOf) = Under(Filled, PlannedOf)
        <5>1. \A i \in 1..Largest : ~(i <= 0)
          BY SizeFacts
        <5>2. Filled \subseteq Cameras
          BY DEF Filled
        <5> QED
          BY <4>1, <5>1, <5>2 DEF Under
      <4>3. Share = Heap(Filled, PlannedOf)
        BY <4>2 DEF Share, Heap
      <4> QED
        BY <2>1, <4>3, FilesFinite, HeapBounds, HeapFinite
    <3>4. /\ Cardinality(Filled) * Largest \in Nat /\ Largest * faults \in Nat
          /\ Largest * (Cardinality(Filled) + faults) = Cardinality(Filled) * Largest + Largest * faults
      <4>1. Cardinality(Filled) \in Nat /\ Largest \in Nat
        BY <2>1, FilesFinite, SizeFacts
      <4> QED
        BY <2>1, <4>1
    <3> QED
      BY <3>1, <3>2, <3>3, <3>4, Numbers DEF Free
  <2> QED
    BY <2>1, <2>2 DEF CardBounded, RoomLeft, Filled
<1> QED
  BY <1>1, CardInvariant, PTL

\* SD is given up only after a fault (readSdSnapshot, writeSdSnapshot).
THEOREM SdOffOnlyByFault == Spec => []OffOnlyByFault
<1>1. CardInv => OffOnlyByFault
  <2> SUFFICES ASSUME CardInv, Roomy PROVE sdOn \/ faults > 0
    BY DEF OffOnlyByFault, Roomy
  <2> QED
    BY DEF CardInv, FaultsOnly
<1> QED
  BY <1>1, CardInvariant, PTL

\* Of two photos of a camera, the one not named later was taken earlier, as long
\* as the clock goes on and tells them apart.
LEMMA NamesInOrder ==
    ASSUME CardInv, ~setBack, NEW c \in Cameras, NEW f \in Of(c), NEW g \in Of(c),
           f # g, f.time <= g.time
    PROVE  f.time = g.time \/ f.id < g.id
<1>1. f \in Pictures /\ g \in Pictures
  BY DEF CardInv, StoreTypes, Of
<1>2. f.time \in Int /\ g.time \in Int
  BY <1>1, PictureFacts
<1>3. Precedes(f, g) \/ Precedes(g, f)
  BY DEF CardInv, TakenInOrder, InOrder
<1> QED
  BY <1>2, <1>3 DEF Precedes

\* A write and a sweep take the photos named first, a sweep only those that are
\* older than the camera keeps them (ensureDirAndPrune, enforceSnapshotRetention).
THEOREM OldestPhotosGo == Spec => DeletionsAreOld
<1> DEFINE
      First(f) == \A g \in files \cap files' : g.camera = f.camera =>
                    f.time <= g.time /\ (~setBack => f.time = g.time \/ f.id < g.id)
      Due(f) == job["loop"] # job'["loop"] /\ ~setBack /\ f.time # None =>
                  f.time < clock.time - EffectiveDays(f.camera)
      OldestGo == \A f \in files : (f \notin files' /\ f.kept > 0 /\ faults' = faults) =>
         /\ \A g \in files \cap files' : g.camera = f.camera =>
                f.time <= g.time /\ (~setBack => f.time = g.time \/ f.id < g.id)
         /\ job["loop"] # job'["loop"] /\ ~setBack /\ f.time # None =>
                f.time < clock.time - EffectiveDays(f.camera)
<1>1. CardInv /\ [Next]_vars => [OldestGo]_vars
  <2> SUFFICES ASSUME CardInv, Next, NEW f \in files, f \notin files', f.kept > 0,
                      faults' = faults
               PROVE  First(f) /\ Due(f)
    OBVIOUS
  <2>1. StoreTypes /\ faults \in Int /\ f \in Pictures /\ files \subseteq Pictures
        /\ clock.time \in Int
    BY DEF CardInv, StoreTypes
  <2>2. \/ EraseAll
        \/ \E c \in Cameras : OpenFile(c) \/ CloseFile(c) \/ Sweep(c)
    BY DEF Next, Snapshot, ShowGallery, MarkFailed, ReadPhoto, BeginSweep, AppendFails, Reset,
       ClockSet, TimePasses, ClockSetBack
  <2>3. CASE EraseAll
    BY <2>1, <2>3 DEF EraseAll, Fault, Faults
  <2>4. ASSUME NEW c \in Cameras, CloseFile(c) PROVE FALSE
    <3>1. Writes(c) /\ c \in Tasks
      BY <2>4, StoreFacts DEF CloseFile, Writes
    <3>2. job[c].photo.kept = 0
      BY <2>1, <3>1 DEF StoreTypes
    <3>3. files \ {job[c].photo} \subseteq files'
      BY <2>4 DEF CloseFile, Stored, AfterShortWrite
    <3>4. f = job[c].photo
      BY <3>3
    <3> QED
      BY <3>2, <3>4
  <2>5. ASSUME NEW c \in Cameras, OpenFile(c)
        PROVE  First(f) /\ job["loop"] = job'["loop"]
    <3>1. Waits(c) /\ c \in Tasks /\ "loop" \in Tasks /\ "loop" # c
      BY <2>5, StoreFacts DEF OpenFile, Waits
    <3>2. PICK size \in Smallest..Largest : \E drop \in Drops(c, size) :
             /\ files' = (files \ drop) \cup {Photo(c, job[c].id, size)}
             /\ \E next : Goes(c, next)
      BY <2>1, <2>5 DEF OpenFile, Fault, Faults
    <3>3. PICK drop \in Drops(c, size) :
             /\ files' = (files \ drop) \cup {Photo(c, job[c].id, size)}
             /\ \E next : Goes(c, next)
      BY <3>2
    <3>4. job["loop"] = job'["loop"]
      BY <2>1, <3>1, <3>3, GoesFacts
    <3>5. f \in drop /\ drop \subseteq Of(c) /\ \A g \in Of(c) \ drop : f.time <= g.time
      <4>1. f \in drop
        BY <3>3
      <4> QED
        BY <4>1 DEF Drops, FirstByName
    <3>6. \A g \in Of(c) : g.id < job[c].id /\ g.id \in Int
      <4>1. \A g \in Of(c) : g \in Pictures
        BY <2>1 DEF Of
      <4> QED
        BY <3>1, <4>1, PictureFacts DEF CardInv, TakenInOrder, InOrder
    <3>7. Photo(c, job[c].id, size).id = job[c].id
      BY DEF Photo
    <3>8. ASSUME NEW g \in files \cap files', g.camera = f.camera
          PROVE  f.time <= g.time /\ (~setBack => f.time = g.time \/ f.id < g.id)
      <4>1. f \in Of(c) /\ g \in Of(c) /\ f # g
        BY <3>5, <3>8 DEF Of
      <4>2. g \notin drop
        <5>1. g # Photo(c, job[c].id, size)
          BY <3>6, <3>7, <4>1
        <5> QED
          BY <3>3, <3>8, <5>1
      <4>3. f.time <= g.time
        BY <3>5, <4>1, <4>2
      <4> QED
        BY <4>1, <4>3, NamesInOrder
    <3> QED
      BY <3>4, <3>8
  <2>6. ASSUME NEW c \in Cameras, Sweep(c)
        PROVE  First(f) /\ Due(f)
    <3> DEFINE today == job["loop"].today
               due == {h \in Of(c) : Expired(h, today)}
    <3>1. files' = files \ due
      BY <2>1, <2>6 DEF Sweep, Fault, Faults
    <3>2. /\ f \in Of(c) /\ f.camera = c /\ EffectiveDays(c) # 0
          /\ f.time = None \/ f.time < today - EffectiveDays(c)
      BY <3>1 DEF Expired, Of
    <3>3. today \in Int /\ (~setBack => today <= clock.time)
      BY <2>1, <2>6 DEF Sweep, StoreTypes, Sweeps
    <3>4. EffectiveDays(c) \in Int
      BY <2>1, StoreAssumption DEF EffectiveDays, StoreTypes
    <3>5. f.time \in Int
      BY <2>1, PictureFacts
    <3>6. Due(f)
      BY <2>1, <3>2, <3>3, <3>4, <3>5
    <3>7. ASSUME NEW g \in files \cap files', g.camera = f.camera
          PROVE  f.time <= g.time /\ (~setBack => f.time = g.time \/ f.id < g.id)
      <4>1. g \in Of(c) /\ f # g /\ g.time \in Int /\ g.time >= None
        BY <2>1, <3>2, <3>7, PictureFacts DEF Of
      <4>2. ~(g.time < today - EffectiveDays(c))
        BY <3>1, <3>2, <3>7, <4>1 DEF Expired, Of
      <4>3. f.time <= g.time
        BY <3>2, <3>3, <3>4, <3>5, <4>1, <4>2, StoreFacts
      <4> QED
        BY <3>2, <4>1, <4>3, NamesInOrder
    <3> QED
      BY <3>6, <3>7
  <2> QED
    BY <2>2, <2>3, <2>4, <2>5, <2>6
<1> QED
  BY <1>1, CardInvariant, PTL DEF Spec, DeletionsAreOld

\* The boot check reports what a reset cut short, if that is the last by name
\* (checkNewestSnapshots).
THEOREM BootReportsCut == Spec => BootSeesCut
<1>1. CardInv => [(Reset /\ sdOn' /\ ~setBack) =>
         ((\E c \in Cameras : /\ job[c].pc = "writing"
                              /\ \A g \in Of(c) \ {job[c].photo} : g.time # job[c].photo.time)
             => bootCheck' > 0)]_vars
  <2> SUFFICES ASSUME CardInv, Reset, sdOn', ~setBack, NEW c \in Cameras,
                      job[c].pc = "writing",
                      \A g \in Of(c) \ {job[c].photo} : g.time # job[c].photo.time
               PROVE  bootCheck' > 0
    OBVIOUS
  <2> DEFINE p == job[c].photo
             seen == {d \in Cameras : Of(d) # {}}
  <2>1. Writes(c) /\ c \in Tasks /\ files \subseteq Pictures
    BY StoreFacts DEF Writes, CardInv, StoreTypes
  <2>2. p \in Of(c) /\ p.kept = 0 /\ p \in Pictures
    BY <2>1 DEF CardInv, StoreTypes, OneWriter, Of
  <2>3. PICK newest \in [seen -> files] :
          /\ \A d \in seen : newest[d] \in Newest(d)
          /\ bootCheck' = Cardinality({d \in seen : newest[d].kept = 0})
    BY DEF Reset, Unreadable
  <2>4. c \in seen /\ newest[c] \in Newest(c)
    BY <2>2, <2>3
  <2>5. newest[c] = p
    <3>1. newest[c] \in Of(c) /\ p.time <= newest[c].time
      BY <2>2, <2>4 DEF Newest, LastByName
    <3>2. newest[c] = p \/ newest[c].time <= p.time
      BY <2>1, <3>1 DEF CardInv, TakenInOrder, InOrder, Precedes
    <3>3. newest[c].time \in Int /\ p.time \in Int
      BY <2>1, <2>2, <3>1, PictureFacts DEF Of
    <3>4. newest[c].time # p.time \/ newest[c] = p
      BY <3>1
    <3> QED
      BY <3>1, <3>2, <3>3, <3>4
  <2> DEFINE empty == {d \in seen : newest[d].kept = 0}
  <2>6. c \in empty /\ empty \in SUBSET Cameras
    BY <2>2, <2>4, <2>5
  <2> HIDE DEF empty
  <2>7. IsFiniteSet(empty) /\ Cardinality(empty) \in Nat /\ Cardinality(empty) # 0
    BY <2>6, StoreFacts, FS_Subset, FS_CardinalityType, FS_EmptySet
  <2>8. Cardinality(empty) > 0
    BY <2>7
  <2> QED
    BY <2>3, <2>8 DEF empty
<1> QED
  BY <1>1, CardInvariant, PTL DEF Spec, BootSeesCut
=============================================================================
