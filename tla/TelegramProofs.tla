--------------------------- MODULE TelegramProofs ---------------------------
(***************************************************************************)
(* Proofs about Telegram: RetryQueue for every capacity, age and number of *)
(* messages, CommandPoll for any users, any number of updates and failures *)
(* and any size of a batch.                                                *)
(***************************************************************************)
EXTENDS RetryQueue, CommandPoll, SequenceTheorems, TLAPS

(***************************************************************************)
(* The retry queue                                                         *)
(***************************************************************************)
\* What the queue's entries say of the messages they stand for.
QueueFaithful ==
    \A i \in DOMAIN queue :
        /\ queue[i].id < nextId
        /\ queue[i].at = stamps[queue[i].id]

\* The entry at position i has at least Len(queue) - i newer messages: this is
\* what makes an eviction from a full queue displace it fairly.
NewerBehind ==
    \A i \in DOMAIN queue : (nextId - 1) - queue[i].id >= Len(queue) - i

\* What a running flush knows about the messages it still holds.
FlushFaithful ==
    /\ flush.at <= now
    /\ \A i \in DOMAIN flush.todo :
          /\ flush.todo[i].id < nextId
          /\ flush.todo[i].at = stamps[flush.todo[i].id]
    /\ flush.step = "settle" /\ flush.delivered => Head(flush.todo).id \in accepted

StampsPast == \A i \in DOMAIN stamps : stamps[i] <= now

IInv ==
    /\ TypeOK
    /\ WithinCapacity
    /\ OldestFirst
    /\ QueueFaithful
    /\ NewerBehind
    /\ FlushFaithful
    /\ StampsPast
    /\ NoSilentLoss

-----------------------------------------------------------------------------
\* RemoveAt drops position k and closes the gap.
LEMMA RemoveAtProperties ==
    ASSUME NEW S, NEW q \in Seq(S), NEW k \in DOMAIN q
    PROVE  /\ RemoveAt(q, k) \in Seq(S)
           /\ Len(RemoveAt(q, k)) = Len(q) - 1
           /\ \A i \in 1..(Len(q) - 1) :
                 RemoveAt(q, k)[i] = q[IF i < k THEN i ELSE i + 1]
  <1> DEFINE a == SubSeq(q, 1, k - 1)
             b == SubSeq(q, k + 1, Len(q))
  <1>1. /\ a \in Seq(S) /\ Len(a) = k - 1
        /\ \A i \in 1..(k - 1) : a[i] = q[i]
    OBVIOUS
  <1>2. /\ b \in Seq(S) /\ Len(b) = Len(q) - k
        /\ \A i \in 1..(Len(q) - k) : b[i] = q[i + k]
    OBVIOUS
  <1>3. RemoveAt(q, k) = a \o b
    BY DEF RemoveAt
  <1> HIDE DEF a, b
  <1>4. /\ a \o b \in Seq(S)
        /\ Len(a \o b) = Len(q) - 1
    BY <1>1, <1>2
  <1>5. ASSUME NEW i \in 1..(Len(q) - 1)
        PROVE  (a \o b)[i] = q[IF i < k THEN i ELSE i + 1]
    <2>1. CASE i < k
      BY <1>1, <1>2, <2>1
    <2>2. CASE ~(i < k)
      <3>1. (a \o b)[i] = b[i - Len(a)]
        BY <1>1, <1>2, <2>2
      <3>2. i - Len(a) \in 1..(Len(q) - k)
        BY <1>1, <2>2
      <3>3. b[i - Len(a)] = q[(i - Len(a)) + k]
        BY <1>2, <3>2
      <3>4. QED
        BY <1>1, <2>2, <3>1, <3>3
    <2>3. QED
      BY <2>1, <2>2
  <1>6. QED
    BY <1>3, <1>4, <1>5

\* removeById either finds nothing or drops one position that holds the id.
LEMMA RemoveByIdProperties ==
    ASSUME NEW S, NEW q \in Seq(S), NEW id
    PROVE  \/ RemoveById(q, id) = q /\ \A i \in DOMAIN q : q[i].id # id
           \/ \E k \in DOMAIN q :
                 /\ q[k].id = id
                 /\ RemoveById(q, id) \in Seq(S)
                 /\ Len(RemoveById(q, id)) = Len(q) - 1
                 /\ \A i \in 1..(Len(q) - 1) :
                       RemoveById(q, id)[i] = q[IF i < k THEN i ELSE i + 1]
  <1>1. CASE \E i \in DOMAIN q : q[i].id = id
    <2> DEFINE k == CHOOSE i \in DOMAIN q : q[i].id = id
    <2>1. k \in DOMAIN q /\ q[k].id = id
      BY <1>1
    <2>2. RemoveById(q, id) = RemoveAt(q, k)
      BY <1>1 DEF RemoveById
    <2>3. QED
      BY <2>1, <2>2, RemoveAtProperties
  <1>2. CASE ~ \E i \in DOMAIN q : q[i].id = id
    BY <1>2 DEF RemoveById
  <1>3. QED
    BY <1>1, <1>2

\* A push appends, and shifts the old entries down by one when the queue is full.
LEMMA PushProperties ==
    ASSUME NEW S, NEW q \in Seq(S), NEW m \in S, Len(q) <= Capacity
    PROVE  LET r == Push(q, m)
               d == IF Len(q) >= Capacity THEN 1 ELSE 0
           IN  /\ r \in Seq(S)
               /\ Len(r) = Len(q) - d + 1
               /\ r[Len(r)] = m
               /\ \A i \in 1..(Len(q) - d) : r[i] = q[i + d]
  BY ConstantsAssumption DEF Push

-----------------------------------------------------------------------------
LEMMA InitIInv == Init => IInv
  BY ConstantsAssumption
  DEF Init, IInv, TypeOK, WithinCapacity, OldestFirst, QueueFaithful, NewerBehind,
      FlushFaithful, StampsPast, NoSilentLoss, NoFlush, FlushSteps, Links, Entry

\* A failed broadcast preserves the invariant.
LEMMA BroadcastIInv ==
    ASSUME IInv, NEW outcome \in Outcomes, Broadcast(outcome)
    PROVE  IInv'
  <1> DEFINE m == [id |-> nextId, at |-> now]
             d == IF Len(queue) >= Capacity THEN 1 ELSE 0
  <1>1. /\ queue' = Push(queue, m)
        /\ nextId' = nextId + 1
        /\ stamps' = Append(stamps, now)
        /\ accepted' \in {accepted, accepted \cup {nextId}}
        /\ UNCHANGED <<flush, now, link>>
    BY DEF Broadcast
  <1>2. /\ queue \in Seq(Entry) /\ nextId \in Nat \ {0} /\ now \in Nat
        /\ stamps \in Seq(Nat) /\ Len(stamps) = nextId - 1
        /\ Len(queue) <= Capacity /\ m \in Entry
    BY DEF IInv, TypeOK, WithinCapacity, Entry
  <1>3. /\ queue' \in Seq(Entry)
        /\ Len(queue') = Len(queue) - d + 1
        /\ queue'[Len(queue')] = m
        /\ \A i \in 1..(Len(queue) - d) : queue'[i] = queue[i + d]
    BY <1>1, <1>2, PushProperties
  <1>4. /\ d \in {0, 1} /\ (d = 1 <=> Len(queue) >= Capacity) /\ d <= Len(queue)
        /\ Len(queue) \in Nat /\ DOMAIN queue = 1..Len(queue)
        /\ Len(queue') \in Nat /\ DOMAIN queue' = 1..Len(queue')
    BY <1>2, <1>3, ConstantsAssumption
  <1>5. /\ stamps' \in Seq(Nat) /\ Len(stamps') = nextId' - 1
        /\ stamps'[nextId] = now
        /\ \A i \in 1..(nextId - 1) : stamps'[i] = stamps[i]
    BY <1>1, <1>2
  <1> HIDE DEF m, d
  <1>6. TypeOK'
    <2>1. accepted' \subseteq 1..(nextId' - 1)
      BY <1>1, <1>2 DEF IInv, TypeOK
    <2>2. nextId' \in Nat \ {0}
      BY <1>1, <1>2
    <2>3. QED
      BY <1>1, <1>3, <1>5, <2>1, <2>2 DEF IInv, TypeOK
  <1>7. WithinCapacity'
    BY <1>2, <1>3, <1>4, ConstantsAssumption DEF WithinCapacity
  <1>8. QueueFaithful'
    <2>1. ASSUME NEW i \in 1..(Len(queue) - d)
          PROVE  queue[i + d].id \in 1..(nextId - 1) /\ queue[i + d].at = stamps[queue[i + d].id]
      <3>1. i + d \in DOMAIN queue
        BY <1>2, <1>4
      <3>2. queue[i + d] \in Entry
        BY <1>2, <3>1
      <3>3. QED
        BY <1>2, <3>1, <3>2 DEF IInv, QueueFaithful, Entry
    <2>2. ASSUME NEW i \in DOMAIN queue'
          PROVE  queue'[i].id < nextId' /\ queue'[i].at = stamps'[queue'[i].id]
      <3>1. CASE i = Len(queue')
        BY <1>1, <1>2, <1>3, <1>5, <3>1 DEF m
      <3>2. CASE i # Len(queue')
        <4>1. i \in 1..(Len(queue) - d)
          BY <1>2, <1>3, <1>4, <3>2
        <4>2. QED
          BY <1>1, <1>2, <1>3, <1>5, <2>1, <4>1
      <3>3. QED
        BY <3>1, <3>2
    <2>3. QED
      BY <2>2 DEF QueueFaithful
  <1>9. OldestFirst'
    <2> SUFFICES ASSUME NEW i \in DOMAIN queue', NEW j \in DOMAIN queue', i < j
                 PROVE  queue'[i].id < queue'[j].id /\ queue'[i].at <= queue'[j].at
      BY DEF OldestFirst
    <2>1. i \in 1..(Len(queue) - d) /\ i + d \in DOMAIN queue
      BY <1>2, <1>3, <1>4
    <2>2. queue'[i] = queue[i + d] /\ queue[i + d] \in Entry
      BY <1>2, <1>3, <2>1
    <2>3. CASE j = Len(queue')
      <3>0. queue[i + d].id \in Nat \ {0}
        BY <2>2 DEF Entry
      <3>1. queue[i + d].id \in 1..(nextId - 1) /\ queue[i + d].at = stamps[queue[i + d].id]
        BY <1>2, <2>1, <3>0 DEF IInv, QueueFaithful
      <3>2. queue[i + d].id < nextId /\ queue[i + d].at <= now
        BY <1>2, <3>1 DEF IInv, StampsPast
      <3>3. QED
        BY <1>3, <2>2, <2>3, <3>2 DEF m
    <2>4. CASE j # Len(queue')
      <3>0. j \in 1..Len(queue') /\ Len(queue') = Len(queue) - d + 1
        BY <1>3, <1>4
      <3>0a. j \in 1..(Len(queue) - d)
        BY <1>4, <2>4, <3>0
      <3>1. j \in 1..(Len(queue) - d) /\ j + d \in DOMAIN queue /\ i + d < j + d
        BY <1>4, <2>1, <3>0a
      <3>2. queue'[j] = queue[j + d]
        BY <1>3, <3>1
      <3>3. QED
        BY <2>1, <2>2, <3>1, <3>2 DEF IInv, OldestFirst
    <2>5. QED
      BY <2>3, <2>4
  <1>10. NewerBehind'
    <2> SUFFICES ASSUME NEW i \in DOMAIN queue'
                 PROVE  (nextId' - 1) - queue'[i].id >= Len(queue') - i
      BY DEF NewerBehind
    <2>1. CASE i = Len(queue')
      BY <1>1, <1>2, <1>3, <2>1 DEF m
    <2>2. CASE i # Len(queue')
      <3>1. i \in 1..(Len(queue) - d) /\ i + d \in DOMAIN queue
        BY <1>2, <1>3, <1>4, <2>2
      <3>2. queue'[i] = queue[i + d] /\ queue[i + d] \in Entry
        BY <1>2, <1>3, <3>1
      <3>2a. queue[i + d].id \in Nat
        BY <3>2 DEF Entry
      <3>3. (nextId - 1) - queue[i + d].id >= Len(queue) - (i + d)
        BY <3>1 DEF IInv, NewerBehind
      <3>4. QED
        <4> DEFINE id == queue[i + d].id
        <4>1. id \in Nat /\ queue'[i].id = id /\ (nextId - 1) - id >= Len(queue) - (i + d)
          BY <3>2, <3>2a, <3>3
        <4> HIDE DEF id
        <4>2. (nextId' - 1) - id >= Len(queue') - i
          BY <1>1, <1>2, <1>3, <1>4, <3>1, <4>1
        <4>3. QED
          BY <4>1, <4>2
    <2>3. QED
      BY <2>1, <2>2
  <1>11. FlushFaithful'
    <2>1. flush' = flush /\ now' = now /\ accepted \subseteq accepted'
      BY <1>1
    <2>2. ASSUME NEW i \in DOMAIN flush.todo
          PROVE  flush.todo[i].id < nextId' /\ flush.todo[i].at = stamps'[flush.todo[i].id]
      <3>1. flush.todo \in Seq(Entry)
        BY DEF IInv, TypeOK
      <3>1a. flush.todo[i] \in Entry
        BY <3>1
      <3>2. flush.todo[i].id \in Nat \ {0}
        BY <3>1a DEF Entry
      <3>3. flush.todo[i].id < nextId /\ flush.todo[i].at = stamps[flush.todo[i].id]
        BY DEF IInv, FlushFaithful
      <3>4. QED
        BY <1>1, <1>2, <1>5, <3>2, <3>3
    <2>3. QED
      BY <2>1, <2>2 DEF IInv, FlushFaithful
  <1>12. StampsPast'
    BY <1>1, <1>2, <1>5 DEF IInv, StampsPast
  <1>13. NoSilentLoss'
    <2> SUFFICES ASSUME NEW i \in 1..(nextId' - 1)
                 PROVE  \/ i \in Ids(queue')
                        \/ i \in accepted'
                        \/ i \in TooOld'
                        \/ (nextId' - 1) - i >= Capacity
      BY DEF NoSilentLoss, Ids
    <2>1. CASE i = nextId
      <3>1. Len(queue') \in DOMAIN queue'
        BY <1>3, <1>4
      <3>2. QED
        BY <1>3, <2>1, <3>1 DEF Ids, m
    <2>2. CASE i # nextId
      <3>1. i \in 1..(nextId - 1)
        BY <1>1, <1>2, <2>2
      <3>2. CASE i \in Ids(queue)
        <4>1. PICK k \in DOMAIN queue : queue[k].id = i
          BY <3>2 DEF Ids
        <4>2. CASE k > d
          <5>1. k - d \in 1..(Len(queue) - d) /\ k - d \in DOMAIN queue'
            BY <1>2, <1>3, <1>4, <4>2
          <5>2. queue'[k - d] = queue[(k - d) + d] /\ (k - d) + d = k
            BY <1>3, <1>4, <5>1
          <5>3. QED
            BY <4>1, <5>1, <5>2 DEF Ids
        <4>3. CASE ~(k > d)
          <5>1. k = 1 /\ Len(queue) >= Capacity
            BY <1>2, <1>4, <4>3
          <5>2. (nextId - 1) - i >= Len(queue) - 1
            BY <4>1, <5>1 DEF IInv, NewerBehind
          <5>3. QED
            BY <1>1, <1>2, <3>1, <5>1, <5>2, ConstantsAssumption
        <4>4. QED
          BY <4>2, <4>3
      <3>3. CASE i \in accepted
        BY <1>1, <3>3
      <3>4. CASE i \in TooOld
        <4>1. i \in DOMAIN stamps /\ now - stamps[i] > MaxAge
          BY <3>4 DEF TooOld
        <4>2. i \in DOMAIN stamps' /\ now' - stamps'[i] > MaxAge
          BY <1>1, <1>2, <1>5, <3>1, <4>1
        <4>3. QED
          BY <4>2 DEF TooOld
      <3>5. CASE (nextId - 1) - i >= Capacity
        BY <1>1, <1>2, <3>1, <3>5, ConstantsAssumption
      <3>6. QED
        BY <3>1, <3>2, <3>3, <3>4, <3>5 DEF IInv, NoSilentLoss
    <2>3. QED
      BY <2>1, <2>2
  <1>14. QED
    BY <1>6, <1>7, <1>8, <1>9, <1>10, <1>11, <1>12, <1>13 DEF IInv

\* The settling step of a flush preserves the invariant: it removes at most the
\* entry it attempted, and only if Telegram has it or it is too old.
LEMMA FlushSettleIInv ==
    ASSUME IInv, FlushSettle
    PROVE  IInv'
  <1> DEFINE m == Head(flush.todo)
  <1>1. /\ flush.step = "settle"
        /\ queue' = IF Settled(m) THEN RemoveById(queue, m.id) ELSE queue
        /\ flush' = IF Len(flush.todo) = 1 THEN NoFlush
                    ELSE [flush EXCEPT !.step = "send", !.todo = Tail(@), !.delivered = FALSE]
        /\ UNCHANGED <<nextId, now, link, stamps, accepted>>
    BY DEF FlushSettle
  <1>2. /\ queue \in Seq(Entry) /\ nextId \in Nat \ {0} /\ now \in Nat
        /\ stamps \in Seq(Nat) /\ Len(stamps) = nextId - 1
        /\ flush.todo \in Seq(Entry) /\ flush.todo # <<>>
        /\ flush.at \in Nat /\ flush.delivered \in BOOLEAN
        /\ flush \in [step : FlushSteps, todo : Seq(Entry), at : Nat, delivered : BOOLEAN]
    BY <1>1 DEF IInv, TypeOK
  <1>3. m \in Entry /\ 1 \in DOMAIN flush.todo /\ m = flush.todo[1]
    BY <1>2
  <1>4. m.id \in Nat \ {0} /\ m.id < nextId /\ m.at \in Nat /\ m.at = stamps[m.id]
    BY <1>3 DEF IInv, FlushFaithful, Entry
  <1>5. flush.delivered => m.id \in accepted
    BY <1>1 DEF IInv, FlushFaithful
  <1> HIDE DEF m
  <1>6. /\ flush' \in [step : FlushSteps, todo : Seq(Entry), at : Nat, delivered : BOOLEAN]
        /\ flush'.step # "idle" => flush'.todo # <<>>
        /\ FlushFaithful'
    <2>1. CASE Len(flush.todo) = 1
      BY <1>1, <1>2, <2>1 DEF NoFlush, FlushFaithful, FlushSteps
    <2>2. CASE Len(flush.todo) # 1
      <3> DEFINE t == flush.todo
      <3>0. t \in Seq(Entry) /\ t # <<>> /\ Len(t) # 1
        BY <1>2, <2>2
      <3> HIDE DEF t
      <3>1a. /\ Len(t) \in Nat /\ Len(t) > 1
             /\ Tail(t) \in Seq(Entry)
             /\ Len(Tail(t)) = Len(t) - 1
             /\ \A j \in 1..(Len(t) - 1) : Tail(t)[j] = t[j + 1]
        <4>1. Len(t) \in Nat /\ Len(t) > 1
          <5>1. Len(t) \in Nat
            BY <3>0
          <5>2. Len(t) # 0
            BY <3>0, EmptySeq
          <5>3. Len(t) # 1
            BY <3>0
          <5>4. \A n \in Nat : n # 0 /\ n # 1 => n > 1
            OBVIOUS
          <5>5. QED
            BY <5>1, <5>2, <5>3, <5>4
        <4>2. QED
          BY <3>0, <4>1, HeadTailProperties
      <3> USE DEF t
      <3>1. /\ Tail(flush.todo) \in Seq(Entry)
            /\ Len(Tail(flush.todo)) = Len(flush.todo) - 1
            /\ \A j \in 1..(Len(flush.todo) - 1) : Tail(flush.todo)[j] = flush.todo[j + 1]
            /\ Len(flush.todo) \in Nat /\ Len(flush.todo) > 1
        BY <3>1a
      <3>2. /\ flush'.step = "send" /\ flush'.todo = Tail(flush.todo) /\ flush'.at = flush.at
            /\ flush'.delivered = FALSE
            /\ flush' \in [step : FlushSteps, todo : Seq(Entry), at : Nat, delivered : BOOLEAN]
        BY <1>1, <1>2, <2>2, <3>1 DEF FlushSteps
      <3>3. flush'.todo # <<>>
        <4>1. Len(flush'.todo) > 0
          BY <3>1, <3>2
        <4>2. Len(<<>>) = 0
          OBVIOUS
        <4>3. QED
          BY <4>1, <4>2
      <3>4. ASSUME NEW j \in DOMAIN flush'.todo
            PROVE  flush'.todo[j].id < nextId /\ flush'.todo[j].at = stamps[flush'.todo[j].id]
        <4>1. j \in 1..(Len(flush.todo) - 1) /\ j + 1 \in DOMAIN flush.todo
          BY <1>2, <3>1, <3>2
        <4>2. flush'.todo[j] = flush.todo[j + 1]
          BY <3>1, <3>2, <4>1
        <4>3. QED
          BY <4>1, <4>2 DEF IInv, FlushFaithful
      <3>5. flush.at <= now
        BY DEF IInv, FlushFaithful
      <3>6. FlushFaithful'
        BY <1>1, <3>2, <3>4, <3>5 DEF FlushFaithful
      <3>7. QED
        BY <3>2, <3>3, <3>6
    <2>3. QED
      BY <2>1, <2>2
  <1>7. StampsPast'
    BY <1>1 DEF IInv, StampsPast
  <1>8. CASE queue' = queue
    <2>1. TypeOK' /\ WithinCapacity' /\ OldestFirst' /\ QueueFaithful' /\ NewerBehind'
      BY <1>1, <1>6, <1>8
      DEF IInv, TypeOK, WithinCapacity, OldestFirst, QueueFaithful, NewerBehind
    <2>2. NoSilentLoss'
      BY <1>1, <1>8 DEF IInv, NoSilentLoss, Ids, TooOld
    <2>3. QED
      BY <1>6, <1>7, <2>1, <2>2 DEF IInv
  <1>9. CASE queue' # queue
    <2>1. Settled(m) /\ queue' = RemoveById(queue, m.id)
      BY <1>1, <1>9
    <2>2. PICK k \in DOMAIN queue :
             /\ queue[k].id = m.id
             /\ queue' \in Seq(Entry)
             /\ Len(queue') = Len(queue) - 1
             /\ \A j \in 1..(Len(queue) - 1) : queue'[j] = queue[IF j < k THEN j ELSE j + 1]
      <3>1. queue \in Seq(Entry) /\ RemoveById(queue, m.id) # queue
        BY <1>2, <1>9, <2>1
      <3>2. \E k \in DOMAIN queue :
               /\ queue[k].id = m.id
               /\ RemoveById(queue, m.id) \in Seq(Entry)
               /\ Len(RemoveById(queue, m.id)) = Len(queue) - 1
               /\ \A j \in 1..(Len(queue) - 1) :
                     RemoveById(queue, m.id)[j] = queue[IF j < k THEN j ELSE j + 1]
        <4> HIDE DEF m
        <4> QED BY <3>1, RemoveByIdProperties
      <3>3. QED
        BY <2>1, <3>2
    <2>3. /\ Len(queue) \in Nat /\ DOMAIN queue = 1..Len(queue) /\ k \in 1..Len(queue)
          /\ Len(queue') \in Nat /\ DOMAIN queue' = 1..(Len(queue) - 1)
      BY <1>2, <2>2
    <2> DEFINE old(j) == IF j < k THEN j ELSE j + 1
    <2>4. ASSUME NEW j \in DOMAIN queue'
          PROVE  old(j) \in DOMAIN queue /\ queue'[j] = queue[old(j)] /\ queue[old(j)] \in Entry
                 /\ queue[old(j)].id \in Nat /\ old(j) <= j + 1
      <3>1. old(j) \in DOMAIN queue /\ old(j) <= j + 1
        BY <2>3
      <3>2. queue'[j] = queue[old(j)]
        BY <2>2, <2>3
      <3>3. queue[old(j)] \in Entry
        BY <1>2, <3>1
      <3>4. QED
        BY <3>1, <3>2, <3>3 DEF Entry
    <2>5. ASSUME NEW i \in DOMAIN queue', NEW j \in DOMAIN queue', i < j
          PROVE  old(i) < old(j)
      BY <2>3, <2>5
    <2> HIDE DEF old
    <2>6. OldestFirst'
      BY <2>4, <2>5 DEF IInv, OldestFirst
    <2>7. QueueFaithful'
      BY <1>1, <2>4 DEF IInv, QueueFaithful
    <2>8. NewerBehind'
      <3> SUFFICES ASSUME NEW j \in DOMAIN queue'
                   PROVE  (nextId' - 1) - queue'[j].id >= Len(queue') - j
        BY DEF NewerBehind
      <3>1. (nextId - 1) - queue[old(j)].id >= Len(queue) - old(j)
        BY <2>4 DEF IInv, NewerBehind
      <3> DEFINE id == queue[old(j)].id
      <3>2. j \in Nat /\ old(j) \in Nat /\ old(j) <= j + 1 /\ id \in Nat /\ queue'[j].id = id
        BY <2>3, <2>4
      <3>2a. (nextId - 1) - id >= Len(queue) - old(j)
        BY <3>1
      <3> HIDE DEF id
      <3>2b. (nextId - 1) - id >= (Len(queue) - 1) - j
        BY <1>2, <2>3, <3>2, <3>2a
      <3>3. QED
        BY <1>1, <2>2, <3>2, <3>2b
    <2>9. TypeOK' /\ WithinCapacity'
      <3>1. TypeOK'
        BY <1>1, <1>6, <2>2 DEF IInv, TypeOK
      <3>2. Len(queue) <= Capacity
        BY DEF IInv, WithinCapacity
      <3>3. QED
        BY <2>2, <2>3, <3>1, <3>2, ConstantsAssumption DEF WithinCapacity
    <2>10. NoSilentLoss'
      <3> SUFFICES ASSUME NEW i \in 1..(nextId' - 1), i \notin accepted', i \notin TooOld',
                          ~((nextId' - 1) - i >= Capacity)
                   PROVE  i \in Ids(queue')
        BY DEF NoSilentLoss, Ids
      <3>1. i \in Ids(queue)
        BY <1>1 DEF IInv, NoSilentLoss, TooOld
      <3>2. PICK n \in DOMAIN queue : queue[n].id = i
        BY <3>1 DEF Ids
      <3>3. n # k
        <4>1. SUFFICES ASSUME n = k PROVE FALSE
          OBVIOUS
        <4>2. i = m.id
          BY <2>2, <3>2, <4>1
        <4>3. flush.at - m.at > MaxAge
          BY <1>1, <1>5, <2>1, <4>2 DEF Settled
        <4>4. flush.at <= now
          BY DEF IInv, FlushFaithful
        <4>5. m.id \in DOMAIN stamps /\ now - stamps[m.id] > MaxAge
          <5>1. m.id \in DOMAIN stamps
            BY <1>2, <1>4
          <5>2. now - m.at > MaxAge
            <6>1. flush.at \in Nat /\ now \in Nat /\ m.at \in Nat /\ MaxAge \in Nat
              BY <1>2, <1>4, ConstantsAssumption
            <6>2. QED
              BY <4>3, <4>4, <6>1
          <5>3. QED
            BY <1>4, <5>1, <5>2
        <4>6. QED
          BY <1>1, <4>2, <4>5 DEF TooOld
      <3>4. CASE n < k
        <4>1. n \in DOMAIN queue' /\ queue'[n] = queue[n]
          BY <2>2, <2>3, <3>4
        <4>2. QED
          BY <3>2, <4>1 DEF Ids
      <3>5. CASE ~(n < k)
        <4>1. n - 1 \in 1..(Len(queue) - 1) /\ ~(n - 1 < k) /\ (n - 1) + 1 = n
          BY <2>3, <3>3, <3>5
        <4>2. queue'[n - 1] = queue[n]
          BY <2>2, <4>1
        <4>3. QED
          BY <2>3, <3>2, <4>1, <4>2 DEF Ids
      <3>6. QED
        BY <3>4, <3>5
    <2>11. QED
      BY <1>6, <1>7, <2>6, <2>7, <2>8, <2>9, <2>10 DEF IInv
  <1>10. QED
    BY <1>8, <1>9

\* Copying the queue, one send, a tick and a change of the link preserve it.
LEMMA FlushStartIInv ==
    ASSUME IInv, FlushStart
    PROVE  IInv'
  <1>1. /\ flush' = [step |-> "send", todo |-> queue, at |-> now, delivered |-> FALSE]
        /\ UNCHANGED <<queue, nextId, now, link, stamps, accepted>>
        /\ queue # <<>>
    BY DEF FlushStart
  <1>2. TypeOK'
    BY <1>1 DEF IInv, TypeOK, FlushSteps
  <1>3. FlushFaithful'
    BY <1>1 DEF IInv, TypeOK, FlushFaithful, QueueFaithful
  <1>4. QED
    BY <1>1, <1>2, <1>3
    DEF IInv, WithinCapacity, OldestFirst, QueueFaithful, NewerBehind, StampsPast,
        NoSilentLoss, Ids, TooOld

LEMMA FlushSendIInv ==
    ASSUME IInv, NEW outcome \in Outcomes, FlushSend(outcome)
    PROVE  IInv'
  <1>1. /\ flush.step = "send"
        /\ flush' = [flush EXCEPT !.step = "settle", !.delivered = (outcome = "delivered")]
        /\ accepted' = IF outcome = "failed" THEN accepted
                                             ELSE accepted \cup {Head(flush.todo).id}
        /\ UNCHANGED <<queue, nextId, now, link, stamps>>
    BY DEF FlushSend
  <1>2. flush.todo \in Seq(Entry) /\ flush.todo # <<>> /\ nextId \in Nat \ {0}
    BY <1>1 DEF IInv, TypeOK
  <1>3. Head(flush.todo) = flush.todo[1] /\ 1 \in DOMAIN flush.todo /\ flush.todo[1] \in Entry
    BY <1>2
  <1>4. Head(flush.todo).id \in 1..(nextId - 1)
    <2>1. Head(flush.todo).id \in Nat \ {0}
      BY <1>3 DEF Entry
    <2>2. Head(flush.todo).id < nextId
      BY <1>3 DEF IInv, FlushFaithful
    <2>3. QED
      BY <1>2, <2>1, <2>2
  <1>5. /\ accepted \subseteq accepted' /\ accepted' \subseteq 1..(nextId - 1)
        /\ outcome = "delivered" => Head(flush.todo).id \in accepted'
    BY <1>1, <1>4 DEF IInv, TypeOK
  <1>6. /\ flush' \in [step : FlushSteps, todo : Seq(Entry), at : Nat, delivered : BOOLEAN]
        /\ flush'.step = "settle" /\ flush'.todo = flush.todo /\ flush'.at = flush.at
        /\ flush'.delivered = (outcome = "delivered")
    BY <1>1 DEF IInv, TypeOK, FlushSteps
  <1>7. TypeOK'
    BY <1>1, <1>2, <1>5, <1>6 DEF IInv, TypeOK
  <1>8. FlushFaithful'
    BY <1>1, <1>5, <1>6 DEF IInv, FlushFaithful
  <1>9. NoSilentLoss'
    BY <1>1, <1>5 DEF IInv, NoSilentLoss, Ids, TooOld
  <1>10. QED
    BY <1>1, <1>7, <1>8, <1>9
    DEF IInv, WithinCapacity, OldestFirst, QueueFaithful, NewerBehind, StampsPast

LEMMA TickIInv ==
    ASSUME IInv, Tick
    PROVE  IInv'
  <1>1. now' = now + 1 /\ UNCHANGED <<queue, nextId, flush, link, stamps, accepted>>
    BY DEF Tick
  <1>2. now \in Nat /\ flush.at \in Nat /\ stamps \in Seq(Nat)
    BY DEF IInv, TypeOK
  <1>3. TypeOK'
    BY <1>1, <1>2 DEF IInv, TypeOK
  <1>4. FlushFaithful'
    BY <1>1, <1>2 DEF IInv, FlushFaithful
  <1>5. StampsPast'
    BY <1>1, <1>2 DEF IInv, StampsPast
  <1>6. TooOld \subseteq TooOld'
    BY <1>1, <1>2, ConstantsAssumption DEF TooOld
  <1>7. NoSilentLoss'
    BY <1>1, <1>6 DEF IInv, NoSilentLoss, Ids
  <1>8. QED
    BY <1>1, <1>3, <1>4, <1>5, <1>7
    DEF IInv, WithinCapacity, OldestFirst, QueueFaithful, NewerBehind

LEMMA LinkChangeIInv ==
    ASSUME IInv, LinkChange
    PROVE  IInv'
  BY DEF LinkChange, IInv, TypeOK, WithinCapacity, OldestFirst, QueueFaithful, NewerBehind,
         FlushFaithful, StampsPast, NoSilentLoss, Ids, TooOld

LEMMA NextIInv ==
    ASSUME IInv, [Next]_vars
    PROVE  IInv'
  <1>1. ASSUME NEW outcome \in Outcomes, Broadcast(outcome) PROVE IInv'
    BY <1>1, BroadcastIInv
  <1>2. ASSUME NEW outcome \in Outcomes, FlushSend(outcome) PROVE IInv'
    BY <1>2, FlushSendIInv
  <1>3. CASE FlushStart
    BY <1>3, FlushStartIInv
  <1>4. CASE FlushSettle
    BY <1>4, FlushSettleIInv
  <1>5. CASE Tick
    BY <1>5, TickIInv
  <1>6. CASE LinkChange
    BY <1>6, LinkChangeIInv
  <1>7. CASE UNCHANGED vars
    BY <1>7
    DEF vars, IInv, TypeOK, WithinCapacity, OldestFirst, QueueFaithful, NewerBehind,
        FlushFaithful, StampsPast, NoSilentLoss, Ids, TooOld
  <1>8. QED
    BY <1>1, <1>2, <1>3, <1>4, <1>5, <1>6, <1>7 DEF Next

-----------------------------------------------------------------------------
\* The strengthened invariant holds of every behaviour.
THEOREM QueueInvariant == Spec => []IInv
  BY InitIInv, NextIInv, PTL DEF Spec

\* Type correctness, for any capacity, age limit and number of messages.
THEOREM QueueTypeCorrect == Spec => []TypeOK
  <1>1. IInv => TypeOK
    BY DEF IInv
  <1>2. QED
    BY <1>1, QueueInvariant, PTL

\* The queue never outgrows its capacity.
THEOREM QueueWithinCapacity == Spec => []WithinCapacity
  <1>1. IInv => WithinCapacity
    BY DEF IInv
  <1>2. QED
    BY <1>1, QueueInvariant, PTL

\* Alerts are kept, retried and evicted oldest first.
THEOREM QueueOldestFirst == Spec => []OldestFirst
  <1>1. IInv => OldestFirst
    BY DEF IInv
  <1>2. QED
    BY <1>1, QueueInvariant, PTL

\* No alert disappears unless delivered, too old, or displaced by Capacity
\* newer ones, however enqueues and flush steps interleave.
THEOREM QueueNoSilentLoss == Spec => []NoSilentLoss
  <1>1. IInv => NoSilentLoss
    BY DEF IInv
  <1>2. QED
    BY <1>1, QueueInvariant, PTL

-----------------------------------------------------------------------------
\* With distinct ids, removeById takes away exactly the id it is given.
LEMMA RemoveByIdIds ==
    ASSUME NEW S, NEW q \in Seq(S), NEW id,
           \A i, j \in DOMAIN q : i # j => q[i].id # q[j].id
    PROVE  Ids(RemoveById(q, id)) = Ids(q) \ {id}
  <1>1. CASE RemoveById(q, id) = q /\ \A i \in DOMAIN q : q[i].id # id
    BY <1>1 DEF Ids
  <1>2. CASE \E k \in DOMAIN q :
                 /\ q[k].id = id
                 /\ RemoveById(q, id) \in Seq(S)
                 /\ Len(RemoveById(q, id)) = Len(q) - 1
                 /\ \A i \in 1..(Len(q) - 1) :
                       RemoveById(q, id)[i] = q[IF i < k THEN i ELSE i + 1]
    <2> DEFINE r == RemoveById(q, id)
    <2>1. PICK k \in DOMAIN q :
                 /\ q[k].id = id
                 /\ r \in Seq(S)
                 /\ Len(r) = Len(q) - 1
                 /\ \A i \in 1..(Len(q) - 1) : r[i] = q[IF i < k THEN i ELSE i + 1]
      BY <1>2
    <2> HIDE DEF r
    <2>2. /\ DOMAIN r = 1..(Len(q) - 1) /\ DOMAIN q = 1..Len(q)
          /\ Len(q) \in Nat /\ k \in 1..Len(q)
      BY <2>1
    <2>3. ASSUME NEW x \in Ids(r)
          PROVE  x \in Ids(q) \ {id}
      <3>1. PICK i \in DOMAIN r : r[i].id = x
        BY DEF Ids
      <3>2. CASE i < k
        <4>1. r[i] = q[i] /\ i \in DOMAIN q /\ i # k
          BY <2>1, <2>2, <3>2
        <4>2. QED
          BY <2>1, <3>1, <4>1 DEF Ids
      <3>3. CASE ~(i < k)
        <4>1. r[i] = q[i + 1] /\ i + 1 \in DOMAIN q /\ i + 1 # k
          BY <2>1, <2>2, <3>3
        <4>2. QED
          BY <2>1, <3>1, <4>1 DEF Ids
      <3>4. QED
        BY <3>2, <3>3
    <2>4. ASSUME NEW x \in Ids(q) \ {id}
          PROVE  x \in Ids(r)
      <3>1. PICK n \in DOMAIN q : q[n].id = x
        BY DEF Ids
      <3>2. n # k
        BY <2>1, <3>1
      <3>3. CASE n < k
        <4>1. n \in DOMAIN r /\ r[n] = q[n]
          BY <2>1, <2>2, <3>3
        <4>2. QED
          BY <3>1, <4>1 DEF Ids
      <3>4. CASE ~(n < k)
        <4>1. n - 1 \in DOMAIN r /\ ~(n - 1 < k) /\ (n - 1) + 1 = n
          BY <2>2, <3>2, <3>4
        <4>2. r[n - 1] = q[n]
          BY <2>1, <2>2, <4>1
        <4>3. QED
          BY <3>1, <4>1, <4>2 DEF Ids
      <3>5. QED
        BY <3>3, <3>4
    <2>5. QED
      BY <2>3, <2>4 DEF r
  <1>3. QED
    BY <1>1, <1>2, RemoveByIdProperties

\* The ids of the queue, once it has taken in m: m's, and the old ones but
\* for the first entry of a full queue.
LEMMA PushIds ==
    ASSUME NEW q \in Seq(Entry), NEW m \in Entry, Len(q) <= Capacity,
           \A i, j \in DOMAIN q : i # j => q[i].id # q[j].id
    PROVE  Ids(Push(q, m)) =
              (Ids(q) \ (IF Len(q) >= Capacity THEN {q[1].id} ELSE {})) \cup {m.id}
  <1> DEFINE r == Push(q, m)
             d == IF Len(q) >= Capacity THEN 1 ELSE 0
  <1>1. /\ r \in Seq(Entry)
        /\ Len(r) = Len(q) - d + 1
        /\ r[Len(r)] = m
        /\ \A i \in 1..(Len(q) - d) : r[i] = q[i + d]
    BY PushProperties
  <1>2. /\ d \in {0, 1} /\ (d = 1 <=> Len(q) >= Capacity) /\ d <= Len(q)
        /\ Len(q) \in Nat /\ DOMAIN q = 1..Len(q)
    BY ConstantsAssumption
  <1>3. DOMAIN r = 1..(Len(q) - d + 1) /\ Len(r) \in DOMAIN r
    BY <1>1, <1>2
  <1> HIDE DEF r, d
  <1>4. ASSUME NEW x \in Ids(r), x # m.id
        PROVE  \E i \in DOMAIN q : q[i].id = x /\ i > d
    <2>1. PICK i \in DOMAIN r : r[i].id = x
      BY DEF Ids
    <2>2. i # Len(r)
      BY <1>1, <1>4, <2>1
    <2>3. i \in 1..(Len(q) - d) /\ i + d \in DOMAIN q /\ i + d > d
      BY <1>1, <1>2, <1>3, <2>2
    <2>4. QED
      BY <1>1, <2>1, <2>3
  <1>5. ASSUME NEW i \in DOMAIN q, i > d
        PROVE  q[i].id \in Ids(r)
    <2>1. i - d \in 1..(Len(q) - d) /\ i - d \in DOMAIN r /\ (i - d) + d = i
      BY <1>2, <1>3, <1>5
    <2>2. r[i - d] = q[i]
      BY <1>1, <2>1
    <2>3. QED
      BY <2>1, <2>2 DEF Ids
  <1>6. m.id \in Ids(r)
    BY <1>1, <1>3 DEF Ids
  <1>7. CASE Len(q) >= Capacity
    <2>1. d = 1 /\ 1 \in DOMAIN q
      BY <1>2, <1>7
    <2>2. \A i \in DOMAIN q : i > 1 <=> q[i].id # q[1].id
      BY <1>2, <2>1
    <2>3. Ids(r) = (Ids(q) \ {q[1].id}) \cup {m.id}
      BY <1>4, <1>5, <1>6, <2>1, <2>2 DEF Ids
    <2>4. QED
      BY <1>7, <2>3 DEF r
  <1>8. CASE ~(Len(q) >= Capacity)
    <2>1. d = 0 /\ \A i \in DOMAIN q : i > 0
      BY <1>2, <1>8
    <2>2. Ids(r) = Ids(q) \cup {m.id}
      BY <1>4, <1>5, <1>6, <2>1 DEF Ids
    <2>3. QED
      BY <1>8, <2>2 DEF r
  <1>9. QED
    BY <1>7, <1>8

LEMMA IdsDistinct ==
    ASSUME IInv
    PROVE  /\ queue \in Seq(Entry)
           /\ \A i, j \in DOMAIN queue : i # j => queue[i].id # queue[j].id
  <1>1. queue \in Seq(Entry)
    BY DEF IInv, TypeOK
  <1>2. ASSUME NEW i \in DOMAIN queue PROVE queue[i].id \in Nat /\ i \in Nat
    <2>1. queue[i] \in Entry /\ i \in Nat
      BY <1>1
    <2>2. QED
      BY <2>1 DEF Entry
  <1>3. ASSUME NEW i \in DOMAIN queue, NEW j \in DOMAIN queue, i # j
        PROVE  queue[i].id # queue[j].id
    <2>1. (i < j \/ j < i) /\ queue[i].id \in Nat /\ queue[j].id \in Nat
      BY <1>2, <1>3
    <2>2. QED
      BY <2>1 DEF IInv, OldestFirst
  <1>4. QED
    BY <1>1, <1>3

\* A running flush removes only messages its copy held.
THEOREM FlushSparesNewerTheorem == Spec => FlushSparesNewer
  <1>1. IInv /\ [Next]_vars =>
          [flush.step = "settle" /\ flush'.step # "settle" =>
              Ids(queue) \ Ids(flush.todo) \subseteq Ids(queue')]_vars
    <2> SUFFICES ASSUME IInv, [Next]_vars, flush.step = "settle", flush'.step # "settle"
                 PROVE  Ids(queue) \ Ids(flush.todo) \subseteq Ids(queue')
      OBVIOUS
    <2>1. FlushSettle
      BY DEF Next, vars, Broadcast, FlushSend, FlushStart, Tick, LinkChange
    <2>2. Ids(queue') = Ids(queue) \/ Ids(queue') = Ids(queue) \ {Head(flush.todo).id}
      BY <2>1, IdsDistinct, RemoveByIdIds DEF FlushSettle
    <2>3. flush.todo \in Seq(Entry) /\ flush.todo # <<>>
      BY <2>1 DEF IInv, TypeOK
    <2>4. Head(flush.todo) = flush.todo[1] /\ 1 \in DOMAIN flush.todo
      BY <2>3
    <2>5. Head(flush.todo).id \in Ids(flush.todo)
      BY <2>4 DEF Ids
    <2>6. QED
      BY <2>2, <2>5
  <1>2. QED
    BY <1>1, QueueInvariant, PTL DEF Spec, FlushSparesNewer

-----------------------------------------------------------------------------
LEMMA OutboxInitRefined == Init => Outbox!OutboxInit
  BY DEF Init, Outbox!OutboxInit, Ids, TooOld

LEMMA BroadcastSubmits ==
    ASSUME IInv, NEW outcome \in Outcomes, Broadcast(outcome)
    PROVE  Outbox!Submit
  <1> DEFINE m == [id |-> nextId, at |-> now]
             gone == IF Len(queue) >= Capacity THEN {queue[1].id} ELSE {}
  <1>1. /\ queue' = Push(queue, m) /\ nextId' = nextId + 1
        /\ stamps' = Append(stamps, now) /\ now' = now
        /\ accepted' \in {accepted, accepted \cup {nextId}}
    BY DEF Broadcast
  <1>2. /\ nextId \in Nat \ {0} /\ now \in Nat /\ m \in Entry /\ m.id = nextId
        /\ stamps \in Seq(Nat) /\ Len(stamps) = nextId - 1 /\ Len(queue) <= Capacity
    BY DEF IInv, TypeOK, WithinCapacity, Entry
  <1>3. Ids(queue') = (Ids(queue) \ gone) \cup {nextId}
    <2> HIDE DEF m
    <2>1. QED
      BY <1>1, <1>2, IdsDistinct, PushIds
  <1>4. gone \subseteq Ids(queue) \cap {i \in 1..nextId : nextId - i >= Capacity}
    <2>1. CASE Len(queue) >= Capacity
      <3>1. queue \in Seq(Entry) /\ Len(queue) \in Nat /\ Capacity \in Nat \ {0}
        BY IdsDistinct, ConstantsAssumption
      <3>2. 1 \in DOMAIN queue
        BY <2>1, <3>1
      <3>3. queue[1] \in Entry
        BY <3>1, <3>2
      <3>4. queue[1].id \in Nat \ {0} /\ queue[1].id < nextId
            /\ (nextId - 1) - queue[1].id >= Len(queue) - 1
        BY <3>2, <3>3 DEF IInv, QueueFaithful, NewerBehind, Entry
      <3>5. queue[1].id \in 1..nextId /\ nextId - queue[1].id >= Capacity
        BY <1>2, <2>1, <3>1, <3>4
      <3>6. QED
        BY <3>2, <3>5 DEF Ids
    <2>2. CASE ~(Len(queue) >= Capacity)
      BY <2>2
    <2>3. QED
      BY <2>1, <2>2
  <1>5. TooOld' = TooOld
    <2>1. /\ DOMAIN stamps' = 1..nextId /\ DOMAIN stamps = 1..(nextId - 1)
          /\ stamps'[nextId] = now /\ \A i \in 1..(nextId - 1) : stamps'[i] = stamps[i]
      BY <1>1, <1>2
    <2>2. ~(now - now > MaxAge)
      BY <1>2, ConstantsAssumption
    <2>3. \A i : i \in 1..nextId <=> i = nextId \/ i \in 1..(nextId - 1)
      BY <1>2
    <2>4. QED
      BY <1>1, <2>1, <2>2, <2>3 DEF TooOld
  <1>6. nextId' - 1 = nextId /\ (nextId - 1) + 1 = nextId
    BY <1>1, <1>2
  <1> HIDE DEF gone
  <1>7. QED
    BY <1>1, <1>3, <1>4, <1>5, <1>6 DEF Outbox!Submit, Outbox!Displaceable

LEMMA FlushSettleRetires ==
    ASSUME IInv, FlushSettle
    PROVE  Outbox!OutboxNext \/ UNCHANGED Outbox!outboxVars
  <1> DEFINE id == Head(flush.todo).id
  <1>1. /\ UNCHANGED <<nextId, now, stamps, accepted>> /\ flush.step = "settle"
        /\ TooOld' = TooOld
    BY DEF FlushSettle, TooOld
  <1>2. flush.todo \in Seq(Entry) /\ flush.todo # <<>>
    BY <1>1 DEF IInv, TypeOK
  <1>3. Head(flush.todo) = flush.todo[1] /\ 1 \in DOMAIN flush.todo /\ flush.todo[1] \in Entry
    BY <1>2
  <1>4. id \in Nat \ {0} /\ id < nextId /\ Head(flush.todo).at = stamps[id]
    BY <1>3 DEF IInv, FlushFaithful, Entry
  <1>5. CASE Ids(queue') = Ids(queue)
    BY <1>1, <1>5 DEF Outbox!outboxVars
  <1>6. CASE Ids(queue') # Ids(queue)
    <2>1. Settled(Head(flush.todo)) /\ Ids(queue') = Ids(queue) \ {id} /\ id \in Ids(queue)
      BY <1>6, IdsDistinct, RemoveByIdIds DEF FlushSettle
    <2>2. id \in accepted \cup TooOld
      <3>1. CASE flush.delivered
        BY <1>1, <3>1 DEF IInv, FlushFaithful
      <3>2. CASE ~flush.delivered
        <4>1. flush.at - stamps[id] > MaxAge /\ flush.at <= now
          BY <1>4, <2>1, <3>2 DEF Settled, IInv, FlushFaithful
        <4>2. /\ flush.at \in Nat /\ now \in Nat /\ MaxAge \in Nat /\ stamps \in Seq(Nat)
              /\ nextId \in Nat /\ Len(stamps) = nextId - 1
          BY ConstantsAssumption DEF IInv, TypeOK
        <4>3. id \in DOMAIN stamps /\ stamps[id] \in Nat
          BY <1>4, <4>2
        <4>4. now - stamps[id] > MaxAge
          BY <4>1, <4>2, <4>3
        <4>5. QED
          BY <4>3, <4>4 DEF TooOld
      <3>3. QED
        BY <3>1, <3>2
    <2>3. id \in 1..(nextId - 1)
      BY <1>4 DEF IInv, TypeOK
    <2> HIDE DEF id
    <2>4. Outbox!Retire(id)
      BY <1>1, <2>1, <2>2 DEF Outbox!Retire
    <2>5. QED
      BY <2>3, <2>4 DEF Outbox!OutboxNext
  <1>7. QED
    BY <1>5, <1>6

LEMMA NextImplementsOutbox ==
    ASSUME IInv, [Next]_vars
    PROVE  Outbox!OutboxNext \/ UNCHANGED Outbox!outboxVars
  <1>1. ASSUME NEW outcome \in Outcomes, Broadcast(outcome)
        PROVE  Outbox!OutboxNext
    BY <1>1, BroadcastSubmits DEF Outbox!OutboxNext
  <1>2. ASSUME NEW outcome \in Outcomes, FlushSend(outcome)
        PROVE  Outbox!OutboxNext \/ UNCHANGED Outbox!outboxVars
    <2>1. UNCHANGED <<queue, nextId, now, stamps>> /\ TooOld' = TooOld
      BY <1>2 DEF FlushSend, TooOld
    <2>2. CASE accepted' = accepted
      BY <2>1, <2>2 DEF Outbox!outboxVars, Ids
    <2>3. CASE accepted' # accepted
      <3> DEFINE id == Head(flush.todo).id
      <3>1. accepted' = accepted \cup {id} /\ flush.step = "send"
        BY <1>2, <2>3 DEF FlushSend
      <3>2. flush.todo \in Seq(Entry) /\ flush.todo # <<>> /\ nextId \in Nat
        BY <3>1 DEF IInv, TypeOK
      <3>3. Head(flush.todo) = flush.todo[1] /\ 1 \in DOMAIN flush.todo
            /\ flush.todo[1] \in Entry
        BY <3>2
      <3>4. id \in Nat \ {0} /\ id < nextId
        BY <3>3 DEF IInv, FlushFaithful, Entry
      <3>5. id \in 1..(nextId - 1)
        BY <3>2, <3>4
      <3> HIDE DEF id
      <3>6. Outbox!Accept(id)
        BY <2>1, <3>1 DEF Outbox!Accept, Ids
      <3>7. QED
        BY <3>5, <3>6 DEF Outbox!OutboxNext
    <2>4. QED
      BY <2>2, <2>3
  <1>3. CASE Tick
    <2>1. now' = now + 1 /\ UNCHANGED <<queue, nextId, stamps, accepted>>
      BY <1>3 DEF Tick
    <2>2. now \in Nat /\ stamps \in Seq(Nat) /\ Len(stamps) = nextId - 1 /\ MaxAge \in Nat
      BY ConstantsAssumption DEF IInv, TypeOK
    <2>3. TooOld \subseteq TooOld' /\ TooOld' \subseteq 1..(nextId - 1)
      BY <2>1, <2>2 DEF TooOld
    <2>4. Outbox!GrowOld
      BY <2>1, <2>3 DEF Outbox!GrowOld, Ids
    <2>5. QED
      BY <2>4 DEF Outbox!OutboxNext
  <1>4. CASE FlushSettle
    BY <1>4, FlushSettleRetires
  <1>5. CASE FlushStart \/ LinkChange \/ UNCHANGED vars
    BY <1>5 DEF FlushStart, LinkChange, vars, Outbox!outboxVars, Ids, TooOld
  <1>6. QED
    BY <1>1, <1>2, <1>3, <1>4, <1>5 DEF Next

\* The retry queue implements the outbox it promises to be.
THEOREM QueueImplementsOutbox == Spec => ImplementsOutbox
  BY OutboxInitRefined, NextImplementsOutbox, QueueInvariant, PTL
  DEF Spec, ImplementsOutbox, Outbox!OutboxSpec


-----------------------------------------------------------------------------
(***************************************************************************)
(* The command channel                                                     *)
(***************************************************************************)
Polls == [on : BOOLEAN, start : Int, batch : Seq(Nat)]
Arms == [from : Users \cup {"nobody"}, age : Int]
Counts == [crashes : Nat, saves : Nat]

Types ==
    /\ sent \in Seq(Update) /\ Len(sent) <= MaxUpdates
    /\ confirmed \in 0..Len(sent)
    /\ stored \in 0..Len(sent)
    /\ last \in -1..Len(sent)
    /\ poll \in Polls
    /\ arm \in Arms
    /\ handled \in [UpdateIds -> Nat]
    /\ failures \in Counts

\* All that lies behind one of the three marks has been handled; the mark in
\* RAM is not behind the one in NVS.
Progress ==
    /\ last >= 0 => stored <= last
    /\ \A i \in 1..Len(sent) :
          i <= confirmed \/ i <= stored \/ i <= last => handled[i] > 0

\* A batch is a run of updates that begins with the first one not handled.
BatchInv ==
    poll.on =>
        /\ last >= 0
        /\ \A k \in 1..Len(poll.batch) :
              poll.batch[k] = poll.batch[1] + k - 1 /\ poll.batch[k] \in 1..Len(sent)
        /\ poll.batch # <<>> =>
              /\ poll.batch[1] > last
              /\ \A i \in 1..Len(sent) : i < poll.batch[1] => handled[i] > 0

\* A reset counts once behind the mark in NVS, anything else behind the one
\* that the next poll will start from; failures excuse the rest.
Repeats ==
    \A i \in UpdateIds :
        /\ i \in 1..Len(sent) /\ sent[i].asks = "reset" =>
              handled[i] <= failures.saves + (IF i <= stored THEN 1 ELSE 0)
        /\ i \in 1..Len(sent) /\ sent[i].asks # "reset" =>
              handled[i] <= failures.saves + failures.crashes
                            + (IF i <= Loaded THEN 1 ELSE 0)
        /\ i \notin 1..Len(sent) => handled[i] = 0

\* Whoever holds the arm has asked.
ArmAsked == arm.from # "nobody" => arm.from \in asked

\* The inductive invariant.
PollInv == Types /\ Progress /\ BatchInv /\ Repeats /\ ArmAsked

-----------------------------------------------------------------------------
\* The larger and the smaller of two.
LEMMA PairExtremes ==
    \A a, b \in Int : /\ Max({a, b}) = IF a >= b THEN a ELSE b
                      /\ Min({a, b}) = IF a <= b THEN a ELSE b
<1> TAKE a, b \in Int
<1> DEFINE m == IF a >= b THEN a ELSE b
           l == IF a <= b THEN a ELSE b
<1>1. m \in {a, b} /\ (\A y \in {a, b} : m >= y) /\ \A x \in {a, b} : (\A y \in {a, b} : x >= y) => x = m
  OBVIOUS
<1>2. l \in {a, b} /\ (\A y \in {a, b} : l <= y) /\ \A x \in {a, b} : (\A y \in {a, b} : x <= y) => x = l
  OBVIOUS
<1>3. Max({a, b}) = m
  BY <1>1 DEF Max
<1>4. Min({a, b}) = l
  BY <1>2 DEF Min
<1> QED
  BY <1>3, <1>4

\* The fields of the records.
LEMMA FieldFacts ==
    ASSUME Types
    PROVE  /\ poll.on \in BOOLEAN /\ poll.batch \in Seq(Nat)
           /\ failures.crashes \in Nat /\ failures.saves \in Nat
           /\ Len(sent) \in Nat /\ 1..Len(sent) \subseteq UpdateIds
           /\ Loaded \in 0..Len(sent)
           /\ DOMAIN sent = 1..Len(sent)
           /\ \A i \in 1..Len(sent) : sent[i] \in Update /\ sent[i].from \in Users
<1>1. Len(sent) \in Nat /\ DOMAIN sent = 1..Len(sent) /\ \A i \in 1..Len(sent) : sent[i] \in Update
  BY DEF Types
<1>2. 1..Len(sent) \subseteq UpdateIds
  BY <1>1, PollAssumption DEF Types, UpdateIds
<1>3. Loaded \in 0..Len(sent)
  BY <1>1 DEF Types, Loaded
<1> QED
  BY <1>1, <1>2, <1>3 DEF Types, Polls, Counts, Update

\* Nothing sent yet.
LEMMA PollInvInit == PollInit => PollInv
<1> SUFFICES ASSUME PollInit PROVE PollInv
  OBVIOUS
<1>1. /\ sent = <<>> /\ Len(sent) = 0 /\ confirmed = 0 /\ stored = 0 /\ last = -1
      /\ poll = NoPoll /\ arm = NoArm /\ handled = [i \in UpdateIds |-> 0]
      /\ failures = [crashes |-> 0, saves |-> 0]
  BY DEF PollInit
<1>2. Types
  <2>1. NoPoll \in Polls /\ NoArm \in Arms /\ [crashes |-> 0, saves |-> 0] \in Counts
    BY DEF NoPoll, NoArm, Polls, Arms, Counts
  <2> QED
    BY <1>1, <2>1, PollAssumption DEF Types
<1>3. Progress /\ Repeats
  BY <1>1 DEF Progress, Repeats
<1>4. BatchInv /\ ArmAsked
  BY <1>1 DEF BatchInv, ArmAsked, NoPoll, NoArm
<1> QED
  BY <1>2, <1>3, <1>4 DEF PollInv

-----------------------------------------------------------------------------
\* A new update is behind no mark.
LEMMA SendKeeps ==
    ASSUME PollInv, NEW update \in Update, Send(update)
    PROVE  PollInv'
<1>1. /\ sent' = Append(sent, update) /\ Len(sent) < MaxUpdates /\ sent \in Seq(Update)
      /\ confirmed' = confirmed /\ stored' = stored /\ last' = last /\ poll' = poll
      /\ arm' = arm /\ handled' = handled /\ failures' = failures /\ asked' = asked
  BY DEF Send, PollInv, Types
<1>2. /\ Len(sent) \in Nat /\ Len(sent') = Len(sent) + 1 /\ sent' \in Seq(Update)
      /\ \A i \in 1..Len(sent) : sent'[i] = sent[i]
  BY <1>1
<1>3. Types'
  BY <1>1, <1>2, PollAssumption DEF PollInv, Types
<1>4. Progress'
  BY <1>1, <1>2 DEF PollInv, Types, Progress
<1>5. BatchInv'
  <2>1. poll.on => \A k \in 1..Len(poll.batch) : poll.batch[k] \in 1..Len(sent')
    BY <1>2 DEF PollInv, BatchInv
  <2>2. poll.on /\ poll.batch # <<>> =>
          \A i \in 1..Len(sent') : i < poll.batch[1] => handled[i] > 0
    <3> SUFFICES ASSUME poll.on, poll.batch # <<>>,
                        NEW i \in 1..Len(sent'), i < poll.batch[1]
                 PROVE  handled[i] > 0
      OBVIOUS
    <3>1. Len(poll.batch) \in Nat \ {0}
      BY FieldFacts DEF PollInv
    <3>2. poll.batch[1] \in 1..Len(sent)
      BY <3>1 DEF PollInv, BatchInv
    <3>3. i \in 1..Len(sent)
      BY <1>2, <3>2
    <3> QED
      BY <3>3 DEF PollInv, BatchInv
  <2> QED
    BY <1>1, <2>1, <2>2 DEF PollInv, BatchInv
<1>6. Repeats'
  <2> SUFFICES ASSUME NEW i \in UpdateIds
               PROVE  /\ i \in 1..Len(sent') /\ sent'[i].asks = "reset" =>
                            handled[i] <= failures.saves + (IF i <= stored THEN 1 ELSE 0)
                      /\ i \in 1..Len(sent') /\ sent'[i].asks # "reset" =>
                            handled[i] <= failures.saves + failures.crashes
                                          + (IF i <= Loaded THEN 1 ELSE 0)
                      /\ i \notin 1..Len(sent') => handled[i] = 0
    BY <1>1 DEF Repeats, Loaded
  <2>1. CASE i \in 1..Len(sent)
    BY <1>2, <2>1 DEF PollInv, Repeats
  <2>2. CASE i \notin 1..Len(sent)
    <3>1. handled[i] = 0
      BY <2>2 DEF PollInv, Repeats
    <3> QED
      BY <3>1, FieldFacts DEF PollInv
  <2> QED
    BY <2>1, <2>2
<1>7. ArmAsked'
  BY <1>1 DEF PollInv, ArmAsked
<1> QED
  BY <1>3, <1>4, <1>5, <1>6, <1>7 DEF PollInv

\* Asking for updates: Telegram forgets what is behind the offset.
LEMMA AskFacts ==
    ASSUME PollInv
    PROVE  /\ Max({confirmed, Offset(Loaded) - 1}) \in 0..Len(sent)
           /\ Max({confirmed, Offset(Loaded) - 1}) = IF confirmed >= Loaded THEN confirmed ELSE Loaded
           /\ stored <= Loaded
           /\ \A i \in 1..Len(sent) :
                i <= Loaded \/ i <= confirmed => handled[i] > 0
<1>1. Loaded \in 0..Len(sent) /\ confirmed \in 0..Len(sent) /\ Len(sent) \in Nat
  BY FieldFacts DEF PollInv, Types
<1>2. Offset(Loaded) - 1 = Loaded
  BY <1>1 DEF Offset
<1>3. Max({confirmed, Offset(Loaded) - 1}) = IF confirmed >= Loaded THEN confirmed ELSE Loaded
  BY <1>1, <1>2, PairExtremes
<1>4. Loaded \in {stored, last} /\ stored <= Loaded
  BY DEF PollInv, Types, Progress, Loaded
<1>5. \A i \in 1..Len(sent) : i <= Loaded \/ i <= confirmed => handled[i] > 0
  BY <1>4 DEF PollInv, Progress
<1> QED
  BY <1>1, <1>3, <1>4, <1>5

\* What a poll that asked leaves of all but the batch.
LEMMA AskKeeps ==
    ASSUME PollInv, last' = Loaded,
           confirmed' \in {confirmed, Max({confirmed, Offset(Loaded) - 1})},
           UNCHANGED <<sent, stored, arm, handled, failures, asked>>, poll' \in Polls
    PROVE  Types' /\ Progress' /\ Repeats' /\ ArmAsked'
<1>1. Loaded \in 0..Len(sent) /\ confirmed' \in 0..Len(sent)
  BY FieldFacts, AskFacts DEF PollInv, Types
<1>2. Types'
  BY <1>1 DEF PollInv, Types
<1>3. \A i \in 1..Len(sent) : i <= confirmed' => i <= confirmed \/ i <= Loaded
  BY AskFacts DEF PollInv, Types
<1>4. Progress'
  BY <1>1, <1>3, AskFacts DEF PollInv, Types, Progress
<1>5. Loaded' = Loaded
  BY <1>1, FieldFacts DEF Loaded, PollInv
<1>6. Repeats'
  BY <1>5 DEF PollInv, Repeats
<1> QED
  BY <1>2, <1>4, <1>6 DEF PollInv, ArmAsked

\* The answer begins with the first update that is behind no mark.
LEMMA PollStartKeeps ==
    ASSUME PollInv, PollStart
    PROVE  PollInv'
<1> DEFINE first == Max({Offset(Loaded), confirmed + 1})
           size == Min({MaxBatch, Max({0, Len(sent) - first + 1})})
<1>1. /\ last' = Loaded
      /\ poll' = [on |-> TRUE, start |-> Loaded, batch |-> Answer(Offset(Loaded))]
      /\ confirmed' = Max({confirmed, Offset(Loaded) - 1})
      /\ UNCHANGED <<sent, stored, arm, handled, failures, asked>>
  BY DEF PollStart
<1>2. Loaded \in 0..Len(sent) /\ confirmed \in 0..Len(sent) /\ Len(sent) \in Nat
  BY FieldFacts DEF PollInv, Types
<1>3. first = IF Loaded >= confirmed THEN Loaded + 1 ELSE confirmed + 1
  BY <1>2, PairExtremes DEF Offset
<1>4. first \in Nat /\ first > Loaded
  BY <1>2, <1>3
<1>5. size \in Nat /\ size <= (IF Len(sent) - first + 1 > 0 THEN Len(sent) - first + 1 ELSE 0)
  <2> HIDE DEF first
  <2>1. Len(sent) - first + 1 \in Int
    BY <1>2, <1>4
  <2>2. Max({0, Len(sent) - first + 1}) = IF 0 >= Len(sent) - first + 1 THEN 0 ELSE Len(sent) - first + 1
    BY <2>1, PairExtremes
  <2>3. Max({0, Len(sent) - first + 1}) \in Int /\ MaxBatch \in Nat \ {0}
    BY <2>1, <2>2, PollAssumption
  <2> DEFINE left == Max({0, Len(sent) - first + 1})
  <2>4. left = IF 0 >= Len(sent) - first + 1 THEN 0 ELSE Len(sent) - first + 1
    BY <2>2
  <2>5. left \in Int
    BY <2>3
  <2>6. size = Min({MaxBatch, left})
    OBVIOUS
  <2> HIDE DEF left, size
  <2>7. size = IF MaxBatch <= left THEN MaxBatch ELSE left
    <3>1. MaxBatch \in Int
      BY <2>3
    <3>2. Min({MaxBatch, left}) = IF MaxBatch <= left THEN MaxBatch ELSE left
      BY <2>5, <3>1, PairExtremes
    <3> QED
      BY <2>6, <3>2
  <2> QED
    BY <2>1, <2>3, <2>4, <2>5, <2>7
<1>6. poll'.on /\ poll'.batch = [k \in 1..size |-> first + k - 1]
  BY <1>1 DEF Answer
<1> HIDE DEF first, size
<1>7. /\ poll'.batch \in Seq(Nat) /\ Len(poll'.batch) = size
      /\ \A k \in 1..size : poll'.batch[k] = first + k - 1
  <2>1. \A k \in 1..size : first + k - 1 \in Nat
    BY <1>4, <1>5
  <2> QED
    BY <1>5, <1>6, <2>1
<1>8. poll' \in Polls
  <2>1. Answer(Offset(Loaded)) \in Seq(Nat)
    BY <1>1, <1>7
  <2> QED
    BY <1>1, <1>2, <2>1 DEF Polls
<1>9. BatchInv'
  <2>1. \A k \in 1..size : first + k - 1 \in 1..Len(sent)
    BY <1>2, <1>4, <1>5
  <2>2. poll'.batch # <<>> => 1 \in 1..size
    <3>1. size = 0 => poll'.batch = <<>>
      BY <1>7
    <3> QED
      BY <1>5, <3>1
  <2>3. \A i \in 1..Len(sent) : i < first => handled[i] > 0
    BY <1>2, <1>3, AskFacts
  <2>4. poll'.batch # <<>> => poll'.batch[1] = first
    <3>1. first + 1 - 1 = first
      BY <1>4
    <3> QED
      BY <1>7, <2>2, <3>1
  <2>5. \A k \in 1..size : poll'.batch[k] = poll'.batch[1] + k - 1
    BY <1>4, <1>5, <1>7
  <2>6. \A k \in 1..Len(poll'.batch) :
           poll'.batch[k] = poll'.batch[1] + k - 1 /\ poll'.batch[k] \in 1..Len(sent')
    BY <1>1, <1>7, <2>1, <2>5
  <2>7. poll'.batch # <<>> =>
          /\ poll'.batch[1] > last'
          /\ \A i \in 1..Len(sent') : i < poll'.batch[1] => handled'[i] > 0
    BY <1>1, <1>4, <2>3, <2>4
  <2> QED
    BY <1>1, <1>2, <2>6, <2>7 DEF BatchInv
<1> QED
  BY <1>1, <1>8, <1>9, AskKeeps DEF PollInv

\* A poll that fails has asked at most.
LEMMA PollFailsKeeps ==
    ASSUME PollInv, PollFails
    PROVE  PollInv'
<1>1. poll' \in Polls /\ ~poll.on /\ poll' = poll
  BY DEF PollFails, PollInv, Types
<1>2. Types' /\ Progress' /\ Repeats' /\ ArmAsked'
  BY <1>1, AskKeeps DEF PollFails
<1>3. BatchInv'
  BY <1>1 DEF BatchInv
<1> QED
  BY <1>2, <1>3 DEF PollInv

-----------------------------------------------------------------------------
\* The head of the batch: the first update that was not handled.
LEMMA HeadFacts ==
    ASSUME PollInv, poll.on, poll.batch # <<>>
    PROVE  /\ Id \in 1..Len(sent) /\ Id \in UpdateIds /\ Id > last /\ last >= 0 /\ Id > stored
           /\ Max({last, Id}) = Id /\ Id = poll.batch[1]
           /\ \A i \in 1..Len(sent) : i < Id => handled[i] > 0
           /\ Current \in Update /\ Current.from \in Users
<1>1. Len(poll.batch) \in Nat \ {0} /\ Id = poll.batch[1]
  BY FieldFacts DEF PollInv, Id
<1>2. Id \in 1..Len(sent) /\ Id > last /\ last >= 0
  BY <1>1 DEF PollInv, BatchInv
<1>3. Id \in UpdateIds /\ Current \in Update /\ Current.from \in Users
  BY <1>2, FieldFacts DEF PollInv, Current
<1>4. last \in Int /\ Id \in Int /\ stored \in Int /\ stored <= last
  BY <1>2 DEF PollInv, Types, Progress
<1>5. Max({last, Id}) = Id
  BY <1>2, <1>4, PairExtremes
<1> QED
  BY <1>1, <1>2, <1>3, <1>4, <1>5 DEF PollInv, BatchInv

\* An update that is no reset is taken.
LEMMA TakenKeeps ==
    ASSUME PollInv, Taken, Current.asks # "reset", UNCHANGED <<stored, failures>>, arm' \in Arms
    PROVE  Types' /\ Progress' /\ BatchInv' /\ Repeats'
<1>1. /\ poll.on /\ poll.batch # <<>>
      /\ handled' = [handled EXCEPT ![Id] = @ + 1]
      /\ poll' = [poll EXCEPT !.batch = Tail(@)]
      /\ sent' = sent /\ confirmed' = confirmed
  BY DEF Taken
<1>2. last' = Id
  BY <1>1, HeadFacts DEF Taken
<1>3. /\ Id \in 1..Len(sent) /\ Id \in UpdateIds /\ Id > last /\ last >= 0 /\ Id > stored
      /\ Id = poll.batch[1]
      /\ \A i \in 1..Len(sent) : i < Id => handled[i] > 0
  BY <1>1, HeadFacts
<1>4. handled \in [UpdateIds -> Nat] /\ poll \in Polls /\ Len(sent) \in Nat
  BY FieldFacts DEF PollInv, Types
<1>5. /\ handled' \in [UpdateIds -> Nat] /\ handled'[Id] = handled[Id] + 1
      /\ \A i \in UpdateIds : i # Id => handled'[i] = handled[i]
  BY <1>1, <1>3, <1>4
<1>6. /\ poll'.batch = Tail(poll.batch) /\ poll'.on /\ poll' \in Polls
      /\ Len(poll'.batch) = Len(poll.batch) - 1
      /\ \A k \in 1..Len(poll'.batch) : poll'.batch[k] = poll.batch[k + 1]
  <2>1. poll.batch \in Seq(Nat) /\ Tail(poll.batch) \in Seq(Nat)
    BY <1>1, FieldFacts DEF PollInv
  <2> QED
    BY <1>1, <1>4, <2>1, HeadTailProperties DEF Polls
<1>7. Types'
  BY <1>1, <1>2, <1>3, <1>4, <1>5, <1>6 DEF PollInv, Types
<1>8. \A i \in 1..Len(sent) : i < Id + 1 => handled'[i] > 0
  <2> TAKE i \in 1..Len(sent)
  <2>1. i \in UpdateIds
    BY FieldFacts DEF PollInv
  <2>2. handled[i] \in Nat /\ handled[Id] \in Nat
    BY <1>3, <1>4, <2>1
  <2> QED
    BY <1>3, <1>5, <2>1, <2>2
<1>9. Progress'
  <2>1. \A i \in 1..Len(sent) : i <= confirmed => handled'[i] > 0
    <3> TAKE i \in 1..Len(sent)
    <3>1. i \in UpdateIds
      BY FieldFacts DEF PollInv
    <3>2. i <= confirmed => handled[i] > 0
      BY DEF PollInv, Progress
    <3> QED
      BY <1>4, <1>5, <3>1, <3>2
  <2>2. stored <= Id /\ stored' = stored
    BY <1>3 DEF PollInv, Types
  <2>3. \A i \in 1..Len(sent) : i <= stored \/ i <= Id => i < Id + 1
    BY <1>3, <2>2 DEF PollInv, Types
  <2> QED
    BY <1>1, <1>2, <1>8, <2>1, <2>2, <2>3 DEF Progress
<1>10. BatchInv'
  <2>1. Len(poll.batch) \in Nat
    BY FieldFacts DEF PollInv
  <2>2. \A k \in 1..Len(poll.batch) :
           poll.batch[k] = Id + k - 1 /\ poll.batch[k] \in 1..Len(sent)
    BY <1>1, <1>3 DEF PollInv, BatchInv
  <2>3. \A k \in 1..Len(poll'.batch) :
           poll'.batch[k] = Id + k /\ poll'.batch[k] \in 1..Len(sent)
    <3> TAKE k \in 1..Len(poll'.batch)
    <3>1. k + 1 \in 1..Len(poll.batch)
      BY <1>6, <2>1
    <3>2. poll.batch[k + 1] = Id + (k + 1) - 1 /\ poll.batch[k + 1] \in 1..Len(sent)
      BY <2>2, <3>1
    <3> QED
      BY <1>3, <1>6, <3>2
  <2>4. poll'.batch # <<>> => poll'.batch[1] = Id + 1
    <3>1. poll'.batch \in Seq(Nat)
      BY <1>6 DEF Polls
    <3>2. poll'.batch # <<>> => 1 \in 1..Len(poll'.batch)
      BY <3>1
    <3> QED
      BY <2>3, <3>2
  <2>5. \A k \in 1..Len(poll'.batch) : poll'.batch[k] = poll'.batch[1] + k - 1
    <3> TAKE k \in 1..Len(poll'.batch)
    <3>1. 1 \in 1..Len(poll'.batch)
      BY <1>6, <2>1
    <3>2. poll'.batch[1] = Id + 1
      BY <2>3, <3>1
    <3> QED
      BY <1>3, <2>3, <3>2
  <2>6. \A k \in 1..Len(poll'.batch) :
           poll'.batch[k] = poll'.batch[1] + k - 1 /\ poll'.batch[k] \in 1..Len(sent')
    BY <1>1, <2>3, <2>5
  <2>7. poll'.batch # <<>> =>
          /\ poll'.batch[1] > last'
          /\ \A i \in 1..Len(sent') : i < poll'.batch[1] => handled'[i] > 0
    BY <1>1, <1>2, <1>3, <1>8, <2>4
  <2>8. last' >= 0
    BY <1>2, <1>3
  <2> QED
    BY <2>6, <2>7, <2>8 DEF BatchInv
<1>11. Repeats'
  <2>1. Loaded = last /\ Loaded' = Id
    BY <1>2, <1>3 DEF Loaded, PollInv, Types
  <2> SUFFICES ASSUME NEW i \in UpdateIds
               PROVE  /\ i \in 1..Len(sent) /\ sent[i].asks = "reset" =>
                            handled'[i] <= failures.saves + (IF i <= stored THEN 1 ELSE 0)
                      /\ i \in 1..Len(sent) /\ sent[i].asks # "reset" =>
                            handled'[i] <= failures.saves + failures.crashes
                                           + (IF i <= Id THEN 1 ELSE 0)
                      /\ i \notin 1..Len(sent) => handled'[i] = 0
    BY <1>1, <2>1 DEF Repeats
  <2>2. CASE i = Id
    <3>1. sent[i].asks # "reset" /\ i \in 1..Len(sent)
      BY <1>3, <2>2 DEF Current
    <3>2. handled[i] <= failures.saves + failures.crashes + (IF i <= last THEN 1 ELSE 0)
      BY <2>1, <3>1 DEF PollInv, Repeats
    <3>3. handled[i] \in Nat /\ failures.saves \in Nat /\ failures.crashes \in Nat /\ ~(i <= last)
      BY <1>3, <1>4, <2>2, FieldFacts DEF PollInv, Types
    <3>4. handled'[i] = handled[i] + 1 /\ i <= Id
      BY <1>3, <1>5, <2>2
    <3> QED
      BY <3>1, <3>2, <3>3, <3>4
  <2>3. CASE i # Id
    <3>1. handled'[i] = handled[i]
      BY <1>5, <2>3
    <3>2. i \in Int /\ last \in Int /\ Id \in Int /\ (i <= last => i <= Id)
      BY <1>3 DEF PollInv, Types, UpdateIds
    <3>3. handled[i] \in Nat /\ failures.saves \in Nat /\ failures.crashes \in Nat
      BY <1>4, FieldFacts DEF PollInv
    <3> QED
      BY <2>1, <3>1, <3>2, <3>3 DEF PollInv, Repeats
  <2> QED
    BY <2>2, <2>3
<1> QED
  BY <1>7, <1>9, <1>10, <1>11

-----------------------------------------------------------------------------
(***************************************************************************)
(* The handlers and the end of a poll                                      *)
(***************************************************************************)
\* Each handler but that of /reset takes its update and minds the arm.
LEMMA HandleKeeps ==
    ASSUME PollInv, HandleOther \/ HandleRestore \/ HandleFile
    PROVE  PollInv'
<1>1. Taken /\ Current.asks # "reset" /\ UNCHANGED <<stored, failures>>
  BY DEF HandleOther, HandleRestore, HandleFile
<1>2. Current.from \in Users
  BY <1>1, HeadFacts DEF Taken
<1>3. arm' \in Arms /\ ArmAsked'
  <2>1. CASE HandleOther
    BY <2>1 DEF HandleOther, PollInv, Types, ArmAsked
  <2>2. CASE HandleRestore
    BY <1>2, <2>2 DEF HandleRestore, ArmAsked, Arms
  <2>3. CASE HandleFile
    <3>1. arm' = (IF Armed(Current) THEN NoArm ELSE arm) /\ asked' = asked \ {Current.from}
      BY <2>3 DEF HandleFile
    <3>2. CASE Armed(Current)
      BY <3>1, <3>2 DEF ArmAsked, Arms, NoArm
    <3>3. CASE ~Armed(Current)
      BY <3>1, <3>3 DEF ArmAsked, Armed, PollInv, Types
    <3> QED
      BY <3>2, <3>3
  <2> QED
    BY <2>1, <2>2, <2>3
<1> QED
  BY <1>1, <1>3, TakenKeeps DEF PollInv

\* What a restart leaves when the mark in NVS is where it was, or was moved to
\* `id` by a save that may fail, and everything up to `id` has been handled.
LEMMA BootedKeeps ==
    ASSUME PollInv, Booted, UNCHANGED <<sent, confirmed>>,
           handled' \in [UpdateIds -> Nat], failures' \in Counts,
           stored' \in 0..Len(sent),
           \A i \in 1..Len(sent) : handled[i] > 0 \/ i <= stored' => handled'[i] > 0,
           Repeats'
    PROVE  PollInv'
<1>1. last' = -1 /\ poll' = NoPoll /\ arm' = NoArm /\ Len(sent) \in Nat
  BY FieldFacts DEF Booted, PollInv
<1>2. NoPoll \in Polls /\ NoArm \in Arms
  <2>1. <<>> \in Seq(Nat)
    OBVIOUS
  <2> QED
    BY <2>1 DEF NoPoll, NoArm, Polls, Arms
<1>3. Types'
  BY <1>1, <1>2 DEF PollInv, Types
<1>4. Progress'
  BY <1>1 DEF PollInv, Progress, Types
<1>5. BatchInv' /\ ArmAsked'
  BY <1>1 DEF BatchInv, ArmAsked, NoPoll, NoArm
<1> QED
  BY <1>3, <1>4, <1>5 DEF PollInv

\* A crash excuses one more repetition of what is no reset.
LEMMA CrashKeeps ==
    ASSUME PollInv, Crash
    PROVE  PollInv'
<1>1. /\ Booted /\ UNCHANGED <<sent, confirmed, stored, handled>>
      /\ failures' = [failures EXCEPT !.crashes = @ + 1]
  BY DEF Crash
<1>2. /\ failures' \in Counts /\ failures'.saves = failures.saves
      /\ failures'.crashes = failures.crashes + 1
  BY <1>1 DEF PollInv, Types, Counts
<1>3. Repeats'
  <2>1. Loaded' = stored /\ stored \in Int
    BY <1>1 DEF Loaded, Booted, PollInv, Types
  <2>2. ASSUME NEW i \in UpdateIds
        PROVE  /\ i \in 1..Len(sent) /\ sent[i].asks = "reset" =>
                     handled[i] <= failures.saves + (IF i <= stored THEN 1 ELSE 0)
               /\ i \in 1..Len(sent) /\ sent[i].asks # "reset" =>
                     handled[i] <= failures.saves + failures'.crashes
                                   + (IF i <= stored THEN 1 ELSE 0)
               /\ i \notin 1..Len(sent) => handled[i] = 0
    <3>1. /\ failures.saves \in Nat /\ failures.crashes \in Nat
          /\ handled[i] \in Nat /\ i \in Int
      BY <2>2, FieldFacts DEF PollInv, Types, UpdateIds
    <3> QED
      BY <1>2, <2>1, <2>2, <3>1 DEF PollInv, Repeats
  <2> QED
    BY <1>1, <1>2, <2>1, <2>2 DEF Repeats
<1> QED
  BY <1>1, <1>2, <1>3, BootedKeeps DEF PollInv, Types, Progress

\* A save of the id: done, or refused and counted.
LEMMA StoresFacts ==
    ASSUME PollInv, NEW id, Stores(id)
    PROVE  /\ failures' \in Counts /\ failures'.crashes = failures.crashes
           /\ \/ stored' = id /\ failures'.saves = failures.saves
              \/ stored' = stored /\ failures'.saves = failures.saves + 1
BY DEF Stores, PollInv, Types, Counts

\* A reset stores its own id before the restart, or the refused save excuses a
\* repetition.
LEMMA HandleResetKeeps ==
    ASSUME PollInv, HandleReset
    PROVE  PollInv'
<1>1. /\ poll.on /\ poll.batch # <<>> /\ Current.asks = "reset"
      /\ handled' = [handled EXCEPT ![Id] = @ + 1]
      /\ Booted /\ UNCHANGED <<sent, confirmed>>
  BY DEF HandleReset
<1>2. Stores(Id)
  BY <1>1, HeadFacts DEF HandleReset, ResetStores
<1>3. /\ Id \in 1..Len(sent) /\ Id \in UpdateIds /\ Id > last /\ last >= 0 /\ Id > stored
      /\ \A i \in 1..Len(sent) : i < Id => handled[i] > 0
  BY <1>1, HeadFacts
<1>4. handled \in [UpdateIds -> Nat] /\ Len(sent) \in Nat /\ stored \in 0..Len(sent)
  BY FieldFacts DEF PollInv, Types
<1>5. /\ handled' \in [UpdateIds -> Nat] /\ handled'[Id] = handled[Id] + 1
      /\ \A i \in UpdateIds : i # Id => handled'[i] = handled[i]
  BY <1>1, <1>3, <1>4
<1>6. stored' \in 0..Len(sent) /\ failures' \in Counts
  BY <1>2, <1>3, <1>4, StoresFacts
<1>7. \A i \in 1..Len(sent) : handled[i] > 0 \/ i <= stored' => handled'[i] > 0
  <2> SUFFICES ASSUME NEW i \in 1..Len(sent), handled[i] > 0 \/ i <= stored'
               PROVE  handled'[i] > 0
    OBVIOUS
  <2>1. i \in UpdateIds /\ handled[i] \in Nat /\ handled[Id] \in Nat
    BY <1>3, <1>4, FieldFacts DEF PollInv
  <2>2. CASE i = Id
    BY <1>5, <2>1, <2>2
  <2>3. CASE i # Id
    <3>1. i <= stored' => i < Id
      BY <1>2, <1>3, <1>4, <2>3, StoresFacts
    <3> QED
      BY <1>3, <1>5, <2>1, <2>3, <3>1
  <2> QED
    BY <2>2, <2>3
<1>8. Repeats'
  <2>1. Loaded = last /\ Loaded' = stored'
    BY <1>1, <1>3 DEF Loaded, Booted, PollInv, Types
  <2>2. /\ failures.saves \in Nat /\ failures.crashes \in Nat
        /\ failures'.saves \in Nat /\ failures'.crashes = failures.crashes
    BY <1>2, <1>6, FieldFacts, StoresFacts DEF PollInv, Counts
  <2> SUFFICES ASSUME NEW i \in UpdateIds
               PROVE  /\ i \in 1..Len(sent) /\ sent[i].asks = "reset" =>
                            handled'[i] <= failures'.saves + (IF i <= stored' THEN 1 ELSE 0)
                      /\ i \in 1..Len(sent) /\ sent[i].asks # "reset" =>
                            handled'[i] <= failures'.saves + failures.crashes
                                           + (IF i <= stored' THEN 1 ELSE 0)
                      /\ i \notin 1..Len(sent) => handled'[i] = 0
    BY <1>1, <2>1, <2>2 DEF Repeats
  <2>3. i \in Int /\ handled[i] \in Nat /\ last \in Int /\ stored \in Int
    BY <1>4 DEF UpdateIds, PollInv, Types
  <2>4. CASE i = Id
    <3>1. i \in 1..Len(sent) /\ sent[i].asks = "reset" /\ handled'[i] = handled[i] + 1
      BY <1>1, <1>3, <1>5, <2>4 DEF Current
    <3>2. handled[i] <= failures.saves
      BY <1>3, <2>2, <2>3, <2>4, <3>1 DEF PollInv, Repeats
    <3>3. failures'.saves + (IF i <= stored' THEN 1 ELSE 0) >= failures.saves + 1
      BY <1>2, <1>3, <2>2, <2>3, <2>4, StoresFacts
    <3> QED
      BY <1>6, <2>2, <2>3, <3>1, <3>2, <3>3
  <2>5. CASE i # Id
    <3>1. handled'[i] = handled[i]
      BY <1>5, <2>5
    <3>2. /\ stored' \in Int
          /\ i <= stored => i <= stored'
          /\ failures'.saves + (IF i <= stored' THEN 1 ELSE 0)
                >= failures.saves + (IF i <= last THEN 1 ELSE 0)
      BY <1>2, <1>3, <2>2, <2>3, StoresFacts
    <3>3. failures'.saves >= failures.saves
      BY <1>2, <2>2, StoresFacts
    <3>4. i \in 1..Len(sent) /\ sent[i].asks = "reset" =>
            handled[i] <= failures'.saves + (IF i <= stored' THEN 1 ELSE 0)
      BY <2>2, <2>3, <3>2, <3>3 DEF PollInv, Repeats
    <3>5. i \in 1..Len(sent) /\ sent[i].asks # "reset" =>
            handled[i] <= failures'.saves + failures.crashes + (IF i <= stored' THEN 1 ELSE 0)
      BY <2>1, <2>2, <2>3, <3>2 DEF PollInv, Repeats
    <3> QED
      BY <3>1, <3>4, <3>5 DEF PollInv, Repeats
  <2> QED
    BY <2>4, <2>5
<1> QED
  BY <1>1, <1>5, <1>6, <1>7, <1>8, BootedKeeps

\* The end of a poll moves the mark in NVS up to the one in RAM.
LEMMA PollEndKeeps ==
    ASSUME PollInv, PollEnd
    PROVE  PollInv'
<1>1. /\ poll.on /\ poll' = NoPoll
      /\ UNCHANGED <<sent, confirmed, last, arm, handled, asked>>
      /\ Stores(last) \/ UNCHANGED <<stored, failures>>
  BY DEF PollEnd
<1>2. last >= 0 /\ last \in 0..Len(sent) /\ stored <= last /\ stored \in 0..Len(sent)
  BY <1>1 DEF PollInv, BatchInv, Types, Progress
<1>3. /\ stored' \in {stored, last} /\ stored <= stored' /\ stored' <= last
      /\ failures' \in Counts /\ failures'.crashes = failures.crashes
      /\ failures'.saves \in {failures.saves, failures.saves + 1}
  BY <1>1, <1>2, StoresFacts DEF PollInv, Types
<1>4. NoPoll \in Polls
  <2>1. <<>> \in Seq(Nat)
    OBVIOUS
  <2> QED
    BY <2>1 DEF NoPoll, Polls
<1>5. Types'
  BY <1>1, <1>2, <1>3, <1>4 DEF PollInv, Types
<1>6. Progress'
  BY <1>1, <1>2, <1>3 DEF PollInv, Progress, Types
<1>7. BatchInv' /\ ArmAsked'
  BY <1>1 DEF BatchInv, NoPoll, PollInv, ArmAsked
<1>8. Repeats'
  <2>1. Loaded = last /\ Loaded' = last
    BY <1>1, <1>2 DEF Loaded
  <2> SUFFICES ASSUME NEW i \in UpdateIds
               PROVE  /\ i \in 1..Len(sent) /\ sent[i].asks = "reset" =>
                            handled[i] <= failures'.saves + (IF i <= stored' THEN 1 ELSE 0)
                      /\ i \in 1..Len(sent) /\ sent[i].asks # "reset" =>
                            handled[i] <= failures'.saves + failures.crashes
                                          + (IF i <= last THEN 1 ELSE 0)
                      /\ i \notin 1..Len(sent) => handled[i] = 0
    BY <1>1, <1>3, <2>1 DEF Repeats
  <2>2. /\ i \in Int /\ stored \in Int /\ stored' \in Int /\ handled[i] \in Nat
        /\ failures.saves \in Nat /\ failures.crashes \in Nat
    BY <1>2, <1>3, FieldFacts DEF UpdateIds, PollInv, Types
  <2>3. i <= stored => i <= stored'
    BY <1>3, <2>2
  <2>4. failures'.saves \in Nat /\ failures'.saves >= failures.saves
    BY <1>3, <2>2
  <2>5. i \in 1..Len(sent) /\ sent[i].asks = "reset" =>
          handled[i] <= failures'.saves + (IF i <= stored' THEN 1 ELSE 0)
    BY <2>2, <2>3, <2>4 DEF PollInv, Repeats
  <2>6. i \in 1..Len(sent) /\ sent[i].asks # "reset" =>
          handled[i] <= failures'.saves + failures.crashes + (IF i <= last THEN 1 ELSE 0)
    BY <1>2, <2>1, <2>2, <2>4 DEF PollInv, Repeats
  <2> QED
    BY <2>5, <2>6 DEF PollInv, Repeats
<1> QED
  BY <1>5, <1>6, <1>7, <1>8 DEF PollInv

\* The arm's stamp grows older.
LEMMA ArmAgesKeeps ==
    ASSUME PollInv, ArmAges
    PROVE  PollInv'
<1>1. /\ arm' = [arm EXCEPT !.age = (@ + 1) % ClockRange]
      /\ UNCHANGED <<sent, confirmed, stored, last, poll, handled, failures, asked>>
      /\ arm \in Arms
  BY DEF ArmAges, PollInv, Types
<1>2. arm.age \in Int /\ ClockRange \in Nat \ {0}
  BY <1>1, PollAssumption DEF Arms
<1>3. (arm.age + 1) % ClockRange \in Int
  BY <1>2
<1>4. arm' \in Arms /\ arm'.from = arm.from
  BY <1>1, <1>3 DEF Arms
<1> QED
  BY <1>1, <1>4 DEF PollInv, Types, Progress, BatchInv, Repeats, ArmAsked, Loaded

-----------------------------------------------------------------------------
\* What every reachable state of the command channel keeps
\* (pollTelegramCommands).
THEOREM PollInvariant == PollSpec => []PollInv
<1>1. PollInv /\ [PollNext]_pollVars => PollInv'
  <2> SUFFICES ASSUME PollInv, [PollNext]_pollVars PROVE PollInv'
    OBVIOUS
  <2>1. CASE PollNext
    BY <2>1, SendKeeps, PollStartKeeps, PollFailsKeeps, HandleKeeps,
       HandleResetKeeps, PollEndKeeps, CrashKeeps, ArmAgesKeeps DEF PollNext
  <2>2. CASE UNCHANGED pollVars
    BY <2>2 DEF pollVars, PollInv, Types, Progress, BatchInv, Repeats, ArmAsked, Loaded
  <2> QED
    BY <2>1, <2>2
<1> QED
  BY <1>1, PollInvInit, PTL DEF PollSpec

\* No command is lost, whatever crashes and saves fail between two steps of a
\* poll (pollTelegramCommands, saveLastUpdateId).
THEOREM PollSkipsNothing == PollSpec => []NoUpdateSkipped
<1>1. PollInv => NoUpdateSkipped
  <2>1. PollInv => DOMAIN sent = 1..Len(sent)
    BY FieldFacts DEF PollInv
  <2> QED
    BY <2>1 DEF PollInv, Progress, NoUpdateSkipped
<1> QED
  BY <1>1, PollInvariant, PTL

\* A command is repeated only after a crash or a refused save, a /reset only
\* after a refused save.
THEOREM PollRepeatsExcused == PollSpec => []RepeatsNeedFailure
<1>1. PollInv => RepeatsNeedFailure
  <2> SUFFICES ASSUME PollInv, NEW i \in DOMAIN sent
               PROVE  handled[i] <= 1 + failures.saves
                         + (IF sent[i].asks = "reset" THEN 0 ELSE failures.crashes)
    BY DEF RepeatsNeedFailure
  <2>1. i \in 1..Len(sent) /\ i \in UpdateIds
    BY FieldFacts DEF PollInv
  <2>2. handled[i] \in Nat /\ failures.saves \in Nat /\ failures.crashes \in Nat
    BY <2>1, FieldFacts DEF PollInv, Types
  <2> QED
    BY <2>1, <2>2 DEF PollInv, Repeats
<1> QED
  BY <1>1, PollInvariant, PTL

\* A bare file is taken for a configuration only from a user who asked to
\* restore one (handleTelegramDocument).
THEOREM PollRestoresAsked == PollSpec => RestoreWasAskedFor
<1> DEFINE BareRestore == HandleFile /\ Current.asks = "file" /\ IsRestore(Current)
<1>1. PollInv /\ [PollNext]_pollVars => [BareRestore => Current.from \in asked]_pollVars
  <2> SUFFICES ASSUME PollInv, BareRestore PROVE Current.from \in asked
    OBVIOUS
  <2>1. arm.from = Current.from
    BY DEF IsRestore, ArmStands, Armed
  <2>2. Current.from \in Users
    BY HeadFacts DEF HandleFile, Taken
  <2> QED
    BY <2>1, <2>2, PollAssumption DEF PollInv, ArmAsked
<1> QED
  BY <1>1, PollInvariant, PTL DEF PollSpec, RestoreWasAskedFor
=============================================================================
