-------------------------- MODULE ListStoreProofs --------------------------
(***************************************************************************)
(* Proofs about ListStore, for any number of records, size of a chunk and  *)
(* number of edits and faults: the text a list is written as and read back *)
(* from, then a save on its way through the keys, then the steps.          *)
(***************************************************************************)
EXTENDS ListStore, FiniteSetTheorems, FunctionTheorems, SequenceTheorems,
        WellFoundedInduction, TLAPS

----------------------------------------------------------------------------
(***************************************************************************)
(* Orders                                                                  *)
(***************************************************************************)
\* Every set of naturals with a member has a least one.
LEMMA LeastOf ==
    ASSUME NEW S \in SUBSET Nat, S # {}
    PROVE  \E x \in S : \A y \in S : x <= y
<1>1. PICK x \in S : \A y \in S : ~(<<y, x>> \in OpToRel(<, Nat))
  BY NatLessThanWellFounded, WFMin
<1>2. \A y \in S : ~(y < x)
  BY <1>1 DEF OpToRel
<1> QED BY <1>2

\* An order of a finite set numbers its members.
LEMMA Ranking ==
    ASSUME NEW S, IsFiniteSet(S), NEW Lt,
           \A x \in S : <<x, x>> \notin Lt,
           \A x, y, z \in S : <<x, y>> \in Lt /\ <<y, z>> \in Lt => <<x, z>> \in Lt,
           \A x, y \in S : x # y => <<x, y>> \in Lt \/ <<y, x>> \in Lt
    PROVE  \E f \in Bijection(1..Cardinality(S), S) :
             \A i, j \in 1..Cardinality(S) : i < j => <<f[i], f[j]>> \in Lt
<1> DEFINE n == Cardinality(S)
           Upto(x) == {y \in S : y = x \/ <<y, x>> \in Lt}
           rank == [x \in S |-> Cardinality(Upto(x))]
<1>0. n \in Nat
  BY FS_CardinalityType
<1>1. \A x \in S : rank[x] \in 1..n
  <2> SUFFICES ASSUME NEW x \in S PROVE rank[x] \in 1..n
    OBVIOUS
  <2>1. Upto(x) \in SUBSET S
    OBVIOUS
  <2>2. IsFiniteSet(Upto(x)) /\ Cardinality(Upto(x)) <= n
    BY <2>1, FS_Subset
  <2>3. Cardinality(Upto(x)) \in Nat
    BY <2>2, FS_CardinalityType
  <2>4. Cardinality(Upto(x)) # 0
    <3>1. x \in Upto(x)
      OBVIOUS
    <3>2. Upto(x) # {}
      BY <3>1
    <3> HIDE DEF Upto
    <3> QED BY <3>2, <2>2, FS_EmptySet
  <2> HIDE DEF Upto, n
  <2> QED BY <2>2, <2>3, <2>4, <1>0
<1>2. \A x, y \in S : <<x, y>> \in Lt => rank[x] < rank[y]
  <2> SUFFICES ASSUME NEW x \in S, NEW y \in S, <<x, y>> \in Lt
               PROVE  rank[x] < rank[y]
    OBVIOUS
  <2>1. Upto(x) \in SUBSET Upto(y)
    OBVIOUS
  <2>2. y \in Upto(y) /\ y \notin Upto(x)
    OBVIOUS
  <2>3. IsFiniteSet(Upto(y))
    <3>1. Upto(y) \in SUBSET S
      OBVIOUS
    <3> QED BY <3>1, FS_Subset
  <2>4. rank[x] = Cardinality(Upto(x)) /\ rank[y] = Cardinality(Upto(y))
    OBVIOUS
  <2>5. rank[x] \in Nat /\ rank[y] \in Nat
    BY <1>1, <1>0
  <2>6. Upto(y) # Upto(x)
    BY <2>2
  <2> HIDE DEF Upto, rank
  <2>7. Cardinality(Upto(x)) <= Cardinality(Upto(y)) /\ Cardinality(Upto(y)) # Cardinality(Upto(x))
    BY <2>1, <2>3, <2>6, FS_Subset
  <2> QED BY <2>4, <2>5, <2>7
<1>3. rank \in Injection(S, 1..n)
  <2>1. rank \in [S -> 1..n]
    BY <1>1
  <2>2. ASSUME NEW x \in S, NEW y \in S, rank[x] = rank[y]
        PROVE  x = y
    <3>1. rank[x] \in Nat /\ rank[y] \in Nat
      BY <1>1, <1>0
    <3>2. ~(rank[x] < rank[y]) /\ ~(rank[y] < rank[x])
      BY <3>1, <2>2
    <3> HIDE DEF rank
    <3> QED BY <3>2, <1>2
  <2>3. DOMAIN rank = S
    OBVIOUS
  <2> HIDE DEF rank
  <2> QED BY <2>1, <2>2, <2>3 DEF Injection, IsInjective
<1>4. IsFiniteSet(1..n) /\ Cardinality(1..n) = n
  BY <1>0, FS_Interval
<1>5. rank \in Surjection(S, 1..n)
  <2> HIDE DEF rank
  <2> QED BY <1>3, <1>4, FS_Injection
<1>6. \A i \in 1..n : \E x \in S : rank[x] = i
  <2> HIDE DEF rank
  <2> QED BY <1>5 DEF Surjection
<1> DEFINE f == [i \in 1..n |-> CHOOSE x \in S : rank[x] = i]
<1>7. \A i \in 1..n : f[i] \in S /\ rank[f[i]] = i
  <2> HIDE DEF rank
  <2> QED BY <1>6
<1>8. \A x \in S : f[rank[x]] = x
  <2>1. \A x, y \in S : rank[x] = rank[y] => x = y
    <3> HIDE DEF rank
    <3> QED BY <1>3 DEF Injection, IsInjective
  <2> HIDE DEF rank, f
  <2> QED BY <1>1, <1>7, <2>1
<1>9. f \in Bijection(1..n, S)
  <2>1. f \in [1..n -> S]
    BY <1>7
  <2>2. DOMAIN f = 1..n
    OBVIOUS
  <2> HIDE DEF rank, f
  <2>3. \A a, b \in 1..n : f[a] = f[b] => a = b
    BY <1>7
  <2> QED BY <1>1, <1>8, <2>1, <2>2, <2>3 DEF Bijection, Injection, Surjection, IsInjective
<1>10. ASSUME NEW i \in 1..n, NEW j \in 1..n, i < j
       PROVE  <<f[i], f[j]>> \in Lt
  <2> HIDE DEF rank, f
  <2>1. f[i] # f[j]
    BY <1>7, <1>10
  <2>2. <<f[j], f[i]>> \notin Lt
    BY <1>7, <1>2, <1>0, <1>10
  <2> QED BY <2>1, <2>2, <1>7
<1> QED
  <2> HIDE DEF f
  <2> QED BY <1>9, <1>10
\* A finite set of naturals can be listed in ascending order.
LEMMA AscendingOrder ==
    ASSUME NEW S \in SUBSET Nat, IsFiniteSet(S)
    PROVE  /\ Cardinality(S) \in Nat
           /\ Ascending(S) \in Bijection(1..Cardinality(S), S)
           /\ \A i, j \in 1..Cardinality(S) : i < j => Ascending(S)[i] < Ascending(S)[j]
<1> DEFINE n == Cardinality(S)
           Lt == {q \in Nat \X Nat : q[1] < q[2]}
           Orderly(f) == \A i, j \in DOMAIN f : i < j => f[i] < f[j]
<1>0. n \in Nat
  BY FS_CardinalityType
<1>1. \A x, y \in Nat : <<x, y>> \in Lt <=> x < y
  OBVIOUS
<1>2. PICK f \in Bijection(1..n, S) : \A i, j \in 1..n : i < j => <<f[i], f[j]>> \in Lt
  <2>1. \A x \in S : <<x, x>> \notin Lt
    BY <1>1
  <2>2. \A x, y, z \in S : <<x, y>> \in Lt /\ <<y, z>> \in Lt => <<x, z>> \in Lt
    BY <1>1
  <2>3. \A x, y \in S : x # y => <<x, y>> \in Lt \/ <<y, x>> \in Lt
    BY <1>1
  <2> HIDE DEF Lt
  <2> QED BY <2>1, <2>2, <2>3, Ranking
<1>3. f \in [1..n -> S] /\ Orderly(f)
  <2>1. f \in [1..n -> S]
    BY DEF Bijection, Injection
  <2>2. \A i \in 1..n : f[i] \in Nat
    BY <2>1
  <2> QED BY <2>1, <2>2, <1>1, <1>2
<1>4. Ascending(S) \in [1..n -> S] /\ Orderly(Ascending(S))
  BY <1>3 DEF Ascending
<1> DEFINE g == Ascending(S)
<1>5. \A i, j \in 1..n : i < j => g[i] < g[j]
  BY <1>4
<1>6. g \in Injection(1..n, S)
  <2>1. \A i \in 1..n : g[i] \in Nat
    BY <1>4
  <2>2. \A i, j \in 1..n : g[i] = g[j] => i = j
    <3> SUFFICES ASSUME NEW i \in 1..n, NEW j \in 1..n, g[i] = g[j], i # j
                 PROVE  FALSE
      OBVIOUS
    <3>1. i < j \/ j < i
      BY <1>0
    <3> HIDE DEF g, n
    <3> QED BY <3>1, <2>1, <1>5
  <2>3. g \in [1..n -> S] /\ DOMAIN g = 1..n
    BY <1>4
  <2> HIDE DEF g
  <2> QED BY <2>2, <2>3 DEF Injection, IsInjective
<1>7. IsFiniteSet(1..n) /\ Cardinality(1..n) = n
  BY <1>0, FS_Interval
<1>8. g \in Surjection(1..n, S)
  <2> HIDE DEF g
  <2> QED BY <1>6, <1>7, FS_Injection
<1>9. g \in Bijection(1..n, S)
  BY <1>6, <1>8 DEF Bijection
<1> QED BY <1>0, <1>5, <1>9

\* What is sorted by the sort.
LEMMA SortOrder ==
    ASSUME NEW n \in Nat, NEW key \in [1..n -> Nat]
    PROVE  \E p \in Bijection(1..n, 1..n) :
             \A i, j \in 1..n : i < j => key[p[i]] <= key[p[j]]
<1> DEFINE Lt == {q \in (1..n) \X (1..n) :
                    key[q[1]] < key[q[2]] \/ (key[q[1]] = key[q[2]] /\ q[1] < q[2])}
<1>1. \A x, y \in 1..n : <<x, y>> \in Lt <=>
          key[x] < key[y] \/ (key[x] = key[y] /\ x < y)
  OBVIOUS
<1>2. \A x \in 1..n : key[x] \in Nat
  OBVIOUS
<1>3. IsFiniteSet(1..n) /\ Cardinality(1..n) = n
  BY FS_Interval
<1>4. \A x \in 1..n : <<x, x>> \notin Lt
  BY <1>1, <1>2
<1>5. \A x, y, z \in 1..n : <<x, y>> \in Lt /\ <<y, z>> \in Lt => <<x, z>> \in Lt
  <2> SUFFICES ASSUME NEW x \in 1..n, NEW y \in 1..n, NEW z \in 1..n,
                      <<x, y>> \in Lt, <<y, z>> \in Lt
               PROVE  <<x, z>> \in Lt
    OBVIOUS
  <2>1. key[x] \in Nat /\ key[y] \in Nat /\ key[z] \in Nat
    BY <1>2
  <2> HIDE DEF Lt
  <2> QED BY <2>1, <1>1
<1>6. \A x, y \in 1..n : x # y => <<x, y>> \in Lt \/ <<y, x>> \in Lt
  <2> SUFFICES ASSUME NEW x \in 1..n, NEW y \in 1..n, x # y
               PROVE  <<x, y>> \in Lt \/ <<y, x>> \in Lt
    OBVIOUS
  <2>1. key[x] \in Nat /\ key[y] \in Nat /\ (x < y \/ y < x)
    BY <1>2
  <2> HIDE DEF Lt
  <2> QED BY <2>1, <1>1
<1>7. PICK p \in Bijection(1..n, 1..n) : \A i, j \in 1..n : i < j => <<p[i], p[j]>> \in Lt
  <2> HIDE DEF Lt
  <2> QED BY <1>3, <1>4, <1>5, <1>6, Ranking
<1>8. \A i \in 1..n : p[i] \in 1..n
  BY DEF Bijection, Injection
<1>9. \A i, j \in 1..n : i < j => key[p[i]] <= key[p[j]]
  <2> SUFFICES ASSUME NEW i \in 1..n, NEW j \in 1..n, i < j
               PROVE  key[p[i]] <= key[p[j]]
    OBVIOUS
  <2>1. key[p[i]] \in Nat /\ key[p[j]] \in Nat
    BY <1>2, <1>8
  <2>2. <<p[i], p[j]>> \in Lt
    BY <1>7
  <2> HIDE DEF Lt
  <2>3. key[p[i]] < key[p[j]] \/ (key[p[i]] = key[p[j]] /\ p[i] < p[j])
    BY <2>2, <1>1, <1>8, Zenon
  <2> QED BY <2>1, <2>3
<1> QED BY <1>9

\* Only the identity lists 1..n in ascending order.
LEMMA AscendingIsIdentity ==
    ASSUME NEW n \in Nat, NEW p \in Bijection(1..n, 1..n),
           \A i, j \in 1..n : i < j => p[i] < p[j]
    PROVE  \A i \in 1..n : p[i] = i
<1> DEFINE Odd == {i \in 1..n : p[i] # i}
<1> SUFFICES ASSUME Odd # {} PROVE FALSE
  OBVIOUS
<1>1. /\ p \in [1..n -> 1..n]
      /\ \A i, j \in 1..n : p[i] = p[j] => i = j
      /\ \A k \in 1..n : \E m \in 1..n : p[m] = k
  BY DEF Bijection, Injection, Surjection, IsInjective
<1>2. PICK i \in Odd : \A k \in Odd : i <= k
  <2>1. Odd \in SUBSET Nat
    OBVIOUS
  <2> HIDE DEF Odd
  <2> QED BY <2>1, LeastOf
<1>3. i \in 1..n /\ p[i] \in 1..n /\ p[i] # i
  BY <1>1
<1>4. \A k \in 1..n : k < i => p[k] = k
  BY <1>2, <1>3
<1>5. p[i] > i
  <2>1. ~(p[i] < i)
    BY <1>1, <1>3, <1>4
  <2> QED BY <1>3, <2>1
<1>6. PICK m \in 1..n : p[m] = i
  BY <1>1, <1>3
<1>7. ~(m < i) /\ m # i
  BY <1>3, <1>4, <1>6
<1>8. p[i] < p[m]
  BY <1>3, <1>7
<1> QED BY <1>3, <1>5, <1>6, <1>8

----------------------------------------------------------------------------
(***************************************************************************)
(* Lists and texts                                                         *)
(***************************************************************************)
Rec == [name : Nat, id : Nat, v : 0..1, late : 0..1]

Piece ==
    [part : {"prose"}]
        \cup [part : {"head"}, name : Nat, id : Nat, v : 0..1]
        \cup [part : {"tail"}, late : 0..1, version : Nat]

Text == Seq(Piece)

Sorted(list) ==
    kind = "camera" =>
        \A i, j \in DOMAIN list : i < j => list[i].name <= list[j].name

\* The sort reorders the records, and makes no clash.
LEMMA ByNameFacts ==
    ASSUME NEW list \in Seq(Rec)
    PROVE  /\ ByName(list) \in Seq(Rec)
           /\ Len(ByName(list)) = Len(list)
           /\ Sorted(ByName(list))
           /\ ~Clashing(list) => ~Clashing(ByName(list))
           /\ ~Clashing(list) /\ Sorted(list) => ByName(list) = list
<1> DEFINE n == Len(list)
           Orderly(p) == \A i, j \in 1..n : i < j => list[p[i]].name <= list[p[j]].name
           order == CHOOSE p \in Bijection(1..n, 1..n) : Orderly(p)
<1>1. n \in Nat /\ DOMAIN list = 1..n /\ \A i \in 1..n : list[i] \in Rec
  BY LenProperties, ElementOfSeq
<1>2. CASE kind # "camera"
  BY <1>2 DEF ByName, Sorted
<1>3. CASE kind = "camera"
  <2>1. \A i \in 1..n : list[i].name \in Nat
    BY <1>1 DEF Rec
  <2>2. \E p \in Bijection(1..n, 1..n) : Orderly(p)
    <3> DEFINE key == [i \in 1..n |-> list[i].name]
    <3>1. key \in [1..n -> Nat]
      BY <2>1
    <3>2. PICK p \in Bijection(1..n, 1..n) :
             \A i, j \in 1..n : i < j => key[p[i]] <= key[p[j]]
      <4> HIDE DEF key, n
      <4> QED BY <1>1, <3>1, SortOrder
    <3>3. \A i \in 1..n : p[i] \in 1..n
      BY DEF Bijection, Injection
    <3>4. \A i \in 1..n : key[p[i]] = list[p[i]].name
      BY <3>3
    <3> HIDE DEF key, n
    <3> QED BY <3>2, <3>4
  <2>3. order \in Bijection(1..n, 1..n) /\ Orderly(order)
    <3> HIDE DEF n, Orderly
    <3> QED BY <2>2
  <2>4. ByName(list) = [i \in 1..n |-> list[order[i]]]
    BY <1>1, <1>3 DEF ByName
  <2> HIDE DEF order
  <2>5. /\ order \in [1..n -> 1..n]
        /\ \A i, j \in 1..n : order[i] = order[j] => i = j
    <3> HIDE DEF n, Orderly
    <3> QED BY <2>3 DEF Bijection, Injection, IsInjective
  <2>6. \A i \in 1..n : ByName(list)[i] = list[order[i]] /\ order[i] \in 1..n
    BY <2>4, <2>5
  <2>7. ByName(list) \in Seq(Rec) /\ Len(ByName(list)) = n
    <3>1. \A i \in 1..n : list[order[i]] \in Rec
      BY <1>1, <2>5
    <3> HIDE DEF n
    <3> QED BY <1>1, <2>4, <3>1
  <2>8. DOMAIN ByName(list) = 1..n
    BY <2>4
  <2>9. Sorted(ByName(list))
    BY <2>3, <2>6, <2>8 DEF Sorted
  <2>10. ASSUME ~Clashing(list) PROVE ~Clashing(ByName(list))
    <3>1. \A i, j \in 1..n : i < j => ~Clash(list[i], list[j])
      BY <1>1, <2>10 DEF Clashing
    <3>2. \A i, j \in 1..n : i # j => ~Clash(list[i], list[j])
      <4> SUFFICES ASSUME NEW i \in 1..n, NEW j \in 1..n, i # j
                   PROVE  ~Clash(list[i], list[j])
        OBVIOUS
      <4>1. i < j \/ j < i
        BY <1>1
      <4> QED BY <4>1, <3>1 DEF Clash
    <3>3. \A i, j \in 1..n : i < j => ~Clash(ByName(list)[i], ByName(list)[j])
      <4> SUFFICES ASSUME NEW i \in 1..n, NEW j \in 1..n, i < j
                   PROVE  ~Clash(ByName(list)[i], ByName(list)[j])
        OBVIOUS
      <4>1. i # j
        BY <1>1
      <4>2. order[i] # order[j] /\ order[i] \in 1..n /\ order[j] \in 1..n
        BY <2>5, <4>1
      <4>3. ~Clash(list[order[i]], list[order[j]])
        BY <3>2, <4>2
      <4> QED BY <4>3, <2>6
    <3> QED BY <2>8, <3>3 DEF Clashing
  <2>11. ASSUME ~Clashing(list), Sorted(list) PROVE ByName(list) = list
    <3>1. \A i, j \in 1..n : i < j => list[i].name < list[j].name
      <4> SUFFICES ASSUME NEW i \in 1..n, NEW j \in 1..n, i < j
                   PROVE  list[i].name < list[j].name
        OBVIOUS
      <4>1. ~Clash(list[i], list[j])
        BY <1>1, <2>11 DEF Clashing
      <4>2. list[i].name <= list[j].name
        BY <1>1, <1>3, <2>11 DEF Sorted
      <4>3. list[i].name \in Nat /\ list[j].name \in Nat
        BY <2>1
      <4> QED BY <4>1, <4>2, <4>3 DEF Clash
    <3>2. \A i, j \in 1..n : i < j => order[i] < order[j]
      <4> SUFFICES ASSUME NEW i \in 1..n, NEW j \in 1..n, i < j
                   PROVE  order[i] < order[j]
        OBVIOUS
      <4>1. order[i] \in 1..n /\ order[j] \in 1..n /\ order[i] # order[j]
        BY <2>5
      <4>2. list[order[i]].name <= list[order[j]].name
        BY <2>3
      <4>3. ~(order[j] < order[i])
        <5>1. list[order[i]].name \in Nat /\ list[order[j]].name \in Nat
          BY <2>1, <4>1
        <5> QED BY <3>1, <4>1, <4>2, <5>1
      <4> QED BY <4>1, <4>3
    <3>3. \A i \in 1..n : order[i] = i
      <4> HIDE DEF n, Orderly
      <4> QED BY <1>1, <2>3, <3>2, AscendingIsIdentity
    <3>4. ByName(list) = [i \in 1..n |-> list[i]]
      BY <2>4, <3>3
    <3>5. list = [i \in 1..n |-> list[i]]
      BY <1>1
    <3> QED BY <3>4, <3>5
  <2> QED BY <2>7, <2>9, <2>10, <2>11
<1> QED BY <1>2, <1>3

\* The current schemas, 8 and 6.
LEMMA CurrentIsPositive == Current \in Nat /\ Current # 0
BY DEF Current

\* What a parse finds are records, one for each place that parses, in order.
LEMMA ParseFacts ==
    ASSUME NEW text \in Text, NEW schema \in Nat
    PROVE  /\ Good(text, schema) \in SUBSET (1..Len(text))
           /\ IsFiniteSet(Good(text, schema))
           /\ Parse(text, schema).list \in Seq(Rec)
           /\ Len(Parse(text, schema).list) = Cardinality(Good(text, schema))
<1> DEFINE S == Good(text, schema)
           at == Ascending(S)
           n == Cardinality(S)
<1>1. Len(text) \in Nat /\ DOMAIN text = 1..Len(text) /\ \A p \in 1..Len(text) : text[p] \in Piece
  BY LenProperties, ElementOfSeq DEF Text
<1>2. S \in SUBSET (1..Len(text))
  BY <1>1 DEF Good, Starts
<1>3. IsFiniteSet(S)
  <2>1. IsFiniteSet(1..Len(text))
    BY <1>1, FS_Interval
  <2> HIDE DEF S
  <2> QED BY <1>2, <2>1, FS_Subset
<1>4. n \in Nat /\ at \in [1..n -> S]
  <2>1. S \in SUBSET Nat
    BY <1>2
  <2>2. n \in Nat /\ at \in Bijection(1..n, S)
    <3> HIDE DEF S
    <3> QED BY <1>3, <2>1, AscendingOrder
  <2> HIDE DEF at, n, S
  <2> QED BY <2>2 DEF Bijection, Injection
<1>5. \A p \in S : RecordAt(text, p, schema) \in Rec
  <2> SUFFICES ASSUME NEW p \in S PROVE RecordAt(text, p, schema) \in Rec
    OBVIOUS
  <2>1. p \in 1..Len(text) /\ text[p].part = "head"
    BY <1>1 DEF Good, Starts
  <2>2. p + 1 \in 1..Len(text) /\ text[p + 1].part = "tail"
    BY <1>1 DEF Good, ParsesAt
  <2>3. text[p].name \in Nat /\ text[p].id \in Nat /\ text[p].v \in 0..1
    BY <1>1, <2>1 DEF Piece
  <2>4. text[p + 1].late \in 0..1
    BY <1>1, <2>2 DEF Piece
  <2> QED BY <2>3, <2>4 DEF RecordAt, Rec
<1>6. Parse(text, schema).list = [i \in 1..n |-> RecordAt(text, at[i], schema)]
  <2>1. DOMAIN at = 1..n
    BY <1>4
  <2> HIDE DEF n
  <2> QED BY <2>1 DEF Parse
<1>7. \A i \in 1..n : RecordAt(text, at[i], schema) \in Rec
  <2> HIDE DEF at, S, n
  <2> QED BY <1>4, <1>5
<1> HIDE DEF at, S, n
<1>8. Parse(text, schema).list \in Seq(Rec) /\ Len(Parse(text, schema).list) = n
  BY <1>4, <1>6, <1>7
<1> QED BY <1>2, <1>3, <1>8 DEF S, n

\* An interval of naturals is as large as its upper end.
LEMMA OneToN ==
    ASSUME NEW n \in Nat
    PROVE  IsFiniteSet(1..n) /\ Cardinality(1..n) = n
BY FS_Interval

\* Two pieces for every record.
LEMMA ParseIsShort ==
    ASSUME NEW text \in Text, NEW schema \in Nat
    PROVE  2 * Len(Parse(text, schema).list) <= Len(text)
<1> DEFINE S == Good(text, schema)
           T == {p + 1 : p \in S}
           g == [p \in S |-> p + 1]
<1>1. Len(text) \in Nat /\ DOMAIN text = 1..Len(text)
  BY LenProperties DEF Text
<1>2. /\ \A p \in S : p \in 1..Len(text) /\ text[p].part = "head"
      /\ \A p \in S : p + 1 \in 1..Len(text) /\ text[p + 1].part = "tail"
  BY <1>1 DEF Good, Starts, ParsesAt
<1>3. IsFiniteSet(S) /\ Len(Parse(text, schema).list) = Cardinality(S)
  BY ParseFacts
<1> HIDE DEF S
<1>4. IsFiniteSet(T) /\ Cardinality(T) = Cardinality(S)
  <2>1. g \in [S -> T] /\ DOMAIN g = S /\ \A p \in S : g[p] = p + 1
    OBVIOUS
  <2>2. \A p \in S : p \in Nat
    BY <1>2
  <2> HIDE DEF g
  <2>3. \A a, b \in S : g[a] = g[b] => a = b
    BY <2>1, <2>2
  <2>4. \A x \in T : \E p \in S : g[p] = x
    BY <2>1
  <2> HIDE DEF T
  <2>5. g \in Bijection(S, T)
    BY <2>1, <2>3, <2>4 DEF Bijection, Injection, Surjection, IsInjective
  <2>6. ExistsBijection(S, T)
    BY <2>5 DEF ExistsBijection
  <2> QED BY <1>3, <2>6, FS_Bijection
<1>5. S \cap T = {}
  BY <1>2
<1>6. S \cup T \in SUBSET (1..Len(text))
  BY <1>2
<1> HIDE DEF T
<1>7. Cardinality(S \cup T) = Cardinality(S) + Cardinality(S)
  <2>1. Cardinality(S \cup T) = Cardinality(S) + Cardinality(T) - Cardinality(S \cap T)
    BY <1>3, <1>4, FS_Union
  <2>2. Cardinality(S \cap T) = 0
    BY <1>5, FS_EmptySet
  <2>3. Cardinality(S) \in Nat
    BY <1>3, FS_CardinalityType
  <2> QED BY <1>4, <2>1, <2>2, <2>3
<1>8. Cardinality(S \cup T) <= Len(text)
  <2>1. IsFiniteSet(1..Len(text)) /\ Cardinality(1..Len(text)) = Len(text)
    BY <1>1, OneToN
  <2> QED BY <1>6, <2>1, FS_Subset
<1>9. Cardinality(S) \in Nat
  BY <1>3, FS_CardinalityType
<1> QED BY <1>1, <1>3, <1>7, <1>8, <1>9

\* The text of a list: a head and a tail for each record.
LEMMA PiecesFacts ==
    ASSUME NEW list \in Seq(Rec), NEW version \in Nat
    PROVE  /\ Pieces(list, version) \in Text
           /\ Len(list) \in Nat
           /\ Len(Pieces(list, version)) = 2 * Len(list)
           /\ \A i \in 1..Len(list) :
                 /\ Pieces(list, version)[2 * i - 1] = HeadOf(list[i])
                 /\ Pieces(list, version)[2 * i] = TailOf(list[i], version)
<1> DEFINE n == Len(list)
           e(p) == IF p % 2 = 1 THEN HeadOf(list[(p + 1) \div 2])
                                ELSE TailOf(list[p \div 2], version)
<1>1. n \in Nat /\ \A i \in 1..n : list[i] \in Rec
  BY LenProperties, ElementOfSeq
<1>2. \A i \in 1..n : HeadOf(list[i]) \in Piece /\ TailOf(list[i], version) \in Piece
  BY <1>1 DEF Rec, Piece, HeadOf, TailOf
<1>3. \A p \in 1..(2 * n) : e(p) \in Piece
  <2> SUFFICES ASSUME NEW p \in 1..(2 * n) PROVE e(p) \in Piece
    OBVIOUS
  <2>1. CASE p % 2 = 1
    <3>1. (p + 1) \div 2 \in 1..n
      BY <1>1, <2>1
    <3> QED BY <2>1, <3>1, <1>2
  <2>2. CASE p % 2 # 1
    <3>1. p \div 2 \in 1..n
      BY <1>1, <2>2
    <3> QED BY <2>2, <3>1, <1>2
  <2> QED BY <2>1, <2>2
<1>4. Pieces(list, version) = [p \in 1..(2 * n) |-> e(p)]
  BY DEF Pieces
<1>5. Pieces(list, version) \in Seq(Piece) /\ Len(Pieces(list, version)) = 2 * n
  <2> HIDE DEF e, n
  <2> QED BY <1>1, <1>3, <1>4
<1>6. ASSUME NEW i \in 1..n
      PROVE  /\ Pieces(list, version)[2 * i - 1] = HeadOf(list[i])
             /\ Pieces(list, version)[2 * i] = TailOf(list[i], version)
  <2>1. 2 * i - 1 \in 1..(2 * n) /\ (2 * i - 1) % 2 = 1 /\ (2 * i - 1 + 1) \div 2 = i
    BY <1>1, <1>6
  <2>2. 2 * i \in 1..(2 * n) /\ (2 * i) % 2 # 1 /\ (2 * i) \div 2 = i
    BY <1>1, <1>6
  <2> QED BY <1>4, <2>1, <2>2
<1> QED BY <1>1, <1>5, <1>6 DEF Text

\* Every place in a text is a head's or a tail's.
LEMMA OddOrEven ==
    ASSUME NEW n \in Nat, NEW d \in 0..1, NEW p \in (d + 1)..(d + 2 * n)
    PROVE  \E i \in 1..n : p = d + 2 * i - 1 \/ p = d + 2 * i
<1>1. CASE (p - d) % 2 = 1
  <2>1. (p - d + 1) \div 2 \in 1..n /\ p = d + 2 * ((p - d + 1) \div 2) - 1
    BY <1>1
  <2> QED BY <2>1
<1>2. CASE (p - d) % 2 # 1
  <2>1. (p - d) \div 2 \in 1..n /\ p = d + 2 * ((p - d) \div 2)
    BY <1>2
  <2> QED BY <2>1
<1> QED BY <1>1, <1>2

\* The text of a list of current records, after prose or not, parses to the
\* list.
LEMMA ParseReads ==
    ASSUME NEW list \in Seq(Rec), NEW text \in Text, NEW d \in 0..1,
           Len(text) = d + 2 * Len(list),
           d = 1 => text[1] = Prose,
           \A i \in 1..Len(list) :
              /\ text[d + 2 * i - 1] = HeadOf(list[i])
              /\ text[d + 2 * i] = TailOf(list[i], Current)
    PROVE  Parse(text, Current).list = list
<1> DEFINE n == Len(list)
           At(i) == d + 2 * i - 1
           S == Good(text, Current)
           f == Ascending(S)
<1>1. n \in Nat /\ \A i \in 1..n : list[i] \in Rec
  BY LenProperties, ElementOfSeq
<1>2. DOMAIN text = 1..(d + 2 * n)
  BY LenProperties DEF Text
<1>3. \A i \in 1..n : At(i) \in DOMAIN text /\ At(i) + 1 \in DOMAIN text /\ At(i) + 1 = d + 2 * i
  BY <1>1, <1>2
<1>4. \A i \in 1..n : text[At(i)] = HeadOf(list[i]) /\ text[At(i) + 1] = TailOf(list[i], Current)
  BY <1>3
<1>5. \A i \in 1..n : At(i) + 2 \in DOMAIN text => text[At(i) + 2].part # "tail"
  <2> SUFFICES ASSUME NEW i \in 1..n, At(i) + 2 \in DOMAIN text
               PROVE  text[At(i) + 2].part # "tail"
    OBVIOUS
  <2>1. i + 1 \in 1..n /\ At(i) + 2 = At(i + 1)
    BY <1>1, <1>2
  <2>2. text[At(i) + 2] = HeadOf(list[i + 1])
    BY <1>4, <2>1
  <2> QED BY <2>2 DEF HeadOf
<1>6. \A i \in 1..n : At(i) \in S
  <2> SUFFICES ASSUME NEW i \in 1..n PROVE At(i) \in S
    OBVIOUS
  <2>0. text[At(i)] = HeadOf(list[i]) /\ text[At(i) + 1] = TailOf(list[i], Current)
    BY <1>4
  <2>1. text[At(i)].part = "head"
    BY <2>0 DEF HeadOf
  <2>2. text[At(i) + 1].part = "tail" /\ text[At(i) + 1].version = Current
    BY <2>0 DEF TailOf
  <2>3. Accepts(kind, Current, Len(Reader(kind, Current)))
    BY CurrentIsPositive DEF Accepts
  <2> HIDE DEF At
  <2> QED BY <1>3, <1>5, <2>1, <2>2, <2>3 DEF Good, Starts, ParsesAt
<1>7. \A p \in S : \E i \in 1..n : p = At(i)
  <2> SUFFICES ASSUME NEW p \in S PROVE \E i \in 1..n : p = At(i)
    OBVIOUS
  <2>1. p \in 1..(d + 2 * n) /\ text[p].part = "head"
    BY <1>2 DEF Good, Starts
  <2>2. ~(d = 1 /\ p = 1)
    BY <2>1 DEF Prose
  <2>3. \A i \in 1..n : p # d + 2 * i
    <3> SUFFICES ASSUME NEW i \in 1..n, p = d + 2 * i PROVE FALSE
      OBVIOUS
    <3>1. text[p] = TailOf(list[i], Current)
      OBVIOUS
    <3> QED BY <2>1, <3>1 DEF TailOf
  <2>4. p \in (d + 1)..(d + 2 * n)
    BY <1>1, <2>1, <2>2
  <2> QED BY <1>1, <2>3, <2>4, OddOrEven
<1>8. \A i, j \in 1..n : (At(i) = At(j) => i = j) /\ (At(i) < At(j) => i < j)
  BY <1>1
<1>9. IsFiniteSet(S) /\ S \in SUBSET Nat
  <2>1. IsFiniteSet(S) /\ S \in SUBSET (1..Len(text))
    BY ParseFacts, CurrentIsPositive
  <2> HIDE DEF S
  <2> QED BY <2>1
<1>10. Cardinality(S) = n
  <2> DEFINE g == [i \in 1..n |-> At(i)]
  <2>1. g \in [1..n -> S] /\ DOMAIN g = 1..n
    BY <1>6
  <2>2. \A i \in 1..n : g[i] = At(i)
    OBVIOUS
  <2> HIDE DEF g, At, S
  <2>3. g \in Bijection(1..n, S)
    BY <1>7, <1>8, <2>1, <2>2 DEF Bijection, Injection, Surjection, IsInjective
  <2>4. IsFiniteSet(1..n) /\ Cardinality(1..n) = n
    BY <1>1, OneToN
  <2>5. ExistsBijection(1..n, S)
    BY <2>3 DEF ExistsBijection
  <2> HIDE DEF n
  <2> QED BY <2>4, <2>5, FS_Bijection
<1>11. /\ f \in [1..n -> S]
       /\ \A i, j \in 1..n : f[i] = f[j] => i = j
       /\ \A s \in S : \E i \in 1..n : f[i] = s
       /\ \A i, j \in 1..n : i < j => f[i] < f[j]
  <2> HIDE DEF S, At
  <2>1. f \in Bijection(1..n, S) /\ \A i, j \in 1..n : i < j => f[i] < f[j]
    BY <1>9, <1>10, AscendingOrder
  <2> HIDE DEF f
  <2> QED BY <2>1 DEF Bijection, Injection, Surjection, IsInjective
<1> DEFINE p == [i \in 1..n |-> CHOOSE k \in 1..n : f[i] = At(k)]
<1>12. \A i \in 1..n : p[i] \in 1..n /\ f[i] = At(p[i])
  <2> HIDE DEF f, S, At
  <2> QED BY <1>7, <1>11
<1>13. p \in Bijection(1..n, 1..n)
  <2>1. p \in [1..n -> 1..n] /\ DOMAIN p = 1..n
    BY <1>12
  <2> HIDE DEF p, f, S, At
  <2>2. \A i, j \in 1..n : p[i] = p[j] => i = j
    BY <1>11, <1>12
  <2>3. \A k \in 1..n : \E i \in 1..n : p[i] = k
    BY <1>6, <1>8, <1>11, <1>12
  <2> QED BY <2>1, <2>2, <2>3 DEF Bijection, Injection, Surjection, IsInjective
<1>14. \A i, j \in 1..n : i < j => p[i] < p[j]
  <2> HIDE DEF p, f, S, At
  <2> QED BY <1>8, <1>11, <1>12
<1>15. \A i \in 1..n : f[i] = At(i)
  <2>1. \A i \in 1..n : p[i] = i
    <3> HIDE DEF p, f, S, At
    <3> QED BY <1>1, <1>13, <1>14, AscendingIsIdentity
  <2> HIDE DEF p, f, S, At
  <2> QED BY <1>12, <2>1
<1>16. Parse(text, Current).list = [i \in 1..n |-> RecordAt(text, f[i], Current)]
  <2>1. DOMAIN f = 1..n
    BY <1>11
  <2> HIDE DEF At
  <2> QED BY <2>1 DEF Parse
<1>17. \A i \in 1..n : RecordAt(text, f[i], Current) = list[i]
  <2> SUFFICES ASSUME NEW i \in 1..n PROVE RecordAt(text, At(i), Current) = list[i]
    BY <1>15
  <2>1. list[i] \in Rec
    BY <1>1
  <2>2. /\ text[At(i)].name = list[i].name /\ text[At(i)].id = list[i].id
        /\ text[At(i)].v = list[i].v /\ text[At(i) + 1].late = list[i].late
    <3>1. text[At(i)] = HeadOf(list[i]) /\ text[At(i) + 1] = TailOf(list[i], Current)
      BY <1>4
    <3> HIDE DEF At, n
    <3> QED BY <3>1 DEF HeadOf, TailOf
  <2> HIDE DEF At, n
  <2>3. RecordAt(text, At(i), Current) =
            [name |-> list[i].name, id |-> list[i].id, v |-> list[i].v, late |-> list[i].late]
    BY <2>2, CurrentIsPositive DEF RecordAt
  <2> QED BY <2>1, <2>3 DEF Rec
<1>18. list = [i \in 1..n |-> list[i]]
  BY LenProperties
<1> HIDE DEF f, S, At
<1> QED BY <1>16, <1>17, <1>18

\* A list that was written is read back.
LEMMA ParsePieces ==
    ASSUME NEW list \in Seq(Rec)
    PROVE  Parse(Pieces(list, Current), Current).list = list
<1> DEFINE text == Pieces(list, Current)
<1>1. /\ text \in Text /\ Len(text) = 0 + 2 * Len(list) /\ Len(list) \in Nat
      /\ \A i \in 1..Len(list) :
            text[2 * i - 1] = HeadOf(list[i]) /\ text[2 * i] = TailOf(list[i], Current)
  BY PiecesFacts, CurrentIsPositive
<1>2. \A i \in 1..Len(list) : 0 + 2 * i - 1 = 2 * i - 1 /\ 0 + 2 * i = 2 * i
  BY <1>1
<1> HIDE DEF text
<1>3. \A i \in 1..Len(list) :
            text[0 + 2 * i - 1] = HeadOf(list[i]) /\ text[0 + 2 * i] = TailOf(list[i], Current)
  BY <1>1, <1>2
<1>4. Parse(text, Current).list = list
  <2>1. 0 \in 0..1 /\ (0 = 1 => text[1] = Prose)
    OBVIOUS
  <2> QED BY <1>1, <1>3, <2>1, ParseReads, Zenon
<1> QED BY <1>4 DEF text

\* So is a list behind the prose of a backup.
LEMMA ParseBackup ==
    ASSUME NEW list \in Seq(Rec)
    PROVE  /\ <<Prose>> \o Pieces(list, Current) \in Text
           /\ Len(<<Prose>> \o Pieces(list, Current)) = 1 + 2 * Len(list)
           /\ Parse(<<Prose>> \o Pieces(list, Current), Current).list = list
<1> DEFINE body == Pieces(list, Current)
           text == <<Prose>> \o body
<1>1. /\ body \in Seq(Piece) /\ Len(body) = 2 * Len(list) /\ Len(list) \in Nat
      /\ \A i \in 1..Len(list) :
            body[2 * i - 1] = HeadOf(list[i]) /\ body[2 * i] = TailOf(list[i], Current)
  BY PiecesFacts, CurrentIsPositive DEF Text
<1>2. <<Prose>> \in Seq(Piece) /\ Len(<<Prose>>) = 1 /\ <<Prose>>[1] = Prose
  BY DEF Prose, Piece
<1> DEFINE pre == <<Prose>>
<1> HIDE DEF body, pre
<1>3. /\ text \in Seq(Piece) /\ Len(text) = 1 + 2 * Len(list)
      /\ \A q \in 1..(1 + 2 * Len(list)) :
            text[q] = IF q <= 1 THEN pre[q] ELSE body[q - 1]
  <2>1. /\ text \in Seq(Piece) /\ Len(text) = Len(pre) + Len(body)
        /\ \A q \in 1..(Len(pre) + Len(body)) :
              text[q] = IF q <= Len(pre) THEN pre[q] ELSE body[q - Len(pre)]
    BY <1>1, <1>2, ConcatProperties DEF pre
  <2>2. Len(pre) = 1 /\ Len(body) = 2 * Len(list)
    BY <1>1, <1>2 DEF pre
  <2> HIDE DEF text
  <2> QED BY <2>1, <2>2
<1> HIDE DEF text
<1>4. text[1] = Prose
  BY <1>1, <1>2, <1>3 DEF pre
<1>5. \A i \in 1..Len(list) :
            text[1 + 2 * i - 1] = HeadOf(list[i]) /\ text[1 + 2 * i] = TailOf(list[i], Current)
  <2> SUFFICES ASSUME NEW i \in 1..Len(list)
               PROVE  /\ text[1 + 2 * i - 1] = HeadOf(list[i])
                      /\ text[1 + 2 * i] = TailOf(list[i], Current)
    OBVIOUS
  <2>1. /\ 1 + 2 * i - 1 \in 2..(1 + 2 * Len(list)) /\ (1 + 2 * i - 1) - 1 = 2 * i - 1
        /\ 1 + 2 * i \in 2..(1 + 2 * Len(list)) /\ (1 + 2 * i) - 1 = 2 * i
    BY <1>1
  <2>2. text[1 + 2 * i - 1] = body[2 * i - 1] /\ text[1 + 2 * i] = body[2 * i]
    BY <1>3, <2>1
  <2> QED BY <1>1, <2>2
<1>6. Parse(text, Current).list = list
  <2>1. text \in Text
    BY <1>3 DEF Text
  <2>2. 1 \in 0..1 /\ (1 = 1 => text[1] = Prose)
    BY <1>4
  <2> QED BY <1>3, <1>5, <2>1, <2>2, ParseReads, Zenon
<1> QED BY <1>3, <1>6 DEF text, body, Text

----------------------------------------------------------------------------
(***************************************************************************)
(* Chunks                                                                  *)
(***************************************************************************)
Chunks(size) == (size + ChunkPieces - 1) \div ChunkPieces

\* How many keys a text of a given length takes.
LEMMA ChunkCount ==
    ASSUME NEW size \in Nat
    PROVE  /\ Chunks(size) \in Nat
           /\ Chunks(size) * ChunkPieces >= size
           /\ Chunks(size) # 0 => (Chunks(size) - 1) * ChunkPieces < size
           /\ Chunks(size) = 0 <=> size = 0
           /\ Chunks(size) <= size
           /\ Chunks(size) <= 1 => size <= ChunkPieces
<1> DEFINE C == ChunkPieces
           N == Chunks(size)
<1>1. C \in Nat /\ C >= 1
  BY ConstantsAssumption
<1>2. N = (size + C - 1) \div C
  BY DEF Chunks
<1> HIDE DEF C, N
<1>3. N \in Int /\ N * C <= size + C - 1 /\ size + C - 1 < N * C + C
  <2>1. N \in Int
    BY <1>1, <1>2
  <2>2. (size + C - 1) % C \in 0..(C - 1)
    BY <1>1
  <2>3. size + C - 1 = (C * N) + ((size + C - 1) % C)
    BY <1>1, <1>2
  <2> QED BY <1>1, <2>1, <2>2, <2>3
<1>4. N >= 0
  <2> SUFFICES ASSUME N <= -1 PROVE FALSE
    BY <1>3
  <2>1. N * C <= (-1) * C
    BY <1>1, <1>3
  <2> QED BY <1>1, <1>3, <2>1
<1>5. N * C >= size
  BY <1>1, <1>3
<1>6. (N - 1) * C = N * C - C /\ (N - 1) * C < size
  BY <1>1, <1>3
<1>7. ASSUME size = 0 PROVE N = 0
  <2> SUFFICES ASSUME N >= 1 PROVE FALSE
    BY <1>3, <1>4
  <2>1. N * C >= 1 * C
    BY <1>1, <1>3
  <2> QED BY <1>1, <1>3, <1>7, <2>1
<1>8. N = 0 => size = 0
  BY <1>5, <1>1
<1>9. N <= size
  <2> SUFFICES ASSUME N >= size + 1 PROVE FALSE
    BY <1>3
  <2>1. (N - 1) * C >= size * C
    BY <1>1, <1>3
  <2>2. size * C >= size * 1
    BY <1>1
  <2> QED BY <1>1, <1>3, <1>6, <2>1, <2>2
<1>10. N <= 1 => size <= C
  <2>1. N <= 1 => N = 0 \/ N = 1
    BY <1>3, <1>4
  <2> QED BY <1>1, <1>5, <2>1
<1> QED BY <1>1, <1>3, <1>4, <1>5, <1>6, <1>7, <1>8, <1>9, <1>10 DEF C, N

\* What the chunks of a text are.
LEMMA SplitFacts ==
    ASSUME NEW text \in Text
    PROVE  /\ Len(text) \in Nat
           /\ Len(SplitIntoChunks(text)) = Chunks(Len(text))
           /\ DOMAIN SplitIntoChunks(text) = 1..Chunks(Len(text))
           /\ \A k \in 1..Chunks(Len(text)) :
                 /\ SplitIntoChunks(text)[k] \in Text
                 /\ SplitIntoChunks(text)[k] =
                      SubSeq(text, (k - 1) * ChunkPieces + 1,
                             IF k * ChunkPieces < Len(text) THEN k * ChunkPieces
                                                            ELSE Len(text))
                 /\ Len(SplitIntoChunks(text)[k]) <= ChunkPieces
                 /\ (k - 1) * ChunkPieces + Len(SplitIntoChunks(text)[k]) <= Len(text)
<1> DEFINE N == Chunks(Len(text))
           top(k) == IF k * ChunkPieces < Len(text) THEN k * ChunkPieces ELSE Len(text)
           e(k) == SubSeq(text, (k - 1) * ChunkPieces + 1, top(k))
<1>1. Len(text) \in Nat /\ \A p \in 1..Len(text) : text[p] \in Piece
  BY LenProperties, ElementOfSeq DEF Text
<1>2. N \in Nat
  BY <1>1, ChunkCount
<1>3. ChunkPieces \in Nat /\ ChunkPieces >= 1
  BY ConstantsAssumption
<1>4. SplitIntoChunks(text) = [k \in 1..N |-> e(k)]
  BY DEF SplitIntoChunks, Chunks
<1>5. \A k \in 1..N : /\ e(k) \in Text
                       /\ Len(e(k)) <= ChunkPieces
                       /\ (k - 1) * ChunkPieces + Len(e(k)) <= Len(text)
  <2> SUFFICES ASSUME NEW k \in 1..N
               PROVE  /\ e(k) \in Text
                      /\ Len(e(k)) <= ChunkPieces
                      /\ (k - 1) * ChunkPieces + Len(e(k)) <= Len(text)
    OBVIOUS
  <2>1. k \in Nat /\ k >= 1 /\ (k - 1) * ChunkPieces \in Nat /\ k * ChunkPieces \in Nat
    BY <1>2, <1>3
  <2>2. top(k) \in Int /\ top(k) <= Len(text) /\ (k - 1) * ChunkPieces + 1 \in Int
    BY <1>1, <2>1
  <2> DEFINE m == (k - 1) * ChunkPieces + 1
             n == top(k)
  <2>3. \A i \in m..n : text[i] \in Piece
    <3>1. m >= 1
      BY <2>1
    <3> HIDE DEF m, n
    <3>2. m \in Int /\ n \in Int /\ n <= Len(text)
      BY <2>2 DEF m, n
    <3> QED BY <1>1, <3>1, <3>2
  <2> HIDE DEF m, n
  <2>4. m \in Int /\ n \in Int
    BY <2>2 DEF m, n
  <2>5. SubSeq(text, m, n) \in Seq(Piece)
    BY <2>3, <2>4, SubSeqProperties
  <2>6. Len(SubSeq(text, m, n)) = IF m <= n THEN n - m + 1 ELSE 0
    BY <2>3, <2>4, SubSeqProperties
  <2>7. (k - 1) * ChunkPieces < Len(text)
    <3>1. N \in Nat /\ N # 0 /\ (N - 1) * ChunkPieces < Len(text)
      <4> HIDE DEF e
      <4> QED BY <1>1, <1>2, ChunkCount
    <3> HIDE DEF N
    <3>2. k - 1 <= N - 1
      BY <3>1
    <3>3. (k - 1) * ChunkPieces <= (N - 1) * ChunkPieces
      BY <1>3, <2>1, <3>1, <3>2
    <3> QED BY <1>1, <1>3, <2>1, <3>1, <3>3
  <2>8. n - m + 1 <= ChunkPieces /\ m - 1 = (k - 1) * ChunkPieces /\ n <= Len(text) /\ m <= Len(text)
    <3>1. k * ChunkPieces = (k - 1) * ChunkPieces + ChunkPieces
      BY <1>3, <2>1
    <3>2. top(k) <= k * ChunkPieces
      BY <1>1, <1>3, <2>1
    <3> HIDE DEF N, e
    <3> QED BY <1>1, <1>3, <2>1, <2>2, <2>7, <3>1, <3>2 DEF m, n
  <2>9. /\ Len(SubSeq(text, m, n)) <= ChunkPieces
        /\ m - 1 + Len(SubSeq(text, m, n)) <= Len(text)
    <3> HIDE DEF N, e
    <3> QED BY <1>1, <1>3, <2>4, <2>6, <2>8
  <2>10. e(k) = SubSeq(text, m, n)
    BY DEF m, n
  <2> HIDE DEF e
  <2> QED BY <2>5, <2>8, <2>9, <2>10 DEF Text
<1>6. Len(SplitIntoChunks(text)) = N /\ DOMAIN SplitIntoChunks(text) = 1..N
  <2> HIDE DEF e, N
  <2> QED BY <1>2, <1>4
<1>7. \A k \in 1..N : SplitIntoChunks(text)[k] = e(k)
  <2> HIDE DEF e, N
  <2> QED BY <1>4
<1> QED BY <1>1, <1>5, <1>6, <1>7

\* The library's recursive function, by its equations.
LEMMA FlattenIs ==
    ASSUME NEW n \in Nat, n >= 1, NEW seqs, Len(seqs) = n, NEW w,
           \A k \in 1..n : w[k] = IF k = 1 THEN seqs[k] ELSE w[k - 1] \o seqs[k]
    PROVE  FlattenSeq(seqs) = w[n]
<1> DEFINE Obeys(f) == f = [i \in 1..n |-> IF i = 1 THEN seqs[i] ELSE f[i - 1] \o seqs[i]]
           flatten == CHOOSE f : Obeys(f)
           given == [i \in 1..n |-> w[i]]
<1>1. Obeys(given)
  <2>1. \A i \in 1..n : w[i] = IF i = 1 THEN seqs[i] ELSE given[i - 1] \o seqs[i]
    <3> SUFFICES ASSUME NEW i \in 1..n
                 PROVE  w[i] = IF i = 1 THEN seqs[i] ELSE given[i - 1] \o seqs[i]
      OBVIOUS
    <3>1. i # 1 => i - 1 \in 1..n
      OBVIOUS
    <3>2. i # 1 => given[i - 1] = w[i - 1]
      BY <3>1
    <3> HIDE DEF given
    <3> QED BY <3>2
  <2> QED BY <2>1
<1>2. Obeys(flatten)
  <2> HIDE DEF Obeys, given
  <2> QED BY <1>1
<1>3. FlattenSeq(seqs) = flatten[n]
  BY DEF FlattenSeq
<1>4. \A i \in 1..n : flatten[i] = IF i = 1 THEN seqs[i] ELSE flatten[i - 1] \o seqs[i]
  <2> HIDE DEF flatten
  <2> QED BY <1>2
<1> DEFINE Odd == {i \in 1..n : flatten[i] # w[i]}
<1> HIDE DEF flatten
<1>5. Odd = {}
  <2> SUFFICES ASSUME Odd # {} PROVE FALSE
    OBVIOUS
  <2>1. PICK i \in Odd : \A k \in Odd : i <= k
    <3>1. Odd \in SUBSET Nat
      OBVIOUS
    <3> HIDE DEF Odd
    <3> QED BY <3>1, LeastOf
  <2>2. i \in 1..n /\ flatten[i] # w[i]
    BY <2>1
  <2>3. i # 1
    BY <1>4, <2>2
  <2>4. i - 1 \in 1..n /\ i - 1 \notin Odd
    BY <2>1, <2>2, <2>3
  <2>5. flatten[i - 1] = w[i - 1]
    BY <2>4
  <2> QED BY <1>4, <2>2, <2>3, <2>5
<1> QED BY <1>3, <1>5

\* A chunk fits its key: what it holds ends where a text of `limit` pieces does.
FitsKey(chunk, k, limit) ==
    /\ chunk \in Text
    /\ Len(chunk) <= ChunkPieces
    /\ chunk # <<>> => (k - 1) * ChunkPieces + Len(chunk) <= limit

AllFit(seqs, n, limit) == \A k \in 1..n : FitsKey(seqs[k], k, limit)

\* w[k] is the first k chunks joined.
Joins(w, seqs, m, limit) ==
    /\ w \in [1..m -> Text]
    /\ \A k \in 1..m : w[k] = IF k = 1 THEN seqs[k] ELSE w[k - 1] \o seqs[k]
    /\ \A k \in 1..m : Len(w[k]) <= k * ChunkPieces /\ Len(w[k]) <= limit

\* One chunk more joins to a text that still fits.
LEMMA PrefixGrows ==
    ASSUME NEW limit \in Nat, NEW m \in Nat, NEW seqs, NEW v,
           FitsKey(seqs[m + 1], m + 1, limit),
           m # 0 => Joins(v, seqs, m, limit)
    PROVE  \E w : Joins(w, seqs, m + 1, limit)
<1> DEFINE c == seqs[m + 1]
           whole == IF m = 0 THEN c ELSE v[m] \o c
           w == [k \in 1..(m + 1) |-> IF k <= m THEN v[k] ELSE whole]
<1>1. ChunkPieces \in Nat
  BY ConstantsAssumption
<1>2. /\ c \in Text /\ Len(c) \in Nat /\ Len(c) <= ChunkPieces
      /\ Len(c) = 0 \/ m * ChunkPieces + Len(c) <= limit
  <2>1. c \in Text /\ Len(c) <= ChunkPieces /\ (c # <<>> => (m + 1 - 1) * ChunkPieces + Len(c) <= limit)
    BY DEF FitsKey
  <2>2. m + 1 - 1 = m
    OBVIOUS
  <2>3. c = <<>> => Len(c) = 0
    OBVIOUS
  <2> HIDE DEF c
  <2>4. Len(c) \in Nat
    BY <2>1, LenProperties DEF Text
  <2> QED BY <2>1, <2>2, <2>3, <2>4
<1>3. m # 0 => /\ v[m] \in Text /\ Len(v[m]) \in Nat
               /\ Len(v[m]) <= m * ChunkPieces /\ Len(v[m]) <= limit
  <2> SUFFICES ASSUME m # 0
               PROVE  /\ v[m] \in Text /\ Len(v[m]) \in Nat
                      /\ Len(v[m]) <= m * ChunkPieces /\ Len(v[m]) <= limit
    OBVIOUS
  <2>1. m \in 1..m
    OBVIOUS
  <2>2. v[m] \in Text /\ Len(v[m]) <= m * ChunkPieces /\ Len(v[m]) <= limit
    BY <2>1 DEF Joins
  <2> QED BY <2>2, LenProperties DEF Text
<1> HIDE DEF c
<1>4. (m + 1) * ChunkPieces = m * ChunkPieces + ChunkPieces /\ m * ChunkPieces \in Nat
  BY <1>1
<1>5. whole \in Text /\ Len(whole) <= (m + 1) * ChunkPieces /\ Len(whole) <= limit
  <2>1. CASE m = 0
    <3>1. m * ChunkPieces = 0
      BY <1>1, <2>1
    <3> QED BY <1>1, <1>2, <1>4, <2>1, <3>1
  <2>2. CASE m # 0
    <3>1. whole = v[m] \o c
      BY <2>2
    <3>2. v[m] \o c \in Text /\ Len(v[m] \o c) = Len(v[m]) + Len(c)
      BY <1>2, <1>3, <2>2, ConcatProperties DEF Text
    <3> HIDE DEF whole
    <3> QED BY <1>1, <1>2, <1>3, <1>4, <2>2, <3>1, <3>2
  <2> QED BY <2>1, <2>2
<1> HIDE DEF whole
<1>6. /\ \A k \in 1..m : w[k] = v[k]
      /\ w[m + 1] = whole
      /\ \A k \in 1..(m + 1) : k \in 1..m \/ k = m + 1
  OBVIOUS
<1>7. \A k \in 1..m : /\ v[k] \in Text
                      /\ v[k] = IF k = 1 THEN seqs[k] ELSE v[k - 1] \o seqs[k]
                      /\ Len(v[k]) <= k * ChunkPieces /\ Len(v[k]) <= limit
  BY DEF Joins
<1>8. w \in [1..(m + 1) -> Text]
  BY <1>5, <1>7
<1> HIDE DEF w
<1>9. ASSUME NEW k \in 1..(m + 1)
      PROVE  /\ w[k] = IF k = 1 THEN seqs[k] ELSE w[k - 1] \o seqs[k]
             /\ Len(w[k]) <= k * ChunkPieces /\ Len(w[k]) <= limit
  <2>1. CASE k \in 1..m
    <3>1. k # 1 => k - 1 \in 1..m
      BY <2>1
    <3>2. k # 1 => w[k - 1] = v[k - 1]
      BY <3>1, <1>6
    <3>3. w[k] = v[k]
      BY <2>1, <1>6
    <3> QED BY <1>7, <2>1, <3>2, <3>3
  <2>2. CASE k = m + 1
    <3>1. m # 0 => m \in 1..m /\ w[m] = v[m] /\ k # 1 /\ k - 1 = m
      BY <1>6, <2>2
    <3>2. w[k] = IF k = 1 THEN seqs[k] ELSE w[k - 1] \o seqs[k]
      BY <1>6, <2>2, <3>1 DEF whole, c
    <3> QED BY <1>5, <1>6, <2>2, <3>2
  <2> QED BY <1>6, <2>1, <2>2
<1> QED
  <2>1. Joins(w, seqs, m + 1, limit)
    BY <1>8, <1>9 DEF Joins
  <2> QED BY <2>1

\* Chunks that fit their keys join to a text, no longer than they allow.
LEMMA FlattenIsText ==
    ASSUME NEW n \in Nat, n >= 1, NEW seqs, Len(seqs) = n, NEW limit \in Nat,
           AllFit(seqs, n, limit)
    PROVE  FlattenSeq(seqs) \in Text /\ Len(FlattenSeq(seqs)) <= limit
<1> DEFINE Odd == {m \in 1..n : ~ \E w : Joins(w, seqs, m, limit)}
<1>1. Odd = {}
  <2> SUFFICES ASSUME Odd # {} PROVE FALSE
    OBVIOUS
  <2>1. PICK m \in Odd : \A k \in Odd : m <= k
    <3>1. Odd \in SUBSET Nat
      OBVIOUS
    <3> HIDE DEF Odd
    <3> QED BY <3>1, LeastOf
  <2>2. m \in 1..n /\ ~ \E w : Joins(w, seqs, m, limit)
    BY <2>1
  <2> DEFINE q == m - 1
  <2>3. q \in Nat /\ q + 1 = m
    BY <2>2
  <2>4. FitsKey(seqs[q + 1], q + 1, limit)
    BY <2>2, <2>3 DEF AllFit
  <2>5. PICK v : q # 0 => Joins(v, seqs, q, limit)
    <3>1. CASE q = 0
      BY <3>1
    <3>2. CASE q # 0
      <4>1. q \in 1..n /\ q \notin Odd
        BY <2>1, <2>2, <3>2
      <4> QED BY <4>1
    <3> QED BY <3>1, <3>2
  <2> HIDE DEF q
  <2>6. \E w : Joins(w, seqs, q + 1, limit)
    BY <2>3, <2>4, <2>5, PrefixGrows
  <2> QED BY <2>2, <2>3, <2>6
<1>2. n \in 1..n
  OBVIOUS
<1>3. PICK w : Joins(w, seqs, n, limit)
  BY <1>1, <1>2
<1>4. FlattenSeq(seqs) = w[n]
  <2>1. \A k \in 1..n : w[k] = IF k = 1 THEN seqs[k] ELSE w[k - 1] \o seqs[k]
    BY <1>3 DEF Joins
  <2> QED BY <2>1, FlattenIs
<1>5. w[n] \in Text /\ Len(w[n]) <= limit
  BY <1>2, <1>3 DEF Joins
<1> QED BY <1>4, <1>5

\* Chunks that fit their keys join to a text, no longer than where one ends.
LEMMA JoinIsText ==
    ASSUME NEW area, area.count \in Nat, NEW limit \in Nat,
           AllFit(area.chunk, area.count, limit)
    PROVE  JoinChunks(area) \in Text /\ Len(JoinChunks(area)) <= limit
<1> DEFINE n == area.count
           seqs == [k \in 1..n |-> area.chunk[k]]
<1>1. JoinChunks(area) = FlattenSeq(seqs) /\ Len(seqs) = n
  BY DEF JoinChunks
<1>2. CASE n = 0
  <2>1. FlattenSeq(seqs) = seqs
    BY <1>1, <1>2 DEF FlattenSeq
  <2>2. seqs = <<>> /\ Len(<<>>) = 0
    BY <1>2
  <2> QED BY <1>1, <2>1, <2>2 DEF Text
<1>3. CASE n # 0
  <2>1. AllFit(seqs, n, limit)
    <3>1. \A k \in 1..n : seqs[k] = area.chunk[k]
      OBVIOUS
    <3> HIDE DEF seqs
    <3> QED BY <3>1 DEF AllFit
  <2>2. n >= 1
    BY <1>3
  <2> HIDE DEF seqs, n
  <2> QED BY <1>1, <2>1, <2>2, FlattenIsText DEF n
<1> QED BY <1>2, <1>3

\* The chunks of a text join to the text.
LEMMA JoinSplit ==
    ASSUME NEW text \in Text, NEW area,
           area.count = Len(SplitIntoChunks(text)),
           \A k \in 1..Len(SplitIntoChunks(text)) :
              area.chunk[k] = SplitIntoChunks(text)[k]
    PROVE  JoinChunks(area) = text
<1> DEFINE L == Len(text)
           n == Chunks(L)
           C == ChunkPieces
           seqs == [k \in 1..n |-> area.chunk[k]]
           top(k) == IF k * C < L THEN k * C ELSE L
           w == [k \in 1..n |-> SubSeq(text, 1, top(k))]
<1>1. L \in Nat /\ text \in Seq(Piece)
  BY LenProperties DEF Text
<1>2. /\ n \in Nat /\ n * C >= L /\ (n # 0 => (n - 1) * C < L) /\ (n = 0 <=> L = 0)
  BY <1>1, ChunkCount
<1>3. C \in Nat /\ C >= 1
  BY ConstantsAssumption
<1>4. /\ Len(SplitIntoChunks(text)) = n
      /\ \A k \in 1..n : SplitIntoChunks(text)[k] = SubSeq(text, (k - 1) * C + 1, top(k))
  BY SplitFacts
<1>5. JoinChunks(area) = FlattenSeq(seqs) /\ Len(seqs) = n
  BY <1>2, <1>4 DEF JoinChunks
<1>6. \A k \in 1..n : seqs[k] = SubSeq(text, (k - 1) * C + 1, top(k))
  BY <1>4
<1> HIDE DEF seqs
<1>7. CASE n = 0
  <2>1. FlattenSeq(seqs) = seqs
    BY <1>5, <1>7 DEF FlattenSeq
  <2>2. seqs = <<>>
    BY <1>7 DEF seqs
  <2>3. text = <<>>
    BY <1>1, <1>2, <1>7, EmptySeq
  <2> QED BY <1>5, <2>1, <2>2, <2>3
<1>8. CASE n # 0
  <2>1. ASSUME NEW k \in 1..n
        PROVE  w[k] = IF k = 1 THEN seqs[k] ELSE w[k - 1] \o seqs[k]
    <3>1. w[k] = SubSeq(text, 1, top(k)) /\ seqs[k] = SubSeq(text, (k - 1) * C + 1, top(k))
      BY <1>6
    <3>2. CASE k = 1
      <4>1. (k - 1) * C + 1 = 1
        BY <1>3, <3>2
      <4> HIDE DEF w, top
      <4> QED BY <3>1, <3>2, <4>1
    <3>3. CASE k # 1
      <4> DEFINE q == (k - 1) * C
      <4>1. k - 1 \in 1..n /\ k - 1 \in Nat /\ k \in Nat /\ n - 1 \in Nat /\ k - 1 <= n - 1
        BY <1>2, <3>3
      <4>2. q \in Nat /\ q <= (n - 1) * C
        BY <1>3, <4>1
      <4>3. q < L
        <5>1. (n - 1) * C \in Nat /\ (n - 1) * C < L
          BY <1>2, <1>3, <1>8, <4>1
        <5> HIDE DEF q, n
        <5> QED BY <1>1, <4>2, <5>1
      <4>4. top(k - 1) = q
        BY <4>3
      <4>5. w[k - 1] = SubSeq(text, 1, q)
        BY <4>1, <4>4
      <4>6. top(k) \in q..L
        <5>1. k * C = q + C
          BY <1>3, <4>1
        <5> HIDE DEF q
        <5> QED BY <1>1, <1>3, <4>2, <4>3, <5>1
      <4> DEFINE r == top(k)
      <4> HIDE DEF q, r
      <4>7. SubSeq(text, 1, q) \o SubSeq(text, q + 1, r) = SubSeq(text, 1, r)
        <5>1. 1 \in 1..(L + 1) /\ q \in (1 - 1)..L /\ r \in q..L
          BY <1>1, <4>2, <4>3, <4>6 DEF r
        <5> QED BY <1>1, <5>1, ConcatAdjacentSubSeq
      <4>8. w[k] = SubSeq(text, 1, r) /\ seqs[k] = SubSeq(text, q + 1, r)
        BY <3>1 DEF q, r
      <4> HIDE DEF w
      <4> QED BY <3>3, <4>5, <4>7, <4>8
    <3> QED BY <3>2, <3>3
  <2>2. FlattenSeq(seqs) = w[n]
    <3>1. n \in Nat /\ n >= 1
      BY <1>2, <1>8
    <3> HIDE DEF n, w
    <3> QED BY <1>5, <2>1, <3>1, FlattenIs
  <2>3. w[n] = SubSeq(text, 1, L)
    <3>1. n \in 1..n /\ top(n) = L
      <4>1. n * C \in Nat /\ ~(n * C < L)
        BY <1>1, <1>2, <1>3
      <4> HIDE DEF n
      <4> QED BY <1>2, <1>8, <4>1
    <3> QED BY <3>1
  <2> QED BY <1>1, <1>5, <2>2, <2>3, SubSeqFull
<1> QED BY <1>7, <1>8

----------------------------------------------------------------------------
(***************************************************************************)
(* Types                                                                   *)
(***************************************************************************)
Keys == 2 * MaxRecords + 1

Lists == {l \in Seq(Rec) : Len(l) <= MaxRecords}

Nexts == {<<>>} \cup {<<l>> : l \in Lists}

Areas == {"list", "backup"}

Area == [count : {NoKey} \cup (0..Keys), chunk : [ChunkKeys -> Text]]

Nvs == [list : Area, legacy : Text, schema : Nat, backup : Area, seeded : BOOLEAN]

Jobs ==
    [pc : {"keys", "schema", "saved"}, area : Areas, i : Nat \ {0},
     target : Lists, next : Nexts,
     locked : BOOLEAN, ok : BOOLEAN, risky : BOOLEAN]

\* The longest text an area has to hold.
Limit(area) == IF area = "list" THEN 2 * MaxRecords ELSE Keys

Types ==
    /\ kind \in {"camera", "user"}
    /\ nvs \in Nvs
    /\ job \in [Tasks -> Jobs \cup {Idle}]
    /\ boot \in [at : {"off", "seeds", "up"}, todo : {<<>>, Seed}]

Room ==
    /\ nvs.backup.count # NoKey
    /\ Len(nvs.legacy) <= Limit("list")
    /\ \A a \in Areas, k \in ChunkKeys : FitsKey(nvs[a].chunk[k], k, Limit(a))
    /\ \A t \in Tasks : job[t].pc # "idle" /\ job[t].area = "backup" =>
          job[t].pc # "schema" /\ job[t].next # <<>>

\* The bounds, as numbers.
LEMMA Bounds ==
    /\ MaxRecords \in Nat /\ MaxRecords >= 1 /\ Keys \in Nat
    /\ ChunkKeys = 1..Keys
    /\ \A a \in Areas : Limit(a) \in Nat /\ Limit(a) <= Keys
    /\ ChunkPieces \in Nat /\ ChunkPieces >= 1
BY ConstantsAssumption DEF Keys, ChunkKeys, Limit, Areas

\* The seed list and the empty one are lists as any other.
LEMMA SeedIsList ==
    /\ Seed \in Lists /\ Len(Seed) = 1 /\ <<>> \in Lists /\ Len(<<>>) = 0
    /\ ~Clashing(Seed) /\ ~Clashing(<<>>) /\ Sorted(Seed) /\ ByName(<<>>) = <<>>
<1>1. Seed[1] \in Rec /\ Len(Seed) = 1 /\ Seed \in Seq(Rec) /\ DOMAIN Seed = {1}
  BY DEF Seed, Rec
<1>2. Seed \in Lists /\ <<>> \in Lists /\ Len(<<>>) = 0
  BY <1>1, Bounds DEF Lists
<1>3. ~Clashing(Seed) /\ Sorted(Seed)
  BY <1>1 DEF Clashing, Sorted
<1>4. ~Clashing(<<>>)
  BY DEF Clashing
<1>5. ByName(<<>>) = <<>>
  <2>1. ByName(<<>>) \in Seq(Rec) /\ Len(ByName(<<>>)) = 0
    BY <1>2, ByNameFacts DEF Lists
  <2> QED BY <2>1, EmptySeq
<1> QED BY <1>1, <1>2, <1>3, <1>4, <1>5

\* The lists that NVS may hold load as lists.
LEMMA LoadedIsList ==
    Types /\ Room => Loaded \in Lists /\ Sorted(Loaded)
<1> SUFFICES ASSUME Types, Room PROVE Loaded \in Lists /\ Sorted(Loaded)
  OBVIOUS
<1>1. nvs.list \in Area /\ nvs.legacy \in Text /\ nvs.schema \in Nat
  BY DEF Types, Nvs
<1>2. CASE Fresh
  BY <1>2, SeedIsList DEF Loaded
<1>3. CASE ~Fresh
  <2>1. StoredText \in Text /\ Len(StoredText) <= 2 * MaxRecords
    <3>1. CASE nvs.list.count # NoKey
      <4>1. nvs.list.count \in Nat /\ nvs.list.count <= Keys
        BY <1>1, <3>1, Bounds DEF Area
      <4>2. AllFit(nvs.list.chunk, nvs.list.count, 2 * MaxRecords)
        <5>1. \A k \in ChunkKeys : FitsKey(nvs.list.chunk[k], k, 2 * MaxRecords)
          BY DEF Room, Areas, Limit
        <5> QED BY <4>1, <5>1, Bounds DEF AllFit
      <4>3. 2 * MaxRecords \in Nat
        BY Bounds
      <4> QED BY <3>1, <4>1, <4>2, <4>3, JoinIsText DEF StoredText
    <3>2. CASE nvs.list.count = NoKey
      BY <1>1, <3>2 DEF StoredText, Room, Limit
    <3> QED BY <3>1, <3>2
  <2> DEFINE list == Stored.list
  <2>2. list \in Seq(Rec) /\ 2 * Len(list) <= Len(StoredText)
    BY <1>1, <2>1, ParseFacts, ParseIsShort DEF Stored
  <2>3. Loaded = ByName(list)
    BY <1>3 DEF Loaded
  <2> HIDE DEF list
  <2>4. Len(list) \in Nat /\ Len(StoredText) \in Nat
    BY <2>1, <2>2, LenProperties DEF Text
  <2>5. Len(list) <= MaxRecords
    BY <2>1, <2>2, <2>4, Bounds
  <2>6. ByName(list) \in Seq(Rec) /\ Len(ByName(list)) = Len(list) /\ Sorted(ByName(list))
    BY <2>2, ByNameFacts
  <2> QED BY <2>3, <2>5, <2>6 DEF Lists
<1> QED BY <1>2, <1>3

\* Whatever the backup holds parses to records.
LEMMA BackupIsRead ==
    Types /\ Room => Parse(BackupText, Current).list \in Seq(Rec)
<1> SUFFICES ASSUME Types, Room PROVE Parse(BackupText, Current).list \in Seq(Rec)
  OBVIOUS
<1>1. nvs.backup \in Area /\ nvs.backup.count # NoKey
  BY DEF Types, Nvs, Room
<1>2. nvs.backup.count \in Nat /\ nvs.backup.count <= Keys
  BY <1>1, Bounds DEF Area
<1>3. AllFit(nvs.backup.chunk, nvs.backup.count, Keys)
  <2>1. \A k \in ChunkKeys : FitsKey(nvs.backup.chunk[k], k, Keys)
    BY DEF Room, Areas, Limit
  <2> QED BY <1>2, <2>1, Bounds DEF AllFit
<1>4. BackupText \in Text
  BY <1>2, <1>3, Bounds, JoinIsText DEF BackupText
<1> QED BY <1>4, ParseFacts, CurrentIsPositive

\* What a save writes.
LEMMA SplitFits ==
    ASSUME NEW text \in Text, NEW limit \in Nat, Len(text) <= limit, limit <= Keys
    PROVE  /\ Len(SplitIntoChunks(text)) \in 0..Keys
           /\ DOMAIN SplitIntoChunks(text) = 1..Len(SplitIntoChunks(text))
           /\ \A k \in 1..Len(SplitIntoChunks(text)) :
                 k \in ChunkKeys /\ FitsKey(SplitIntoChunks(text)[k], k, limit)
<1> DEFINE n == Chunks(Len(text))
<1>1. /\ Len(text) \in Nat /\ Len(SplitIntoChunks(text)) = n
      /\ DOMAIN SplitIntoChunks(text) = 1..n
      /\ \A k \in 1..n :
            /\ SplitIntoChunks(text)[k] \in Text
            /\ Len(SplitIntoChunks(text)[k]) <= ChunkPieces
            /\ (k - 1) * ChunkPieces + Len(SplitIntoChunks(text)[k]) <= Len(text)
  BY SplitFacts
<1>2. n \in Nat /\ n <= Len(text)
  BY <1>1, ChunkCount
<1> HIDE DEF n
<1>3. \A k \in 1..n : FitsKey(SplitIntoChunks(text)[k], k, limit)
  <2> SUFFICES ASSUME NEW k \in 1..n PROVE FitsKey(SplitIntoChunks(text)[k], k, limit)
    OBVIOUS
  <2> DEFINE c == SplitIntoChunks(text)[k]
  <2>1. c \in Text /\ Len(c) <= ChunkPieces /\ (k - 1) * ChunkPieces + Len(c) <= Len(text)
    BY <1>1
  <2> HIDE DEF c
  <2>2. Len(c) \in Nat /\ (k - 1) * ChunkPieces \in Nat
    <3>1. k - 1 \in Nat
      BY <1>2
    <3> QED BY <2>1, <3>1, LenProperties, Bounds DEF Text
  <2>3. (k - 1) * ChunkPieces + Len(c) <= limit
    BY <1>1, <2>1, <2>2
  <2> QED BY <2>1, <2>3 DEF FitsKey, c
<1> QED BY <1>1, <1>2, <1>3, Bounds

\* What a save or a backup writes fits its area.
LEMMA TextFits ==
    ASSUME NEW j \in Jobs
    PROVE  /\ TextOf(j) \in Text
           /\ Len(TextOf(j)) = (IF j.area = "list" THEN 0 ELSE 1) + 2 * Len(j.target)
           /\ Len(TextOf(j)) <= Limit(j.area)
           /\ j.area \in Areas
           /\ Len(j.target) \in Nat
           /\ Parse(TextOf(j), Current).list = j.target
<1>1. j.target \in Seq(Rec) /\ Len(j.target) <= MaxRecords /\ j.area \in Areas
  BY DEF Jobs, Lists
<1>2. Len(j.target) \in Nat
  BY <1>1, LenProperties
<1>3. CASE j.area = "list"
  <2>1. TextOf(j) = Pieces(j.target, Current)
    BY <1>3 DEF TextOf
  <2>2. TextOf(j) \in Text /\ Len(TextOf(j)) = 2 * Len(j.target)
    BY <1>1, <2>1, PiecesFacts, CurrentIsPositive
  <2> QED BY <1>1, <1>2, <1>3, <2>1, <2>2, ParsePieces, Bounds DEF Limit
<1>4. CASE j.area = "backup"
  <2>1. TextOf(j) = <<Prose>> \o Pieces(j.target, Current)
    BY <1>4 DEF TextOf
  <2>2. /\ TextOf(j) \in Text /\ Len(TextOf(j)) = 1 + 2 * Len(j.target)
        /\ Parse(TextOf(j), Current).list = j.target
    BY <1>1, <2>1, ParseBackup
  <2> QED BY <1>1, <1>2, <1>4, <2>2, Bounds DEF Limit, Keys
<1> QED BY <1>1, <1>3, <1>4 DEF Areas

----------------------------------------------------------------------------
(***************************************************************************)
(* A save on its way                                                       *)
(***************************************************************************)
Holds(area, text) ==
    /\ area.count = Len(SplitIntoChunks(text))
    /\ \A k \in DOMAIN SplitIntoChunks(text) : area.chunk[k] = SplitIntoChunks(text)[k]

\* What NVS holds of a save that has met no refused write.
OnTrack(j, n) ==
    /\ j.pc = "keys" =>
          \A k \in DOMAIN SplitIntoChunks(TextOf(j)) :
             k < j.i => n[j.area].chunk[k] = SplitIntoChunks(TextOf(j))[k]
    /\ j.pc # "keys" => Holds(n[j.area], TextOf(j))
    /\ j.pc # "keys" /\ j.area = "list" => n.legacy = <<>>
    /\ j.pc = "saved" /\ j.area = "list" => n.schema = Current

\* A save means one list, and then perhaps another.
Meant(j, good) ==
    /\ ~Clashing(j.target) /\ ByName(j.target) \in good
    /\ j.next # <<>> => ~Clashing(j.next[1]) /\ ByName(j.next[1]) \in good

\* One key's worth of records replaces another.
Narrow(j, n, good) ==
    /\ n.schema = Current /\ n.legacy = <<>>
    /\ n.list.count \in 0..1
    /\ Len(SplitIntoChunks(TextOf(j))) <= 1
    /\ ByName(Parse(n.list.chunk[1], Current).list) \in good
    /\ n.list.count = 0 => <<>> \in good

Chunked(n, a, k, c) == [n EXCEPT ![a].chunk[k] = c]

\* A chunk put or removed.
LEMMA NvsWrites ==
    ASSUME NEW n \in Nvs, NEW a \in Areas, NEW k \in ChunkKeys, NEW c \in Text
    PROVE  LET m == Chunked(n, a, k, c)
           IN /\ m \in Nvs
              /\ m.legacy = n.legacy /\ m.schema = n.schema /\ m.seeded = n.seeded
              /\ m[a].count = n[a].count
              /\ m[a].chunk[k] = c
              /\ \A l \in ChunkKeys : l # k => m[a].chunk[l] = n[a].chunk[l]
              /\ \A b \in Areas : b # a => m[b] = n[b]
<1>1. CASE a = "list"
  BY <1>1 DEF Nvs, Area, Areas, Chunked
<1>2. CASE a = "backup"
  BY <1>2 DEF Nvs, Area, Areas, Chunked
<1> QED BY <1>1, <1>2 DEF Areas

Counted(n, a, c) == [n EXCEPT ![a].count = c]

\* A count put.
LEMMA NvsCounts ==
    ASSUME NEW n \in Nvs, NEW a \in Areas, NEW c \in 0..Keys
    PROVE  LET m == Counted(n, a, c)
           IN /\ m \in Nvs
              /\ m.legacy = n.legacy /\ m.schema = n.schema /\ m.seeded = n.seeded
              /\ m[a].count = c
              /\ m[a].chunk = n[a].chunk
              /\ \A b \in Areas : b # a => m[b] = n[b]
<1>1. CASE a = "list"
  BY <1>1 DEF Nvs, Area, Areas, Counted
<1>2. CASE a = "backup"
  BY <1>2 DEF Nvs, Area, Areas, Counted
<1> QED BY <1>1, <1>2 DEF Areas

\* The other writes.
LEMMA NvsRest ==
    ASSUME NEW n \in Nvs
    PROVE  /\ LET m == [n EXCEPT !.legacy = <<>>]
              IN /\ m \in Nvs /\ m.legacy = <<>> /\ m.schema = n.schema
                 /\ m.seeded = n.seeded /\ \A b \in Areas : m[b] = n[b]
           /\ LET m == [n EXCEPT !.schema = Current]
              IN /\ m \in Nvs /\ m.schema = Current /\ m.legacy = n.legacy
                 /\ m.seeded = n.seeded /\ \A b \in Areas : m[b] = n[b]
           /\ LET m == [n EXCEPT !.seeded = (kind = "camera")]
              IN /\ m \in Nvs /\ m.seeded = (kind = "camera") /\ m.schema = n.schema
                 /\ m.legacy = n.legacy /\ \A b \in Areas : m[b] = n[b]
<1>1. <<>> \in Text /\ Current \in Nat /\ (kind = "camera") \in BOOLEAN
  BY CurrentIsPositive DEF Text
<1> QED BY <1>1 DEF Nvs, Areas

\* The same save, a step later.
SameSave(j, j2) ==
    /\ j2.area = j.area /\ j2.target = j.target /\ j2.next = j.next
    /\ j2.locked = j.locked /\ j2.risky = j.risky
    /\ j2.ok => j.ok

\* A job that moves on is the same save.
LEMMA JobMoves ==
    ASSUME NEW j \in Jobs
    PROVE  /\ \A m \in {[j EXCEPT !.i = @ + 1], [j EXCEPT !.i = @ + 1, !.ok = FALSE]} :
                 m \in Jobs /\ m.pc = j.pc /\ m.i = j.i + 1 /\ SameSave(j, m)
           /\ \A p \in {"schema", "saved"} :
                 \A m \in {[j EXCEPT !.pc = p], [j EXCEPT !.pc = p, !.ok = FALSE]} :
                    m \in Jobs /\ m.pc = p /\ SameSave(j, m)
           /\ [j EXCEPT !.i = @ + 1, !.ok = FALSE].ok = FALSE
           /\ \A p \in {"schema", "saved"} : [j EXCEPT !.pc = p, !.ok = FALSE].ok = FALSE
           /\ j.pc # "idle" /\ j.i \in Nat /\ j.i >= 1
           /\ j.area \in Areas /\ j.target \in Lists /\ j.next \in Nexts
<1>1. j.i + 1 \in Nat \ {0} /\ j.i \in Nat /\ j.i >= 1
  BY DEF Jobs
<1>2. ASSUME NEW m, m = [j EXCEPT !.i = @ + 1]
      PROVE  m \in Jobs /\ m.pc = j.pc /\ m.i = j.i + 1 /\ SameSave(j, m)
  BY <1>1, <1>2 DEF Jobs, SameSave
<1>3. ASSUME NEW m, m = [j EXCEPT !.i = @ + 1, !.ok = FALSE]
      PROVE  m \in Jobs /\ m.pc = j.pc /\ m.i = j.i + 1 /\ SameSave(j, m) /\ m.ok = FALSE
  BY <1>1, <1>3 DEF Jobs, SameSave
<1>4. ASSUME NEW p \in {"schema", "saved"}, NEW m, m = [j EXCEPT !.pc = p]
      PROVE  m \in Jobs /\ m.pc = p /\ SameSave(j, m)
  BY <1>4 DEF Jobs, SameSave
<1>5. ASSUME NEW p \in {"schema", "saved"}, NEW m, m = [j EXCEPT !.pc = p, !.ok = FALSE]
      PROVE  m \in Jobs /\ m.pc = p /\ SameSave(j, m) /\ m.ok = FALSE
  BY <1>5 DEF Jobs, SameSave
<1>6. j.pc # "idle" /\ j.area \in Areas /\ j.target \in Lists /\ j.next \in Nexts
  BY DEF Jobs
<1> QED BY <1>1, <1>2, <1>3, <1>4, <1>5, <1>6

\* An area that holds a text gives it back.
LEMMA HoldsReads ==
    ASSUME NEW area, NEW text \in Text, Holds(area, text)
    PROVE  JoinChunks(area) = text
<1>1. DOMAIN SplitIntoChunks(text) = 1..Len(SplitIntoChunks(text))
  BY SplitFacts
<1> QED BY <1>1, JoinSplit DEF Holds

\* A list written whole, under the current schema, is the list that loads.
LEMMA ListLoads ==
    \A l \in Seq(Rec) :
        Holds(nvs.list, Pieces(l, Current)) /\ nvs.schema = Current => Loaded = ByName(l)
<1> SUFFICES ASSUME NEW l \in Seq(Rec), Holds(nvs.list, Pieces(l, Current)), nvs.schema = Current
             PROVE  Loaded = ByName(l)
  OBVIOUS
<1>1. Pieces(l, Current) \in Text
  BY PiecesFacts, CurrentIsPositive
<1>2. JoinChunks(nvs.list) = Pieces(l, Current)
  BY <1>1, HoldsReads
<1>3. nvs.list.count # NoKey
  <2>1. Len(SplitIntoChunks(Pieces(l, Current))) \in Nat
    BY <1>1, SplitFacts, ChunkCount
  <2> QED BY <2>1 DEF Holds, NoKey
<1>4. StoredText = Pieces(l, Current) /\ ~Fresh
  BY <1>2, <1>3 DEF StoredText, Fresh
<1>5. Stored.list = l
  BY <1>4, ParsePieces DEF Stored
<1> QED BY <1>4, <1>5 DEF Loaded

\* No text, no records.
LEMMA ParseEmpty == Parse(<<>>, Current).list = <<>>
<1> DEFINE l == Parse(<<>>, Current).list
<1>1. <<>> \in Text /\ Len(<<>>) = 0
  BY DEF Text
<1>2. l \in Seq(Rec) /\ 2 * Len(l) <= 0
  BY <1>1, ParseFacts, ParseIsShort, CurrentIsPositive
<1> HIDE DEF l
<1>3. Len(l) = 0
  BY <1>2, LenProperties
<1>4. l = <<>>
  BY <1>2, <1>3, EmptySeq
<1> QED BY <1>4 DEF l

\* A list of no chunk or one, under the current schema.
LEMMA NarrowLoads ==
    Types /\ nvs.schema = Current /\ nvs.list.count \in 0..1 =>
        /\ nvs.list.count = 0 => Loaded = <<>>
        /\ nvs.list.count = 1 => Loaded = ByName(Parse(nvs.list.chunk[1], Current).list)
<1> SUFFICES ASSUME Types, nvs.schema = Current, nvs.list.count \in 0..1
             PROVE  /\ nvs.list.count = 0 => Loaded = <<>>
                    /\ nvs.list.count = 1 =>
                         Loaded = ByName(Parse(nvs.list.chunk[1], Current).list)
  OBVIOUS
<1> DEFINE seqs == [k \in 1..nvs.list.count |-> nvs.list.chunk[k]]
<1>1. ~Fresh /\ StoredText = FlattenSeq(seqs)
  BY DEF Fresh, StoredText, JoinChunks, NoKey
<1>2. Loaded = ByName(Parse(FlattenSeq(seqs), Current).list)
  BY <1>1 DEF Loaded, Stored
<1>3. CASE nvs.list.count = 0
  <2>1. seqs = <<>> /\ Len(seqs) = 0
    BY <1>3
  <2>2. FlattenSeq(seqs) = <<>>
    BY <2>1 DEF FlattenSeq
  <2>3. <<>> \in Text /\ Len(<<>>) = 0
    BY DEF Text
  <2>4. Parse(<<>>, Current).list = <<>>
    BY ParseEmpty
  <2> QED BY <1>2, <1>3, <2>2, <2>4, SeedIsList
<1>4. CASE nvs.list.count = 1
  <2>1. Len(seqs) = 1 /\ seqs[1] = nvs.list.chunk[1]
    BY <1>4
  <2> HIDE DEF seqs
  <2>3. FlattenSeq(seqs) = seqs[1]
    <3> DEFINE n == 1
               w == seqs
    <3>1. n \in Nat /\ n >= 1 /\ Len(seqs) = n
      BY <2>1
    <3>2. \A k \in 1..n : w[k] = IF k = 1 THEN seqs[k] ELSE w[k - 1] \o seqs[k]
      OBVIOUS
    <3> HIDE DEF n, w
    <3>3. FlattenSeq(seqs) = w[n]
      BY <3>1, <3>2, FlattenIs
    <3> QED BY <3>3 DEF w, n
  <2> QED BY <1>2, <1>4, <2>1, <2>3
<1> QED BY <1>3, <1>4

----------------------------------------------------------------------------
(***************************************************************************)
(* The keys of a save, one at a time                                       *)
(***************************************************************************)
\* A text of one chunk is that chunk.
LEMMA OneChunk ==
    ASSUME NEW text \in Text, Len(SplitIntoChunks(text)) <= 1
    PROVE  /\ Len(SplitIntoChunks(text)) \in 0..1
           /\ Len(SplitIntoChunks(text)) = 1 => SplitIntoChunks(text)[1] = text
           /\ Len(SplitIntoChunks(text)) = 0 => text = <<>>
<1> DEFINE L == Len(text)
           n == Chunks(L)
<1>1. /\ L \in Nat /\ Len(SplitIntoChunks(text)) = n
      /\ \A k \in 1..n : SplitIntoChunks(text)[k] =
            SubSeq(text, (k - 1) * ChunkPieces + 1,
                   IF k * ChunkPieces < L THEN k * ChunkPieces ELSE L)
  BY SplitFacts
<1>2. n \in Nat /\ n <= 1 /\ L <= ChunkPieces /\ (n = 0 <=> L = 0)
  BY <1>1, ChunkCount
<1> HIDE DEF n
<1>3. CASE n = 1
  <2>1. (1 - 1) * ChunkPieces + 1 = 1 /\ ~(1 * ChunkPieces < L)
    BY <1>1, <1>2, Bounds
  <2>2. 1 \in 1..n
    BY <1>3
  <2>3. SplitIntoChunks(text)[1] = SubSeq(text, 1, L)
    BY <1>1, <2>1, <2>2
  <2>4. text \in Seq(Piece)
    BY DEF Text
  <2> QED BY <1>1, <1>3, <2>3, <2>4, SubSeqFull
<1>4. CASE n = 0
  <2>1. text \in Seq(Piece) /\ Len(text) = 0
    BY <1>2, <1>4 DEF Text
  <2> QED BY <1>1, <1>4, <2>1, EmptySeq
<1> QED BY <1>1, <1>2, <1>3, <1>4

\* What a step of a save keeps.
Advances(j, n, j2, n2) ==
    /\ SameSave(j, j2)
    /\ j2.ok /\ OnTrack(j, n) => OnTrack(j2, n2)
    /\ j.area = "list" =>
          \A good : Meant(j, good) /\ Narrow(j, n, good) => Narrow(j2, n2, good)

\* The same save writes the same text.
LEMMA SameText ==
    ASSUME NEW j, NEW j2, SameSave(j, j2)
    PROVE  TextOf(j2) = TextOf(j)
BY DEF SameSave, TextOf

\* The chunks of a job's text fit their keys.
LEMMA TextOfIs ==
    ASSUME NEW j \in Jobs
    PROVE  /\ TextOf(j) \in Text /\ j.area \in Areas
           /\ Len(SplitIntoChunks(TextOf(j))) \in 0..Keys
           /\ DOMAIN SplitIntoChunks(TextOf(j)) = 1..Len(SplitIntoChunks(TextOf(j)))
           /\ \A k \in DOMAIN SplitIntoChunks(TextOf(j)) :
                 /\ k \in ChunkKeys
                 /\ SplitIntoChunks(TextOf(j))[k] \in Text
                 /\ FitsKey(SplitIntoChunks(TextOf(j))[k], k, Limit(j.area))
<1>1. /\ TextOf(j) \in Text /\ Len(TextOf(j)) <= Limit(j.area) /\ j.area \in Areas
  BY TextFits
<1>2. Limit(j.area) \in Nat /\ Limit(j.area) <= Keys
  BY <1>1, Bounds
<1>3. /\ Len(SplitIntoChunks(TextOf(j))) \in 0..Keys
      /\ DOMAIN SplitIntoChunks(TextOf(j)) = 1..Len(SplitIntoChunks(TextOf(j)))
      /\ \A k \in 1..Len(SplitIntoChunks(TextOf(j))) :
            k \in ChunkKeys /\ FitsKey(SplitIntoChunks(TextOf(j))[k], k, Limit(j.area))
  BY <1>1, <1>2, SplitFits
<1> QED BY <1>1, <1>3 DEF FitsKey

\* Putting a chunk keeps a save on its track.
LEMMA ChunkAdvances ==
    ASSUME NEW j \in Jobs, NEW n \in Nvs, j.pc = "keys",
           j.i <= Len(SplitIntoChunks(TextOf(j)))
    PROVE  LET c == SplitIntoChunks(TextOf(j))[j.i]
               q == [n EXCEPT ![j.area].chunk[j.i] = c]
           IN /\ j.i \in ChunkKeys /\ c \in Text /\ FitsKey(c, j.i, Limit(j.area))
              /\ Advances(j, n, [j EXCEPT !.i = @ + 1], q)
              /\ Advances(j, n, [j EXCEPT !.i = @ + 1, !.ok = FALSE], n)
<1> DEFINE split == SplitIntoChunks(TextOf(j))
           c == split[j.i]
           q == [n EXCEPT ![j.area].chunk[j.i] = c]
           m == [j EXCEPT !.i = @ + 1]
           f == [j EXCEPT !.i = @ + 1, !.ok = FALSE]
<1>1. /\ m \in Jobs /\ m.pc = "keys" /\ m.i = j.i + 1 /\ SameSave(j, m)
      /\ f \in Jobs /\ SameSave(j, f) /\ f.ok = FALSE
      /\ j.i \in Nat /\ j.i >= 1 /\ j.area \in Areas
  BY JobMoves
<1>2. /\ TextOf(j) \in Text /\ Len(split) \in Nat /\ DOMAIN split = 1..Len(split)
      /\ \A k \in DOMAIN split :
            k \in ChunkKeys /\ split[k] \in Text /\ FitsKey(split[k], k, Limit(j.area))
  BY TextOfIs
<1>3. j.i \in DOMAIN split
  BY <1>1, <1>2
<1>4. j.i \in ChunkKeys /\ c \in Text /\ FitsKey(c, j.i, Limit(j.area))
  BY <1>2, <1>3
<1>5. /\ q \in Nvs /\ q.legacy = n.legacy /\ q.schema = n.schema
      /\ q[j.area].count = n[j.area].count /\ q[j.area].chunk[j.i] = c
      /\ \A l \in ChunkKeys : l # j.i => q[j.area].chunk[l] = n[j.area].chunk[l]
  <2> DEFINE a == j.area
             i == j.i
  <2>1. n \in Nvs /\ a \in Areas /\ i \in ChunkKeys /\ c \in Text
    BY <1>1, <1>4
  <2>2. q = Chunked(n, a, i, c)
    BY DEF Chunked
  <2> HIDE DEF c, a, i, q
  <2>3. /\ q \in Nvs /\ q.legacy = n.legacy /\ q.schema = n.schema
        /\ q[a].count = n[a].count /\ q[a].chunk[i] = c
        /\ \A l \in ChunkKeys : l # i => q[a].chunk[l] = n[a].chunk[l]
    BY <2>1, <2>2, NvsWrites
  <2> QED BY <2>3 DEF a, i
<1>6. TextOf(m) = TextOf(j) /\ TextOf(f) = TextOf(j)
  BY <1>1, SameText
<1>7. m.area = j.area
  BY <1>1 DEF SameSave
<1>8. ASSUME OnTrack(j, n) PROVE OnTrack(m, q)
  <2> HIDE DEF m, q, split
  <2>1. \A k \in DOMAIN split : k < j.i => n[j.area].chunk[k] = split[k]
    BY <1>8 DEF OnTrack, split
  <2>2. \A k \in DOMAIN split : k < m.i => q[j.area].chunk[k] = split[k]
    <3> SUFFICES ASSUME NEW k \in DOMAIN split, k < m.i PROVE q[j.area].chunk[k] = split[k]
      OBVIOUS
    <3>1. k \in Nat /\ (k < j.i \/ k = j.i)
      BY <1>1, <1>2
    <3> QED BY <1>2, <1>5, <2>1, <3>1
  <2> QED BY <1>1, <1>6, <1>7, <2>2 DEF OnTrack, split
<1>9. ASSUME j.area = "list", NEW good, Meant(j, good), Narrow(j, n, good)
      PROVE  Narrow(m, q, good) /\ Narrow(f, n, good)
  <2> HIDE DEF m, q, f, split
  <2>1. Len(split) <= 1
    BY <1>9 DEF Narrow, split
  <2>2. Len(split) = 1 /\ j.i = 1
    BY <1>1, <1>2, <1>3, <2>1
  <2>3. split[1] = TextOf(j)
    BY <1>2, <2>1, <2>2, OneChunk DEF split
  <2>4. q.list.chunk[1] = TextOf(j) /\ q.list.count = n.list.count
    BY <1>5, <1>9, <2>2, <2>3
  <2>5. ByName(Parse(q.list.chunk[1], Current).list) \in good
    BY <1>9, <2>4, TextFits DEF Meant
  <2> QED BY <1>5, <1>6, <1>9, <2>4, <2>5 DEF Narrow, split
<1> HIDE DEF m, f, q, c
<1>10. Advances(j, n, m, q)
  BY <1>1, <1>8, <1>9 DEF Advances
<1>11. Advances(j, n, f, n)
  BY <1>1, <1>9 DEF Advances
<1> QED BY <1>4, <1>10, <1>11 DEF m, f, q, c

\* A save that is past its chunks takes the next old one away.
LEMMA RemovalAdvances ==
    ASSUME NEW j \in Jobs, NEW n \in Nvs, j.pc = "keys",
           j.i > Len(SplitIntoChunks(TextOf(j))), j.i \in ChunkKeys,
           j.i <= n[j.area].count
    PROVE  Advances(j, n, [j EXCEPT !.i = @ + 1], Chunked(n, j.area, j.i, <<>>))
<1> DEFINE split == SplitIntoChunks(TextOf(j))
           q == Chunked(n, j.area, j.i, <<>>)
           m == [j EXCEPT !.i = @ + 1]
<1>1. /\ m \in Jobs /\ m.pc = "keys" /\ m.i = j.i + 1 /\ SameSave(j, m)
      /\ j.i \in Nat /\ j.i >= 1 /\ j.area \in Areas
  BY JobMoves
<1>2. TextOf(j) \in Text /\ Len(split) \in Nat /\ DOMAIN split = 1..Len(split)
  BY TextOfIs
<1>3. \A k \in DOMAIN split : k \in ChunkKeys /\ k \in Nat /\ k < j.i
  <2>1. \A k \in DOMAIN split : k \in ChunkKeys
    BY TextOfIs
  <2> HIDE DEF split
  <2> QED BY <1>1, <1>2, <2>1 DEF split
<1>4. /\ q.legacy = n.legacy /\ q.schema = n.schema
      /\ q[j.area].count = n[j.area].count /\ q[j.area].chunk[j.i] = <<>>
      /\ \A l \in ChunkKeys : l # j.i => q[j.area].chunk[l] = n[j.area].chunk[l]
  <2>1. <<>> \in Text
    BY DEF Text
  <2> QED BY <1>1, <2>1, NvsWrites
<1>5. TextOf(m) = TextOf(j) /\ m.area = j.area
  BY <1>1, SameText DEF SameSave
<1> HIDE DEF q, m, split
<1>6. ASSUME OnTrack(j, n) PROVE OnTrack(m, q)
  <2>1. \A k \in DOMAIN split : n[j.area].chunk[k] = split[k]
    BY <1>3, <1>6 DEF OnTrack, split
  <2>2. \A k \in DOMAIN split : q[j.area].chunk[k] = split[k]
    BY <1>1, <1>3, <1>4, <2>1
  <2> QED BY <1>1, <1>5, <2>2 DEF OnTrack, split
<1>7. ASSUME j.area = "list", NEW good, Meant(j, good), Narrow(j, n, good)
      PROVE  Narrow(m, q, good)
  <2>1. Len(split) = 0 /\ j.i = 1
    BY <1>1, <1>2, <1>7 DEF Narrow, split
  <2>2. TextOf(j) = <<>>
    BY <1>2, <2>1, OneChunk DEF split
  <2>3. q.list.chunk[1] = TextOf(j) /\ q.list.count = n.list.count
    BY <1>4, <1>7, <2>1, <2>2
  <2>4. ByName(Parse(q.list.chunk[1], Current).list) \in good
    BY <1>7, <2>3, TextFits DEF Meant
  <2> QED BY <1>4, <1>5, <1>7, <2>3, <2>4 DEF Narrow, split
<1> QED BY <1>1, <1>6, <1>7 DEF Advances, q, m

\* So does removing the legacy text.
LEMMA LegacyAdvances ==
    ASSUME NEW j \in Jobs, NEW n \in Nvs, j.pc = "keys"
    PROVE  Advances(j, n, j, [n EXCEPT !.legacy = <<>>])
<1> DEFINE q == [n EXCEPT !.legacy = <<>>]
<1>1. q.legacy = <<>> /\ q.schema = n.schema /\ \A b \in Areas : q[b] = n[b]
  BY NvsRest
<1>2. j.area \in Areas
  BY JobMoves
<1>3. q[j.area] = n[j.area] /\ q.list = n.list
  BY <1>1, <1>2 DEF Areas
<1> HIDE DEF q
<1> QED
  <2>1. OnTrack(j, n) => OnTrack(j, q)
    BY <1>3 DEF OnTrack
  <2>2. \A good : Narrow(j, n, good) => Narrow(j, q, good)
    BY <1>1, <1>3 DEF Narrow
  <2> QED BY <2>1, <2>2 DEF Advances, SameSave, q

\* The count is what makes the chunks the stored text.
LEMMA CountAdvances ==
    ASSUME NEW j \in Jobs, NEW n \in Nvs, j.pc = "keys",
           j.i > Len(SplitIntoChunks(TextOf(j))),
           j.area = "list" => n.legacy = <<>>,
           NEW p, p = IF j.area = "list" THEN "schema" ELSE "saved"
    PROVE  LET q == Counted(n, j.area, Len(SplitIntoChunks(TextOf(j))))
           IN /\ Advances(j, n, [j EXCEPT !.pc = p], q)
              /\ Advances(j, n, [j EXCEPT !.pc = p, !.ok = FALSE], n)
<1> DEFINE split == SplitIntoChunks(TextOf(j))
           q == Counted(n, j.area, Len(split))
           m == [j EXCEPT !.pc = p]
           f == [j EXCEPT !.pc = p, !.ok = FALSE]
<1>1. /\ m \in Jobs /\ m.pc = p /\ SameSave(j, m)
      /\ f \in Jobs /\ SameSave(j, f) /\ f.ok = FALSE
      /\ j.i \in Nat /\ j.i >= 1 /\ j.area \in Areas
  <2>1. p \in {"schema", "saved"}
    OBVIOUS
  <2> QED BY <2>1, JobMoves
<1>2. /\ TextOf(j) \in Text /\ Len(split) \in 0..Keys /\ DOMAIN split = 1..Len(split)
      /\ Keys \in Nat
  BY TextOfIs, Bounds
<1>3. \A k \in DOMAIN split : k < j.i
  <2> HIDE DEF split
  <2> QED BY <1>1, <1>2 DEF split
<1>4. /\ q.legacy = n.legacy /\ q.schema = n.schema
      /\ q[j.area].count = Len(split) /\ q[j.area].chunk = n[j.area].chunk
  BY <1>1, <1>2, NvsCounts
<1>5. TextOf(m) = TextOf(j) /\ m.area = j.area /\ TextOf(f) = TextOf(j)
  BY <1>1, SameText DEF SameSave
<1> HIDE DEF q, m, f, split
<1>6. ASSUME OnTrack(j, n) PROVE OnTrack(m, q)
  <2>1. \A k \in DOMAIN split : n[j.area].chunk[k] = split[k]
    BY <1>3, <1>6 DEF OnTrack, split
  <2>2. Holds(q[m.area], TextOf(m))
    BY <1>4, <1>5, <2>1 DEF Holds, split
  <2>3. m.area = "list" => q.legacy = <<>> /\ m.pc = "schema"
    BY <1>1, <1>4, <1>5
  <2>4. m.pc # "keys"
    BY <1>1
  <2> QED BY <2>2, <2>3, <2>4 DEF OnTrack
<1>7. ASSUME j.area = "list", NEW good, Meant(j, good), Narrow(j, n, good)
      PROVE  Narrow(m, q, good) /\ Narrow(f, n, good)
  <2>1. Len(split) <= 1
    BY <1>7 DEF Narrow, split
  <2>2. Len(split) \in 0..1
    BY <1>2, <2>1
  <2>3. q.list.chunk = n.list.chunk /\ q.list.count = Len(split)
    BY <1>4, <1>7
  <2>4. ASSUME Len(split) = 0 PROVE <<>> \in good
    <3>1. TextOf(j) = <<>>
      BY <1>2, <2>4, OneChunk DEF split
    <3>2. /\ Len(TextOf(j)) = (IF j.area = "list" THEN 0 ELSE 1) + 2 * Len(j.target)
          /\ Len(j.target) \in Nat
      BY TextFits
    <3>3. Len(j.target) = 0
      <4>1. Len(TextOf(j)) = 0
        BY <3>1
      <4>2. (IF j.area = "list" THEN 0 ELSE 1) = 0
        BY <1>7
      <4> DEFINE size == Len(j.target)
      <4>3. size \in Nat /\ 0 = 0 + 2 * size
        BY <3>2, <4>1, <4>2, Zenon
      <4> HIDE DEF size
      <4>4. size = 0
        BY <4>3
      <4> QED BY <4>4 DEF size
    <3>4. j.target \in Seq(Rec)
      BY JobMoves DEF Lists
    <3>5. j.target = <<>>
      BY <3>3, <3>4, EmptySeq
    <3> QED BY <1>7, <3>5, SeedIsList DEF Meant
  <2> QED BY <1>4, <1>5, <1>7, <2>2, <2>3, <2>4 DEF Narrow, split
<1>8. Advances(j, n, m, q) /\ Advances(j, n, f, n)
  BY <1>1, <1>6, <1>7 DEF Advances
<1> QED BY <1>8 DEF q, m, f, split

\* So does putting the schema's version.
LEMMA SchemaAdvances ==
    ASSUME NEW j \in Jobs, NEW n \in Nvs, j.pc = "schema", j.area = "list"
    PROVE  /\ Advances(j, n, [j EXCEPT !.pc = "saved"], [n EXCEPT !.schema = Current])
           /\ Advances(j, n, [j EXCEPT !.pc = "saved", !.ok = FALSE], n)
<1> DEFINE q == [n EXCEPT !.schema = Current]
           m == [j EXCEPT !.pc = "saved"]
           f == [j EXCEPT !.pc = "saved", !.ok = FALSE]
<1>1. /\ m \in Jobs /\ m.pc = "saved" /\ SameSave(j, m)
      /\ f \in Jobs /\ SameSave(j, f) /\ f.ok = FALSE
  BY JobMoves
<1>2. q.legacy = n.legacy /\ q.schema = Current /\ q.list = n.list
  <2>1. q.legacy = n.legacy /\ q.schema = Current /\ \A b \in Areas : q[b] = n[b]
    BY NvsRest
  <2> QED BY <2>1 DEF Areas
<1>3. TextOf(m) = TextOf(j) /\ m.area = "list" /\ TextOf(f) = TextOf(j)
  BY <1>1, SameText DEF SameSave
<1> HIDE DEF q, m, f
<1>4. OnTrack(j, n) => OnTrack(m, q)
  BY <1>1, <1>2, <1>3 DEF OnTrack
<1>5. \A good : Narrow(j, n, good) => Narrow(m, q, good) /\ Narrow(f, n, good)
  BY <1>2, <1>3 DEF Narrow
<1>6. Advances(j, n, m, q) /\ Advances(j, n, f, n)
  BY <1>1, <1>4, <1>5 DEF Advances
<1> QED BY <1>6 DEF q, m, f

----------------------------------------------------------------------------
(***************************************************************************)
(* A write of a key                                                        *)
(***************************************************************************)
Writes(t) ==
    \/ PutChunk(t) \/ RemoveChunk(t) \/ RemoveLegacy(t)
    \/ PutCount(t) \/ PutSchema(t)

\* What every write does, in the terms of the invariant.
Moves(t) ==
    /\ job[t] \in Jobs /\ job'[t] \in Jobs
    /\ job' = [job EXCEPT ![t] = job'[t]]
    /\ job'[t].pc = "schema" => job[t].area = "list"
    /\ nvs' \in Nvs /\ nvs'.seeded = nvs.seeded
    /\ \A b \in Areas : b # job[t].area => nvs'[b] = nvs[b]
    /\ job[t].area = "backup" => nvs'.legacy = nvs.legacy /\ nvs'.schema = nvs.schema
    /\ nvs'.legacy \in {nvs.legacy, <<>>}
    /\ \A k \in ChunkKeys : FitsKey(nvs'[job[t].area].chunk[k], k, Limit(job[t].area))
    /\ nvs'[job[t].area].count \in {nvs[job[t].area].count} \cup Nat
    /\ Advances(job[t], nvs, job'[t], nvs')
    /\ UNCHANGED <<kind, lock, boot, allowed, mixed, undo>>

\* A removed chunk fits any key.
LEMMA EmptyFits ==
    ASSUME NEW k \in ChunkKeys, NEW a \in Areas
    PROVE  FitsKey(<<>>, k, Limit(a))
BY Bounds DEF FitsKey, Text

\* A step that leaves NVS alone.
LEMMA RefusedMoves ==
    ASSUME Types, Room, NEW t \in Tasks, NEW m \in Jobs,
           job[t] \in Jobs, nvs' = nvs, job' = [job EXCEPT ![t] = m],
           m.pc = "schema" => job[t].area = "list",
           Advances(job[t], nvs, m, nvs),
           UNCHANGED <<kind, lock, boot, allowed, mixed, undo>>
    PROVE  Moves(t)
<1>1. job'[t] = m /\ job[t].area \in Areas /\ nvs \in Nvs
  BY JobMoves DEF Types
<1>2. \A k \in ChunkKeys : FitsKey(nvs[job[t].area].chunk[k], k, Limit(job[t].area))
  BY <1>1 DEF Room
<1> QED BY <1>1, <1>2 DEF Moves

\* Every write moves its job, done or refused.
LEMMA WritesMove ==
    ASSUME Types, Room, NEW t \in Tasks, Writes(t)
    PROVE  Moves(t)
<1> DEFINE j == job[t]
           a == j.area
           split == SplitIntoChunks(TextOf(j))
<1>1. j \in Jobs /\ j.pc # "idle"
  BY DEF Types, Writes, PutChunk, RemoveChunk, RemoveLegacy, PutCount, PutSchema,
         ChunksPut, Writing, Idle
<1>2. /\ nvs \in Nvs /\ a \in Areas /\ j.i \in Nat /\ j.i >= 1
      /\ job \in [Tasks -> Jobs \cup {Idle}]
  BY <1>1, JobMoves DEF Types
<1>3. ASSUME NEW m \in Jobs, job' = [job EXCEPT ![t] = m]
      PROVE  job'[t] = m /\ job' = [job EXCEPT ![t] = job'[t]]
  BY <1>2, <1>3
<1>4. \A b \in Areas, k \in ChunkKeys : FitsKey(nvs[b].chunk[k], k, Limit(b))
  BY DEF Room
<1>5. CASE PutChunk(t)
  <2>1. /\ j.pc = "keys" /\ j.i <= Len(split)
        /\ UNCHANGED <<kind, lock, boot, allowed, mixed, undo>>
    BY <1>5 DEF PutChunk, Writing, ChunksOf
  <2> DEFINE c == split[j.i]
             q == Chunked(nvs, a, j.i, c)
             m == [j EXCEPT !.i = @ + 1]
             f == [j EXCEPT !.i = @ + 1, !.ok = FALSE]
  <2>2. /\ j.i \in ChunkKeys /\ c \in Text /\ FitsKey(c, j.i, Limit(a))
        /\ Advances(j, nvs, m, q) /\ Advances(j, nvs, f, nvs)
    BY <1>1, <1>2, <2>1, ChunkAdvances DEF Chunked
  <2>3. /\ m \in Jobs /\ m.pc = "keys" /\ f \in Jobs /\ f.pc = "keys"
    BY <1>1, <2>1, JobMoves
  <2>4. CASE nvs' = q /\ job' = [job EXCEPT ![t] = m]
    <3> HIDE DEF j, a, c, m, split
    <3>1. /\ q \in Nvs /\ q.legacy = nvs.legacy /\ q.schema = nvs.schema
          /\ q.seeded = nvs.seeded
          /\ q[a].count = nvs[a].count /\ q[a].chunk[j.i] = c
          /\ \A l \in ChunkKeys : l # j.i => q[a].chunk[l] = nvs[a].chunk[l]
          /\ \A b \in Areas : b # a => q[b] = nvs[b]
      BY <1>2, <2>2, NvsWrites
    <3> HIDE DEF q
    <3>2. \A k \in ChunkKeys : FitsKey(q[a].chunk[k], k, Limit(a))
      BY <1>2, <1>4, <2>2, <3>1
    <3>3. job'[t] = m /\ job' = [job EXCEPT ![t] = job'[t]]
      BY <1>3, <2>3, <2>4
    <3> QED BY <1>1, <2>1, <2>2, <2>3, <2>4, <3>1, <3>2, <3>3 DEF Moves, j, a
  <2>5. CASE nvs' = nvs /\ job' = [job EXCEPT ![t] = f]
    <3> HIDE DEF f, m
    <3> QED BY <1>1, <2>1, <2>2, <2>3, <2>5, RefusedMoves
  <2>6. \/ nvs' = q /\ job' = [job EXCEPT ![t] = m]
        \/ nvs' = nvs /\ job' = [job EXCEPT ![t] = f]
    BY <1>5 DEF PutChunk, ChunksOf, Chunked
  <2> QED BY <2>4, <2>5, <2>6
<1>6. CASE RemoveChunk(t)
  <2>1. /\ j.pc = "keys" /\ j.i > Len(split) /\ j.i <= nvs[a].count
        /\ UNCHANGED <<kind, lock, boot, allowed, mixed, undo>>
    BY <1>6 DEF RemoveChunk, ChunksPut, Writing, ChunksOf
  <2> DEFINE q == Chunked(nvs, a, j.i, <<>>)
             m == [j EXCEPT !.i = @ + 1]
  <2>2. nvs' = q /\ job' = [job EXCEPT ![t] = m]
    BY <1>6 DEF RemoveChunk, Chunked
  <2>3. j.i \in ChunkKeys
    <3>1. nvs[a].count \in {NoKey} \cup (0..Keys)
      BY <1>2 DEF Nvs, Area, Areas
    <3> QED BY <1>2, <2>1, <3>1, Bounds DEF NoKey
  <2>4. Advances(j, nvs, m, q)
    BY <1>1, <1>2, <2>1, <2>3, RemovalAdvances
  <2>5. m \in Jobs /\ m.pc = "keys"
    BY <1>1, <2>1, JobMoves
  <2> HIDE DEF m, split
  <2>6. job'[t] = m /\ job' = [job EXCEPT ![t] = job'[t]]
    BY <1>3, <2>2, <2>5
  <2>7. /\ q \in Nvs /\ q.legacy = nvs.legacy /\ q.schema = nvs.schema
        /\ q.seeded = nvs.seeded
        /\ q[a].count = nvs[a].count /\ q[a].chunk[j.i] = <<>>
        /\ \A l \in ChunkKeys : l # j.i => q[a].chunk[l] = nvs[a].chunk[l]
        /\ \A b \in Areas : b # a => q[b] = nvs[b]
    <3>1. <<>> \in Text
      BY DEF Text
    <3> HIDE DEF j, a
    <3> QED BY <1>2, <2>3, <3>1, NvsWrites
  <2> HIDE DEF q
  <2>8. \A k \in ChunkKeys : FitsKey(q[a].chunk[k], k, Limit(a))
    <3> HIDE DEF j, a
    <3> QED BY <1>2, <1>4, <2>3, <2>7, EmptyFits
  <2> QED BY <1>1, <2>1, <2>2, <2>4, <2>5, <2>6, <2>7, <2>8 DEF Moves
<1>7. CASE RemoveLegacy(t)
  <2>1. /\ j.pc = "keys" /\ a = "list"
        /\ UNCHANGED <<job, kind, lock, boot, allowed, mixed, undo>>
        /\ nvs' = [nvs EXCEPT !.legacy = <<>>]
    BY <1>7 DEF RemoveLegacy, ChunksPut, Writing, HasLegacy
  <2> DEFINE q == [nvs EXCEPT !.legacy = <<>>]
  <2>2. /\ q \in Nvs /\ q.legacy = <<>> /\ q.schema = nvs.schema
        /\ q.seeded = nvs.seeded /\ \A b \in Areas : q[b] = nvs[b]
    BY <1>2, NvsRest
  <2>3. Advances(j, nvs, j, q)
    BY <1>1, <1>2, <2>1, LegacyAdvances
  <2>4. job' = [job EXCEPT ![t] = job'[t]] /\ job'[t] = j
    BY <1>2, <2>1
  <2> HIDE DEF q
  <2>5. nvs' = q
    BY <2>1 DEF q
  <2> QED BY <1>1, <1>2, <1>4, <2>1, <2>2, <2>3, <2>4, <2>5 DEF Moves
<1>8. CASE PutCount(t)
  <2> DEFINE p == IF a = "list" THEN "schema" ELSE "saved"
             q == Counted(nvs, a, Len(split))
             m == [j EXCEPT !.pc = p]
             f == [j EXCEPT !.pc = p, !.ok = FALSE]
  <2>1. /\ j.pc = "keys" /\ j.i > Len(split) /\ (a = "list" => nvs.legacy = <<>>)
        /\ UNCHANGED <<kind, lock, boot, allowed, mixed, undo>>
        /\ \/ nvs' = q /\ job' = [job EXCEPT ![t] = m]
           \/ nvs' = nvs /\ job' = [job EXCEPT ![t] = f]
    BY <1>8 DEF PutCount, ChunksPut, Writing, ChunksOf, HasLegacy, Counted
  <2>2. p \in {"schema", "saved"} /\ (p = "schema" => a = "list")
    OBVIOUS
  <2>3. Advances(j, nvs, m, q) /\ Advances(j, nvs, f, nvs)
    BY <1>1, <1>2, <2>1, CountAdvances
  <2> HIDE DEF p
  <2>4. m \in Jobs /\ m.pc = p /\ f \in Jobs /\ f.pc = p
    BY <1>1, <2>2, JobMoves
  <2>5. Len(split) \in 0..Keys /\ Keys \in Nat
    BY <1>1, TextOfIs, Bounds
  <2> HIDE DEF m, f, split
  <2>6. CASE nvs' = q /\ job' = [job EXCEPT ![t] = m]
    <3>1. job'[t] = m /\ job' = [job EXCEPT ![t] = job'[t]]
      BY <1>3, <2>4, <2>6
    <3>2. /\ q \in Nvs /\ q.legacy = nvs.legacy /\ q.schema = nvs.schema
          /\ q.seeded = nvs.seeded
          /\ q[a].count = Len(split) /\ q[a].chunk = nvs[a].chunk
          /\ \A b \in Areas : b # a => q[b] = nvs[b]
      <4> HIDE DEF j, a
      <4> QED BY <1>2, <2>5, NvsCounts
    <3>3. q[a].count \in Nat
      BY <2>5, <3>2
    <3> HIDE DEF q
    <3> QED BY <1>1, <1>2, <1>4, <2>1, <2>2, <2>3, <2>4, <2>6, <3>1, <3>2, <3>3 DEF Moves
  <2>7. CASE nvs' = nvs /\ job' = [job EXCEPT ![t] = f]
    BY <1>1, <2>1, <2>2, <2>3, <2>4, <2>7, RefusedMoves
  <2> QED BY <2>1, <2>6, <2>7
<1>9. CASE PutSchema(t)
  <2> DEFINE q == [nvs EXCEPT !.schema = Current]
             m == [j EXCEPT !.pc = "saved"]
             f == [j EXCEPT !.pc = "saved", !.ok = FALSE]
  <2>1. /\ j.pc = "schema"
        /\ UNCHANGED <<kind, lock, boot, allowed, mixed, undo>>
        /\ \/ nvs' = q /\ job' = [job EXCEPT ![t] = m]
           \/ nvs' = nvs /\ job' = [job EXCEPT ![t] = f]
    BY <1>9 DEF PutSchema
  <2>2. a = "list"
    BY <1>1, <1>2, <2>1 DEF Room, Areas
  <2>3. Advances(j, nvs, m, q) /\ Advances(j, nvs, f, nvs)
    BY <1>1, <1>2, <2>1, <2>2, SchemaAdvances
  <2>4. m \in Jobs /\ m.pc = "saved" /\ f \in Jobs /\ f.pc = "saved"
    BY <1>1, JobMoves
  <2>5. /\ q \in Nvs /\ q.schema = Current /\ q.legacy = nvs.legacy
        /\ q.seeded = nvs.seeded /\ \A b \in Areas : q[b] = nvs[b]
    BY <1>2, NvsRest
  <2> HIDE DEF m, f, q
  <2>6. CASE nvs' = q /\ job' = [job EXCEPT ![t] = m]
    <3>1. job'[t] = m /\ job' = [job EXCEPT ![t] = job'[t]]
      BY <1>3, <2>4, <2>6
    <3> QED BY <1>1, <1>2, <1>4, <2>1, <2>2, <2>3, <2>4, <2>5, <2>6, <3>1 DEF Moves
  <2>7. CASE nvs' = nvs /\ job' = [job EXCEPT ![t] = f]
    BY <1>1, <2>1, <2>2, <2>3, <2>4, <2>7, RefusedMoves
  <2> QED BY <2>1, <2>6, <2>7
<1> QED BY <1>5, <1>6, <1>7, <1>8, <1>9 DEF Writes

\* A job that moves keeps the types and the room.
LEMMA MovesShape ==
    ASSUME Types, Room, NEW t \in Tasks, Moves(t)
    PROVE  Types' /\ Room'
<1> DEFINE a == job[t].area
<1>1. a \in Areas /\ job \in [Tasks -> Jobs \cup {Idle}] /\ nvs \in Nvs
  BY JobMoves DEF Moves, Types
<1>2. job' \in [Tasks -> Jobs \cup {Idle}] /\ \A u \in Tasks : u # t => job'[u] = job[u]
  BY <1>1 DEF Moves
<1>3. Types'
  BY <1>2 DEF Types, Moves
<1>4. \A b \in Areas, k \in ChunkKeys : FitsKey(nvs'[b].chunk[k], k, Limit(b))
  <2> SUFFICES ASSUME NEW b \in Areas, NEW k \in ChunkKeys
               PROVE  FitsKey(nvs'[b].chunk[k], k, Limit(b))
    OBVIOUS
  <2>1. CASE b = a
    BY <2>1 DEF Moves
  <2>2. CASE b # a
    <3>1. nvs'[b] = nvs[b]
      BY <2>2 DEF Moves
    <3> QED BY <3>1 DEF Room
  <2> QED BY <2>1, <2>2
<1>5. nvs.backup.count # NoKey => nvs'.backup.count # NoKey
  <2>1. CASE a = "backup"
    BY <2>1 DEF Moves, NoKey
  <2>2. CASE a # "backup"
    BY <2>2 DEF Moves, Areas
  <2> QED BY <2>1, <2>2
<1>6. Len(nvs'.legacy) <= Limit("list")
  <2>1. Len(<<>>) <= Limit("list")
    BY Bounds DEF Limit
  <2> QED BY <2>1 DEF Moves, Room
<1>7. \A u \in Tasks : job'[u].pc # "idle" /\ job'[u].area = "backup" =>
         job'[u].pc # "schema" /\ job'[u].next # <<>>
  <2> SUFFICES ASSUME NEW u \in Tasks, job'[u].pc # "idle", job'[u].area = "backup"
               PROVE  job'[u].pc # "schema" /\ job'[u].next # <<>>
    OBVIOUS
  <2>1. CASE u = t
    <3>1. job'[t].area = job[t].area /\ job'[t].next = job[t].next
      BY DEF Moves, Advances, SameSave
    <3>2. job[t].pc # "idle"
      BY JobMoves DEF Moves
    <3>3. job'[t].pc = "schema" => job[t].area = "list"
      BY DEF Moves
    <3> QED BY <2>1, <3>1, <3>2, <3>3 DEF Room
  <2>2. CASE u # t
    <3>1. job'[u] = job[u]
      BY <1>2, <2>2
    <3> QED BY <3>1 DEF Room
  <2> QED BY <2>1, <2>2
<1>8. Room'
  BY <1>4, <1>5, <1>6, <1>7 DEF Room
<1> QED BY <1>3, <1>8

----------------------------------------------------------------------------
(***************************************************************************)
(* What starts a save                                                      *)
(***************************************************************************)
Begun(s, target, next) ==
    /\ s \in Jobs /\ s.pc = "keys" /\ s.area = "list" /\ s.i = 1
    /\ s.target = target /\ s.next = next
    /\ s.ok /\ (s.risky <=> Risky(target))

\* A save is risky or not.
LEMMA RiskyIsBoolean ==
    ASSUME NEW target
    PROVE  Risky(target) \in BOOLEAN
BY DEF Risky

\* A save under the mutex starts at the first chunk.
LEMMA LockedSave ==
    ASSUME NEW target \in Lists, NEW next \in Nexts
    PROVE  Begun(Save(target, next, TRUE), target, next) /\ Save(target, next, TRUE).locked
BY RiskyIsBoolean DEF Save, Begun, Jobs, Areas

\* So does one without it.
LEMMA UnlockedSave ==
    ASSUME NEW target \in Lists, NEW next \in Nexts
    PROVE  Begun(Save(target, next, FALSE), target, next) /\ ~Save(target, next, FALSE).locked
BY RiskyIsBoolean DEF Save, Begun, Jobs, Areas

\* So does either.
LEMMA SaveIs ==
    ASSUME NEW target \in Lists, NEW next \in Nexts, NEW locked \in BOOLEAN
    PROVE  /\ Begun(Save(target, next, locked), target, next)
           /\ Save(target, next, locked).locked <=> locked
BY RiskyIsBoolean DEF Save, Begun, Jobs, Areas

\* And so does a backup, without the mutex.
LEMMA SaveBackupIs ==
    ASSUME NEW target \in Lists, NEW next \in Nexts
    PROVE  /\ SaveBackup(target, next) \in Jobs
           /\ SaveBackup(target, next).pc = "keys"
           /\ SaveBackup(target, next).area = "backup"
           /\ SaveBackup(target, next).i = 1
           /\ SaveBackup(target, next).target = target
           /\ SaveBackup(target, next).next = next
           /\ ~SaveBackup(target, next).locked
           /\ SaveBackup(target, next).ok
BY DEF SaveBackup, Jobs, Areas

\* The records of an import or an edit are records.
LEMMA RecordsAreRec == Records \subseteq Rec
<1> SUFFICES ASSUME NEW r \in Records PROVE r \in Rec
  OBVIOUS
<1>1. CASE kind = "camera"
  <2>1. PICK n \in Names, w \in 0..1 : r = [name |-> n, id |-> n, v |-> w, late |-> w]
    BY <1>1 DEF Records
  <2> QED BY <2>1, ConstantsAssumption DEF Rec
<1>2. CASE kind # "camera"
  <2>1. PICK n \in Names, i \in Names : r = [name |-> n, id |-> i, v |-> 0, late |-> 0]
    BY <1>2 DEF Records
  <2> QED BY <2>1, ConstantsAssumption DEF Rec
<1> QED BY <1>1, <1>2

\* Records clash with each other.
LEMMA ClashIsSymmetric ==
    ASSUME NEW r, NEW s
    PROVE  Clash(r, s) <=> Clash(s, r)
BY DEF Clash

\* What an edit makes of a list without clashes has none.
LEMMA AdditionIsClean ==
    ASSUME NEW l \in Lists, NEW r \in Rec, Len(l) < MaxRecords
    PROVE  /\ Append(l, r) \in Lists
           /\ ~Clashing(l) /\ (\A i \in DOMAIN l : ~Clash(l[i], r)) => ~Clashing(Append(l, r))
<1>1. l \in Seq(Rec) /\ Len(l) \in Nat /\ DOMAIN l = 1..Len(l)
  BY LenProperties DEF Lists
<1> DEFINE q == Append(l, r)
<1>2. /\ q \in Seq(Rec) /\ Len(q) = Len(l) + 1 /\ DOMAIN q = 1..(Len(l) + 1)
      /\ \A i \in 1..Len(l) : q[i] = l[i]
      /\ q[Len(l) + 1] = r
  BY <1>1
<1> HIDE DEF q
<1>3. q \in Lists
  BY <1>1, <1>2, Bounds DEF Lists
<1>4. ASSUME ~Clashing(l), \A i \in DOMAIN l : ~Clash(l[i], r) PROVE ~Clashing(q)
  <2> SUFFICES ASSUME NEW i \in 1..(Len(l) + 1), NEW j \in 1..(Len(l) + 1), i < j
               PROVE  ~Clash(q[i], q[j])
    BY <1>2 DEF Clashing
  <2>1. i \in 1..Len(l)
    BY <1>1
  <2>2. CASE j \in 1..Len(l)
    BY <1>1, <1>2, <1>4, <2>1, <2>2 DEF Clashing
  <2>3. CASE j = Len(l) + 1
    BY <1>1, <1>2, <1>4, <2>1, <2>3
  <2> QED BY <1>1, <2>2, <2>3
<1> QED BY <1>3, <1>4 DEF q

\* Replacing a record keeps a list clean, if nothing else clashes.
LEMMA ReplacementIsClean ==
    ASSUME NEW l \in Lists, NEW i \in DOMAIN l, NEW r \in Rec
    PROVE  /\ ReplaceAt(l, i, r) \in Lists
           /\ ~Clashing(l) /\ (\A k \in DOMAIN l \ {i} : ~Clash(l[k], r))
                => ~Clashing(ReplaceAt(l, i, r))
<1>1. l \in Seq(Rec) /\ Len(l) \in Nat /\ DOMAIN l = 1..Len(l) /\ Len(l) <= MaxRecords
  BY LenProperties DEF Lists
<1> DEFINE q == ReplaceAt(l, i, r)
<1>2. /\ q \in Seq(Rec) /\ Len(q) = Len(l) /\ DOMAIN q = 1..Len(l)
      /\ q[i] = r /\ \A k \in 1..Len(l) : k # i => q[k] = l[k]
  BY <1>1 DEF ReplaceAt
<1> HIDE DEF q
<1>3. q \in Lists
  BY <1>1, <1>2 DEF Lists
<1>4. ASSUME ~Clashing(l), \A k \in DOMAIN l \ {i} : ~Clash(l[k], r) PROVE ~Clashing(q)
  <2> SUFFICES ASSUME NEW k \in 1..Len(l), NEW m \in 1..Len(l), k < m
               PROVE  ~Clash(q[k], q[m])
    BY <1>2 DEF Clashing
  <2>1. k # m
    BY <1>1
  <2>2. CASE k = i
    <3>1. ~Clash(l[m], r) /\ q[m] = l[m] /\ q[k] = r
      BY <1>1, <1>2, <1>4, <2>1, <2>2
    <3> QED BY <3>1, ClashIsSymmetric
  <2>3. CASE m = i
    <3>1. ~Clash(l[k], r) /\ q[k] = l[k] /\ q[m] = r
      BY <1>1, <1>2, <1>4, <2>1, <2>3
    <3> QED BY <3>1
  <2>4. CASE k # i /\ m # i
    BY <1>1, <1>2, <1>4, <2>4 DEF Clashing
  <2> QED BY <2>2, <2>3, <2>4
<1> QED BY <1>3, <1>4 DEF q

\* Deleting a record keeps a list clean.
LEMMA DeletionIsClean ==
    ASSUME NEW l \in Lists, NEW i \in DOMAIN l
    PROVE  /\ RemoveAt(l, i) \in Lists
           /\ ~Clashing(l) => ~Clashing(RemoveAt(l, i))
<1>1. l \in Seq(Rec) /\ Len(l) \in Nat /\ DOMAIN l = 1..Len(l) /\ Len(l) <= MaxRecords
  BY LenProperties DEF Lists
<1>2. i \in Nat /\ 1 <= i /\ i <= Len(l)
  BY <1>1
<1> DEFINE q == RemoveAt(l, i)
           b == SubSeq(l, 1, i - 1)
           c == SubSeq(l, i + 1, Len(l))
<1>3. /\ b \in Seq(Rec) /\ Len(b) = i - 1 /\ \A k \in 1..(i - 1) : b[k] = l[k]
  BY <1>1, <1>2
<1>4. /\ c \in Seq(Rec) /\ Len(c) = Len(l) - i /\ \A k \in 1..(Len(l) - i) : c[k] = l[i + k]
  BY <1>1, <1>2
<1>5. q = b \o c
  BY DEF RemoveAt
<1> HIDE DEF b, c, q
<1>6. /\ q \in Seq(Rec) /\ Len(q) = Len(l) - 1
      /\ \A k \in 1..(Len(l) - 1) : q[k] = IF k < i THEN l[k] ELSE l[k + 1]
  <2>1. q \in Seq(Rec) /\ Len(q) = Len(l) - 1
    <3>1. q \in Seq(Rec) /\ Len(q) = Len(b) + Len(c)
      BY <1>3, <1>4, <1>5, ConcatProperties
    <3>2. (i - 1) + (Len(l) - i) = Len(l) - 1
      BY <1>1, <1>2
    <3> QED BY <1>3, <1>4, <3>1, <3>2
  <2>2. ASSUME NEW k \in 1..(Len(l) - 1)
        PROVE  q[k] = IF k < i THEN l[k] ELSE l[k + 1]
    <3>1. CASE k < i
      <4>1. k \in 1..(i - 1) /\ k \in 1..Len(b)
        BY <1>1, <1>2, <1>3, <3>1
      <4>2. q[k] = b[k]
        BY <1>3, <1>4, <1>5, <4>1
      <4> QED BY <1>3, <3>1, <4>1, <4>2
    <3>2. CASE ~(k < i)
      <4>1. k - (i - 1) \in 1..(Len(l) - i) /\ k - (i - 1) \in Nat
        BY <1>1, <1>2, <3>2
      <4>2. q[k] = c[k - (i - 1)]
        BY <1>1, <1>2, <1>3, <1>4, <1>5, <3>2, <4>1
      <4>3. c[k - (i - 1)] = l[i + (k - (i - 1))] /\ i + (k - (i - 1)) = k + 1
        BY <1>1, <1>2, <1>4, <4>1
      <4> QED BY <3>2, <4>2, <4>3
    <3> QED BY <3>1, <3>2
  <2> QED BY <2>1, <2>2
<1>7. q \in Lists
  BY <1>1, <1>6, Bounds DEF Lists
<1>8. ASSUME ~Clashing(l) PROVE ~Clashing(q)
  <2> SUFFICES ASSUME NEW k \in 1..(Len(l) - 1), NEW m \in 1..(Len(l) - 1), k < m
               PROVE  ~Clash(q[k], q[m])
    BY <1>1, <1>6 DEF Clashing
  <2> DEFINE x == IF k < i THEN k ELSE k + 1
             y == IF m < i THEN m ELSE m + 1
  <2>1. x \in 1..Len(l) /\ y \in 1..Len(l) /\ x < y
    BY <1>1, <1>2
  <2>2. q[k] = l[x] /\ q[m] = l[y]
    BY <1>6
  <2> HIDE DEF x, y
  <2> QED BY <1>1, <1>8, <2>1, <2>2 DEF Clashing
<1> QED BY <1>7, <1>8 DEF q

\* Changing every record but its name keeps a list clean.
LEMMA UpdateIsClean ==
    ASSUME NEW l \in Lists, NEW w \in 0..1
    PROVE  LET q == [i \in DOMAIN l |-> [l[i] EXCEPT !.v = w, !.late = w]]
           IN q \in Lists /\ (~Clashing(l) => ~Clashing(q))
<1>1. /\ l \in Seq(Rec) /\ Len(l) \in Nat /\ DOMAIN l = 1..Len(l) /\ Len(l) <= MaxRecords
      /\ \A i \in 1..Len(l) : l[i] \in Rec
  BY LenProperties, ElementOfSeq DEF Lists
<1> DEFINE e(i) == [l[i] EXCEPT !.v = w, !.late = w]
           q == [i \in 1..Len(l) |-> e(i)]
<1>2. \A i \in 1..Len(l) : e(i) \in Rec /\ e(i).name = l[i].name /\ e(i).id = l[i].id
  BY <1>1 DEF Rec
<1> HIDE DEF e
<1>3. q \in Seq(Rec) /\ Len(q) = Len(l) /\ DOMAIN q = 1..Len(l)
  BY <1>1, <1>2
<1>4. q \in Lists
  BY <1>1, <1>3 DEF Lists
<1>5. ~Clashing(l) => ~Clashing(q)
  BY <1>1, <1>2 DEF Clashing, Clash
<1> QED BY <1>1, <1>4, <1>5 DEF e

\* What an edit means to store is a list, and a clean one.
LEMMA EditTargets ==
    ASSUME Types, Room,
           NEW target \in Additions \cup Deletions \cup Replacements \cup UpdatesOfAll
    PROVE  target \in Lists /\ (~Clashing(Loaded) => ~Clashing(target))
<1> DEFINE l == Loaded
<1>1. l \in Lists
  BY LoadedIsList
<1> HIDE DEF l
<1>2. CASE target \in Additions
  <2>1. PICK r \in Records : /\ target = Append(l, r) /\ Len(l) < MaxRecords
                             /\ \A i \in DOMAIN l : ~Clash(l[i], r)
    BY <1>2 DEF Additions, l
  <2>2. r \in Rec
    BY RecordsAreRec
  <2> QED BY <1>1, <2>1, <2>2, AdditionIsClean DEF l
<1>3. CASE target \in Deletions
  <2>1. PICK i \in DOMAIN l : target = RemoveAt(l, i)
    BY <1>3 DEF Deletions, l
  <2> QED BY <1>1, <2>1, DeletionIsClean DEF l
<1>4. CASE target \in Replacements
  <2>1. PICK p \in (DOMAIN l) \X Records :
           /\ target = ReplaceAt(l, p[1], p[2])
           /\ \A i \in DOMAIN l \ {p[1]} : ~Clash(l[i], p[2])
    BY <1>4 DEF Replacements, l
  <2>2. p[1] \in DOMAIN l /\ p[2] \in Rec
    BY RecordsAreRec
  <2> QED BY <1>1, <2>1, <2>2, ReplacementIsClean DEF l
<1>5. CASE target \in UpdatesOfAll
  <2>1. PICK w \in 0..1 : target = [i \in DOMAIN l |-> [l[i] EXCEPT !.v = w, !.late = w]]
    BY <1>5 DEF UpdatesOfAll, l
  <2> QED BY <1>1, <2>1, UpdateIsClean DEF l
<1> QED BY <1>2, <1>3, <1>4, <1>5

\* What a file holds is a list.
LEMMA FilesAreLists ==
    ASSUME NEW file \in Files, Len(file) <= MaxRecords
    PROVE  file \in Lists
<1>1. CASE file = <<>>
  BY <1>1, SeedIsList
<1>2. CASE \E r \in Records : file = <<r>>
  BY <1>2, RecordsAreRec DEF Lists
<1>3. CASE \E r \in Records, s \in Records : file = <<r, s>>
  BY <1>3, RecordsAreRec DEF Lists
<1> QED BY <1>1, <1>2, <1>3 DEF Files

\* A step that leaves NVS alone.
LEMMA SameShape ==
    ASSUME Types, Room, kind' = kind, nvs' = nvs,
           boot' \in [at : {"off", "seeds", "up"}, todo : {<<>>, Seed}],
           job' \in [Tasks -> Jobs \cup {Idle}],
           \A t \in Tasks :
              \/ job'[t] = job[t] \/ job'[t] = Idle \/ job'[t].area = "list"
              \/ job'[t].pc = "keys" /\ job'[t].next # <<>>
    PROVE  Types' /\ Room'
<1>1. Types'
  BY DEF Types
<1>2. \A t \in Tasks : job'[t].pc # "idle" /\ job'[t].area = "backup" =>
         job'[t].pc # "schema" /\ job'[t].next # <<>>
  BY DEF Room, Idle
<1>3. Room'
  BY <1>2 DEF Room
<1> QED BY <1>1, <1>3

\* One task's step leaves the other's job alone.
LEMMA OneJob ==
    ASSUME Types, NEW t \in Tasks, NEW s \in Jobs \cup {Idle}, job' = [job EXCEPT ![t] = s]
    PROVE  /\ job' \in [Tasks -> Jobs \cup {Idle}]
           /\ job'[t] = s /\ \A u \in Tasks : u # t => job'[u] = job[u]
BY DEF Types

\* The save that a load-modify-save starts with.
LEMMA LoadThenSaveIs ==
    ASSUME Types, Room, NEW t \in Tasks, NEW target \in Lists,
           LoadThenSave(t, target, TRUE)
    PROVE  \E s \in Jobs :
              /\ job' = [job EXCEPT ![t] = s]
              /\ Begun(s, IF LoadSaves THEN Loaded ELSE target,
                          IF LoadSaves THEN <<target>> ELSE <<>>)
<1> DEFINE first == IF LoadSaves THEN Loaded ELSE target
           next == IF LoadSaves THEN <<target>> ELSE <<>>
           s == Save(first, next, TRUE)
<1>1. first \in Lists
  BY LoadedIsList
<1>2. next \in Nexts
  BY DEF Nexts
<1>3. job' = [job EXCEPT ![t] = s]
  BY DEF LoadThenSave
<1>4. Begun(s, first, next)
  <2> HIDE DEF first, next
  <2> QED BY <1>1, <1>2, LockedSave
<1> HIDE DEF first, next, s
<1>5. s \in Jobs
  BY <1>4 DEF Begun
<1> QED BY <1>3, <1>4, <1>5 DEF first, next

\* Every step keeps the types and the room.
LEMMA StepKeepsShape ==
    ASSUME Types, Room, [Next]_vars
    PROVE  Types' /\ Room'
<1>0. boot \in [at : {"off", "seeds", "up"}, todo : {<<>>, Seed}] /\ nvs \in Nvs
  BY DEF Types
<1>1. ASSUME NEW t \in Tasks, Writes(t) PROVE Types' /\ Room'
  BY <1>1, WritesMove, MovesShape
<1>2. ASSUME kind' = kind, nvs' = nvs, boot' \in [at : {"off", "seeds", "up"}, todo : {<<>>, Seed}],
             NEW t \in Tasks, NEW s \in Jobs \cup {Idle}, job' = [job EXCEPT ![t] = s],
             s = Idle \/ s.area = "list" \/ (s.pc = "keys" /\ s.next # <<>>)
      PROVE  Types' /\ Room'
  <2>1. /\ job' \in [Tasks -> Jobs \cup {Idle}]
        /\ job'[t] = s /\ \A u \in Tasks : u # t => job'[u] = job[u]
    BY <1>2, OneJob
  <2> QED BY <1>2, <2>1, SameShape
<1>3. ASSUME NEW t \in Tasks, NEW target \in Lists, LoadThenSave(t, target, TRUE),
             kind' = kind, nvs' = nvs, boot' \in [at : {"off", "seeds", "up"}, todo : {<<>>, Seed}]
      PROVE  Types' /\ Room'
  <2>1. PICK s \in Jobs : s.area = "list" /\ job' = [job EXCEPT ![t] = s]
    BY <1>3, LoadThenSaveIs DEF Begun
  <2> QED BY <1>2, <1>3, <2>1
<1>4. ASSUME NEW t \in Tasks, SaveReturns(t) PROVE Types' /\ Room'
  <2>1. kind' = kind /\ nvs' = nvs /\ boot' = boot
    BY <1>4 DEF SaveReturns
  <2>2. job[t] \in Jobs
    BY <1>4 DEF Types, SaveReturns, Idle
  <2>3. CASE job[t].next # <<>>
    <3>1. job' = [job EXCEPT ![t] = Save(job[t].next[1], <<>>, job[t].locked)]
      BY <1>4, <2>3 DEF SaveReturns
    <3>2. job[t].next[1] \in Lists /\ job[t].locked \in BOOLEAN /\ <<>> \in Nexts
      BY <2>2, <2>3 DEF Jobs, Nexts
    <3> DEFINE s == Save(job[t].next[1], <<>>, job[t].locked)
    <3>3. s \in Jobs /\ s.area = "list"
      <4>1. Begun(s, job[t].next[1], <<>>)
        BY <3>2, SaveIs
      <4> QED BY <4>1 DEF Begun
    <3> HIDE DEF s
    <3> QED BY <1>0, <1>2, <2>1, <3>1, <3>3 DEF s
  <2>4. CASE job[t].next = <<>>
    <3>1. job' = [job EXCEPT ![t] = Idle]
      BY <1>4, <2>4 DEF SaveReturns
    <3> QED BY <1>0, <1>2, <2>1, <3>1
  <2> QED BY <2>3, <2>4
<1>5. ASSUME NEW t \in Tasks, Edit(t) PROVE Types' /\ Room'
  <2>1. /\ kind' = kind /\ nvs' = nvs /\ boot' = boot
        /\ \E target \in Additions \cup Deletions \cup Replacements \cup UpdatesOfAll :
              LoadThenSave(t, target, TRUE)
    BY <1>5 DEF Edit
  <2> QED BY <1>0, <1>3, <2>1, EditTargets
<1>6. ASSUME NEW t \in Tasks, Load(t) PROVE Types' /\ Room'
  <2>1. kind' = kind /\ nvs' = nvs /\ boot' = boot /\ job' = [job EXCEPT ![t] = Save(Loaded, <<>>, FALSE)]
    BY <1>6 DEF Load
  <2> DEFINE s == Save(Loaded, <<>>, FALSE)
  <2>2. s \in Jobs /\ s.area = "list"
    <3>1. Loaded \in Lists /\ <<>> \in Nexts
      BY LoadedIsList DEF Nexts
    <3>2. Begun(s, Loaded, <<>>)
      BY <3>1, UnlockedSave
    <3> QED BY <3>2 DEF Begun
  <2> HIDE DEF s
  <2> QED BY <1>0, <1>2, <2>1, <2>2 DEF s
<1>7. ASSUME NEW t \in Tasks, NEW file \in Lists, kind' = kind, nvs' = nvs, boot' = boot,
             job' = [job EXCEPT ![t] = SaveBackup(Loaded, <<file>>)]
      PROVE  Types' /\ Room'
  <2> DEFINE s == SaveBackup(Loaded, <<file>>)
  <2>1. s \in Jobs /\ s.pc = "keys" /\ s.next = <<file>>
    <3>1. Loaded \in Lists /\ <<file>> \in Nexts
      BY LoadedIsList DEF Nexts
    <3> QED BY <3>1, SaveBackupIs
  <2>2. <<file>> # <<>>
    OBVIOUS
  <2> HIDE DEF s
  <2> QED BY <1>0, <1>2, <1>7, <2>1, <2>2 DEF s
<1>8. ASSUME NEW t \in Tasks, Import(t) PROVE Types' /\ Room'
  <2>1. /\ kind' = kind /\ nvs' = nvs /\ boot' = boot
        /\ \E file \in Files : Len(file) <= MaxRecords
              /\ job' = [job EXCEPT ![t] = SaveBackup(Loaded, <<file>>)]
    BY <1>8 DEF Import
  <2> QED BY <1>7, <2>1, FilesAreLists
<1>9. ASSUME NEW t \in Tasks, Restore(t) PROVE Types' /\ Room'
  <2> DEFINE file == Parse(BackupText, Current).list
  <2>1. /\ kind' = kind /\ nvs' = nvs /\ boot' = boot /\ Len(file) <= MaxRecords
        /\ job' = [job EXCEPT ![t] = SaveBackup(Loaded, <<file>>)]
    BY <1>9 DEF Restore
  <2>2. file \in Seq(Rec)
    BY BackupIsRead
  <2> HIDE DEF file
  <2>3. file \in Lists
    BY <2>1, <2>2 DEF Lists
  <2> QED BY <1>7, <2>1, <2>3
<1>10. ASSUME NEW t \in Tasks, Apply(t) PROVE Types' /\ Room'
  <2>1. kind' = kind /\ nvs' = nvs /\ boot' = boot
    BY <1>10 DEF Apply
  <2>2. job[t] \in Jobs /\ job[t].next # <<>>
    BY <1>10 DEF Types, Apply, Room, Idle
  <2> DEFINE target == job[t].next[1]
  <2>3. target \in Lists /\ <<>> \in Nexts
    BY <2>2 DEF Jobs, Nexts
  <2> DEFINE s == Save(target, <<>>, TRUE)
  <2>4. s \in Jobs /\ s.area = "list"
    <3>1. Begun(s, target, <<>>)
      BY <2>3, LockedSave
    <3> QED BY <3>1 DEF Begun
  <2>5. job' = [job EXCEPT ![t] = Idle] \/ job' = [job EXCEPT ![t] = s]
    BY <1>10 DEF Apply
  <2> HIDE DEF s
  <2> QED BY <1>0, <1>2, <2>1, <2>4, <2>5
<1>11. ASSUME BootLoad PROVE Types' /\ Room'
  <2>1. /\ kind' = kind /\ nvs' = nvs
        /\ boot' = [at |-> "seeds",
                    todo |-> IF kind = "camera" /\ ~nvs.seeded THEN Missing ELSE <<>>]
        /\ job' = [job EXCEPT !["loop"] =
                     IF LoadSaves THEN Save(Loaded, <<>>, FALSE) ELSE Idle]
    BY <1>11 DEF BootLoad
  <2>2. boot' \in [at : {"off", "seeds", "up"}, todo : {<<>>, Seed}]
    <3>1. Missing \in {<<>>, Seed}
      BY DEF Missing
    <3> QED BY <2>1, <3>1
  <2> DEFINE s == Save(Loaded, <<>>, FALSE)
  <2>3. s \in Jobs /\ s.area = "list"
    <3>1. Loaded \in Lists /\ <<>> \in Nexts
      BY LoadedIsList DEF Nexts
    <3>2. Begun(s, Loaded, <<>>)
      BY <3>1, UnlockedSave
    <3> QED BY <3>2 DEF Begun
  <2>4. job' = [job EXCEPT !["loop"] = Idle] \/ job' = [job EXCEPT !["loop"] = s]
    BY <2>1
  <2>5. "loop" \in Tasks
    BY DEF Tasks
  <2> HIDE DEF s
  <2> QED BY <1>2, <2>1, <2>2, <2>3, <2>4, <2>5
<1>12. ASSUME BootSeed PROVE Types' /\ Room'
  <2>1. kind' = kind /\ nvs' = nvs /\ boot.todo = Seed /\ "loop" \in Tasks
    BY <1>0, <1>12 DEF BootSeed, Tasks
  <2>2. boot' = [boot EXCEPT !.todo = <<>>] /\ Head(boot.todo) = Seed[1] /\ Seed[1] \in Rec
    <3>1. Tail(Seed) = <<>> /\ Head(Seed) = Seed[1] /\ Seed[1] \in Rec
      BY DEF Seed, Rec
    <3> QED BY <1>12, <2>1, <3>1 DEF BootSeed
  <2>3. boot' \in [at : {"off", "seeds", "up"}, todo : {<<>>, Seed}]
    BY <1>0, <2>2
  <2> DEFINE target == Append(Loaded, Seed[1])
  <2>4. \/ job' = job
        \/ Len(Loaded) < MaxRecords /\ LoadThenSave("loop", target, TRUE)
    <3>1. Len(Loaded) \in Nat /\ MaxRecords \in Nat
      BY LoadedIsList, LenProperties, Bounds DEF Lists
    <3>2. \/ UNCHANGED job
          \/ ~(Len(Loaded) >= MaxRecords) /\ LoadThenSave("loop", Append(Loaded, Head(boot.todo)), TRUE)
      BY <1>12 DEF BootSeed
    <3>3. LoadThenSave("loop", Append(Loaded, Head(boot.todo)), TRUE)
            => LoadThenSave("loop", target, TRUE)
      BY <2>2
    <3>4. ~(Len(Loaded) >= MaxRecords) => Len(Loaded) < MaxRecords
      BY <3>1
    <3> HIDE DEF target
    <3> QED BY <3>2, <3>3, <3>4, Zenon
  <2>5. CASE job' = job
    <3>1. job \in [Tasks -> Jobs \cup {Idle}]
      BY DEF Types
    <3> QED BY <2>1, <2>3, <2>5, <3>1, SameShape
  <2>6. CASE Len(Loaded) < MaxRecords /\ LoadThenSave("loop", target, TRUE)
    <3>1. target \in Lists
      BY <2>2, <2>6, LoadedIsList, AdditionIsClean
    <3> QED BY <1>3, <2>1, <2>3, <2>6, <3>1
  <2> QED BY <2>4, <2>5, <2>6
<1>13. ASSUME BootEnds PROVE Types' /\ Room'
  <2>1. /\ UNCHANGED <<kind, job>> /\ boot' = [boot EXCEPT !.at = "up"]
        /\ nvs' \in {nvs, [nvs EXCEPT !.seeded = (kind = "camera")]}
    BY <1>13 DEF BootEnds
  <2>2. nvs' \in Nvs /\ nvs'.legacy = nvs.legacy /\ \A b \in Areas : nvs'[b] = nvs[b]
    <3>1. CASE nvs' = nvs
      BY <1>0, <3>1
    <3>2. CASE nvs' = [nvs EXCEPT !.seeded = (kind = "camera")]
      BY <1>0, <3>2, NvsRest
    <3> QED BY <2>1, <3>1, <3>2
  <2>3. boot' \in [at : {"off", "seeds", "up"}, todo : {<<>>, Seed}]
    BY <1>0, <2>1
  <2>4. Types'
    BY <2>1, <2>2, <2>3 DEF Types
  <2>5. Room'
    BY <2>1, <2>2 DEF Room, Areas
  <2> QED BY <2>4, <2>5
<1>14. ASSUME Crash PROVE Types' /\ Room'
  <2>1. /\ UNCHANGED <<kind, nvs>> /\ boot' = [at |-> "off", todo |-> <<>>]
        /\ job' = [t \in Tasks |-> Idle]
    BY <1>14 DEF Crash
  <2> QED BY <2>1, SameShape
<1>15. CASE UNCHANGED vars
  BY <1>15 DEF vars, Types, Room
<1> QED
  <2>1. ASSUME NEW t \in Tasks, Step(t) PROVE Types' /\ Room'
    BY <1>1, <1>4, <1>5, <1>6, <1>8, <1>9, <1>10, <2>1 DEF Step, Writes
  <2> QED BY <1>11, <1>12, <1>13, <1>14, <1>15, <2>1 DEF Next

\* A list of one record is clean.
LEMMA ShortIsClean ==
    ASSUME NEW l \in Seq(Rec), Len(l) <= 1
    PROVE  ~Clashing(l)
<1>1. Len(l) \in Nat /\ DOMAIN l = 1..Len(l)
  BY LenProperties
<1> QED BY <1>1 DEF Clashing

\* The boards that exist have the types and the room.
LEMMA InitShape ==
    ASSUME Init
    PROVE  Types /\ Room /\ ~Clashing(Loaded)
<1>0. kind \in Kinds /\ job = [t \in Tasks |-> Idle] /\ boot = [at |-> "off", todo |-> <<>>]
  BY DEF Init
<1>1. PICK list \in {<<>>, Seed}, version \in {0, Current - 1, Current},
           newer \in BOOLEAN, place \in {"none", "legacy", "list"} :
        LET written == IF newer THEN Current ELSE version
            text == Pieces(list, written)
            old == place = "legacy" /\ list # <<>>
        IN nvs = [list |-> [count |-> IF place = "list"
                                      THEN Len(SplitIntoChunks(text)) ELSE NoKey,
                            chunk |-> [k \in ChunkKeys |->
                                IF place = "list" /\ k \in DOMAIN SplitIntoChunks(text)
                                THEN SplitIntoChunks(text)[k] ELSE <<>>]],
                  legacy |-> IF old THEN text ELSE <<>>,
                  schema |-> IF old \/ place = "list" THEN version ELSE 0,
                  backup |-> [count |-> 0,
                              chunk |-> [k \in ChunkKeys |-> <<>>]],
                  seeded |-> kind = "camera" /\ place = "list"]
  BY DEF Init
<1> DEFINE written == IF newer THEN Current ELSE version
           text == Pieces(list, written)
           split == SplitIntoChunks(text)
<1>2. version \in Nat /\ written \in Nat
  <2>1. Current \in Nat /\ Current - 1 \in Nat
    BY CurrentIsPositive
  <2> QED BY <2>1
<1>3. text \in Text /\ Len(text) \in Nat /\ Len(text) <= 2
  <2>1. list \in Seq(Rec) /\ Len(list) <= 1
    <3>1. Seed \in Seq(Rec) /\ Len(Seed) = 1 /\ <<>> \in Seq(Rec) /\ Len(<<>>) = 0
      BY SeedIsList DEF Lists
    <3>2. CASE list = <<>>
      BY <3>1, <3>2
    <3>3. CASE list = Seed
      BY <3>1, <3>3
    <3> QED BY <3>2, <3>3
  <2> HIDE DEF written
  <2>2. text \in Text /\ Len(list) \in Nat /\ Len(text) = 2 * Len(list)
    BY <1>2, <2>1, PiecesFacts
  <2> HIDE DEF text
  <2> QED BY <2>1, <2>2
<1> HIDE DEF written, text
<1>4. 2 <= 2 * MaxRecords /\ 2 * MaxRecords \in Nat /\ 2 * MaxRecords <= Keys
  BY Bounds DEF Keys
<1>5. /\ Len(split) \in 0..Keys /\ DOMAIN split = 1..Len(split)
      /\ \A k \in DOMAIN split : k \in ChunkKeys /\ FitsKey(split[k], k, 2 * MaxRecords)
  <2>1. Len(text) <= 2 * MaxRecords
    BY <1>3, <1>4
  <2> QED BY <1>3, <1>4, <2>1, SplitFits
<1> HIDE DEF split
<1> DEFINE stored == [k \in ChunkKeys |->
              IF place = "list" /\ k \in DOMAIN split THEN split[k] ELSE <<>>]
           empty == [k \in ChunkKeys |-> <<>>]
<1>6. /\ nvs.list = [count |-> IF place = "list" THEN Len(split) ELSE NoKey, chunk |-> stored]
      /\ nvs.legacy \in {text, <<>>}
      /\ nvs.schema \in {version, 0}
      /\ nvs.backup = [count |-> 0, chunk |-> empty]
      /\ nvs.seeded \in BOOLEAN
      /\ nvs = [list |-> nvs.list, legacy |-> nvs.legacy, schema |-> nvs.schema,
                backup |-> nvs.backup, seeded |-> nvs.seeded]
  BY <1>1 DEF text, written, split
<1>7. \A k \in ChunkKeys : FitsKey(stored[k], k, Limit("list")) /\ stored[k] \in Text
  <2> SUFFICES ASSUME NEW k \in ChunkKeys
               PROVE  FitsKey(stored[k], k, Limit("list")) /\ stored[k] \in Text
    OBVIOUS
  <2>1. FitsKey(<<>>, k, Limit("list"))
    BY EmptyFits DEF Areas
  <2>2. k \in DOMAIN split => FitsKey(split[k], k, Limit("list"))
    BY <1>5 DEF Limit
  <2>3. stored[k] = split[k] \/ stored[k] = <<>>
    OBVIOUS
  <2>4. stored[k] = split[k] => k \in DOMAIN split \/ stored[k] = <<>>
    OBVIOUS
  <2> HIDE DEF stored
  <2>5. FitsKey(stored[k], k, Limit("list"))
    BY <2>1, <2>2, <2>3, <2>4
  <2> QED BY <2>5 DEF FitsKey
<1>8. \A k \in ChunkKeys : FitsKey(empty[k], k, Limit("backup")) /\ empty[k] \in Text
  <2> SUFFICES ASSUME NEW k \in ChunkKeys
               PROVE  FitsKey(<<>>, k, Limit("backup")) /\ <<>> \in Text
    OBVIOUS
  <2>1. FitsKey(<<>>, k, Limit("backup"))
    BY EmptyFits DEF Areas
  <2> QED BY <2>1 DEF FitsKey
<1>9. stored \in [ChunkKeys -> Text] /\ empty \in [ChunkKeys -> Text]
  BY <1>7, <1>8
<1> HIDE DEF stored, empty
<1>10. nvs.list \in Area /\ nvs.backup \in Area
  BY <1>5, <1>6, <1>9, Bounds DEF Area
<1>11. nvs.legacy \in Text /\ nvs.schema \in Nat
  <2>1. <<>> \in Text
    BY DEF Text
  <2> QED BY <1>2, <1>3, <1>6, <2>1
<1>12. nvs \in Nvs
  BY <1>6, <1>10, <1>11 DEF Nvs
<1>13. Types
  BY <1>0, <1>12, ConstantsAssumption DEF Types
<1>14. Room
  <2>1. nvs.backup.count # NoKey
    BY <1>6 DEF NoKey
  <2>2. Len(nvs.legacy) <= Limit("list")
    <3>1. Len(<<>>) = 0
      OBVIOUS
    <3> QED BY <1>3, <1>4, <1>6, <3>1 DEF Limit
  <2>3. \A a \in Areas, k \in ChunkKeys : FitsKey(nvs[a].chunk[k], k, Limit(a))
    BY <1>6, <1>7, <1>8 DEF Areas
  <2>4. \A t \in Tasks : job[t].pc = "idle"
    BY <1>0 DEF Idle
  <2> QED BY <2>1, <2>2, <2>3, <2>4 DEF Room
<1>15. Loaded \in Lists
  BY <1>13, <1>14, LoadedIsList
<1>16. Len(Loaded) <= 1
  <2>1. CASE Fresh
    <3>1. Loaded = Seed
      BY <2>1 DEF Loaded
    <3> QED BY <3>1, SeedIsList
  <2>2. CASE ~Fresh
    <3>1. StoredText \in Text /\ Len(StoredText) <= 2
      <4>1. CASE place = "list"
        <5>1. nvs.list.count = Len(split) /\ nvs.list.chunk = stored
          BY <1>6, <4>1
        <5>2. nvs.list.count # NoKey
          BY <1>5, <5>1, Bounds DEF NoKey
        <5>3. \A k \in 1..Len(split) : nvs.list.chunk[k] = split[k]
          BY <1>5, <4>1, <5>1 DEF stored
        <5>4. JoinChunks(nvs.list) = text
          BY <1>3, <5>1, <5>3, JoinSplit DEF split
        <5> QED BY <1>3, <5>2, <5>4 DEF StoredText
      <4>2. CASE place # "list"
        <5>1. nvs.list.count = NoKey
          BY <1>6, <4>2
        <5>2. Len(nvs.legacy) <= 2
          <6>1. Len(<<>>) <= 2
            OBVIOUS
          <6> QED BY <1>3, <1>6, <6>1
        <5> QED BY <1>11, <5>1, <5>2 DEF StoredText
      <4> QED BY <4>1, <4>2
    <3> DEFINE l == Stored.list
    <3>2. l \in Seq(Rec) /\ 2 * Len(l) <= Len(StoredText)
      BY <1>11, <3>1, ParseFacts, ParseIsShort DEF Stored
    <3>3. Loaded = ByName(l)
      BY <2>2 DEF Loaded
    <3> HIDE DEF l
    <3>4. Len(ByName(l)) = Len(l) /\ Len(l) \in Nat /\ Len(StoredText) \in Nat
      BY <3>1, <3>2, ByNameFacts, LenProperties DEF Text
    <3> QED BY <3>1, <3>2, <3>3, <3>4
  <2> QED BY <2>1, <2>2
<1> QED BY <1>13, <1>14, <1>15, <1>16, ShortIsClean DEF Lists

----------------------------------------------------------------------------
(***************************************************************************)
(* The invariant                                                           *)
(***************************************************************************)
\* The mutex is its holder's, and setup() runs alone.
Alone ==
    /\ \A t \in Tasks : ListBusy(t) /\ job[t].locked => lock = t
    /\ boot.at # "up" => job["web"].pc = "idle"
    /\ boot.at = "off" => job["loop"].pc = "idle"

Whole ==
    /\ \A l \in allowed : l \in Lists /\ ~Clashing(l)
    /\ \A t, u \in Tasks : ListBusy(t) /\ ListBusy(u) => t = u
    /\ (\A t \in Tasks : ~ListBusy(t)) => Loaded \in allowed
    /\ \A t \in Tasks : ListBusy(t) =>
          /\ Meant(job[t], allowed)
          /\ job[t].ok => OnTrack(job[t], nvs)
          /\ ~job[t].risky => Narrow(job[t], nvs, allowed)

ListInvariant == ~mixed => Whole

\* The text of a backup of a list.
BackupOf(list) == <<Prose>> \o Pieces(list, Current)

\* What an import, or the undoing of one, has still to do.
ImportJob(j, n, list) ==
    /\ j.area = "backup" => j.target = list /\ (j.ok => OnTrack(j, n))
    /\ j.area = "list" => j.next = <<>> /\ Holds(n.backup, BackupOf(list))

RestoreJob(j, n, list) ==
    /\ j.area = "backup" => j.next = <<list>>
    /\ j.area = "list" =>
          /\ j.target = list /\ j.next = <<>> /\ ~Clashing(list)
          /\ j.ok => OnTrack(j, n)

Restored(n, list) ==
    Holds(n.list, Pieces(list, Current)) /\ n.schema = Current /\ ~Clashing(list)

Busy(t) == job[t].pc # "idle"

Undos ==
    {NoUndo} \cup
    [phase : {"importing", "imported", "restoring", "restored"}, list : Lists]

\* The list that was replaced is in the backup until it is stored again.
Undone ==
    /\ undo \in Undos
    /\ undo.phase # "none" => Sorted(undo.list)
    /\ undo.phase \in {"importing", "restoring"} =>
          /\ boot.at = "up"
          /\ \A t, u \in Tasks : Busy(t) /\ Busy(u) => t = u
    /\ undo.phase = "importing" =>
          \A t \in Tasks : Busy(t) => ImportJob(job[t], nvs, undo.list)
    /\ undo.phase = "restoring" =>
          \A t \in Tasks : Busy(t) => RestoreJob(job[t], nvs, undo.list)
    /\ undo.phase = "imported" =>
          /\ Holds(nvs.backup, BackupOf(undo.list))
          /\ \A t \in Tasks : Busy(t) => job[t].area = "list"
    /\ undo.phase = "restored" =>
          /\ \A t \in Tasks : ~Busy(t)
          /\ Restored(nvs, undo.list)

----------------------------------------------------------------------------
(***************************************************************************)
(* A step that keeps the kind of store                                     *)
(***************************************************************************)
\* What depends on the kind of store alone.
LEMMA KindSame ==
    ASSUME kind' = kind
    PROVE  /\ Current' = Current
           /\ \A l : ByName(l)' = ByName(l)
           /\ \A x, s : Parse(x, s)' = Parse(x, s)
           /\ \A j : TextOf(j)' = TextOf(j)
           /\ \A l : Sorted(l)' <=> Sorted(l)
           /\ \A l : BackupOf(l)' = BackupOf(l)
<1>1. Current' = Current
  BY DEF Current
<1>2. \A l : ByName(l)' = ByName(l)
  BY DEF ByName
<1>3. \A x, s : Good(x, s)' = Good(x, s)
  BY DEF Good, ParsesAt
<1>4. \A x, s : Parse(x, s)' = Parse(x, s)
  BY <1>3 DEF Parse
<1>5. \A j : TextOf(j)' = TextOf(j)
  BY <1>1 DEF TextOf
<1>6. \A l : Sorted(l)' <=> Sorted(l)
  BY DEF Sorted
<1>7. \A l : BackupOf(l)' = BackupOf(l)
  BY <1>1 DEF BackupOf
<1> QED BY <1>1, <1>2, <1>4, <1>5, <1>6, <1>7

\* The same for the parts of the invariant.
LEMMA TrackSame ==
    ASSUME kind' = kind
    PROVE  /\ \A j, n : OnTrack(j, n)' <=> OnTrack(j, n)
           /\ \A j, good : Meant(j, good)' <=> Meant(j, good)
           /\ \A j, n, good : Narrow(j, n, good)' <=> Narrow(j, n, good)
<1>1. \A j, n : OnTrack(j, n)' <=> OnTrack(j, n)
  BY KindSame DEF OnTrack
<1>2. \A j, good : Meant(j, good)' <=> Meant(j, good)
  BY KindSame DEF Meant
<1>3. \A j, n, good : Narrow(j, n, good)' <=> Narrow(j, n, good)
  BY KindSame DEF Narrow
<1> QED BY <1>1, <1>2, <1>3

\* The list is what its own keys hold.
LEMMA LoadedSame ==
    ASSUME kind' = kind, nvs'.list = nvs.list, nvs'.legacy = nvs.legacy,
           nvs'.schema = nvs.schema
    PROVE  Loaded' = Loaded /\ (LoadSaves' <=> LoadSaves)
<1>1. (Fresh' <=> Fresh) /\ StoredText' = StoredText
  BY DEF Fresh, StoredText
<1>2. Stored' = Stored
  BY <1>1, KindSame DEF Stored
<1> QED BY <1>1, <1>2, KindSame DEF Loaded, LoadSaves

\* What is stored under a save that is one key's worth.
LEMMA NarrowIsGood ==
    ASSUME Types, NEW j, NEW good, Narrow(j, nvs, good)
    PROVE  Loaded \in good
<1>1. /\ nvs.schema = Current /\ nvs.list.count \in 0..1
      /\ ByName(Parse(nvs.list.chunk[1], Current).list) \in good
      /\ nvs.list.count = 0 => <<>> \in good
  BY DEF Narrow
<1>2. nvs.list.count = 0 \/ nvs.list.count = 1
  BY <1>1
<1> QED BY <1>1, <1>2, NarrowLoads

\* A save that is not risky replaces one key's worth.
LEMMA StartsNarrow ==
    ASSUME Types, Room, NEW good, Loaded \in good,
           NEW s \in Jobs, s.area = "list", ~Risky(s.target)
    PROVE  Narrow(s, nvs, good)
<1>1. TextOf(s) = Pieces(s.target, Current)
  BY DEF TextOf
<1>2. /\ nvs.legacy = <<>> /\ nvs.schema = Current /\ nvs.list.count \in 0..1
      /\ ~(Len(SplitIntoChunks(TextOf(s))) > 1) /\ ~Leftover
  BY <1>1 DEF Risky
<1>3. Len(SplitIntoChunks(TextOf(s))) <= 1
  <2>1. Len(SplitIntoChunks(TextOf(s))) \in 0..Keys /\ Keys \in Nat
    BY TextOfIs, Bounds
  <2> QED BY <1>2, <2>1
<1>4. CASE nvs.list.count = 1
  BY <1>2, <1>3, <1>4, NarrowLoads DEF Narrow
<1>5. CASE nvs.list.count = 0
  <2>1. Loaded = <<>>
    BY <1>2, <1>5, NarrowLoads
  <2>2. 1 \in ChunkKeys
    BY Bounds DEF Keys
  <2>3. nvs.list.chunk[1] = <<>>
    BY <1>2, <1>5, <2>2 DEF Leftover
  <2>4. ByName(Parse(nvs.list.chunk[1], Current).list) = <<>>
    BY <2>3, ParseEmpty, SeedIsList
  <2> QED BY <1>2, <1>3, <2>1, <2>4 DEF Narrow
<1>6. nvs.list.count = 0 \/ nvs.list.count = 1
  BY <1>2
<1> QED BY <1>4, <1>5, <1>6

\* A save that met no refused write is what loads.
LEMMA DoneLoads ==
    ASSUME NEW j \in Jobs, j.area = "list", j.pc = "saved", OnTrack(j, nvs)
    PROVE  Loaded = ByName(j.target)
<1>1. TextOf(j) = Pieces(j.target, Current)
  BY DEF TextOf
<1>2. Holds(nvs.list, Pieces(j.target, Current)) /\ nvs.schema = Current
  BY <1>1 DEF OnTrack
<1>3. j.target \in Seq(Rec)
  BY JobMoves DEF Lists
<1> QED BY <1>2, <1>3, ListLoads

----------------------------------------------------------------------------
(***************************************************************************)
(* What keeps the stored list good                                         *)
(***************************************************************************)
\* A step that leaves the list and its saves alone.
LEMMA QuietKeeps ==
    ASSUME ListInvariant, kind' = kind, nvs'.list = nvs.list,
           nvs'.legacy = nvs.legacy, nvs'.schema = nvs.schema,
           allowed' = allowed, mixed' = mixed,
           \A t \in Tasks : (ListBusy(t) \/ ListBusy(t)') => job'[t] = job[t],
           Types
    PROVE  ListInvariant'
<1>1. SUFFICES ASSUME ~mixed', Whole PROVE Whole'
  BY DEF ListInvariant
<1>2. Loaded' = Loaded
  BY LoadedSame
<1>3. \A t \in Tasks : ListBusy(t)' <=> ListBusy(t)
  BY DEF ListBusy
<1>4. \A l \in allowed' : l \in Lists /\ ~Clashing(l)
  BY <1>1 DEF Whole
<1>5. \A t, u \in Tasks : ListBusy(t)' /\ ListBusy(u)' => t = u
  BY <1>1, <1>3 DEF Whole
<1>6. (\A t \in Tasks : ~ListBusy(t)') => Loaded' \in allowed'
  BY <1>1, <1>2, <1>3 DEF Whole
<1>7. ASSUME NEW t \in Tasks, ListBusy(t)'
      PROVE  /\ Meant(job[t], allowed)'
             /\ job'[t].ok => OnTrack(job[t], nvs)'
             /\ ~job'[t].risky => Narrow(job[t], nvs, allowed)'
  <2>1. ListBusy(t) /\ job'[t] = job[t]
    BY <1>3, <1>7
  <2>2. /\ Meant(job[t], allowed)
        /\ job[t].ok => OnTrack(job[t], nvs)
        /\ ~job[t].risky => Narrow(job[t], nvs, allowed)
    BY <1>1, <2>1 DEF Whole
  <2>3. Meant(job[t], allowed)'
    BY <2>1, <2>2, TrackSame
  <2>4. job[t].area = "list"
    BY <2>1 DEF ListBusy
  <2>5. OnTrack(job[t], nvs) => OnTrack(job'[t], nvs')
    BY <2>1, <2>4 DEF OnTrack
  <2>6. Narrow(job[t], nvs, allowed) => Narrow(job'[t], nvs', allowed')
    BY <2>1 DEF Narrow
  <2>7. OnTrack(job[t], nvs) => OnTrack(job[t], nvs)'
    BY <2>5, TrackSame
  <2>8. Narrow(job[t], nvs, allowed) => Narrow(job[t], nvs, allowed)'
    BY <2>6, TrackSame
  <2> QED BY <2>1, <2>2, <2>3, <2>7, <2>8
<1> QED BY <1>4, <1>5, <1>6, <1>7 DEF Whole

\* A write of the list's keys.
LEMMA MovesKeep ==
    ASSUME Types, Room, ListInvariant, NEW t \in Tasks, Moves(t), job[t].area = "list"
    PROVE  ListInvariant'
<1>1. SUFFICES ASSUME ~mixed', Whole PROVE Whole'
  BY DEF ListInvariant, Moves
<1>2. /\ job[t] \in Jobs /\ job'[t] \in Jobs /\ SameSave(job[t], job'[t])
      /\ Advances(job[t], nvs, job'[t], nvs')
      /\ kind' = kind /\ allowed' = allowed
  BY DEF Moves, Advances
<1>3. ListBusy(t) /\ ListBusy(t)' /\ job'[t].area = "list"
  BY <1>2, JobMoves DEF ListBusy, SameSave
<1>4. \A u \in Tasks : u # t => job'[u] = job[u]
  BY OneJob DEF Moves
<1>5. \A u \in Tasks : u # t => ~ListBusy(u) /\ ~ListBusy(u)'
  BY <1>1, <1>3, <1>4 DEF Whole, ListBusy
<1>6. /\ Meant(job[t], allowed)
      /\ job[t].ok => OnTrack(job[t], nvs)
      /\ ~job[t].risky => Narrow(job[t], nvs, allowed)
  BY <1>1, <1>3 DEF Whole
<1>7. Meant(job[t], allowed)'
  <2>1. Meant(job'[t], allowed')
    BY <1>2, <1>6 DEF Meant, SameSave
  <2> QED BY <1>2, <2>1, TrackSame
<1>8. job'[t].ok => OnTrack(job[t], nvs)'
  <2>1. job'[t].ok => job[t].ok
    BY <1>2 DEF SameSave
  <2>2. job'[t].ok => OnTrack(job'[t], nvs')
    BY <1>2, <1>6, <2>1 DEF Advances
  <2> QED BY <1>2, <2>2, TrackSame
<1>9. ~job'[t].risky => Narrow(job[t], nvs, allowed)'
  <2>1. job'[t].risky = job[t].risky
    BY <1>2 DEF SameSave
  <2>2. ~job'[t].risky => Narrow(job'[t], nvs', allowed')
    BY <1>2, <1>6, <2>1 DEF Advances
  <2> QED BY <1>2, <2>2, TrackSame
<1>10. \A l \in allowed' : l \in Lists /\ ~Clashing(l)
  BY <1>1, <1>2 DEF Whole
<1> QED BY <1>3, <1>5, <1>7, <1>8, <1>9, <1>10 DEF Whole

\* A save that starts where nothing is being saved.
LEMMA StartKeeps ==
    ASSUME Types, Room, NEW t \in Tasks, NEW s, NEW next, kind' = kind, nvs' = nvs,
           job' = [job EXCEPT ![t] = s], Begun(s, s.target, next),
           ~mixed' => /\ Loaded \in allowed'
                      /\ \A u \in Tasks \ {t} : ~ListBusy(u)
                      /\ \A l \in allowed' : l \in Lists /\ ~Clashing(l)
                      /\ Meant(s, allowed')
    PROVE  ListInvariant'
<1>1. SUFFICES ASSUME ~mixed' PROVE Whole'
  BY DEF ListInvariant
<1>2. /\ Loaded \in allowed'
      /\ \A u \in Tasks \ {t} : ~ListBusy(u)
      /\ \A l \in allowed' : l \in Lists /\ ~Clashing(l)
      /\ Meant(s, allowed')
  BY <1>1
<1>3. /\ s \in Jobs /\ s.pc = "keys" /\ s.area = "list" /\ s.i = 1
      /\ s.ok /\ (s.risky <=> Risky(s.target))
  BY DEF Begun
<1>4. job'[t] = s /\ \A u \in Tasks : u # t => job'[u] = job[u]
  BY <1>3, OneJob
<1>5. ListBusy(t)' /\ \A u \in Tasks : u # t => ~ListBusy(u)'
  BY <1>2, <1>3, <1>4 DEF ListBusy
<1>6. Meant(job[t], allowed)'
  BY <1>2, <1>4, TrackSame
<1>7. OnTrack(job[t], nvs)'
  <2>1. DOMAIN SplitIntoChunks(TextOf(s)) = 1..Len(SplitIntoChunks(TextOf(s)))
        /\ Len(SplitIntoChunks(TextOf(s))) \in 0..Keys /\ Keys \in Nat
    BY <1>3, TextOfIs, Bounds
  <2>2. \A k \in DOMAIN SplitIntoChunks(TextOf(s)) : ~(k < 1)
    BY <2>1
  <2>3. OnTrack(s, nvs')
    BY <1>3, <2>2 DEF OnTrack
  <2> QED BY <1>4, <2>3, TrackSame
<1>8. ~job'[t].risky => Narrow(job[t], nvs, allowed)'
  <2>1. ~s.risky => Narrow(s, nvs, allowed')
    BY <1>2, <1>3, StartsNarrow
  <2> QED BY <1>4, <2>1, TrackSame
<1> QED BY <1>2, <1>5, <1>6, <1>7, <1>8 DEF Whole

\* A step after which nothing is being saved.
LEMMA RestKeeps ==
    ASSUME kind' = kind, nvs' = nvs,
           ~mixed' => /\ Loaded \in allowed'
                      /\ \A u \in Tasks : ~ListBusy(u)'
                      /\ \A l \in allowed' : l \in Lists /\ ~Clashing(l)
    PROVE  ListInvariant'
<1>1. Loaded' = Loaded
  BY LoadedSame
<1> QED BY <1>1 DEF ListInvariant, Whole

----------------------------------------------------------------------------
(***************************************************************************)
(* The mutex and the boot                                                  *)
(***************************************************************************)
\* A step of one task that respects the mutex and the boot.
LEMMA OneJobAlone ==
    ASSUME Types, Alone, NEW t \in Tasks, NEW s \in Jobs \cup {Idle},
           job' = [job EXCEPT ![t] = s],
           \/ boot.at = "up" \/ job[t].pc # "idle" \/ s.pc = "idle"
           \/ t = "loop" /\ boot'.at # "off",
           boot'.at = "off" => boot.at = "off",
           boot'.at # "up" => boot.at # "up",
           s.pc # "idle" /\ s.area = "list" /\ s.locked => lock' = t,
           \A u \in Tasks \ {t} : ListBusy(u) /\ job[u].locked => lock' = u
    PROVE  Alone'
<1>1. job'[t] = s /\ \A u \in Tasks : u # t => job'[u] = job[u]
  BY OneJob
<1>2. \A u \in Tasks : ListBusy(u)' /\ job'[u].locked => lock' = u
  <2> SUFFICES ASSUME NEW u \in Tasks, ListBusy(u)', job'[u].locked PROVE lock' = u
    OBVIOUS
  <2>1. CASE u = t
    BY <1>1, <2>1 DEF ListBusy
  <2>2. CASE u # t
    BY <1>1, <2>2 DEF ListBusy
  <2> QED BY <2>1, <2>2
<1>3. boot'.at # "up" => job'["web"].pc = "idle"
  BY <1>1 DEF Alone, Tasks
<1>4. boot'.at = "off" => job'["loop"].pc = "idle"
  BY <1>1 DEF Alone, Tasks
<1> QED BY <1>2, <1>3, <1>4 DEF Alone

\* Every step respects the mutex and the boot.
LEMMA StepKeepsAlone ==
    ASSUME Types, Room, Alone, [Next]_vars
    PROVE  Alone'
<1>0. Idle \in Jobs \cup {Idle} /\ Idle.pc = "idle" /\ NoTask \notin Tasks
  BY DEF Idle, NoTask, Tasks
<1>1. ASSUME NEW t \in Tasks, Writes(t) PROVE Alone'
  <2>1. Moves(t)
    BY <1>1, WritesMove
  <2>2. /\ job[t] \in Jobs /\ job'[t] \in Jobs /\ job' = [job EXCEPT ![t] = job'[t]]
        /\ SameSave(job[t], job'[t]) /\ lock' = lock /\ boot' = boot
    BY <2>1 DEF Moves, Advances
  <2>3. job[t].pc # "idle"
    BY <2>2, JobMoves
  <2>4. job'[t].pc # "idle" /\ job'[t].area = "list" /\ job'[t].locked => lock' = t
    BY <2>2, <2>3 DEF Alone, ListBusy, SameSave
  <2>5. \A u \in Tasks \ {t} : ListBusy(u) /\ job[u].locked => lock' = u
    BY <2>2 DEF Alone
  <2> QED BY <2>2, <2>3, <2>4, <2>5, OneJobAlone
<1>2. ASSUME NEW t \in Tasks, SaveReturns(t) PROVE Alone'
  <2>1. /\ boot' = boot /\ job[t].pc = "saved" /\ job[t].area = "list"
        /\ job[t] \in Jobs
    BY <1>2 DEF SaveReturns, Types, Idle
  <2>2. ListBusy(t)
    BY <2>1 DEF ListBusy
  <2>3. CASE job[t].next # <<>>
    <3>1. job' = [job EXCEPT ![t] = Save(job[t].next[1], <<>>, job[t].locked)] /\ lock' = lock
      BY <1>2, <2>3 DEF SaveReturns
    <3>2. job[t].next[1] \in Lists /\ job[t].locked \in BOOLEAN /\ <<>> \in Nexts
      BY <2>1, <2>3 DEF Jobs, Nexts
    <3> DEFINE s == Save(job[t].next[1], <<>>, job[t].locked)
    <3>3. s \in Jobs /\ (s.locked => job[t].locked)
      <4>1. Begun(s, job[t].next[1], <<>>) /\ (s.locked <=> job[t].locked)
        BY <3>2, SaveIs
      <4> QED BY <4>1 DEF Begun
    <3> HIDE DEF s
    <3>4. job' = [job EXCEPT ![t] = s]
      BY <3>1 DEF s
    <3>5. s.locked => lock' = t
      BY <2>2, <3>1, <3>3 DEF Alone
    <3>6. \A u \in Tasks \ {t} : ListBusy(u) /\ job[u].locked => lock' = u
      BY <3>1 DEF Alone
    <3> QED BY <2>1, <3>3, <3>4, <3>5, <3>6, OneJobAlone
  <2>4. CASE job[t].next = <<>>
    <3>1. job' = [job EXCEPT ![t] = Idle] /\ lock' = (IF job[t].locked THEN NoTask ELSE lock)
      BY <1>2, <2>4 DEF SaveReturns
    <3>2. \A u \in Tasks \ {t} : ListBusy(u) /\ job[u].locked => lock' = u
      BY <2>2, <3>1 DEF Alone
    <3> QED BY <1>0, <2>1, <3>1, <3>2, OneJobAlone
  <2> QED BY <2>3, <2>4
<1>3. ASSUME NEW t \in Tasks, NEW target \in Lists, LoadThenSave(t, target, TRUE),
             boot'.at = boot.at, boot.at = "up" \/ (t = "loop" /\ boot.at # "off"),
             lock = NoTask \/ \A u \in Tasks \ {t} : job[u].pc = "idle"
      PROVE  Alone'
  <2>1. PICK s \in Jobs : job' = [job EXCEPT ![t] = s]
    BY <1>3, LoadThenSaveIs
  <2>2. lock' = t
    BY <1>3 DEF LoadThenSave
  <2>3. \A u \in Tasks \ {t} : ListBusy(u) /\ job[u].locked => lock' = u
    BY <1>0, <1>3 DEF Alone, ListBusy
  <2> QED BY <1>3, <2>1, <2>2, <2>3, OneJobAlone
<1>4. ASSUME NEW t \in Tasks, Edit(t) PROVE Alone'
  <2>1. /\ boot' = boot /\ boot.at = "up" /\ lock = NoTask
        /\ \E target \in Additions \cup Deletions \cup Replacements \cup UpdatesOfAll :
              LoadThenSave(t, target, TRUE)
    BY <1>4 DEF Edit, Free
  <2> QED BY <1>3, <2>1, EditTargets
<1>5. ASSUME NEW t \in Tasks, Load(t) PROVE Alone'
  <2>1. /\ boot' = boot /\ boot.at = "up" /\ lock' = lock
        /\ job' = [job EXCEPT ![t] = Save(Loaded, <<>>, FALSE)]
    BY <1>5 DEF Load, Free
  <2> DEFINE s == Save(Loaded, <<>>, FALSE)
  <2>2. s \in Jobs /\ ~s.locked
    <3>1. Loaded \in Lists /\ <<>> \in Nexts
      BY LoadedIsList DEF Nexts
    <3>2. Begun(s, Loaded, <<>>) /\ ~s.locked
      BY <3>1, UnlockedSave
    <3> QED BY <3>2 DEF Begun
  <2> HIDE DEF s
  <2>3. job' = [job EXCEPT ![t] = s]
    BY <2>1 DEF s
  <2>4. \A u \in Tasks \ {t} : ListBusy(u) /\ job[u].locked => lock' = u
    BY <2>1 DEF Alone
  <2> QED BY <2>1, <2>2, <2>3, <2>4, OneJobAlone
<1>6. ASSUME NEW t \in Tasks, NEW file \in Lists, boot' = boot, boot.at = "up", lock' = lock,
             job' = [job EXCEPT ![t] = SaveBackup(Loaded, <<file>>)]
      PROVE  Alone'
  <2> DEFINE s == SaveBackup(Loaded, <<file>>)
  <2>1. s \in Jobs /\ s.area = "backup"
    <3>1. Loaded \in Lists /\ <<file>> \in Nexts
      BY LoadedIsList DEF Nexts
    <3> QED BY <3>1, SaveBackupIs
  <2> HIDE DEF s
  <2>2. job' = [job EXCEPT ![t] = s]
    BY <1>6 DEF s
  <2>3. \A u \in Tasks \ {t} : ListBusy(u) /\ job[u].locked => lock' = u
    BY <1>6 DEF Alone
  <2> QED BY <1>6, <2>1, <2>2, <2>3, OneJobAlone
<1>7. ASSUME NEW t \in Tasks, Import(t) PROVE Alone'
  <2>1. /\ boot' = boot /\ boot.at = "up" /\ lock' = lock
        /\ \E file \in Files : Len(file) <= MaxRecords
              /\ job' = [job EXCEPT ![t] = SaveBackup(Loaded, <<file>>)]
    BY <1>7 DEF Import, Free
  <2> QED BY <1>6, <2>1, FilesAreLists
<1>8. ASSUME NEW t \in Tasks, Restore(t) PROVE Alone'
  <2> DEFINE file == Parse(BackupText, Current).list
  <2>1. /\ boot' = boot /\ boot.at = "up" /\ lock' = lock /\ Len(file) <= MaxRecords
        /\ job' = [job EXCEPT ![t] = SaveBackup(Loaded, <<file>>)]
    BY <1>8 DEF Restore, Free
  <2>2. file \in Seq(Rec)
    BY BackupIsRead
  <2> HIDE DEF file
  <2>3. file \in Lists
    BY <2>1, <2>2 DEF Lists
  <2> QED BY <1>6, <2>1, <2>3
<1>9. ASSUME NEW t \in Tasks, Apply(t) PROVE Alone'
  <2>1. /\ boot' = boot /\ job[t].pc = "saved" /\ job[t].area = "backup"
        /\ job[t] \in Jobs /\ job[t].next # <<>>
    BY <1>9 DEF Types, Apply, Room, Idle
  <2> DEFINE target == job[t].next[1]
  <2>2. target \in Lists /\ <<>> \in Nexts
    BY <2>1 DEF Jobs, Nexts
  <2>3. CASE Clashing(target)
    <3>1. job' = [job EXCEPT ![t] = Idle] /\ lock' = lock
      BY <1>9, <2>3 DEF Apply
    <3>2. \A u \in Tasks \ {t} : ListBusy(u) /\ job[u].locked => lock' = u
      BY <3>1 DEF Alone
    <3> QED BY <1>0, <2>1, <3>1, <3>2, OneJobAlone
  <2>4. CASE ~Clashing(target)
    <3> DEFINE s == Save(target, <<>>, TRUE)
    <3>1. job' = [job EXCEPT ![t] = s] /\ lock' = t /\ lock = NoTask
      BY <1>9, <2>4 DEF Apply
    <3>2. s \in Jobs
      <4>1. Begun(s, target, <<>>)
        BY <2>2, LockedSave
      <4> QED BY <4>1 DEF Begun
    <3> HIDE DEF s
    <3>3. \A u \in Tasks \ {t} : ListBusy(u) /\ job[u].locked => lock' = u
      BY <1>0, <3>1 DEF Alone
    <3> QED BY <2>1, <3>1, <3>2, <3>3, OneJobAlone
  <2> QED BY <2>3, <2>4
<1>10. ASSUME BootLoad PROVE Alone'
  <2>1. /\ boot'.at = "seeds" /\ boot.at = "off" /\ lock' = lock /\ "loop" \in Tasks
        /\ job' = [job EXCEPT !["loop"] =
                     IF LoadSaves THEN Save(Loaded, <<>>, FALSE) ELSE Idle]
    BY <1>10 DEF BootLoad, Tasks
  <2> DEFINE s == Save(Loaded, <<>>, FALSE)
  <2>2. s \in Jobs /\ ~s.locked
    <3>1. Loaded \in Lists /\ <<>> \in Nexts
      BY LoadedIsList DEF Nexts
    <3>2. Begun(s, Loaded, <<>>) /\ ~s.locked
      BY <3>1, UnlockedSave
    <3> QED BY <3>2 DEF Begun
  <2>3. job' = [job EXCEPT !["loop"] = s] \/ job' = [job EXCEPT !["loop"] = Idle]
    BY <2>1
  <2> HIDE DEF s
  <2>4. \A u \in Tasks \ {"loop"} : ListBusy(u) /\ job[u].locked => lock' = u
    BY <2>1 DEF Alone
  <2>5. CASE job' = [job EXCEPT !["loop"] = s]
    BY <2>1, <2>2, <2>4, <2>5, OneJobAlone
  <2>6. CASE job' = [job EXCEPT !["loop"] = Idle]
    BY <1>0, <2>1, <2>4, <2>6, OneJobAlone
  <2> QED BY <2>3, <2>5, <2>6
<1>11. ASSUME BootSeed PROVE Alone'
  <2>1. /\ boot.at = "seeds" /\ "loop" \in Tasks
        /\ boot' = [boot EXCEPT !.todo = Tail(@)]
        /\ boot \in [at : {"off", "seeds", "up"}, todo : {<<>>, Seed}]
    BY <1>11 DEF BootSeed, Tasks, Types
  <2>2. boot'.at = "seeds"
    BY <2>1
  <2>3. \A u \in Tasks \ {"loop"} : job[u].pc = "idle"
    BY <2>1 DEF Alone, Tasks
  <2>4. CASE UNCHANGED <<job, lock>>
    BY <2>1, <2>2, <2>4 DEF Alone, ListBusy
  <2>5. CASE /\ ~(Len(Loaded) >= MaxRecords)
             /\ LoadThenSave("loop", Append(Loaded, Head(boot.todo)), TRUE)
    <3> DEFINE target == Append(Loaded, Head(boot.todo))
    <3>1. boot.todo = Seed /\ Head(Seed) = Seed[1] /\ Seed[1] \in Rec
      BY <1>11, <2>1 DEF BootSeed, Seed, Rec
    <3>2. Len(Loaded) < MaxRecords /\ Loaded \in Lists
      BY <2>5, LoadedIsList, LenProperties, Bounds DEF Lists
    <3>3. target \in Lists
      BY <3>1, <3>2, AdditionIsClean
    <3> HIDE DEF target
    <3>4. LoadThenSave("loop", target, TRUE)
      BY <2>5 DEF target
    <3> QED BY <1>3, <2>1, <2>2, <2>3, <3>3, <3>4
  <2> QED BY <1>11, <2>4, <2>5 DEF BootSeed
<1>12. ASSUME BootEnds PROVE Alone'
  <2>1. /\ UNCHANGED <<job, lock>> /\ boot' = [boot EXCEPT !.at = "up"]
        /\ boot \in [at : {"off", "seeds", "up"}, todo : {<<>>, Seed}]
    BY <1>12 DEF BootEnds, Types
  <2>2. boot'.at = "up"
    BY <2>1
  <2> QED BY <2>1, <2>2 DEF Alone, ListBusy
<1>13. ASSUME Crash PROVE Alone'
  <2>1. job' = [t \in Tasks |-> Idle]
    BY <1>13 DEF Crash
  <2> QED BY <1>0, <2>1 DEF Alone, ListBusy, Tasks
<1>14. CASE UNCHANGED vars
  BY <1>14 DEF vars, Alone, ListBusy
<1> QED
  <2>1. ASSUME NEW t \in Tasks, Step(t) PROVE Alone'
    BY <1>1, <1>2, <1>4, <1>5, <1>7, <1>8, <1>9, <2>1 DEF Step, Writes
  <2> QED BY <1>10, <1>11, <1>12, <1>13, <1>14, <2>1 DEF Next

----------------------------------------------------------------------------
(***************************************************************************)
(* The stored list                                                         *)
(***************************************************************************)
\* A good list is in its order already.
LEMMA LoadedIsGood ==
    ASSUME Types, Room, Loaded \in allowed, \A l \in allowed : l \in Lists /\ ~Clashing(l)
    PROVE  Loaded \in Lists /\ ~Clashing(Loaded) /\ ByName(Loaded) = Loaded
<1>1. Loaded \in Lists /\ Loaded \in Seq(Rec) /\ Sorted(Loaded) /\ ~Clashing(Loaded)
  BY LoadedIsList DEF Lists
<1> QED BY <1>1, ByNameFacts

\* Putting a clean list in order keeps it clean.
LEMMA SortedIsClean ==
    ASSUME NEW l \in Lists, ~Clashing(l)
    PROVE  ByName(l) \in Lists /\ ~Clashing(ByName(l))
<1>1. l \in Seq(Rec) /\ Len(l) <= MaxRecords
  BY DEF Lists
<1> QED BY <1>1, ByNameFacts DEF Lists

\* At rest, what is stored is good.
LEMMA RestIsGood ==
    ASSUME Types, Room, ListInvariant, ~mixed, \A t \in Tasks : ~ListBusy(t)
    PROVE  /\ Loaded \in allowed /\ Loaded \in Lists /\ ~Clashing(Loaded)
           /\ ByName(Loaded) = Loaded
           /\ \A l \in allowed : l \in Lists /\ ~Clashing(l)
<1>1. Loaded \in allowed /\ \A l \in allowed : l \in Lists /\ ~Clashing(l)
  BY DEF ListInvariant, Whole
<1> QED BY <1>1, LoadedIsGood

\* A save that is over, and was not torn, has stored a good list.
LEMMA OverIsGood ==
    ASSUME Types, Room, ListInvariant, ~mixed, NEW t \in Tasks, ListBusy(t),
           job[t] \in Jobs, job[t].pc = "saved", ~(job[t].risky /\ ~job[t].ok)
    PROVE  /\ Loaded \in allowed
           /\ job[t].ok => Loaded = ByName(job[t].target)
           /\ Meant(job[t], allowed)
           /\ \A l \in allowed : l \in Lists /\ ~Clashing(l)
           /\ \A u \in Tasks \ {t} : ~ListBusy(u)
<1>1. /\ Meant(job[t], allowed)
      /\ job[t].ok => OnTrack(job[t], nvs)
      /\ ~job[t].risky => Narrow(job[t], nvs, allowed)
      /\ \A l \in allowed : l \in Lists /\ ~Clashing(l)
      /\ \A u \in Tasks \ {t} : ~ListBusy(u)
  BY DEF ListInvariant, Whole
<1>2. job[t].area = "list"
  BY DEF ListBusy
<1>3. job[t].ok => Loaded = ByName(job[t].target)
  BY <1>1, <1>2, DoneLoads
<1>4. Loaded \in allowed
  <2>1. CASE job[t].ok
    BY <1>1, <1>3, <2>1 DEF Meant
  <2>2. CASE ~job[t].ok
    BY <1>1, <2>2, NarrowIsGood
  <2> QED BY <2>1, <2>2
<1> QED BY <1>1, <1>3, <1>4

\* A load-modify-save under the mutex starts from what is stored.
LEMMA LoadThenSaveKeeps ==
    ASSUME Types, Room, Alone, ListInvariant, kind' = kind, nvs' = nvs,
           NEW t \in Tasks, NEW target \in Lists, LoadThenSave(t, target, TRUE),
           ~ListBusy(t), lock = NoTask \/ \A u \in Tasks \ {t} : job[u].pc = "idle",
           ~Clashing(Loaded) => ~Clashing(target)
    PROVE  ListInvariant'
<1> DEFINE first == IF LoadSaves THEN Loaded ELSE target
           next == IF LoadSaves THEN <<target>> ELSE <<>>
<1>1. PICK s \in Jobs : job' = [job EXCEPT ![t] = s] /\ Begun(s, first, next)
  BY LoadThenSaveIs
<1>4. s.target = first /\ s.next = next
  BY <1>1 DEF Begun
<1>5. ASSUME ~mixed'
      PROVE  /\ Loaded \in allowed'
             /\ \A u \in Tasks \ {t} : ~ListBusy(u)
             /\ \A l \in allowed' : l \in Lists /\ ~Clashing(l)
             /\ Meant(s, allowed')
  <2>1. /\ allowed' = allowed \cup {ByName(Loaded), ByName(target)}
        /\ ~mixed /\ ~Overlapped(t, TRUE)
    BY <1>5 DEF LoadThenSave
  <2>2. \A u \in Tasks \ {t} : ~ListBusy(u)
    <3> SUFFICES ASSUME NEW u \in Tasks \ {t}, ListBusy(u) PROVE FALSE
      OBVIOUS
    <3>1. job[u].locked
      BY <2>1 DEF Overlapped
    <3>2. lock = u /\ u # NoTask /\ job[u].pc # "idle"
      BY <3>1 DEF Alone, NoTask, Tasks, ListBusy
    <3> QED BY <3>2
  <2>3. \A u \in Tasks : ~ListBusy(u)
    BY <2>2
  <2>4. /\ Loaded \in allowed /\ Loaded \in Lists /\ ~Clashing(Loaded)
        /\ ByName(Loaded) = Loaded
        /\ \A l \in allowed : l \in Lists /\ ~Clashing(l)
    BY <2>1, <2>3, RestIsGood
  <2>5. ~Clashing(target) /\ ByName(target) \in Lists /\ ~Clashing(ByName(target))
    BY <2>4, SortedIsClean
  <2>6. \A l \in allowed' : l \in Lists /\ ~Clashing(l)
    BY <2>1, <2>4, <2>5
  <2>7. Meant(s, allowed')
    <3>1. ~Clashing(first) /\ ByName(first) \in allowed'
      BY <2>1, <2>4, <2>5
    <3>2. next # <<>> => next[1] = target
      OBVIOUS
    <3> HIDE DEF first, next
    <3> QED BY <1>4, <2>1, <2>5, <3>1, <3>2 DEF Meant
  <2> QED BY <2>1, <2>2, <2>4, <2>6, <2>7
<1> HIDE DEF first, next
<1>6. Begun(s, s.target, next)
  BY <1>1, <1>4
<1> QED BY <1>1, <1>5, <1>6, StartKeeps

\* A load that saves what it read.
LEMMA LoadKeeps ==
    ASSUME Types, Room, ListInvariant, kind' = kind, nvs' = nvs, NEW t \in Tasks,
           job' = [job EXCEPT ![t] = Save(Loaded, <<>>, FALSE)],
           allowed' = allowed \cup {ByName(Loaded)},
           ~mixed' => ~mixed /\ \A u \in Tasks : ~ListBusy(u)
    PROVE  ListInvariant'
<1> DEFINE s == Save(Loaded, <<>>, FALSE)
<1>1. Begun(s, Loaded, <<>>)
  <2>1. Loaded \in Lists /\ <<>> \in Nexts
    BY LoadedIsList DEF Nexts
  <2> QED BY <2>1, UnlockedSave
<1>2. job' = [job EXCEPT ![t] = s]
  OBVIOUS
<1> HIDE DEF s
<1>3. s.target = Loaded /\ s.next = <<>>
  BY <1>1 DEF Begun
<1>4. ASSUME ~mixed'
      PROVE  /\ Loaded \in allowed'
             /\ \A u \in Tasks \ {t} : ~ListBusy(u)
             /\ \A l \in allowed' : l \in Lists /\ ~Clashing(l)
             /\ Meant(s, allowed')
  <2>1. /\ Loaded \in allowed /\ Loaded \in Lists /\ ~Clashing(Loaded)
        /\ ByName(Loaded) = Loaded
        /\ \A l \in allowed : l \in Lists /\ ~Clashing(l)
    BY <1>4, RestIsGood
  <2> QED BY <1>3, <1>4, <2>1 DEF Meant
<1>5. Begun(s, s.target, <<>>)
  BY <1>1, <1>3
<1> QED BY <1>2, <1>4, <1>5, StartKeeps

\* What is stored while nothing torn is: a save that is under way is one key's.
LEMMA UntornIsGood ==
    ASSUME Types, Room, ListInvariant, ~Torn
    PROVE  /\ Loaded \in allowed
           /\ \A l \in allowed : l \in Lists /\ ~Clashing(l)
<1>1. ~mixed /\ \A t \in Tasks : ListBusy(t) => ~job[t].risky
  BY DEF Torn
<1>2. CASE \A t \in Tasks : ~ListBusy(t)
  BY <1>1, <1>2, RestIsGood
<1>3. CASE \E t \in Tasks : ListBusy(t)
  <2>1. PICK t \in Tasks : ListBusy(t)
    BY <1>3
  <2>2. Narrow(job[t], nvs, allowed) /\ \A l \in allowed : l \in Lists /\ ~Clashing(l)
    BY <1>1, <2>1 DEF ListInvariant, Whole
  <2> QED BY <2>2, NarrowIsGood
<1> QED BY <1>2, <1>3

\* Every step keeps the stored list good.
LEMMA StepKeepsList ==
    ASSUME Types, Room, Alone, ListInvariant, [Next]_vars
    PROVE  ListInvariant'
<1>1. ASSUME NEW t \in Tasks, Writes(t) PROVE ListInvariant'
  <2>1. Moves(t)
    BY <1>1, WritesMove
  <2>2. CASE job[t].area = "list"
    BY <2>1, <2>2, MovesKeep
  <2>3. CASE job[t].area # "list"
    <3>0. job[t] \in Jobs /\ job[t].area = "backup"
      BY <2>1, <2>3, JobMoves DEF Moves, Areas
    <3>1. /\ job'[t].area = "backup"
          /\ kind' = kind /\ allowed' = allowed /\ mixed' = mixed
          /\ nvs'.list = nvs.list /\ nvs'.legacy = nvs.legacy /\ nvs'.schema = nvs.schema
          /\ job' = [job EXCEPT ![t] = job'[t]] /\ job'[t] \in Jobs
      <4>1. SameSave(job[t], job'[t]) /\ \A b \in Areas : b # "backup" => nvs'[b] = nvs[b]
        BY <2>1, <3>0 DEF Moves, Advances
      <4> QED BY <2>1, <3>0, <4>1 DEF Moves, SameSave, Areas
    <3>2. \A u \in Tasks : u # t => job'[u] = job[u]
      BY <3>1, OneJob
    <3>3. \A u \in Tasks : (ListBusy(u) \/ ListBusy(u)') => job'[u] = job[u]
      BY <3>0, <3>1, <3>2 DEF ListBusy
    <3> QED BY <3>1, <3>3, QuietKeeps
  <2> QED BY <2>2, <2>3
<1>2. ASSUME NEW t \in Tasks, SaveReturns(t) PROVE ListInvariant'
  <2>1. /\ job[t].pc = "saved" /\ ListBusy(t) /\ kind' = kind /\ nvs' = nvs
        /\ job[t] \in Jobs
    BY <1>2 DEF SaveReturns, ListBusy, Types, Idle
  <2>2. ASSUME ~mixed'
        PROVE  /\ ~mixed /\ Loaded \in allowed
               /\ job[t].ok => Loaded = ByName(job[t].target)
               /\ Meant(job[t], allowed)
               /\ \A l \in allowed : l \in Lists /\ ~Clashing(l)
               /\ \A u \in Tasks \ {t} : ~ListBusy(u)
    <3>1. ~mixed /\ ~(job[t].risky /\ ~job[t].ok)
      BY <1>2, <2>2 DEF SaveReturns
    <3> QED BY <2>1, <3>1, OverIsGood
  <2>3. CASE job[t].next # <<>>
    <3>1. /\ job' = [job EXCEPT ![t] = Save(job[t].next[1], <<>>, job[t].locked)]
          /\ allowed' = allowed
      BY <1>2, <2>3 DEF SaveReturns
    <3>2. job[t].next[1] \in Lists /\ job[t].locked \in BOOLEAN /\ <<>> \in Nexts
      BY <2>1, <2>3 DEF Jobs, Nexts
    <3> DEFINE s == Save(job[t].next[1], <<>>, job[t].locked)
    <3>3. Begun(s, job[t].next[1], <<>>)
      BY <3>2, SaveIs
    <3> HIDE DEF s
    <3>4. job' = [job EXCEPT ![t] = s]
      BY <3>1 DEF s
    <3>5. s.target = job[t].next[1] /\ s.next = <<>>
      BY <3>3 DEF Begun
    <3>6. ~mixed' => /\ Loaded \in allowed'
                     /\ \A u \in Tasks \ {t} : ~ListBusy(u)
                     /\ \A l \in allowed' : l \in Lists /\ ~Clashing(l)
                     /\ Meant(s, allowed')
      BY <2>2, <2>3, <3>1, <3>5 DEF Meant
    <3>7. Begun(s, s.target, <<>>)
      BY <3>3, <3>5
    <3> QED BY <2>1, <3>4, <3>6, <3>7, StartKeeps
  <2>4. CASE job[t].next = <<>>
    <3>1. /\ job' = [job EXCEPT ![t] = Idle]
          /\ allowed' = (IF job[t].ok /\ job[t].next = <<>> /\ ~mixed
                         THEN {ByName(job[t].target)} ELSE allowed)
      BY <1>2, <2>4 DEF SaveReturns
    <3>2. job'[t] = Idle /\ \A u \in Tasks : u # t => job'[u] = job[u]
      BY <3>1, OneJob
    <3>3. ASSUME ~mixed' PROVE \A u \in Tasks : ~ListBusy(u)'
      BY <2>2, <3>2, <3>3 DEF ListBusy, Idle
    <3>4. job[t].target \in Lists
      BY <2>1, JobMoves
    <3>5. ASSUME ~mixed'
          PROVE  Loaded \in allowed' /\ \A l \in allowed' : l \in Lists /\ ~Clashing(l)
      <4>1. ~Clashing(job[t].target)
        BY <2>2, <3>5 DEF Meant
      <4>2. ByName(job[t].target) \in Lists /\ ~Clashing(ByName(job[t].target))
        BY <3>4, <4>1, SortedIsClean
      <4> QED BY <2>2, <3>1, <3>5, <4>2
    <3> QED BY <2>1, <3>3, <3>5, RestKeeps
  <2> QED BY <2>3, <2>4
<1>3. ASSUME NEW t \in Tasks, Edit(t) PROVE ListInvariant'
  <2>1. /\ kind' = kind /\ nvs' = nvs /\ lock = NoTask /\ ~ListBusy(t)
        /\ \E target \in Additions \cup Deletions \cup Replacements \cup UpdatesOfAll :
              LoadThenSave(t, target, TRUE)
    BY <1>3 DEF Edit, Free, ListBusy
  <2>2. PICK target \in Additions \cup Deletions \cup Replacements \cup UpdatesOfAll :
          LoadThenSave(t, target, TRUE)
    BY <2>1
  <2>3. target \in Lists /\ (~Clashing(Loaded) => ~Clashing(target))
    BY EditTargets
  <2> QED BY <2>1, <2>2, <2>3, LoadThenSaveKeeps
<1>4. ASSUME NEW t \in Tasks, Load(t) PROVE ListInvariant'
  <2>1. /\ kind' = kind /\ nvs' = nvs /\ ~ListBusy(t)
        /\ job' = [job EXCEPT ![t] = Save(Loaded, <<>>, FALSE)]
        /\ allowed' = allowed \cup {ByName(Loaded)}
        /\ ~mixed' => ~mixed /\ ~Overlapped(t, FALSE)
    BY <1>4 DEF Load, Free, ListBusy
  <2>2. ~mixed' => ~mixed /\ \A u \in Tasks : ~ListBusy(u)
    BY <2>1 DEF Overlapped
  <2> QED BY <2>1, <2>2, LoadKeeps
<1>5. ASSUME NEW t \in Tasks, NEW file \in Lists, job[t].pc = "idle",
             UNCHANGED <<kind, nvs, allowed, mixed>>,
             job' = [job EXCEPT ![t] = SaveBackup(Loaded, <<file>>)]
      PROVE  ListInvariant'
  <2> DEFINE s == SaveBackup(Loaded, <<file>>)
  <2>1. s \in Jobs /\ s.area = "backup"
    <3>1. Loaded \in Lists /\ <<file>> \in Nexts
      BY LoadedIsList DEF Nexts
    <3> QED BY <3>1, SaveBackupIs
  <2> HIDE DEF s
  <2>2. job' = [job EXCEPT ![t] = s]
    BY <1>5 DEF s
  <2>3. job'[t] = s /\ \A u \in Tasks : u # t => job'[u] = job[u]
    BY <2>1, <2>2, OneJob
  <2>4. \A u \in Tasks : (ListBusy(u) \/ ListBusy(u)') => job'[u] = job[u]
    BY <1>5, <2>1, <2>3 DEF ListBusy
  <2> QED BY <1>5, <2>4, QuietKeeps
<1>6. ASSUME NEW t \in Tasks, Import(t) PROVE ListInvariant'
  <2>1. /\ job[t].pc = "idle" /\ UNCHANGED <<kind, nvs, allowed, mixed>>
        /\ \E file \in Files : Len(file) <= MaxRecords
              /\ job' = [job EXCEPT ![t] = SaveBackup(Loaded, <<file>>)]
    BY <1>6 DEF Import, Free
  <2> QED BY <1>5, <2>1, FilesAreLists
<1>7. ASSUME NEW t \in Tasks, Restore(t) PROVE ListInvariant'
  <2> DEFINE file == Parse(BackupText, Current).list
  <2>1. /\ job[t].pc = "idle" /\ UNCHANGED <<kind, nvs, allowed, mixed>>
        /\ Len(file) <= MaxRecords
        /\ job' = [job EXCEPT ![t] = SaveBackup(Loaded, <<file>>)]
    BY <1>7 DEF Restore, Free
  <2>2. file \in Seq(Rec)
    BY BackupIsRead
  <2> HIDE DEF file
  <2>3. file \in Lists
    BY <2>1, <2>2 DEF Lists
  <2> QED BY <1>5, <2>1, <2>3
<1>8. ASSUME NEW t \in Tasks, Apply(t) PROVE ListInvariant'
  <2>1. /\ kind' = kind /\ nvs' = nvs /\ job[t].pc = "saved" /\ job[t].area = "backup"
        /\ job[t] \in Jobs /\ job[t].next # <<>>
    BY <1>8 DEF Types, Apply, Room, Idle
  <2> DEFINE target == job[t].next[1]
  <2>2. target \in Lists /\ <<>> \in Nexts /\ ~ListBusy(t)
    BY <2>1 DEF Jobs, Nexts, ListBusy
  <2>3. CASE Clashing(target)
    <3>1. job' = [job EXCEPT ![t] = Idle] /\ allowed' = allowed /\ mixed' = mixed
      BY <1>8, <2>3 DEF Apply
    <3>2. job'[t] = Idle /\ \A u \in Tasks : u # t => job'[u] = job[u]
      BY <3>1, OneJob
    <3>3. \A u \in Tasks : (ListBusy(u) \/ ListBusy(u)') => job'[u] = job[u]
      BY <2>2, <3>2 DEF ListBusy, Idle
    <3> QED BY <2>1, <3>1, <3>3, QuietKeeps
  <2>4. CASE ~Clashing(target)
    <3> DEFINE s == Save(target, <<>>, TRUE)
    <3>1. /\ job' = [job EXCEPT ![t] = s] /\ lock = NoTask
          /\ allowed' = allowed \cup {ByName(target)}
          /\ ~mixed' => ~mixed /\ ~Overlapped(t, TRUE)
      BY <1>8, <2>4 DEF Apply
    <3>2. Begun(s, target, <<>>)
      BY <2>2, LockedSave
    <3> HIDE DEF s
    <3>3. s.target = target /\ s.next = <<>>
      BY <3>2 DEF Begun
    <3>4. ASSUME ~mixed'
          PROVE  /\ Loaded \in allowed'
                 /\ \A u \in Tasks \ {t} : ~ListBusy(u)
                 /\ \A l \in allowed' : l \in Lists /\ ~Clashing(l)
                 /\ Meant(s, allowed')
      <4>1. \A u \in Tasks : ~ListBusy(u)
        <5> SUFFICES ASSUME NEW u \in Tasks, ListBusy(u) PROVE FALSE
          OBVIOUS
        <5>1. job[u].locked
          BY <2>2, <3>1, <3>4 DEF Overlapped
        <5> QED BY <3>1, <5>1 DEF Alone, NoTask, Tasks
      <4>2. Loaded \in allowed /\ \A l \in allowed : l \in Lists /\ ~Clashing(l)
        BY <3>1, <3>4, <4>1, RestIsGood
      <4>3. ByName(target) \in Lists /\ ~Clashing(ByName(target))
        BY <2>2, <2>4, SortedIsClean
      <4> HIDE DEF target
      <4> QED BY <2>4, <3>1, <3>3, <4>1, <4>2, <4>3 DEF Meant
    <3>5. Begun(s, s.target, <<>>)
      BY <3>2, <3>3
    <3> QED BY <2>1, <3>1, <3>4, <3>5, StartKeeps
  <2> QED BY <2>3, <2>4
<1>9. ASSUME BootLoad PROVE ListInvariant'
  <2>1. /\ kind' = kind /\ nvs' = nvs /\ mixed' = mixed /\ "loop" \in Tasks
        /\ allowed' = allowed \cup {ByName(Loaded)}
        /\ job' = [job EXCEPT !["loop"] =
                     IF LoadSaves THEN Save(Loaded, <<>>, FALSE) ELSE Idle]
    BY <1>9 DEF BootLoad, Tasks
  <2>2. \A u \in Tasks : ~ListBusy(u)
    BY <1>9 DEF BootLoad, Alone, Tasks, ListBusy
  <2>3. CASE LoadSaves
    <3>1. job' = [job EXCEPT !["loop"] = Save(Loaded, <<>>, FALSE)]
      BY <2>1, <2>3
    <3> QED BY <2>1, <2>2, <3>1, LoadKeeps
  <2>4. CASE ~LoadSaves
    <3>1. job' = [job EXCEPT !["loop"] = Idle]
      BY <2>1, <2>4
    <3>2. job'["loop"] = Idle /\ \A u \in Tasks : u # "loop" => job'[u] = job[u]
      BY <2>1, <3>1, OneJob
    <3>3. \A u \in Tasks : ~ListBusy(u)'
      BY <2>2, <3>2 DEF ListBusy, Idle
    <3>4. ~mixed' => Loaded \in allowed' /\ \A l \in allowed' : l \in Lists /\ ~Clashing(l)
      BY <2>1, <2>2, RestIsGood
    <3> QED BY <2>1, <3>3, <3>4, RestKeeps
  <2> QED BY <2>3, <2>4
<1>10. ASSUME BootSeed PROVE ListInvariant'
  <2>1. /\ kind' = kind /\ nvs' = nvs /\ "loop" \in Tasks /\ ~ListBusy("loop")
        /\ boot \in [at : {"off", "seeds", "up"}, todo : {<<>>, Seed}]
    BY <1>10 DEF BootSeed, Tasks, Types, ListBusy
  <2>2. \A u \in Tasks \ {"loop"} : job[u].pc = "idle"
    BY <1>10 DEF BootSeed, Alone, Tasks
  <2> DEFINE s == Head(boot.todo)
             target == Append(Loaded, s)
  <2>3. \/ UNCHANGED <<job, allowed, mixed>>
        \/ /\ ~(Len(Loaded) >= MaxRecords) /\ LoadThenSave("loop", target, TRUE)
           /\ \A i \in DOMAIN Loaded : ~Clash(Loaded[i], s)
    BY <1>10 DEF BootSeed
  <2>4. CASE UNCHANGED <<job, allowed, mixed>>
    BY <2>1, <2>4, QuietKeeps
  <2>5. CASE /\ ~(Len(Loaded) >= MaxRecords) /\ LoadThenSave("loop", target, TRUE)
             /\ \A i \in DOMAIN Loaded : ~Clash(Loaded[i], s)
    <3>1. s \in Rec
      <4>1. boot.todo = Seed /\ Head(Seed) = Seed[1] /\ Seed[1] \in Rec
        BY <1>10, <2>1 DEF BootSeed, Seed, Rec
      <4> QED BY <4>1
    <3>2. Len(Loaded) < MaxRecords /\ Loaded \in Lists
      BY <2>5, LoadedIsList, LenProperties, Bounds DEF Lists
    <3>3. target \in Lists /\ (~Clashing(Loaded) => ~Clashing(target))
      BY <2>5, <3>1, <3>2, AdditionIsClean
    <3> HIDE DEF target, s
    <3> QED BY <2>1, <2>2, <2>5, <3>3, LoadThenSaveKeeps
  <2> QED BY <2>3, <2>4, <2>5
<1>11. ASSUME BootEnds PROVE ListInvariant'
  <2>1. /\ UNCHANGED <<kind, job, allowed, mixed>>
        /\ nvs' \in {nvs, [nvs EXCEPT !.seeded = (kind = "camera")]} /\ nvs \in Nvs
    BY <1>11 DEF BootEnds, Types
  <2>2. nvs'.schema = nvs.schema /\ nvs'.legacy = nvs.legacy /\ nvs'.list = nvs.list
    BY <2>1, NvsRest DEF Areas
  <2> QED BY <2>1, <2>2, QuietKeeps
<1>12. ASSUME Crash PROVE ListInvariant'
  <2>1. /\ UNCHANGED <<kind, nvs, allowed>> /\ job' = [t \in Tasks |-> Idle]
        /\ ~mixed' => ~mixed /\ \A t \in Tasks : ListBusy(t) => ~job[t].risky
    BY <1>12 DEF Crash
  <2>2. \A t \in Tasks : ~ListBusy(t)'
    BY <2>1 DEF ListBusy, Idle
  <2>3. ~mixed' => Loaded \in allowed' /\ \A l \in allowed' : l \in Lists /\ ~Clashing(l)
    BY <2>1, UntornIsGood DEF Torn
  <2> QED BY <2>1, <2>2, <2>3, RestKeeps
<1>13. CASE UNCHANGED vars
  <2>1. UNCHANGED <<kind, nvs, job, allowed, mixed>>
    BY <1>13 DEF vars
  <2> QED BY <2>1, QuietKeeps
<1> QED
  <2>1. ASSUME NEW t \in Tasks, Step(t) PROVE ListInvariant'
    BY <1>1, <1>2, <1>3, <1>4, <1>6, <1>7, <1>8, <2>1 DEF Step, Writes
  <2> QED BY <1>9, <1>10, <1>11, <1>12, <1>13, <2>1 DEF Next

----------------------------------------------------------------------------
(***************************************************************************)
(* The import and its undoing                                              *)
(***************************************************************************)
\* A save that starts has written nothing wrong.
LEMMA StartsOnTrack ==
    ASSUME NEW s \in Jobs, NEW n, s.pc = "keys", s.i = 1
    PROVE  OnTrack(s, n)
<1>1. DOMAIN SplitIntoChunks(TextOf(s)) = 1..Len(SplitIntoChunks(TextOf(s)))
      /\ Len(SplitIntoChunks(TextOf(s))) \in 0..Keys /\ Keys \in Nat
  BY TextOfIs, Bounds
<1>2. \A k \in DOMAIN SplitIntoChunks(TextOf(s)) : ~(k < 1)
  BY <1>1
<1> QED BY <1>2 DEF OnTrack

\* What depends on the kind of store alone.
LEMMA UndoSame ==
    ASSUME kind' = kind
    PROVE  /\ \A j, n, l : ImportJob(j, n, l)' <=> ImportJob(j, n, l)
           /\ \A j, n, l : RestoreJob(j, n, l)' <=> RestoreJob(j, n, l)
           /\ \A n, l : Restored(n, l)' <=> Restored(n, l)
           /\ \A a, l : Holds(a, BackupOf(l))' <=> Holds(a, BackupOf(l))
           /\ \A l : Sorted(l)' <=> Sorted(l)
<1>1. \A a, l : Holds(a, BackupOf(l))' <=> Holds(a, BackupOf(l))
  BY KindSame DEF Holds
<1>2. \A j, n, l : ImportJob(j, n, l)' <=> ImportJob(j, n, l)
  BY <1>1, TrackSame DEF ImportJob
<1>3. \A j, n, l : RestoreJob(j, n, l)' <=> RestoreJob(j, n, l)
  BY TrackSame DEF RestoreJob
<1>4. \A n, l : Restored(n, l)' <=> Restored(n, l)
  BY KindSame DEF Restored, Holds
<1> QED BY <1>1, <1>2, <1>3, <1>4, KindSame

\* An undoing that moves on keeps its list.
LEMMA PhaseMoves ==
    ASSUME NEW u \in Undos, u.phase # "none",
           NEW p \in {"importing", "imported", "restoring", "restored"}
    PROVE  /\ [u EXCEPT !.phase = p] \in Undos
           /\ [u EXCEPT !.phase = p].phase = p
           /\ [u EXCEPT !.phase = p].list = u.list
           /\ u.list \in Lists
           /\ u.phase \in {"importing", "imported", "restoring", "restored"}
BY DEF Undos, NoUndo

\* Giving the undoing up needs nothing.
LEMMA NoUndoKeeps ==
    ASSUME undo' = NoUndo
    PROVE  Undone'
<1>1. undo' \in Undos /\ undo'.phase = "none"
  BY DEF NoUndo, Undos
<1>2. Undos' = Undos
  BY DEF Undos, NoUndo, Lists, Rec
<1> QED BY <1>1, <1>2 DEF Undone

\* What any step has to show: the part for the phase it leaves the undoing in.
LEMMA PhaseKeeps ==
    ASSUME kind' = kind, undo' \in Undos, undo'.phase # "none",
           Sorted(undo'.list),
           undo'.phase \in {"importing", "restoring"} =>
              boot'.at = "up" /\ \A t, u \in Tasks : Busy(t)' /\ Busy(u)' => t = u,
           undo'.phase = "importing" =>
              \A t \in Tasks : Busy(t)' => ImportJob(job'[t], nvs', undo'.list),
           undo'.phase = "restoring" =>
              \A t \in Tasks : Busy(t)' => RestoreJob(job'[t], nvs', undo'.list),
           undo'.phase = "imported" =>
              /\ Holds(nvs'.backup, BackupOf(undo'.list))
              /\ \A t \in Tasks : Busy(t)' => job'[t].area = "list",
           undo'.phase = "restored" =>
              (\A t \in Tasks : ~Busy(t)') /\ Restored(nvs', undo'.list)
    PROVE  Undone'
<1>1. Undos' = Undos
  BY DEF Undos, NoUndo, Lists, Rec
<1>2. Sorted(undo.list)'
  BY UndoSame
<1>3. undo'.phase = "importing" =>
         \A t \in Tasks : Busy(t)' => ImportJob(job[t], nvs, undo.list)'
  BY UndoSame
<1>4. undo'.phase = "restoring" =>
         \A t \in Tasks : Busy(t)' => RestoreJob(job[t], nvs, undo.list)'
  BY UndoSame
<1>5. undo'.phase = "imported" => Holds(nvs.backup, BackupOf(undo.list))'
  BY UndoSame
<1>6. undo'.phase = "restored" => Restored(nvs, undo.list)'
  BY UndoSame
<1> QED BY <1>1, <1>2, <1>3, <1>4, <1>5, <1>6 DEF Undone

\* A write of a key.
LEMMA WriteKeepsUndone ==
    ASSUME Types, Room, Undone, NEW t \in Tasks, Moves(t)
    PROVE  Undone'
<1>1. CASE undo.phase = "none"
  <2>1. undo' = NoUndo
    BY <1>1 DEF Moves, Undone, Undos
  <2> QED BY <2>1, NoUndoKeeps
<1>2. CASE undo.phase # "none"
  <2>1. /\ job[t] \in Jobs /\ job'[t] \in Jobs /\ SameSave(job[t], job'[t])
        /\ Advances(job[t], nvs, job'[t], nvs') /\ job' = [job EXCEPT ![t] = job'[t]]
        /\ UNCHANGED <<kind, boot, undo>>
        /\ \A b \in Areas : b # job[t].area => nvs'[b] = nvs[b]
    BY DEF Moves, Advances
  <2>2. /\ Busy(t) /\ Busy(t)' /\ job[t].area \in Areas
        /\ job'[t].area = job[t].area /\ job'[t].target = job[t].target
        /\ job'[t].next = job[t].next /\ (job'[t].ok => job[t].ok)
    BY <2>1, JobMoves DEF Busy, SameSave
  <2>3. \A u \in Tasks : u # t => job'[u] = job[u] /\ (Busy(u)' <=> Busy(u))
    BY <2>1, OneJob DEF Busy
  <2>4. job'[t].ok /\ OnTrack(job[t], nvs) => OnTrack(job'[t], nvs')
    BY <2>1 DEF Advances
  <2>5. job[t].area = "list" => nvs'.backup = nvs.backup
    BY <2>1 DEF Areas
  <2>6. /\ undo \in Undos /\ Sorted(undo.list)
    BY <1>2 DEF Undone
  <2>7. CASE undo.phase \in {"importing", "restoring"}
    <3>1. boot.at = "up" /\ \A u \in Tasks : Busy(u) => u = t
      BY <2>2, <2>7 DEF Undone
    <3>2. \A u \in Tasks : Busy(u)' => u = t
      BY <2>3, <3>1
    <3>3. CASE undo.phase = "importing"
      <4>1. ImportJob(job[t], nvs, undo.list)
        BY <2>2, <3>3 DEF Undone
      <4>2. ImportJob(job'[t], nvs', undo.list)
        BY <2>2, <2>4, <2>5, <4>1 DEF ImportJob
      <4> QED BY <1>2, <2>1, <2>6, <3>1, <3>2, <3>3, <4>2, PhaseKeeps
    <3>4. CASE undo.phase = "restoring"
      <4>1. RestoreJob(job[t], nvs, undo.list)
        BY <2>2, <3>4 DEF Undone
      <4>2. RestoreJob(job'[t], nvs', undo.list)
        BY <2>2, <2>4, <4>1 DEF RestoreJob
      <4> QED BY <1>2, <2>1, <2>6, <3>1, <3>2, <3>4, <4>2, PhaseKeeps
    <3> QED BY <2>7, <3>3, <3>4
  <2>8. CASE undo.phase = "imported"
    <3>1. Holds(nvs.backup, BackupOf(undo.list)) /\ \A u \in Tasks : Busy(u) => job[u].area = "list"
      BY <2>8 DEF Undone
    <3>2. nvs'.backup = nvs.backup /\ \A u \in Tasks : Busy(u)' => job'[u].area = "list"
      BY <2>2, <2>3, <2>5, <3>1
    <3> QED BY <1>2, <2>1, <2>6, <2>8, <3>1, <3>2, PhaseKeeps
  <2>9. CASE undo.phase = "restored"
    BY <2>2, <2>9 DEF Undone
  <2> QED BY <1>2, <2>6, <2>7, <2>8, <2>9, PhaseMoves
<1> QED BY <1>1, <1>2

\* The end of a save.
LEMMA ReturnKeepsUndone ==
    ASSUME Types, Room, Undone, NEW t \in Tasks, SaveReturns(t)
    PROVE  Undone'
<1>1. /\ UNCHANGED <<kind, nvs, boot>> /\ job[t].pc = "saved" /\ job[t].area = "list"
      /\ job[t] \in Jobs /\ Busy(t)
  BY DEF SaveReturns, Types, Idle, Busy
<1>2. CASE undo.phase = "none"
  <2>1. undo' = undo \/ undo' = NoUndo
    BY <1>2 DEF SaveReturns
  <2>2. undo' = NoUndo
    BY <1>2, <2>1 DEF Undone, Undos
  <2> QED BY <2>2, NoUndoKeeps
<1>3. CASE undo.phase # "none"
  <2>1. /\ undo \in Undos /\ Sorted(undo.list)
    BY <1>3 DEF Undone
  <2>2. undo.phase \in {"importing", "imported", "restoring", "restored"}
    BY <1>3, <2>1, PhaseMoves
  <2>3. undo.phase = "importing" =>
           job[t].next = <<>> /\ Holds(nvs.backup, BackupOf(undo.list))
    BY <1>1 DEF Undone, ImportJob
  <2>4. undo.phase = "restoring" =>
           /\ job[t].next = <<>> /\ job[t].target = undo.list /\ ~Clashing(undo.list)
           /\ job[t].ok => OnTrack(job[t], nvs)
    BY <1>1 DEF Undone, RestoreJob
  <2>5. undo.phase # "restored"
    BY <1>1 DEF Undone
  <2>6. CASE job[t].next # <<>>
    <3>1. undo.phase = "imported"
      BY <2>2, <2>3, <2>4, <2>5, <2>6
    <3>2. undo' = undo /\ job' = [job EXCEPT ![t] = Save(job[t].next[1], <<>>, job[t].locked)]
      BY <2>6 DEF SaveReturns
    <3> DEFINE s == Save(job[t].next[1], <<>>, job[t].locked)
    <3>3. s \in Jobs /\ s.area = "list"
      <4>1. job[t].next[1] \in Lists /\ job[t].locked \in BOOLEAN /\ <<>> \in Nexts
        BY <1>1, <2>6 DEF Jobs, Nexts
      <4>2. Begun(s, job[t].next[1], <<>>)
        BY <4>1, SaveIs
      <4> QED BY <4>2 DEF Begun
    <3>4. job' = [job EXCEPT ![t] = s]
      BY <3>2
    <3> HIDE DEF s
    <3>5. job'[t] = s /\ \A u \in Tasks : u # t => job'[u] = job[u]
      BY <3>3, <3>4, OneJob
    <3>6. Holds(nvs.backup, BackupOf(undo.list)) /\ \A u \in Tasks : Busy(u) => job[u].area = "list"
      BY <3>1 DEF Undone
    <3>7. \A u \in Tasks : Busy(u)' => job'[u].area = "list"
      BY <3>3, <3>5, <3>6 DEF Busy
    <3> QED BY <1>1, <1>3, <2>1, <3>1, <3>2, <3>6, <3>7, PhaseKeeps
  <2>7. CASE job[t].next = <<>>
    <3>1. /\ job' = [job EXCEPT ![t] = Idle]
          /\ undo' = CASE undo.phase = "importing" /\ job[t].ok ->
                                [undo EXCEPT !.phase = "imported"]
                       [] undo.phase = "restoring" /\ job[t].ok ->
                                [undo EXCEPT !.phase = "restored"]
                       [] undo.phase = "none" -> undo
                       [] OTHER -> NoUndo
      BY <2>7 DEF SaveReturns
    <3>2. job'[t] = Idle /\ \A u \in Tasks : u # t => job'[u] = job[u]
      BY <3>1, OneJob
    <3>3. ASSUME undo.phase \in {"importing", "restoring"}
          PROVE  \A u \in Tasks : ~Busy(u)'
      BY <1>1, <3>2, <3>3 DEF Undone, Busy, Idle
    <3>4. CASE undo.phase = "importing" /\ job[t].ok
      <4>1. undo' = [undo EXCEPT !.phase = "imported"]
        BY <3>1, <3>4
      <4>2. undo' \in Undos /\ undo'.phase = "imported" /\ undo'.list = undo.list
        BY <1>3, <2>1, <4>1, PhaseMoves
      <4> QED BY <1>1, <2>1, <2>3, <3>3, <3>4, <4>2, PhaseKeeps
    <3>5. CASE undo.phase = "restoring" /\ job[t].ok
      <4>1. undo' = [undo EXCEPT !.phase = "restored"]
        BY <3>1, <3>5
      <4>2. undo' \in Undos /\ undo'.phase = "restored" /\ undo'.list = undo.list
        BY <1>3, <2>1, <4>1, PhaseMoves
      <4>3. TextOf(job[t]) = Pieces(undo.list, Current)
        BY <1>1, <2>4, <3>5 DEF TextOf
      <4>4. Restored(nvs, undo.list)
        BY <1>1, <2>4, <3>5, <4>3 DEF OnTrack, Restored
      <4> QED BY <1>1, <2>1, <3>3, <3>5, <4>2, <4>4, PhaseKeeps
    <3>6. CASE ~(undo.phase = "importing" /\ job[t].ok) /\ ~(undo.phase = "restoring" /\ job[t].ok)
      BY <1>3, <3>1, <3>6, NoUndoKeeps
    <3> QED BY <3>4, <3>5, <3>6
  <2> QED BY <2>6, <2>7
<1> QED BY <1>2, <1>3

\* A backup that starts where nothing runs.
LEMMA BackupKeepsUndone ==
    ASSUME Types, Room, NEW t \in Tasks, NEW file \in Lists,
           UNCHANGED <<kind, nvs, boot>>, boot.at = "up", \A u \in Tasks : ~Busy(u),
           job' = [job EXCEPT ![t] = SaveBackup(Loaded, <<file>>)],
           undo' \in Undos, Sorted(undo'.list),
           \/ undo'.phase = "importing" /\ undo'.list = Loaded
           \/ undo'.phase = "restoring" /\ undo'.list = file
    PROVE  Undone'
<1> DEFINE s == SaveBackup(Loaded, <<file>>)
<1>1. /\ s \in Jobs /\ s.pc = "keys" /\ s.area = "backup" /\ s.i = 1
      /\ s.target = Loaded /\ s.next = <<file>>
  <2>1. Loaded \in Lists /\ <<file>> \in Nexts
    BY LoadedIsList DEF Nexts
  <2> QED BY <2>1, SaveBackupIs
<1>2. job' = [job EXCEPT ![t] = s]
  OBVIOUS
<1> HIDE DEF s
<1>3. job'[t] = s /\ \A u \in Tasks : u # t => job'[u] = job[u]
  BY <1>1, <1>2, OneJob
<1>4. \A u \in Tasks : Busy(u)' => u = t
  BY <1>3 DEF Busy
<1>6. OnTrack(s, nvs)
  BY <1>1, StartsOnTrack
<1>7. CASE undo'.phase = "importing" /\ undo'.list = Loaded
  <2>1. ImportJob(s, nvs, undo'.list)
    BY <1>1, <1>6, <1>7 DEF ImportJob
  <2> QED BY <1>3, <1>4, <1>7, <2>1, PhaseKeeps
<1>8. CASE undo'.phase = "restoring" /\ undo'.list = file
  <2>1. RestoreJob(s, nvs, undo'.list)
    BY <1>1, <1>8 DEF RestoreJob
  <2> QED BY <1>3, <1>4, <1>8, <2>1, PhaseKeeps
<1> QED BY <1>7, <1>8

\* An import backs up the list it is to replace.
LEMMA ImportKeepsUndone ==
    ASSUME Types, Room, NEW t \in Tasks, Import(t)
    PROVE  Undone'
<1>1. /\ UNCHANGED <<kind, nvs, boot>> /\ boot.at = "up"
      /\ \E file \in Files : Len(file) <= MaxRecords
            /\ job' = [job EXCEPT ![t] = SaveBackup(Loaded, <<file>>)]
  BY DEF Import, Free
<1>2. CASE \A u \in Tasks : ~Busy(u)
  <2>1. undo' = [phase |-> "importing", list |-> Loaded]
    BY <1>2 DEF Import, Busy
  <2>2. Loaded \in Lists /\ Sorted(Loaded)
    BY LoadedIsList
  <2>3. undo' \in Undos /\ undo'.phase = "importing" /\ undo'.list = Loaded
    BY <2>1, <2>2 DEF Undos
  <2> QED BY <1>1, <1>2, <2>2, <2>3, FilesAreLists, BackupKeepsUndone
<1>3. CASE ~ \A u \in Tasks : ~Busy(u)
  <2>1. undo' = NoUndo
    BY <1>3 DEF Import, Busy
  <2> QED BY <2>1, NoUndoKeeps
<1> QED BY <1>2, <1>3

\* The text of the backup is the list that was replaced.
LEMMA BackupHasList ==
    ASSUME NEW list \in Lists, Holds(nvs.backup, BackupOf(list))
    PROVE  Parse(BackupText, Current).list = list
<1>1. list \in Seq(Rec)
  BY DEF Lists
<1>2. BackupOf(list) \in Text /\ Parse(BackupOf(list), Current).list = list
  BY <1>1, ParseBackup DEF BackupOf
<1>3. BackupText = BackupOf(list)
  BY <1>2, HoldsReads DEF BackupText
<1> QED BY <1>2, <1>3

\* A restore reads that list before it writes the new backup.
LEMMA RestoreKeepsUndone ==
    ASSUME Types, Room, Undone, NEW t \in Tasks, Restore(t)
    PROVE  Undone'
<1> DEFINE file == Parse(BackupText, Current).list
<1>1. /\ UNCHANGED <<kind, nvs, boot>> /\ boot.at = "up"
      /\ job' = [job EXCEPT ![t] = SaveBackup(Loaded, <<file>>)]
  BY DEF Restore, Free
<1>2. CASE undo.phase = "imported" /\ \A u \in Tasks : ~Busy(u)
  <2>1. undo' = [undo EXCEPT !.phase = "restoring"]
    BY <1>2 DEF Restore, Busy
  <2>2. /\ undo \in Undos /\ undo.phase # "none" /\ Sorted(undo.list)
        /\ Holds(nvs.backup, BackupOf(undo.list))
    BY <1>2 DEF Undone
  <2>3. /\ undo' \in Undos /\ undo'.phase = "restoring" /\ undo'.list = undo.list
        /\ undo.list \in Lists
    BY <2>1, <2>2, PhaseMoves
  <2>4. file = undo.list
    BY <2>2, <2>3, BackupHasList
  <2> HIDE DEF file
  <2> QED BY <1>1, <1>2, <2>2, <2>3, <2>4, BackupKeepsUndone
<1>3. CASE ~ (undo.phase = "imported" /\ \A u \in Tasks : ~Busy(u))
  <2>1. undo' = NoUndo
    BY <1>3 DEF Restore, Busy
  <2> QED BY <2>1, NoUndoKeeps
<1> QED BY <1>2, <1>3

\* The import goes on when the backup is written.
LEMMA ApplyKeepsUndone ==
    ASSUME Types, Room, Undone, NEW t \in Tasks, Apply(t)
    PROVE  Undone'
<1> DEFINE target == job[t].next[1]
<1>1. /\ UNCHANGED <<kind, nvs, boot>> /\ job[t].pc = "saved" /\ job[t].area = "backup"
      /\ job[t] \in Jobs /\ job[t].next # <<>> /\ Busy(t)
  BY DEF Types, Apply, Room, Idle, Busy
<1>2. target \in Lists /\ <<>> \in Nexts
  BY <1>1 DEF Jobs, Nexts
<1>3. CASE ~job[t].ok
  <2>1. undo' = NoUndo
    BY <1>3 DEF Apply, NoUndo
  <2> QED BY <2>1, NoUndoKeeps
<1>4. CASE job[t].ok /\ undo.phase = "none"
  <2>1. undo' = undo \/ undo' = NoUndo
    BY <1>4 DEF Apply
  <2>2. undo' = NoUndo
    BY <1>4, <2>1 DEF Undone, Undos
  <2> QED BY <2>2, NoUndoKeeps
<1>5. CASE job[t].ok /\ undo.phase # "none"
  <2>1. /\ undo \in Undos /\ Sorted(undo.list)
    BY <1>5 DEF Undone
  <2>2. undo.phase \in {"importing", "restoring"}
    <3>1. undo.phase # "imported" /\ undo.phase # "restored"
      BY <1>1 DEF Undone
    <3> QED BY <1>5, <2>1, <3>1, PhaseMoves
  <2>3. boot.at = "up" /\ \A u \in Tasks : Busy(u) => u = t
    BY <1>1, <2>2 DEF Undone
  <2>4. undo.phase = "importing" => Holds(nvs.backup, BackupOf(undo.list))
    <3> SUFFICES ASSUME undo.phase = "importing" PROVE Holds(nvs.backup, BackupOf(undo.list))
      OBVIOUS
    <3>1. job[t].target = undo.list /\ OnTrack(job[t], nvs)
      BY <1>1, <1>5 DEF Undone, ImportJob
    <3>2. TextOf(job[t]) = BackupOf(undo.list)
      BY <1>1, <3>1 DEF TextOf, BackupOf
    <3> QED BY <1>1, <3>1, <3>2 DEF OnTrack
  <2>5. undo.phase = "restoring" => target = undo.list
    BY <1>1 DEF Undone, RestoreJob
  <2>6. CASE Clashing(target)
    <3>1. /\ job' = [job EXCEPT ![t] = Idle]
          /\ undo' = IF undo.phase = "importing"
                     THEN [undo EXCEPT !.phase = "imported"] ELSE NoUndo
      BY <1>5, <2>6 DEF Apply
    <3>2. job'[t] = Idle /\ \A u \in Tasks : u # t => job'[u] = job[u]
      BY <3>1, OneJob
    <3>3. \A u \in Tasks : ~Busy(u)'
      BY <2>3, <3>2 DEF Busy, Idle
    <3>4. CASE undo.phase = "importing"
      <4>1. undo' = [undo EXCEPT !.phase = "imported"]
        BY <3>1, <3>4
      <4>2. undo' \in Undos /\ undo'.phase = "imported" /\ undo'.list = undo.list
        BY <1>5, <2>1, <4>1, PhaseMoves
      <4> QED BY <1>1, <2>1, <2>4, <3>3, <3>4, <4>2, PhaseKeeps
    <3>5. CASE undo.phase # "importing"
      BY <3>1, <3>5, NoUndoKeeps
    <3> QED BY <3>4, <3>5
  <2>7. CASE ~Clashing(target)
    <3> DEFINE s == Save(target, <<>>, TRUE)
    <3>1. job' = [job EXCEPT ![t] = s] /\ undo' = undo
      BY <1>5, <2>7 DEF Apply
    <3>2. /\ s \in Jobs /\ s.pc = "keys" /\ s.area = "list" /\ s.i = 1
          /\ s.target = target /\ s.next = <<>>
      <4>1. Begun(s, target, <<>>)
        BY <1>2, LockedSave
      <4> QED BY <4>1 DEF Begun
    <3> HIDE DEF s
    <3>3. job'[t] = s /\ \A u \in Tasks : u # t => job'[u] = job[u]
      BY <3>1, <3>2, OneJob
    <3>4. \A u \in Tasks : Busy(u)' => u = t
      BY <2>3, <3>3 DEF Busy
    <3>5. OnTrack(s, nvs)
      BY <3>2, StartsOnTrack
    <3>6. CASE undo.phase = "importing"
      <4>1. ImportJob(s, nvs, undo.list)
        BY <2>4, <3>2, <3>6 DEF ImportJob
      <4> QED BY <1>1, <2>1, <2>3, <3>1, <3>3, <3>4, <3>6, <4>1, PhaseKeeps
    <3>7. CASE undo.phase = "restoring"
      <4>1. RestoreJob(s, nvs, undo.list)
        BY <2>5, <2>7, <3>2, <3>5, <3>7 DEF RestoreJob
      <4> QED BY <1>1, <2>1, <2>3, <3>1, <3>3, <3>4, <3>7, <4>1, PhaseKeeps
    <3> QED BY <2>2, <3>6, <3>7
  <2> QED BY <2>6, <2>7
<1> QED BY <1>3, <1>4, <1>5

\* A boot finds the list, and has no reason to save it.
LEMMA BootKeepsUndone ==
    ASSUME Types, Room, Alone, Undone, BootLoad
    PROVE  Undone'
<1>1. /\ UNCHANGED <<kind, nvs, undo>> /\ boot.at = "off" /\ "loop" \in Tasks
      /\ boot' = [at |-> "seeds",
                  todo |-> IF kind = "camera" /\ ~nvs.seeded THEN Missing ELSE <<>>]
      /\ job' = [job EXCEPT !["loop"] =
                   IF LoadSaves THEN Save(Loaded, <<>>, FALSE) ELSE Idle]
  BY DEF BootLoad, Tasks
<1>2. CASE undo.phase = "none"
  <2>1. undo' = NoUndo
    BY <1>1, <1>2 DEF Undone, Undos
  <2> QED BY <2>1, NoUndoKeeps
<1>3. CASE undo.phase # "none"
  <2>1. /\ undo \in Undos /\ Sorted(undo.list)
    BY <1>3 DEF Undone
  <2>3. undo.phase \notin {"importing", "restoring"}
    BY <1>1 DEF Undone
  <2>4. \A u \in Tasks : ~Busy(u)
    BY <1>1 DEF Alone, Busy, Tasks
  <2>5. CASE undo.phase = "imported"
    <3> DEFINE s == Save(Loaded, <<>>, FALSE)
    <3>1. s \in Jobs /\ s.area = "list"
      <4>1. Loaded \in Lists /\ <<>> \in Nexts
        BY LoadedIsList DEF Nexts
      <4>2. Begun(s, Loaded, <<>>)
        BY <4>1, UnlockedSave
      <4> QED BY <4>2 DEF Begun
    <3>2. job' = [job EXCEPT !["loop"] = s] \/ job' = [job EXCEPT !["loop"] = Idle]
      BY <1>1
    <3> HIDE DEF s
    <3>3. /\ job'["loop"] = s \/ job'["loop"] = Idle
          /\ \A u \in Tasks : u # "loop" => job'[u] = job[u]
      BY <1>1, <3>1, <3>2, OneJob
    <3>4. \A u \in Tasks : Busy(u)' => job'[u].area = "list"
      BY <2>4, <3>1, <3>3 DEF Busy, Idle
    <3>5. Holds(nvs.backup, BackupOf(undo.list))
      BY <2>5 DEF Undone
    <3> QED BY <1>1, <1>3, <2>1, <2>5, <3>4, <3>5, PhaseKeeps
  <2>6. CASE undo.phase = "restored"
    <3>1. Restored(nvs, undo.list) /\ undo.list \in Lists
      BY <1>3, <2>1, <2>6, PhaseMoves DEF Undone
    <3>2. ~LoadSaves
      <4>1. Pieces(undo.list, Current) \in Text
        BY <3>1, PiecesFacts, CurrentIsPositive DEF Lists
      <4>2. Len(SplitIntoChunks(Pieces(undo.list, Current))) \in Nat
        BY <4>1, SplitFacts, ChunkCount
      <4>3. nvs.list.count # NoKey /\ nvs.schema = Current
        BY <3>1, <4>2 DEF Restored, Holds, NoKey
      <4> QED BY <4>3 DEF LoadSaves, Fresh
    <3>3. job' = [job EXCEPT !["loop"] = Idle]
      BY <1>1, <3>2
    <3>4. job'["loop"] = Idle /\ \A u \in Tasks : u # "loop" => job'[u] = job[u]
      BY <1>1, <3>3, OneJob
    <3>5. \A u \in Tasks : ~Busy(u)'
      BY <2>4, <3>4 DEF Busy, Idle
    <3> QED BY <1>1, <1>3, <2>1, <2>6, <3>1, <3>5, PhaseKeeps
  <2> QED BY <1>3, <2>1, <2>3, <2>5, <2>6, PhaseMoves
<1> QED BY <1>2, <1>3

\* The end of the boot.
LEMMA UpKeepsUndone ==
    ASSUME Types, Undone, BootEnds
    PROVE  Undone'
<1>1. /\ UNCHANGED <<kind, job, undo>> /\ boot.at = "seeds"
      /\ boot' = [boot EXCEPT !.at = "up"]
      /\ boot \in [at : {"off", "seeds", "up"}, todo : {<<>>, Seed}]
      /\ nvs' \in {nvs, [nvs EXCEPT !.seeded = (kind = "camera")]} /\ nvs \in Nvs
  BY DEF BootEnds, Types
<1>2. boot'.at = "up"
  BY <1>1
<1>3. /\ nvs'.schema = nvs.schema /\ nvs'.list = nvs.list /\ nvs'.backup = nvs.backup
  BY <1>1, NvsRest DEF Areas
<1>4. \A u \in Tasks : Busy(u)' <=> Busy(u)
  BY <1>1 DEF Busy
<1>5. CASE undo.phase = "none"
  <2>1. undo' = NoUndo
    BY <1>1, <1>5 DEF Undone, Undos
  <2> QED BY <2>1, NoUndoKeeps
<1>6. CASE undo.phase # "none"
  <2>1. undo \in Undos /\ Sorted(undo.list) /\ undo.phase \notin {"importing", "restoring"}
    BY <1>1, <1>6 DEF Undone
  <2>2. undo.phase = "imported" =>
           /\ Holds(nvs'.backup, BackupOf(undo.list))
           /\ \A t \in Tasks : Busy(t)' => job'[t].area = "list"
    BY <1>1, <1>3, <1>4 DEF Undone
  <2>3. undo.phase = "restored" => (\A t \in Tasks : ~Busy(t)') /\ Restored(nvs', undo.list)
    BY <1>3, <1>4 DEF Undone, Restored
  <2> QED BY <1>1, <1>2, <1>3, <1>6, <2>1, <2>2, <2>3, PhaseKeeps
<1> QED BY <1>5, <1>6

\* A reset loses what was under way, and nothing else.
LEMMA CrashKeepsUndone ==
    ASSUME Undone, Crash
    PROVE  Undone'
<1>1. /\ UNCHANGED <<kind, nvs>> /\ boot' = [at |-> "off", todo |-> <<>>]
      /\ job' = [t \in Tasks |-> Idle]
      /\ undo' = (IF undo.phase \in {"importing", "restoring"} THEN NoUndo ELSE undo)
  BY DEF Crash
<1>2. \A u \in Tasks : ~Busy(u)'
  BY <1>1 DEF Busy, Idle
<1>3. CASE undo.phase \in {"none", "importing", "restoring"}
  <2>1. undo' = NoUndo
    BY <1>1, <1>3 DEF Undone, Undos
  <2> QED BY <2>1, NoUndoKeeps
<1>4. CASE undo.phase \notin {"none", "importing", "restoring"}
  <2>1. /\ undo' = undo /\ undo \in Undos /\ Sorted(undo.list)
    BY <1>1, <1>4 DEF Undone
  <2>2. undo.phase = "imported" => Holds(nvs.backup, BackupOf(undo.list))
    BY DEF Undone
  <2>3. undo.phase = "restored" => Restored(nvs, undo.list)
    BY DEF Undone
  <2> QED BY <1>1, <1>2, <1>4, <2>1, <2>2, <2>3, PhaseKeeps
<1> QED BY <1>3, <1>4

\* A step of somebody else.
LEMMA QuietKeepsUndone ==
    ASSUME Undone, UNCHANGED <<kind, nvs, job, undo>>,
           undo.phase \in {"importing", "restoring"} => boot' = boot
    PROVE  Undone'
<1>1. CASE undo.phase = "none"
  <2>1. undo' = NoUndo
    BY <1>1 DEF Undone, Undos
  <2> QED BY <2>1, NoUndoKeeps
<1>2. CASE undo.phase # "none"
  <2>1. \A u \in Tasks : Busy(u)' <=> Busy(u)
    BY DEF Busy
  <2>2. /\ undo.phase \in {"importing", "restoring"} =>
              boot'.at = "up" /\ \A t, u \in Tasks : Busy(t)' /\ Busy(u)' => t = u
        /\ undo.phase = "importing" =>
              \A t \in Tasks : Busy(t)' => ImportJob(job'[t], nvs', undo'.list)
        /\ undo.phase = "restoring" =>
              \A t \in Tasks : Busy(t)' => RestoreJob(job'[t], nvs', undo'.list)
    BY <2>1 DEF Undone
  <2>3. /\ undo.phase = "imported" =>
              /\ Holds(nvs'.backup, BackupOf(undo'.list))
              /\ \A t \in Tasks : Busy(t)' => job'[t].area = "list"
        /\ undo.phase = "restored" =>
              (\A t \in Tasks : ~Busy(t)') /\ Restored(nvs', undo'.list)
    BY <2>1 DEF Undone
  <2>4. /\ undo \in Undos /\ Sorted(undo.list)
    BY <1>2 DEF Undone
  <2> QED BY <1>2, <2>2, <2>3, <2>4, PhaseKeeps
<1> QED BY <1>1, <1>2

\* Every step keeps the undoing.
LEMMA StepKeepsUndone ==
    ASSUME Types, Room, Alone, Undone, [Next]_vars
    PROVE  Undone'
<1>1. ASSUME NEW t \in Tasks, Step(t) PROVE Undone'
  <2>1. CASE Writes(t)
    BY <2>1, WritesMove, WriteKeepsUndone
  <2>2. CASE SaveReturns(t)
    BY <2>2, ReturnKeepsUndone
  <2>3. CASE Edit(t) \/ Load(t)
    BY <2>3, NoUndoKeeps DEF Edit, Load
  <2>4. CASE Import(t)
    BY <2>4, ImportKeepsUndone
  <2>5. CASE Restore(t)
    BY <2>5, RestoreKeepsUndone
  <2>6. CASE Apply(t)
    BY <2>6, ApplyKeepsUndone
  <2> QED BY <1>1, <2>1, <2>2, <2>3, <2>4, <2>5, <2>6 DEF Step, Writes
<1>2. CASE BootLoad
  BY <1>2, BootKeepsUndone
<1>3. CASE BootSeed
  <2>1. \/ undo' = NoUndo
        \/ UNCHANGED <<kind, nvs, job, undo>> /\ undo.phase \notin {"importing", "restoring"}
    BY <1>3 DEF BootSeed, Undone
  <2> QED BY <2>1, NoUndoKeeps, QuietKeepsUndone
<1>4. CASE BootEnds
  BY <1>4, UpKeepsUndone
<1>5. CASE Crash
  BY <1>5, CrashKeepsUndone
<1>6. CASE UNCHANGED vars
  BY <1>6, QuietKeepsUndone DEF vars
<1> QED BY <1>1, <1>2, <1>3, <1>4, <1>5, <1>6 DEF Next

----------------------------------------------------------------------------
(***************************************************************************)
(* The theorems                                                            *)
(***************************************************************************)
IInv ==
    /\ Types
    /\ Room
    /\ Alone
    /\ ListInvariant
    /\ Undone

\* A board that is off has no save on its way, and stores what it may.
LEMMA InitHolds == Init => IInv
<1> SUFFICES ASSUME Init PROVE IInv
  OBVIOUS
<1>1. /\ job = [t \in Tasks |-> Idle] /\ boot = [at |-> "off", todo |-> <<>>]
      /\ allowed = {Loaded} /\ undo = NoUndo
  BY DEF Init
<1>2. Types /\ Room /\ ~Clashing(Loaded)
  BY InitShape
<1>3. \A t \in Tasks : job[t].pc = "idle" /\ ~ListBusy(t)
  BY <1>1 DEF ListBusy, Idle
<1>4. Alone
  BY <1>1, <1>3 DEF Alone, Tasks
<1>5. Loaded \in Lists
  BY <1>2, LoadedIsList
<1>6. ListInvariant
  BY <1>1, <1>2, <1>3, <1>5 DEF ListInvariant, Whole
<1>8. Undone
  BY <1>1 DEF Undone, Undos, NoUndo
<1> QED BY <1>2, <1>4, <1>6, <1>8 DEF IInv

\* The invariant is inductive.
LEMMA NextKeeps == IInv /\ [Next]_vars => IInv'
<1> SUFFICES ASSUME IInv, [Next]_vars PROVE IInv'
  OBVIOUS
<1>1. Types /\ Room /\ Alone /\ ListInvariant /\ Undone
  BY DEF IInv
<1>2. Types' /\ Room'
  BY <1>1, StepKeepsShape
<1>3. Alone'
  BY <1>1, StepKeepsAlone
<1>4. ListInvariant'
  BY <1>1, StepKeepsList
<1>6. Undone'
  BY <1>1, StepKeepsUndone
<1> QED BY <1>2, <1>3, <1>4, <1>6 DEF IInv

\* What a save cut short at any key leaves in NVS, for lists, chunks and
\* numbers of edits of any size (saveCameras, saveTelegramUsers, saveChunked,
\* applyConfigImport).
THEOREM ListStoreInvariant == Spec => []IInv
<1>1. Init => IInv
  BY InitHolds
<1>2. IInv /\ [Next]_vars => IInv'
  BY NextKeeps
<1> QED BY <1>1, <1>2, PTL DEF Spec

\* As long as lists fit one chunk and are of the current version, a reset or
\* a refused write at any point of a save leaves the list as it was or as it
\* was to be, and no task's save undoes another's.
THEOREM ListsAreWhole == Spec => []SavesAreWhole
<1>1. IInv => SavesAreWhole
  BY UntornIsGood DEF IInv, SavesAreWhole
<1> QED BY <1>1, ListStoreInvariant, PTL

\* No two stored records share a name, or two users a chat id, whatever is
\* added, renamed, imported or restored (addCamera, updateCamera,
\* addTelegramUser, updateTelegramUser, parseConfigImport).
THEOREM KeysStayUnique == Spec => []KeysAreUnique
<1>1. IInv => KeysAreUnique
  BY UntornIsGood DEF IInv, KeysAreUnique
<1> QED BY <1>1, ListStoreInvariant, PTL

\* Importing the backup that an import left brings back the list as it was,
\* if nothing failed and nobody edited meanwhile (applyConfigImport).
THEOREM BackupUndoesImport == Spec => []RestoreUndoesImport
<1>1. IInv => RestoreUndoesImport
  <2> SUFFICES ASSUME IInv, undo.phase = "restored" PROVE Loaded = undo.list
    BY DEF RestoreUndoesImport
  <2>1. /\ undo \in Undos /\ Sorted(undo.list) /\ Restored(nvs, undo.list)
    BY DEF IInv, Undone
  <2>2. undo.list \in Seq(Rec)
    BY <2>1, PhaseMoves DEF Lists
  <2>3. Loaded = ByName(undo.list)
    BY <2>1, <2>2, ListLoads DEF Restored
  <2>4. ByName(undo.list) = undo.list
    BY <2>1, <2>2, ByNameFacts DEF Restored
  <2> QED BY <2>3, <2>4
<1> QED BY <1>1, ListStoreInvariant, PTL

\* Two saves under the mutex never overlap, whatever was torn before: the
\* second starts when the first is through with its last key
\* (g_camerasMutex in addCamera, updateCamera, deleteCamera and the others).
THEOREM LockedSavesExclude ==
    Spec => [](\A t, u \in Tasks :
                 /\ ListBusy(t) /\ job[t].locked
                 /\ ListBusy(u) /\ job[u].locked
                 => t = u)
<1>1. IInv => \A t, u \in Tasks :
                 /\ ListBusy(t) /\ job[t].locked
                 /\ ListBusy(u) /\ job[u].locked
                 => t = u
  BY DEF IInv, Alone
<1> QED BY <1>1, ListStoreInvariant, PTL

----------------------------------------------------------------------------
(***************************************************************************)
(* The record formats.  A reader is strict about the number of fields, and *)
(* what it says of a text follows from two facts: it takes the fields of   *)
(* the layout in their order, and a field reads back what it was written   *)
(* as.                                                                     *)
(***************************************************************************)
\* Where a reader finds a field: its first place in a sequence, or 0.
PlaceIn(seq, f) == SelectInSeq(seq, LAMBDA g : g = f)

\* The place of a field in a sequence where it stands once.
LEMMA PlaceOf ==
    ASSUME NEW seq, NEW f, Len(seq) \in Nat, NEW k \in 1..Len(seq), seq[k] = f,
           \A i \in 1..Len(seq) : seq[i] = f => i = k
    PROVE  PlaceIn(seq, f) = k
<1> DEFINE at == {i \in 1..Len(seq) : seq[i] = f}
<1>1. at = {k}
  OBVIOUS
<1>2. SelectInSeq(seq, LAMBDA g : g = f) = Min({k})
  BY <1>1 DEF SelectInSeq
<1> QED BY <1>2 DEF Min, PlaceIn

\* A field that is not in a sequence has the place 0.
LEMMA NoPlaceOf ==
    ASSUME NEW seq, NEW f, \A i \in 1..Len(seq) : seq[i] # f
    PROVE  PlaceIn(seq, f) = 0
BY DEF SelectInSeq, PlaceIn

\* A sequence of fields each of which stands at one place.
OfFields(seq, n) ==
    /\ Len(seq) = n /\ DOMAIN seq = 1..n
    /\ \A i, j \in 1..n : seq[i] = seq[j] => i = j

LEMMA CameraLayoutFacts == OfFields(CameraLayout, 29)
<1>1. Len(CameraLayout) = 29 /\ DOMAIN CameraLayout = 1..29
  BY DEF CameraLayout
<1>2. \A i, j \in 1..29 : CameraLayout[i] = CameraLayout[j] => i = j
  BY SMTT(60) DEF CameraLayout
<1> QED BY <1>1, <1>2 DEF OfFields

LEMMA UserLayoutFacts == OfFields(UserLayout, 12)
<1>1. Len(UserLayout) = 12 /\ DOMAIN UserLayout = 1..12
  BY DEF UserLayout
<1>2. \A i, j \in 1..12 : UserLayout[i] = UserLayout[j] => i = j
  BY SMTT(60) DEF UserLayout
<1> QED BY <1>1, <1>2 DEF OfFields

LEMMA NetworkLayoutFacts == OfFields(NetworkLayout, 11)
<1>1. Len(NetworkLayout) = 11 /\ DOMAIN NetworkLayout = 1..11
  BY DEF NetworkLayout
<1>2. \A i, j \in 1..11 : NetworkLayout[i] = NetworkLayout[j] => i = j
  BY SMTT(60) DEF NetworkLayout
<1> QED BY <1>1, <1>2 DEF OfFields

\* A reader takes the fields of the layout in their order, up to some place.
Reads(reader, layout, size) ==
    /\ Len(reader) = size /\ DOMAIN reader = 1..size
    /\ \A k \in 1..size : reader[k] = layout[k]

\* Versions only ever appended fields to a camera.
LEMMA CameraReaders ==
    /\ Reads(CameraReader(0), CameraLayout, 14)
    /\ Reads(CameraReader(1), CameraLayout, 14)
    /\ Reads(CameraReader(2), CameraLayout, 19)
    /\ Reads(CameraReader(3), CameraLayout, 20)
    /\ Reads(CameraReader(4), CameraLayout, 22)
    /\ Reads(CameraReader(5), CameraLayout, 24)
    /\ Reads(CameraReader(6), CameraLayout, 26)
    /\ Reads(CameraReader(7), CameraLayout, 28)
    /\ Reads(CameraReader(8), CameraLayout, 29)
    /\ CameraReader(99) = CameraReader(8)
<1> USE DEF CameraLayout, CameraV0, CameraV1, CameraV2, CameraV3, CameraV4,
            CameraV5, CameraV6, CameraV7, CameraV8
<1>1. Reads(CameraV0, CameraLayout, 14) /\ Reads(CameraV1, CameraLayout, 14)
  BY SMTT(60) DEF Reads
<1>2. Reads(CameraV2, CameraLayout, 19) /\ Reads(CameraV3, CameraLayout, 20)
  BY SMTT(60) DEF Reads
<1>3. Reads(CameraV4, CameraLayout, 22)
  BY SMTT(60) DEF Reads
<1>4. Reads(CameraV5, CameraLayout, 24)
  BY SMTT(60) DEF Reads
<1>5. Reads(CameraV6, CameraLayout, 26)
  BY SMTT(60) DEF Reads
<1>6. Reads(CameraV7, CameraLayout, 28)
  BY SMTT(60) DEF Reads
<1>7. Reads(CameraV8, CameraLayout, 29)
  BY SMTT(60) DEF Reads
<1> HIDE DEF CameraLayout, CameraV0, CameraV1, CameraV2, CameraV3, CameraV4,
             CameraV5, CameraV6, CameraV7, CameraV8
<1>8. /\ CameraReader(0) = CameraV0 /\ CameraReader(1) = CameraV1
      /\ CameraReader(2) = CameraV2 /\ CameraReader(3) = CameraV3
      /\ CameraReader(4) = CameraV4 /\ CameraReader(5) = CameraV5
      /\ CameraReader(6) = CameraV6 /\ CameraReader(7) = CameraV7
      /\ CameraReader(8) = CameraV8 /\ CameraReader(99) = CameraV8
  BY DEF CameraReader
<1> QED BY <1>1, <1>2, <1>3, <1>4, <1>5, <1>6, <1>7, <1>8

\* Nor to a user.
LEMMA UserReaders ==
    /\ Reads(UserReader(0), UserLayout, 7)
    /\ Reads(UserReader(1), UserLayout, 7)
    /\ Reads(UserReader(2), UserLayout, 8)
    /\ Reads(UserReader(3), UserLayout, 9)
    /\ Reads(UserReader(4), UserLayout, 10)
    /\ Reads(UserReader(5), UserLayout, 11)
    /\ Reads(UserReader(6), UserLayout, 12)
    /\ UserReader(99) = UserReader(6)
<1> USE DEF UserLayout, UserV0, UserV1, UserV2, UserV3, UserV4, UserV5, UserV6
<1>1. Reads(UserV0, UserLayout, 7) /\ Reads(UserV1, UserLayout, 7)
  BY SMTT(60) DEF Reads
<1>2. Reads(UserV2, UserLayout, 8) /\ Reads(UserV3, UserLayout, 9)
  BY SMTT(60) DEF Reads
<1>3. Reads(UserV4, UserLayout, 10) /\ Reads(UserV5, UserLayout, 11)
  BY SMTT(60) DEF Reads
<1>4. Reads(UserV6, UserLayout, 12)
  BY SMTT(60) DEF Reads
<1> HIDE DEF UserLayout, UserV0, UserV1, UserV2, UserV3, UserV4, UserV5, UserV6
<1>5. /\ UserReader(0) = UserV0 /\ UserReader(1) = UserV1
      /\ UserReader(2) = UserV2 /\ UserReader(3) = UserV3
      /\ UserReader(4) = UserV4 /\ UserReader(5) = UserV5
      /\ UserReader(6) = UserV6 /\ UserReader(99) = UserV6
  BY DEF UserReader
<1> QED BY <1>1, <1>2, <1>3, <1>4, <1>5

\* Every kind's layout and its versions' readers.
LEMMA ReadersFollowLayout ==
    ASSUME NEW kin \in DOMAIN Layouts, NEW version \in Versions[kin]
    PROVE  \E n \in Nat : \E size \in 0..n :
             /\ OfFields(Layouts[kin], n)
             /\ Reads(Reader(kin, version), Layouts[kin], size)
             /\ Reads(Reader(kin, 99), Layouts[kin], n)
             /\ version = 0 => size >= Unversioned(kin)
             /\ version \in Nat
<1>1. kin \in {"camera", "user", "network"}
  BY DEF Layouts
<1>2. CASE kin = "camera"
  <2>1. /\ Layouts[kin] = CameraLayout /\ Unversioned(kin) = 11
        /\ version \in 0..8
        /\ \A v \in Nat : Reader(kin, v) = CameraReader(v)
    BY <1>2 DEF Layouts, Versions, Reader, Unversioned
  <2>2. \E size \in 11..29 : Reads(CameraReader(version), CameraLayout, size)
    <3>1. CASE version = 0
      <4>1. Reads(CameraReader(0), CameraLayout, 14)
        BY CameraReaders
      <4> QED BY <3>1, <4>1
    <3>2. CASE version = 1
      <4>1. Reads(CameraReader(1), CameraLayout, 14)
        BY CameraReaders
      <4> QED BY <3>2, <4>1
    <3>3. CASE version = 2
      <4>1. Reads(CameraReader(2), CameraLayout, 19)
        BY CameraReaders
      <4> QED BY <3>3, <4>1
    <3>4. CASE version = 3
      <4>1. Reads(CameraReader(3), CameraLayout, 20)
        BY CameraReaders
      <4> QED BY <3>4, <4>1
    <3>5. CASE version = 4
      <4>1. Reads(CameraReader(4), CameraLayout, 22)
        BY CameraReaders
      <4> QED BY <3>5, <4>1
    <3>6. CASE version = 5
      <4>1. Reads(CameraReader(5), CameraLayout, 24)
        BY CameraReaders
      <4> QED BY <3>6, <4>1
    <3>7. CASE version = 6
      <4>1. Reads(CameraReader(6), CameraLayout, 26)
        BY CameraReaders
      <4> QED BY <3>7, <4>1
    <3>8. CASE version = 7
      <4>1. Reads(CameraReader(7), CameraLayout, 28)
        BY CameraReaders
      <4> QED BY <3>8, <4>1
    <3>9. CASE version = 8
      <4>1. Reads(CameraReader(8), CameraLayout, 29)
        BY CameraReaders
      <4> QED BY <3>9, <4>1
    <3> QED BY <2>1, <3>1, <3>2, <3>3, <3>4, <3>5, <3>6, <3>7, <3>8, <3>9
  <2>3. PICK size \in 11..29 : Reads(CameraReader(version), CameraLayout, size)
    BY <2>2
  <2>4. Reads(CameraReader(99), CameraLayout, 29)
    BY CameraReaders
  <2>5. Reader(kin, version) = CameraReader(version) /\ Reader(kin, 99) = CameraReader(99)
    BY <2>1
  <2> QED BY <2>1, <2>3, <2>4, <2>5, CameraLayoutFacts
<1>3. CASE kin = "user"
  <2>1. /\ Layouts[kin] = UserLayout /\ Unversioned(kin) = 6
        /\ version \in 0..6
        /\ \A v \in Nat : Reader(kin, v) = UserReader(v)
    BY <1>3 DEF Layouts, Versions, Reader, Unversioned
  <2>2. \E size \in 6..12 : Reads(UserReader(version), UserLayout, size)
    <3>1. CASE version = 0
      <4>1. Reads(UserReader(0), UserLayout, 7)
        BY UserReaders
      <4> QED BY <3>1, <4>1
    <3>2. CASE version = 1
      <4>1. Reads(UserReader(1), UserLayout, 7)
        BY UserReaders
      <4> QED BY <3>2, <4>1
    <3>3. CASE version = 2
      <4>1. Reads(UserReader(2), UserLayout, 8)
        BY UserReaders
      <4> QED BY <3>3, <4>1
    <3>4. CASE version = 3
      <4>1. Reads(UserReader(3), UserLayout, 9)
        BY UserReaders
      <4> QED BY <3>4, <4>1
    <3>5. CASE version = 4
      <4>1. Reads(UserReader(4), UserLayout, 10)
        BY UserReaders
      <4> QED BY <3>5, <4>1
    <3>6. CASE version = 5
      <4>1. Reads(UserReader(5), UserLayout, 11)
        BY UserReaders
      <4> QED BY <3>6, <4>1
    <3>7. CASE version = 6
      <4>1. Reads(UserReader(6), UserLayout, 12)
        BY UserReaders
      <4> QED BY <3>7, <4>1
    <3> QED BY <2>1, <3>1, <3>2, <3>3, <3>4, <3>5, <3>6, <3>7
  <2>3. PICK size \in 6..12 : Reads(UserReader(version), UserLayout, size)
    BY <2>2
  <2>4. Reads(UserReader(99), UserLayout, 12)
    BY UserReaders
  <2>5. Reader(kin, version) = UserReader(version) /\ Reader(kin, 99) = UserReader(99)
    BY <2>1
  <2> QED BY <2>1, <2>3, <2>4, <2>5, UserLayoutFacts
<1>4. CASE kin = "network"
  <2>1. /\ Layouts[kin] = NetworkLayout /\ version = 1
        /\ Reader(kin, version) = NetworkV1 /\ Reader(kin, 99) = NetworkV1
    BY <1>4 DEF Layouts, Versions, Reader
  <2>2. Reads(NetworkV1, NetworkLayout, 11)
    BY DEF Reads, NetworkV1, NetworkLayout
  <2> QED BY <2>1, <2>2, NetworkLayoutFacts
<1> QED BY <1>1, <1>2, <1>3, <1>4

\* The values a field can hold: any text; a number of the sample, a language
\* that there is; a flag.
FieldHolds(f, value) ==
    \/ f \in Texts
    \/ f \in Numbers /\ f # "language" /\ value \in 0..2
    \/ f = "language" /\ value \in 0..1
    \/ f \notin Texts \cup Numbers /\ value \in BOOLEAN

\* What a field was written as is read back as it was.
LEMMA FieldReadsBack ==
    ASSUME NEW f, NEW value, FieldHolds(f, value)
    PROVE  ReadBack(f, Written(f, value)) = value
<1>0. /\ Texts \cap Numbers = {} /\ Texts \cap OptOut = {}
      /\ Numbers \cap OptOut = {} /\ "language" \in Numbers
  BY DEF Texts, Numbers, OptOut
<1>1. CASE f \in Texts
  <2>1. f \notin Numbers \cup OptOut
    BY <1>0, <1>1
  <2>2. Written(f, value) = value
    BY <1>1, <2>1 DEF Written
  <2>3. ReadBack(f, value) = value
    BY <1>0, <1>1, <2>1 DEF ReadBack
  <2> QED BY <2>2, <2>3
<1>2. CASE f \in Numbers /\ value \in 0..2
  <2>1. f \notin Texts
    BY <1>0, <1>2
  <2>2. Written(f, value) = Digits[value + 1]
    BY <2>1, <1>2 DEF Written
  <2>3. /\ Digits[1] = "0" /\ Digits[2] = "1" /\ Digits[3] = "2" /\ Len(Digits) = 3
    BY DEF Digits
  <2>4. Digits[value + 1] # ""
    <3>1. value = 0 \/ value = 1 \/ value = 2
      BY <1>2
    <3>2. Digits[value + 1] \in {"0", "1", "2"}
      BY <3>1, <2>3
    <3> QED BY <3>2
  <2>5. SelectInSeq(Digits, LAMBDA d : d = Digits[value + 1]) = value + 1
    <3>1. value + 1 \in 1..Len(Digits) /\ Len(Digits) \in Nat
      BY <1>2, <2>3
    <3>2. \A i \in 1..Len(Digits) : Digits[i] = Digits[value + 1] => i = value + 1
      BY <1>2, <2>3
    <3> QED BY <3>1, <3>2, PlaceOf DEF PlaceIn
  <2>6. CASE f # "language"
    <3>1. ReadBack(f, Digits[value + 1]) = SelectInSeq(Digits, LAMBDA d : d = Digits[value + 1]) - 1
      BY <2>1, <2>4, <2>6, <1>2 DEF ReadBack
    <3> QED BY <3>1, <2>2, <2>5, <1>2
  <2>7. CASE f = "language"
    <3>1. value \in 0..1
      BY <2>7, <1>0, <2>1 DEF FieldHolds
    <3>2. ReadBack(f, Digits[value + 1]) = IF Digits[value + 1] = "1" THEN 1 ELSE 0
      BY <2>1, <2>4, <2>7, <1>2 DEF ReadBack
    <3> QED BY <3>1, <3>2, <2>2, <2>3
  <2> QED BY <2>6, <2>7
<1>3. CASE f \notin Texts \cup Numbers /\ value \in BOOLEAN
  <2>1. Written(f, value) = IF value THEN "1" ELSE "0"
    BY <1>3 DEF Written
  <2>2. f # "language"
    BY <1>0, <1>3
  <2>3. ReadBack(f, Written(f, value)) = (Written(f, value) = "1")
    <3>1. Written(f, value) # ""
      BY <2>1
    <3> QED BY <3>1, <1>3, <2>2, Zenon DEF ReadBack
  <2> QED BY <2>1, <2>3, <1>3
<1> QED BY <1>0, <1>1, <1>2, <1>3 DEF FieldHolds

\* Any record that a kind's fields can hold, written by the current layout and
\* cut to the fields some earlier version had, is read by that version's
\* reader as the record, with the defaults for the fields added since.
THEOREM RecordReadsBack ==
    ASSUME NEW kin \in DOMAIN Layouts, NEW version \in Versions[kin], NEW record,
           \A f \in Range(Layouts[kin]) : FieldHolds(f, record[f])
    PROVE  LET layout == Layouts[kin]
               size == Len(Reader(kin, version))
           IN Deserialize(kin, version, SubSeq(Serialize(layout, record), 1, size)) =
                [f \in Range(layout) |->
                    IF SelectInSeq(layout, LAMBDA g : g = f) <= size
                    THEN record[f] ELSE Fallback(f)]
<1> DEFINE layout == Layouts[kin]
           reader == Reader(kin, version)
           size == Len(reader)
           text == Serialize(layout, record)
           fields == SubSeq(text, 1, size)
<1>1. PICK n \in Nat : \E m \in 0..n :
         /\ OfFields(layout, n)
         /\ Reads(reader, layout, m)
         /\ Reads(Reader(kin, 99), layout, n)
  BY ReadersFollowLayout
<1>2. /\ size \in 0..n /\ size \in Nat
      /\ Len(layout) = n /\ DOMAIN layout = 1..n
      /\ \A i, j \in 1..n : layout[i] = layout[j] => i = j
      /\ \A k \in 1..size : reader[k] = layout[k]
  BY <1>1 DEF OfFields, Reads
<1>3. Range(Reader(kin, 99)) = Range(layout)
  <2> DEFINE newest == Reader(kin, 99)
  <2>1. DOMAIN newest = 1..n /\ \A k \in 1..n : newest[k] = layout[k]
    BY <1>1 DEF Reads
  <2>2. Range(newest) = {newest[k] : k \in 1..n} /\ Range(layout) = {layout[k] : k \in 1..n}
    BY <2>1, <1>2, Zenon DEF Range
  <2> HIDE DEF newest, layout
  <2>3. Range(newest) = Range(layout)
    BY <2>1, <2>2
  <2> QED BY <2>3 DEF newest
<1>4. ASSUME NEW k \in 1..size
      PROVE  fields[k] = Written(layout[k], record[layout[k]])
  <2>1. text[k] = Written(layout[k], record[layout[k]])
    BY <1>2 DEF Serialize
  <2>2. fields[k] = text[k]
    <3> DEFINE S == {text[i] : i \in 1..n}
    <3>1. \A i \in 1..size : text[i] \in S
      BY <1>2
    <3> HIDE DEF S, text, size
    <3> QED BY <3>1, <1>2, SubSeqProperties
  <2> QED BY <2>1, <2>2
<1>5. Len(fields) = size
  <2> DEFINE S == {text[i] : i \in 1..n}
  <2>1. \A i \in 1..size : text[i] \in S
    BY <1>2
  <2> HIDE DEF S, text, size
  <2> QED BY <2>1, <1>2, SubSeqProperties
<1>6. ASSUME NEW k \in 1..n
      PROVE  /\ PlaceIn(layout, layout[k]) = k
             /\ PlaceIn(reader, layout[k]) = IF k <= size THEN k ELSE 0
  <2> HIDE DEF layout, reader
  <2>1. PlaceIn(layout, layout[k]) = k
    BY <1>2, PlaceOf
  <2>2. CASE k <= size
    <3>1. PlaceIn(reader, layout[k]) = k
      <4>1. k \in 1..Len(reader) /\ Len(reader) \in Nat /\ reader[k] = layout[k]
        BY <2>2, <1>2 DEF size
      <4>2. \A i \in 1..Len(reader) : reader[i] = layout[k] => i = k
        BY <2>2, <1>2 DEF size
      <4> QED BY <4>1, <4>2, PlaceOf
    <3> QED BY <2>1, <2>2, <3>1
  <2>3. CASE ~(k <= size)
    <3>1. \A i \in 1..Len(reader) : reader[i] # layout[k]
      BY <2>3, <1>2 DEF size
    <3> QED BY <2>1, <2>3, <3>1, NoPlaceOf
  <2> QED BY <2>1, <2>2, <2>3
<1>7. ASSUME NEW k \in 1..n
      PROVE  (IF PlaceIn(reader, layout[k]) \in 1..Len(fields)
              THEN ReadBack(layout[k], fields[PlaceIn(reader, layout[k])])
              ELSE Fallback(layout[k])) =
             (IF PlaceIn(layout, layout[k]) <= size
              THEN record[layout[k]] ELSE Fallback(layout[k]))
  <2>1. CASE k <= size
    <3>1. PlaceIn(reader, layout[k]) = k /\ k \in 1..size /\ PlaceIn(layout, layout[k]) = k
      BY <1>6, <2>1, <1>2
    <3>2. FieldHolds(layout[k], record[layout[k]])
      BY <1>2 DEF Range
    <3>3. ReadBack(layout[k], fields[k]) = record[layout[k]]
      BY <3>1, <3>2, <1>4, FieldReadsBack
    <3> HIDE DEF layout, reader, fields, size
    <3> QED BY <3>1, <3>3, <1>5, <2>1
  <2>2. CASE ~(k <= size)
    <3>1. PlaceIn(reader, layout[k]) = 0 /\ PlaceIn(layout, layout[k]) = k
      BY <1>6, <2>2
    <3> HIDE DEF layout, reader, fields, size
    <3> QED BY <3>1, <1>2, <1>5, <2>2
  <2> QED BY <2>1, <2>2
<1>8. Deserialize(kin, version, fields) =
        [f \in Range(layout) |->
            IF PlaceIn(reader, f) \in 1..Len(fields)
            THEN ReadBack(f, fields[PlaceIn(reader, f)]) ELSE Fallback(f)]
  BY <1>3 DEF Deserialize, PlaceIn
<1>9. \A f \in Range(layout) : \E k \in 1..n : f = layout[k]
  BY <1>2 DEF Range
<1> HIDE DEF layout, reader, fields, size
<1>10. [f \in Range(layout) |->
            IF PlaceIn(reader, f) \in 1..Len(fields)
            THEN ReadBack(f, fields[PlaceIn(reader, f)]) ELSE Fallback(f)] =
       [f \in Range(layout) |->
            IF PlaceIn(layout, f) <= size THEN record[f] ELSE Fallback(f)]
  BY <1>7, <1>9
<1> QED BY <1>8, <1>10 DEF PlaceIn, layout, reader, fields, size

\* The sampled records are such.
LEMMA SampledRecords ==
    ASSUME NEW layout, NEW record \in Samples(layout), NEW f \in Range(layout)
    PROVE  FieldHolds(f, record[f])
<1>1. record[f] = Fallback(f) \/ record[f] = Other(f)
  BY DEF Samples
<1>2. Texts \cap Numbers = {} /\ "language" \in Numbers
  BY DEF Texts, Numbers
<1>3. FieldHolds(f, Fallback(f)) /\ FieldHolds(f, Other(f))
  <2>1. CASE f \in Texts
    BY <2>1 DEF FieldHolds
  <2>2. CASE f \in Numbers
    <3>1. Fallback(f) = 0 /\ Other(f) = 1
      BY <1>2, <2>2 DEF Fallback, Other
    <3> QED BY <2>2, <3>1 DEF FieldHolds
  <2>3. CASE f \notin Texts \cup Numbers
    <3>1. Fallback(f) \in BOOLEAN /\ Other(f) \in BOOLEAN
      <4>1. Fallback(f) = (f \in OnByDefault) /\ Other(f) = (f \notin OnByDefault)
        BY <2>3, Zenon DEF Fallback, Other
      <4> QED BY <4>1
    <3> QED BY <2>3, <3>1 DEF FieldHolds
  <2> QED BY <2>1, <2>2, <2>3
<1> QED BY <1>1, <1>3

\* No reader but the oldest takes a text of another length than its own.
LEMMA ReadersAreStrict ==
    ASSUME NEW kin \in DOMAIN Layouts, NEW version \in Versions[kin]
    PROVE  /\ Accepts(kin, version, Len(Reader(kin, version)))
           /\ \A fields : version > 0 /\ fields # Len(Reader(kin, version))
                            => ~Accepts(kin, version, fields)
<1>1. version \in Nat /\ (version = 0 => Len(Reader(kin, version)) >= Unversioned(kin))
  BY ReadersFollowLayout DEF Reads
<1> QED BY <1>1 DEF Accepts

\* deserializeCamera, deserializeUser and their network counterpart read what
\* any earlier version wrote.
LEMMA VersionsRead == EveryVersionReads
<1>1. ASSUME NEW kin \in DOMAIN Layouts, NEW version \in Versions[kin],
             NEW record \in Samples(Layouts[kin])
      PROVE  Deserialize(kin, version, SubSeq(Serialize(Layouts[kin], record), 1,
                                              Len(Reader(kin, version)))) =
                [f \in Range(Layouts[kin]) |->
                    IF SelectInSeq(Layouts[kin], LAMBDA g : g = f)
                         <= Len(Reader(kin, version))
                    THEN record[f] ELSE Fallback(f)]
  BY SampledRecords, RecordReadsBack
<1> QED BY <1>1, ReadersAreStrict DEF EveryVersionReads

\* A list written by an older firmware is never lost, nor a setting of it,
\* when this one first boots on it.
THEOREM OldRecordsStayReadable == Spec => []RecordsUpgrade
<1>1. RecordsUpgrade
  BY VersionsRead DEF RecordsUpgrade
<1> QED BY <1>1, PTL

----------------------------------------------------------------------------
(***************************************************************************)
(* The forms of a camera and of a user.  The clamps of each number are     *)
(* sound, so a number that was stored is shown as what stores it again; a  *)
(* time and a checkbox likewise, and a password is kept when left blank.   *)
(***************************************************************************)
\* What the clamps of a number must be for its field to hold what they let
\* through, and for a value that was stored to be taken again.
SoundNumber(number) ==
    /\ number.scale \in {1, 1000, 60000}
    /\ number.least \in Nat /\ number.most \in Nat /\ number.default \in Nat
    /\ number.least <= number.default \div number.scale
    /\ number.default \div number.scale <= number.most
    /\ number.default % number.scale = 0
    /\ number.size = 0 \/ (number.size \in Nat /\ number.most * number.scale < number.size)
    /\ number.orDefault \in BOOLEAN
    /\ IF number.orDefault THEN number.least > 0
                           ELSE number.default = number.least * number.scale

\* Every number of both forms is such.
LEMMA NumbersSound ==
    /\ \A f \in DOMAIN CameraNumbers : SoundNumber(CameraNumbers[f])
    /\ \A f \in DOMAIN UserNumbers : SoundNumber(UserNumbers[f])
<1> DEFINE Side == Number(1, 0, 4096, 0, FALSE, 65536)
           Cooldown == Number(1000, 1, 86400, 30000, TRUE, 0)
           Threshold == Number(60000, 1, 10080, 300000, TRUE, 0)
           Burst == Number(1, 1, 10, 1, FALSE, 0)
           Poll == Number(1, 250, 30000, 2000, TRUE, 0)
           Watchdog == Number(1, 0, 168, 0, FALSE, 65536)
           Timelapse == Number(1, 0, 1440, 0, FALSE, 65536)
           Retention == Number(1, 0, 3650, 0, FALSE, 65536)
           Rate == Number(1, 0, 600, 0, FALSE, 65536)
<1>1. /\ SoundNumber(Side) /\ SoundNumber(Watchdog) /\ SoundNumber(Timelapse)
      /\ SoundNumber(Retention) /\ SoundNumber(Rate)
  BY DEF Number, SoundNumber
<1>2. /\ SoundNumber(Cooldown) /\ SoundNumber(Threshold)
      /\ SoundNumber(Burst) /\ SoundNumber(Poll)
  BY DEF Number, SoundNumber
<1>3. /\ DOMAIN CameraNumbers =
           {"snapshotMaxWidth", "snapshotMaxHeight", "alertCooldownMs",
            "offlineThresholdMs", "snapshotBurstCount", "pollIntervalMs",
            "motionWatchdogHours", "timelapseIntervalMin", "retentionDays"}
      /\ DOMAIN UserNumbers = {"maxCommandsPerMinute"}
  BY DEF CameraNumbers, UserNumbers
<1>4. /\ CameraNumbers["snapshotMaxWidth"] = Side
      /\ CameraNumbers["snapshotMaxHeight"] = Side
      /\ CameraNumbers["alertCooldownMs"] = Cooldown
      /\ CameraNumbers["offlineThresholdMs"] = Threshold
      /\ CameraNumbers["snapshotBurstCount"] = Burst
      /\ CameraNumbers["pollIntervalMs"] = Poll
      /\ CameraNumbers["motionWatchdogHours"] = Watchdog
      /\ CameraNumbers["timelapseIntervalMin"] = Timelapse
      /\ CameraNumbers["retentionDays"] = Retention
  BY DEF CameraNumbers
<1>5. UserNumbers["maxCommandsPerMinute"] = Rate
  BY DEF UserNumbers
<1> HIDE DEF Side, Cooldown, Threshold, Burst, Poll, Watchdog, Timelapse,
             Retention, Rate
<1>6. \A f \in DOMAIN CameraNumbers : SoundNumber(CameraNumbers[f])
  BY <1>1, <1>2, <1>3, <1>4, Zenon
<1>7. \A f \in DOMAIN UserNumbers : SoundNumber(UserNumbers[f])
  BY <1>1, <1>3, <1>5, Zenon
<1> QED BY <1>6, <1>7, Zenon

\* Whole units of a scale are shown as they were typed.
LEMMA ScaleShown ==
    ASSUME NEW s \in {1, 1000, 60000}, NEW n \in Nat
    PROVE  (n * s) \div s = n /\ n * s \in Nat
<1>1. CASE s = 1
  BY <1>1
<1>2. CASE s = 1000
  BY <1>2
<1>3. CASE s = 60000
  BY <1>3
<1> QED BY <1>1, <1>2, <1>3

\* A remainder modulo a size that exceeds the value changes nothing.
LEMMA FitsField ==
    ASSUME NEW x \in Nat, NEW m \in Nat, x < m
    PROVE  x % m = x
OBVIOUS

\* Units within the clamps pass them, and their value fits the field.
LEMMA UnitsFit ==
    ASSUME NEW number, SoundNumber(number), NEW n \in number.least..number.most
    PROVE  /\ Clamped(number, n) = n
           /\ n * number.scale \in Nat /\ (n * number.scale) \div number.scale = n
           /\ number.size # 0 => (n * number.scale) % number.size = n * number.scale
<1> DEFINE s == number.scale
<1>1. n \in Nat /\ n <= number.most /\ s \in {1, 1000, 60000}
  BY DEF SoundNumber
<1>2. n * s \in Nat /\ (n * s) \div s = n
  BY <1>1, ScaleShown
<1>3. Clamped(number, n) = n
  BY <1>1 DEF Clamped, SoundNumber
<1>4. n * s <= number.most * s
  <2>1. CASE s = 1
    BY <1>1, <2>1 DEF SoundNumber
  <2>2. CASE s = 1000
    BY <1>1, <2>2 DEF SoundNumber
  <2>3. CASE s = 60000
    BY <1>1, <2>3 DEF SoundNumber
  <2> QED BY <1>1, <2>1, <2>2, <2>3
<1>5. ASSUME number.size # 0 PROVE (n * s) % number.size = n * s
  <2>1. number.size \in Nat /\ number.most * s < number.size
    BY <1>5 DEF SoundNumber
  <2>2. number.most * s \in Nat
    BY ScaleShown, <1>1 DEF SoundNumber
  <2>3. n * s < number.size
    BY <1>2, <1>4, <2>1, <2>2
  <2> QED BY <1>2, <2>1, <2>3, FitsField
<1> QED BY <1>2, <1>3, <1>5

\* A value the form can store is stored again from what is shown of it.
LEMMA FormValueKept ==
    ASSUME NEW number, SoundNumber(number), NEW value \in FormValues(number)
    PROVE  ParseNumber(number, Shown(number, value)) = value
<1>1. PICK n \in number.least..number.most : value = n * number.scale
  BY DEF FormValues
<1>2. n \in Int /\ (number.orDefault => n > 0)
  BY <1>1 DEF SoundNumber
<1>3. Shown(number, value) = n
  BY <1>1, UnitsFit DEF Shown
<1>4. /\ Clamped(number, n) = n
      /\ number.size # 0 => value % number.size = value
  BY <1>1, UnitsFit
<1>5. ParseNumber(number, n) =
         IF number.size = 0 THEN Clamped(number, n) * number.scale
                            ELSE (Clamped(number, n) * number.scale) % number.size
  BY <1>2 DEF ParseNumber
<1> QED BY <1>1, <1>3, <1>4, <1>5

\* Whatever is typed is stored as so many units within the clamps; a blank
\* stores the default; and typing what is shown stores the same again.
LEMMA NumberKept ==
    ASSUME NEW number, SoundNumber(number), NEW typed \in Int
    PROVE  LET stored == ParseNumber(number, typed)
           IN /\ \E n \in number.least..number.most :
                   n * number.scale = stored /\ Shown(number, stored) = n
              /\ typed <= 0 => stored = number.default
              /\ Shown(number, stored) \in Int
              /\ ParseNumber(number, Shown(number, stored)) = stored
<1> DEFINE s == number.scale
           d == Shown(number, number.default)
           Unit(n) == Clamped(number, n) * s
<1>1. d \in number.least..number.most /\ d * s = number.default
  <2>1. CASE s = 1
    BY <2>1 DEF SoundNumber, Shown
  <2>2. CASE s = 1000
    BY <2>2 DEF SoundNumber, Shown
  <2>3. CASE s = 60000
    BY <2>3 DEF SoundNumber, Shown
  <2> QED BY <2>1, <2>2, <2>3 DEF SoundNumber
<1>2. ASSUME NEW n \in number.least..number.most
      PROVE  /\ Clamped(number, n) = n
             /\ n * s \in Nat /\ (n * s) \div s = n
             /\ number.size # 0 => (n * s) % number.size = n * s
  BY UnitsFit
<1>3. ASSUME NEW v \in Int
      PROVE  Clamped(number, v) \in number.least..number.most
  <2>1. number.least \in Int /\ number.most \in Int /\ number.least <= number.most
    BY <1>1 DEF SoundNumber
  <2> QED BY <2>1 DEF Clamped
<1> DEFINE Entry(t) == IF t <= 0 /\ number.orDefault THEN d ELSE t
<1>4. ASSUME NEW t \in Int
      PROVE  /\ Clamped(number, Entry(t)) \in number.least..number.most
             /\ ParseNumber(number, t) = Clamped(number, Entry(t)) * s
  <2>1. Entry(t) \in Int
    BY <1>1 DEF SoundNumber
  <2>2. Clamped(number, Entry(t)) \in number.least..number.most
    BY <2>1, <1>3
  <2> DEFINE c == Clamped(number, Entry(t))
  <2>3. number.size # 0 => (c * s) % number.size = c * s
    BY <2>2, <1>2
  <2>4. ParseNumber(number, t) =
          IF number.size = 0 THEN c * s ELSE (c * s) % number.size
    BY DEF ParseNumber
  <2> QED BY <2>2, <2>3, <2>4
<1> DEFINE n == Clamped(number, Entry(typed))
<1>5. n \in number.least..number.most /\ ParseNumber(number, typed) = n * s
  BY <1>4
<1>6. Shown(number, n * s) = n
  BY <1>5, <1>2 DEF Shown
<1>7. ASSUME typed <= 0 PROVE n * s = number.default
  <2>1. CASE number.orDefault
    <3>1. n = d
      BY <2>1, <1>7, <1>1, <1>2
    <3> QED BY <3>1, <1>1
  <2>2. CASE ~number.orDefault
    <3>1. n = number.least
      BY <2>2, <1>7, <1>1 DEF Clamped, SoundNumber
    <3> QED BY <3>1, <2>2 DEF SoundNumber
  <2> QED BY <2>1, <2>2
<1>8. ParseNumber(number, n) = n * s
  <2>1. n \in Int /\ (number.orDefault => n > 0)
    BY <1>5 DEF SoundNumber
  <2>2. Entry(n) = n
    BY <2>1
  <2> QED BY <2>1, <2>2, <1>4, <1>5, <1>2
<1>9. n \in Int
  BY <1>5 DEF SoundNumber
<1> DEFINE stored == ParseNumber(number, typed)
<1>10. stored = n * s
  BY <1>5
<1>11. \E m \in number.least..number.most :
          m * number.scale = stored /\ Shown(number, stored) = m
  <2>1. n * number.scale = stored /\ Shown(number, stored) = n
    BY <1>10, <1>6
  <2> HIDE DEF n, stored
  <2> QED BY <2>1, <1>5
<1>12. Shown(number, stored) \in Int /\ ParseNumber(number, Shown(number, stored)) = stored
  BY <1>10, <1>6, <1>8, <1>9
<1>13. typed <= 0 => stored = number.default
  BY <1>10, <1>7
<1> HIDE DEF stored
<1> QED BY <1>11, <1>12, <1>13 DEF stored

\* A time of day is shown as the hours and minutes it was typed as.
LEMMA TimeKept ==
    ASSUME NEW time
    PROVE  MinutesOf(HoursMinutes(MinutesOf(time))) = MinutesOf(time)
<1>1. ASSUME NEW h \in 0..23, NEW m \in 0..59
      PROVE  HoursMinutes(h * 60 + m) = <<h, m>>
  BY DEF HoursMinutes
<1>2. CASE time[1] \in 0..23 /\ time[2] \in 0..59
  <2>1. MinutesOf(time) = time[1] * 60 + time[2]
    BY <1>2 DEF MinutesOf
  <2>2. HoursMinutes(MinutesOf(time)) = <<time[1], time[2]>>
    BY <2>1, <1>1, <1>2
  <2>3. MinutesOf(<<time[1], time[2]>>) = MinutesOf(time)
    BY DEF MinutesOf
  <2> QED BY <2>2, <2>3
<1>3. CASE ~(time[1] \in 0..23 /\ time[2] \in 0..59)
  <2>1. MinutesOf(time) = 0
    BY <1>3 DEF MinutesOf
  <2>2. HoursMinutes(0) = <<0, 0>>
    BY <1>1
  <2>3. MinutesOf(<<0, 0>>) = 0
    BY DEF MinutesOf
  <2> QED BY <2>1, <2>2, <2>3
<1> QED BY <1>2, <1>3

CameraFields == DOMAIN CameraNumbers \cup Times \cup {"pass"}

\* Any submission of the camera form: every field but the checkboxes is
\* there, and toInt() makes a number of whatever was typed.
IsCameraSubmission(submitted) ==
    /\ CameraFields \subseteq DOMAIN submitted
    /\ DOMAIN submitted \subseteq CameraFields \cup CameraFlags
    /\ \A f \in DOMAIN CameraNumbers : submitted[f] \in Int

\* The fields of the form are told apart.
LEMMA CameraFieldsDiffer ==
    /\ DOMAIN CameraNumbers \cap Times = {}
    /\ DOMAIN CameraNumbers \cap CameraFlags = {}
    /\ CameraFlags \cap Times = {}
    /\ "pass" \notin DOMAIN CameraNumbers \cup Times \cup CameraFlags
BY DEF CameraNumbers, Times, CameraFlags

\* What a submission stores, field by field.
LEMMA ParsedCamera ==
    ASSUME NEW submitted, IsCameraSubmission(submitted)
    PROVE  LET camera == ParseCameraForm(submitted)
           IN /\ camera = [f \in CameraFields \cup CameraFlags |-> camera[f]]
              /\ \A f \in DOMAIN CameraNumbers :
                    camera[f] = ParseNumber(CameraNumbers[f], submitted[f])
              /\ \A f \in Times : camera[f] = MinutesOf(submitted[f])
              /\ camera.pass = submitted.pass
              /\ \A f \in CameraFlags : camera[f] = (f \in DOMAIN submitted)
BY CameraFieldsDiffer, Zenon DEF ParseCameraForm, Typed, IsCameraSubmission, CameraFields

\* What the edit page shows of a camera, field by field.
LEMMA ShownCamera ==
    ASSUME NEW camera
    PROVE  LET form == CameraForm(camera)
           IN /\ DOMAIN form = CameraFields \cup {g \in CameraFlags : camera[g]}
              /\ \A f \in DOMAIN CameraNumbers :
                    form[f] = Shown(CameraNumbers[f], camera[f])
              /\ \A f \in Times : form[f] = HoursMinutes(camera[f])
              /\ form.pass = ""
BY CameraFieldsDiffer, Zenon DEF CameraForm, CameraFields

\* parseCameraForm, renderCameraForm and saveCameraSubmission, for whatever is
\* typed and whatever was stored: numbers are within their fields, blanks are
\* defaults, and saving the edit page as shown changes nothing.
LEMMA CameraFormKeeps ==
    ASSUME NEW submitted, IsCameraSubmission(submitted), NEW stored
    PROVE  LET camera == SavedCamera(stored, submitted)
           IN /\ \A f \in DOMAIN CameraNumbers :
                    /\ camera[f] \in FormValues(CameraNumbers[f])
                    /\ submitted[f] <= 0 => camera[f] = CameraNumbers[f].default
              /\ SavedCamera(camera, CameraForm(camera)) = camera
<1> DEFINE parsed == ParseCameraForm(submitted)
           camera == SavedCamera(stored, submitted)
           form == CameraForm(camera)
           again == ParseCameraForm(form)
<1>1. /\ parsed = [f \in CameraFields \cup CameraFlags |-> parsed[f]]
      /\ \A f \in DOMAIN CameraNumbers :
            parsed[f] = ParseNumber(CameraNumbers[f], submitted[f])
      /\ \A f \in Times : parsed[f] = MinutesOf(submitted[f])
      /\ \A f \in CameraFlags : parsed[f] = (f \in DOMAIN submitted)
  BY ParsedCamera
<1>2. /\ camera = [f \in CameraFields \cup CameraFlags |-> camera[f]]
      /\ \A f \in (CameraFields \cup CameraFlags) \ {"pass"} : camera[f] = parsed[f]
  <2> HIDE DEF parsed
  <2> QED BY <1>1 DEF SavedCamera, parsed
<1>3. \A f \in DOMAIN CameraNumbers :
         camera[f] = ParseNumber(CameraNumbers[f], submitted[f])
  BY <1>1, <1>2, CameraFieldsDiffer DEF CameraFields
<1>4. \A f \in Times : camera[f] = MinutesOf(submitted[f])
  BY <1>1, <1>2, CameraFieldsDiffer DEF CameraFields
<1>5. \A f \in CameraFlags : camera[f] = (f \in DOMAIN submitted)
  BY <1>1, <1>2, CameraFieldsDiffer DEF CameraFields
<1>6. ASSUME NEW f \in DOMAIN CameraNumbers
      PROVE  LET number == CameraNumbers[f]
             IN /\ camera[f] \in FormValues(number)
                /\ submitted[f] <= 0 => camera[f] = number.default
                /\ Shown(number, camera[f]) \in Int
                /\ ParseNumber(number, Shown(number, camera[f])) = camera[f]
  <2>1. SoundNumber(CameraNumbers[f]) /\ submitted[f] \in Int
    BY NumbersSound DEF IsCameraSubmission
  <2> DEFINE number == CameraNumbers[f]
  <2>2. LET kept == ParseNumber(number, submitted[f])
        IN /\ \E n \in number.least..number.most :
                n * number.scale = kept /\ Shown(number, kept) = n
           /\ submitted[f] <= 0 => kept = number.default
           /\ Shown(number, kept) \in Int
           /\ ParseNumber(number, Shown(number, kept)) = kept
    <3> HIDE DEF number
    <3> QED BY <2>1, NumberKept DEF number
  <2>3. camera[f] = ParseNumber(number, submitted[f])
    BY <1>3
  <2> HIDE DEF number, camera
  <2> QED BY <2>2, <2>3 DEF number, FormValues
<1>7. /\ DOMAIN form = CameraFields \cup {g \in CameraFlags : camera[g]}
      /\ \A f \in DOMAIN CameraNumbers : form[f] = Shown(CameraNumbers[f], camera[f])
      /\ \A f \in Times : form[f] = HoursMinutes(camera[f])
      /\ form.pass = ""
  BY ShownCamera
<1>8. IsCameraSubmission(form)
  <2> HIDE DEF form, camera
  <2> QED BY <1>6, <1>7 DEF IsCameraSubmission
<1>9. /\ again = [f \in CameraFields \cup CameraFlags |-> again[f]]
      /\ \A f \in DOMAIN CameraNumbers :
            again[f] = ParseNumber(CameraNumbers[f], form[f])
      /\ \A f \in Times : again[f] = MinutesOf(form[f])
      /\ again.pass = form.pass
      /\ \A f \in CameraFlags : again[f] = (f \in DOMAIN form)
  BY <1>8, ParsedCamera
<1>10. ASSUME NEW f \in (CameraFields \cup CameraFlags) \ {"pass"}
       PROVE  again[f] = camera[f]
  <2> HIDE DEF again, form, camera
  <2>1. CASE f \in DOMAIN CameraNumbers
    <3>1. again[f] = ParseNumber(CameraNumbers[f], form[f])
      BY <2>1, <1>9, Zenon
    <3>2. form[f] = Shown(CameraNumbers[f], camera[f])
      BY <2>1, <1>7, Zenon
    <3>3. ParseNumber(CameraNumbers[f], Shown(CameraNumbers[f], camera[f])) = camera[f]
      BY <2>1, <1>6, Zenon
    <3> QED BY <3>1, <3>2, <3>3, Zenon
  <2>2. CASE f \in Times
    <3>1. again[f] = MinutesOf(form[f])
      BY <2>2, <1>9, Zenon
    <3>2. form[f] = HoursMinutes(camera[f])
      BY <2>2, <1>7, Zenon
    <3>3. camera[f] = MinutesOf(submitted[f])
      BY <2>2, <1>4, Zenon
    <3> QED BY <3>1, <3>2, <3>3, TimeKept, Zenon
  <2>3. CASE f \in CameraFlags
    <3>1. again[f] = (f \in DOMAIN form)
      BY <2>3, <1>9, Zenon
    <3>2. camera[f] = (f \in DOMAIN submitted)
      BY <2>3, <1>5, Zenon
    <3>3. f \notin CameraFields
      BY <2>3, CameraFieldsDiffer DEF CameraFields
    <3>4. f \in DOMAIN form <=> camera[f]
      BY <2>3, <3>3, <1>7, Zenon
    <3>5. f \in DOMAIN form <=> f \in DOMAIN submitted
      BY <3>2, <3>4, Zenon
    <3>6. (f \in DOMAIN form) = (f \in DOMAIN submitted)
      BY <3>5
    <3> QED BY <3>1, <3>2, <3>6, Zenon
  <2> QED BY <2>1, <2>2, <2>3 DEF CameraFields
<1>11. SavedCamera(camera, form) = camera
  <2> DEFINE saved == SavedCamera(camera, form)
  <2>1. saved = [again EXCEPT !.pass = camera.pass]
    BY <1>7, <1>9 DEF SavedCamera
  <2>2. /\ saved = [f \in CameraFields \cup CameraFlags |-> saved[f]]
        /\ \A f \in (CameraFields \cup CameraFlags) \ {"pass"} : saved[f] = camera[f]
        /\ saved.pass = camera.pass
    <3> HIDE DEF again, form, camera, saved
    <3> QED BY <2>1, <1>9, <1>10 DEF CameraFields
  <2> DEFINE All == CameraFields \cup CameraFlags
  <2>3. \A f \in All : saved[f] = camera[f]
    BY <2>2, Zenon
  <2>4. [f \in All |-> saved[f]] = [f \in All |-> camera[f]]
    <3> HIDE DEF saved, camera, All
    <3> QED BY <2>3
  <2>5. saved = [f \in All |-> saved[f]]
    BY <2>2, Zenon
  <2>6. camera = [f \in All |-> camera[f]]
    BY <1>2, Zenon
  <2> HIDE DEF saved, form, camera, All
  <2>7. saved = camera
    BY <2>4, <2>5, <2>6, Zenon
  <2> QED BY <2>7 DEF saved
<1> HIDE DEF camera
<1> QED BY <1>6, <1>11 DEF camera

\* A camera that may be stored, by whatever way: the fields hold numbers, times
\* and flags of some kind.
IsStoredCamera(camera) ==
    /\ \A f \in DOMAIN CameraNumbers : camera[f] \in Nat
    /\ \A f \in CameraFlags : camera[f] \in BOOLEAN

\* A time of day that is one is shown as itself.
LEMMA MinutesKept ==
    ASSUME NEW minutes \in 0..1439
    PROVE  MinutesOf(HoursMinutes(minutes)) = minutes
<1> DEFINE h == minutes \div 60
           m == minutes % 60
<1>1. h \in 0..23 /\ m \in 0..59 /\ h * 60 + m = minutes
  OBVIOUS
<1>2. HoursMinutes(minutes) = <<h % 24, m>>
  BY DEF HoursMinutes
<1> HIDE DEF h, m
<1>3. h % 24 = h
  BY <1>1
<1> QED BY <1>1, <1>2, <1>3 DEF MinutesOf

\* renderCameraForm and saveCameraSubmission, for any record that is stored.
LEMMA StoredCameraKept ==
    ASSUME NEW camera, IsStoredCamera(camera)
    PROVE  ShownCameraKept(camera)
<1> DEFINE form == CameraForm(camera)
           parsed == ParseCameraForm(form)
           again == SavedCamera(camera, form)
<1>1. /\ DOMAIN form = CameraFields \cup {g \in CameraFlags : camera[g]}
      /\ \A f \in DOMAIN CameraNumbers : form[f] = Shown(CameraNumbers[f], camera[f])
      /\ \A f \in Times : form[f] = HoursMinutes(camera[f])
      /\ form.pass = ""
  BY ShownCamera
<1>2. IsCameraSubmission(form)
  <2>1. ASSUME NEW f \in DOMAIN CameraNumbers PROVE form[f] \in Int
    <3> HIDE DEF form
    <3>1. camera[f] \in Nat /\ SoundNumber(CameraNumbers[f])
      BY NumbersSound DEF IsStoredCamera
    <3>2. form[f] = Shown(CameraNumbers[f], camera[f])
      BY <1>1
    <3> DEFINE number == CameraNumbers[f]
    <3>3. number.scale \in {1, 1000, 60000}
      BY <3>1 DEF SoundNumber
    <3> HIDE DEF number
    <3>4. camera[f] \div number.scale \in Int
      BY <3>1, <3>3
    <3> QED BY <3>2, <3>4 DEF Shown, number
  <2> HIDE DEF form
  <2> QED BY <1>1, <2>1 DEF IsCameraSubmission
<1>3. /\ parsed = [f \in CameraFields \cup CameraFlags |-> parsed[f]]
      /\ \A f \in DOMAIN CameraNumbers :
            parsed[f] = ParseNumber(CameraNumbers[f], form[f])
      /\ \A f \in Times : parsed[f] = MinutesOf(form[f])
      /\ parsed.pass = form.pass
      /\ \A f \in CameraFlags : parsed[f] = (f \in DOMAIN form)
  BY <1>2, ParsedCamera
<1>4. /\ again.pass = camera.pass
      /\ \A f \in (CameraFields \cup CameraFlags) \ {"pass"} : again[f] = parsed[f]
  <2>1. again = [parsed EXCEPT !.pass = camera.pass]
    BY <1>1, <1>3 DEF SavedCamera
  <2> HIDE DEF parsed, again, form
  <2> QED BY <1>3, <2>1 DEF CameraFields
<1>5. ASSUME NEW f \in CameraFlags PROVE again[f] = camera[f]
  <2> HIDE DEF parsed, again, form
  <2>1. f # "pass" /\ f \notin CameraFields
    BY CameraFieldsDiffer DEF CameraFields
  <2>2. again[f] = (f \in DOMAIN form)
    BY <1>3, <1>4, <2>1
  <2>3. f \in DOMAIN form <=> camera[f]
    BY <1>1, <2>1, Zenon
  <2>4. camera[f] \in BOOLEAN
    BY DEF IsStoredCamera
  <2>5. (f \in DOMAIN form) = camera[f]
    BY <2>3, <2>4
  <2> QED BY <2>2, <2>5, Zenon
<1>6. ASSUME NEW f \in DOMAIN CameraNumbers, camera[f] \in FormValues(CameraNumbers[f])
      PROVE  again[f] = camera[f]
  <2> HIDE DEF parsed, again, form
  <2>1. again[f] = ParseNumber(CameraNumbers[f], Shown(CameraNumbers[f], camera[f]))
    BY <1>1, <1>3, <1>4, CameraFieldsDiffer DEF CameraFields
  <2> QED BY <1>6, <2>1, NumbersSound, FormValueKept
<1>7. ASSUME NEW f \in Times, camera[f] \in 0..1439 PROVE again[f] = camera[f]
  <2> HIDE DEF parsed, again, form
  <2>1. again[f] = MinutesOf(HoursMinutes(camera[f]))
    BY <1>1, <1>3, <1>4, CameraFieldsDiffer DEF CameraFields
  <2> QED BY <1>7, <2>1, MinutesKept
<1>8. SavedCamera(again, CameraForm(again)) = again
  BY <1>2, CameraFormKeeps
<1>9. \A f \in CameraFlags \cup {"pass"} : again[f] = camera[f]
  <2> HIDE DEF parsed, again, form
  <2> QED BY <1>4, <1>5
<1> HIDE DEF parsed, again, form
<1> QED BY <1>6, <1>7, <1>8, <1>9, Zenon DEF ShownCameraKept, again, form

\* Any submission of the user form.
IsUserSubmission(submitted) ==
    /\ DOMAIN UserNumbers \cup {"language", "cameras"} \subseteq DOMAIN submitted
    /\ DOMAIN submitted \subseteq
          DOMAIN UserNumbers \cup {"language", "cameras"} \cup UserFlags
    /\ submitted.maxCommandsPerMinute \in Int

\* parseUserForm and renderTelegramUserForm, likewise, for whatever cameras
\* there are and were picked.
LEMMA UserFormKeeps ==
    ASSUME NEW submitted, IsUserSubmission(submitted), NEW cams
    PROVE  LET user == ParseUserForm(submitted, cams)
           IN /\ user.maxCommandsPerMinute \in 0..600
              /\ ParseUserForm(UserForm(user, cams), cams) = user
<1> DEFINE user == ParseUserForm(submitted, cams)
           form == UserForm(user, cams)
           again == ParseUserForm(form, cams)
           number == UserNumbers.maxCommandsPerMinute
           Fields == {"maxCommandsPerMinute", "language", "cameraNames"}
<1>0. /\ DOMAIN UserNumbers = {"maxCommandsPerMinute"}
      /\ {"maxCommandsPerMinute", "language", "cameraNames", "cameras"}
            \cap UserFlags = {}
      /\ "allCameras" \in UserFlags
  BY DEF UserNumbers, UserFlags
<1>1. /\ user = [f \in Fields \cup UserFlags |-> user[f]]
      /\ user.maxCommandsPerMinute = ParseNumber(number, submitted.maxCommandsPerMinute)
      /\ user.language = submitted.language
      /\ user.cameraNames = IF "allCameras" \in DOMAIN submitted THEN {}
                            ELSE submitted.cameras \cap cams
      /\ \A f \in UserFlags : user[f] = (f \in DOMAIN submitted)
  BY <1>0, Zenon DEF ParseUserForm, Typed, IsUserSubmission
<1>2. /\ \E n \in number.least..number.most :
            n * number.scale = user.maxCommandsPerMinute
      /\ Shown(number, user.maxCommandsPerMinute) \in Int
      /\ ParseNumber(number, Shown(number, user.maxCommandsPerMinute)) =
            user.maxCommandsPerMinute
  <2>1. SoundNumber(number) /\ submitted.maxCommandsPerMinute \in Int
    BY NumbersSound, <1>0 DEF IsUserSubmission
  <2> HIDE DEF number, user
  <2> QED BY <2>1, <1>1, NumberKept
<1>3. user.maxCommandsPerMinute \in 0..600
  <2>1. number = Number(1, 0, 600, 0, FALSE, 65536)
    BY DEF UserNumbers
  <2>2. number.least = 0 /\ number.most = 600 /\ number.scale = 1
    BY <2>1 DEF Number
  <2> HIDE DEF number, user
  <2> QED BY <2>2, <1>2
<1>4. /\ DOMAIN form = {"maxCommandsPerMinute", "language", "cameras"}
                          \cup {g \in UserFlags : user[g]}
      /\ form.maxCommandsPerMinute = Shown(number, user.maxCommandsPerMinute)
      /\ form.language = user.language
      /\ form.cameras = user.cameraNames \cap cams
  <2> HIDE DEF user
  <2> QED BY <1>0, Zenon DEF UserForm
<1>5. IsUserSubmission(form)
  <2> HIDE DEF form, user, number
  <2> QED BY <1>0, <1>2, <1>4 DEF IsUserSubmission
<1>6. /\ again = [f \in Fields \cup UserFlags |-> again[f]]
      /\ again.maxCommandsPerMinute = ParseNumber(number, form.maxCommandsPerMinute)
      /\ again.language = form.language
      /\ again.cameraNames = IF "allCameras" \in DOMAIN form THEN {}
                             ELSE form.cameras \cap cams
      /\ \A f \in UserFlags : again[f] = (f \in DOMAIN form)
  <2> HIDE DEF form
  <2> QED BY <1>0, <1>5, Zenon DEF ParseUserForm, Typed, IsUserSubmission
<1>7. ASSUME NEW f \in Fields \cup UserFlags PROVE again[f] = user[f]
  <2> HIDE DEF again, form, user, number
  <2>1. CASE f = "maxCommandsPerMinute"
    BY <2>1, <1>2, <1>4, <1>6
  <2>2. CASE f = "language"
    BY <2>2, <1>4, <1>6
  <2>3. CASE f \in UserFlags
    <3>1. again[f] = (f \in DOMAIN form)
      BY <2>3, <1>6, Zenon
    <3>2. user[f] = (f \in DOMAIN submitted)
      BY <2>3, <1>1, Zenon
    <3>3. f \notin {"maxCommandsPerMinute", "language", "cameras"}
      BY <2>3, <1>0
    <3>4. f \in DOMAIN form <=> user[f]
      BY <2>3, <3>3, <1>4, Zenon
    <3>5. f \in DOMAIN form <=> f \in DOMAIN submitted
      BY <3>2, <3>4, Zenon
    <3>6. (f \in DOMAIN form) = (f \in DOMAIN submitted)
      BY <3>5
    <3> QED BY <3>1, <3>2, <3>6, Zenon
  <2>4. CASE f = "cameraNames"
    <3>1. "allCameras" \in DOMAIN form <=> "allCameras" \in DOMAIN submitted
      <4>1. user["allCameras"] = ("allCameras" \in DOMAIN submitted)
        BY <1>0, <1>1, Zenon
      <4>2. "allCameras" \notin {"maxCommandsPerMinute", "language", "cameras"}
        OBVIOUS
      <4>3. "allCameras" \in DOMAIN form <=> user["allCameras"]
        BY <4>2, <1>0, <1>4, Zenon
      <4> QED BY <4>1, <4>3, Zenon
    <3>2. user.cameraNames \cap cams = user.cameraNames
      BY <1>1
    <3> QED BY <2>4, <3>1, <3>2, <1>1, <1>4, <1>6
  <2> QED BY <2>1, <2>2, <2>3, <2>4
<1>8. again = user
  <2> HIDE DEF again, user
  <2> QED BY <1>1, <1>6, <1>7
<1> QED BY <1>3, <1>8

\* A user that may be stored, by whatever way.
IsStoredUser(user) ==
    /\ user.maxCommandsPerMinute \in Nat
    /\ \A f \in UserFlags : user[f] \in BOOLEAN

LEMMA StoredUserKept ==
    ASSUME NEW user, IsStoredUser(user), NEW cams
    PROVE  ShownUserKept(user, cams)
<1> DEFINE form == UserForm(user, cams)
           again == ParseUserForm(form, cams)
           number == UserNumbers.maxCommandsPerMinute
           Fields == {"maxCommandsPerMinute", "language", "cameraNames"}
<1>0. /\ DOMAIN UserNumbers = {"maxCommandsPerMinute"}
      /\ {"maxCommandsPerMinute", "language", "cameraNames", "cameras"}
            \cap UserFlags = {}
      /\ "allCameras" \in UserFlags
  BY DEF UserNumbers, UserFlags
<1>1. /\ DOMAIN form = {"maxCommandsPerMinute", "language", "cameras"}
                          \cup {g \in UserFlags : user[g]}
      /\ form.maxCommandsPerMinute = Shown(number, user.maxCommandsPerMinute)
      /\ form.language = user.language
      /\ form.cameras = user.cameraNames \cap cams
  BY <1>0, Zenon DEF UserForm
<1>2. SoundNumber(number)
  BY <1>0, NumbersSound
<1>3. number.scale = 1 /\ number.least = 0 /\ number.most = 600
  <2>1. number = Number(1, 0, 600, 0, FALSE, 65536)
    BY DEF UserNumbers
  <2> QED BY <2>1 DEF Number
<1>4. IsUserSubmission(form)
  <2>1. Shown(number, user.maxCommandsPerMinute) \in Int
    <3> HIDE DEF number, form
    <3> QED BY <1>3 DEF Shown, IsStoredUser
  <2> HIDE DEF number, form
  <2> QED BY <1>0, <1>1, <2>1 DEF IsUserSubmission
<1>5. /\ again.maxCommandsPerMinute = ParseNumber(number, form.maxCommandsPerMinute)
      /\ again.language = form.language
      /\ again.cameraNames = IF "allCameras" \in DOMAIN form THEN {}
                             ELSE form.cameras \cap cams
      /\ \A f \in UserFlags : again[f] = (f \in DOMAIN form)
  <2> HIDE DEF form
  <2> QED BY <1>0, <1>4, Zenon DEF ParseUserForm, Typed, IsUserSubmission
<1>6. ASSUME NEW f \in UserFlags PROVE again[f] = user[f] /\ (f \in DOMAIN form <=> user[f])
  <2> HIDE DEF again, form
  <2>1. f \notin {"maxCommandsPerMinute", "language", "cameras"}
    BY <1>0
  <2>2. f \in DOMAIN form <=> user[f]
    BY <1>1, <2>1, Zenon
  <2>3. user[f] \in BOOLEAN
    BY DEF IsStoredUser
  <2>4. (f \in DOMAIN form) = user[f]
    BY <2>2, <2>3
  <2> QED BY <1>5, <2>2, <2>4, Zenon
<1>7. ASSUME user.maxCommandsPerMinute \in 0..600
      PROVE  again.maxCommandsPerMinute = user.maxCommandsPerMinute
  <2> HIDE DEF again, form, number
  <2>1. user.maxCommandsPerMinute \in FormValues(number)
    <3>1. user.maxCommandsPerMinute = user.maxCommandsPerMinute * number.scale
      BY <1>3, <1>7
    <3> QED BY <1>3, <1>7, <3>1 DEF FormValues
  <2>2. ParseNumber(number, Shown(number, user.maxCommandsPerMinute))
           = user.maxCommandsPerMinute
    BY <1>2, <2>1, FormValueKept
  <2> QED BY <1>1, <1>5, <2>2, Zenon
<1>8. ASSUME ~user.allCameras PROVE again.cameraNames = user.cameraNames \cap cams
  <2>1. "allCameras" \notin DOMAIN form
    BY <1>0, <1>6, <1>8
  <2> HIDE DEF again, form
  <2> QED BY <1>1, <1>5, <2>1
<1>9. ParseUserForm(UserForm(again, cams), cams) = again
  BY <1>4, UserFormKeeps
<1>10. \A f \in UserFlags \cup {"language"} : again[f] = user[f]
  <2> HIDE DEF again, form
  <2> QED BY <1>1, <1>5, <1>6
<1> HIDE DEF again, form
<1> QED BY <1>7, <1>8, <1>9, <1>10 DEF ShownUserKept, again, form

\* The submissions that TLC tries are submissions.
LEMMA SampledCameras == \A submitted \in CameraSubmissions : IsCameraSubmission(submitted)
<1> DEFINE form == CameraForm(DefaultCamera)
<1>1. \A f \in DOMAIN CameraNumbers : Shown(CameraNumbers[f], DefaultCamera[f]) \in Int
  <2> SUFFICES ASSUME NEW f \in DOMAIN CameraNumbers
               PROVE  Shown(CameraNumbers[f], DefaultCamera[f]) \in Int
    OBVIOUS
  <2> DEFINE number == CameraNumbers[f]
  <2>1. DefaultCamera[f] = number.default
    BY CameraFieldsDiffer, Zenon DEF DefaultCamera
  <2>2. SoundNumber(number)
    BY NumbersSound, Zenon
  <2>3. Shown(number, number.default) \in Int
    <3> HIDE DEF number
    <3> QED BY <2>2 DEF SoundNumber, Shown
  <2> QED BY <2>1, <2>3, Zenon
<1>2. /\ DOMAIN form = CameraFields \cup {g \in CameraFlags : DefaultCamera[g]}
      /\ \A f \in DOMAIN CameraNumbers : form[f] \in Int
  BY <1>1, ShownCamera, Zenon
<1> HIDE DEF form
<1>3. IsCameraSubmission(form)
  BY <1>2 DEF IsCameraSubmission
<1>4. ASSUME NEW f, NEW v, f \in CameraFields \cup CameraFlags,
             f \in DOMAIN CameraNumbers => v \in Int
      PROVE  IsCameraSubmission(With(form, f, v))
  <2>1. DOMAIN With(form, f, v) = DOMAIN form \cup {f}
    BY DEF With
  <2>2. \A g \in DOMAIN CameraNumbers : With(form, f, v)[g] \in Int
    BY <1>2, <1>4 DEF With, CameraFields
  <2> QED BY <1>2, <1>4, <2>1, <2>2 DEF IsCameraSubmission
<1>5. ASSUME NEW p \in ParseNumbers(CameraNumbers)
      PROVE  IsCameraSubmission(With(form, p[1], p[2]))
  <2>1. p[1] \in DOMAIN CameraNumbers /\ p[2] \in Int
    <3>1. CASE \E f \in DOMAIN CameraNumbers, n \in {-1, 0, 1, 249, 70000} : p = <<f, n>>
      BY <3>1
    <3>2. CASE \E f \in DOMAIN CameraNumbers, d \in {-1, 0, 1} :
                 p = <<f, CameraNumbers[f].most + d>>
      <4>1. PICK f \in DOMAIN CameraNumbers, d \in {-1, 0, 1} :
                 p = <<f, CameraNumbers[f].most + d>>
        BY <3>2
      <4>2. CameraNumbers[f].most \in Nat
        BY NumbersSound DEF SoundNumber
      <4> QED BY <4>1, <4>2
    <3> QED BY <3>1, <3>2 DEF ParseNumbers
  <2> QED BY <2>1, <1>4 DEF CameraFields
<1>6. IsCameraSubmission(With(form, "pass", "new"))
  BY <1>4, CameraFieldsDiffer DEF CameraFields
<1>7. \A f \in Times : \A t : IsCameraSubmission(With(form, f, t))
  BY <1>4, CameraFieldsDiffer DEF CameraFields
<1>8. \A f \in CameraFlags : IsCameraSubmission(With(form, f, TRUE))
  BY <1>4, CameraFieldsDiffer DEF CameraFields
<1>9. ASSUME NEW f \in CameraFlags
      PROVE  IsCameraSubmission([g \in DOMAIN form \ {f} |-> form[g]])
  <2>1. f \notin CameraFields
    BY CameraFieldsDiffer DEF CameraFields
  <2> QED BY <1>2, <2>1, CameraFieldsDiffer DEF IsCameraSubmission, CameraFields
<1> SUFFICES ASSUME NEW submitted \in CameraSubmissions
             PROVE  IsCameraSubmission(submitted)
  OBVIOUS
<1>10. \/ submitted = form
       \/ submitted = With(form, "pass", "new")
       \/ \E p \in ParseNumbers(CameraNumbers) : submitted = With(form, p[1], p[2])
       \/ \E f \in Times, t \in {<<23, 59>>, <<7, 5>>, <<24, 0>>} :
             submitted = With(form, f, t)
       \/ \E f \in CameraFlags : submitted = With(form, f, TRUE)
       \/ \E f \in CameraFlags : submitted = [g \in DOMAIN form \ {f} |-> form[g]]
  <2> DEFINE Numbered == {With(form, p[1], p[2]) : p \in ParseNumbers(CameraNumbers)}
             Timed == {With(form, f, t) : f \in Times,
                                          t \in {<<23, 59>>, <<7, 5>>, <<24, 0>>}}
             On == {With(form, f, TRUE) : f \in CameraFlags}
             Off == {[g \in DOMAIN form \ {f} |-> form[g]] : f \in CameraFlags}
  <2>1. CameraSubmissions =
          {form, With(form, "pass", "new")} \cup Numbered \cup Timed \cup On \cup Off
    BY DEF CameraSubmissions, form
  <2>2. submitted \in Numbered =>
          \E p \in ParseNumbers(CameraNumbers) : submitted = With(form, p[1], p[2])
    BY Zenon
  <2>3. submitted \in Timed =>
          \E f \in Times, t \in {<<23, 59>>, <<7, 5>>, <<24, 0>>} :
             submitted = With(form, f, t)
    OBVIOUS
  <2>4. submitted \in On => \E f \in CameraFlags : submitted = With(form, f, TRUE)
    BY Zenon
  <2>5. submitted \in Off =>
          \E f \in CameraFlags : submitted = [g \in DOMAIN form \ {f} |-> form[g]]
    BY Zenon
  <2> HIDE DEF Numbered, Timed, On, Off
  <2> QED BY <2>1, <2>2, <2>3, <2>4, <2>5, Zenon
<1> QED BY <1>3, <1>5, <1>6, <1>7, <1>8, <1>9, <1>10, Zenon

LEMMA SampledUsers == \A submitted \in UserSubmissions : IsUserSubmission(submitted)
<1>0. /\ DOMAIN UserNumbers = {"maxCommandsPerMinute"}
      /\ {"maxCommandsPerMinute", "language", "cameras"} \cap UserFlags = {}
  BY DEF UserNumbers, UserFlags
<1> DEFINE Sent(n, picked, flags) ==
              [f \in DOMAIN UserNumbers \cup {"language", "cameras"} \cup flags |->
                  CASE f \in DOMAIN UserNumbers -> n
                    [] f = "language" -> "pt"
                    [] f = "cameras" -> picked
                    [] OTHER -> TRUE]
<1>1. ASSUME NEW n \in Int, NEW picked, NEW flags \in SUBSET UserFlags
      PROVE  IsUserSubmission(Sent(n, picked, flags))
  <2>1. Sent(n, picked, flags)["maxCommandsPerMinute"] = n
    BY <1>0
  <2>2. DOMAIN Sent(n, picked, flags) =
          DOMAIN UserNumbers \cup {"language", "cameras"} \cup flags
    BY Zenon
  <2> HIDE DEF Sent
  <2> QED BY <2>1, <2>2, Zenon DEF IsUserSubmission
<1>2. UserSubmissions =
        {Sent(n, picked, flags) : n \in {-1, 0, 600, 601}, picked \in SUBSET {"a", "b"},
                                  flags \in {UserFlags} \cup {{f} : f \in UserFlags}}
  BY DEF UserSubmissions
<1>3. {UserFlags} \cup {{f} : f \in UserFlags} \subseteq SUBSET UserFlags
  OBVIOUS
<1>4. {-1, 0, 600, 601} \subseteq Int
  OBVIOUS
<1> HIDE DEF Sent
<1> SUFFICES ASSUME NEW submitted \in UserSubmissions
             PROVE  IsUserSubmission(submitted)
  OBVIOUS
<1>5. PICK n \in {-1, 0, 600, 601}, picked \in SUBSET {"a", "b"},
           flags \in {UserFlags} \cup {{f} : f \in UserFlags} :
           submitted = Sent(n, picked, flags)
  BY <1>2
<1>6. n \in Int /\ flags \in SUBSET UserFlags
  BY <1>3, <1>4
<1> QED BY <1>1, <1>5, <1>6, Zenon

\* The records that TLC tries are records.
LEMMA SampledStoredCameras == \A camera \in ImportedCameras : IsStoredCamera(camera)
<1>1. /\ \A f \in DOMAIN CameraNumbers : DefaultCamera[f] \in Nat
      /\ \A f \in CameraFlags : DefaultCamera[f] \in BOOLEAN
      /\ DOMAIN DefaultCamera = CameraFields \cup CameraFlags
  <2>1. \A f \in DOMAIN CameraNumbers : DefaultCamera[f] = CameraNumbers[f].default
    BY CameraFieldsDiffer, Zenon DEF DefaultCamera
  <2>2. \A f \in CameraFlags : DefaultCamera[f] = Fallback(f)
    BY CameraFieldsDiffer, Zenon DEF DefaultCamera
  <2>3. \A f \in CameraFlags : Fallback(f) \in BOOLEAN
    <3>1. CameraFlags \cap (Texts \cup Numbers) = {}
      BY DEF CameraFlags, Texts, Numbers
    <3>2. \A f \in CameraFlags : Fallback(f) = (f \in OnByDefault)
      BY <3>1, Zenon DEF Fallback
    <3>3. \A f \in CameraFlags : (f \in OnByDefault) \in BOOLEAN
      OBVIOUS
    <3> QED BY <3>2, <3>3, Zenon
  <2>4. \A f \in DOMAIN CameraNumbers : CameraNumbers[f].default \in Nat
    BY NumbersSound DEF SoundNumber
  <2>5. DOMAIN DefaultCamera = CameraFields \cup CameraFlags
    BY DEF DefaultCamera, CameraFields
  <2> QED BY <2>1, <2>2, <2>3, <2>4, <2>5
<1> DEFINE d == DefaultCamera
<1> HIDE DEF d
<1>2. ASSUME NEW f \in DOMAIN CameraNumbers, NEW v \in Nat
      PROVE  IsStoredCamera([d EXCEPT ![f] = v])
  BY <1>1, CameraFieldsDiffer DEF IsStoredCamera, d
<1>3. ASSUME NEW f \in Times, NEW v
      PROVE  IsStoredCamera([d EXCEPT ![f] = v])
  BY <1>1, CameraFieldsDiffer DEF IsStoredCamera, d
<1>4. ASSUME NEW f \in CameraFlags
      PROVE  IsStoredCamera([d EXCEPT ![f] = ~@])
  BY <1>1, CameraFieldsDiffer DEF IsStoredCamera, d, CameraFields
<1> SUFFICES ASSUME NEW camera \in ImportedCameras PROVE IsStoredCamera(camera)
  OBVIOUS
<1> DEFINE Numbered == {[d EXCEPT ![f] = v] : f \in DOMAIN CameraNumbers, v \in {0, 1, 45500}}
           Timed == {[d EXCEPT ![f] = v] : f \in Times, v \in {1439, 1500}}
           Turned == {[d EXCEPT ![f] = ~@] : f \in CameraFlags}
<1>5. ImportedCameras = Numbered \cup Timed \cup Turned
  BY DEF ImportedCameras, d
<1>6. CASE camera \in Numbered
  <2>1. PICK f \in DOMAIN CameraNumbers, v \in {0, 1, 45500} : camera = [d EXCEPT ![f] = v]
    BY <1>6
  <2>2. v \in Nat
    OBVIOUS
  <2>3. IsStoredCamera([d EXCEPT ![f] = v])
    BY <1>2, <2>2
  <2> QED BY <2>1, <2>3
<1>7. CASE camera \in Timed
  <2>1. PICK f \in Times, v \in {1439, 1500} : camera = [d EXCEPT ![f] = v]
    BY <1>7
  <2>2. IsStoredCamera([d EXCEPT ![f] = v])
    BY <1>3
  <2> QED BY <2>1, <2>2
<1>8. CASE camera \in Turned
  <2>1. PICK f \in CameraFlags : camera = [d EXCEPT ![f] = ~@]
    BY <1>8
  <2>2. IsStoredCamera([d EXCEPT ![f] = ~@])
    BY <1>4
  <2> QED BY <2>1, <2>2
<1> HIDE DEF Numbered, Timed, Turned
<1> QED BY <1>5, <1>6, <1>7, <1>8, Zenon

LEMMA SampledStoredUsers == \A user \in ImportedUsers : IsStoredUser(user)
<1>0. /\ DOMAIN UserNumbers = {"maxCommandsPerMinute"}
      /\ {"maxCommandsPerMinute", "language", "cameraNames"} \cap UserFlags = {}
  BY DEF UserNumbers, UserFlags
<1> SUFFICES ASSUME NEW user \in ImportedUsers PROVE IsStoredUser(user)
  OBVIOUS
<1> DEFINE Sampled(n, names, flags) ==
              [f \in DOMAIN UserNumbers \cup {"language", "cameraNames"} \cup UserFlags |->
                  CASE f \in DOMAIN UserNumbers -> n
                    [] f = "language" -> "pt"
                    [] f = "cameraNames" -> names
                    [] OTHER -> f \in flags]
<1>1. ASSUME NEW n \in Nat, NEW names, NEW flags
      PROVE  IsStoredUser(Sampled(n, names, flags))
  <2>1. Sampled(n, names, flags)["maxCommandsPerMinute"] = n
    BY <1>0
  <2>2. ASSUME NEW f \in UserFlags
        PROVE  Sampled(n, names, flags)[f] = (f \in flags)
    BY <1>0, Zenon
  <2>3. \A f \in UserFlags : (f \in flags) \in BOOLEAN
    OBVIOUS
  <2>4. \A f \in UserFlags : Sampled(n, names, flags)[f] \in BOOLEAN
    <3> HIDE DEF Sampled
    <3> QED BY <2>2, <2>3, Zenon
  <2> HIDE DEF Sampled
  <2> QED BY <2>1, <2>4 DEF IsStoredUser
<1>2. PICK n \in {0, 600, 601}, names \in SUBSET {"a", "b"},
           flags \in {{}, UserFlags} \cup {{f} : f \in UserFlags} :
           user = Sampled(n, names, flags)
  <2>1. ImportedUsers =
          {Sampled(n, names, flags) : n \in {0, 600, 601}, names \in SUBSET {"a", "b"},
                  flags \in {{}, UserFlags} \cup {{f} : f \in UserFlags}}
    BY DEF ImportedUsers
  <2> HIDE DEF Sampled
  <2> QED BY <2>1
<1>3. n \in Nat
  BY <1>2
<1> HIDE DEF Sampled
<1> QED BY <1>1, <1>2, <1>3, Zenon

\* What the forms promise, for every submission there is, from any stored
\* camera, and for every record that may be stored, and not only the sampled
\* ones.
THEOREM FormsKeepTheirValues ==
    /\ \A stored, submitted : IsCameraSubmission(submitted) =>
        LET camera == SavedCamera(stored, submitted)
        IN /\ \A f \in DOMAIN CameraNumbers :
                /\ camera[f] \in FormValues(CameraNumbers[f])
                /\ submitted[f] <= 0 => camera[f] = CameraNumbers[f].default
           /\ SavedCamera(camera, CameraForm(camera)) = camera
    /\ \A camera : IsStoredCamera(camera) => ShownCameraKept(camera)
    /\ \A submitted, cams : IsUserSubmission(submitted) =>
        LET user == ParseUserForm(submitted, cams)
        IN /\ user.maxCommandsPerMinute \in 0..600
           /\ ParseUserForm(UserForm(user, cams), cams) = user
    /\ \A user, cams : IsStoredUser(user) => ShownUserKept(user, cams)
BY CameraFormKeeps, UserFormKeeps, StoredCameraKept, StoredUserKept, Zenon

LEMMA FormsTrip == FormsRoundTrip
BY FormsKeepTheirValues, SampledCameras, SampledUsers, SampledStoredCameras,
   SampledStoredUsers, Zenon
DEF FormsRoundTrip

\* A submission is stored in range and a stored record keeps under its own form
\* what the form can store, in every state of the store.
THEOREM FormsKeepStored == Spec => []FormsKeepSettings
<1>1. FormsKeepSettings
  BY FormsTrip DEF FormsKeepSettings
<1> QED BY <1>1, PTL
=============================================================================
