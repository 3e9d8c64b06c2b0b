-------------------------- MODULE FleetBoard_proofs --------------------------
(***************************************************************************)
(* What the observer's page keeps for every sequence of fleet answers and  *)
(* trace lists and any number of polls and reads in flight.                *)
(***************************************************************************)
EXTENDS FleetBoard, FiniteSetTheorems, SequenceTheorems, TLAPS

-----------------------------------------------------------------------------
\* Orders.

\* The members of S that come before i.
Below(S, R, i) == {j \in S : <<j, i>> \in R}

\* R orders the finite set S in one line.
TotalOrder(S, R) ==
    /\ IsFiniteSet(S)
    /\ \A i \in S : <<i, i>> \notin R
    /\ \A i, j \in S : i # j => <<i, j>> \in R \/ <<j, i>> \in R
    /\ \A i, j, k \in S : <<i, j>> \in R /\ <<j, k>> \in R => <<i, k>> \in R

\* A member has fewer before it than the set has members.
LEMMA CountsBefore ==
    ASSUME NEW S, NEW R, TotalOrder(S, R), NEW i \in S
    PROVE  /\ IsFiniteSet(Below(S, R, i)) /\ Cardinality(Below(S, R, i)) \in Nat
           /\ Cardinality(Below(S, R, i)) < Cardinality(S)
<1>1. IsFiniteSet(S) /\ Cardinality(S) \in Nat
  BY FS_CardinalityType DEF TotalOrder
<1>2. IsFiniteSet(S \ {i}) /\ Cardinality(S \ {i}) = Cardinality(S) - 1
  BY <1>1, FS_RemoveElement
<1>3. Below(S, R, i) \in SUBSET (S \ {i})
  BY DEF Below, TotalOrder
<1>4. /\ IsFiniteSet(Below(S, R, i))
      /\ Cardinality(Below(S, R, i)) <= Cardinality(S \ {i})
  BY <1>2, <1>3, FS_Subset
<1>5. Cardinality(Below(S, R, i)) \in Nat
  BY <1>4, FS_CardinalityType
<1> QED
  BY <1>1, <1>2, <1>4, <1>5

\* A later member has more before it.
LEMMA CountsGrow ==
    ASSUME NEW S, NEW R, TotalOrder(S, R), NEW i \in S, NEW j \in S, <<i, j>> \in R
    PROVE  Cardinality(Below(S, R, i)) < Cardinality(Below(S, R, j))
<1> DEFINE a == Below(S, R, i)
           b == Below(S, R, j)
<1>1. a \in SUBSET (b \ {i}) /\ i \in b
  BY DEF Below, TotalOrder
<1>2. /\ IsFiniteSet(b) /\ Cardinality(b) \in Nat /\ Cardinality(a) \in Nat
  BY CountsBefore
<1> HIDE DEF a, b
<1>3. IsFiniteSet(b \ {i}) /\ Cardinality(b \ {i}) = Cardinality(b) - 1
  BY <1>1, <1>2, FS_RemoveElement
<1>4. Cardinality(a) <= Cardinality(b \ {i})
  BY <1>1, <1>3, FS_Subset
<1>5. Cardinality(a) < Cardinality(b)
  BY <1>2, <1>3, <1>4
<1> QED
  BY <1>5 DEF a, b

\* A finite set in a total order: every member has one place of its own, and the
\* places follow the order.
LEMMA OrderedPlaces ==
    ASSUME NEW S, NEW R, TotalOrder(S, R)
    PROVE  /\ Cardinality(S) \in Nat
           /\ DOMAIN Ordered(S, R) = 1 .. Cardinality(S)
           /\ \A k \in 1 .. Cardinality(S) : Ordered(S, R)[k] \in S
           /\ \A i \in S : \E k \in 1 .. Cardinality(S) : Ordered(S, R)[k] = i
           /\ \A k, m \in 1 .. Cardinality(S) :
                  k < m => <<Ordered(S, R)[k], Ordered(S, R)[m]>> \in R
           /\ \A k, m \in 1 .. Cardinality(S) :
                  <<Ordered(S, R)[k], Ordered(S, R)[m]>> \in R => k < m
<1> DEFINE n == Cardinality(S)
           Befores == [i \in S |-> Cardinality(Below(S, R, i))]
           Spot == [i \in S |-> Befores[i] + 1]
           Place == Ordered(S, R)
<1>1. n \in Nat
  BY FS_CardinalityType DEF TotalOrder
<1>2. \A i \in S : Befores[i] \in Nat /\ Befores[i] < n
  BY CountsBefore
<1>3. \A i, j \in S : <<i, j>> \in R => Befores[i] < Befores[j]
  BY CountsGrow
<1>4. \A k \in 1 .. n : Place[k] = CHOOSE i \in S : Befores[i] = k - 1
  <2>1. \A k \in 1 .. n :
          Place[k] = CHOOSE i \in S : Cardinality({j \in S : <<j, i>> \in R}) = k - 1
    BY DEF Ordered
  <2>2. \A k \in 1 .. n : \A i \in S :
          Cardinality({j \in S : <<j, i>> \in R}) = k - 1 <=> Befores[i] = k - 1
    BY DEF Below
  <2>3. ASSUME NEW k \in 1 .. n
        PROVE  (CHOOSE i \in S : Cardinality({j \in S : <<j, i>> \in R}) = k - 1)
                 = CHOOSE i \in S : Befores[i] = k - 1
    BY <2>2
  <2> QED
    BY <2>1, <2>3, Zenon
<1>5. DOMAIN Place = 1 .. n
  BY DEF Ordered
<1> HIDE DEF Befores, Place, n
<1>6. \A i, j \in S : Befores[i] = Befores[j] => i = j
  <2> SUFFICES ASSUME NEW i \in S, NEW j \in S, i # j PROVE Befores[i] # Befores[j]
    OBVIOUS
  <2>1. <<i, j>> \in R \/ <<j, i>> \in R
    BY DEF TotalOrder
  <2>2. <<i, j>> \in R => Befores[i] < Befores[j]
    BY <1>3
  <2>3. <<j, i>> \in R => Befores[j] < Befores[i]
    BY <1>3
  <2> QED
    BY <1>2, <2>1, <2>2, <2>3
<1>7. Spot \in [S -> 1 .. n] /\ \A i \in S : Spot[i] = Befores[i] + 1
  BY <1>1, <1>2
<1> HIDE DEF Spot
<1>8. \A i, j \in S : Spot[i] = Spot[j] => i = j
  BY <1>2, <1>6, <1>7
<1>9. Spot \in Injection(S, 1 .. n)
  BY <1>7, <1>8 DEF Injection, IsInjective
<1>10. Spot \in Surjection(S, 1 .. n)
  <2>1. IsFiniteSet(1 .. n) /\ Cardinality(1 .. n) = Cardinality(S)
    BY <1>1, FS_Interval DEF n
  <2> QED
    BY <1>9, <2>1, FS_Injection
<1>11. \A k \in 1 .. n : \E i \in S : Befores[i] = k - 1
  <2> TAKE k \in 1 .. n
  <2>1. PICK i \in S : Spot[i] = k
    BY <1>10 DEF Surjection
  <2> QED
    BY <1>1, <1>2, <1>7, <2>1
<1>12. \A k \in 1 .. n : Place[k] \in S /\ Befores[Place[k]] = k - 1
  BY <1>4, <1>11
<1>13. \A i \in S : \E k \in 1 .. n : Place[k] = i
  <2> TAKE i \in S
  <2>1. PICK k \in 1 .. n : k - 1 = Befores[i]
    BY <1>1, <1>2, Befores[i] + 1 \in 1 .. n
  <2>2. Place[k] \in S /\ Befores[Place[k]] = Befores[i]
    BY <1>12, <2>1
  <2> QED
    BY <1>6, <2>2
<1>14. ASSUME NEW k \in 1 .. n, NEW m \in 1 .. n
       PROVE  k < m <=> <<Place[k], Place[m]>> \in R
  <2> DEFINE a == Place[k]
             b == Place[m]
  <2>1. a \in S /\ b \in S /\ Befores[a] = k - 1 /\ Befores[b] = m - 1
    BY <1>12
  <2> HIDE DEF a, b
  <2>2. <<a, b>> \in R => k < m
    BY <1>1, <1>3, <2>1
  <2>3. <<b, a>> \in R => m < k
    BY <1>1, <1>3, <2>1
  <2>4. k < m => a # b
    BY <1>1, <2>1
  <2>5. k < m => <<a, b>> \in R
    BY <1>1, <2>1, <2>3, <2>4 DEF TotalOrder
  <2> QED
    BY <2>2, <2>5 DEF a, b
<1> QED
  BY <1>1, <1>5, <1>12, <1>13, <1>14 DEF n, Place

\* Places go by their size.
LEMMA PlacesOrder ==
    ASSUME NEW n \in Nat, NEW P \in SUBSET (1 .. n)
    PROVE  TotalOrder(P, Earlier(P))
<1>1. IsFiniteSet(P)
  <2>1. IsFiniteSet(1 .. n)
    BY FS_Interval
  <2> QED
    BY <2>1, FS_Subset
<1>2. \A i, j \in P : <<i, j>> \in Earlier(P) <=> i < j
  BY DEF Earlier
<1>3. \A i \in P : i \in Nat
  OBVIOUS
<1> QED
  BY <1>1, <1>2, <1>3 DEF TotalOrder

\* Of some places one is the first and one the last.
LEMMA FirstAndLast ==
    ASSUME NEW n \in Nat, NEW P \in SUBSET (1 .. n), P # {}
    PROVE  /\ \E i \in P : \A j \in P : i <= j
           /\ \E i \in P : \A j \in P : j <= i
<1> DEFINE m == Cardinality(P)
           place == Ordered(P, Earlier(P))
<1>1. /\ m \in Nat
      /\ \A k \in 1 .. m : place[k] \in P
      /\ \A i \in P : \E k \in 1 .. m : place[k] = i
      /\ \A k, l \in 1 .. m : k < l => <<place[k], place[l]>> \in Earlier(P)
  <2>1. TotalOrder(P, Earlier(P))
    BY PlacesOrder
  <2> QED
    BY <2>1, OrderedPlaces
<1>2. \A i, j \in P : <<i, j>> \in Earlier(P) <=> i < j
  BY DEF Earlier
<1> HIDE DEF m, place
<1>3. m # 0
  <2>1. PICK i \in P : TRUE
    OBVIOUS
  <2>2. PICK k \in 1 .. m : place[k] = i
    BY <1>1, <2>1
  <2> QED
    BY <1>1, <2>2
<1>4. 1 \in 1 .. m /\ m \in 1 .. m
  BY <1>1, <1>3
<1>5. \A k \in 1 .. m : place[1] <= place[k] /\ place[k] <= place[m]
  <2> TAKE k \in 1 .. m
  <2>1. k = 1 \/ 1 < k
    BY <1>1
  <2>2. k = m \/ k < m
    BY <1>1
  <2>3. place[1] \in P /\ place[k] \in P /\ place[m] \in P
    BY <1>1, <1>4
  <2>4. place[1] \in Nat /\ place[k] \in Nat /\ place[m] \in Nat
    <3>1. \A i \in P : i \in Nat
      OBVIOUS
    <3> QED
      BY <2>3, <3>1
  <2>5. place[1] = place[k] \/ place[1] < place[k]
    BY <1>1, <1>2, <1>4, <2>1, <2>3
  <2>6. place[k] = place[m] \/ place[k] < place[m]
    BY <1>1, <1>2, <1>4, <2>2, <2>3
  <2> QED
    BY <2>4, <2>5, <2>6
<1>6. \A j \in P : place[1] <= j /\ j <= place[m]
  BY <1>1, <1>5
<1> QED
  BY <1>1, <1>4, <1>6

\* The sequence t of length m holds what s holds at the places P, every place once.
Keeps(t, m, s, P) ==
    /\ m \in Nat /\ DOMAIN t = 1 .. m
    /\ \A k \in 1 .. m : \E i \in P : t[k] = s[i]
    /\ \A i \in P : \E k \in 1 .. m : t[k] = s[i]
    /\ \A k, l \in 1 .. m : k # l => \E i, j \in P : i # j /\ t[k] = s[i] /\ t[l] = s[j]

LEMMA AtPlaces ==
    ASSUME NEW n \in Nat, NEW P \in SUBSET (1 .. n), NEW s
    PROVE  Keeps(At(s, P), Cardinality(P), s, P)
<1> DEFINE m == Cardinality(P)
           place == Ordered(P, Earlier(P))
<1>1. /\ m \in Nat /\ DOMAIN place = 1 .. m
      /\ \A k \in 1 .. m : place[k] \in P
      /\ \A i \in P : \E k \in 1 .. m : place[k] = i
      /\ \A k, l \in 1 .. m : k < l => <<place[k], place[l]>> \in Earlier(P)
  <2>1. TotalOrder(P, Earlier(P))
    BY PlacesOrder
  <2> QED
    BY <2>1, OrderedPlaces
<1>2. \A i, j \in P : <<i, j>> \in Earlier(P) => i # j
  BY DEF Earlier
<1>3. DOMAIN At(s, P) = DOMAIN place /\ \A k \in DOMAIN place : At(s, P)[k] = s[place[k]]
  BY DEF At
<1> HIDE DEF m, place
<1>4. ASSUME NEW k \in 1 .. m, NEW l \in 1 .. m, k # l
      PROVE  place[k] # place[l]
  <2>1. k < l \/ l < k
    BY <1>1, <1>4
  <2> QED
    BY <1>1, <1>2, <2>1
<1>5. \A k, l \in 1 .. m : k # l =>
         \E i, j \in P : i # j /\ At(s, P)[k] = s[i] /\ At(s, P)[l] = s[j]
  <2> SUFFICES ASSUME NEW k \in 1 .. m, NEW l \in 1 .. m, k # l
               PROVE  place[k] \in P /\ place[l] \in P /\ place[k] # place[l]
                        /\ At(s, P)[k] = s[place[k]] /\ At(s, P)[l] = s[place[l]]
    OBVIOUS
  <2> QED
    BY <1>1, <1>3, <1>4
<1>6. /\ m \in Nat /\ DOMAIN At(s, P) = 1 .. m
      /\ \A k \in 1 .. m : \E i \in P : At(s, P)[k] = s[i]
      /\ \A i \in P : \E k \in 1 .. m : At(s, P)[k] = s[i]
  BY <1>1, <1>3
<1> QED
  BY <1>5, <1>6 DEF m, Keeps

-----------------------------------------------------------------------------
\* The cards.

LEMMA JoinNames ==
    /\ DOMAIN Joins = 1 .. 4
    /\ Joins[1] = "machine" /\ Joins[2] = "state" /\ Joins[3] = "tools" /\ Joins[4] = "events"
BY DEF Joins

\* The length of a function on 1 .. m.
LEMMA LengthOf ==
    ASSUME NEW m \in Nat, NEW S, NEW s \in [1 .. m -> S]
    PROVE  s \in Seq(S) /\ Len(s) = m
<1>1. s \in Seq(S)
  BY SeqDef
<1> QED
  BY <1>1

\* What two sequences one after the other hold.
LEMMA OneAfterOther ==
    ASSUME NEW s, NEW t, s \in Seq(Elements(s)), t \in Seq(Elements(t))
    PROVE  /\ s \o t \in Seq(Elements(s \o t))
           /\ Elements(s \o t) = Elements(s) \cup Elements(t)
<1> DEFINE T == Elements(s) \cup Elements(t)
           u == s \o t
<1>1. /\ DOMAIN s = 1 .. Len(s) /\ Len(s) \in Nat /\ \A i \in DOMAIN s : s[i] \in Elements(s)
      /\ DOMAIN t = 1 .. Len(t) /\ Len(t) \in Nat /\ \A i \in DOMAIN t : t[i] \in Elements(t)
  BY DEF Elements
<1>2. s \in [1 .. Len(s) -> T] /\ t \in [1 .. Len(t) -> T]
  BY <1>1
<1>3. s \in Seq(T) /\ t \in Seq(T)
  BY <1>1, <1>2, LengthOf
<1> HIDE DEF T
<1>4. /\ u \in Seq(T) /\ DOMAIN u = 1 .. Len(s) + Len(t)
      /\ \A i \in 1 .. Len(s) : u[i] = s[i]
      /\ \A i \in Len(s) + 1 .. Len(s) + Len(t) : u[i] = t[i - Len(s)]
      /\ Len(u) = Len(s) + Len(t)
  BY <1>1, <1>3
<1> HIDE DEF u
<1>5. ASSUME NEW x \in Elements(s) \cup Elements(t)
      PROVE  x \in Elements(u)
  <2>1. CASE x \in Elements(s)
    <3>1. PICK i \in DOMAIN s : x = s[i]
      BY <2>1 DEF Elements
    <3>2. i \in DOMAIN u /\ u[i] = x
      BY <1>1, <1>4, <3>1
    <3> QED
      BY <3>2 DEF Elements
  <2>2. CASE x \in Elements(t)
    <3>1. PICK i \in DOMAIN t : x = t[i]
      BY <2>2 DEF Elements
    <3>2. PICK k \in Len(s) + 1 .. Len(s) + Len(t) : k - Len(s) = i
      BY <1>1, <3>1, Len(s) + i \in Len(s) + 1 .. Len(s) + Len(t)
    <3>3. k \in DOMAIN u /\ u[k] = x
      BY <1>1, <1>4, <3>1, <3>2
    <3> QED
      BY <3>3 DEF Elements
  <2> QED
    BY <2>1, <2>2
<1>6. ASSUME NEW x \in Elements(u)
      PROVE  x \in Elements(s) \cup Elements(t)
  <2>1. PICK k \in DOMAIN u : x = u[k]
    BY <1>6 DEF Elements
  <2>2. CASE k \in 1 .. Len(s)
    BY <1>1, <1>4, <2>1, <2>2
  <2>3. CASE k \in Len(s) + 1 .. Len(s) + Len(t)
    <3>1. k - Len(s) \in DOMAIN t
      BY <1>1, <2>3
    <3> QED
      BY <1>1, <1>4, <2>1, <2>3, <3>1
  <2> QED
    BY <1>1, <1>4, <2>1, <2>2, <2>3
<1>7. u \in Seq(Elements(u))
  <2>1. u \in [1 .. Len(u) -> Elements(u)]
    BY <1>4 DEF Elements
  <2> QED
    BY <1>1, <1>4, <2>1, LengthOf
<1> QED
  BY <1>5, <1>6, <1>7 DEF u

\* The joins of an answer are lists, whose bodies are named for their pods.
JoinsRead(joins) == \A j \in DOMAIN Joins : ReadFrom(ItemsOf(joins, Joins[j]))

NamedPods(joins) == UNION {PodsIn(ItemsOf(joins, Joins[j])) : j \in DOMAIN Joins}

LEMMA AllItemsAre ==
    ASSUME NEW joins, JoinsRead(joins)
    PROVE  /\ AllItems(joins) \in Seq(Elements(AllItems(joins)))
           /\ PodsIn(AllItems(joins)) = NamedPods(joins)
<1> DEFINE a == ItemsOf(joins, "machine")
           b == ItemsOf(joins, "state")
           c == ItemsOf(joins, "tools")
           d == ItemsOf(joins, "events")
           all == AllItems(joins)
<1>1. /\ a \in Seq(Elements(a)) /\ b \in Seq(Elements(b))
      /\ c \in Seq(Elements(c)) /\ d \in Seq(Elements(d))
  BY JoinNames DEF JoinsRead, ReadFrom
<1>2. NamedPods(joins) = PodsIn(a) \cup PodsIn(b) \cup PodsIn(c) \cup PodsIn(d)
  <2>1. NamedPods(joins) = UNION {PodsIn(ItemsOf(joins, Joins[j])) : j \in {1, 2, 3, 4}}
    BY JoinNames, 1 .. 4 = {1, 2, 3, 4} DEF NamedPods
  <2>2. {PodsIn(ItemsOf(joins, Joins[j])) : j \in {1, 2, 3, 4}}
          = {PodsIn(a), PodsIn(b), PodsIn(c), PodsIn(d)}
    BY JoinNames
  <2> QED
    BY <2>1, <2>2
<1>3. all = ((a \o b) \o c) \o d
  BY <1>1 DEF AllItems
<1> HIDE DEF a, b, c, d, all
<1>4. all \in Seq(Elements(all))
      /\ Elements(all) = Elements(a) \cup Elements(b) \cup Elements(c) \cup Elements(d)
  <2>1. a \o b \in Seq(Elements(a \o b)) /\ Elements(a \o b) = Elements(a) \cup Elements(b)
    BY <1>1, OneAfterOther
  <2>2. /\ (a \o b) \o c \in Seq(Elements((a \o b) \o c))
        /\ Elements((a \o b) \o c) = Elements(a \o b) \cup Elements(c)
    BY <1>1, <2>1, OneAfterOther
  <2>3. /\ ((a \o b) \o c) \o d \in Seq(Elements(((a \o b) \o c) \o d))
        /\ Elements(((a \o b) \o c) \o d) = Elements((a \o b) \o c) \cup Elements(d)
    BY <1>1, <2>2, OneAfterOther
  <2> QED
    BY <1>3, <2>1, <2>2, <2>3
<1>5. \A items : PodsIn(items) = {x.pod : x \in Elements(items)} \ {None}
  BY DEF PodsIn, Elements
<1>6. PodsIn(all) = PodsIn(a) \cup PodsIn(b) \cup PodsIn(c) \cup PodsIn(d)
  BY <1>4, <1>5
<1> QED
  BY <1>2, <1>4, <1>6 DEF all

\* The pod's item in a join is one of its own.
LEMMA ItemOfPod ==
    ASSUME NEW items, ReadFrom(items), NEW pod \in PodsIn(items)
    PROVE  \E i \in DOMAIN items : items[i].pod = pod /\ ItemOf(items, pod) = items[i]
<1> DEFINE P == {i \in DOMAIN items : items[i].pod = pod}
<1>1. DOMAIN items = 1 .. Len(items) /\ Len(items) \in Nat
  BY DEF ReadFrom
<1>2. P \in SUBSET (1 .. Len(items)) /\ P # {}
  BY <1>1 DEF PodsIn
<1>3. \E i \in P : \A j \in P : j <= i
  BY <1>1, <1>2, FirstAndLast
<1>4. PICK last \in DOMAIN items :
        last = CHOOSE i \in DOMAIN items :
                 items[i].pod = pod /\ \A j \in DOMAIN items : items[j].pod = pod => j <= i
  BY <1>3
<1>5. items[last].pod = pod
  BY <1>3, <1>4
<1> QED
  BY <1>4, <1>5 DEF ItemOf

\* The pods in order: every pod a join names, once.
LEMMA PodsInOrder ==
    ASSUME NEW joins, JoinsRead(joins)
    PROVE  /\ Cardinality(NamedPods(joins)) \in Nat
           /\ DOMAIN PodOrder(joins) = 1 .. Cardinality(NamedPods(joins))
           /\ \A k \in DOMAIN PodOrder(joins) : PodOrder(joins)[k] \in NamedPods(joins)
           /\ \A p \in NamedPods(joins) : \E k \in DOMAIN PodOrder(joins) : PodOrder(joins)[k] = p
<1> DEFINE all == AllItems(joins)
           P == FirstOf(all)
           m == Cardinality(P)
           kept == At(all, P)
           order == PodOrder(joins)
           named == NamedPods(joins)
<1>1. DOMAIN all = 1 .. Len(all) /\ Len(all) \in Nat /\ PodsIn(all) = named
  BY AllItemsAre
<1>2. P \in SUBSET (1 .. Len(all))
  BY <1>1 DEF FirstOf
<1>3. /\ m \in Nat /\ DOMAIN kept = 1 .. m
      /\ \A k \in 1 .. m : \E i \in P : kept[k] = all[i]
      /\ \A i \in P : \E k \in 1 .. m : kept[k] = all[i]
      /\ \A k, l \in 1 .. m : k # l => \E i, j \in P : i # j /\ kept[k] = all[i] /\ kept[l] = all[j]
  <2>1. Keeps(kept, m, all, P)
    <3> HIDE DEF all, P
    <3> QED
      BY <1>1, <1>2, AtPlaces DEF m, kept
  <2> HIDE DEF all, P, m, kept
  <2> QED
    BY <2>1 DEF Keeps
<1>4. /\ \A i \in P : i \in DOMAIN all /\ all[i].pod # None /\ all[i].pod \in named
      /\ \A i, j \in P : i # j => all[i].pod # all[j].pod
  <2>1. \A i \in P : i \in DOMAIN all /\ all[i].pod # None
                       /\ \A j \in 1 .. i - 1 : all[j].pod # all[i].pod
    BY DEF FirstOf
  <2>2. \A i \in P : all[i].pod \in named
    BY <1>1, <2>1 DEF PodsIn
  <2>3. ASSUME NEW i \in P, NEW j \in P, i < j
        PROVE  all[i].pod # all[j].pod
    <3>1. i \in 1 .. j - 1
      BY <1>1, <2>1, <2>3
    <3> QED
      BY <2>1, <3>1
  <2>4. \A i, j \in P : i # j => i < j \/ j < i
    BY <1>1, <2>1
  <2> QED
    BY <2>1, <2>2, <2>3, <2>4
<1>5. ASSUME NEW p \in named
      PROVE  \E i \in P : all[i].pod = p
  <2> DEFINE Q == {i \in DOMAIN all : all[i].pod = p}
  <2>1. Q \in SUBSET (1 .. Len(all)) /\ Q # {} /\ p # None
    BY <1>1 DEF PodsIn
  <2>2. PICK i \in Q : \A j \in Q : i <= j
    BY <1>1, <2>1, FirstAndLast
  <2>3. \A j \in 1 .. i - 1 : j \in DOMAIN all /\ ~(i <= j)
    BY <1>1, <2>2
  <2>4. \A j \in 1 .. i - 1 : all[j].pod # p
    BY <2>2, <2>3
  <2> QED
    BY <2>1, <2>2, <2>4 DEF FirstOf
<1>6. DOMAIN order = DOMAIN kept /\ \A k \in DOMAIN kept : order[k] = kept[k].pod
  BY DEF PodOrder
<1> HIDE DEF all, P, m, kept, order, named
<1>7. order = [k \in 1 .. m |-> order[k]]
  BY <1>3, <1>6 DEF order, PodOrder, kept, P, all
<1>8. order \in [1 .. m -> named]
  BY <1>3, <1>4, <1>6, <1>7
<1>9. \A p \in named : \E k \in 1 .. m : order[k] = p
  <2> TAKE p \in named
  <2>1. PICK i \in P : all[i].pod = p
    BY <1>5
  <2>2. PICK k \in 1 .. m : kept[k] = all[i]
    BY <1>3
  <2> QED
    BY <1>3, <1>6, <2>1, <2>2
<1>10. ASSUME NEW k \in 1 .. m, NEW l \in 1 .. m, k # l
       PROVE  order[k] # order[l]
  <2>1. PICK i \in P, j \in P : i # j /\ kept[k] = all[i] /\ kept[l] = all[j]
    BY <1>3, <1>10
  <2>2. order[k] = all[i].pod /\ order[l] = all[j].pod
    <3>1. k \in DOMAIN kept /\ l \in DOMAIN kept
      BY <1>3
    <3>2. order[k] = kept[k].pod /\ order[l] = kept[l].pod
      BY <1>6, <3>1
    <3> QED
      BY <2>1, <3>2
  <2>3. all[i].pod # all[j].pod
    BY <1>4, <2>1
  <2> QED
    BY <2>2, <2>3
<1>11. order \in Bijection(1 .. m, named)
  BY <1>8, <1>9, <1>10 DEF Bijection, Injection, Surjection, IsInjective
<1>12. Cardinality(named) = m
  BY <1>3, <1>11, FS_CountingElements DEF ExistsBijection
<1> QED
  BY <1>3, <1>6, <1>8, <1>9, <1>12 DEF order, named

\* What a card says was read from its pod.
LEMMA CardOfPod ==
    ASSUME NEW joins, JoinsRead(joins), NEW pod \in NamedPods(joins)
    PROVE  LET c == Card(joins, pod)
           IN /\ c.pod = pod
              /\ \A f \in {c.machine, c.state, c.tools, c.events} : f \in {None, pod}
              /\ c.reachable => \E i \in DOMAIN joins.state :
                                   joins.state[i].pod = pod /\ joins.state[i].signal = "AgentMonitorRead"
<1> DEFINE held(join) == pod \in PodsIn(ItemsOf(joins, join))
           body(join) == IF held(join) THEN ItemOf(ItemsOf(joins, join), pod).body ELSE None
           c == Card(joins, pod)
<1>1. ASSUME NEW j \in 1 .. 4
      PROVE  body(Joins[j]) \in {None, pod}
  <2> DEFINE items == ItemsOf(joins, Joins[j])
  <2>1. ReadFrom(items)
    BY JoinNames DEF JoinsRead
  <2> HIDE DEF items
  <2>2. CASE pod \in PodsIn(items)
    <3>1. PICK i \in DOMAIN items : items[i].pod = pod /\ ItemOf(items, pod) = items[i]
      BY <2>1, <2>2, ItemOfPod
    <3>2. ItemOf(items, pod).body \in {None, pod}
      BY <2>1, <3>1 DEF ReadFrom
    <3> QED
      BY <2>2, <3>2 DEF items
  <2>3. CASE pod \notin PodsIn(items)
    BY <2>3 DEF items
  <2> QED
    BY <2>2, <2>3
<1>2. /\ body("machine") \in {None, pod} /\ body("state") \in {None, pod}
      /\ body("tools") \in {None, pod} /\ body("events") \in {None, pod}
  BY <1>1, JoinNames, 1 \in 1 .. 4, 2 \in 1 .. 4, 3 \in 1 .. 4, 4 \in 1 .. 4
<1>3. /\ c.pod = pod /\ c.machine = body("machine") /\ c.state = body("state")
      /\ c.tools = body("tools") /\ c.events = body("events")
      /\ c.reachable <=> held("state") /\ ItemOf(ItemsOf(joins, "state"), pod).signal = "AgentMonitorRead"
  BY DEF Card
<1>4. ASSUME c.reachable
      PROVE  \E i \in DOMAIN joins.state :
                joins.state[i].pod = pod /\ joins.state[i].signal = "AgentMonitorRead"
  <2> DEFINE items == ItemsOf(joins, "state")
  <2>1. held("state") /\ ItemOf(items, pod).signal = "AgentMonitorRead"
    BY <1>3, <1>4
  <2>2. ReadFrom(items)
    BY JoinNames DEF JoinsRead
  <2>3. items = joins.state
    BY <2>1 DEF ItemsOf, PodsIn
  <2> HIDE DEF items
  <2>4. pod \in PodsIn(items)
    BY <2>1 DEF items
  <2>5. PICK i \in DOMAIN items : items[i].pod = pod /\ ItemOf(items, pod) = items[i]
    BY <2>2, <2>4, ItemOfPod
  <2> QED
    BY <2>1, <2>3, <2>5
<1> HIDE DEF c, body, held
<1>5. c.machine \in {None, pod} /\ c.state \in {None, pod} /\ c.tools \in {None, pod} /\ c.events \in {None, pod}
  BY <1>2, <1>3
<1> QED
  BY <1>3, <1>4, <1>5 DEF c

LEMMA RankIsNumber ==
    ASSUME NEW name, NEW order, order \in Seq(Elements(order))
    PROVE  Rank(name, order) \in Nat
<1> DEFINE P == {k \in DOMAIN order : \A j \in 1 .. k : order[j] # name}
<1>1. IsFiniteSet(1 .. Len(order)) /\ DOMAIN order = 1 .. Len(order)
  BY FS_Interval
<1>2. IsFiniteSet(P)
  BY <1>1, FS_Subset
<1> QED
  BY <1>2, FS_CardinalityType DEF Rank

\* A reading order moves cards, and neither drops nor doubles one.
LEMMA OrderKeepsCards ==
    ASSUME NEW m \in Nat, NEW cards, NEW S, cards \in [1 .. m -> S], NEW prefix,
           NEW order, order \in Seq(Elements(order))
    PROVE  /\ Elements(orderAgents(cards, prefix, order)) = Elements(cards)
           /\ Len(orderAgents(cards, prefix, order)) = m
<1> DEFINE rank == [i \in 1 .. m |-> Rank(shortUnitName(cards[i].pod, prefix), order)]
           before == {p \in (DOMAIN cards) \X (DOMAIN cards) :
                         \/ Rank(shortUnitName(cards[p[1]].pod, prefix), order)
                              < Rank(shortUnitName(cards[p[2]].pod, prefix), order)
                         \/ Rank(shortUnitName(cards[p[1]].pod, prefix), order)
                              = Rank(shortUnitName(cards[p[2]].pod, prefix), order) /\ p[1] < p[2]}
           place == Ordered(DOMAIN cards, before)
           drawn == orderAgents(cards, prefix, order)
<1>1. \A i \in 1 .. m : rank[i] \in Nat /\ rank[i] = Rank(shortUnitName(cards[i].pod, prefix), order)
  BY RankIsNumber
<1>2. DOMAIN cards = 1 .. m
  OBVIOUS
<1>3. \A i, j \in 1 .. m :
         <<i, j>> \in before <=> (rank[i] < rank[j] \/ (rank[i] = rank[j] /\ i < j))
  BY <1>1, <1>2
<1>4. drawn = [k \in DOMAIN place |-> cards[place[k]]]
  BY DEF orderAgents
<1> HIDE DEF rank, before, drawn
<1>5. IsFiniteSet(1 .. m) /\ Cardinality(1 .. m) = m
  BY FS_Interval
<1>6. TotalOrder(1 .. m, before)
  <2>1. \A i \in 1 .. m : <<i, i>> \notin before
    BY <1>1, <1>3
  <2>2. \A i, j \in 1 .. m : i # j => <<i, j>> \in before \/ <<j, i>> \in before
    BY <1>1, <1>3
  <2>3. ASSUME NEW i \in 1 .. m, NEW j \in 1 .. m, NEW k \in 1 .. m,
               <<i, j>> \in before, <<j, k>> \in before
        PROVE  <<i, k>> \in before
    <3>1. rank[i] \in Nat /\ rank[j] \in Nat /\ rank[k] \in Nat
      BY <1>1
    <3>2. rank[i] < rank[j] \/ (rank[i] = rank[j] /\ i < j)
      BY <1>3, <2>3
    <3>3. rank[j] < rank[k] \/ (rank[j] = rank[k] /\ j < k)
      BY <1>3, <2>3
    <3>4. rank[i] < rank[k] \/ (rank[i] = rank[k] /\ i < k)
      BY <3>1, <3>2, <3>3
    <3> QED
      BY <1>3, <3>4
  <2> QED
    BY <1>5, <2>1, <2>2, <2>3 DEF TotalOrder
<1>7. /\ DOMAIN place = 1 .. m
      /\ \A k \in 1 .. m : place[k] \in 1 .. m
      /\ \A i \in 1 .. m : \E k \in 1 .. m : place[k] = i
  <2>1. TotalOrder(DOMAIN cards, before) /\ Cardinality(DOMAIN cards) = m
    BY <1>2, <1>5, <1>6
  <2>2. /\ DOMAIN place = 1 .. Cardinality(DOMAIN cards)
        /\ \A k \in 1 .. Cardinality(DOMAIN cards) : place[k] \in DOMAIN cards
        /\ \A i \in DOMAIN cards : \E k \in 1 .. Cardinality(DOMAIN cards) : place[k] = i
    BY <2>1, OrderedPlaces
  <2> HIDE DEF place
  <2> QED
    BY <1>2, <2>1, <2>2
<1> HIDE DEF place
<1>8. drawn \in [1 .. m -> S] /\ \A k \in 1 .. m : drawn[k] = cards[place[k]]
  BY <1>4, <1>7
<1>9. Len(drawn) = m
  BY <1>8, LengthOf
<1>10. Elements(drawn) = Elements(cards)
  <2>1. ASSUME NEW x \in Elements(cards)
        PROVE  x \in Elements(drawn)
    <3>1. PICK i \in 1 .. m : x = cards[i]
      BY <2>1 DEF Elements
    <3>2. PICK k \in 1 .. m : place[k] = i
      BY <1>7
    <3>3. k \in DOMAIN drawn /\ drawn[k] = x
      BY <1>8, <3>1, <3>2
    <3> QED
      BY <3>3 DEF Elements
  <2>2. ASSUME NEW x \in Elements(drawn)
        PROVE  x \in Elements(cards)
    <3>1. PICK k \in 1 .. m : x = drawn[k]
      BY <1>8, <2>2 DEF Elements
    <3>2. place[k] \in DOMAIN cards /\ x = cards[place[k]]
      BY <1>2, <1>7, <1>8, <3>1
    <3> QED
      BY <3>2 DEF Elements
  <2> QED
    BY <2>1, <2>2
<1> QED
  BY <1>9, <1>10 DEF drawn

\* One card for every pod, in whatever order.
LEMMA OneCardPerPod ==
    ASSUME NEW joins, JoinsRead(joins)
    PROVE  LET cards == fleetAgents(joins)
           IN /\ {c.pod : c \in Elements(cards)} = NamedPods(joins)
              /\ Len(cards) = Cardinality(NamedPods(joins))
              /\ \A c \in Elements(cards) : \E p \in NamedPods(joins) : c = Card(joins, p)
              /\ \A prefix : \A order : order \in Seq(Elements(order)) =>
                    /\ Elements(orderAgents(cards, prefix, order)) = Elements(cards)
                    /\ Len(orderAgents(cards, prefix, order)) = Len(cards)
<1> DEFINE cards == fleetAgents(joins)
           order == PodOrder(joins)
           named == NamedPods(joins)
           m == Cardinality(named)
           S == {Card(joins, p) : p \in named}
<1>1. /\ m \in Nat /\ DOMAIN order = 1 .. m
      /\ \A k \in 1 .. m : order[k] \in named
      /\ \A p \in named : \E k \in 1 .. m : order[k] = p
  BY PodsInOrder
<1>2. cards = [k \in 1 .. m |-> Card(joins, order[k])]
  BY <1>1 DEF fleetAgents
<1>3. \A p \in named : Card(joins, p).pod = p
  BY CardOfPod
<1> HIDE DEF cards, order, named, m
<1>4. cards \in [1 .. m -> S] /\ \A k \in 1 .. m : cards[k] = Card(joins, order[k])
  BY <1>1, <1>2
<1>5. Len(cards) = m
  BY <1>1, <1>4, LengthOf
<1>6. Elements(cards) = S
  <2>1. \A x \in Elements(cards) : x \in S
    BY <1>4 DEF Elements
  <2>2. ASSUME NEW p \in named
        PROVE  Card(joins, p) \in Elements(cards)
    <3>1. PICK k \in 1 .. m : order[k] = p
      BY <1>1
    <3>2. k \in DOMAIN cards /\ cards[k] = Card(joins, p)
      BY <1>4, <3>1
    <3> QED
      BY <3>2 DEF Elements
  <2> QED
    BY <2>1, <2>2
<1>7. {c.pod : c \in Elements(cards)} = named
  BY <1>3, <1>6
<1>8. ASSUME NEW prefix, NEW given, given \in Seq(Elements(given))
      PROVE  /\ Elements(orderAgents(cards, prefix, given)) = Elements(cards)
             /\ Len(orderAgents(cards, prefix, given)) = Len(cards)
  <2> HIDE DEF S
  <2> QED
    <3>1. m \in Nat /\ cards \in [1 .. m -> S]
      BY <1>1, <1>4
    <3>2. /\ Elements(orderAgents(cards, prefix, given)) = Elements(cards)
          /\ Len(orderAgents(cards, prefix, given)) = m
      BY <1>8, <3>1, OrderKeepsCards, Zenon
    <3> QED
      BY <1>5, <3>2
<1> QED
  BY <1>5, <1>6, <1>7, <1>8 DEF cards, named, m

-----------------------------------------------------------------------------
\* The polls and the figure.

\* Polls are numbered as they begin, and answered polls are among them.
Numbered ==
    /\ ticks \in Nat /\ shown.n \in Nat /\ shown.n <= ticks
    /\ answered \subseteq 1 .. ticks
    /\ \A p \in polls : p.n \in 1 .. ticks /\ {"n", "step"} \subseteq DOMAIN p

\* A poll alone is the last, and what it has read and not yet shown is known by
\* its step.
Alone ==
    ~overlap =>
        /\ \A p \in polls : p.n = ticks /\ polls = {p}
        /\ \A n \in answered : n <= shown.n \/ \E p \in polls : p.n = n /\ p.step = "state"

\* The data on the page has its figure, or a read that counts is to bring it.
Drawn ==
    /\ live = shown.n
    /\ figure.n = live \/ \E r \in reads : r.n = live
    /\ \A r \in reads : {"n", "step"} \subseteq DOMAIN r

\* Every fleet read or shown is one the observer gave.
Given ==
    /\ fleet \in DOMAIN Fleets
    /\ shown.fleet \in {Empty} \cup DOMAIN Fleets
    /\ \A p \in polls : "fleet" \in DOMAIN p /\ (p.step = "state" => p.fleet \in DOMAIN Fleets)

BoardInv == Numbered /\ Alone /\ Drawn

-----------------------------------------------------------------------------
LEMMA BoardInit == Init => BoardInv
<1> SUFFICES ASSUME Init PROVE BoardInv
  OBVIOUS
<1> DEFINE p0 == [n |-> 1, step |-> "fleet", fleet |-> Empty]
           r0 == FirstRead(0, Empty)
<1>1. /\ p0.n = 1 /\ {"n", "step"} \subseteq DOMAIN p0
      /\ r0.n = 0 /\ {"n", "step"} \subseteq DOMAIN r0
  BY DEF FirstRead
<1>2. /\ polls = {p0} /\ ticks = 1 /\ shown.n = 0 /\ answered = {}
      /\ reads = {r0} /\ live = 0
  BY DEF Init
<1> HIDE DEF p0, r0
<1> QED BY <1>1, <1>2 DEF BoardInv, Numbered, Alone, Drawn

LEMMA TickKeeps ==
    ASSUME BoardInv, Tick
    PROVE  BoardInv'
<1> USE DEF BoardInv
<1> DEFINE new == [n |-> ticks + 1, step |-> "fleet", fleet |-> Empty]
<1>1. /\ ticks' = ticks + 1 /\ polls' = polls \cup {new} /\ overlap' = (overlap \/ polls # {})
      /\ shown' = shown /\ answered' = answered
      /\ figure' = figure /\ reads' = reads /\ live' = live
  BY DEF Tick, figureVars
<1>2. new.n = ticks + 1 /\ {"n", "step"} \subseteq DOMAIN new
  OBVIOUS
<1> HIDE DEF new
<1>3. Numbered'
  BY <1>1, <1>2 DEF Numbered
<1>4. Alone'
  <2> SUFFICES ASSUME ~overlap' PROVE
        /\ \A p \in polls' : p.n = ticks' /\ polls' = {p}
        /\ \A n \in answered' : n <= shown'.n \/ \E p \in polls' : p.n = n /\ p.step = "state"
    BY DEF Alone
  <2>1. polls = {} /\ ~overlap /\ polls' = {new}
    BY <1>1
  <2> QED BY <1>1, <1>2, <2>1 DEF Alone
<1>5. Drawn'
  BY <1>1 DEF Drawn
<1> QED BY <1>3, <1>4, <1>5

LEMMA FleetReadKeeps ==
    ASSUME BoardInv, NEW p \in polls, FleetRead(p)
    PROVE  BoardInv'
<1> USE DEF BoardInv
<1> DEFINE q == [p EXCEPT !.step = "state", !.fleet = fleet]
<1>1. /\ polls' = (polls \ {p}) \cup {q} /\ answered' = answered \cup {p.n}
      /\ ticks' = ticks /\ overlap' = overlap /\ shown' = shown
      /\ figure' = figure /\ reads' = reads /\ live' = live
  BY DEF FleetRead, figureVars
<1>2. p.n \in 1 .. ticks /\ {"n", "step"} \subseteq DOMAIN p /\ ticks \in Nat
  BY DEF Numbered
<1>3. q.n = p.n /\ q.step = "state" /\ {"n", "step"} \subseteq DOMAIN q
  BY <1>2
<1> HIDE DEF q
<1>4. Numbered'
  BY <1>1, <1>2, <1>3 DEF Numbered
<1>5. Alone'
  <2> SUFFICES ASSUME ~overlap PROVE
        /\ \A x \in polls' : x.n = ticks /\ polls' = {x}
        /\ \A n \in answered' : n <= shown.n \/ \E x \in polls' : x.n = n /\ x.step = "state"
    BY <1>1 DEF Alone
  <2>1. polls = {p}
    BY DEF Alone
  <2>2. polls' = {q}
    BY <1>1, <2>1
  <2>3. \A n \in answered : n <= shown.n \/ n = p.n
    BY <2>1 DEF Alone
  <2> QED BY <1>1, <1>3, <2>1, <2>2, <2>3 DEF Alone
<1>6. Drawn'
  BY <1>1 DEF Drawn
<1> QED BY <1>4, <1>5, <1>6

LEMMA FleetFailedKeeps ==
    ASSUME BoardInv, NEW p \in polls, FleetFailed(p)
    PROVE  BoardInv'
<1> USE DEF BoardInv
<1>1. /\ p.step = "fleet" /\ polls' = polls \ {p} /\ answered' = answered
      /\ ticks' = ticks /\ overlap' = overlap /\ shown' = shown
      /\ figure' = figure /\ reads' = reads /\ live' = live
  BY DEF FleetFailed, figureVars
<1>2. Numbered' /\ Drawn'
  BY <1>1 DEF Numbered, Drawn
<1>3. Alone'
  <2> SUFFICES ASSUME ~overlap PROVE
        /\ polls' = {}
        /\ \A n \in answered : n <= shown.n
    BY <1>1 DEF Alone
  <2>1. polls = {p}
    BY DEF Alone
  <2> QED BY <1>1, <2>1 DEF Alone
<1> QED BY <1>2, <1>3

LEMMA StateAnsweredKeeps ==
    ASSUME BoardInv, NEW p \in polls, StateAnswered(p)
    PROVE  BoardInv'
<1> USE DEF BoardInv
<1> DEFINE new == FirstRead(p.n, p.fleet)
<1>1. /\ polls' = polls \ {p} /\ answered' = answered /\ ticks' = ticks /\ overlap' = overlap
      /\ shown'.n = p.n /\ live' = p.n /\ reads' = reads \cup {new} /\ figure' = figure
  BY DEF StateAnswered
<1>2. new.n = p.n /\ {"n", "step"} \subseteq DOMAIN new
  BY DEF FirstRead
<1> HIDE DEF new
<1>3. Numbered' /\ Drawn'
  BY <1>1, <1>2 DEF Numbered, Drawn
<1>4. Alone'
  <2> SUFFICES ASSUME ~overlap PROVE
        /\ polls' = {}
        /\ \A n \in answered : n <= p.n
    BY <1>1 DEF Alone
  <2>1. polls = {p} /\ p.n = ticks
    BY DEF Alone
  <2> QED BY <1>1, <2>1 DEF Numbered
<1> QED BY <1>3, <1>4

\* The figure's reads leave the polls as they are.
LEMMA PollsStand ==
    ASSUME Numbered, Alone, UNCHANGED pollVars
    PROVE  Numbered' /\ Alone'
BY DEF pollVars, Numbered, Alone

LEMMA TraceListReadKeeps ==
    ASSUME BoardInv, NEW r \in reads, TraceListRead(r)
    PROVE  BoardInv'
<1> USE DEF BoardInv
<1> DEFINE q == [r EXCEPT !.step = "traces", !.picked = selectTopologyTraces(Collected[traces])]
<1>1. /\ reads' = (reads \ {r}) \cup {q} /\ UNCHANGED pollVars
      /\ figure' = figure /\ live' = live
  BY DEF TraceListRead
<1>2. {"n", "step"} \subseteq DOMAIN r
  BY DEF Drawn
<1>3. q.n = r.n /\ {"n", "step"} \subseteq DOMAIN q
  BY <1>2
<1> HIDE DEF q
<1>4. Drawn'
  BY <1>1, <1>3 DEF Drawn, pollVars
<1> QED BY <1>1, <1>4, PollsStand

\* A read that ends: its figure is of its data.
LEMMA ReadEnds ==
    ASSUME BoardInv, NEW r \in reads, reads' = reads \ {r}, UNCHANGED <<pollVars, live>>,
           figure' = figure \/ figure'.n = r.n, Counts(r) => figure'.n = r.n,
           ~Counts(r) => figure' = figure
    PROVE  BoardInv'
<1>1. Drawn'
  BY DEF BoardInv, Drawn, Counts, pollVars
<1> QED BY <1>1, PollsStand DEF BoardInv

LEMMA TraceListFailedKeeps ==
    ASSUME BoardInv, NEW r \in reads, TraceListFailed(r)
    PROVE  BoardInv'
<1>1. Degraded(r).n = r.n
  BY DEF Degraded
<1> QED BY <1>1, ReadEnds DEF TraceListFailed

LEMMA TracesReadKeeps ==
    ASSUME BoardInv, NEW r \in reads, NEW failing, TracesRead(r, failing)
    PROVE  BoardInv'
<1> DEFINE got == SelectSeq(r.picked, LAMBDA t : t.id \notin failing)
           blank == \A i \in DOMAIN got : got[i].spans = <<>>
           ready == [status |-> "ready", n |-> r.n, fleet |-> r.fleet, traces |-> got]
<1>1. /\ reads' = reads \ {r} /\ UNCHANGED <<pollVars, live>>
      /\ figure' = IF ~Counts(r) THEN figure ELSE IF blank THEN Degraded(r) ELSE ready
  BY DEF TracesRead
<1>2. Degraded(r).n = r.n /\ ready.n = r.n
  BY DEF Degraded
<1> HIDE DEF blank, ready
<1> QED BY <1>1, <1>2, ReadEnds

LEMMA BoardStep ==
    ASSUME BoardInv, [Next]_vars
    PROVE  BoardInv'
<1>1. CASE Change
  BY <1>1, PollsStand DEF Change, figureVars, pollVars, BoardInv, Drawn
<1>2. CASE Tick
  BY <1>2, TickKeeps
<1>3. ASSUME NEW p \in polls, FleetRead(p)
      PROVE  BoardInv'
  BY <1>3, FleetReadKeeps
<1>4. ASSUME NEW p \in polls, FleetFailed(p)
      PROVE  BoardInv'
  BY <1>4, FleetFailedKeeps
<1>5. ASSUME NEW p \in polls, StateAnswered(p)
      PROVE  BoardInv'
  BY <1>5, StateAnsweredKeeps
<1>6. ASSUME NEW r \in reads, TraceListRead(r)
      PROVE  BoardInv'
  BY <1>6, TraceListReadKeeps
<1>7. ASSUME NEW r \in reads, TraceListFailed(r)
      PROVE  BoardInv'
  BY <1>7, TraceListFailedKeeps
<1>8. ASSUME NEW r \in reads, NEW failing, TracesRead(r, failing)
      PROVE  BoardInv'
  BY <1>8, TracesReadKeeps
<1>9. CASE UNCHANGED vars
  BY <1>9, PollsStand DEF vars, figureVars, pollVars, BoardInv, Drawn
<1> QED BY <1>1, <1>2, <1>3, <1>4, <1>5, <1>6, <1>7, <1>8, <1>9 DEF Next, Answers

LEMMA BoardInvariant == Spec => []BoardInv
<1>1. BoardInv /\ [Next]_vars => BoardInv'
  BY BoardStep
<1> QED BY <1>1, BoardInit, PTL DEF Spec

\* Polls that do not overlap leave the last fleet read on the page, and the figure
\* comes to be of that fleet, however late an earlier one's reads answer
\* (PageFollowsFleet).
THEOREM PageIsOfFleet == Spec => []PageFollowsFleet
<1>1. BoardInv => PageFollowsFleet
  BY DEF BoardInv, Alone, Drawn, PageFollowsFleet
<1> QED BY <1>1, BoardInvariant, PTL

-----------------------------------------------------------------------------
\* The fleets.

LEMMA FleetNumbers == DOMAIN Fleets = 1 .. Len(Fleets) /\ Len(Fleets) \in Nat \ {0}
<1>1. DOMAIN Fleets = 1 .. Len(Fleets) /\ Len(Fleets) \in Nat /\ Fleets # <<>>
  BY ItemsAssumption, FleetAssumption
<1>2. Len(Fleets) # 0
  BY <1>1, ItemsAssumption
<1> QED
  BY <1>1, <1>2

LEMMA GivenInit == Init => Given
<1> SUFFICES ASSUME Init PROVE Given
  OBVIOUS
<1> DEFINE p0 == [n |-> 1, step |-> "fleet", fleet |-> Empty]
<1>1. "fleet" \in DOMAIN p0 /\ p0.step = "fleet"
  OBVIOUS
<1>2. polls = {p0} /\ fleet = 1 /\ shown.fleet = Empty
  BY DEF Init
<1> HIDE DEF p0
<1> QED
  BY <1>1, <1>2, FleetNumbers DEF Given

LEMMA GivenStep ==
    ASSUME Given, [Next]_vars
    PROVE  Given'
<1>1. CASE Change
  <2>1. polls' = polls /\ shown' = shown
    BY <1>1 DEF Change, pollVars
  <2>2. fleet' \in DOMAIN Fleets
    BY <1>1, FleetNumbers DEF Change, Given
  <2> QED
    BY <2>1, <2>2 DEF Given
<1>2. CASE Tick
  <2> DEFINE new == [n |-> ticks + 1, step |-> "fleet", fleet |-> Empty]
  <2>1. polls' = polls \cup {new} /\ fleet' = fleet /\ shown' = shown
    BY <1>2 DEF Tick
  <2>2. "fleet" \in DOMAIN new /\ new.step = "fleet"
    OBVIOUS
  <2> HIDE DEF new
  <2> QED
    BY <2>1, <2>2 DEF Given
<1>3. ASSUME NEW p \in polls, FleetRead(p)
      PROVE  Given'
  <2> DEFINE q == [p EXCEPT !.step = "state", !.fleet = fleet]
  <2>1. polls' = (polls \ {p}) \cup {q} /\ fleet' = fleet /\ shown' = shown
    BY <1>3 DEF FleetRead
  <2>2. "fleet" \in DOMAIN q /\ q.fleet = fleet
    BY DEF Given
  <2> HIDE DEF q
  <2> QED
    BY <2>1, <2>2 DEF Given
<1>4. ASSUME NEW p \in polls, FleetFailed(p)
      PROVE  Given'
  BY <1>4 DEF FleetFailed, Given
<1>5. ASSUME NEW p \in polls, StateAnswered(p)
      PROVE  Given'
  <2>1. polls' = polls \ {p} /\ fleet' = fleet /\ shown'.fleet = p.fleet /\ p.step = "state"
    BY <1>5 DEF StateAnswered
  <2> QED
    BY <2>1 DEF Given
<1>6. ASSUME NEW r \in reads,
             TraceListRead(r) \/ TraceListFailed(r) \/ \E failing : TracesRead(r, failing)
      PROVE  Given'
  BY <1>6 DEF TraceListRead, TraceListFailed, TracesRead, pollVars, Given
<1>7. CASE UNCHANGED vars
  BY <1>7 DEF vars, pollVars, Given
<1> QED
  BY <1>1, <1>2, <1>3, <1>4, <1>5, <1>6, <1>7 DEF Next, Answers

LEMMA EmptyRead == JoinsRead(DataOf(Empty).joins)
<1> DEFINE joins == DataOf(Empty).joins
<1>1. joins = [machine |-> None, state |-> None, tools |-> None, events |-> None]
  BY DEF DataOf
<1>2. \A j \in 1 .. 4 : ItemsOf(joins, Joins[j]) = <<>>
  <2>1. joins["machine"] = None /\ joins["state"] = None /\ joins["tools"] = None /\ joins["events"] = None
    BY <1>1
  <2> HIDE DEF joins
  <2>2. /\ ItemsOf(joins, "machine") = <<>> /\ ItemsOf(joins, "state") = <<>>
        /\ ItemsOf(joins, "tools") = <<>> /\ ItemsOf(joins, "events") = <<>>
    BY <2>1 DEF ItemsOf
  <2> QED
    BY <2>2, JoinNames
<1>3. ReadFrom(<<>>)
  BY DEF ReadFrom, Elements
<1> QED
  BY <1>2, <1>3, JoinNames DEF JoinsRead

\* Every pod an answer names has one card with what was read from it, wherever the
\* application's reading order puts it (CardsAreTheirPods).
THEOREM CardsAreOfTheirPods == Spec => []CardsAreTheirPods
<1>1. Given /\ [Next]_vars => Given'
  BY GivenStep
<1>2. ASSUME Given
      PROVE  CardsAreTheirPods
  <2> DEFINE joins == Data.joins
             cards == fleetAgents(joins)
             named == NamedPods(joins)
  <2>1. JoinsRead(joins)
    <3>1. CASE shown.fleet = Empty
      BY <3>1, EmptyRead DEF Data
    <3>2. CASE shown.fleet \in DOMAIN Fleets
      <4>1. Data = Fleets[shown.fleet]
        BY <3>2, FleetNumbers DEF Data, DataOf, Empty
      <4> QED
        BY <3>2, <4>1, ItemsAssumption DEF JoinsRead
    <3> QED
      BY <1>2, <3>1, <3>2 DEF Given
  <2> HIDE DEF joins
  <2>2. /\ {c.pod : c \in Elements(cards)} = named /\ Len(cards) = Cardinality(named)
        /\ \A c \in Elements(cards) : \E p \in named : c = Card(joins, p)
        /\ \A prefix : \A order : order \in Seq(Elements(order)) =>
              /\ Elements(orderAgents(cards, prefix, order)) = Elements(cards)
              /\ Len(orderAgents(cards, prefix, order)) = Len(cards)
    BY <2>1, OneCardPerPod
  <2> HIDE DEF cards, named
  <2>3. ASSUME NEW c \in Elements(cards)
        PROVE  /\ \A f \in {c.machine, c.state, c.tools, c.events} : f \in {None, c.pod}
               /\ c.reachable => \E i \in DOMAIN joins.state :
                                    /\ joins.state[i].pod = c.pod
                                    /\ joins.state[i].signal = "AgentMonitorRead"
    <3>1. PICK p \in named : c = Card(joins, p)
      BY <2>2
    <3>2. p \in NamedPods(joins)
      BY DEF named
    <3>3. /\ Card(joins, p).pod = p
          /\ \A f \in {Card(joins, p).machine, Card(joins, p).state, Card(joins, p).tools,
                       Card(joins, p).events} : f \in {None, p}
          /\ Card(joins, p).reachable =>
                \E i \in DOMAIN joins.state :
                   joins.state[i].pod = p /\ joins.state[i].signal = "AgentMonitorRead"
      BY <2>1, <3>2, CardOfPod
    <3> QED
      BY <3>1, <3>3
  <2>4. \A order \in Orders :
          LET drawn == orderAgents(cards, PrefixOf(Data), order)
          IN Elements(drawn) = Elements(cards) /\ Len(drawn) = Len(cards)
    BY <2>2, ItemsAssumption
  <2> QED
    BY <2>2, <2>3, <2>4 DEF CardsAreTheirPods, cards, named, joins, NamedPods
<1> QED
  BY <1>1, <1>2, GivenInit, PTL DEF Spec
=============================================================================
