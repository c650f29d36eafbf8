---------------------------- MODULE RoutingProofs ----------------------------
(***************************************************************************)
(* Proofs about Placement and about the control plane and the routes of    *)
(* Migration.  In order:                                                   *)
(*                                                                         *)
(*   - what the owners of a bucket are, for any membership, replication    *)
(*     factor, scores and racks;                                           *)
(*   - ExclusionInv: the gate keeps calls and the moves of a chunk apart;  *)
(*   - RouteInv: the overlay, the journal and the migrator always describe *)
(*     the same rebalance, and a call inside the gate keeps its owners.    *)
(***************************************************************************)
EXTENDS Migration, FiniteSetTheorems, TLAPS

\* A leaf is for Zenon unless it names another prover.
USE Zenon

\* before is a strict total order on S
Ordered(S, before) ==
  /\ \A x \in S : <<x, x>> \notin before
  /\ \A x, y, z \in S : <<x, y>> \in before /\ <<y, z>> \in before => <<x, z>> \in before
  /\ \A x, y \in S : x = y \/ <<x, y>> \in before \/ <<y, x>> \in before

Preceding(S, before, x) == {y \in S : <<y, x>> \in before}

\* In a finite set, an element that precedes another one has fewer elements before it.
LEMMA FewerBefore ==
  ASSUME NEW S, IsFiniteSet(S), NEW before, Ordered(S, before),
         NEW x \in S, NEW y \in S, <<x, y>> \in before
  PROVE  /\ Cardinality(Preceding(S, before, x)) \in Nat
         /\ Cardinality(Preceding(S, before, x)) < Cardinality(Preceding(S, before, y))
PROOF
  <1> DEFINE px == Preceding(S, before, x)
             py == Preceding(S, before, y)
  <1>1. px \in SUBSET S /\ py \in SUBSET S
    BY DEF Preceding
  <1>2. IsFiniteSet(px) /\ IsFiniteSet(py)
    BY <1>1, FS_Subset
  <1>3. x \notin px /\ px \cup {x} \in SUBSET py
    BY DEF Ordered, Preceding
  <1> HIDE DEF px, py
  <1>4. Cardinality(px) \in Nat /\ Cardinality(py) \in Nat
    BY <1>2, FS_CardinalityType
  <1>5. Cardinality(px \cup {x}) = Cardinality(px) + 1
    BY <1>2, <1>3, FS_AddElement
  <1>6. Cardinality(px \cup {x}) <= Cardinality(py)
    BY <1>2, <1>3, FS_Subset
  <1> QED BY SMT, <1>4, <1>5, <1>6 DEF px, py

\* The elements of a finite ordered set are numbered 0, 1, ... by how many are before them.
LEMMA Numbered ==
  ASSUME NEW S, IsFiniteSet(S), NEW before, Ordered(S, before)
  PROVE  /\ Cardinality(S) \in Nat
         /\ \A x \in S : Cardinality(Preceding(S, before, x)) \in 0 .. Cardinality(S) - 1
         /\ \A x, y \in S : Cardinality(Preceding(S, before, x)) = Cardinality(Preceding(S, before, y)) => x = y
         /\ \A i \in 1 .. Cardinality(S) : \E x \in S : Cardinality(Preceding(S, before, x)) = i - 1
PROOF
  <1> DEFINE at(x) == Cardinality(Preceding(S, before, x))
             n == Cardinality(S)
             f == [x \in S |-> at(x) + 1]
  <1>1. n \in Nat
    BY FS_CardinalityType
  <1>2. ASSUME NEW x \in S PROVE at(x) \in 0 .. n - 1
    <2>1. Preceding(S, before, x) \in SUBSET (S \ {x})
      BY DEF Ordered, Preceding
    <2>2. IsFiniteSet(S \ {x}) /\ Cardinality(S \ {x}) = n - 1
      BY FS_RemoveElement
    <2>3. IsFiniteSet(Preceding(S, before, x)) /\ at(x) <= Cardinality(S \ {x})
      BY <2>1, <2>2, FS_Subset
    <2>4. at(x) \in Nat
      BY <2>3, FS_CardinalityType
    <2> QED BY SMT, <1>1, <2>2, <2>3, <2>4
  <1>3. ASSUME NEW x \in S, NEW y \in S, at(x) = at(y) PROVE x = y
    <2>1. at(x) \in Nat /\ at(y) \in Nat
      BY SMT, <1>1, <1>2
    <2>2. <<x, y>> \notin before /\ <<y, x>> \notin before
      BY SMT, <1>3, <2>1, FewerBefore
    <2> QED BY <2>2 DEF Ordered
  <1>4. f \in Injection(S, 1 .. n)
    <2>1. f \in [S -> 1 .. n]
      BY SMT, <1>1, <1>2
    <2>2. ASSUME NEW x \in S, NEW y \in S, f[x] = f[y] PROVE x = y
      <3>1. at(x) \in Int /\ at(y) \in Int
        BY SMT, <1>1, <1>2
      <3>2. at(x) = at(y)
        BY SMT, <2>2, <3>1
      <3> QED BY <1>3, <3>2
    <2> QED BY <2>1, <2>2 DEF Injection, IsInjective
  <1>5. f \in Surjection(S, 1 .. n)
    <2>1. IsFiniteSet(1 .. n) /\ Cardinality(1 .. n) = n
      BY SMT, <1>1, FS_Interval
    <2> QED BY <1>4, <2>1, FS_Injection
  <1>6. ASSUME NEW i \in 1 .. n PROVE \E x \in S : at(x) = i - 1
    <2>1. PICK x \in S : f[x] = i
      BY <1>5 DEF Surjection
    <2>2. at(x) \in Int
      BY SMT, <1>1, <1>2
    <2> QED BY SMT, <2>1, <2>2
  <1> QED BY <1>1, <1>2, <1>3, <1>6
-----------------------------------------------------------------------------
OrderOfChoice(b, members) ==
  {p \in members \X members : ChosenBefore(b, members, p[1], p[2])}

ByScore(b, S) == {p \in S \X S : Score[b][p[1]] > Score[b][p[2]]}

\* Every rack with a member has a first one.
LEMMA RackHasFirst ==
  ASSUME NEW b \in Buckets, NEW members \in SUBSET Nodes, NEW n \in members
  PROVE  \E l \in members : /\ Rack[l] = Rack[n] /\ FirstOfRack(b, members, l)
                            /\ Score[b][n] <= Score[b][l]
PROOF
  \* One node of a set that is not empty has the best score.
  <1>BestExists. ASSUME NEW S \in SUBSET Nodes, S # {}
                 PROVE  \E x \in S : \A y \in S : Score[b][y] <= Score[b][x]
    <2> USE <1>BestExists
    \* Scores order any set of nodes.
    <2>ScoresOrder. Ordered(S, ByScore(b, S))
      <3>1. \A x \in S : Score[b][x] \in Nat
        BY SMT, PlacementAssumption
      <3>2. \A x, y \in S : Score[b][x] = Score[b][y] => x = y
        BY PlacementAssumption
      <3>3. \A x, y \in S : <<x, y>> \in ByScore(b, S) <=> Score[b][x] > Score[b][y]
        BY DEF ByScore
      <3>4. \A x, y, z \in S : Score[b][x] > Score[b][y] /\ Score[b][y] > Score[b][z] => Score[b][x] > Score[b][z]
        BY SMT, <3>1
      <3>5. \A x, y \in S : ~(Score[b][x] > Score[b][x])
                            /\ (x = y \/ Score[b][x] > Score[b][y] \/ Score[b][y] > Score[b][x])
        BY SMT, <3>1, <3>2
      <3> QED BY <3>3, <3>4, <3>5 DEF Ordered
    <2>1. IsFiniteSet(S) /\ Cardinality(S) \in Nat /\ Cardinality(S) # 0
      BY FS_Subset, FS_EmptySet, FS_CardinalityType, PlacementAssumption
    <2>2. PICK x \in S : Cardinality(Preceding(S, ByScore(b, S), x)) = 1 - 1
      BY SMT, <2>1, <2>ScoresOrder, Numbered
    <2>3. Preceding(S, ByScore(b, S), x) \in SUBSET S
      BY DEF Preceding
    <2>4. Preceding(S, ByScore(b, S), x) = {}
      BY SMT, <2>1, <2>2, <2>3, FS_Subset, FS_EmptySet
    <2>5. \A y \in S : Score[b][y] \in Nat
      BY SMT, PlacementAssumption
    <2>6. ASSUME NEW y \in S PROVE Score[b][y] <= Score[b][x]
      <3>1. <<y, x>> \notin ByScore(b, S)
        BY <2>4 DEF Preceding
      <3> QED BY SMT, <2>5, <3>1 DEF ByScore
    <2> QED BY <2>6
  <1> DEFINE S == {m \in members : Rack[m] = Rack[n]}
  <1>1. S \in SUBSET Nodes /\ n \in S
    OBVIOUS
  <1>2. PICK l \in S : \A y \in S : Score[b][y] <= Score[b][l]
    BY <1>1, <1>BestExists
  <1> QED BY <1>1, <1>2 DEF FirstOfRack

\* pick's two passes choose the members one after the other.
LEMMA ChoiceOrders ==
  ASSUME NEW b \in Buckets, NEW members \in SUBSET Nodes
  PROVE  /\ Ordered(members, OrderOfChoice(b, members))
         /\ \A n \in members : Preceding(members, OrderOfChoice(b, members), n)
                                = {m \in members : ChosenBefore(b, members, m, n)}
PROOF
  <1> DEFINE first(x) == FirstOfRack(b, members, x)
  <1>1. \A x \in members : Score[b][x] \in Nat
    BY SMT, PlacementAssumption
  <1>2. \A x, y \in members : Score[b][x] = Score[b][y] => x = y
    BY PlacementAssumption
  <1>3. \A x, y \in members : <<x, y>> \in OrderOfChoice(b, members) <=> ChosenBefore(b, members, x, y)
    BY DEF OrderOfChoice
  <1>4. \A x \in members : first(x) \in BOOLEAN
    BY DEF FirstOfRack
  <1>5. \A x, y \in members :
          ChosenBefore(b, members, x, y) <=>
            \/ first(x) /\ ~first(y)
            \/ (first(x) <=> first(y)) /\ Score[b][x] > Score[b][y]
    BY <1>4 DEF ChosenBefore
  <1> HIDE DEF first
  <1>6. ASSUME NEW x \in members PROVE ~ChosenBefore(b, members, x, x)
    BY SMT, <1>1, <1>5
  <1>7. ASSUME NEW x \in members, NEW y \in members, NEW z \in members,
               ChosenBefore(b, members, x, y), ChosenBefore(b, members, y, z)
        PROVE  ChosenBefore(b, members, x, z)
    BY SMT, <1>1, <1>5, <1>7
  <1>8. ASSUME NEW x \in members, NEW y \in members, x # y
        PROVE  ChosenBefore(b, members, x, y) \/ ChosenBefore(b, members, y, x)
    BY SMT, <1>1, <1>2, <1>5, <1>8
  <1>9. Ordered(members, OrderOfChoice(b, members))
    BY <1>3, <1>6, <1>7, <1>8 DEF Ordered
  <1> QED BY <1>3, <1>9 DEF Preceding

\* The i-th owner is the member with i - 1 members chosen before it.
LEMMA OwnerAt ==
  ASSUME NEW b \in Buckets, NEW members \in SUBSET Nodes, NEW r \in Nat
  PROVE  /\ Cardinality(members) \in Nat
         /\ owners_of_bucket(b, members, r) \in Seq(members)
         /\ Len(owners_of_bucket(b, members, r)) = AtMost(r, Cardinality(members))
         /\ \A i \in 1 .. Len(owners_of_bucket(b, members, r)) :
              Cardinality({m \in members : ChosenBefore(b, members, m, owners_of_bucket(b, members, r)[i])}) = i - 1
PROOF
  \* The first n elements of a sequence.
  <1>Prefix. ASSUME NEW T, NEW s \in Seq(T), NEW n \in Nat, n <= Len(s)
             PROVE  /\ SubSeq(s, 1, n) \in Seq(T) /\ Len(SubSeq(s, 1, n)) = n
                    /\ \A i \in 1 .. n : SubSeq(s, 1, n)[i] = s[i]
    BY SMT, <1>Prefix
  <1> DEFINE size == Cardinality(members)
             before(n) == {m \in members : ChosenBefore(b, members, m, n)}
             at(i) == CHOOSE n \in members : Cardinality(before(n)) = i - 1
             list == [i \in 1 .. size |-> at(i)]
             len == AtMost(r, size)
  <1>1. IsFiniteSet(members)
    BY FS_Subset, PlacementAssumption
  <1>2. size \in Nat /\ \A i \in 1 .. size : \E n \in members : Cardinality(before(n)) = i - 1
    <2>1. Ordered(members, OrderOfChoice(b, members))
      BY ChoiceOrders
    <2>2. \A n \in members : Preceding(members, OrderOfChoice(b, members), n) = before(n)
      BY ChoiceOrders
    <2>3. /\ size \in Nat
          /\ \A i \in 1 .. size : \E n \in members :
               Cardinality(Preceding(members, OrderOfChoice(b, members), n)) = i - 1
      BY SMT, <1>1, <2>1, Numbered
    <2> HIDE DEF before, size
    <2> QED BY <2>2, <2>3
  <1>3. Choice[b][members] = list
    BY DEF Choice, Memberships
  <1> HIDE DEF before, size
  <1>4. \A i \in 1 .. size : at(i) \in members /\ Cardinality(before(at(i))) = i - 1
    BY <1>2
  <1> HIDE DEF at
  <1>5. list \in Seq(members) /\ Len(list) = size
    BY SMT, <1>2, <1>4
  <1>6. len \in Nat /\ len <= size
    BY SMT, <1>2 DEF AtMost
  <1>7. owners_of_bucket(b, members, r) = SubSeq(list, 1, len)
    BY <1>3, <1>5 DEF owners_of_bucket, pick, Take
  <1>8. /\ SubSeq(list, 1, len) \in Seq(members) /\ Len(SubSeq(list, 1, len)) = len
        /\ \A i \in 1 .. len : SubSeq(list, 1, len)[i] = list[i]
    BY <1>5, <1>6, <1>Prefix
  <1>9. \A i \in 1 .. len : i \in 1 .. size /\ list[i] = at(i)
    BY SMT, <1>2, <1>6
  <1> QED BY <1>2, <1>4, <1>7, <1>8, <1>9 DEF before, size

\* A bucket has min(r, |members|) owners, all different and all members.
LEMMA OwnersAre ==
  ASSUME NEW b \in Buckets, NEW members \in SUBSET Nodes, NEW r \in Nat
  PROVE  /\ Cardinality(members) \in Nat
         /\ owners_of_bucket(b, members, r) \in Seq(members)
         /\ OwnerSet(b, members, r) \subseteq members
         /\ IsFiniteSet(OwnerSet(b, members, r))
         /\ Cardinality(OwnerSet(b, members, r)) = AtMost(r, Cardinality(members))
         /\ Len(owners_of_bucket(b, members, r)) = AtMost(r, Cardinality(members))
PROOF
  <1> DEFINE o == owners_of_bucket(b, members, r)
             len == AtMost(r, Cardinality(members))
             before(n) == {m \in members : ChosenBefore(b, members, m, n)}
  <1>1. /\ Cardinality(members) \in Nat /\ o \in Seq(members) /\ Len(o) = len
        /\ \A i \in 1 .. Len(o) : Cardinality(before(o[i])) = i - 1
    BY OwnerAt
  <1>2. len \in Nat
    BY <1>1 DEF AtMost
  <1> HIDE DEF o, len, before
  <1>3. o \in [1 .. len -> members] /\ DOMAIN o = 1 .. len
    BY SMT, <1>1
  <1>4. OwnerSet(b, members, r) = {o[i] : i \in 1 .. len}
    BY <1>3 DEF OwnerSet, Range, o
  <1>5. o \in Surjection(1 .. len, OwnerSet(b, members, r))
    BY <1>3, <1>4 DEF Surjection
  <1>6. o \in Injection(1 .. len, OwnerSet(b, members, r))
    <2>1. ASSUME NEW i \in 1 .. len, NEW j \in 1 .. len, o[i] = o[j] PROVE i = j
      <3>1. i - 1 = j - 1
        BY <1>1, <2>1
      <3> QED BY SMT, <1>2, <3>1
    <2> QED BY <1>3, <1>5, <2>1 DEF Surjection, Injection, IsInjective
  <1>7. IsFiniteSet(1 .. len) /\ Cardinality(1 .. len) = len
    BY SMT, <1>2, FS_Interval
  <1>8. /\ IsFiniteSet(OwnerSet(b, members, r))
        /\ Cardinality(OwnerSet(b, members, r)) = len
    BY <1>5, <1>6, <1>7, FS_Surjection
  <1> QED BY <1>1, <1>3, <1>4, <1>8 DEF o, len
-----------------------------------------------------------------------------
(***************************************************************************)
(* A bucket has min(r, |members|) owners, no two of them the same node     *)
(* ("no duplicate replica", the test best_effort_when_more_replicas_than_  *)
(* racks of partitioner.rs), for any scores and racks.                     *)
(***************************************************************************)
THEOREM ReplicasDistinct ==
  ASSUME NEW b \in Buckets, NEW members \in SUBSET Nodes, NEW r \in Nat
  PROVE  LET o == owners_of_bucket(b, members, r)
         IN  /\ o \in Seq(members)
             /\ Len(o) = AtMost(r, Cardinality(members))
             /\ \A i, j \in 1 .. Len(o) : o[i] = o[j] => i = j
PROOF
  <1> DEFINE o == owners_of_bucket(b, members, r)
             before(n) == {m \in members : ChosenBefore(b, members, m, n)}
  <1>1. /\ Cardinality(members) \in Nat /\ o \in Seq(members)
        /\ Len(o) = AtMost(r, Cardinality(members))
        /\ \A i \in 1 .. Len(o) : Cardinality(before(o[i])) = i - 1
    BY OwnerAt, r \in Nat
  <1> HIDE DEF o, before
  <1>2. ASSUME NEW i \in 1 .. Len(o), NEW j \in 1 .. Len(o), o[i] = o[j] PROVE i = j
    <2>1. i - 1 = j - 1
      BY <1>1, <1>2
    <2> QED BY SMT, <1>1, <2>1
  <1> QED BY <1>1, <1>2 DEF o

(***************************************************************************)
(* The primary is the node with the best score ("the primary is still the  *)
(* HRW winner", partitioner.rs): racks only reorder the replicas.          *)
(***************************************************************************)
THEOREM PrimaryIsBest ==
  ASSUME NEW b \in Buckets, NEW members \in SUBSET Nodes, members # {}, NEW r \in Nat \ {0}
  PROVE  /\ owners_of_bucket(b, members, r) # <<>>
         /\ \A n \in members : Score[b][n] <= Score[b][Head(owners_of_bucket(b, members, r))]
PROOF
  <1> DEFINE o == owners_of_bucket(b, members, r)
             before(n) == {m \in members : ChosenBefore(b, members, m, n)}
             p == Head(o)
  <1>1. /\ Cardinality(members) \in Nat /\ o \in Seq(members)
        /\ Len(o) = AtMost(r, Cardinality(members))
        /\ \A i \in 1 .. Len(o) : Cardinality(before(o[i])) = i - 1
    BY OwnerAt, r \in Nat
  <1>2. IsFiniteSet(members) /\ Cardinality(members) # 0
    BY FS_Subset, FS_EmptySet, PlacementAssumption
  <1>3. 1 \in 1 .. Len(o)
    BY SMT, <1>1, <1>2 DEF AtMost
  <1> HIDE DEF o
  <1>4. o # <<>> /\ p = o[1] /\ p \in members
    BY SMT, <1>1, <1>3
  <1>5. before(p) = {}
    <2>1. Cardinality(before(p)) = 0
      BY SMT, <1>1, <1>3, <1>4
    <2>2. before(p) \in SUBSET members
      OBVIOUS
    <2> HIDE DEF before
    <2> QED BY <1>2, <2>1, <2>2, FS_Subset, FS_EmptySet
  <1> HIDE DEF p
  <1>6. ASSUME NEW n \in members PROVE Score[b][n] <= Score[b][p]
    <2>1. PICK l \in members : /\ FirstOfRack(b, members, l) /\ Score[b][n] <= Score[b][l]
      BY RackHasFirst
    <2>2. ~ChosenBefore(b, members, l, p)
      BY <1>5
    <2>3. FirstOfRack(b, members, p) /\ ~(Score[b][l] > Score[b][p])
      BY <2>1, <2>2 DEF ChosenBefore, FirstOfRack
    <2>4. Score[b][n] \in Nat /\ Score[b][l] \in Nat /\ Score[b][p] \in Nat
      BY SMT, <1>4, PlacementAssumption
    <2> QED BY SMT, <2>1, <2>3, <2>4
  <1> QED BY <1>4, <1>6 DEF o, p

(***************************************************************************)
(* Two replicas share a rack only when every rack of the membership holds  *)
(* one ("both racks represented", the tests of partitioner.rs; "best-      *)
(* effort: fill in HRW order once every rack is represented", pick).       *)
(***************************************************************************)
THEOREM RacksCovered ==
  ASSUME NEW b \in Buckets, NEW members \in SUBSET Nodes, NEW r \in Nat,
         NEW x \in OwnerSet(b, members, r), NEW y \in OwnerSet(b, members, r),
         x # y, Rack[x] = Rack[y]
  PROVE  \A n \in members : \E o \in OwnerSet(b, members, r) : Rack[o] = Rack[n]
PROOF
  <1> DEFINE o == owners_of_bucket(b, members, r)
             before(n) == {m \in members : ChosenBefore(b, members, m, n)}
  <1>1. /\ Cardinality(members) \in Nat /\ o \in Seq(members)
        /\ Len(o) = AtMost(r, Cardinality(members))
        /\ \A i \in 1 .. Len(o) : Cardinality(before(o[i])) = i - 1
    BY OwnerAt, r \in Nat
  <1>2. IsFiniteSet(members)
    BY FS_Subset, PlacementAssumption
  <1>3. /\ Ordered(members, OrderOfChoice(b, members))
        /\ \A n \in members : Preceding(members, OrderOfChoice(b, members), n) = before(n)
    BY ChoiceOrders
  <1>4. \A m \in members : Score[b][m] \in Nat
    BY SMT, PlacementAssumption
  <1>5. OwnerSet(b, members, r) \subseteq members
    BY OwnersAre
  <1>6. PICK z \in OwnerSet(b, members, r) : ~FirstOfRack(b, members, z)
    <2>1. Score[b][x] # Score[b][y]
      BY <1>5, PlacementAssumption
    <2>2. ~FirstOfRack(b, members, x) \/ ~FirstOfRack(b, members, y)
      BY SMT, <1>4, <1>5, <2>1 DEF FirstOfRack
    <2> QED BY <2>2
  <1>7. PICK j \in 1 .. Len(o) : o[j] = z
    BY SMT, <1>1 DEF OwnerSet, Range
  <1>8. ASSUME NEW l \in members, FirstOfRack(b, members, l) PROVE l \in OwnerSet(b, members, r)
    <2>1. ChosenBefore(b, members, l, z)
      BY <1>6, <1>8 DEF ChosenBefore, FirstOfRack
    <2>2. /\ Cardinality(before(l)) \in Nat
          /\ Cardinality(before(l)) < Cardinality(before(z))
      <3>1. z \in members /\ <<l, z>> \in OrderOfChoice(b, members)
        BY <1>5, <2>1 DEF OrderOfChoice
      <3> HIDE DEF before
      <3> QED BY <1>2, <1>3, <3>1, FewerBefore
    <2> HIDE DEF before, o
    <2> DEFINE i == Cardinality(before(l)) + 1
    <2>3. i \in 1 .. Len(o)
      BY SMT, <1>1, <1>7, <2>2
    <2>4. Cardinality(before(o[i])) = Cardinality(before(l)) /\ o[i] \in members
      BY SMT, <1>1, <2>2, <2>3
    <2>5. o[i] = l
      BY SMT, <1>2, <1>3, <2>4, Numbered
    <2> QED BY SMT, <1>1, <2>3, <2>5 DEF OwnerSet, Range, o
  <1>9. ASSUME NEW n \in members PROVE \E q \in OwnerSet(b, members, r) : Rack[q] = Rack[n]
    BY SMT, <1>8, RackHasFirst
  <1> QED BY <1>9
-----------------------------------------------------------------------------
Active == {"route", "route2", "call", "replicate"}
Moving == {"copy", "import", "drop"}
Holding == Moving \cup {"chunk", "drain", "nodes", "replication", "clients", "close"}

(***************************************************************************)
(* While the entries of a chunk are copied, cut over and dropped, no       *)
(* operation that entered through the gate is anywhere between its routing *)
(* and its last shard call in one of the chunk's buckets.                  *)
(***************************************************************************)
ChunkIsExclusive ==
  \A m \in Migrators, o \in Ops :
    mig[m].pc \in Moving /\ op[o].pc \in Active /\ Gated(op[o].kind) =>
      bucket_of[op[o].key] \notin mig[m].chunk

\* At most one migration is between taking the lock and releasing it.
OneMigration ==
  \A m, n \in Migrators : mig[m].pc \in Holding /\ mig[n].pc \in Holding => m = n

OpShape(f) == DOMAIN f = Ops /\ \A o \in Ops : {"pc", "kind", "key"} \subseteq DOMAIN f[o]

Shapes ==
  /\ OpShape(op)
  /\ DOMAIN mig = Migrators /\ \A m \in Migrators : {"pc", "chunk"} \subseteq DOMAIN mig[m]
  /\ entered \in [Ops -> Buckets \cup {NoBucket}]

LockInv == \A m \in Migrators : mig[m].pc \in Holding <=> migrating = m

OwnedInv ==
  /\ owned \subseteq frozen
  /\ \A o \in Ops : entered[o] # NoBucket => entered[o] \notin owned
  /\ \A m \in Migrators : mig[m].pc \in Moving => owned = mig[m].chunk

InsideInv ==
  \A o \in Ops : op[o].pc \in Active /\ Gated(op[o].kind) =>
    op[o].key \in Keys /\ entered[o] = bucket_of[op[o].key]

ExclusionInv == Shapes /\ LockInv /\ OwnedInv /\ InsideInv
-----------------------------------------------------------------------------
\* the only operation that f has elsewhere than op is o
OthersStay(f, o) ==
  \A p \in Ops \ {o} : f[p].pc = op[p].pc /\ f[p].kind = op[p].kind /\ f[p].key = op[p].key

\* Nothing is inside, frozen or on the move initially.
LEMMA ExclusionInit ==
  ASSUME Init
  PROVE  ExclusionInv
  BY MigrationAssumption DEF Init, GateInit, OpShape, IdleOp, IdleMig, ExclusionInv, Shapes, LockInv,
     OwnedInv,
                             InsideInv, Active, Moving, Holding

\* Recording what a read may return moves no operation.
LEMMA LegalStays ==
  ASSUME NEW f, OpShape(f), NEW k, NEW v
  PROVE  /\ OpShape(WithLegal(f, k, v))
         /\ \A o \in Ops : /\ WithLegal(f, k, v)[o].pc = f[o].pc
                           /\ WithLegal(f, k, v)[o].kind = f[o].kind
                           /\ WithLegal(f, k, v)[o].key = f[o].key
  BY DEF OpShape, WithLegal

\* ExclusionInv is inductive.
LEMMA ExclusionStep ==
  ASSUME ExclusionInv, [Next]_vars
  PROVE  ExclusionInv'
PROOF
  \* A step of operation o: it enters, goes on inside, or leaves.
  <1>OpMove. ASSUME NEW o \in Ops,
                    UNCHANGED <<frozen, owned, migrating, mig>>,
                    OpShape(op'), OthersStay(op', o),
                    \/ /\ entered' = entered
                       /\ op'[o].pc \in Active /\ Gated(op'[o].kind) =>
                            op[o].pc \in Active /\ op'[o].kind = op[o].kind /\ op'[o].key = op[o].key
                    \/ entered' = [entered EXCEPT ![o] = NoBucket] /\ op'[o].pc \notin Active
                    \/ Enter(o, bucket_of[op'[o].key]) /\ op'[o].key \in Keys
             PROVE  ExclusionInv'
    <2> USE <1>OpMove
    <2>1. Shapes'
      BY PlacementAssumption DEF ExclusionInv, Shapes, OpShape, Enter
    <2>2. LockInv'
      BY DEF ExclusionInv, LockInv
    <2>3. OwnedInv'
      BY DEF ExclusionInv, Shapes, OwnedInv, Enter
    <2>4. InsideInv'
      <3> SUFFICES ASSUME NEW p \in Ops, op'[p].pc \in Active, Gated(op'[p].kind)
                   PROVE  op'[p].key \in Keys /\ entered'[p] = bucket_of[op'[p].key]
        BY DEF InsideInv
      <3>1. CASE p = o
        BY <3>1 DEF ExclusionInv, Shapes, InsideInv, Enter
      <3>2. CASE p # o
        BY <3>2 DEF ExclusionInv, Shapes, InsideInv, Enter, OthersStay
      <3> QED BY <3>1, <3>2
    <2> QED BY <2>1, <2>2, <2>3, <2>4 DEF ExclusionInv
  \* A call starts: a gated one is inside the bucket of its key from then on.
  <1>BeginStep. ASSUME NEW o \in Ops, NEW kind \in Kinds, NEW k \in Keys, NEW v, NEW e, Begin(o, kind, k, v, e)
                PROVE  ExclusionInv'
    <2> USE <1>BeginStep
    <2> DEFINE call == [pc |-> "route", kind |-> kind, key |-> k, val |-> v, expect |-> e, todo |-> <<>>,
                        legal |-> IF kind \in Reads THEN {truth[k]} \cup doubt[k] \cup InFlightValues(k) ELSE {}]
               next == [op EXCEPT ![o] = call]
    <2>1. OpShape(next) /\ OthersStay(next, o) /\ next[o] = call
      BY DEF ExclusionInv, Shapes, OpShape, OthersStay
    <2>2. op' = next \/ op' = WithLegal(next, k, v)
      BY DEF Begin
    <2> HIDE DEF next
    <2>3. OpShape(op') /\ OthersStay(op', o) /\ op'[o].pc = "route" /\ op'[o].kind = kind /\ op'[o].key = k
      BY SMT, <2>1, <2>2, LegalStays DEF OthersStay
    <2>4. CASE Gated(kind)
      <3>1. Enter(o, bucket_of[op'[o].key])
        BY <2>3, <2>4 DEF Begin
      <3> QED BY <2>3, <3>1, <1>OpMove DEF Begin, Enter, clusterVars
    <2>5. CASE ~Gated(kind)
      BY <2>3, <2>5, <1>OpMove DEF Begin, gate, clusterVars
    <2> QED BY <2>4, <2>5
  \* Steps of a call in progress: it stays inside its bucket until it returns.
  <1>OpSteps. ASSUME NEW o \in Ops,
                     OpStep(o) \/ RmwReplyLost(o)
              PROVE  ExclusionInv'
    <2> USE <1>OpSteps
    <2> DEFINE Stay == op'[o].kind = op[o].kind /\ op'[o].key = op[o].key
    <2>1. OpShape(op)
      BY DEF ExclusionInv, Shapes
    <2>2. ASSUME Release(o)
          PROVE  /\ UNCHANGED <<frozen, owned>>
                 /\ entered' = [entered EXCEPT ![o] = NoBucket] \/ entered' = entered
      BY <2>2 DEF Release, Leave, gate
    <2>3. ASSUME UNCHANGED <<clusterVars, mig>>, OpShape(op'), OthersStay(op', o),
                 \/ UNCHANGED gate /\ op[o].pc \in Active /\ Stay
                 \/ (Release(o) \/ UNCHANGED gate) /\ op'[o].pc \notin Active
          PROVE  ExclusionInv'
      <3>1. UNCHANGED <<frozen, owned, migrating, mig>>
        BY <2>2, <2>3 DEF gate, clusterVars
      <3>2. \/ /\ entered' = entered
               /\ op'[o].pc \in Active /\ Gated(op'[o].kind) =>
                    op[o].pc \in Active /\ op'[o].kind = op[o].kind /\ op'[o].key = op[o].key
            \/ entered' = [entered EXCEPT ![o] = NoBucket] /\ op'[o].pc \notin Active
        BY <2>2, <2>3 DEF gate
      <3> QED BY <2>3, <3>1, <3>2, <1>OpMove
    <2>4. CASE ReadOverlay(o)
      <3>1. \/ op' = [op EXCEPT ![o].pc = "route2"]
            \/ \E s : op' = [op EXCEPT ![o].pc = "call", ![o].todo = s]
        BY <2>4 DEF ReadOverlay
      <3>2. OpShape(op') /\ OthersStay(op', o) /\ Stay
        <4>1. CASE op' = [op EXCEPT ![o].pc = "route2"]
          BY <2>1, <4>1 DEF OpShape, OthersStay
        <4>2. ASSUME NEW s, op' = [op EXCEPT ![o].pc = "call", ![o].todo = s]
              PROVE  OpShape(op') /\ OthersStay(op', o) /\ Stay
          BY <2>1, <4>2 DEF OpShape, OthersStay
        <4> QED BY <3>1, <4>1, <4>2
      <3> QED BY <2>3, <2>4, <3>2 DEF ReadOverlay, Active
    <2>5. CASE ReadPartitioner(o)
      BY <2>1, <2>3, <2>5 DEF ReadPartitioner, OpShape, OthersStay, Active
    <2>6. CASE GetCall(o)
      <3>1. OpShape(op') /\ OthersStay(op', o)
        <4>1. \/ \E v : op' = [op EXCEPT ![o].pc = "done", ![o].val = v, ![o].todo = <<>>]
              \/ op' = [op EXCEPT ![o].todo = Tail(@)]
          BY <2>6 DEF GetCall, ReturnRead
        <4> QED BY <2>1, <4>1, ZenonT(60) DEF OpShape, OthersStay
      <3>2. \/ UNCHANGED gate /\ op[o].pc \in Active /\ Stay
            \/ Release(o) /\ op'[o].pc \notin Active
        BY SMT, <2>1, <2>6 DEF GetCall, ReturnRead, OpShape, Active
      <3> QED BY <2>3, <2>6, <3>1, <3>2 DEF GetCall
    <2>7. CASE ReadDone(o)
      BY <2>1, <2>3, <2>7 DEF ReadDone, IdleOp, OpShape, OthersStay, Active
    <2>8. CASE BroadcastCall(o)
      BY <2>1, <2>3, <2>8 DEF BroadcastCall, OpShape, OthersStay, Active
    <2>9. ASSUME ReturnWrite(o), UNCHANGED <<clusterVars, mig>> PROVE ExclusionInv'
      BY <2>1, <2>3, <2>9 DEF ReturnWrite, IdleOp, OpShape, OthersStay, Active
    <2>10. CASE WriteDone(o)
      BY <2>9, <2>10 DEF WriteDone
    <2>11. CASE RmwPrimary(o)
      <3> DEFINE v == Modified(o, object(Head(op[o].todo), op[o].key))
                 f == [op EXCEPT ![o].pc = "replicate", ![o].val = v, ![o].todo = Tail(@)]
      <3>1. CASE ReturnWrite(o)
        BY <2>9, <2>11, <3>1 DEF RmwPrimary
      <3>2. CASE ~ReturnWrite(o)
        <4>1. op' = WithLegal(f, op[o].key, v) /\ UNCHANGED gate
          BY <2>11, <3>2 DEF RmwPrimary
        <4>2. /\ OpShape(f) /\ OthersStay(f, o)
              /\ f[o].kind = op[o].kind /\ f[o].key = op[o].key
          BY <2>1 DEF OpShape, OthersStay
        <4> HIDE DEF f, v
        <4>a. /\ OpShape(op')
              /\ \A p \in Ops : op'[p].pc = f[p].pc /\ op'[p].kind = f[p].kind /\ op'[p].key = f[p].key
          BY SMT, <4>1, <4>2, LegalStays
        <4>3. OpShape(op') /\ OthersStay(op', o) /\ Stay
          BY <4>2, <4>a DEF OthersStay
        <4> QED BY <2>3, <2>11, <4>1, <4>3 DEF RmwPrimary, Active
      <3> QED BY <3>1, <3>2
    <2>12. CASE RmwReplyLost(o)
      <3> DEFINE f == [op EXCEPT ![o] = IdleOp]
      <3>1. /\ op' = WithLegal(f, op[o].key, Modified(o, object(Head(op[o].todo), op[o].key)))
            /\ Release(o)
        BY <2>12 DEF RmwReplyLost
      <3>2. OpShape(f) /\ OthersStay(f, o) /\ f[o].pc = "idle"
        BY <2>1 DEF OpShape, OthersStay, IdleOp
      <3> HIDE DEF f
      <3>3. OpShape(op') /\ OthersStay(op', o) /\ op'[o].pc = "idle"
        BY SMT, <3>1, <3>2, LegalStays DEF OthersStay
      <3> QED BY <2>3, <2>12, <3>1, <3>3 DEF RmwReplyLost, Active
    <2>13. CASE ReplicaCall(o)
      BY <2>1, <2>3, <2>13 DEF ReplicaCall, OpShape, OthersStay, Active
    <2> QED
      BY <2>4, <2>5, <2>6, <2>7, <2>8, <2>10, <2>11, <2>12, <2>13 DEF OpStep
  \* A step of migrator m that leaves the gate and the operations alone, does not move
  \* its chunk, and takes or keeps the lock as its place demands.
  <1>MigMove. ASSUME NEW m \in Migrators, NEW rec,
                     UNCHANGED <<gate, op>>, Step(m, rec), {"pc", "chunk"} \subseteq DOMAIN rec,
                     rec.pc \in Moving => mig[m].pc \in Moving /\ rec.chunk = mig[m].chunk,
                     \/ migrating' = migrating /\ (rec.pc \in Holding <=> mig[m].pc \in Holding)
                     \/ migrating = None /\ migrating' = m /\ rec.pc \in Holding
                     \/ migrating = m /\ migrating' = None /\ rec.pc \notin Holding,
                     None \notin Migrators
              PROVE  ExclusionInv'
    <2> USE <1>MigMove
    <2>1. /\ DOMAIN mig' = Migrators /\ mig'[m] = rec
          /\ \A n \in Migrators \ {m} : mig'[n] = mig[n]
      BY DEF ExclusionInv, Shapes, Step
    <2>2. Shapes' /\ InsideInv'
      BY <2>1 DEF ExclusionInv, Shapes, InsideInv, OpShape, gate
    <2>3. LockInv'
      BY <2>1 DEF ExclusionInv, LockInv
    <2>4. OwnedInv'
      BY <2>1 DEF ExclusionInv, OwnedInv, gate
    <2> QED BY <2>2, <2>3, <2>4 DEF ExclusionInv
  \* The same for a migrator that takes the lock.
  <1>LockMove. ASSUME NEW m \in Migrators, NEW rec,
                      UNCHANGED <<gate, op>>, Step(m, rec), {"pc", "chunk"} \subseteq DOMAIN rec,
                      rec.pc \in Holding, rec.pc \notin Moving,
                      migrating = None, migrating' = m, None \notin Migrators
               PROVE  ExclusionInv'
    BY <1>LockMove, <1>MigMove
  \* Steps of migrator m outside the gate.
  <1>MigrationSteps. ASSUME NEW m \in Migrators,
                            \/ MigrationStart(m)
                            \/ ReadMembers(m) \/ InstallOverlay(m) \/ StopEarly(m)
                            \/ \E p \in mig[m].copies : CopyExport(m, p)
                            \/ CopyImport(m) \/ CopyFault(m) \/ Cutover(m)
                            \/ \E n \in mig[m].drops : DropBuckets(m, n) \/ DropFault(m, n)
                            \/ CommitEpoch(m) \/ CommitNodes(m) \/ CommitReplication(m) \/ CommitClients(m) \/ DropOverlay(m)
                     PROVE  ExclusionInv'
    <2> USE <1>MigrationSteps
    <2>0. {"pc", "chunk"} \subseteq DOMAIN mig[m] /\ None \notin Migrators
      BY MigrationAssumption DEF ExclusionInv, Shapes
    <2> DEFINE Keeps(rec) ==
                 /\ {"pc", "chunk"} \subseteq DOMAIN rec
                 /\ rec.pc \in Moving => mig[m].pc \in Moving /\ rec.chunk = mig[m].chunk
    <2>1. ASSUME NEW rec, Step(m, rec), Keeps(rec), UNCHANGED <<gate, op, migrating>>,
                 rec.pc \in Holding <=> mig[m].pc \in Holding
          PROVE  ExclusionInv'
      BY <2>0, <2>1, <1>MigMove
    <2>2. ASSUME NEW new, NEW stop, Start(m, new, stop) PROVE ExclusionInv'
      <3> DEFINE rec == [IdleMig EXCEPT !.pc = "read", !.new = new, !.stop = stop]
      <3>1. Keeps(rec) /\ rec.pc = "read"
        BY DEF IdleMig, Moving
      <3> HIDE DEF rec
      <3> QED BY <2>1, <2>2, <3>1 DEF Start, rec, Holding, Moving
    <2>3. CASE resume_migration(m)
      <3> DEFINE rec == [IdleMig EXCEPT !.pc = "lock", !.old = journal.old, !.new = journal.new,
                                        !.done = journal.done]
      <3>1. Keeps(rec) /\ rec.pc = "lock"
        BY DEF IdleMig, Moving
      <3> HIDE DEF rec
      <3> QED BY <2>1, <2>3, <3>1 DEF resume_migration, rec, Holding, Moving, clusterVars
    <2>4. CASE MigrationStart(m)
      BY <2>2, <2>3, <2>4 DEF MigrationStart, rebalance, apply_membership, rebalance_partial, drain
    <2>5. CASE ReadMembers(m)
      BY <2>0, <2>1, <2>5, ZenonT(60) DEF ReadMembers, Holding, Moving, clusterVars
    <2>6. CASE InstallOverlay(m)
      <3>1. ASSUME NEW rec, Step(m, rec), {"pc", "chunk"} \subseteq DOMAIN rec, rec.pc \in {"nodes", "chunk"}
            PROVE  ExclusionInv'
        <4>1. rec.pc \in Holding /\ rec.pc \notin Moving
          BY <3>1 DEF Holding, Moving
        <4>2. migrating = None /\ migrating' = m /\ UNCHANGED <<gate, op>>
          BY <2>6 DEF InstallOverlay
        <4> QED BY <2>0, <3>1, <4>1, <4>2, <1>LockMove, ZenonT(60)
      <3> DEFINE nodes == [mig[m] EXCEPT !.pc = "nodes"]
                 chunk == [mig[m] EXCEPT !.pc = "chunk",
                                         !.todo = Moved(mig[m].old, mig[m].new, ReplTarget) \ mig[m].done]
      <3>2. Step(m, nodes) \/ Step(m, chunk)
        BY <2>6 DEF InstallOverlay
      <3>3. {"pc", "chunk"} \subseteq DOMAIN nodes /\ nodes.pc = "nodes"
        BY <2>0
      <3>4. {"pc", "chunk"} \subseteq DOMAIN chunk /\ chunk.pc = "chunk"
        BY <2>0
      <3> HIDE DEF nodes, chunk
      <3> QED BY <3>1, <3>2, <3>3, <3>4
    <2>7. ASSUME Step(m, IdleMig), UNCHANGED <<gate, op>>, mig[m].pc \in Holding, migrating' = None
          PROVE  ExclusionInv'
      <3>1. IdleMig.pc = "idle" /\ {"pc", "chunk"} \subseteq DOMAIN IdleMig
        BY DEF IdleMig
      <3>2. migrating = m
        BY <2>7 DEF ExclusionInv, LockInv
      <3> QED BY <2>0, <2>7, <3>1, <3>2, <1>MigMove DEF Holding, Moving
    <2>8. CASE StopEarly(m)
      BY <2>7, <2>8 DEF StopEarly, Holding
    <2>9. ASSUME NEW p, CopyExport(m, p) PROVE ExclusionInv'
      BY <2>0, <2>1, <2>9 DEF CopyExport, Holding, Moving, clusterVars
    <2>10. ASSUME mig[m].pc = "import", NextPair(m), UNCHANGED <<gate, op, migrating>> PROVE ExclusionInv'
      BY <2>0, <2>1, <2>10 DEF NextPair, Holding, Moving
    <2>11. CASE CopyImport(m) \/ CopyFault(m)
      BY <2>10, <2>11 DEF CopyImport, CopyFault, clusterVars
    <2>12. CASE Cutover(m)
      BY <2>0, <2>1, <2>12 DEF Cutover, Holding, Moving
    <2>13. ASSUME NEW n, DropBuckets(m, n) \/ DropFault(m, n) PROVE ExclusionInv'
      BY <2>0, <2>1, <2>13 DEF DropBuckets, DropFault, Holding, Moving, clusterVars
    <2>14. CASE CommitEpoch(m) \/ CommitNodes(m) \/ CommitReplication(m)
      BY <2>0, <2>1, <2>14 DEF CommitEpoch, CommitNodes, CommitReplication, Holding, Moving
    <2>15. CASE CommitClients(m)
      <3>1. CASE mig[m].old = mig[m].new
        BY <2>7, <2>15, <3>1 DEF CommitClients, Holding
      <3>2. CASE mig[m].old # mig[m].new
        BY <2>0, <2>1, <2>15, <3>2 DEF CommitClients, Holding, Moving
      <3> QED BY <3>1, <3>2
    <2>16. CASE DropOverlay(m)
      BY <2>7, <2>16 DEF DropOverlay, Holding
    <2> QED
      BY <2>4, <2>5, <2>6, <2>8, <2>9, <2>11, <2>12, <2>13, <2>14, <2>15, <2>16
  \* A step by which the migrator that holds the lock changes what it owns at the gate.
  <1>GateMove. ASSUME None \notin Migrators, NEW m \in Migrators, NEW rec,
                      UNCHANGED <<entered, op>>, Step(m, rec), {"pc", "chunk"} \subseteq DOMAIN rec,
                      migrating = m,
                      \/ rec.pc \in Holding /\ migrating' = migrating
                      \/ rec.pc \notin Holding /\ rec.pc \notin Moving /\ migrating' = None,
                      owned' \subseteq frozen',
                      \A o \in Ops : entered[o] # NoBucket => entered[o] \notin owned',
                      rec.pc \in Moving => owned' = rec.chunk
               PROVE  ExclusionInv'
    <2> USE <1>GateMove
    <2>1. /\ DOMAIN mig' = Migrators /\ mig'[m] = rec
          /\ \A n \in Migrators \ {m} : mig'[n] = mig[n] /\ mig[n].pc \notin Holding
      BY DEF ExclusionInv, Shapes, LockInv, Step
    <2>2. Shapes' /\ InsideInv'
      BY <2>1 DEF ExclusionInv, Shapes, InsideInv, OpShape
    <2>3. LockInv'
      BY <2>1 DEF ExclusionInv, LockInv
    <2>4. OwnedInv'
      BY <2>1 DEF ExclusionInv, OwnedInv, Holding
    <2> QED BY <2>2, <2>3, <2>4 DEF ExclusionInv
  \* Freezing a chunk, waiting for its operations, thawing it, and being cancelled.
  <1>GateSteps. ASSUME NEW m \in Migrators,
                       ChunkFreeze(m) \/ ChunkDrain(m) \/ ChunkDone(m) \/ MigrationCancel(m)
                PROVE  ExclusionInv'
    <2> USE <1>GateSteps
    <2>0. {"pc", "chunk"} \subseteq DOMAIN mig[m] /\ None \notin Migrators
      BY MigrationAssumption DEF ExclusionInv, Shapes
    <2>1. mig[m].pc \in Holding => migrating = m
      BY DEF ExclusionInv, LockInv
    <2>2. CASE ChunkFreeze(m)
      <3> DEFINE rec == [mig[m] EXCEPT !.pc = "drain", !.chunk = NextChunk(mig[m].todo),
                                       !.stop = IF @ = None THEN None ELSE @ - 1]
      <3>1. {"pc", "chunk"} \subseteq DOMAIN rec /\ rec.pc = "drain"
        BY <2>0
      <3>2. Step(m, rec) /\ Freeze(NextChunk(mig[m].todo)) /\ mig[m].pc \in Holding /\ UNCHANGED <<clusterVars, op>>
        BY <2>2 DEF ChunkFreeze, Holding
      <3> HIDE DEF rec
      <3>3. rec.pc \in Holding /\ rec.pc \notin Moving
        BY <3>1 DEF Holding, Moving
      <3> QED BY <2>0, <2>1, <3>1, <3>2, <3>3, <1>GateMove DEF Freeze, clusterVars
    <2>3. CASE ChunkDrain(m)
      <3> DEFINE rec == [mig[m] EXCEPT !.pc = "copy",
                                       !.copies = UNION {CopiesOf(m, b) : b \in mig[m].chunk},
                                       !.drops = UNION {DropsOf(m, b) : b \in mig[m].chunk}]
      <3>1. {"pc", "chunk"} \subseteq DOMAIN rec /\ rec.pc = "copy" /\ rec.chunk = mig[m].chunk
        BY <2>0
      <3>2. Step(m, rec) /\ Drained(mig[m].chunk) /\ mig[m].pc \in Holding /\ UNCHANGED <<clusterVars, op>>
        BY <2>3 DEF ChunkDrain, Holding
      <3> HIDE DEF rec
      <3>3. rec.pc \in Holding
        BY <3>1 DEF Holding, Moving
      <3> QED BY <2>0, <2>1, <3>1, <3>2, <3>3, <1>GateMove DEF Drained, clusterVars
    <2>4. CASE ChunkDone(m)
      <3> DEFINE rec == [mig[m] EXCEPT !.pc = "chunk", !.done = mig[m].done \cup mig[m].chunk,
                                       !.todo = @ \ mig[m].chunk, !.chunk = {}]
      <3>1. {"pc", "chunk"} \subseteq DOMAIN rec /\ rec.pc = "chunk"
        BY <2>0
      <3>2. Step(m, rec) /\ Unfreeze(mig[m].chunk) /\ mig[m].pc \in Holding /\ UNCHANGED <<migrating, op>>
        BY <2>4 DEF ChunkDone, Holding, Moving
      <3> HIDE DEF rec
      <3>3. rec.pc \in Holding /\ rec.pc \notin Moving
        BY <3>1 DEF Holding, Moving
      <3> QED BY <2>0, <2>1, <3>1, <3>2, <3>3, <1>GateMove DEF Unfreeze
    <2>5. CASE MigrationCancel(m)
      <3>1. /\ IdleMig.pc \notin Holding /\ IdleMig.pc \notin Moving
            /\ {"pc", "chunk"} \subseteq DOMAIN IdleMig
        BY DEF IdleMig, Holding, Moving
      <3>2. Step(m, IdleMig) /\ UNCHANGED op /\ migrating' = IF migrating = m THEN None ELSE migrating
        BY <2>5 DEF MigrationCancel
      <3>3. CASE migrating = m /\ owned # {}
        BY <2>0, <2>5, <3>1, <3>2, <3>3, <1>GateMove DEF MigrationCancel, Abandon
      <3>4. CASE migrating = m /\ owned = {}
        BY <2>0, <2>5, <3>1, <3>2, <3>4, <1>MigMove DEF MigrationCancel
      <3>5. CASE migrating # m
        BY <2>0, <2>1, <2>5, <3>1, <3>2, <3>5, <1>MigMove DEF MigrationCancel
      <3> QED BY <3>3, <3>4, <3>5
    <2> QED BY <2>2, <2>3, <2>4, <2>5
  \* Shards that join, die or are marked down, and a coordinator that starts again.
  <1>EnvironmentSteps. ASSUME \/ \E n \in Nodes \cup UNION Targets : add_node(n) \/ NodeDies(n) \/ mark_down(n)
                              \/ \E members \in SUBSET Nodes : Restart(members)
                              \/ UNCHANGED vars
                       PROVE  ExclusionInv'
    <2> USE <1>EnvironmentSteps
    <2>1. CASE UNCHANGED <<gate, op, mig, migrating>>
      BY <2>1 DEF ExclusionInv, Shapes, OpShape, LockInv, OwnedInv, InsideInv, gate
    <2>2. ASSUME NEW members, Restart(members) PROVE ExclusionInv'
      BY <2>2, MigrationAssumption DEF Restart, OpShape, IdleOp, IdleMig, ExclusionInv, Shapes,
         LockInv, OwnedInv,
                                       InsideInv, Active, Moving, Holding
    <2> QED
      BY <2>1, <2>2 DEF add_node, NodeDies, mark_down, vars, clusterVars
  <1>1. ASSUME NEW o \in Ops, NEW kind \in Kinds, NEW k \in Keys, NEW a, Begin(o, kind, k, a[1], a[2])
        PROVE  ExclusionInv'
    BY <1>1, <1>BeginStep, ZenonT(60)
  <1>2. ASSUME NEW m \in Migrators,
               MigrationStart(m) \/ MigrationStep(m) \/ CopyFault(m) \/ MigrationCancel(m)
               \/ \E n \in mig[m].drops : DropFault(m, n)
        PROVE  ExclusionInv'
    BY <1>2, <1>MigrationSteps, <1>GateSteps DEF MigrationStep
  <1> QED
    BY <1>1, <1>2, <1>OpSteps, <1>EnvironmentSteps, ZenonT(60) DEF Next

(***************************************************************************)
(* What run_migration relies on when it copies and drops a chunk without   *)
(* holding any lock of the store: Gates::drain waited for every put,       *)
(* delete, cas, incr and set call in the chunk, and Gates::enter keeps new *)
(* ones out until unfreeze.  It holds however many rebalances the admin    *)
(* surface started, and across cancelled futures, lost replies, failed     *)
(* copies and a restart of the coordinator.                                *)
(***************************************************************************)
THEOREM ChunkExclusion == Spec => []ChunkIsExclusive
PROOF
  <1>1. Init => ExclusionInv
    BY ExclusionInit
  <1>2. ExclusionInv /\ [Next]_vars => ExclusionInv'
    BY ExclusionStep
  <1>3. ExclusionInv => ChunkIsExclusive
    <2> SUFFICES ASSUME ExclusionInv, NEW m \in Migrators, NEW o \in Ops,
                        mig[m].pc \in Moving, op[o].pc \in Active, Gated(op[o].kind)
                 PROVE  bucket_of[op[o].key] \notin mig[m].chunk
      BY DEF ChunkIsExclusive
    <2>1. entered[o] = bucket_of[op[o].key] /\ bucket_of[op[o].key] # NoBucket
      BY SMT, PlacementAssumption, MigrationAssumption
      DEF ExclusionInv, InsideInv, PlacementAssumption, MigrationAssumption
    <2> QED BY <2>1 DEF ExclusionInv, OwnedInv
  <1> QED BY <1>1, <1>2, <1>3, PTL DEF Spec

(***************************************************************************)
(* Rebalances exclude each other (the `migrating` mutex of Cluster): from  *)
(* the overlay's installation to the end of commit_membership at most one  *)
(* is at work, so the single overlay and journal always belong to it.      *)
(***************************************************************************)
THEOREM MigrationsSerialise == Spec => []OneMigration
PROOF
  <1>1. Init => ExclusionInv
    BY ExclusionInit
  <1>2. ExclusionInv /\ [Next]_vars => ExclusionInv'
    BY ExclusionStep
  <1>3. ExclusionInv => OneMigration
    BY DEF ExclusionInv, LockInv, OneMigration
  <1> QED BY <1>1, <1>2, <1>3, PTL DEF Spec
-----------------------------------------------------------------------------
(***************************************************************************)
(* What the placement promises a migration.                                *)
(***************************************************************************)
Memb == (SUBSET Nodes) \ {{}}
Replicas(members) == clamp(ReplTarget, Cardinality(members))
Placed(b, members) == OwnerSet(b, members, Replicas(members))

\* A membership that is not empty has at least one replica and at most one per node.
LEMMA ReplicasType ==
  ASSUME NEW members \in Memb
  PROVE  /\ IsFiniteSet(members) /\ Cardinality(members) \in Nat
         /\ Replicas(members) \in Nat \ {0} /\ Replicas(members) <= Cardinality(members)
PROOF
  <1>1. members \in SUBSET Nodes /\ IsFiniteSet(members) /\ members # {}
    BY FS_Subset, PlacementAssumption DEF Memb
  <1>2. Cardinality(members) \in Nat /\ Cardinality(members) # 0
    BY <1>1, FS_CardinalityType, FS_EmptySet
  <1> QED BY SMT, <1>1, <1>2, MigrationAssumption DEF Replicas, clamp, AtLeast, AtMost

\* What the owners of a bucket are under a membership that is not empty.
LEMMA PlacedFacts ==
  ASSUME NEW b \in Buckets, NEW members \in Memb
  PROVE  /\ Replicas(members) \in Nat \ {0}
         /\ owners_of_bucket(b, members, Replicas(members)) \in Seq(Nodes) \ {<<>>}
         /\ Placed(b, members) \subseteq members /\ members \subseteq Nodes
         /\ Cardinality(Placed(b, members)) = Replicas(members)
PROOF
  <1> DEFINE card == Cardinality(members)
             r == Replicas(members)
             s == owners_of_bucket(b, members, r)
  <1>1. members \in SUBSET Nodes
    BY DEF Memb
  <1>2. card \in Nat
    BY ReplicasType
  <1>3. r \in Nat /\ 1 <= r /\ r <= card
    BY SMT, ReplicasType
  <1> HIDE DEF r
  <1>4. /\ s \in Seq(members) /\ OwnerSet(b, members, r) \subseteq members
        /\ Cardinality(OwnerSet(b, members, r)) = AtMost(r, card) /\ Len(s) = AtMost(r, card)
    BY <1>1, <1>3, OwnersAre
  <1>5. Len(s) = r
    BY SMT, <1>2, <1>3, <1>4 DEF AtMost
  <1> HIDE DEF s
  <1>6. s \in Seq(Nodes)
    BY SMT, <1>1, <1>4
  <1>7. s # <<>>
    BY SMT, <1>3, <1>5
  <1> QED BY SMT, <1>1, <1>3, <1>4, <1>5, <1>6, <1>7 DEF r, s, Placed

\* The source of a bucket's copies and their destinations, and the nodes that drop it.
LEMMA Moves ==
  ASSUME NEW b \in Buckets, NEW old \in Memb, NEW new \in Memb
  PROVE  /\ Drops(b, old, new, ReplTarget) = Placed(b, old) \ Placed(b, new)
         /\ \E source \in Placed(b, old) :
              /\ \A p \in Copies(b, old, new, ReplTarget) :
                   p[1] = source /\ p[2] \in Placed(b, new) \ Placed(b, old)
              /\ \A n \in Placed(b, new) \ Placed(b, old) : <<source, n>> \in Copies(b, old, new, ReplTarget)
PROOF
  <1> DEFINE s == owners_of_bucket(b, old, Replicas(old))
             t == owners_of_bucket(b, new, Replicas(new))
  <1>1. /\ s \in Seq(Nodes) \ {<<>>} /\ Placed(b, old) \subseteq Nodes /\ Placed(b, new) \subseteq Nodes
    BY PlacedFacts
  <1>2. /\ Range(s) = Placed(b, old) /\ Range(t) = Placed(b, new)
        /\ OldOwners(b, old, ReplTarget) = s /\ NewOwners(b, new, ReplTarget) = t
    BY DEF Placed, OwnerSet, Replicas, OldOwners, NewOwners
  <1> HIDE DEF s, t
  <1>3. Head(s) \in Range(s)
    BY SMT, <1>1 DEF Range
  <1>4. Drops(b, old, new, ReplTarget) = Placed(b, old) \ Placed(b, new)
    BY <1>2 DEF Drops
  <1>5. Copies(b, old, new, ReplTarget) =
          {p \in Nodes \X Nodes : p[1] = Head(s) /\ p[2] \in Placed(b, new) \ Placed(b, old)}
    BY <1>1, <1>2 DEF Copies
  <1> QED BY <1>1, <1>2, <1>3, <1>4, <1>5

\* Taking the first element off a list.
LEMMA HeadAndTail ==
  ASSUME NEW T, NEW s \in Seq(T), s # <<>>
  PROVE  /\ Head(s) \in T /\ Tail(s) \in Seq(T)
         /\ Range(s) = {Head(s)} \cup Range(Tail(s))
PROOF
  <1>1. Head(s) \in T /\ Tail(s) \in Seq(T) /\ Len(Tail(s)) = Len(s) - 1 /\ Len(s) \in Nat \ {0}
    BY SMT
  <1>2. \A i \in 1 .. Len(s) - 1 : Tail(s)[i] = s[i + 1]
    BY SMT
  <1>3. Head(s) = s[1] /\ DOMAIN s = 1 .. Len(s) /\ DOMAIN Tail(s) = 1 .. Len(s) - 1
    BY SMT
  <1>4. Range(s) \subseteq {Head(s)} \cup Range(Tail(s))
    <2> SUFFICES ASSUME NEW i \in 1 .. Len(s) PROVE s[i] \in {Head(s)} \cup Range(Tail(s))
      BY <1>3 DEF Range
    <2>1. CASE i = 1
      BY <1>3, <2>1
    <2>2. CASE i # 1
      <3>1. i - 1 \in 1 .. Len(s) - 1
        BY SMT, <1>1, <2>2
      <3>2. Tail(s)[i - 1] = s[(i - 1) + 1]
        BY <1>2, <3>1
      <3>3. (i - 1) + 1 = i
        BY SMT
      <3> QED BY <1>3, <3>1, <3>2, <3>3 DEF Range
    <2> QED BY <2>1, <2>2
  <1>5. {Head(s)} \cup Range(Tail(s)) \subseteq Range(s)
    BY SMT, <1>1, <1>2, <1>3 DEF Range
  <1> QED BY <1>1, <1>4, <1>5
-----------------------------------------------------------------------------
(***************************************************************************)
(* The control plane: journal, overlay, membership and the phases of a migrator.*)
(***************************************************************************)
Working == {"chunk", "drain", "copy", "import", "drop"}
Committing == {"nodes", "replication", "clients", "close"}

\* callers do not overlap rebalances, resume an interrupted one before they start
\* another, and never ask for an empty cluster
Orderly ==
  /\ \A m, n \in Migrators : m = n
  /\ ~MayAbandon
  /\ InitialMembers # {} /\ {} \notin Targets

\* where `owners` sends a call, and whether one is inside bucket b
Route(b) == Range(IF overlay # None THEN OverlayOwners(b) ELSE CommittedOwners(b))
Inside(b) == \E o \in Ops : entered[o] = b

\* nobody is inside b, and nobody can enter it
Closed(b) == b \in frozen /\ ~Inside(b)

MigFields == {"pc", "old", "new", "done", "stop", "todo", "chunk", "copies", "pair", "entries", "drops"}

OverlayInv ==
  /\ overlay \in Overlays \cup {None}
  /\ overlay # None =>
       /\ overlay.r_old = Replicas(overlay.old) /\ overlay.r_new = Replicas(overlay.new)
       /\ overlay.old # {} /\ overlay.new # {} /\ overlay.old # overlay.new

\* a bucket cut over but not yet journalled is closed
JournalInv ==
  /\ journal \in Records \cup {None}
  /\ journal # None =>
       /\ overlay # None /\ journal.old = overlay.old /\ journal.new = overlay.new
       /\ journal.done \subseteq overlay.migrated
       /\ frozen \subseteq Moved(journal.old, journal.new, ReplTarget) \ journal.done
       /\ \A b \in overlay.migrated \ journal.done : Closed(b)
  /\ journal = None => frozen = {}

RestInv ==
  /\ partitioner \in Memb
  /\ migrating \in Migrators \cup {None}
  /\ migrating = None =>
       /\ replication = Replicas(partitioner)
       /\ overlay # None => journal # None /\ partitioner = overlay.old

AtLock(r) ==
  \/ journal = None /\ r.old = partitioner /\ r.done = {}
  \/ journal # None /\ r.old = journal.old /\ r.new = journal.new /\ r.done = journal.done

AtWork(r) ==
  /\ journal # None
  /\ r.old = journal.old /\ r.new = journal.new /\ r.done = journal.done
  /\ overlay.migrated = IF r.pc = "drop" THEN r.done \cup r.chunk ELSE r.done
  /\ r.todo = Moved(r.old, r.new, ReplTarget) \ r.done
  /\ r.pc # "chunk" => r.chunk \subseteq r.todo /\ r.chunk \subseteq frozen
  /\ partitioner = r.old /\ replication = Replicas(r.old)

AtCommit(r) ==
  /\ journal = None
  /\ r.old = r.new => overlay = None /\ r.pc # "close"
  /\ r.old # r.new =>
       /\ overlay # None /\ overlay.old = r.old /\ overlay.new = r.new
       /\ Moved(r.old, r.new, ReplTarget) \subseteq overlay.migrated
  /\ partitioner = IF r.pc = "nodes" THEN r.old ELSE r.new
  /\ replication = Replicas(IF r.pc \in {"nodes", "replication"} THEN r.old ELSE r.new)

Phase(r) ==
  /\ DOMAIN r = MigFields
  /\ r.pc \in {"idle", "read", "lock"} \cup Working \cup Committing
  /\ r.pc # "idle" => r.new \in Memb
  /\ r.pc = "read" => journal = None /\ r.done = {}
  /\ r.pc = "lock" => AtLock(r)
  /\ r.pc \in Working => AtWork(r)
  /\ r.pc \in Committing => AtCommit(r)

ControlInv == OverlayInv /\ JournalInv /\ RestInv /\ \A m \in Migrators : Phase(mig[m])

Context == Orderly /\ ExclusionInv /\ ControlInv

\* a step that moves no bucket from under an operation
Steady ==
  \A b \in Buckets : ~Closed(b) =>
    /\ Route(b)' = Route(b)
    /\ Range(CommittedOwners(b)) = Route(b) => (Range(CommittedOwners(b)) = Route(b))'
-----------------------------------------------------------------------------

\* Steps outside the control plane.
LEMMA ControlKept ==
  ASSUME Context, UNCHANGED <<partitioner, replication, journal, overlay, migrating, mig, frozen>>,
         \A b \in frozen : Inside(b)' => Inside(b)
  PROVE  ControlInv' /\ Steady
PROOF
  <1>1. OverlayInv' /\ RestInv'
    BY DEF Context, ControlInv, OverlayInv, RestInv
  <1>2. JournalInv'
    BY DEF Context, ControlInv, JournalInv, Closed
  <1>3. ASSUME NEW m \in Migrators PROVE Phase(mig[m])'
    <2>1. Phase(mig[m])
      BY DEF Context, ControlInv
    <2> QED BY <2>1 DEF Phase, AtLock, AtWork, AtCommit
  <1>4. Steady
    BY DEF Steady, Route, OverlayOwners, CommittedOwners
  <1> QED BY <1>1, <1>2, <1>3, <1>4 DEF ControlInv

\* Where the only migrator goes, and who holds the lock.
LEMMA Stepped ==
  ASSUME Context, NEW m \in Migrators
  PROVE  /\ DOMAIN mig = Migrators /\ DOMAIN mig[m] = MigFields
         /\ migrating \in {m, None} /\ m # None
         /\ mig[m].pc \in Holding <=> migrating = m
         /\ Phase(mig[m])
  BY MigrationAssumption DEF Context, ExclusionInv, Shapes, LockInv, Orderly, ControlInv, RestInv, Phase

\* The route and the committed owners while an overlay is installed.
LEMMA RouteIs ==
  ASSUME Context, NEW b \in Buckets
  PROVE  /\ overlay = None => Route(b) = Range(CommittedOwners(b))
         /\ overlay # None => Route(b) = IF b \in overlay.migrated THEN Placed(b, overlay.new)
                                         ELSE Placed(b, overlay.old)
         /\ overlay # None => overlay.old \in Memb /\ overlay.new \in Memb /\ overlay.migrated \subseteq Buckets
         /\ \A members : replication = Replicas(members) /\ partitioner = members =>
              Range(CommittedOwners(b)) = Placed(b, members)
  BY DEF Context, ControlInv, OverlayInv, Route, OverlayOwners, CommittedOwners, Placed, OwnerSet,
     Overlays, Memb

\* Once every bucket of the plan is cut over, the route is the new placement.
LEMMA CommitRoute ==
  ASSUME Context, NEW m \in Migrators, mig[m].pc \in Committing, mig[m].old # mig[m].new
  PROVE  /\ overlay # None /\ overlay.old = mig[m].old /\ overlay.new = mig[m].new
         /\ mig[m].old \in Memb /\ mig[m].new \in Memb
         /\ \A b \in Buckets : Route(b) = Placed(b, mig[m].new)
PROOF
  \* A bucket that the plan leaves alone has the same owners, and as many, on both sides.
  <1>Unmoved. ASSUME NEW b \in Buckets, NEW old \in Memb, NEW new \in Memb,
                     b \notin Moved(old, new, ReplTarget)
              PROVE  Placed(b, old) = Placed(b, new) /\ Replicas(old) = Replicas(new)
    <2> USE <1>Unmoved
    <2>1. Copies(b, old, new, ReplTarget) = {} /\ Drops(b, old, new, ReplTarget) = {}
      BY DEF Moved
    <2>2. Placed(b, old) \ Placed(b, new) = {}
      BY <2>1, Moves
    <2>3. Placed(b, new) \ Placed(b, old) = {}
      BY <2>1, Moves
    <2>4. Placed(b, old) = Placed(b, new)
      BY <2>2, <2>3
    <2> QED BY <2>4, PlacedFacts
  <1>1. AtCommit(mig[m])
    BY Stepped DEF Phase
  <1>2. /\ overlay # None /\ overlay.old = mig[m].old /\ overlay.new = mig[m].new
        /\ Moved(mig[m].old, mig[m].new, ReplTarget) \subseteq overlay.migrated
    BY <1>1 DEF AtCommit
  <1>3. mig[m].old \in Memb /\ mig[m].new \in Memb
    BY <1>2 DEF Context, ControlInv, OverlayInv, Overlays, Memb
  <1>4. ASSUME NEW b \in Buckets PROVE Route(b) = Placed(b, mig[m].new)
    <2>1. CASE b \in overlay.migrated
      BY <1>2, <2>1, RouteIs
    <2>2. CASE b \notin overlay.migrated
      <3>1. b \notin Moved(mig[m].old, mig[m].new, ReplTarget)
        BY <1>2, <2>2
      <3>2. Placed(b, mig[m].old) = Placed(b, mig[m].new)
        BY <1>3, <3>1, <1>Unmoved DEF Context
      <3> QED BY <1>2, <2>2, <3>2, RouteIs
    <2> QED BY <2>1, <2>2
  <1> QED BY <1>2, <1>3, <1>4

\* Steps of the control plane.
LEMMA MigratorControl ==
  ASSUME Context, NEW m \in Migrators,
         \/ MigrationStart(m) \/ MigrationStep(m) \/ CopyFault(m) \/ MigrationCancel(m)
         \/ \E n \in mig[m].drops : DropFault(m, n)
  PROVE  ControlInv' /\ Steady /\ UNCHANGED <<op, entered>>
PROOF
  \* What there is to show of a step of the only migrator.
  <1>OnlyOne. ASSUME OverlayInv', JournalInv', RestInv', Phase(mig[m])'
              PROVE  ControlInv'
    <2> USE <1>OnlyOne
    <2>1. \A n \in Migrators : n = m
      BY DEF Context, Orderly
    <2> QED BY <2>1 DEF ControlInv
  \* A rebalance, drain or apply_membership is called.
  <1>StartControl. ASSUME NEW new \in Memb, NEW stop, Start(m, new, stop)
                   PROVE  ControlInv' /\ Steady
    <2> USE <1>StartControl
    <2>1. mig[m].pc = "idle" /\ mig' = [mig EXCEPT ![m] = [IdleMig EXCEPT !.pc = "read", !.new = new, !.stop = stop]]
      BY DEF Start, Step
    <2>2. /\ mig'[m].pc = "read" /\ mig'[m].new = new /\ mig'[m].done = {}
          /\ DOMAIN mig'[m] = MigFields
      BY <2>1, Stepped DEF IdleMig, MigFields
    <2>3. migrating = None
      BY <2>1, Stepped DEF Holding, Moving
    <2>4. journal = None
      BY <2>3 DEF Start, ResumedFirst, Context, Orderly
    <2>5. OverlayInv' /\ JournalInv' /\ RestInv'
      BY DEF Context, ControlInv, OverlayInv, JournalInv, RestInv, Closed, Inside, Start, gate
    <2>6. Phase(mig[m])'
      BY <2>2, <2>4 DEF Start, Phase, Working, Committing
    <2>7. Steady
      BY DEF Steady, Route, OverlayOwners, CommittedOwners, Start
    <2> QED BY <2>5, <2>6, <2>7, <1>OnlyOne
  \* The current members are read, or an interrupted migration is resumed.
  <1>ReadControl. ASSUME ReadMembers(m) \/ resume_migration(m)
                  PROVE  ControlInv' /\ Steady
    <2> USE <1>ReadControl
    <2>1. UNCHANGED <<partitioner, replication, journal, overlay, migrating, frozen, entered>>
      BY DEF ReadMembers, resume_migration, clusterVars, gate
    <2>2. OverlayInv' /\ JournalInv' /\ RestInv'
      BY <2>1 DEF Context, ControlInv, OverlayInv, JournalInv, RestInv, Closed, Inside
    <2>3. ASSUME ReadMembers(m) PROVE Phase(mig[m])'
      <3>1. /\ mig'[m].pc = "lock" /\ mig'[m].old = partitioner /\ DOMAIN mig'[m] = MigFields
            /\ mig'[m].new = mig[m].new /\ mig'[m].done = mig[m].done /\ mig[m].pc = "read"
        BY <2>3, Stepped DEF ReadMembers, Step, MigFields
      <3>2. journal = None /\ mig[m].new \in Memb /\ mig[m].done = {}
        BY <3>1, Stepped DEF Phase
      <3> QED BY <2>1, <3>1, <3>2 DEF Phase, Working, Committing, AtLock
    <2>4. ASSUME resume_migration(m) PROVE Phase(mig[m])'
      <3>1. /\ mig'[m].pc = "lock" /\ mig'[m].old = journal.old /\ DOMAIN mig'[m] = MigFields
            /\ mig'[m].new = journal.new /\ mig'[m].done = journal.done /\ journal # None
        BY <2>4, Stepped DEF resume_migration, Step, IdleMig, MigFields
      <3>2. journal.new \in Memb
        BY <3>1 DEF Context, ControlInv, OverlayInv, JournalInv, Records, Memb
      <3> QED BY <2>1, <3>1, <3>2 DEF Phase, Working, Committing, AtLock
    <2>5. Steady
      BY <2>1 DEF Steady, Route, OverlayOwners, CommittedOwners
    <2> QED BY <2>2, <2>3, <2>4, <2>5, <1>OnlyOne
  \* The lock is taken: nothing to do, a new overlay, or the one of an interrupted
  \* migration again, rolled back to what its journal says.
  <1>InstallControl. ASSUME InstallOverlay(m)
                     PROVE  ControlInv' /\ Steady
    <2> USE <1>InstallControl
    <2> DEFINE old == mig[m].old
               new == mig[m].new
               done == mig[m].done
    <2>1. /\ mig[m].pc = "lock" /\ migrating = None /\ migrating' = m
          /\ UNCHANGED <<partitioner, replication, frozen, entered>>
      BY DEF InstallOverlay, gate
    <2>2. new \in Memb /\ AtLock(mig[m]) /\ replication = Replicas(partitioner) /\ partitioner \in Memb
          /\ (overlay # None => journal # None /\ partitioner = overlay.old)
      BY <2>1, Stepped DEF Phase, Context, ControlInv, RestInv
    <2>3. journal # None => journal \in Records /\ overlay # None /\ journal.old = overlay.old /\ journal.new = overlay.new
      BY DEF Context, ControlInv, JournalInv
    <2>4. old = partitioner
      BY <2>2, <2>3 DEF AtLock
    <2>5. old \in Memb /\ done \subseteq Buckets
      BY <2>2, <2>3, <2>4 DEF AtLock, Records
    <2>6. RestInv'
      BY <2>1, <2>2, Stepped DEF RestInv
    <2>7. CASE old = new
      <3>1. overlay = None /\ journal = None
        BY <2>2, <2>3, <2>7 DEF AtLock, Context, ControlInv, OverlayInv
      <3>2. /\ journal' = None /\ overlay' = overlay
            /\ mig'[m].pc = "nodes" /\ DOMAIN mig'[m] = MigFields /\ mig'[m].old = old /\ mig'[m].new = new
        BY ZenonT(60), <2>7, Stepped DEF InstallOverlay, Step, MigFields
      <3>3. OverlayInv' /\ JournalInv'
        BY <2>1, <3>1, <3>2 DEF Context, ControlInv, OverlayInv, JournalInv
      <3>4. Phase(mig[m])'
        BY <2>1, <2>2, <2>4, <2>7, <3>1, <3>2 DEF Phase, AtCommit, Working, Committing
      <3>5. Steady
        BY <2>1, <3>1, <3>2 DEF Steady, Route, CommittedOwners
      <3> QED BY <2>6, <3>3, <3>4, <3>5, <1>OnlyOne
    <2>8. CASE old # new
      <3>1. /\ overlay' = [old |-> old, r_old |-> Replicas(old), new |-> new, r_new |-> Replicas(new), migrated |-> done]
            /\ journal' = [old |-> old, new |-> new, done |-> done]
        BY <2>8 DEF InstallOverlay, save_record, Replicas
      <3>2. /\ mig'[m].pc = "chunk" /\ DOMAIN mig'[m] = MigFields /\ mig'[m].old = old /\ mig'[m].new = new
            /\ mig'[m].done = done /\ mig'[m].todo = Moved(old, new, ReplTarget) \ done
        <4> DEFINE todo == Moved(old, new, ReplTarget) \ done
        <4>1. mig' = [mig EXCEPT ![m] = [mig[m] EXCEPT !.pc = "chunk", !.todo = todo]]
          BY <2>8 DEF InstallOverlay, Step
        <4> HIDE DEF todo
        <4>2. /\ mig'[m].pc = "chunk" /\ DOMAIN mig'[m] = MigFields /\ mig'[m].old = old /\ mig'[m].new = new
              /\ mig'[m].done = done /\ mig'[m].todo = todo
          BY <4>1, Stepped DEF MigFields
        <4> QED BY <4>2 DEF todo
      <3>3. Replicas(old) \in Nat /\ Replicas(new) \in Nat
        BY <2>2, <2>5, ReplicasType DEF Context
      <3>4. overlay' \in Overlays /\ journal' \in Records
        BY <2>2, <2>5, <3>1, <3>3 DEF Overlays, Records, Memb
      <3>5. overlay' # None /\ journal' # None
        BY <3>4, MigrationAssumption DEF Context
      <3>6. frozen \subseteq Moved(old, new, ReplTarget) \ done
        BY <2>2 DEF AtLock, Context, ControlInv, JournalInv
      <3>7. OverlayInv'
        BY <2>2, <2>5, <2>8, <3>1, <3>4 DEF OverlayInv, Memb
      <3>8. JournalInv'
        BY <2>1, <3>1, <3>4, <3>5, <3>6 DEF JournalInv
      <3>9. Phase(mig[m])'
        BY <2>1, <2>2, <2>4, <3>1, <3>2, <3>5 DEF Phase, AtWork, Working, Committing
      <3>10. Steady
        <4> SUFFICES ASSUME NEW b \in Buckets, ~Closed(b)
                     PROVE  /\ Route(b)' = Route(b)
                            /\ Range(CommittedOwners(b)) = Route(b) => (Range(CommittedOwners(b)) = Route(b))'
          BY DEF Steady
        <4>1. Range(CommittedOwners(b))' = Range(CommittedOwners(b)) /\ Range(CommittedOwners(b)) = Placed(b, old)
          BY <2>1, <2>2, <2>4, RouteIs DEF CommittedOwners
        <4>2. Route(b)' = IF b \in done THEN Placed(b, new) ELSE Placed(b, old)
          BY <3>1, <3>5 DEF Route, OverlayOwners, Placed, OwnerSet
        <4>3. CASE journal = None
          <5>1. overlay = None /\ done = {}
            BY <2>2, <4>3 DEF AtLock
          <5> QED BY <4>1, <4>2, <5>1, RouteIs
        <4>4. CASE journal # None
          <5>1. /\ old = overlay.old /\ new = overlay.new /\ done = journal.done /\ overlay # None
                /\ b \in overlay.migrated <=> b \in done
            BY <2>2, <2>3, <4>4 DEF AtLock, Context, ControlInv, JournalInv
          <5> QED BY <4>1, <4>2, <5>1, RouteIs
        <4> QED BY <4>3, <4>4
      <3> QED BY <2>6, <3>7, <3>8, <3>9, <3>10, <1>OnlyOne
    <2> QED BY <2>7, <2>8
  \* The migration stops with its overlay and journal in place: stop_after, or its future
  \* is dropped.
  <1>InterruptControl. ASSUME StopEarly(m) \/ MigrationCancel(m)
                       PROVE  ControlInv' /\ Steady
    <2> USE <1>InterruptControl
    <2>1. /\ mig'[m] = IdleMig /\ migrating' = None
          /\ UNCHANGED <<partitioner, replication, journal, overlay, frozen, entered>>
          /\ mig[m].pc \in {"lock"} \cup Working
      BY Stepped DEF StopEarly, MigrationCancel, Step, Abandon, gate, Holding, Moving, Working
    <2>2. OverlayInv' /\ JournalInv'
      BY <2>1 DEF Context, ControlInv, OverlayInv, JournalInv, Closed, Inside
    <2>3. RestInv'
      <3>1. partitioner \in Memb
        BY DEF Context, ControlInv, RestInv
      <3>2. CASE mig[m].pc = "lock"
        <4>1. migrating = None
          BY <3>2, Stepped DEF Holding, Moving
        <4> QED BY <2>1, <4>1 DEF Context, ControlInv, RestInv
      <3>3. CASE mig[m].pc \in Working
        <4>1. AtWork(mig[m])
          BY <3>3, Stepped DEF Phase
        <4> QED BY <2>1, <3>1, <4>1 DEF AtWork, Context, ControlInv, JournalInv, RestInv
      <3> QED BY <2>1, <3>2, <3>3
    <2>4. Phase(mig[m])'
      BY SMT, <2>1 DEF IdleMig, MigFields, Phase, Working, Committing
    <2>5. Steady
      BY <2>1 DEF Steady, Route, OverlayOwners, CommittedOwners
    <2> QED BY <2>2, <2>3, <2>4, <2>5, <1>OnlyOne
  \* A chunk is frozen or drained, and its entries are copied and dropped.
  <1>WorkControl. ASSUME mig[m].pc \in Working, mig'[m].pc \in Working \ {"chunk"},
                         mig[m].pc = "drop" <=> mig'[m].pc = "drop",
                         DOMAIN mig'[m] = MigFields,
                         mig'[m].old = mig[m].old, mig'[m].new = mig[m].new, mig'[m].done = mig[m].done,
                         mig'[m].todo = mig[m].todo,
                         \/ mig'[m].chunk = mig[m].chunk /\ mig[m].pc # "chunk" /\ frozen' = frozen
                         \/ mig'[m].chunk \subseteq mig[m].todo /\ frozen' = frozen \cup mig'[m].chunk /\ mig[m].pc = "chunk",
                         UNCHANGED <<partitioner, replication, journal, overlay, migrating, entered>>
                  PROVE  ControlInv' /\ Steady
    <2> USE <1>WorkControl
    <2>1. AtWork(mig[m]) /\ mig[m].new \in Memb
      BY Stepped DEF Phase, Working
    <2>2. OverlayInv'
      BY DEF Context, ControlInv, OverlayInv
    <2>3. RestInv'
      BY <2>1 DEF Context, ControlInv, RestInv, AtWork
    <2>4. JournalInv'
      <3>1. frozen \subseteq frozen' /\ frozen' \subseteq frozen \cup mig[m].todo
        OBVIOUS
      <3>2. \A b : Closed(b) => Closed(b)'
        BY <3>1 DEF Closed, Inside
      <3> QED BY <2>1, <3>1, <3>2 DEF AtWork, Context, ControlInv, JournalInv
    <2>5. Phase(mig[m])'
      <3>1. AtWork(mig[m])'
        BY <2>1 DEF AtWork
      <3> QED BY <2>1, <3>1 DEF Phase, Working, Committing
    <2>6. Steady
      BY DEF Steady, Route, OverlayOwners, CommittedOwners
    <2> QED BY <2>2, <2>3, <2>4, <2>5, <2>6, <1>OnlyOne
  \* Each step between two cutovers is of that kind.
  <1>ChunkControl. ASSUME \/ ChunkFreeze(m) \/ ChunkDrain(m)
                          \/ \E p \in mig[m].copies : CopyExport(m, p)
                          \/ CopyImport(m) \/ CopyFault(m)
                          \/ \E n \in mig[m].drops : DropBuckets(m, n) \/ DropFault(m, n)
                   PROVE  ControlInv' /\ Steady
    <2> USE <1>ChunkControl
    <2> DEFINE Same == /\ DOMAIN mig'[m] = MigFields /\ mig'[m].old = mig[m].old /\ mig'[m].new = mig[m].new
                       /\ mig'[m].done = mig[m].done /\ mig'[m].todo = mig[m].todo
               Calm == UNCHANGED <<partitioner, replication, journal, overlay, migrating, entered>>
    <2>1. CASE ChunkFreeze(m)
      <3> DEFINE chunk == NextChunk(mig[m].todo)
                 stop == IF mig[m].stop = None THEN None ELSE mig[m].stop - 1
      <3>1. mig' = [mig EXCEPT ![m] = [mig[m] EXCEPT !.pc = "drain", !.chunk = chunk, !.stop = stop]]
        BY <2>1 DEF ChunkFreeze, Step
      <3>2. chunk \subseteq mig[m].todo
        BY DEF NextChunk
      <3>3. mig[m].pc = "chunk" /\ frozen' = frozen \cup chunk /\ Calm
        BY <2>1 DEF ChunkFreeze, Freeze, clusterVars
      <3> HIDE DEF chunk, stop
      <3>4. Same /\ mig'[m].pc = "drain" /\ mig'[m].chunk = chunk
        BY <3>1, Stepped DEF MigFields
      <3> QED BY <3>2, <3>3, <3>4, <1>WorkControl DEF Working
    <2>2. ASSUME mig'[m].chunk = mig[m].chunk, frozen' = frozen, Same, Calm,
                 \/ mig[m].pc \in {"drain", "copy", "import"} /\ mig'[m].pc \in {"copy", "import"}
                 \/ mig[m].pc = "drop" /\ mig'[m].pc = "drop"
          PROVE  ControlInv' /\ Steady
      <3>1. /\ mig[m].pc \in Working /\ mig'[m].pc \in Working \ {"chunk"} /\ mig[m].pc # "chunk"
            /\ mig[m].pc = "drop" <=> mig'[m].pc = "drop"
        BY <2>2 DEF Working
      <3> QED BY <2>2, <3>1, <1>WorkControl
    <2>3. CASE ChunkDrain(m)
      <3> DEFINE copies == UNION {CopiesOf(m, b) : b \in mig[m].chunk}
                 drops == UNION {DropsOf(m, b) : b \in mig[m].chunk}
      <3>1. mig' = [mig EXCEPT ![m] = [mig[m] EXCEPT !.pc = "copy", !.copies = copies, !.drops = drops]]
        BY <2>3 DEF ChunkDrain, Step
      <3> HIDE DEF copies, drops
      <3>2. Same /\ mig'[m].pc = "copy" /\ mig'[m].chunk = mig[m].chunk
        BY <3>1, Stepped DEF MigFields
      <3> QED BY <2>2, <2>3, <3>2 DEF ChunkDrain, Drained, clusterVars
    <2>4. ASSUME NEW p, CopyExport(m, p) PROVE ControlInv' /\ Steady
      <3> DEFINE entries == Exported(m, p)
                 copies == mig[m].copies \ {p}
      <3>1. \/ mig' = [mig EXCEPT ![m] = [mig[m] EXCEPT !.pc = "import", !.pair = p, !.entries = entries]]
            \/ mig' = [mig EXCEPT ![m] = [mig[m] EXCEPT !.copies = copies]]
        BY <2>4 DEF CopyExport, Step
      <3> HIDE DEF entries, copies
      <3>2. Same /\ mig'[m].pc \in {mig[m].pc, "import"} /\ mig'[m].chunk = mig[m].chunk
        BY <3>1, Stepped DEF MigFields
      <3> QED BY <2>2, <2>4, <3>2 DEF CopyExport, gate, clusterVars
    <2>5. CASE CopyImport(m) \/ CopyFault(m)
      <3> DEFINE copies == mig[m].copies \ {mig[m].pair}
      <3>1. mig' = [mig EXCEPT ![m] = [mig[m] EXCEPT !.pc = "copy", !.copies = copies, !.pair = <<>>, !.entries = <<>>]]
        BY <2>5 DEF CopyImport, CopyFault, NextPair, Step
      <3> HIDE DEF copies
      <3>2. Same /\ mig'[m].pc = "copy" /\ mig'[m].chunk = mig[m].chunk
        BY <3>1, Stepped DEF MigFields
      <3> QED BY <2>2, <2>5, <3>2 DEF CopyImport, CopyFault, gate, clusterVars
    <2>6. ASSUME NEW n, DropBuckets(m, n) \/ DropFault(m, n) PROVE ControlInv' /\ Steady
      <3> DEFINE drops == mig[m].drops \ {n}
      <3>1. mig' = [mig EXCEPT ![m] = [mig[m] EXCEPT !.drops = drops]]
        BY <2>6 DEF DropBuckets, DropFault, Step
      <3> HIDE DEF drops
      <3>2. Same /\ mig'[m].pc = mig[m].pc /\ mig'[m].chunk = mig[m].chunk
        BY <3>1, Stepped DEF MigFields
      <3> QED BY <2>2, <2>6, <3>2 DEF DropBuckets, DropFault, gate, clusterVars
    <2> QED BY <2>1, <2>3, <2>4, <2>5, <2>6
  \* The chunk is cut over.  Nobody is inside its buckets.
  <1>CutoverControl. ASSUME Cutover(m)
                     PROVE  ControlInv' /\ Steady
    <2> USE <1>CutoverControl
    <2>1. /\ mig[m].pc = "copy" /\ overlay' = [overlay EXCEPT !.migrated = @ \cup mig[m].chunk]
          /\ UNCHANGED <<partitioner, replication, journal, migrating, frozen, entered>>
      BY DEF Cutover, gate
    <2>2. /\ mig'[m].pc = "drop" /\ DOMAIN mig'[m] = MigFields /\ mig'[m].old = mig[m].old /\ mig'[m].new = mig[m].new
          /\ mig'[m].done = mig[m].done /\ mig'[m].todo = mig[m].todo /\ mig'[m].chunk = mig[m].chunk
      BY Stepped DEF Cutover, Step, MigFields
    <2>3. AtWork(mig[m]) /\ mig[m].new \in Memb
      BY <2>1, Stepped DEF Phase, Working
    <2>4. mig[m].chunk \subseteq frozen /\ mig[m].chunk \subseteq Moved(mig[m].old, mig[m].new, ReplTarget)
      BY <2>1, <2>3 DEF AtWork
    <2>5. \A b \in mig[m].chunk : b \in Buckets /\ Closed(b)
      <3>1. owned = mig[m].chunk
        BY <2>1 DEF Context, ExclusionInv, OwnedInv, Moving
      <3>2. \A b \in mig[m].chunk : b \in Buckets
        BY <2>4 DEF Moved
      <3>3. \A b \in mig[m].chunk : ~Inside(b)
        BY <3>1, <3>2, MigrationAssumption DEF Context, ExclusionInv, OwnedInv, Inside
      <3> QED BY <2>4, <3>2, <3>3 DEF Closed
    <2>6. overlay # None /\ overlay \in Overlays
      BY <2>3 DEF AtWork, Context, ControlInv, JournalInv, OverlayInv
    <2>7. /\ overlay' \in Overlays /\ overlay'.migrated = overlay.migrated \cup mig[m].chunk
          /\ overlay'.old = overlay.old /\ overlay'.new = overlay.new
          /\ overlay'.r_old = overlay.r_old /\ overlay'.r_new = overlay.r_new
      BY <2>1, <2>5, <2>6 DEF Overlays
    <2>8. overlay' # None
      BY <2>7, MigrationAssumption DEF Context
    <2>9. OverlayInv'
      BY <2>6, <2>7 DEF Context, ControlInv, OverlayInv
    <2>10. JournalInv'
      <3>1. \A b : Closed(b)' <=> Closed(b)
        BY <2>1 DEF Closed, Inside
      <3> QED BY <2>1, <2>5, <2>7, <2>8, <3>1 DEF Context, ControlInv, JournalInv
    <2>11. RestInv'
      BY <2>1, Stepped DEF Context, ControlInv, RestInv, Holding, Moving
    <2>12. Phase(mig[m])'
      BY <2>1, <2>2, <2>3, <2>7 DEF AtWork, Phase, Working, Committing
    <2>13. Steady
      <3> SUFFICES ASSUME NEW b \in Buckets, ~Closed(b)
                   PROVE  Route(b)' = Route(b) /\ Range(CommittedOwners(b))' = Range(CommittedOwners(b))
        BY DEF Steady
      <3>1. b \in overlay'.migrated <=> b \in overlay.migrated
        BY <2>5, <2>7
      <3> QED BY SMT, <2>1, <2>6, <2>7, <2>8, <3>1 DEF Route, OverlayOwners, CommittedOwners
    <2> QED BY <2>9, <2>10, <2>11, <2>12, <2>13, <1>OnlyOne
  \* The chunk is thawed and journalled.
  <1>DoneControl. ASSUME ChunkDone(m)
                  PROVE  ControlInv' /\ Steady
    <2> USE <1>DoneControl
    <2> DEFINE done == mig[m].done \cup mig[m].chunk
               todo == mig[m].todo \ mig[m].chunk
    <2>1. /\ mig[m].pc = "drop" /\ frozen' = frozen \ mig[m].chunk
          /\ journal' = [old |-> mig[m].old, new |-> mig[m].new, done |-> done]
          /\ UNCHANGED <<partitioner, replication, overlay, migrating, entered>>
      BY DEF ChunkDone, Unfreeze, save_record
    <2>2. AtWork(mig[m]) /\ mig[m].new \in Memb
      BY <2>1, Stepped DEF Phase, Working
    <2>3. /\ mig'[m].pc = "chunk" /\ DOMAIN mig'[m] = MigFields /\ mig'[m].old = mig[m].old /\ mig'[m].new = mig[m].new
          /\ mig'[m].done = done /\ mig'[m].todo = todo
      <3>1. mig' = [mig EXCEPT ![m] = [mig[m] EXCEPT !.pc = "chunk", !.done = done, !.todo = todo, !.chunk = {}]]
        BY DEF ChunkDone, Step
      <3> HIDE DEF done, todo
      <3> QED BY <3>1, Stepped DEF MigFields
    <2>4. journal \in Records /\ overlay # None /\ overlay.migrated = done
          /\ journal.old = overlay.old /\ journal.new = overlay.new
      BY <2>1, <2>2 DEF AtWork, Context, ControlInv, JournalInv
    <2>5. journal' \in Records /\ journal' # None
      <3>1. done \subseteq Buckets
        BY <2>4 DEF Context, ControlInv, OverlayInv, Overlays
      <3>2. journal' \in Records
        BY <2>1, <2>2, <2>4, <3>1 DEF AtWork, Records
      <3> QED BY <3>2, MigrationAssumption DEF Context
    <2>6. OverlayInv'
      BY <2>1 DEF Context, ControlInv, OverlayInv
    <2>7. JournalInv'
      BY <2>1, <2>2, <2>4, <2>5 DEF AtWork, Context, ControlInv, JournalInv
    <2>8. RestInv'
      BY <2>1, Stepped DEF Context, ControlInv, RestInv, Holding, Moving
    <2>9. Phase(mig[m])'
      <3>1. AtWork(mig[m])'
        BY <2>1, <2>2, <2>3, <2>4, <2>5 DEF AtWork
      <3> QED BY <2>2, <2>3, <3>1 DEF Phase, Working, Committing
    <2>10. Steady
      BY <2>1 DEF Steady, Route, OverlayOwners, CommittedOwners
    <2> QED BY <2>6, <2>7, <2>8, <2>9, <2>10, <1>OnlyOne
  \* The plan has run out: the journal is cleared.
  <1>EpochControl. ASSUME CommitEpoch(m)
                   PROVE  ControlInv' /\ Steady
    <2> USE <1>EpochControl
    <2>1. /\ mig[m].pc = "chunk" /\ mig[m].todo = {} /\ journal' = None
          /\ UNCHANGED <<partitioner, replication, overlay, migrating, frozen, entered>>
      BY DEF CommitEpoch, gate
    <2>2. /\ mig'[m].pc = "nodes" /\ DOMAIN mig'[m] = MigFields
          /\ mig'[m].old = mig[m].old /\ mig'[m].new = mig[m].new
      BY Stepped DEF CommitEpoch, Step, MigFields
    <2>3. AtWork(mig[m]) /\ mig[m].new \in Memb
      BY <2>1, Stepped DEF Phase, Working
    <2>4. frozen = {} /\ overlay # None /\ overlay.old = mig[m].old /\ overlay.new = mig[m].new
          /\ overlay.old # overlay.new /\ Moved(mig[m].old, mig[m].new, ReplTarget) \subseteq overlay.migrated
      BY <2>1, <2>3 DEF AtWork, Context, ControlInv, JournalInv, OverlayInv
    <2>5. OverlayInv' /\ JournalInv'
      BY <2>1, <2>4 DEF Context, ControlInv, OverlayInv, JournalInv
    <2>6. RestInv'
      BY <2>1, Stepped DEF Context, ControlInv, RestInv, Holding, Moving
    <2>7. Phase(mig[m])'
      <3>1. AtCommit(mig[m])'
        BY <2>1, <2>2, <2>3, <2>4 DEF AtWork, AtCommit
      <3> QED BY <2>2, <2>3, <3>1 DEF Phase, Working, Committing
    <2>8. Steady
      BY <2>1 DEF Steady, Route, OverlayOwners, CommittedOwners
    <2> QED BY <2>5, <2>6, <2>7, <2>8, <1>OnlyOne
  \* commit_membership, field by field.  Between two of its writes the committed owners
  \* may differ from the route, but not for a bucket where they were the same.
  <1>CommitControl. ASSUME CommitNodes(m) \/ CommitReplication(m)
                    PROVE  ControlInv' /\ Steady
    <2> USE <1>CommitControl
    <2> DEFINE old == mig[m].old
               new == mig[m].new
    <2>1. /\ mig[m].pc \in {"nodes", "replication"}
          /\ UNCHANGED <<journal, overlay, migrating, frozen, entered>>
          /\ mig[m].pc = "nodes" => partitioner' = new /\ replication' = replication /\ mig'[m].pc = "replication"
          /\ mig[m].pc = "replication" =>
               partitioner' = partitioner /\ replication' = Replicas(new) /\ mig'[m].pc = "clients"
      BY Stepped DEF CommitNodes, CommitReplication, gate, Replicas, Step, MigFields
    <2>2. DOMAIN mig'[m] = MigFields /\ mig'[m].old = old /\ mig'[m].new = new
      BY Stepped DEF CommitNodes, CommitReplication, Step, MigFields
    <2>3. AtCommit(mig[m]) /\ new \in Memb
      BY <2>1, Stepped DEF Phase, Committing
    <2>4. OverlayInv' /\ JournalInv'
      BY <2>1 DEF Context, ControlInv, OverlayInv, JournalInv, Closed, Inside
    <2>5. RestInv'
      BY <2>1, <2>3, Stepped DEF Context, ControlInv, RestInv, Holding, Moving
    <2>6. Phase(mig[m])'
      <3>1. AtCommit(mig[m])'
        BY <2>1, <2>2, <2>3 DEF AtCommit
      <3> QED BY <2>1, <2>2, <2>3, <3>1 DEF Phase, Working, Committing
    <2>7. Steady
      <3> SUFFICES ASSUME NEW b \in Buckets
                   PROVE  /\ Route(b)' = Route(b)
                          /\ Range(CommittedOwners(b)) = Route(b) => (Range(CommittedOwners(b)) = Route(b))'
        BY DEF Steady
      <3>1. CASE old = new
        <4>1. UNCHANGED <<partitioner, replication>>
          BY <2>1, <2>3, <3>1 DEF AtCommit
        <4> QED BY <2>1, <4>1 DEF Route, OverlayOwners, CommittedOwners
      <3>2. CASE old # new
        <4>1. old \in Memb /\ Route(b) = Placed(b, new) /\ overlay # None
          BY <2>1, <3>2, CommitRoute DEF Committing
        <4>2. Route(b)' = Route(b)
          BY <2>1, <4>1 DEF Route, OverlayOwners
        <4>3. CASE mig[m].pc = "nodes"
          <5>1. Range(CommittedOwners(b)) = Placed(b, old) /\ replication = Replicas(old)
            BY <2>3, <4>3, RouteIs DEF AtCommit
          <5>2. Range(CommittedOwners(b))' = OwnerSet(b, new, Replicas(old))
            BY <2>1, <4>3, <5>1 DEF CommittedOwners, OwnerSet
          <5>3. Placed(b, old) = Placed(b, new) => Replicas(old) = Replicas(new)
            BY <2>3, <4>1, PlacedFacts DEF Context
          <5> QED BY <4>1, <4>2, <5>1, <5>2, <5>3 DEF Placed
        <4>4. CASE mig[m].pc = "replication"
          <5>1. Range(CommittedOwners(b))' = Placed(b, new)
            BY <2>1, <2>3, <4>4 DEF AtCommit, CommittedOwners, Placed, OwnerSet
          <5> QED BY <4>1, <4>2, <5>1
        <4> QED BY <2>1, <4>3, <4>4
      <3> QED BY <3>1, <3>2
    <2> QED BY <2>4, <2>5, <2>6, <2>7, <1>OnlyOne
  \* The lock is released with the membership committed.
  <1>CloseControl. ASSUME CommitClients(m) \/ DropOverlay(m)
                   PROVE  ControlInv' /\ Steady
    <2> USE <1>CloseControl
    <2> DEFINE old == mig[m].old
               new == mig[m].new
    <2>1. mig[m].pc \in {"clients", "close"} /\ UNCHANGED <<partitioner, replication, journal, frozen, entered>>
      BY DEF CommitClients, DropOverlay, gate
    <2>2. AtCommit(mig[m]) /\ new \in Memb /\ partitioner = new /\ replication = Replicas(new)
      BY <2>1, Stepped DEF Phase, Committing, AtCommit
    <2>3. CASE CommitClients(m) /\ old # new
      <3>1. /\ UNCHANGED <<overlay, migrating>> /\ mig'[m].pc = "close" /\ DOMAIN mig'[m] = MigFields
            /\ mig'[m].old = old /\ mig'[m].new = new /\ mig[m].pc = "clients"
        BY ZenonT(60), <2>3, Stepped DEF CommitClients, Step, MigFields
      <3>2. OverlayInv' /\ JournalInv' /\ RestInv'
        BY <2>1, <3>1 DEF Context, ControlInv, OverlayInv, JournalInv, RestInv, Closed, Inside
      <3>3. AtCommit(mig[m])'
        BY <2>1, <2>2, <2>3, <3>1 DEF AtCommit
      <3>4. Phase(mig[m])'
        BY <2>2, <3>1, <3>3 DEF Phase, Working, Committing
      <3>5. Steady
        BY <2>1, <3>1 DEF Steady, Route, OverlayOwners, CommittedOwners
      <3> QED BY <3>2, <3>4, <3>5, <1>OnlyOne
    <2>4. CASE ~(CommitClients(m) /\ old # new)
      <3>1. overlay' = None /\ migrating' = None /\ mig'[m] = IdleMig
        BY <2>2, <2>4, Stepped DEF CommitClients, DropOverlay, Step, AtCommit
      <3>2. OverlayInv' /\ JournalInv'
        BY <2>1, <2>2, <3>1 DEF Context, ControlInv, OverlayInv, JournalInv, AtCommit
      <3>3. RestInv'
        BY <2>1, <2>2, <3>1 DEF RestInv
      <3>4. Phase(mig[m])'
        BY SMT, <3>1 DEF IdleMig, MigFields, Phase, Working, Committing
      <3>5. Steady
        <4> SUFFICES ASSUME NEW b \in Buckets
                     PROVE  /\ Route(b)' = Route(b)
                            /\ Range(CommittedOwners(b))' = Route(b)'
          BY DEF Steady
        <4>1. Route(b)' = Placed(b, new) /\ Range(CommittedOwners(b))' = Placed(b, new)
              /\ Range(CommittedOwners(b)) = Placed(b, new)
          BY <2>1, <2>2, <3>1 DEF Route, CommittedOwners, Placed, OwnerSet
        <4>2. Route(b) = Placed(b, new)
          <5>1. CASE old = new
            BY <2>1, <2>2, <4>1, <5>1, RouteIs DEF AtCommit
          <5>2. CASE old # new
            BY <2>1, <5>2, CommitRoute DEF Committing
          <5> QED BY <5>1, <5>2
        <4> QED BY <4>1, <4>2
      <3> QED BY <3>2, <3>3, <3>4, <3>5, <1>OnlyOne
    <2> QED BY <2>3, <2>4
  <1>1. CASE MigrationStart(m)
    <2>1. \A new \in Targets : new \in Memb
      BY MigrationAssumption DEF Context, Orderly, Memb
    <2>2. CASE resume_migration(m)
      BY <2>2, <1>ReadControl DEF resume_migration, gate
    <2>3. ASSUME NEW new \in Targets, NEW stop, Start(m, new, stop)
          PROVE  ControlInv' /\ Steady /\ UNCHANGED <<op, entered>>
      <3>1. new \in Memb
        BY <2>1
      <3> QED BY <2>3, <3>1, <1>StartControl DEF Start, gate
    <2> QED BY <1>1, <2>2, <2>3 DEF MigrationStart, rebalance, apply_membership, rebalance_partial, drain
  <1>2. UNCHANGED <<op, entered>>
    BY <1>1 DEF MigrationStep, ReadMembers, InstallOverlay, StopEarly, ChunkFreeze, ChunkDrain,
       CopyExport, CopyImport,
       CopyFault, Cutover, DropBuckets, DropFault, ChunkDone, CommitEpoch, CommitNodes, CommitReplication, CommitClients,
       DropOverlay, MigrationCancel, Abandon, Freeze, Drained, Unfreeze, gate
  <1>3. CASE ~MigrationStart(m)
    BY <1>2, <1>3, <1>ReadControl, <1>InstallControl, <1>InterruptControl, <1>ChunkControl,
       <1>CutoverControl, <1>DoneControl,
       <1>EpochControl, <1>CommitControl, <1>CloseControl
    DEF MigrationStep
  <1> QED BY <1>1, <1>3
-----------------------------------------------------------------------------
(***************************************************************************)
(* The data plane: what a call in progress is, and where it is sent.       *)
(***************************************************************************)
OpFields == {"pc", "kind", "key", "val", "expect", "todo", "legal"}

\* the form of a call in progress
OpInv ==
  \A o \in Ops :
    /\ DOMAIN op[o] = OpFields
    /\ op[o].pc \in Active \cup {"idle", "done"}
    /\ op[o].kind \in Reads \cup Writes
    /\ op[o].pc # "idle" => op[o].key \in Keys
    /\ op[o].pc = "replicate" => op[o].kind \in {"cas", "incr"}
    /\ op[o].pc = "done" => op[o].kind \in Reads
    /\ op[o].todo \in Seq(Nodes)

\* a call other than o: what a read may return can only grow
Same(p) ==
  /\ DOMAIN op'[p] = DOMAIN op[p]
  /\ op'[p].pc = op[p].pc /\ op'[p].kind = op[p].kind /\ op'[p].key = op[p].key
  /\ op'[p].val = op[p].val /\ op'[p].todo = op[p].todo
  /\ op[p].legal \subseteq op'[p].legal
  /\ op[p].pc \in {"idle", "done"} => op'[p].legal = op[p].legal

Others(o) == \A p \in Ops \ {o} : Same(p)

\* o is still the call it was, with `pc' and `todo'
GoesOn(o) ==
  /\ DOMAIN op'[o] = DOMAIN op[o]
  /\ op'[o].kind = op[o].kind /\ op'[o].key = op[o].key /\ op'[o].legal = op[o].legal

Returned(o) == op'[o] = IdleOp /\ Others(o)

\* v is added to what the reads of k in progress may return
LegalGrows(o, k, v) ==
  \A p \in Ops \ {o} : op[p].kind \in Reads /\ op[p].key = k /\ op[p].pc \in Active => v \in op'[p].legal
-----------------------------------------------------------------------------
\* o's call is replaced, and v recorded for the reads of k
Recorded(o, call, k, v) == op' = WithLegal([op EXCEPT ![o] = call], k, v)

\* Recording what a read may return changes nothing else of the other calls.
LEMMA CallReplaced ==
  ASSUME DOMAIN op = Ops, OpInv, NEW o \in Ops, NEW call, DOMAIN call = OpFields, NEW k, NEW v,
         Recorded(o, call, k, v), call.kind \in Writes \/ call.pc = "idle"
  PROVE  /\ Others(o) /\ LegalGrows(o, k, v) /\ DOMAIN op' = Ops /\ op'[o] = call
PROOF
  <1> DEFINE f == [op EXCEPT ![o] = call]
             Open(c) == c.kind \in Reads /\ c.key = k /\ c.pc \notin {"idle", "done"}
  <1>1. DOMAIN f = Ops /\ f[o] = call /\ (\A p \in Ops \ {o} : f[p] = op[p])
    OBVIOUS
  <1>2. op' = [p \in Ops |-> IF Open(f[p]) THEN [f[p] EXCEPT !.legal = @ \cup {v}] ELSE f[p]]
    BY DEF WithLegal, Recorded
  <1> HIDE DEF f
  <1>3. ~Open(call)
    BY DEF Reads, Writes
  <1>4. DOMAIN op' = Ops /\ op'[o] = call
    BY <1>1, <1>2, <1>3
  <1>5. ASSUME NEW p \in Ops \ {o}
        PROVE  Same(p) /\ (op[p].kind \in Reads /\ op[p].key = k /\ op[p].pc \in Active => v \in op'[p].legal)
    <2>1. op'[p] = IF Open(op[p]) THEN [op[p] EXCEPT !.legal = @ \cup {v}] ELSE op[p]
      BY <1>1, <1>2
    <2>2. DOMAIN op[p] = OpFields
      BY DEF OpInv
    <2>3. op[p].pc \in Active => op[p].pc \notin {"idle", "done"}
      BY DEF Active
    <2>4. CASE Open(op[p])
      BY ZenonT(60), <2>1, <2>2, <2>4 DEF Same, OpFields
    <2>5. CASE ~Open(op[p])
      BY <2>1, <2>3, <2>5 DEF Same
    <2> QED BY <2>4, <2>5
  <1> QED BY <1>4, <1>5 DEF Others, LegalGrows

\* A step that only replaces o's call.
LEMMA CallOnly ==
  ASSUME DOMAIN op = Ops, NEW o \in Ops, NEW call, op' = [op EXCEPT ![o] = call]
  PROVE  op'[o] = call /\ DOMAIN op' = Ops /\ Others(o)
  BY DEF Others, Same

\* What each operation of the data plane does to its call.
LEMMA BeginCall ==
  ASSUME DOMAIN op = Ops, OpInv, NEW o \in Ops, NEW kind \in Reads \cup Writes, NEW k \in Keys, NEW v, NEW e,
         Begin(o, kind, k, v, e)
  PROVE  /\ Others(o) /\ DOMAIN op' = Ops /\ DOMAIN op'[o] = OpFields
         /\ op'[o].pc = "route" /\ op'[o].kind = kind /\ op'[o].key = k /\ op'[o].val = v /\ op'[o].todo = <<>>
         /\ kind \in Reads => op'[o].legal = {truth[k]} \cup doubt[k] \cup InFlightValues(k)
         /\ kind \in {"put", "delete"} => LegalGrows(o, k, v)
PROOF
  <1> DEFINE legal == IF kind \in Reads THEN {truth[k]} \cup doubt[k] \cup InFlightValues(k) ELSE {}
             call == [pc |-> "route", kind |-> kind, key |-> k, val |-> v, expect |-> e, todo |-> <<>>, legal |-> legal]
  <1>1. op' = IF kind \in {"put", "delete"} THEN WithLegal([op EXCEPT ![o] = call], k, v) ELSE [op EXCEPT ![o] = call]
    BY DEF Begin
  <1>2. /\ DOMAIN call = OpFields /\ call.pc = "route" /\ call.kind = kind /\ call.key = k /\ call.val = v
        /\ call.todo = <<>> /\ call.legal = legal
    BY DEF OpFields
  <1> HIDE DEF call
  <1>3. CASE kind \in {"put", "delete"}
    <2>1. kind \in Writes /\ kind \notin Reads
      BY <1>3 DEF Writes, Reads
    <2>2. Recorded(o, call, k, v)
      BY <1>1, <1>3 DEF Recorded
    <2> QED BY <1>2, <2>1, <2>2, CallReplaced
  <1>4. CASE kind \notin {"put", "delete"}
    BY <1>1, <1>2, <1>4, CallOnly
  <1> QED BY <1>3, <1>4

\* o knows its owners, or that there is no overlay.
LEMMA RouteCall ==
  ASSUME DOMAIN op = Ops, OpInv, NEW o \in Ops, ReadOverlay(o) \/ ReadPartitioner(o)
  PROVE  /\ Others(o) /\ DOMAIN op' = Ops /\ GoesOn(o) /\ op'[o].val = op[o].val
         /\ \/ /\ op[o].pc = "route" /\ overlay = None
               /\ op'[o].pc = "route2" /\ op'[o].todo = op[o].todo
            \/ /\ op[o].pc = "route" /\ overlay # None
               /\ op'[o].pc = "call" /\ op'[o].todo = Targeted(op[o].kind, OverlayOwners(bucket_of[op[o].key]))
            \/ /\ op[o].pc = "route2"
               /\ op'[o].pc = "call" /\ op'[o].todo = Targeted(op[o].kind, CommittedOwners(bucket_of[op[o].key]))
PROOF
  <1>0. DOMAIN op[o] = OpFields
    BY DEF OpInv
  <1>1. ASSUME NEW s, op' = [op EXCEPT ![o].pc = "call", ![o].todo = s]
        PROVE  /\ Others(o) /\ DOMAIN op' = Ops /\ GoesOn(o) /\ op'[o].val = op[o].val
               /\ op'[o].pc = "call" /\ op'[o].todo = s
    BY <1>0, <1>1 DEF Others, Same, GoesOn, OpFields
  <1>2. ASSUME op' = [op EXCEPT ![o].pc = "route2"]
        PROVE  /\ Others(o) /\ DOMAIN op' = Ops /\ GoesOn(o) /\ op'[o].val = op[o].val
               /\ op'[o].pc = "route2" /\ op'[o].todo = op[o].todo
    BY <1>0, <1>2 DEF Others, Same, GoesOn, OpFields
  <1> QED BY <1>1, <1>2 DEF ReadOverlay, ReadPartitioner

\* A read asks its next owner, or has its answer.
LEMMA GetCallEffect ==
  ASSUME DOMAIN op = Ops, OpInv, NEW o \in Ops, GetCall(o)
  PROVE  /\ Others(o) /\ DOMAIN op' = Ops /\ GoesOn(o) /\ op[o].pc = "call" /\ op[o].kind \in Reads
         /\ \/ /\ op[o].todo # <<>> /\ ~(~is_down(Head(op[o].todo)) /\ Reachable(Head(op[o].todo)))
               /\ op'[o].pc = op[o].pc /\ op'[o].val = op[o].val /\ op'[o].todo = Tail(op[o].todo)
               /\ UNCHANGED gate
            \/ /\ op'[o].pc = "done" /\ op'[o].todo = <<>> /\ Release(o)
               /\ \/ op[o].todo = <<>> /\ op'[o].val = Absent
                  \/ /\ op[o].todo # <<>> /\ ~is_down(Head(op[o].todo)) /\ Reachable(Head(op[o].todo))
                     /\ op'[o].val = data[Head(op[o].todo)][op[o].key]
PROOF
  <1>0. DOMAIN op[o] = OpFields
    BY DEF OpInv
  <1>1. ASSUME NEW v, op' = [op EXCEPT ![o].pc = "done", ![o].val = v, ![o].todo = <<>>]
        PROVE  Others(o) /\ DOMAIN op' = Ops /\ GoesOn(o) /\ op'[o].pc = "done" /\ op'[o].val = v /\ op'[o].todo = <<>>
    BY <1>0, <1>1 DEF Others, Same, GoesOn, OpFields
  <1>2. ASSUME op' = [op EXCEPT ![o].todo = Tail(@)]
        PROVE  /\ Others(o) /\ DOMAIN op' = Ops /\ GoesOn(o)
               /\ op'[o].pc = op[o].pc /\ op'[o].val = op[o].val /\ op'[o].todo = Tail(op[o].todo)
    BY <1>0, <1>2 DEF Others, Same, GoesOn, OpFields
  <1> QED BY <1>1, <1>2 DEF GetCall, ReturnRead, object

\* A write calls its next owner.
LEMMA WriteCallEffect ==
  ASSUME DOMAIN op = Ops, OpInv, NEW o \in Ops, BroadcastCall(o) \/ ReplicaCall(o)
  PROVE  /\ Others(o) /\ DOMAIN op' = Ops /\ GoesOn(o) /\ op[o].todo # <<>>
         /\ op'[o].pc = op[o].pc /\ op'[o].val = op[o].val /\ op'[o].todo = Tail(op[o].todo)
PROOF
  <1>0. DOMAIN op[o] = OpFields
    BY DEF OpInv
  <1>1. op' = [op EXCEPT ![o].todo = Tail(@)] /\ op[o].todo # <<>>
    BY DEF BroadcastCall, ReplicaCall
  <1> QED BY <1>0, <1>1 DEF Others, Same, GoesOn, OpFields

\* A call returns, or its caller has the answer.
LEMMA ReturnEffect ==
  ASSUME DOMAIN op = Ops, NEW o \in Ops, ReadDone(o) \/ ReturnWrite(o)
  PROVE  Returned(o) /\ DOMAIN op' = Ops
  BY CallOnly DEF ReadDone, ReturnWrite, Returned

\* The read-modify-write applies: the new value is recorded.
LEMMA RmwEffect ==
  ASSUME DOMAIN op = Ops, OpInv, NEW o \in Ops, RmwPrimary(o), ~ReturnWrite(o)
  PROVE  LET n == Head(op[o].todo)
             v == Modified(o, data[n][op[o].key])
         IN  /\ op[o].todo # <<>> /\ Reachable(n) /\ data' = write(n, op[o].key, v) /\ UNCHANGED gate
             /\ Others(o) /\ LegalGrows(o, op[o].key, v) /\ DOMAIN op' = Ops /\ DOMAIN op'[o] = OpFields
             /\ op'[o].pc = "replicate" /\ op'[o].kind = op[o].kind /\ op'[o].key = op[o].key
             /\ op'[o].val = v /\ op'[o].todo = Tail(op[o].todo)
PROOF
  <1> DEFINE n == Head(op[o].todo)
             k == op[o].key
             v == Modified(o, data[n][k])
             call == [op[o] EXCEPT !.pc = "replicate", !.val = v, !.todo = Tail(@)]
  <1>0. DOMAIN op[o] = OpFields
    BY DEF OpInv
  <1>1. /\ op[o].todo # <<>> /\ Reachable(n) /\ data' = write(n, k, v) /\ UNCHANGED gate
        /\ op' = WithLegal([op EXCEPT ![o].pc = "replicate", ![o].val = v, ![o].todo = Tail(@)], k, v)
        /\ op[o].kind \in Writes
    BY DEF RmwPrimary, object, Writes
  <1> HIDE DEF v
  <1>2. [op EXCEPT ![o].pc = "replicate", ![o].val = v, ![o].todo = Tail(@)] = [op EXCEPT ![o] = call]
    OBVIOUS
  <1>3. /\ DOMAIN call = OpFields /\ call.pc = "replicate" /\ call.kind = op[o].kind /\ call.key = k /\ call.val = v
        /\ call.todo = Tail(op[o].todo)
    BY <1>0 DEF OpFields
  <1> HIDE DEF call
  <1>4. Recorded(o, call, k, v)
    BY <1>1, <1>2 DEF Recorded
  <1>5. Others(o) /\ LegalGrows(o, k, v) /\ DOMAIN op' = Ops /\ op'[o] = call
    BY <1>1, <1>3, <1>4, CallReplaced
  <1> QED BY <1>1, <1>3, <1>5 DEF v

\* The read-modify-write applies but its answer is lost.
LEMMA LostEffect ==
  ASSUME DOMAIN op = Ops, OpInv, NEW o \in Ops, RmwReplyLost(o)
  PROVE  Returned(o) /\ DOMAIN op' = Ops
PROOF
  <1> DEFINE v == Modified(o, object(Head(op[o].todo), op[o].key))
  <1>1. Recorded(o, IdleOp, op[o].key, v)
    BY DEF RmwReplyLost, Recorded
  <1>2. DOMAIN IdleOp = OpFields /\ IdleOp.pc = "idle"
    BY DEF IdleOp, OpFields
  <1> HIDE DEF v
  <1> QED BY <1>1, <1>2, CallReplaced DEF Returned
-----------------------------------------------------------------------------
\* an operation inside the gate was routed by what is still the route
RoutedInv ==
  \A o \in Ops : Gated(op[o].kind) =>
    /\ op[o].pc = "route2" =>
         Range(CommittedOwners(bucket_of[op[o].key])) = Route(bucket_of[op[o].key])
    /\ op[o].pc \in {"call", "replicate"} => Range(op[o].todo) \subseteq Route(bucket_of[op[o].key])

\* The lists that `owners` returns are lists of nodes.
LEMMA OwnerLists ==
  ASSUME Context, NEW b \in Buckets
  PROVE  /\ CommittedOwners(b) \in Seq(Nodes)
         /\ overlay # None => OverlayOwners(b) \in Seq(Nodes) /\ Range(OverlayOwners(b)) = Route(b)
         /\ Route(b) \subseteq Nodes /\ replication \in Nat
PROOF
  <1>1. partitioner \in Memb /\ migrating \in Migrators \cup {None}
    BY DEF Context, ControlInv, RestInv
  <1>2. replication \in Nat
    <2>1. CASE migrating = None
      <3>1. replication = Replicas(partitioner)
        BY <2>1 DEF Context, ControlInv, RestInv
      <3> QED BY <1>1, <3>1, ReplicasType DEF Context
    <2>2. CASE migrating # None
      <3>1. PICK m \in Migrators : migrating = m
        BY <1>1, <2>2
      <3>2. mig[m].pc \in Working \/ mig[m].pc \in Committing
        BY <3>1, Stepped DEF Holding, Moving, Working, Committing
      <3>3. CASE mig[m].pc \in Working
        <4>1. replication = Replicas(partitioner)
          BY <3>3, Stepped DEF Phase, AtWork
        <4> QED BY <1>1, <4>1, ReplicasType DEF Context
      <3>4. CASE mig[m].pc \in Committing
        <4>1. AtCommit(mig[m]) /\ mig[m].new \in Memb
          BY <3>4, Stepped DEF Phase, Committing
        <4>2. mig[m].old \in Memb
          BY <3>4, <4>1, CommitRoute
        <4> QED BY <4>1, <4>2, ReplicasType DEF AtCommit, Context
      <3> QED BY <3>2, <3>3, <3>4
    <2> QED BY <2>1, <2>2
  <1>3. CommittedOwners(b) \in Seq(Nodes)
    <2>1. partitioner \in SUBSET Nodes
      BY <1>1 DEF Memb
    <2>2. CommittedOwners(b) \in Seq(partitioner)
      BY <1>2, <2>1, OwnersAre DEF Context, CommittedOwners
    <2> QED BY SMT, <2>1, <2>2
  <1>4. ASSUME overlay # None PROVE OverlayOwners(b) \in Seq(Nodes) /\ Range(OverlayOwners(b)) = Route(b)
    <2>1. overlay.old \in Memb /\ overlay.new \in Memb
      BY <1>4, RouteIs
    <2>2. overlay.r_old = Replicas(overlay.old) /\ overlay.r_new = Replicas(overlay.new)
      BY <1>4 DEF Context, ControlInv, OverlayInv
    <2>3. /\ owners_of_bucket(b, overlay.old, Replicas(overlay.old)) \in Seq(Nodes)
          /\ owners_of_bucket(b, overlay.new, Replicas(overlay.new)) \in Seq(Nodes)
      BY <2>1, PlacedFacts DEF Context
    <2> QED BY <1>4, <2>2, <2>3 DEF OverlayOwners, Route
  <1>5. \A s \in Seq(Nodes) : Range(s) \subseteq Nodes
    BY SMT DEF Range
  <1> QED BY <1>2, <1>3, <1>4, <1>5 DEF Route

\* What a call is to be sent to.
LEMMA TargetedFacts ==
  ASSUME NEW s \in Seq(Nodes), NEW kind \in Reads \cup Writes
  PROVE  /\ Targeted(kind, s) \in Seq(Nodes)
         /\ kind \in {"get", "put", "delete"} => Targeted(kind, s) = s
         /\ kind \in {"cas", "incr"} => Range(Targeted(kind, s)) = Range(s) \ down
PROOF
  \* Filtering keeps exactly the elements asked for.
  <1>FilteredRange. ASSUME NEW T
                    PROVE  Filtered(s, T) \in Seq(Nodes) /\ Range(Filtered(s, T)) = Range(s) \cap T
    <2> DEFINE at == {i \in DOMAIN s : s[i] \in T}
               before == {p \in Nat \X Nat : p[1] < p[2]}
               n == Cardinality(at)
               f == Filtered(s, T)
               of(j) == CHOOSE i \in at : Cardinality(Preceding(at, before, i)) = j - 1
    <2>1. at \in SUBSET (1 .. Len(s)) /\ Len(s) \in Nat /\ DOMAIN s = 1 .. Len(s)
      BY SMT
    <2>2. IsFiniteSet(at)
      <3>1. IsFiniteSet(1 .. Len(s))
        BY SMT, <2>1, FS_Interval
      <3> QED BY <2>1, <3>1, FS_Subset
    <2>3. \A i \in at : i \in Nat
      BY SMT, <2>1
    <2>4. Ordered(at, before)
      BY SMT, <2>3 DEF Ordered
    <2> HIDE DEF at, before
    <2>5. /\ n \in Nat
          /\ \A x \in at : Cardinality(Preceding(at, before, x)) \in 0 .. n - 1
          /\ \A x, y \in at : Cardinality(Preceding(at, before, x)) = Cardinality(Preceding(at, before, y)) => x = y
          /\ \A i \in 1 .. n : \E x \in at : Cardinality(Preceding(at, before, x)) = i - 1
      BY SMT, <2>2, <2>4, Numbered
    <2>6. \A i \in at : {h \in at : h < i} = Preceding(at, before, i)
      BY <2>3 DEF Preceding, before
    <2>7. f = [j \in 1 .. n |-> s[of(j)]]
      <3>1. \A j \in 1 .. n : (CHOOSE i \in at : Cardinality({h \in at : h < i}) = j - 1) = of(j)
        BY <2>6
      <3>2. f = [j \in 1 .. n |-> s[CHOOSE i \in at : Cardinality({h \in at : h < i}) = j - 1]]
        BY DEF Filtered, at
      <3> QED BY <3>1, <3>2
    <2> HIDE DEF f, n
    <2>8. ASSUME NEW j \in 1 .. n PROVE of(j) \in at /\ Cardinality(Preceding(at, before, of(j))) = j - 1
      BY <2>5
    <2>9. ASSUME NEW i \in at PROVE \E j \in 1 .. n : of(j) = i
      <3> DEFINE j == Cardinality(Preceding(at, before, i)) + 1
      <3>1. j \in 1 .. n /\ Cardinality(Preceding(at, before, i)) = j - 1
        BY SMT, <2>5
      <3> HIDE DEF j
      <3>2. of(j) \in at /\ Cardinality(Preceding(at, before, of(j))) = j - 1
        BY <2>8, <3>1
      <3> QED BY <2>5, <3>1, <3>2
    <2> HIDE DEF of
    <2>10. f \in Seq(Nodes)
      <3>1. \A j \in 1 .. n : s[of(j)] \in Nodes
        <4>1. \A i \in 1 .. Len(s) : s[i] \in Nodes
          BY SMT
        <4>2. \A i \in at : s[i] \in Nodes
          BY <2>1, <4>1
        <4> QED BY <2>8, <4>2
      <3>2. f \in [1 .. n -> Nodes]
        BY <2>7, <3>1
      <3> QED BY SMT, <2>5, <3>2
    <2>11. Range(f) \subseteq Range(s) \cap T
      BY <2>1, <2>7, <2>8 DEF Range, at
    <2>12. Range(s) \cap T \subseteq Range(f)
      BY <2>1, <2>7, <2>9 DEF Range, at
    <2> QED BY <2>10, <2>11, <2>12 DEF f
  <1> DEFINE live == Filtered(s, Nodes \ down)
  <1>1. live \in Seq(Nodes) /\ Range(live) = Range(s) \cap (Nodes \ down)
    BY <1>FilteredRange
  <1>2. Range(s) \subseteq Nodes
    BY SMT DEF Range
  <1> HIDE DEF live
  <1>3. Take(live, 1) \in Seq(Nodes)
    <2>1. Len(live) \in Nat
      BY SMT, <1>1
    <2>2. AtMost(1, Len(live)) \in 0 .. Len(live)
      BY SMT, <2>1 DEF AtMost
    <2> QED BY SMT, <1>1, <2>1, <2>2 DEF Take
  <1>4. Targeted(kind, s) = CASE kind \in {"cas", "incr"} -> live [] kind = "mget" -> Take(live, 1) [] OTHER -> s
    BY DEF Targeted, live
  <1>5. kind \in {"get", "mget", "put", "delete", "cas", "incr"}
    BY DEF Reads, Writes
  <1>6. CASE kind \in {"cas", "incr"}
    BY <1>1, <1>2, <1>4, <1>6
  <1>7. CASE kind = "mget"
    BY <1>3, <1>4, <1>7
  <1>8. CASE kind \in {"get", "put", "delete"}
    BY <1>4, <1>8
  <1> QED BY <1>5, <1>6, <1>7, <1>8

\* An operation that is past its gate is inside the bucket of its key.
LEMMA InsideBucket ==
  ASSUME ExclusionInv, NEW o \in Ops, op[o].pc \in Active, Gated(op[o].kind)
  PROVE  /\ op[o].key \in Keys /\ bucket_of[op[o].key] \in Buckets
         /\ Inside(bucket_of[op[o].key]) /\ ~Closed(bucket_of[op[o].key])
  BY PlacementAssumption DEF ExclusionInv, InsideInv, Inside, Closed
-----------------------------------------------------------------------------
(***************************************************************************)
(* RouteIsStable.                                                          *)
(***************************************************************************)
RouteInv == Orderly /\ ExclusionInv /\ ControlInv /\ OpInv /\ RoutedInv

\* Only buckets are frozen.
LEMMA FrozenBuckets ==
  ASSUME Context
  PROVE  frozen \subseteq Buckets
  BY DEF Context, ControlInv, JournalInv, Moved

\* The data plane enters and leaves buckets that are open.
LEMMA OpControl ==
  ASSUME Context, NEW o \in Ops,
         \/ \E kind \in Kinds, k \in Keys : \E a \in Arguments(kind) : Begin(o, kind, k, a[1], a[2])
         \/ OpStep(o) \/ RmwReplyLost(o)
  PROVE  ControlInv' /\ Steady /\ UNCHANGED <<clusterVars, mig, frozen>>
         /\ \A b \in frozen : Inside(b)' => Inside(b)
PROOF
  <1>1. UNCHANGED <<clusterVars, mig>>
    BY DEF Begin, OpStep, ReadOverlay, ReadPartitioner, GetCall, ReadDone, BroadcastCall, WriteDone,
           RmwPrimary, ReplicaCall, RmwReplyLost
  <1>2. \/ UNCHANGED gate
        \/ \E b : Enter(o, b)
        \/ Leave(o)
    BY DEF Begin, OpStep, ReadOverlay, ReadPartitioner, GetCall, ReadDone, BroadcastCall, WriteDone,
           RmwPrimary, ReplicaCall, RmwReplyLost, ReturnRead, ReturnWrite, Release
  <1>3. entered \in [Ops -> Buckets \cup {NoBucket}] /\ NoBucket \notin frozen
    BY FrozenBuckets, MigrationAssumption DEF Context, ExclusionInv, Shapes
  <1>4. frozen' = frozen /\ \A b \in frozen : Inside(b)' => Inside(b)
    <2>1. CASE UNCHANGED gate
      BY <2>1 DEF gate, Inside
    <2>2. ASSUME NEW b, Enter(o, b) PROVE frozen' = frozen /\ \A c \in frozen : Inside(c)' => Inside(c)
      BY <1>3, <2>2 DEF Enter, Inside
    <2>3. CASE Leave(o)
      BY <1>3, <2>3 DEF Leave, Inside
    <2> QED BY <1>2, <2>1, <2>2, <2>3
  <1>5. ControlInv' /\ Steady
    BY <1>1, <1>4, ControlKept DEF clusterVars
  <1> QED BY <1>1, <1>4, <1>5


\* The call of an operation that is not running.
LEMMA IdleForm ==
  /\ IdleOp.pc = "idle" /\ IdleOp.pc \in Active \cup {"idle", "done"}
  /\ DOMAIN IdleOp = OpFields /\ IdleOp.kind \in Reads \cup Writes /\ IdleOp.todo \in Seq(Nodes)
  BY SMT DEF IdleOp, OpFields, Reads

\* RouteInv is inductive.
LEMMA RouteStep ==
  ASSUME RouteInv, [Next]_vars
  PROVE  RouteInv'
PROOF
  \* A restarted coordinator routes by the shards it was given.
  <1>RestartControl. ASSUME Context, NEW members \in SUBSET Nodes, Restart(members)
                     PROVE  ControlInv'
    <2> USE <1>RestartControl
    <2>1. members \in Memb
      BY DEF Restart, RestartedWith, Context, ControlInv, RestInv, Orderly, Memb
    <2>2. /\ partitioner' = members /\ replication' = Replicas(members) /\ journal' = None /\ overlay' = None
          /\ migrating' = None /\ frozen' = {} /\ mig' = [m \in Migrators |-> IdleMig]
      BY DEF Restart, Replicas
    <2>3. OverlayInv' /\ JournalInv' /\ RestInv'
      BY <2>1, <2>2 DEF OverlayInv, JournalInv, RestInv
    <2>4. ASSUME NEW m \in Migrators PROVE Phase(mig[m])'
      <3>1. mig'[m] = IdleMig
        BY <2>2
      <3> QED BY SMT, <3>1 DEF IdleMig, MigFields, Phase, Working, Committing
    <2> QED BY <2>3, <2>4 DEF ControlInv
  \* A step that leaves the operations alone and moves no bucket from under them.
  <1>RoutedKept. ASSUME Context, OpInv, RoutedInv, Steady, UNCHANGED op
                 PROVE  OpInv' /\ RoutedInv'
    <2> USE <1>RoutedKept
    <2>1. OpInv'
      BY DEF OpInv
    <2>2. ASSUME NEW o \in Ops, Gated(op[o].kind), op[o].pc \in Active
          PROVE  /\ Route(bucket_of[op[o].key])' = Route(bucket_of[op[o].key])
                 /\ Range(CommittedOwners(bucket_of[op[o].key])) = Route(bucket_of[op[o].key]) =>
                      (Range(CommittedOwners(bucket_of[op[o].key])) = Route(bucket_of[op[o].key]))'
      BY <2>2, InsideBucket DEF Steady, Context
    <2>3. RoutedInv'
      BY <2>2 DEF RoutedInv, Active
    <2> QED BY <2>1, <2>3
  \* A step of operation o leaves the other operations where they are.
  <1>RoutedMove. ASSUME OpInv, RoutedInv, NEW o \in Ops, Others(o), UNCHANGED clusterVars,
                        DOMAIN op'[o] = OpFields, op'[o].pc \in Active \cup {"idle", "done"},
                        op'[o].kind \in Reads \cup Writes,
                        op'[o].pc # "idle" => op'[o].key \in Keys,
                        op'[o].pc = "replicate" => op'[o].kind \in {"cas", "incr"},
                        op'[o].pc = "done" => op'[o].kind \in Reads,
                        op'[o].todo \in Seq(Nodes),
                        Gated(op'[o].kind) /\ op'[o].pc = "route2" =>
                          Range(CommittedOwners(bucket_of[op'[o].key])) = Route(bucket_of[op'[o].key]),
                        Gated(op'[o].kind) /\ op'[o].pc \in {"call", "replicate"} =>
                          Range(op'[o].todo) \subseteq Route(bucket_of[op'[o].key])
                 PROVE  OpInv' /\ RoutedInv'
    <2> USE <1>RoutedMove
    <2>1. OpInv'
      <3> SUFFICES ASSUME NEW p \in Ops
                   PROVE  /\ DOMAIN op'[p] = OpFields
                          /\ op'[p].pc \in Active \cup {"idle", "done"}
                          /\ op'[p].kind \in Reads \cup Writes
                          /\ op'[p].pc # "idle" => op'[p].key \in Keys
                          /\ op'[p].pc = "replicate" => op'[p].kind \in {"cas", "incr"}
                          /\ op'[p].pc = "done" => op'[p].kind \in Reads
                          /\ op'[p].todo \in Seq(Nodes)
        BY DEF OpInv
      <3>1. CASE p = o
        BY <3>1
      <3>2. CASE p # o
        BY <3>2 DEF OpInv, Others, Same
      <3> QED BY <3>1, <3>2
    <2>2. \A b : Route(b)' = Route(b) /\ CommittedOwners(b)' = CommittedOwners(b)
      BY DEF clusterVars, Route, OverlayOwners, CommittedOwners
    <2>3. RoutedInv'
      <3> SUFFICES ASSUME NEW p \in Ops, Gated(op'[p].kind)
                   PROVE  /\ op'[p].pc = "route2" =>
                               Range(CommittedOwners(bucket_of[op'[p].key])) = Route(bucket_of[op'[p].key])
                          /\ op'[p].pc \in {"call", "replicate"} =>
                               Range(op'[p].todo) \subseteq Route(bucket_of[op'[p].key])
        BY <2>2 DEF RoutedInv
      <3>1. CASE p = o
        BY <3>1
      <3>2. CASE p # o
        BY <3>2 DEF RoutedInv, Others, Same
      <3> QED BY <3>1, <3>2
    <2> QED BY <2>1, <2>3
  \* A call that starts is not routed yet.
  <1>RoutedBegin. ASSUME Context, OpInv, RoutedInv,
                         NEW o \in Ops, NEW kind \in Kinds, NEW k \in Keys, NEW v, NEW e, Begin(o, kind, k, v, e)
                  PROVE  OpInv' /\ RoutedInv'
    <2> USE <1>RoutedBegin
    <2>1. kind \in Reads \cup Writes
      BY MigrationAssumption DEF Context, Reads, Writes
    <2>2. DOMAIN op = Ops
      BY DEF Context, ExclusionInv, Shapes, OpShape
    <2>3. /\ Others(o) /\ DOMAIN op'[o] = OpFields
          /\ op'[o].pc = "route" /\ op'[o].kind = kind /\ op'[o].key = k /\ op'[o].todo = <<>>
      BY <2>1, <2>2, BeginCall
    <2>4. UNCHANGED clusterVars /\ <<>> \in Seq(Nodes)
      BY SMT DEF Begin
    <2> QED BY <2>1, <2>3, <2>4, <1>RoutedMove DEF Active
  \* A call in progress is routed, then works its way down its list of owners.
  <1>RoutedOps. ASSUME Context, OpInv, RoutedInv, NEW o \in Ops, OpStep(o) \/ RmwReplyLost(o)
                PROVE  OpInv' /\ RoutedInv'
    <2> USE <1>RoutedOps
    <2> DEFINE k == op[o].key
               b == bucket_of[k]
    <2>0. /\ DOMAIN op = Ops /\ op[o].kind \in Reads \cup Writes /\ DOMAIN op[o] = OpFields
          /\ op[o].todo \in Seq(Nodes)
          /\ op[o].pc # "idle" => k \in Keys /\ b \in Buckets
      BY PlacementAssumption DEF Context, ExclusionInv, Shapes, OpShape, OpInv
    <2>1. UNCHANGED clusterVars
      BY DEF OpStep, ReadOverlay, ReadPartitioner, GetCall, ReadDone, BroadcastCall, WriteDone,
         RmwPrimary,
             ReplicaCall, RmwReplyLost
    <2>2. ASSUME Returned(o) PROVE OpInv' /\ RoutedInv'
      <3>1. /\ Others(o) /\ DOMAIN op'[o] = OpFields /\ op'[o].pc = "idle" /\ op'[o].kind \in Reads
            /\ op'[o].todo \in Seq(Nodes)
        BY SMT, <2>2 DEF Returned, IdleOp, OpFields, Reads
      <3> QED BY <2>1, <3>1, <1>RoutedMove
    <2>3. ASSUME Others(o), GoesOn(o), op[o].pc \in {"call", "replicate"}, op[o].todo # <<>>,
                 op'[o].pc = op[o].pc, op'[o].todo = Tail(op[o].todo)
          PROVE  OpInv' /\ RoutedInv'
      <3>1. Tail(op[o].todo) \in Seq(Nodes) /\ Range(Tail(op[o].todo)) \subseteq Range(op[o].todo)
        BY <2>0, <2>3, HeadAndTail
      <3>2. op'[o].pc = "replicate" => op'[o].kind \in {"cas", "incr"}
        BY <2>3 DEF OpInv, GoesOn
      <3>3. Gated(op[o].kind) => Range(Tail(op[o].todo)) \subseteq Route(b)
        BY <2>3, <3>1 DEF RoutedInv
      <3> QED BY <2>0, <2>1, <2>3, <3>1, <3>2, <3>3, <1>RoutedMove DEF GoesOn, Active
    <2>4. CASE ReadOverlay(o) \/ ReadPartitioner(o)
      <3>1. /\ Others(o) /\ GoesOn(o)
            /\ \/ /\ op[o].pc = "route" /\ overlay = None
                  /\ op'[o].pc = "route2" /\ op'[o].todo = op[o].todo
               \/ /\ op[o].pc = "route" /\ overlay # None
                  /\ op'[o].pc = "call" /\ op'[o].todo = Targeted(op[o].kind, OverlayOwners(b))
               \/ /\ op[o].pc = "route2"
                  /\ op'[o].pc = "call" /\ op'[o].todo = Targeted(op[o].kind, CommittedOwners(b))
        BY <2>0, <2>4, RouteCall
      <3>2. b \in Buckets /\ k \in Keys
        BY <2>0, <3>1
      <3>3. CASE op'[o].pc = "route2" /\ overlay = None
        <4>1. Range(CommittedOwners(b)) = Route(b) /\ op'[o].todo = op[o].todo
          BY <3>1, <3>3 DEF Route
        <4> QED BY <2>0, <2>1, <3>1, <3>2, <3>3, <4>1, <1>RoutedMove DEF GoesOn, Active
      <3>4. ASSUME NEW s \in Seq(Nodes), op'[o].pc = "call", op'[o].todo = Targeted(op[o].kind, s),
                   Gated(op[o].kind) => Range(s) = Route(b)
            PROVE  OpInv' /\ RoutedInv'
        <4>1. op'[o].todo \in Seq(Nodes) /\ (Gated(op[o].kind) => Range(op'[o].todo) \subseteq Range(s))
          BY <2>0, <3>4, TargetedFacts DEF Gated, Reads, Writes
        <4> QED BY <2>0, <2>1, <3>1, <3>2, <3>4, <4>1, <1>RoutedMove DEF GoesOn, Active
      <3>5. CASE op[o].pc = "route" /\ overlay # None
        BY <3>1, <3>2, <3>4, <3>5, OwnerLists
      <3>6. CASE op[o].pc = "route2"
        <4>1. Gated(op[o].kind) => Range(CommittedOwners(b)) = Route(b)
          BY <3>6 DEF RoutedInv
        <4> QED BY <3>1, <3>2, <3>4, <3>6, <4>1, OwnerLists
      <3> QED BY <3>1, <3>3, <3>5, <3>6
    <2>5. CASE GetCall(o)
      <3>1. /\ Others(o) /\ GoesOn(o) /\ op[o].pc = "call" /\ op[o].kind \in Reads
            /\ \/ op[o].todo # <<>> /\ op'[o].pc = op[o].pc /\ op'[o].todo = Tail(op[o].todo)
               \/ op'[o].pc = "done" /\ op'[o].todo = <<>>
        BY <2>0, <2>5, GetCallEffect
      <3>2. CASE op'[o].pc = "done" /\ op'[o].todo = <<>>
        <4>1. <<>> \in Seq(Nodes)
          BY SMT
        <4> QED BY <2>0, <2>1, <3>1, <3>2, <4>1, <1>RoutedMove DEF GoesOn
      <3> QED BY <2>3, <3>1, <3>2
    <2>6. CASE BroadcastCall(o) \/ ReplicaCall(o)
      <3>1. op[o].pc \in {"call", "replicate"}
        BY <2>6 DEF BroadcastCall, ReplicaCall
      <3> QED BY <2>0, <2>3, <2>6, <3>1, WriteCallEffect
    <2>7. CASE ReadDone(o) \/ ReturnWrite(o) \/ WriteDone(o)
      BY <2>0, <2>2, <2>7, ReturnEffect DEF WriteDone
    <2>8. CASE RmwPrimary(o) /\ ~ReturnWrite(o)
      <3>1. /\ op[o].todo # <<>> /\ Others(o) /\ DOMAIN op'[o] = OpFields
            /\ op'[o].pc = "replicate" /\ op'[o].kind = op[o].kind /\ op'[o].key = op[o].key
            /\ op'[o].todo = Tail(op[o].todo)
        BY <2>0, <2>8, RmwEffect
      <3>2. op[o].kind \in {"cas", "incr"} /\ op[o].pc = "call"
        BY <2>8 DEF RmwPrimary
      <3>3. Tail(op[o].todo) \in Seq(Nodes) /\ Range(Tail(op[o].todo)) \subseteq Range(op[o].todo)
        BY <2>0, <3>1, HeadAndTail
      <3>4. Gated(op[o].kind) => Range(Tail(op[o].todo)) \subseteq Route(b)
        BY <3>2, <3>3 DEF RoutedInv
      <3> QED BY <2>0, <2>1, <3>1, <3>2, <3>3, <3>4, <1>RoutedMove DEF Active
    <2>9. CASE RmwReplyLost(o)
      BY <2>0, <2>2, <2>9, LostEffect
    <2> QED BY <2>4, <2>5, <2>6, <2>7, <2>8, <2>9 DEF OpStep
  <1>0. Context /\ OpInv /\ RoutedInv
    BY DEF RouteInv, Context
  <1>1. ExclusionInv'
    BY <1>0, ExclusionStep DEF Context
  <1>2. ASSUME NEW o \in Ops, NEW kind \in Kinds, NEW k \in Keys, NEW a \in Arguments(kind), Begin(o, kind, k, a[1], a[2])
        PROVE  ControlInv' /\ OpInv' /\ RoutedInv'
    <2>1. OpInv' /\ RoutedInv'
      BY <1>0, <1>2, <1>RoutedBegin
    <2>2. ControlInv'
      BY <1>0, <1>2, OpControl
    <2> QED BY <2>1, <2>2
  <1>3. ASSUME NEW o \in Ops, OpStep(o) \/ RmwReplyLost(o)
        PROVE  ControlInv' /\ OpInv' /\ RoutedInv'
    BY <1>0, <1>3, <1>RoutedOps, OpControl
  <1>4. ASSUME NEW m \in Migrators,
               \/ MigrationStart(m) \/ MigrationStep(m) \/ CopyFault(m) \/ MigrationCancel(m)
               \/ \E n \in mig[m].drops : DropFault(m, n)
        PROVE  ControlInv' /\ OpInv' /\ RoutedInv'
    BY <1>0, <1>4, MigratorControl, <1>RoutedKept
  <1>5. ASSUME \/ \E n \in Nodes \cup UNION Targets : add_node(n) \/ NodeDies(n) \/ mark_down(n)
               \/ UNCHANGED vars
        PROVE  ControlInv' /\ OpInv' /\ RoutedInv'
    <2>1. UNCHANGED <<partitioner, replication, journal, overlay, migrating, mig, gate, op>>
      BY <1>5 DEF add_node, NodeDies, mark_down, vars, clusterVars
    <2>2. frozen' = frozen /\ \A b \in frozen : Inside(b)' => Inside(b)
      BY <2>1 DEF gate, Inside
    <2>3. ControlInv' /\ Steady
      BY <1>0, <2>1, <2>2, ControlKept
    <2> QED BY <1>0, <2>1, <2>3, <1>RoutedKept
  <1>6. ASSUME NEW members \in SUBSET Nodes, Restart(members)
        PROVE  ControlInv' /\ OpInv' /\ RoutedInv'
    <2>1. ControlInv'
      BY <1>0, <1>6, <1>RestartControl
    <2>2. \A o \in Ops : op'[o] = IdleOp
      BY <1>6 DEF Restart
    <2>4. OpInv'
      BY <2>2, IdleForm DEF OpInv
    <2>5. RoutedInv'
      BY <2>2, IdleForm DEF RoutedInv
    <2> QED BY <2>1, <2>4, <2>5
  <1>7. ControlInv' /\ OpInv' /\ RoutedInv'
    BY <1>2, <1>3, <1>4, <1>5, <1>6, ZenonT(60) DEF Next
  <1> QED BY <1>1, <1>7 DEF RouteInv

\* RouteInv holds initially.
LEMMA RouteInit ==
  ASSUME Orderly, Init
  PROVE  RouteInv
PROOF
  \* Nothing is on the move initially.
  <1>ControlInit. ControlInv
    <2>1. InitialMembers \in Memb
      BY MigrationAssumption DEF Orderly, Memb
    <2>2. OverlayInv /\ JournalInv
      BY DEF Init, GateInit, OverlayInv, JournalInv
    <2>3. RestInv
      BY ZenonT(60), <2>1 DEF Init, RestInv, Replicas
    <2>4. ASSUME NEW m \in Migrators PROVE Phase(mig[m])
      <3>1. mig[m] = IdleMig
        BY DEF Init
      <3> QED BY SMT, <3>1 DEF IdleMig, MigFields, Phase, Working, Committing
    <2> QED BY <2>2, <2>3, <2>4 DEF ControlInv
  <1>1. \A o \in Ops : op[o] = IdleOp
    BY DEF Init
  <1>3. OpInv
    BY <1>1, IdleForm DEF OpInv
  <1>4. RoutedInv
    BY <1>1, IdleForm DEF RoutedInv
  <1> QED BY <1>3, <1>4, ExclusionInit, <1>ControlInit DEF RouteInv

(***************************************************************************)
(* `owners` reads the overlay and the partitioner one after the other, and *)
(* commit_membership writes its fields one by one; still no gated call is  *)
(* ever on its way to a node that is not an owner any more, as long as     *)
(* callers run one rebalance at a time and resume an interrupted one.      *)
(***************************************************************************)
THEOREM RoutesStay == Orderly /\ Spec => []RouteIsStable
PROOF
  <1>1. Orderly /\ Init => RouteInv
    BY RouteInit
  <1>2. RouteInv /\ [Next]_vars => RouteInv'
    BY RouteStep
  <1>3. RouteInv => RouteIsStable
    BY DEF RouteInv, RoutedInv, RouteIsStable, owners, Route
  <1> QED BY <1>1, <1>2, <1>3, PTL DEF Spec
=============================================================================
