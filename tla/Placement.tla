----------------------------- MODULE Placement -----------------------------
(***************************************************************************)
(* partitioner.rs and reshard.rs: which nodes own a bucket, and what must  *)
(* be copied and dropped when the membership changes.                      *)
(*                                                                         *)
(* The hash itself is a constant: Score[b][n] is node n's HRW score in     *)
(* bucket b, which depends on the two alone.                               *)
(***************************************************************************)
EXTENDS Naturals, Sequences, FiniteSets, Functions

CONSTANTS
  Nodes,       \* all node ids
  Buckets,     \* bucket indices
  Keys,
  bucket_of,   \* fnv1a(key) % NUM_BUCKETS
  Score,       \* bucket_score; two nodes have different scores in a bucket
  Rack         \* failure domain of a node; its own id when it has no rack

ASSUME PlacementAssumption ==
  /\ IsFiniteSet(Nodes)
  /\ Buckets \subseteq Nat
  /\ bucket_of \in [Keys -> Buckets]
  /\ Score \in [Buckets -> [Nodes -> Nat]]
  /\ \A b \in Buckets : \A m, n \in Nodes : Score[b][m] = Score[b][n] => m = n
  /\ Nodes \subseteq DOMAIN Rack

AtMost(m, n) == IF m < n THEN m ELSE n
AtLeast(m, n) == IF m > n THEN m ELSE n

clamp(target, n) == AtLeast(AtMost(target, AtLeast(n, 1)), 1)

Take(s, n) == SubSeq(s, 1, AtMost(n, Len(s)))

\* set_nodes: the nodes of a membership by descending score in bucket b
Ranked(b, members) ==
  [i \in 1 .. Cardinality(members) |->
     CHOOSE n \in members : Cardinality({m \in members : Score[b][m] > Score[b][n]}) = i - 1]

\* n is the best-ranked member of its failure domain
FirstOfRack(b, members, n) ==
  \A m \in members : Rack[m] = Rack[n] => Score[b][m] <= Score[b][n]

\* pick chooses m before n: the first pass takes one node of each rack, the second
\* the others, and both follow the ranking
ChosenBefore(b, members, m, n) ==
  IF FirstOfRack(b, members, m) <=> FirstOfRack(b, members, n) THEN Score[b][m] > Score[b][n]
  ELSE FirstOfRack(b, members, m)

Memberships == {members : members \in SUBSET Nodes}

\* per bucket and membership: the nodes in the order of choice
Choice ==
  [b \in Buckets |-> [members \in Memberships |->
     [i \in 1 .. Cardinality(members) |->
        CHOOSE n \in members : Cardinality({m \in members : ChosenBefore(b, members, m, n)}) = i - 1]]]

(***************************************************************************)
(* pick: the first r nodes in the order of choice.  Without a topology     *)
(* every node is its own domain and this is the plain top-r.               *)
(***************************************************************************)
pick(b, members, r) == Take(Choice[b][members], r)

owners_of_bucket(b, members, r) == pick(b, members, r)

OwnerSet(b, members, r) == Range(owners_of_bucket(b, members, r))
-----------------------------------------------------------------------------
(***************************************************************************)
(* plan_reshard, bucket by bucket.  rt is the replication target; each     *)
(* side clamps it to its own membership.                                   *)
(***************************************************************************)
OldOwners(b, old, rt) == owners_of_bucket(b, old, clamp(rt, Cardinality(old)))
NewOwners(b, new, rt) == owners_of_bucket(b, new, clamp(rt, Cardinality(new)))

\* a plausible slip: the source is left out when it stays an owner
MutCopies(b, old, new, rt) ==
  {p \in Nodes \X Nodes :
     /\ OldOwners(b, old, rt) # <<>> /\ p[1] = Head(OldOwners(b, old, rt))
     /\ p[1] \notin Range(NewOwners(b, new, rt))
     /\ p[2] \in Range(NewOwners(b, new, rt)) \ Range(OldOwners(b, old, rt))}

Copies(b, old, new, rt) ==
  {p \in Nodes \X Nodes :
     /\ OldOwners(b, old, rt) # <<>> /\ p[1] = Head(OldOwners(b, old, rt))
     /\ p[2] \in Range(NewOwners(b, new, rt)) \ Range(OldOwners(b, old, rt))}

Drops(b, old, new, rt) == Range(OldOwners(b, old, rt)) \ Range(NewOwners(b, new, rt))

\* the buckets a plan touches
Moved(old, new, rt) ==
  {b \in Buckets : Copies(b, old, new, rt) # {} \/ Drops(b, old, new, rt) # {}}
=============================================================================
