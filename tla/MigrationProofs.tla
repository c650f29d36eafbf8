--------------------------- MODULE MigrationProofs ---------------------------
(***************************************************************************)
(* Proofs about the data of Migration, for any number of operations,       *)
(* buckets, nodes and keys.  In order:                                     *)
(*                                                                         *)
(*   - DataInv: every key is on its owners and nowhere else, or on the     *)
(*     move between two sets of them; it rests on RouteInv and on          *)
(*     ExclusionInv, and holds where callers run one rebalance at a time,  *)
(*     resume an interrupted one and do not write a key concurrently;      *)
(*   - ReadInv: a call that reads returns the value of its key.            *)
(***************************************************************************)
EXTENDS RoutingProofs, TLAPS

\* A leaf is for Zenon unless it names another prover.
USE Zenon

(***************************************************************************)
(* Where the data is.                                                      *)
(***************************************************************************)
\* rebalance is called with nodes that have a client, clients do not write a key
\* concurrently, and no shard is lost in a cluster that rebalances
Careful == ~MayNameUnknown /\ SerialWrites /\ (MaxDead = 0 \/ MaxMigrations = 0)

Home(k) == Route(bucket_of[k])
OldSet(b) == Placed(b, overlay.old)
NewSet(b) == Placed(b, overlay.new)

\* every node that a call may be sent to has a client
ReachInv ==
  /\ down \subseteq dead /\ dead \subseteq Nodes
  /\ partitioner \subseteq clients
  /\ overlay # None =>
       /\ overlay.new \subseteq clients
       /\ (\A m \in Migrators : mig[m].pc # "close") => overlay.old \subseteq clients
  /\ \A m \in Migrators : mig[m].pc # "idle" => mig[m].new \subseteq clients
  /\ started \in Nat /\ faults \in Nat
  /\ MaxDead = 0 => dead = {}
  /\ MaxMigrations = 0 =>
       partitioner = InitialMembers /\ overlay = None /\ \A m \in Migrators : mig[m].pc = "idle"

StoreShape == DOMAIN data = Nodes /\ (\A n \in Nodes : DOMAIN data[n] = Keys) /\ DOMAIN truth = Keys

SerialInv == \A o, p \in Ops, k \in Keys : WritingKey(o, k) /\ WritingKey(p, k) => o = p

\* o has begun to store its value
Begun(o) == op[o].pc = "replicate" \/ (op[o].pc = "call" /\ op[o].kind \in {"put", "delete"})

\* how far o's write has come on owner n
Written(o, n) ==
  LET k == op[o].key
  IN  /\ Begun(o) => /\ data[n][k] \in {truth[k], op[o].val}
                     /\ n \in Range(op[o].todo) \/ data[n][k] = op[o].val
      /\ ~Begun(o) => /\ data[n][k] = truth[k]
                      /\ op[o].pc = "call" => n \in Range(op[o].todo)

\* k is on its owners and nowhere else, as far as no write is in flight
Settled(k) ==
  /\ \A n \in Nodes \ Home(k) : data[n][k] = Absent
  /\ (\A o \in Ops : ~WritingKey(o, k)) => \A n \in Home(k) \ dead : data[n][k] = truth[k]
  /\ \A o \in Ops : WritingKey(o, k) => \A n \in Home(k) \ dead : Written(o, n)

\* k is on the move: whole on one side at least, and never anything but its value
Between(k) ==
  LET old == OldSet(bucket_of[k])
      new == NewSet(bucket_of[k])
  IN  /\ \A n \in Nodes : data[n][k] \in {Absent, truth[k]}
      /\ \A n \in Nodes \ (old \cup new) : data[n][k] = Absent
      /\ (\A n \in old : data[n][k] = truth[k]) \/ (\A n \in new : data[n][k] = truth[k])

\* the buckets of m's chunk that travel along the pair p
Carries(m, p, k) == bucket_of[k] \in mig[m].chunk /\ p \in CopiesOf(m, bucket_of[k])

Copying(m) ==
  /\ mig[m].copies \subseteq UNION {CopiesOf(m, b) : b \in mig[m].chunk}
  /\ \A b \in mig[m].chunk : DropsOf(m, b) \subseteq mig[m].drops
  /\ \A k \in Keys, p \in Nodes \X Nodes : Carries(m, p, k) => p \in mig[m].copies \/ data[p[2]][k] = truth[k]

Importing(m) ==
  /\ mig[m].pair \in mig[m].copies
  /\ \A k \in Keys :
       /\ k \in DOMAIN mig[m].entries => Carries(m, mig[m].pair, k) /\ mig[m].entries[k] = truth[k]
       /\ Carries(m, mig[m].pair, k) /\ k \notin DOMAIN mig[m].entries => data[mig[m].pair[2]][k] = truth[k]

Dropping(m) ==
  \A k \in Keys : bucket_of[k] \in mig[m].chunk =>
    /\ \A n \in NewSet(bucket_of[k]) : data[n][k] = truth[k]
    /\ \A n \in DropsOf(m, bucket_of[k]) : n \in mig[m].drops \/ data[n][k] = Absent

DataOf(k) == (Closed(bucket_of[k]) => Between(k)) /\ (~Closed(bucket_of[k]) => Settled(k))

MovingOf(m) ==
  /\ mig[m].pc \in {"copy", "import"} => Copying(m)
  /\ mig[m].pc = "import" => Importing(m)
  /\ mig[m].pc = "drop" => Dropping(m)

StoreInv == faults = 0 => (\A k \in Keys : DataOf(k)) /\ (\A m \in Migrators : MovingOf(m))

DataInv == Careful /\ RouteInv /\ ReachInv /\ StoreShape /\ SerialInv /\ StoreInv

\* what the lemmas below rest on
Setting == Context /\ OpInv /\ RoutedInv /\ Careful /\ ReachInv /\ StoreShape /\ SerialInv
-----------------------------------------------------------------------------
\* Every owner has a client, and a cluster that migrates has no dead shard.
LEMMA OwnersReached ==
  ASSUME Context, Careful, ReachInv
  PROVE  /\ \A b \in Buckets : Route(b) \subseteq clients
         /\ overlay # None => dead = {} /\ down = {}
         /\ frozen # {} => journal # None /\ overlay # None /\ dead = {}
PROOF
  <1>1. overlay # None => dead = {} /\ down = {}
    BY DEF Careful, ReachInv
  <1>2. frozen # {} => journal # None /\ overlay # None
    BY DEF Context, ControlInv, JournalInv
  <1>3. ASSUME NEW b \in Buckets PROVE Route(b) \subseteq clients
    <2>1. CASE overlay = None
      <3>1. partitioner \in SUBSET Nodes
        BY DEF Context, ControlInv, RestInv, Memb
      <3>2. replication \in Nat
        BY OwnerLists
      <3>3. Range(CommittedOwners(b)) \subseteq partitioner
        BY <3>1, <3>2, OwnersAre DEF Context, CommittedOwners, OwnerSet
      <3> QED BY <2>1, <3>3 DEF Route, ReachInv
    <2>2. CASE overlay # None
      <3>1. /\ overlay.old \in Memb /\ overlay.new \in Memb
            /\ Route(b) \subseteq Placed(b, overlay.old) \cup Placed(b, overlay.new)
        BY <2>2, RouteIs
      <3>2. Placed(b, overlay.old) \subseteq overlay.old /\ Placed(b, overlay.new) \subseteq overlay.new
        BY <3>1, PlacedFacts DEF Context
      <3>3. CASE \A m \in Migrators : mig[m].pc # "close"
        BY <2>2, <3>1, <3>2, <3>3 DEF ReachInv
      <3>4. ASSUME NEW m \in Migrators, mig[m].pc = "close" PROVE Route(b) \subseteq clients
        <4>1. mig[m].old # mig[m].new
          BY <3>4, Stepped DEF Phase, AtCommit, Committing
        <4>2. Route(b) = Placed(b, overlay.new)
          BY <3>4, <4>1, CommitRoute DEF Committing
        <4> QED BY <2>2, <3>2, <4>2 DEF ReachInv
      <3> QED BY <3>3, <3>4
    <2> QED BY <2>1, <2>2
  <1> QED BY <1>1, <1>2, <1>3

\* A write in flight keeps its bucket from being closed.
LEMMA ClosedQuiet ==
  ASSUME ExclusionInv, OpInv, NEW k \in Keys, ~Inside(bucket_of[k])
  PROVE  \A o \in Ops : ~WritingKey(o, k)
PROOF
  <1> SUFFICES ASSUME NEW o \in Ops, WritingKey(o, k) PROVE FALSE
    OBVIOUS
  <1>1. op[o].kind \in Writes /\ op[o].pc # "idle" /\ op[o].key = k
    BY DEF WritingKey
  <1>2. Gated(op[o].kind) /\ op[o].kind \notin Reads
    BY <1>1 DEF Gated, Writes, Reads
  <1>3. op[o].pc \in Active
    BY <1>1, <1>2 DEF OpInv
  <1> QED BY <1>1, <1>2, <1>3, InsideBucket

\* The buckets of a chunk that is copied or dropped are closed, and the migrator's
\* plan is the one of the overlay.
LEMMA ChunkClosed ==
  ASSUME Context, Careful, ReachInv, NEW m \in Migrators, mig[m].pc \in Moving
  PROVE  /\ overlay # None /\ overlay.old = mig[m].old /\ overlay.new = mig[m].new /\ dead = {}
         /\ mig[m].old \in Memb /\ mig[m].new \in Memb
         /\ mig[m].old \subseteq clients /\ mig[m].new \subseteq clients
         /\ \A b \in mig[m].chunk : b \in Buckets /\ Closed(b) /\ DropsOf(m, b) = OldSet(b) \ NewSet(b)
PROOF
  <1>1. AtWork(mig[m]) /\ mig[m].new \in Memb
    BY Stepped DEF Phase, Working, Moving
  <1>2. overlay # None /\ overlay.old = mig[m].old /\ overlay.new = mig[m].new
    BY <1>1 DEF AtWork, Context, ControlInv, JournalInv
  <1>3. mig[m].old \in Memb
    BY <1>2 DEF Context, ControlInv, OverlayInv, Overlays, Memb
  <1>4. dead = {}
    BY <1>2, OwnersReached
  <1>5. mig[m].old \subseteq clients /\ mig[m].new \subseteq clients
    <2>1. \A n \in Migrators : mig[n].pc # "close"
      BY DEF Context, Orderly, Moving
    <2> QED BY <1>2, <2>1 DEF ReachInv
  <1>6. ASSUME NEW b \in mig[m].chunk PROVE b \in Buckets /\ Closed(b) /\ DropsOf(m, b) = OldSet(b) \ NewSet(b)
    <2>1. b \in frozen /\ owned = mig[m].chunk
      BY <1>1 DEF AtWork, Moving, Context, ExclusionInv, OwnedInv
    <2>2. b \in Buckets /\ b # NoBucket
      BY <2>1, FrozenBuckets, MigrationAssumption DEF Context
    <2>3. ~Inside(b)
      BY <2>1, <2>2 DEF Context, ExclusionInv, OwnedInv, Inside
    <2>4. DropsOf(m, b) = OldSet(b) \ NewSet(b)
      BY SMT, <1>1, <1>2, <1>3, <2>2, Moves DEF DropsOf, OldSet, NewSet, Context
    <2> QED BY <2>1, <2>2, <2>3, <2>4 DEF Closed
  <1> QED BY <1>1, <1>2, <1>3, <1>4, <1>5, <1>6
-----------------------------------------------------------------------------
(***************************************************************************)
(* The data plane keeps the data in place.                                 *)
(***************************************************************************)
\* what every step of the data plane leaves alone
OpFrame(o) ==
  /\ Others(o) /\ ExclusionInv' /\ OpInv' /\ UNCHANGED <<clusterVars, mig, frozen, dead>>
  /\ \A b \in frozen : Inside(b)' => Inside(b)

\* The data plane keeps every key on its owners.
LEMMA OpData ==
  ASSUME Setting, StoreInv, ExclusionInv', OpInv', NEW o \in Ops,
         \/ \E kind \in Kinds, k \in Keys : \E a \in Arguments(kind) : Begin(o, kind, k, a[1], a[2])
         \/ OpStep(o) \/ RmwReplyLost(o)
  PROVE  StoreInv' /\ SerialInv' /\ StoreShape'
PROOF
  \* A shard stores one value.
  <1>WriteEffect. ASSUME StoreShape, NEW n \in Nodes, NEW k \in Keys, NEW v, data' = write(n, k, v)
                  PROVE  /\ DOMAIN data' = Nodes /\ \A i \in Nodes : DOMAIN data'[i] = Keys
                         /\ data'[n][k] = v
                         /\ \A i \in Nodes, j \in Keys : i # n \/ j # k => data'[i][j] = data[i][j]
    BY <1>WriteEffect DEF StoreShape, write
  \* A step of the only writer of k.
  <1>SettledBy. ASSUME NEW k \in Keys, Others(o), UNCHANGED <<clusterVars, dead>>,
                       \A p \in Ops \ {o} : ~WritingKey(p, k),
                       \A n \in Nodes \ Home(k) : data'[n][k] = Absent,
                       WritingKey(o, k)' => \A n \in Home(k) \ dead : Written(o, n)',
                       ~WritingKey(o, k)' => \A n \in Home(k) \ dead : data'[n][k] = truth'[k]
                PROVE  Settled(k)'
    <2> USE <1>SettledBy
    <2>1. Home(k)' = Home(k) /\ dead' = dead
      BY DEF Home, Route, OverlayOwners, CommittedOwners, clusterVars
    <2>2. ASSUME NEW p \in Ops \ {o} PROVE ~WritingKey(p, k)'
      BY DEF Others, Same, WritingKey
    <2>3. \A p \in Ops : WritingKey(p, k)' => p = o
      BY <2>2
    <2> QED BY <2>1, <2>3 DEF Settled
  \* A step of o that writes keys of K alone.
  <1>OpDataMove. ASSUME NEW K \in SUBSET Keys,
                        Others(o), UNCHANGED <<clusterVars, mig, frozen, dead, faults>>,
                        \A b \in frozen : Inside(b)' => Inside(b),
                        \A k \in Keys \ K : /\ truth'[k] = truth[k] /\ \A n \in Nodes : data'[n][k] = data[n][k]
                                            /\ ~WritingKey(o, k) /\ ~WritingKey(o, k)',
                        \A k \in K : /\ \A p \in Ops \ {o} : ~WritingKey(p, k)
                                     /\ Closed(bucket_of[k]) => truth'[k] = truth[k] /\ \A n \in Nodes : data'[n][k] = data[n][k]
                                     /\ faults = 0 /\ ~Closed(bucket_of[k]) => Settled(k)'
                 PROVE  StoreInv' /\ SerialInv'
    <2> USE <1>OpDataMove
    \* A step of o that does not concern k.
    <2>SettledElsewhere. ASSUME NEW k \in Keys, Settled(k), UNCHANGED <<clusterVars, dead>>,
                                truth'[k] = truth[k], \A n \in Nodes : data'[n][k] = data[n][k],
                                Home(k) \subseteq Nodes,
                                ~WritingKey(o, k), ~WritingKey(o, k)'
                         PROVE  Settled(k)'
      <3> USE <2>SettledElsewhere
      <3>1. Home(k)' = Home(k) /\ dead' = dead
        BY DEF Home, Route, OverlayOwners, CommittedOwners, clusterVars
      <3>2. ASSUME NEW p \in Ops
            PROVE  /\ WritingKey(p, k)' <=> WritingKey(p, k)
                   /\ WritingKey(p, k) => \A n \in Nodes : Written(p, n)' <=> Written(p, n)
        <4>1. CASE p = o
          BY <4>1
        <4>2. CASE p # o
          BY SMT, <4>2 DEF Others, Same, WritingKey, Written, Begun
        <4> QED BY <4>1, <4>2
      <3> QED BY <3>1, <3>2 DEF Settled
    <2>0. Context
      BY DEF Setting, Context
    <2>1. SerialInv'
      <3>1. ASSUME NEW k \in Keys, NEW p \in Ops, NEW q \in Ops, WritingKey(p, k)', WritingKey(q, k)'
            PROVE  p = q
        <4>1. CASE k \in K
          <5>1. \A i \in Ops \ {o} : ~WritingKey(i, k)'
            BY SMT, <4>1 DEF Others, Same, WritingKey
          <5> QED BY <3>1, <5>1
        <4>2. CASE k \notin K
          <5>1. p # o /\ q # o
            BY <3>1, <4>2
          <5>2. WritingKey(p, k) /\ WritingKey(q, k)
            BY <3>1, <5>1 DEF Others, Same, WritingKey
          <5> QED BY <5>2 DEF Setting, SerialInv
        <4> QED BY <4>1, <4>2
      <3> QED BY <3>1 DEF SerialInv
    <2>2. ASSUME NEW k \in Keys, faults = 0 PROVE DataOf(k)'
      <3> DEFINE b == bucket_of[k]
      <3>0. b \in Buckets
        BY <2>0, PlacementAssumption
      <3>1. DataOf(k)
        BY <2>2 DEF StoreInv
      <3>2. UNCHANGED overlay
        BY DEF clusterVars
      <3>3. CASE Closed(b)
        <4>1. truth'[k] = truth[k] /\ \A n \in Nodes : data'[n][k] = data[n][k]
          BY <3>3
        <4>2. Closed(b)'
          BY <3>3 DEF Closed
        <4>3. Placed(b, overlay.old) \subseteq Nodes /\ Placed(b, overlay.new) \subseteq Nodes
          <5>1. overlay # None
            BY <2>0, <3>3, OwnersReached DEF Setting, Closed
          <5>2. overlay.old \in Memb /\ overlay.new \in Memb
            BY <2>0, <3>0, <5>1, RouteIs
          <5> QED BY <2>0, <3>0, <5>2, PlacedFacts
        <4>4. Between(k)
          BY <3>1, <3>3 DEF DataOf
        <4>5. Between(k)'
          BY <3>2, <4>1, <4>3, <4>4 DEF Between, OldSet, NewSet
        <4> QED BY <4>2, <4>5 DEF DataOf
      <3>4. CASE ~Closed(b)
        <4>1. Settled(k)
          BY <3>1, <3>4 DEF DataOf
        <4>2. Home(k) \subseteq Nodes
          BY <2>0, <3>0, OwnerLists DEF Home
        <4>3. Settled(k)'
          <5>1. CASE k \in K
            BY <2>2, <3>4, <5>1
          <5>2. CASE k \notin K
            BY <4>1, <4>2, <5>2, <2>SettledElsewhere
          <5> QED BY <5>1, <5>2
        <4>4. CASE ~Closed(b)'
          BY <4>3, <4>4 DEF DataOf
        <4>5. CASE Closed(b)'
          <5>1. b \in frozen /\ ~Inside(b)'
            BY <4>5 DEF Closed
          <5>2. \A p \in Ops : ~WritingKey(p, k)'
            <6> SUFFICES ASSUME NEW p \in Ops, op'[p].kind \in Writes, op'[p].key = k, op'[p].pc # "idle" PROVE FALSE
              BY DEF WritingKey
            <6>1. Gated(op'[p].kind) /\ op'[p].kind \notin Reads
              BY DEF Gated, Writes, Reads
            <6>2. op'[p].pc \in Active
              BY <6>1 DEF OpInv
            <6>3. entered'[p] = b
              BY <6>1, <6>2 DEF ExclusionInv, InsideInv
            <6> QED BY <5>1, <6>3 DEF Inside
          <5>3. overlay # None /\ dead = {} /\ dead' = dead
            BY <2>0, <5>1, OwnersReached DEF Setting
          <5>4. Home(k)' = Home(k)
            BY DEF Home, Route, OverlayOwners, CommittedOwners, clusterVars
          <5>5. Home(k) \in {OldSet(b), NewSet(b)}
            BY <2>0, <3>0, <5>3, RouteIs DEF Home, OldSet, NewSet
          <5>6. /\ \A n \in Nodes \ Home(k) : data'[n][k] = Absent
                /\ \A n \in Home(k) : data'[n][k] = truth'[k]
            BY <4>3, <5>2, <5>3, <5>4 DEF Settled
          <5>7. OldSet(b)' = OldSet(b) /\ NewSet(b)' = NewSet(b)
            BY <3>2 DEF OldSet, NewSet
          <5>8. Between(k)'
            BY ZenonT(60), <5>5, <5>6, <5>7 DEF Between
          <5> QED BY <4>5, <5>8 DEF DataOf
        <4> QED BY <4>4, <4>5
      <3> QED BY <3>3, <3>4
    <2>3. ASSUME NEW m \in Migrators, faults = 0 PROVE MovingOf(m)'
      <3>1. CASE mig[m].pc \notin Moving
        BY <3>1 DEF MovingOf, Moving
      <3>2. CASE mig[m].pc \in Moving
        <4>1. \A b \in mig[m].chunk : b \in Buckets /\ Closed(b)
          BY <2>0, <3>2, ChunkClosed DEF Setting
        <4>2. \A k \in Keys : bucket_of[k] \in mig[m].chunk =>
                truth'[k] = truth[k] /\ \A n \in Nodes : data'[n][k] = data[n][k]
          BY <4>1
        <4>3. MovingOf(m)
          BY <2>3 DEF StoreInv
        <4>4. ASSUME NEW b \in mig[m].chunk PROVE NewSet(b) \subseteq Nodes /\ DropsOf(m, b) \subseteq Nodes
          <5>1. /\ overlay.new = mig[m].new /\ overlay.old = mig[m].old /\ mig[m].new \in Memb /\ mig[m].old \in Memb
                /\ DropsOf(m, b) = OldSet(b) \ NewSet(b) /\ b \in Buckets
            BY <2>0, <3>2, ChunkClosed DEF Setting
          <5> QED BY <2>0, <5>1, PlacedFacts DEF OldSet, NewSet
        <4>5. UNCHANGED <<mig, overlay>>
          BY DEF clusterVars
        <4>6. Copying(m) => Copying(m)'
          <5>1. \A p, k : Carries(m, p, k)' <=> Carries(m, p, k)
            BY <4>5 DEF Carries, CopiesOf
          <5> QED BY SMT, <4>2, <4>5, <5>1 DEF Copying, Carries, CopiesOf, DropsOf
        <4>7. Copying(m) /\ Importing(m) => Importing(m)'
          <5>1. \A k : Carries(m, mig[m].pair, k)' <=> Carries(m, mig[m].pair, k)
            BY <4>5 DEF Carries, CopiesOf
          <5>2. Copying(m) /\ Importing(m) => mig[m].pair[2] \in Nodes
            BY SMT DEF Copying, Importing, CopiesOf, Copies
          <5> QED BY ZenonT(60), <4>2, <4>5, <5>1, <5>2 DEF Importing, Carries
        <4>8. Dropping(m) => Dropping(m)'
          <5>1. \A b : NewSet(b)' = NewSet(b) /\ DropsOf(m, b)' = DropsOf(m, b)
            BY <4>5 DEF NewSet, DropsOf
          <5> QED BY SMT, <4>2, <4>4, <4>5, <5>1 DEF Dropping
        <4> QED BY <4>3, <4>5, <4>6, <4>7, <4>8 DEF MovingOf
      <3> QED BY <3>1, <3>2
    <2> QED BY <2>1, <2>2, <2>3 DEF StoreInv
  \* A call that writes nothing: a read, or its return.
  <1>ReadData. ASSUME OpFrame(o), UNCHANGED <<data, truth, faults>>,
                      \A k \in Keys : ~WritingKey(o, k) /\ ~WritingKey(o, k)'
               PROVE  StoreInv' /\ SerialInv' /\ StoreShape'
    <2> USE <1>ReadData
    <2>1. StoreShape'
      BY DEF Setting, StoreShape
    <2>2. {} \in SUBSET Keys
      OBVIOUS
    <2>3. /\ Others(o) /\ ExclusionInv' /\ OpInv' /\ UNCHANGED <<clusterVars, mig, frozen, dead>>
          /\ \A b \in frozen : Inside(b)' => Inside(b)
      BY DEF OpFrame
    <2> QED BY <2>1, <2>2, <2>3, <1>OpDataMove
  \* A writing call: its key is settled again, as far as it is known to be open.
  <1>WriteData. ASSUME NEW k \in Keys, OpFrame(o), UNCHANGED faults, StoreShape',
                       \A j \in Keys \ {k} : /\ truth'[j] = truth[j] /\ \A n \in Nodes : data'[n][j] = data[n][j]
                                             /\ ~WritingKey(o, j) /\ ~WritingKey(o, j)',
                       \A p \in Ops \ {o} : ~WritingKey(p, k),
                       ~Closed(bucket_of[k]),
                       faults = 0 /\ Settled(k) => Settled(k)'
                PROVE  StoreInv' /\ SerialInv'
    <2> USE <1>WriteData
    <2>1. {k} \in SUBSET Keys
      OBVIOUS
    <2>2. /\ Others(o) /\ ExclusionInv' /\ OpInv' /\ UNCHANGED <<clusterVars, mig, frozen, dead>>
          /\ \A b \in frozen : Inside(b)' => Inside(b)
      BY DEF OpFrame
    <2>3. faults = 0 => Settled(k)
      BY DEF StoreInv, DataOf
    <2> QED BY <2>1, <2>2, <2>3, <1>OpDataMove
  \* A call starts.
  <1>BeginData. ASSUME NEW kind \in Kinds, NEW k \in Keys, NEW v, NEW e,
                       Begin(o, kind, k, v, e), OpFrame(o)
                PROVE  StoreInv' /\ SerialInv' /\ StoreShape'
    <2> USE <1>BeginData
    <2>1. kind \in Reads \cup Writes
      BY MigrationAssumption DEF Setting, Context, Reads, Writes
    <2>2. DOMAIN op = Ops /\ OpInv
      BY DEF Setting, Context, ExclusionInv, Shapes, OpShape
    <2>3. Others(o) /\ op'[o].pc = "route" /\ op'[o].kind = kind /\ op'[o].key = k
      BY <2>1, <2>2, BeginCall
    <2>4. UNCHANGED <<data, truth, faults>> /\ op[o].pc = "idle" /\ UNCHANGED <<clusterVars, dead>>
      BY DEF Begin, history, envVars
    <2>5. \A j \in Keys : ~WritingKey(o, j) /\ (WritingKey(o, j)' => kind \in Writes /\ j = k)
      BY <2>3, <2>4 DEF WritingKey
    <2>6. CASE kind \in Reads
      <3>1. kind \notin Writes
        BY <2>6 DEF Reads, Writes
      <3> QED BY <2>4, <2>5, <3>1, <1>ReadData
    <2>7. CASE kind \in Writes
      <3>1. \A p \in Ops : ~WritingKey(p, k)
        BY <2>7 DEF Begin, Setting, Careful
      <3>2. ~Closed(bucket_of[k])
        <4>1. Gated(kind)
          BY <2>7 DEF Gated, Writes
        <4> QED BY <4>1 DEF Begin, Enter, Closed
      <3>3. ASSUME Settled(k) PROVE Settled(k)'
        <4>1. \A n \in Home(k) \ dead : data[n][k] = truth[k]
          BY <3>1, <3>3 DEF Settled
        <4>2. \A n : Written(o, n)' <=> data[n][k] = truth[k]
          BY <2>3, <2>4 DEF Written, Begun
        <4>3. \A n \in Nodes \ Home(k) : data'[n][k] = Absent
          BY <2>4, <3>3 DEF Settled
        <4> QED BY <2>3, <2>4, <3>1, <4>1, <4>2, <4>3, <1>SettledBy
      <3>4. StoreShape'
        BY <2>4 DEF Setting, StoreShape
      <3> QED BY ZenonT(60), <2>4, <2>5, <3>1, <3>2, <3>3, <3>4, <1>WriteData
    <2> QED BY <2>1, <2>6, <2>7
  \* What is known of a writing call in progress.
  <1>WriterFacts. ASSUME op[o].pc \in Active, op[o].kind \in Writes
                  PROVE  /\ op[o].key \in Keys /\ bucket_of[op[o].key] \in Buckets /\ ~Closed(bucket_of[op[o].key])
                         /\ WritingKey(o, op[o].key) /\ \A p \in Ops \ {o} : ~WritingKey(p, op[o].key)
                         /\ \A j \in Keys \ {op[o].key} : ~WritingKey(o, j)
                         /\ Home(op[o].key) \subseteq Nodes \cap clients /\ down \subseteq dead
                         /\ Gated(op[o].kind) /\ op[o].todo \in Seq(Nodes)
                         /\ op[o].pc \in {"call", "replicate"} => Range(op[o].todo) \subseteq Home(op[o].key)
    <2> USE <1>WriterFacts
    <2>1. Gated(op[o].kind) /\ op[o].pc # "idle"
      BY DEF Gated, Writes, Active
    <2>2. op[o].key \in Keys /\ bucket_of[op[o].key] \in Buckets /\ ~Closed(bucket_of[op[o].key])
      BY <2>1, InsideBucket DEF Setting, Context
    <2>3. WritingKey(o, op[o].key)
      BY <2>1 DEF WritingKey
    <2>4. \A p \in Ops \ {o} : ~WritingKey(p, op[o].key)
      BY <2>2, <2>3 DEF Setting, SerialInv
    <2>5. Home(op[o].key) \subseteq Nodes \cap clients
      BY <2>2, OwnersReached, OwnerLists DEF Setting, Home
    <2>6. op[o].pc \in {"call", "replicate"} => Range(op[o].todo) \subseteq Home(op[o].key)
      BY <2>1 DEF Setting, RoutedInv, Home
    <2> QED BY ZenonT(60), <2>1, <2>2, <2>3, <2>4, <2>5, <2>6 DEF WritingKey, Setting, ReachInv, OpInv
  \* A call learns its owners.
  <1>RouteData. ASSUME ReadOverlay(o) \/ ReadPartitioner(o), OpFrame(o)
                PROVE  StoreInv' /\ SerialInv' /\ StoreShape'
    <2> USE <1>RouteData
    <2>0. PICK k : k = op[o].key
      OBVIOUS
    <2> DEFINE b == bucket_of[k]
    <2>1. DOMAIN op = Ops /\ OpInv /\ Context
      BY DEF Setting, Context, ExclusionInv, Shapes, OpShape
    <2>2. /\ Others(o) /\ GoesOn(o) /\ op'[o].val = op[o].val
          /\ \/ /\ op[o].pc = "route" /\ overlay = None
                /\ op'[o].pc = "route2" /\ op'[o].todo = op[o].todo
             \/ /\ op[o].pc = "route" /\ overlay # None
                /\ op'[o].pc = "call" /\ op'[o].todo = Targeted(op[o].kind, OverlayOwners(b))
             \/ /\ op[o].pc = "route2"
                /\ op'[o].pc = "call" /\ op'[o].todo = Targeted(op[o].kind, CommittedOwners(b))
      BY <2>0, <2>1, RouteCall
    <2>3. UNCHANGED <<data, truth, faults>> /\ UNCHANGED <<clusterVars, dead>>
      BY DEF ReadOverlay, ReadPartitioner, history, envVars
    <2>4. op[o].pc \in {"route", "route2"} /\ op'[o].pc \in {"route2", "call"} /\ op'[o].kind = op[o].kind /\ op'[o].key = k
      BY <2>0, <2>2 DEF GoesOn
    <2>5. \A j \in Keys : WritingKey(o, j)' <=> WritingKey(o, j)
      BY <2>0, <2>4 DEF WritingKey
    <2>6. CASE op[o].kind \notin Writes
      BY <2>3, <2>5, <2>6, <1>ReadData DEF WritingKey
    <2>7. CASE op[o].kind \in Writes
      <3>1. op[o].pc \in Active
        BY <2>4 DEF Active
      <3>2. /\ k \in Keys /\ b \in Buckets /\ ~Closed(b) /\ WritingKey(o, k) /\ Home(k) \subseteq Nodes /\ down \subseteq dead
            /\ \A p \in Ops \ {o} : ~WritingKey(p, k)
            /\ \A j \in Keys \ {k} : ~WritingKey(o, j)
            /\ Gated(op[o].kind)
        BY <2>0, <2>7, <3>1, <1>WriterFacts
      <3>3. ASSUME op'[o].pc = "call"
            PROVE  /\ op[o].kind \in {"put", "delete"} => Range(op'[o].todo) = Home(k)
                   /\ op[o].kind \in {"cas", "incr"} => Range(op'[o].todo) = Home(k) \ down
        <4>1. PICK s : s \in Seq(Nodes) /\ Range(s) = Home(k) /\ op'[o].todo = Targeted(op[o].kind, s)
          <5>1. CASE op[o].pc = "route"
            BY ZenonT(60), <2>1, <2>2, <3>2, <3>3, <5>1, OwnerLists DEF Home
          <5>2. CASE op[o].pc = "route2"
            <6>1. Range(CommittedOwners(b)) = Route(b)
              BY <2>0, <3>2, <5>2 DEF Setting, RoutedInv
            <6> QED BY <2>1, <2>2, <3>2, <5>2, <6>1, OwnerLists DEF Home
          <5> QED BY <2>4, <5>1, <5>2
        <4>2. op[o].kind \in Reads \cup Writes
          BY <2>7
        <4> QED BY <4>1, <4>2, TargetedFacts
      <3>4. ASSUME Settled(k) PROVE Settled(k)'
        <4>1. \A n \in Home(k) \ dead : data[n][k] = truth[k]
          <5>1. ~Begun(o)
            BY <2>4 DEF Begun
          <5> QED BY <2>0, <3>2, <3>4, <5>1 DEF Settled, Written
        <4>2. ASSUME NEW n \in Home(k) \ dead PROVE Written(o, n)'
          <5>1. data'[n][k] = truth'[k]
            BY <2>3, <4>1
          <5>2. op'[o].pc = "call" => n \in Range(op'[o].todo)
            BY <2>7, <3>2, <3>3 DEF Writes
          <5>3. Begun(o)' => op'[o].pc = "call"
            BY <2>4 DEF Begun
          <5> QED BY <2>4, <5>1, <5>2, <5>3 DEF Written
        <4>3. \A n \in Nodes \ Home(k) : data'[n][k] = Absent
          BY <2>3, <3>4 DEF Settled
        <4>4. WritingKey(o, k)'
          BY <2>5, <3>2
        <4> QED BY <2>2, <2>3, <3>2, <4>2, <4>3, <4>4, <1>SettledBy
      <3>5. StoreShape'
        BY <2>3 DEF Setting, StoreShape
      <3> QED BY ZenonT(60), <2>3, <2>5, <3>2, <3>4, <3>5, <1>WriteData
    <2> QED BY <2>6, <2>7
  \* A write stores its value on the next owner.
  <1>CallData. ASSUME BroadcastCall(o) \/ ReplicaCall(o), OpFrame(o)
               PROVE  StoreInv' /\ SerialInv' /\ StoreShape'
    <2> USE <1>CallData
    <2>0. PICK k, n0, v : k = op[o].key /\ n0 = Head(op[o].todo) /\ v = op[o].val
      OBVIOUS
    <2>1. DOMAIN op = Ops /\ OpInv /\ Context
      BY DEF Setting, Context, ExclusionInv, Shapes, OpShape
    <2>2. /\ Others(o) /\ GoesOn(o) /\ op[o].todo # <<>>
          /\ op'[o].pc = op[o].pc /\ op'[o].val = v /\ op'[o].todo = Tail(op[o].todo)
      BY <2>0, <2>1, WriteCallEffect
    <2>3. UNCHANGED <<truth, faults>> /\ UNCHANGED <<clusterVars, dead>>
      BY DEF BroadcastCall, ReplicaCall, history, envVars
    <2>4. op[o].pc \in {"call", "replicate"} /\ Begun(o) /\ op[o].kind \in Writes
      BY <2>1 DEF BroadcastCall, ReplicaCall, Begun, OpInv, Writes
    <2>5. op[o].pc \in Active
      BY <2>4 DEF Active
    <2>6. /\ k \in Keys /\ ~Closed(bucket_of[k]) /\ WritingKey(o, k) /\ Home(k) \subseteq Nodes \cap clients /\ down \subseteq dead
          /\ \A p \in Ops \ {o} : ~WritingKey(p, k)
          /\ \A j \in Keys \ {k} : ~WritingKey(o, j)
          /\ op[o].todo \in Seq(Nodes) /\ Range(op[o].todo) \subseteq Home(k)
      BY <2>0, <2>4, <2>5, <1>WriterFacts
    <2>7. Range(op[o].todo) = {n0} \cup Range(Tail(op[o].todo)) /\ n0 \in Nodes
      BY <2>0, <2>2, <2>6, HeadAndTail
    <2>8. n0 \in Home(k)
      BY <2>6, <2>7
    <2>9. data' = IF n0 \notin dead THEN write(n0, k, v) ELSE data
      BY <2>0, <2>6, <2>8 DEF BroadcastCall, ReplicaCall, is_down, Reachable, client_of
    <2>10. /\ StoreShape' /\ (n0 \notin dead => data'[n0][k] = v) /\ (n0 \in dead => data'[n0][k] = data[n0][k])
           /\ \A i \in Nodes, j \in Keys : i # n0 \/ j # k => data'[i][j] = data[i][j]
      <3>1. CASE n0 \notin dead
        BY SMT, <2>3, <2>6, <2>7, <2>9, <3>1, <1>WriteEffect DEF Setting, StoreShape
      <3>2. CASE n0 \in dead
        BY <2>3, <2>9, <3>2 DEF Setting, StoreShape
      <3> QED BY <3>1, <3>2
    <2>11. \A j \in Keys : WritingKey(o, j)' <=> WritingKey(o, j)
      BY <2>2 DEF WritingKey, GoesOn
    <2>12. ASSUME Settled(k) PROVE Settled(k)'
      <3>1. ASSUME NEW n \in Home(k) \ dead PROVE Written(o, n)'
        <4>1. data[n][k] \in {truth[k], v} /\ (n \in Range(op[o].todo) \/ data[n][k] = v)
          BY <2>0, <2>4, <2>6, <2>12 DEF Settled, Written
        <4>2. data'[n][k] \in {truth[k], v} /\ (n \in Range(Tail(op[o].todo)) \/ data'[n][k] = v)
          BY <2>6, <2>7, <2>10, <4>1
        <4>3. Begun(o)'
          BY <2>2, <2>4 DEF Begun, GoesOn
        <4> QED BY <2>0, <2>2, <2>3, <4>2, <4>3 DEF Written, GoesOn
      <3>2. \A n \in Nodes \ Home(k) : data'[n][k] = Absent
        BY <2>6, <2>8, <2>10, <2>12 DEF Settled
      <3>3. WritingKey(o, k)'
        BY <2>6, <2>11
      <3> QED BY ZenonT(60), <2>2, <2>3, <2>6, <3>1, <3>2, <3>3, <1>SettledBy
    <2> QED BY <2>3, <2>6, <2>10, <2>11, <2>12, <1>WriteData
  \* A write returns: its value is on every owner that answers.
  <1>DoneData. ASSUME WriteDone(o), OpFrame(o)
               PROVE  StoreInv' /\ SerialInv' /\ StoreShape'
    <2> USE <1>DoneData
    <2>0. PICK k : k = op[o].key
      OBVIOUS
    <2>1. DOMAIN op = Ops /\ OpInv /\ Context
      BY DEF Setting, Context, ExclusionInv, Shapes, OpShape
    <2>2. Others(o) /\ op'[o] = IdleOp
      BY <2>1, ReturnEffect DEF WriteDone, Returned
    <2>3. UNCHANGED <<data, faults>> /\ UNCHANGED <<clusterVars, dead>> /\ truth' = [truth EXCEPT ![k] = op[o].val]
      BY <2>0 DEF WriteDone, envVars
    <2>4. op[o].pc \in {"call", "replicate"} /\ Begun(o) /\ op[o].kind \in Writes /\ op[o].todo = <<>>
      BY <2>1 DEF WriteDone, HasValue, Begun, OpInv, Writes
    <2>5. op[o].pc \in Active
      BY <2>4 DEF Active
    <2>6. /\ k \in Keys /\ ~Closed(bucket_of[k]) /\ WritingKey(o, k)
          /\ \A p \in Ops \ {o} : ~WritingKey(p, k)
          /\ \A j \in Keys \ {k} : ~WritingKey(o, j)
      BY <2>0, <2>4, <2>5, <1>WriterFacts
    <2>7. \A j \in Keys : ~WritingKey(o, j)'
      BY <2>2, IdleForm DEF WritingKey
    <2>8. StoreShape' /\ truth'[k] = op[o].val /\ \A j \in Keys \ {k} : truth'[j] = truth[j]
      BY <2>3, <2>6 DEF Setting, StoreShape
    <2>9. ASSUME Settled(k) PROVE Settled(k)'
      <3>1. Range(op[o].todo) = {}
        BY SMT, <2>4 DEF Range
      <3>2. \A n \in Home(k) \ dead : data'[n][k] = truth'[k]
        BY ZenonT(60), <2>0, <2>3, <2>4, <2>6, <2>8, <2>9, <3>1 DEF Settled, Written
      <3>3. \A n \in Nodes \ Home(k) : data'[n][k] = Absent
        BY <2>3, <2>9 DEF Settled
      <3> QED BY <2>2, <2>3, <2>6, <2>7, <3>2, <3>3, <1>SettledBy
    <2> QED BY <2>3, <2>6, <2>7, <2>8, <2>9, <1>WriteData
  \* A cas or incr is refused, or stores its new value on the first live owner.
  <1>RmwData. ASSUME RmwPrimary(o), OpFrame(o)
              PROVE  StoreInv' /\ SerialInv' /\ StoreShape'
    <2> USE <1>RmwData
    <2>0. PICK k, n0, v : k = op[o].key /\ n0 = Head(op[o].todo) /\ v = Modified(o, data[n0][k])
      OBVIOUS
    <2>1. DOMAIN op = Ops /\ OpInv /\ Context
      BY DEF Setting, Context, ExclusionInv, Shapes, OpShape
    <2>2. UNCHANGED <<truth, faults>> /\ UNCHANGED <<clusterVars, dead>>
      BY DEF RmwPrimary, history, envVars
    <2>3. op[o].pc = "call" /\ ~Begun(o) /\ op[o].kind \in Writes
      BY DEF RmwPrimary, Begun, Writes
    <2>4. op[o].pc \in Active
      BY <2>3 DEF Active
    <2>5. /\ k \in Keys /\ ~Closed(bucket_of[k]) /\ WritingKey(o, k)
          /\ \A p \in Ops \ {o} : ~WritingKey(p, k)
          /\ \A j \in Keys \ {k} : ~WritingKey(o, j)
          /\ op[o].todo \in Seq(Nodes) /\ Range(op[o].todo) \subseteq Home(k)
      BY <2>0, <2>3, <2>4, <1>WriterFacts
    <2>6. CASE ReturnWrite(o)
      <3>1. Others(o) /\ op'[o] = IdleOp
        BY ZenonT(60), <2>1, <2>6, ReturnEffect DEF Returned
      <3>2. \A j \in Keys : ~WritingKey(o, j)'
        BY <3>1, IdleForm DEF WritingKey
      <3>3. data' = data
        <4>1. CASE op[o].todo # <<>> /\ Reachable(n0) /\ Applies(o, object(n0, k))
          <5>1. PICK f : /\ op' = WithLegal(f, k, v)
                         /\ f = [op EXCEPT ![o].pc = "replicate", ![o].val = v, ![o].todo = Tail(@)]
            BY <2>0, <4>1 DEF RmwPrimary, object
          <5>2. OpShape(op) /\ DOMAIN op[o] = OpFields
            BY <2>1 DEF Context, ExclusionInv, Shapes, OpInv
          <5>3. OpShape(f) /\ f[o].pc = "replicate"
            BY <5>1, <5>2 DEF OpShape, OpFields
          <5>4. op'[o].pc = "replicate"
            <6>1. \A p \in Ops : WithLegal(f, k, v)[p].pc = f[p].pc
              BY SMT, <5>3, LegalStays
            <6> QED BY <5>1, <5>3, <6>1
          <5> QED BY <3>1, <5>4, IdleForm
        <4>2. CASE ~(op[o].todo # <<>> /\ Reachable(n0) /\ Applies(o, object(n0, k)))
          BY <2>0, <4>2 DEF RmwPrimary
        <4> QED BY <4>1, <4>2
      <3>4. ASSUME Settled(k) PROVE Settled(k)'
        <4>1. \A n \in Home(k) \ dead : data'[n][k] = truth'[k]
          BY <2>0, <2>2, <2>3, <2>5, <3>3, <3>4 DEF Settled, Written
        <4>2. \A n \in Nodes \ Home(k) : data'[n][k] = Absent
          BY <3>3, <3>4 DEF Settled
        <4> QED BY ZenonT(60), <2>2, <2>5, <3>1, <3>2, <4>1, <4>2, <1>SettledBy
      <3>5. StoreShape'
        BY <2>2, <3>3 DEF Setting, StoreShape
      <3> QED BY ZenonT(60), <2>2, <2>5, <3>2, <3>3, <3>4, <3>5, <1>WriteData
    <2>7. CASE ~ReturnWrite(o)
      <3>1. /\ op[o].todo # <<>> /\ Reachable(n0) /\ data' = write(n0, k, v) /\ Others(o)
            /\ op'[o].pc = "replicate" /\ op'[o].kind = op[o].kind /\ op'[o].key = k
            /\ op'[o].val = v /\ op'[o].todo = Tail(op[o].todo)
        BY <2>0, <2>1, <2>7, RmwEffect
      <3>2. Range(op[o].todo) = {n0} \cup Range(Tail(op[o].todo)) /\ n0 \in Nodes
        BY <2>0, <2>5, <3>1, HeadAndTail
      <3>3. n0 \in Home(k)
        BY <2>5, <3>2
      <3>4. /\ StoreShape' /\ data'[n0][k] = v
            /\ \A i \in Nodes, j \in Keys : i # n0 \/ j # k => data'[i][j] = data[i][j]
        BY SMT, <2>2, <2>5, <3>1, <3>2, <1>WriteEffect DEF Setting, StoreShape
      <3>5. \A j \in Keys : WritingKey(o, j)' <=> WritingKey(o, j)
        BY <2>0, <2>3, <3>1 DEF WritingKey
      <3>6. Home(k) \subseteq Nodes
        BY <2>0, <2>3, <2>4, <1>WriterFacts
      <3>7. ASSUME Settled(k) PROVE Settled(k)'
        <4>1. ASSUME NEW n \in Home(k) \ dead PROVE Written(o, n)'
          <5>1. data[n][k] = truth[k] /\ n \in Range(op[o].todo)
            BY <2>0, <2>3, <2>5, <3>7 DEF Settled, Written
          <5>2. data'[n][k] \in {truth[k], v} /\ (n \in Range(Tail(op[o].todo)) \/ data'[n][k] = v)
            BY <2>5, <3>2, <3>4, <3>6, <5>1
          <5> QED BY <2>2, <3>1, <5>2 DEF Written, Begun
        <4>2. \A n \in Nodes \ Home(k) : data'[n][k] = Absent
          BY <2>5, <3>3, <3>4, <3>7 DEF Settled
        <4>3. WritingKey(o, k)'
          BY <2>5, <3>5
        <4> QED BY ZenonT(60), <2>2, <2>5, <3>1, <4>1, <4>2, <4>3, <1>SettledBy
      <3> QED BY <2>2, <2>5, <3>4, <3>5, <3>7, <1>WriteData
    <2> QED BY <2>6, <2>7
  <1>0. DOMAIN op = Ops /\ OpInv /\ Context /\ op[o].kind \in Reads \cup Writes
    BY DEF Setting, Context, ExclusionInv, Shapes, OpShape, OpInv
  <1>1. UNCHANGED <<clusterVars, mig, frozen>> /\ \A b \in frozen : Inside(b)' => Inside(b)
    BY <1>0, OpControl
  <1>2. dead' = dead
    BY ZenonT(60) DEF Begin, OpStep, ReadOverlay, ReadPartitioner, GetCall, ReadDone, BroadcastCall, WriteDone,
           RmwPrimary, ReplicaCall, RmwReplyLost, envVars
  <1>3. Others(o) => OpFrame(o)
    BY <1>1, <1>2 DEF OpFrame
  <1>4. ASSUME NEW kind \in Kinds, NEW k \in Keys, NEW a, Begin(o, kind, k, a[1], a[2])
        PROVE  StoreInv' /\ SerialInv' /\ StoreShape'
    <2>1. kind \in Reads \cup Writes
      BY MigrationAssumption DEF Setting, Context, Reads, Writes
    <2>2. Others(o)
      BY ZenonT(60), <1>0, <1>4, <2>1, BeginCall
    <2> QED BY <1>3, <1>4, <2>2, <1>BeginData
  <1>5. CASE ReadOverlay(o) \/ ReadPartitioner(o)
    BY <1>0, <1>3, <1>5, RouteCall, <1>RouteData
  <1>6. CASE BroadcastCall(o) \/ ReplicaCall(o)
    BY <1>0, <1>3, <1>6, WriteCallEffect, <1>CallData
  <1>7. CASE WriteDone(o)
    BY <1>0, <1>3, <1>7, ReturnEffect, <1>DoneData DEF WriteDone, Returned
  <1>8. CASE RmwPrimary(o)
    <2>1. Others(o)
      BY <1>0, <1>8, ReturnEffect, RmwEffect DEF Returned
    <2> QED BY <1>3, <1>8, <2>1, <1>RmwData
  <1>9. CASE GetCall(o) \/ ReadDone(o)
    <2>1. /\ Others(o) /\ op[o].kind \notin Writes
          /\ op'[o].kind \notin Writes \/ op'[o].pc = "idle"
      <3>1. CASE GetCall(o)
        <4>1. Others(o) /\ GoesOn(o) /\ op[o].kind \in Reads
          BY <1>0, <3>1, GetCallEffect
        <4> QED BY <4>1 DEF GoesOn, Reads, Writes
      <3>2. CASE ReadDone(o)
        <4>1. op[o].kind \in Reads /\ op'[o] = IdleOp /\ Others(o)
          BY <1>0, <3>2, ReturnEffect DEF ReadDone, OpInv, Returned
        <4> QED BY <4>1, IdleForm DEF Reads, Writes
      <3> QED BY <1>9, <3>1, <3>2
    <2>2. UNCHANGED <<data, truth, faults>>
      BY <1>9 DEF GetCall, ReadDone, history, envVars
    <2>3. \A k \in Keys : ~WritingKey(o, k) /\ ~WritingKey(o, k)'
      BY <2>1 DEF WritingKey
    <2> QED BY <1>3, <2>1, <2>2, <2>3, <1>ReadData
  <1>10. CASE RmwReplyLost(o)
    <2>1. Others(o) /\ op'[o] = IdleOp
      BY <1>0, <1>10, LostEffect DEF Returned
    <2>2. SerialInv'
      <3>1. \A p \in Ops, k \in Keys : WritingKey(p, k)' => WritingKey(p, k)
        BY <2>1, IdleForm DEF WritingKey, Others, Same
      <3> QED BY <3>1 DEF SerialInv, Setting
    <2>3. faults' # 0
      <3>1. faults \in Nat /\ faults' = faults + 1
        BY <1>10 DEF RmwReplyLost, Setting, ReachInv
      <3> QED BY SMT, <3>1
    <2>4. StoreShape'
      <3>1. PICK n0, v : data' = write(n0, op[o].key, v) /\ n0 = Head(op[o].todo) /\ op[o].todo # <<>>
        BY <1>10 DEF RmwReplyLost
      <3>2. op[o].key \in Keys /\ op[o].todo \in Seq(Nodes) /\ truth' = truth
        BY <1>0, <1>10 DEF RmwReplyLost, OpInv
      <3>3. n0 \in Nodes
        BY <3>1, <3>2, HeadAndTail
      <3> QED BY <3>1, <3>2, <3>3, <1>WriteEffect DEF Setting, StoreShape
    <2> QED BY <2>2, <2>3, <2>4 DEF StoreInv
  <1> QED BY <1>4, <1>5, <1>6, <1>7, <1>8, <1>9, <1>10 DEF OpStep
-----------------------------------------------------------------------------
(***************************************************************************)
(* The control plane moves it.                                             *)
(***************************************************************************)
\* the members that a bucket on the move travels between stay what they are
SamePlan == frozen # {} => overlay'.old = overlay.old /\ overlay'.new = overlay.new

\* A step that leaves the data and the gate alone.
LEMMA KeyStays ==
  ASSUME NEW k \in Keys, DataOf(k), UNCHANGED <<data, truth, op, entered, frozen>>, dead \subseteq dead',
         Steady, SamePlan
  PROVE  DataOf(k)'
PROOF
  <1> DEFINE b == bucket_of[k]
  <1>0. b \in Buckets
    BY PlacementAssumption
  <1>1. Closed(b)' <=> Closed(b)
    BY DEF Closed, Inside
  <1>2. CASE Closed(b)
    <2>1. OldSet(b)' = OldSet(b) /\ NewSet(b)' = NewSet(b)
      BY <1>2 DEF Closed, SamePlan, OldSet, NewSet
    <2> QED BY <1>1, <1>2, <2>1 DEF DataOf, Between
  <1>3. CASE ~Closed(b)
    <2>1. Home(k)' = Home(k)
      BY <1>0, <1>3 DEF Steady, Home
    <2>2. \A o : (WritingKey(o, k)' <=> WritingKey(o, k)) /\ \A n : Written(o, n)' <=> Written(o, n)
      BY ZenonT(60) DEF WritingKey, Written, Begun
    <2> QED BY <1>1, <1>3, <2>1, <2>2 DEF DataOf, Settled
  <1> QED BY <1>2, <1>3

\* m goes on with the same chunk of the same plan
SameChunk(m) == mig'[m].old = mig[m].old /\ mig'[m].new = mig[m].new /\ mig'[m].chunk = mig[m].chunk

\* What is known of a key of the chunk, and of a pair it travels along.
LEMMA ChunkKey ==
  ASSUME Setting, StoreInv, faults = 0, NEW m \in Migrators, mig[m].pc \in Moving,
         NEW k \in Keys, bucket_of[k] \in mig[m].chunk
  PROVE  LET b == bucket_of[k]
         IN  /\ b \in Buckets /\ Closed(b) /\ Between(k) /\ OldSet(b) \subseteq Nodes /\ NewSet(b) \subseteq Nodes
             /\ DropsOf(m, b) = OldSet(b) \ NewSet(b) /\ DropsOf(m, b) \subseteq clients
             /\ \A p \in CopiesOf(m, b) :
                  /\ p[1] \in OldSet(b) /\ p[2] \in NewSet(b) \ OldSet(b)
                  /\ p[1] \in clients /\ p[2] \in clients
                  /\ data[p[1]][k] = Absent => data[p[2]][k] = truth[k]
             /\ \A n \in NewSet(b) \ OldSet(b) : \E p \in CopiesOf(m, b) : p[2] = n /\ p \in Nodes \X Nodes
PROOF
  <1> DEFINE b == bucket_of[k]
  <1>0. Context
    BY DEF Setting, Context
  <1>1. /\ overlay # None /\ overlay.old = mig[m].old /\ overlay.new = mig[m].new
        /\ mig[m].old \in Memb /\ mig[m].new \in Memb
        /\ mig[m].old \subseteq clients /\ mig[m].new \subseteq clients
        /\ b \in Buckets /\ Closed(b) /\ DropsOf(m, b) = OldSet(b) \ NewSet(b)
    BY <1>0, ChunkClosed DEF Setting
  <1>2. Between(k)
    BY <1>1 DEF StoreInv, DataOf
  <1>3. /\ OldSet(b) \subseteq mig[m].old /\ mig[m].old \subseteq Nodes
        /\ NewSet(b) \subseteq mig[m].new /\ mig[m].new \subseteq Nodes
    <2>1. overlay.old \in Memb /\ overlay.new \in Memb /\ b \in Buckets
      BY <1>1
    <2>2. /\ OldSet(b) \subseteq overlay.old /\ overlay.old \subseteq Nodes
          /\ NewSet(b) \subseteq overlay.new /\ overlay.new \subseteq Nodes
      BY <1>0, <2>1, PlacedFacts DEF OldSet, NewSet
    <2> QED BY <1>1, <2>2
  <1>4. PICK source \in OldSet(b) :
          /\ \A p \in CopiesOf(m, b) : p[1] = source /\ p[2] \in NewSet(b) \ OldSet(b)
          /\ \A n \in NewSet(b) \ OldSet(b) : <<source, n>> \in CopiesOf(m, b)
    BY <1>0, <1>1, Moves DEF OldSet, NewSet, CopiesOf
  <1>5. ASSUME NEW p \in CopiesOf(m, b)
        PROVE  /\ p[1] \in OldSet(b) /\ p[2] \in NewSet(b) \ OldSet(b)
               /\ p[1] \in clients /\ p[2] \in clients
               /\ data[p[1]][k] = Absent => data[p[2]][k] = truth[k]
    <2>1. p[1] \in OldSet(b) /\ p[2] \in NewSet(b) \ OldSet(b) /\ p[1] \in clients /\ p[2] \in clients
      BY <1>1, <1>3, <1>4
    <2>2. ASSUME data[p[1]][k] = Absent PROVE data[p[2]][k] = truth[k]
      <3>1. data[p[2]][k] \in {Absent, truth[k]}
        BY <1>2, <1>3, <2>1 DEF Between
      <3>2. data[p[1]][k] = truth[k] \/ data[p[2]][k] = truth[k]
        BY <1>2, <2>1 DEF Between
      <3> QED BY <2>2, <3>1, <3>2
    <2> QED BY <2>1, <2>2
  <1>6. \A n \in NewSet(b) \ OldSet(b) : \E p \in CopiesOf(m, b) : p[2] = n /\ p \in Nodes \X Nodes
    BY <1>3, <1>4
  <1> QED BY <1>1, <1>2, <1>3, <1>5, <1>6

\* Once nothing is left to copy, every new owner of the chunk's buckets has them.
LEMMA AllCopied ==
  ASSUME Setting, StoreInv, faults = 0, NEW m \in Migrators, Cutover(m),
         NEW k \in Keys, bucket_of[k] \in mig[m].chunk
  PROVE  \A n \in NewSet(bucket_of[k]) : data[n][k] = truth[k]
PROOF
  <1> DEFINE b == bucket_of[k]
  <1>1. mig[m].pc = "copy" /\ mig[m].copies = {} /\ mig[m].pc \in Moving
    BY DEF Cutover, Moving
  <1>2. Copying(m)
    BY <1>1 DEF StoreInv, MovingOf
  <1>3. /\ Between(k)
        /\ \A n \in NewSet(b) \ OldSet(b) : \E p \in CopiesOf(m, b) : p[2] = n /\ p \in Nodes \X Nodes
    BY <1>1, ChunkKey
  <1>4. \A n \in NewSet(b) \ OldSet(b) : data[n][k] = truth[k]
    BY SMT, <1>1, <1>2, <1>3 DEF Copying, Carries
  <1> QED BY <1>3, <1>4 DEF Between

\* Steps of a migrator.
LEMMA MigratorData ==
  ASSUME Setting, StoreInv, NEW m \in Migrators,
         \/ MigrationStart(m) \/ MigrationStep(m) \/ CopyFault(m) \/ MigrationCancel(m)
         \/ \E n \in mig[m].drops : DropFault(m, n)
  PROVE  StoreInv' /\ SerialInv' /\ StoreShape'
PROOF
  \* A bucket is closed: all that is known of its keys still holds.
  <1>KeyCloses. ASSUME NEW k \in Keys, Settled(k), ~Inside(bucket_of[k]), overlay # None,
                       UNCHANGED <<data, truth, overlay>>
                PROVE  Between(k)'
    <2> USE <1>KeyCloses
    <2> DEFINE b == bucket_of[k]
    <2>0. Context /\ b \in Buckets
      BY PlacementAssumption DEF Setting, Context
    <2>1. \A o \in Ops : ~WritingKey(o, k)
      BY <2>0, ClosedQuiet DEF Setting, Context
    <2>2. dead = {}
      BY <2>0, OwnersReached DEF Setting
    <2>3. Home(k) \in {OldSet(b), NewSet(b)}
      BY <2>0, RouteIs DEF Home, OldSet, NewSet
    <2>4. (\A n \in Nodes \ Home(k) : data[n][k] = Absent) /\ (\A n \in Home(k) : data[n][k] = truth[k])
      BY <2>1, <2>2 DEF Settled
    <2>5. OldSet(b)' = OldSet(b) /\ NewSet(b)' = NewSet(b)
      BY DEF OldSet, NewSet
    <2> QED BY <2>3, <2>4, <2>5 DEF Between
  \* The only migrator is not moving anything.
  <1>NotMoving. ASSUME Context, mig'[m].pc \notin Moving
                PROVE  \A n \in Migrators : MovingOf(n)'
    <2> USE <1>NotMoving
    <2>1. \A n \in Migrators : n = m
      BY DEF Context, Orderly
    <2> QED BY <2>1 DEF MovingOf, Moving
  \* Steps of the control plane between two chunks.
  <1>QuietData. ASSUME \/ MigrationStart(m) \/ ReadMembers(m) \/ InstallOverlay(m) \/ StopEarly(m) \/ MigrationCancel(m)
                       \/ CommitEpoch(m) \/ CommitNodes(m) \/ CommitReplication(m) \/ CommitClients(m) \/ DropOverlay(m)
                PROVE  StoreInv'
    <2> USE <1>QuietData
    <2>0. Context
      BY DEF Setting, Context
    <2>1. Steady
      BY <2>0, MigratorControl DEF MigrationStep
    <2>2. UNCHANGED <<data, truth, op, entered, frozen, dead, faults>>
      BY DEF MigrationStart, rebalance, apply_membership, rebalance_partial, drain, Start,
         resume_migration,
             ReadMembers, InstallOverlay, StopEarly, MigrationCancel, CommitEpoch, CommitNodes, CommitReplication,
             CommitClients, DropOverlay, Abandon, gate, envVars, history
    <2>3. Phase(mig[m]) /\ DOMAIN mig = Migrators /\ DOMAIN mig[m] = MigFields
      BY <2>0, Stepped
    <2>4. SamePlan
      <3> SUFFICES ASSUME frozen # {} PROVE overlay'.old = overlay.old /\ overlay'.new = overlay.new
        BY DEF SamePlan
      <3>1. journal # None /\ overlay # None /\ journal.old = overlay.old /\ journal.new = overlay.new
        BY <2>0 DEF Context, ControlInv, JournalInv
      <3>2. CASE InstallOverlay(m)
        <4>1. mig[m].old = overlay.old /\ mig[m].new = overlay.new
          BY <2>3, <3>1, <3>2 DEF InstallOverlay, Phase, AtLock
        <4> QED BY SMT, <3>2, <4>1 DEF InstallOverlay
      <3>3. ~DropOverlay(m)
        BY <2>3, <3>1 DEF DropOverlay, Phase, AtCommit, Committing
      <3>4. CASE ~InstallOverlay(m)
        <4>1. overlay' = overlay
          BY <3>3, <3>4 DEF MigrationStart, rebalance, apply_membership, rebalance_partial, drain,
             Start, resume_migration,
             ReadMembers, StopEarly, MigrationCancel, CommitEpoch, CommitNodes, CommitReplication, CommitClients, clusterVars
        <4> QED BY <4>1
      <3> QED BY <3>2, <3>4
    <2>5. mig'[m].pc \notin Moving
      <3>1. CASE StopEarly(m) \/ MigrationCancel(m) \/ DropOverlay(m)
        BY SMT, <2>3, <3>1 DEF StopEarly, MigrationCancel, DropOverlay, Step, IdleMig, Moving
      <3>2. CASE ReadMembers(m) \/ CommitEpoch(m) \/ CommitNodes(m) \/ CommitReplication(m)
        BY <2>3, <3>2 DEF ReadMembers, CommitEpoch, CommitNodes, CommitReplication, Step, MigFields,
           Moving
      <3>3. CASE CommitClients(m)
        BY SMT, <2>3, <3>3 DEF CommitClients, Step, MigFields, IdleMig, Moving
      <3>4. CASE InstallOverlay(m)
        <4> DEFINE todo == Moved(mig[m].old, mig[m].new, ReplTarget) \ mig[m].done
        <4>1. \/ mig' = [mig EXCEPT ![m] = [mig[m] EXCEPT !.pc = "nodes"]]
              \/ mig' = [mig EXCEPT ![m] = [mig[m] EXCEPT !.pc = "chunk", !.todo = todo]]
          BY <3>4 DEF InstallOverlay, Step
        <4> HIDE DEF todo
        <4> QED BY <2>3, <4>1 DEF MigFields, Moving
      <3>5. CASE MigrationStart(m)
        <4>1. CASE resume_migration(m)
          <5>1. mig' = [mig EXCEPT ![m] = [IdleMig EXCEPT !.pc = "lock", !.old = journal.old, !.new = journal.new,
                                                          !.done = journal.done]]
            BY <4>1 DEF resume_migration, Step
          <5> QED BY <2>3, <5>1 DEF IdleMig, Moving
        <4>2. ASSUME NEW new, NEW stop, Start(m, new, stop) PROVE mig'[m].pc \notin Moving
          <5>1. mig' = [mig EXCEPT ![m] = [IdleMig EXCEPT !.pc = "read", !.new = new, !.stop = stop]]
            BY <4>2 DEF Start, Step
          <5> QED BY <2>3, <5>1 DEF IdleMig, Moving
        <4> QED BY <3>5, <4>1, <4>2 DEF MigrationStart, rebalance, apply_membership, rebalance_partial,
                   drain
      <3> QED BY ZenonT(60), <3>1, <3>2, <3>3, <3>4, <3>5
    <2>6. \A n \in Migrators : MovingOf(n)'
      BY <2>0, <2>5, <1>NotMoving
    <2>7. ASSUME NEW k \in Keys, faults = 0 PROVE DataOf(k)'
      <3>1. DataOf(k)
        BY <2>7 DEF StoreInv
      <3> QED BY <2>0, <2>1, <2>2, <2>4, <3>1, KeyStays
    <2> QED BY <2>2, <2>6, <2>7 DEF StoreInv
  \* The next buckets are frozen.
  <1>FreezeData. ASSUME ChunkFreeze(m)
                 PROVE  StoreInv'
    <2> USE <1>FreezeData
    <2>0. Context
      BY DEF Setting, Context
    <2>1. Steady
      BY <2>0, MigratorControl DEF MigrationStep
    <2>2. UNCHANGED <<data, truth, op, entered, dead, faults, overlay>> /\ frozen \subseteq frozen' /\ mig[m].pc = "chunk"
      BY DEF ChunkFreeze, Freeze, envVars, history, clusterVars
    <2>3. Phase(mig[m]) /\ DOMAIN mig = Migrators /\ DOMAIN mig[m] = MigFields
      BY <2>0, Stepped
    <2>4. mig'[m].pc = "drain"
      <3> DEFINE chunk == NextChunk(mig[m].todo)
                 stop == IF mig[m].stop = None THEN None ELSE mig[m].stop - 1
      <3>1. mig' = [mig EXCEPT ![m] = [mig[m] EXCEPT !.pc = "drain", !.chunk = chunk, !.stop = stop]]
        BY DEF ChunkFreeze, Step
      <3> HIDE DEF chunk, stop
      <3> QED BY <2>3, <3>1 DEF MigFields
    <2>5. overlay # None
      BY <2>0, <2>2, <2>3 DEF Phase, Working, AtWork, Context, ControlInv, JournalInv
    <2>6. ASSUME NEW k \in Keys, faults = 0 PROVE DataOf(k)'
      <3> DEFINE b == bucket_of[k]
      <3>0. DataOf(k) /\ b \in Buckets
        BY <2>0, <2>6, PlacementAssumption DEF StoreInv
      <3>1. Closed(b) => Closed(b)'
        BY <2>2 DEF Closed, Inside
      <3>2. CASE Closed(b)
        BY <2>2, <3>0, <3>1, <3>2 DEF DataOf, Between, OldSet, NewSet
      <3>3. CASE ~Closed(b) /\ Closed(b)'
        <4>1. ~Inside(b)
          BY <2>2, <3>3 DEF Closed, Inside
        <4>2. Settled(k)
          BY <3>0, <3>3 DEF DataOf
        <4> QED BY <2>2, <2>5, <3>3, <4>1, <4>2, <1>KeyCloses DEF DataOf
      <3>4. CASE ~Closed(b)' /\ ~Closed(b)
        <4>1. Home(k)' = Home(k)
          BY <2>1, <3>0, <3>4 DEF Steady, Home
        <4>2. \A o : (WritingKey(o, k)' <=> WritingKey(o, k)) /\ \A n : Written(o, n)' <=> Written(o, n)
          BY ZenonT(60), <2>2 DEF WritingKey, Written, Begun
        <4> QED BY <2>2, <3>0, <3>4, <4>1, <4>2 DEF DataOf, Settled
      <3> QED BY <3>1, <3>2, <3>3, <3>4
    <2>7. \A n \in Migrators : MovingOf(n)'
      BY <2>0, <2>4, <1>NotMoving DEF Moving
    <2> QED BY <2>2, <2>6, <2>7 DEF StoreInv
  \* A step that leaves the routes alone, for a key it does not touch.
  <1>KeyUntouched. ASSUME NEW k \in Keys, DataOf(k), UNCHANGED <<partitioner, replication, overlay, op, dead>>,
                          truth'[k] = truth[k], \A n \in Nodes : data'[n][k] = data[n][k],
                          Closed(bucket_of[k])' <=> Closed(bucket_of[k])
                   PROVE  DataOf(k)'
    <2> USE <1>KeyUntouched
    <2> DEFINE b == bucket_of[k]
    <2>0. Context /\ b \in Buckets
      BY PlacementAssumption DEF Setting, Context
    <2>1. Home(k)' = Home(k) /\ Home(k) \subseteq Nodes
      BY <2>0, OwnerLists DEF Home, Route, OverlayOwners, CommittedOwners
    <2>2. CASE Closed(b)
      <3>1. overlay # None
        BY <2>0, <2>2, OwnersReached DEF Setting, Closed
      <3>2. overlay.old \in Memb /\ overlay.new \in Memb
        BY <2>0, <3>1, RouteIs
      <3>3. OldSet(b) \subseteq Nodes /\ NewSet(b) \subseteq Nodes /\ OldSet(b)' = OldSet(b) /\ NewSet(b)' = NewSet(b)
        BY <2>0, <3>2, PlacedFacts DEF OldSet, NewSet
      <3> QED BY <2>2, <3>3 DEF DataOf, Between
    <2>3. CASE ~Closed(b)
      <3>1. \A o : WritingKey(o, k)' <=> WritingKey(o, k)
        BY DEF WritingKey
      <3>2. \A o : WritingKey(o, k) => \A n \in Nodes : Written(o, n)' <=> Written(o, n)
        BY ZenonT(60) DEF WritingKey, Written, Begun
      <3> QED BY <2>1, <2>3, <3>1, <3>2 DEF DataOf, Settled
    <2> QED BY <2>2, <2>3
  \* The only migrator's entries are where they should be.
  <1>OnlyMover. ASSUME Context, MovingOf(m)'
                PROVE  \A n \in Migrators : MovingOf(n)'
    <2> USE <1>OnlyMover
    <2>1. \A n \in Migrators : n = m
      BY DEF Context, Orderly
    <2> QED BY <2>1
  \* A migrator with the same plan has the same moves.
  <1>SameMoves. ASSUME SameChunk(m)
                PROVE  /\ \A b : CopiesOf(m, b)' = CopiesOf(m, b) /\ DropsOf(m, b)' = DropsOf(m, b)
                       /\ \A p, k : Carries(m, p, k)' <=> Carries(m, p, k)
    BY <1>SameMoves DEF SameChunk, CopiesOf, DropsOf, Carries
  \* The chunk is drained: its copies and drops are laid out.
  <1>DrainData. ASSUME ChunkDrain(m)
                PROVE  StoreInv'
    <2> USE <1>DrainData
    <2> DEFINE copies == UNION {CopiesOf(m, b) : b \in mig[m].chunk}
               drops == UNION {DropsOf(m, b) : b \in mig[m].chunk}
    <2>0. Context /\ DOMAIN mig = Migrators /\ DOMAIN mig[m] = MigFields
      BY Stepped DEF Setting, Context
    <2>1. Steady
      BY <2>0, MigratorControl DEF MigrationStep
    <2>2. UNCHANGED <<data, truth, op, entered, frozen, dead, faults, overlay>>
      BY DEF ChunkDrain, Drained, envVars, history, clusterVars
    <2>3. mig' = [mig EXCEPT ![m] = [mig[m] EXCEPT !.pc = "copy", !.copies = copies, !.drops = drops]]
      BY DEF ChunkDrain, Step
    <2> HIDE DEF copies, drops
    <2>4. SameChunk(m) /\ mig'[m].pc = "copy" /\ mig'[m].copies = copies /\ mig'[m].drops = drops
      BY <2>0, <2>3 DEF SameChunk, MigFields
    <2>5. MovingOf(m)'
      <3>1. /\ \A b : CopiesOf(m, b)' = CopiesOf(m, b) /\ DropsOf(m, b)' = DropsOf(m, b)
            /\ \A p, k : Carries(m, p, k)' <=> Carries(m, p, k)
        BY <2>4, <1>SameMoves
      <3>2. copies = UNION {CopiesOf(m, b)' : b \in mig'[m].chunk}
        BY <2>4, <3>1 DEF copies, SameChunk
      <3>3. \A k, p : Carries(m, p, k)' => p \in copies
        BY <3>1 DEF Carries, copies
      <3>4. \A b \in mig'[m].chunk : DropsOf(m, b)' \subseteq drops
        BY <2>4, <3>1 DEF drops, SameChunk
      <3>5. Copying(m)'
        BY <2>4, <3>2, <3>3, <3>4 DEF Copying
      <3> QED BY <2>4, <3>5 DEF MovingOf
    <2>6. ASSUME NEW k \in Keys, faults = 0 PROVE DataOf(k)'
      BY <2>0, <2>1, <2>2, <2>6, KeyStays DEF StoreInv, SamePlan
    <2> QED BY <2>0, <2>2, <2>5, <2>6, <1>OnlyMover DEF StoreInv
  \* The entries of a pair are read, or there are none.
  <1>ExportData. ASSUME NEW p \in mig[m].copies, CopyExport(m, p)
                 PROVE  StoreInv'
    <2> USE <1>ExportData
    <2>0. Context /\ DOMAIN mig = Migrators /\ DOMAIN mig[m] = MigFields
      BY Stepped DEF Setting, Context
    <2>1. Steady
      BY <2>0, MigratorControl DEF MigrationStep
    <2>2. UNCHANGED <<data, truth, op, entered, frozen, dead, faults, overlay>> /\ mig[m].pc = "copy"
      BY DEF CopyExport, gate, envVars, history, clusterVars
    <2>3. ASSUME NEW k \in Keys, faults = 0 PROVE DataOf(k)'
      BY <2>0, <2>1, <2>2, <2>3, KeyStays DEF StoreInv, SamePlan
    <2>4. PICK entries : entries = Exported(m, p)
      OBVIOUS
    <2>5. /\ \A k \in DOMAIN entries :
               k \in Keys /\ Carries(m, p, k) /\ data[p[1]][k] # Absent /\ entries[k] = data[p[1]][k]
          /\ \A k \in Keys : Carries(m, p, k) /\ data[p[1]][k] # Absent => k \in DOMAIN entries
      BY <2>4 DEF Exported, Carries
    <2>6. ASSUME faults = 0 PROVE MovingOf(m)'
      <3>1. Copying(m) /\ mig[m].pc \in Moving
        BY <2>2, <2>6 DEF StoreInv, MovingOf, Moving
      <3>2. ASSUME NEW k \in Keys, Carries(m, p, k)
            PROVE  /\ data[p[1]][k] = Absent => data[p[2]][k] = truth[k]
                   /\ data[p[1]][k] # Absent => data[p[1]][k] = truth[k]
                   /\ p[1] \in clients /\ p[2] \in clients
        <4>1. bucket_of[k] \in mig[m].chunk /\ p \in CopiesOf(m, bucket_of[k])
          BY <3>2 DEF Carries
        <4>2. /\ Between(k) /\ OldSet(bucket_of[k]) \subseteq Nodes /\ p[1] \in OldSet(bucket_of[k])
              /\ p[1] \in clients /\ p[2] \in clients
              /\ data[p[1]][k] = Absent => data[p[2]][k] = truth[k]
          BY SMT, <2>6, <3>1, <4>1, ChunkKey
        <4> QED BY <4>2 DEF Between
      <3>3. CASE Reachable(p[1]) /\ client_of(p[2]) /\ DOMAIN entries # {}
        <4>1. mig' = [mig EXCEPT ![m] = [mig[m] EXCEPT !.pc = "import", !.pair = p, !.entries = entries]]
          BY <2>4, <3>3 DEF CopyExport, Step
        <4>2. /\ SameChunk(m) /\ mig'[m].pc = "import" /\ mig'[m].pair = p /\ mig'[m].entries = entries
              /\ mig'[m].copies = mig[m].copies /\ mig'[m].drops = mig[m].drops
          BY <2>0, <4>1 DEF SameChunk, MigFields
        <4>3. /\ \A b : CopiesOf(m, b)' = CopiesOf(m, b) /\ DropsOf(m, b)' = DropsOf(m, b)
              /\ \A q, k : Carries(m, q, k)' <=> Carries(m, q, k)
          BY <4>2, <1>SameMoves
        <4>4. Copying(m)'
          BY SMT, <2>2, <3>1, <4>2, <4>3 DEF Copying, SameChunk
        <4>5. ASSUME NEW k \in Keys
              PROVE  /\ k \in DOMAIN entries => Carries(m, p, k)' /\ entries[k] = truth[k]
                     /\ Carries(m, p, k)' /\ k \notin DOMAIN entries => data[p[2]][k] = truth[k]
          BY <2>5, <3>2, <4>3
        <4>6. Importing(m)'
          <5>1. \A k : Carries(m, mig[m].pair, k)' <=> Carries(m, p, k)
            BY <4>2, <4>3 DEF Carries, SameChunk, CopiesOf
          <5> QED BY <2>2, <4>2, <4>3, <4>5, <5>1 DEF Importing
        <4> QED BY <4>2, <4>4, <4>6 DEF MovingOf
      <3>4. CASE ~(Reachable(p[1]) /\ client_of(p[2]) /\ DOMAIN entries # {})
        <4>1. mig' = [mig EXCEPT ![m] = [mig[m] EXCEPT !.copies = @ \ {p}]]
          BY <2>4, <3>4 DEF CopyExport, Step
        <4>2. /\ SameChunk(m) /\ mig'[m].pc = "copy" /\ mig'[m].copies = mig[m].copies \ {p} /\ mig'[m].drops = mig[m].drops
          BY <2>0, <2>2, <4>1 DEF SameChunk, MigFields
        <4>3. /\ \A b : CopiesOf(m, b)' = CopiesOf(m, b) /\ DropsOf(m, b)' = DropsOf(m, b)
              /\ \A q, k : Carries(m, q, k)' <=> Carries(m, q, k)
          BY <4>2, <1>SameMoves
        <4>4. ASSUME NEW k \in Keys, Carries(m, p, k) PROVE data[p[2]][k] = truth[k]
          <5>1. dead = {}
            BY <2>0, <3>1, ChunkClosed DEF Setting
          <5>2. DOMAIN entries = {}
            BY ZenonT(60), <3>2, <3>4, <4>4, <5>1 DEF Reachable, client_of
          <5> QED BY <2>5, <3>2, <4>4, <5>2
        <4>5. Copying(m)'
          BY SMT, <2>2, <3>1, <4>2, <4>3, <4>4 DEF Copying, SameChunk
        <4> QED BY <4>2, <4>5 DEF MovingOf
      <3> QED BY <3>3, <3>4
    <2> QED BY <2>0, <2>2, <2>3, <2>6, <1>OnlyMover DEF StoreInv
  \* The entries of a pair arrive.
  <1>ImportData. ASSUME CopyImport(m)
                 PROVE  StoreInv' /\ StoreShape'
    <2> USE <1>ImportData
    <2>0. Context /\ DOMAIN mig = Migrators /\ DOMAIN mig[m] = MigFields
      BY Stepped DEF Setting, Context
    <2>1. UNCHANGED <<clusterVars, truth, op, entered, frozen, dead, faults>> /\ mig[m].pc = "import" /\ mig[m].pc \in Moving
      BY DEF CopyImport, gate, envVars, history, Moving
    <2>2. PICK p, to, entries : p = mig[m].pair /\ to = p[2] /\ entries = mig[m].entries
      OBVIOUS
    <2>3. /\ StoreShape'
          /\ \A n \in Nodes, k \in Keys :
               data'[n][k] = IF n = to /\ Reachable(to) /\ k \in DOMAIN entries THEN entries[k] ELSE data[n][k]
      <3>1. data' = IF Reachable(to) THEN import_entries(to, entries) ELSE data
        BY <2>2 DEF CopyImport
      <3>2. CASE Reachable(to)
        BY <2>1, <3>1, <3>2 DEF import_entries, Setting, StoreShape
      <3>3. CASE ~Reachable(to)
        BY <2>1, <3>1, <3>3 DEF Setting, StoreShape
      <3> QED BY <3>2, <3>3
    <2>4. mig' = [mig EXCEPT ![m] = [mig[m] EXCEPT !.pc = "copy", !.copies = @ \ {p}, !.pair = <<>>, !.entries = <<>>]]
      BY <2>2 DEF CopyImport, NextPair, Step
    <2>5. /\ SameChunk(m) /\ mig'[m].pc = "copy" /\ mig'[m].copies = mig[m].copies \ {p} /\ mig'[m].drops = mig[m].drops
      BY <2>0, <2>4 DEF SameChunk, MigFields
    <2>6. ASSUME faults = 0
          PROVE  (\A k \in Keys : DataOf(k)') /\ MovingOf(m)'
      <3>1. Copying(m) /\ Importing(m)
        BY <2>1, <2>6 DEF StoreInv, MovingOf
      <3>2. dead = {}
        BY <2>0, <2>1, ChunkClosed DEF Setting
      <3>3. ASSUME NEW k \in Keys, k \in DOMAIN entries
            PROVE  Carries(m, p, k) /\ entries[k] = truth[k] /\ Reachable(to) /\ to \in Nodes
        <4>1. Carries(m, p, k) /\ entries[k] = truth[k]
          BY <2>2, <3>1, <3>3 DEF Importing
        <4>2. bucket_of[k] \in mig[m].chunk /\ p \in CopiesOf(m, bucket_of[k])
          BY <4>1 DEF Carries
        <4>3. p[2] \in clients /\ p[2] \in NewSet(bucket_of[k]) /\ NewSet(bucket_of[k]) \subseteq Nodes
          BY <2>1, <2>6, <4>2, ChunkKey
        <4> QED BY <2>2, <3>2, <4>1, <4>3 DEF Reachable, client_of
      <3>4. ASSUME NEW k \in Keys PROVE DataOf(k)'
        <4>1. Closed(bucket_of[k])' <=> Closed(bucket_of[k])
          BY <2>1 DEF Closed, Inside
        <4>2. CASE k \notin DOMAIN entries
          <5>1. truth'[k] = truth[k] /\ \A n \in Nodes : data'[n][k] = data[n][k]
            BY <2>1, <2>3, <4>2
          <5>2. DataOf(k)
            BY <2>6 DEF StoreInv
          <5> QED BY <2>1, <4>1, <5>1, <5>2, <1>KeyUntouched DEF clusterVars
        <4>3. CASE k \in DOMAIN entries
          <5>1. /\ Carries(m, p, k) /\ entries[k] = truth[k] /\ Reachable(to) /\ to \in Nodes
            BY <3>3, <4>3
          <5>2. bucket_of[k] \in mig[m].chunk /\ p \in CopiesOf(m, bucket_of[k])
            BY <5>1 DEF Carries
          <5>3. /\ Closed(bucket_of[k]) /\ Between(k)
                /\ OldSet(bucket_of[k]) \subseteq Nodes /\ NewSet(bucket_of[k]) \subseteq Nodes
                /\ to \in NewSet(bucket_of[k]) \ OldSet(bucket_of[k])
            BY <2>1, <2>2, <2>6, <5>2, ChunkKey
          <5>4. data'[to][k] = truth[k] /\ truth' = truth /\ \A n \in Nodes : n # to => data'[n][k] = data[n][k]
            BY <2>1, <2>3, <4>3, <5>1
          <5>5. OldSet(bucket_of[k])' = OldSet(bucket_of[k]) /\ NewSet(bucket_of[k])' = NewSet(bucket_of[k])
            BY <2>1 DEF OldSet, NewSet, clusterVars
          <5>6. Between(k)'
            BY ZenonT(60), <5>3, <5>4, <5>5 DEF Between
          <5> QED BY <4>1, <5>3, <5>6 DEF DataOf
        <4> QED BY <4>2, <4>3
      <3>5. Copying(m)'
        <4>1. /\ \A b : CopiesOf(m, b)' = CopiesOf(m, b) /\ DropsOf(m, b)' = DropsOf(m, b)
              /\ \A q, k : Carries(m, q, k)' <=> Carries(m, q, k)
          BY <2>5, <1>SameMoves
        <4>2. ASSUME NEW k \in Keys, NEW q \in Nodes \X Nodes, Carries(m, q, k)
              PROVE  q \in mig'[m].copies \/ data'[q[2]][k] = truth'[k]
          <5>1. CASE q = p
            <6>1. to \in Nodes
              BY <2>2, <5>1
            <6>2. CASE k \in DOMAIN entries
              BY ZenonT(60), <2>1, <2>2, <2>3, <3>3, <5>1, <6>1, <6>2
            <6>3. CASE k \notin DOMAIN entries
              <7>1. data[to][k] = truth[k]
                BY <2>2, <3>1, <4>2, <5>1, <6>3 DEF Importing
              <7> QED BY <2>1, <2>2, <2>3, <5>1, <6>1, <6>3, <7>1
            <6> QED BY <6>2, <6>3
          <5>2. CASE q # p
            <6>1. q \in mig[m].copies \/ data[q[2]][k] = truth[k]
              BY <3>1, <4>2 DEF Copying
            <6>2. data[q[2]][k] = truth[k] => data'[q[2]][k] = truth[k]
              BY <2>3, <3>3
            <6> QED BY <2>1, <2>5, <5>2, <6>1, <6>2
          <5> QED BY <5>1, <5>2
        <4> QED BY SMT, <2>5, <3>1, <4>1, <4>2 DEF Copying, SameChunk
      <3> QED BY <2>5, <3>4, <3>5 DEF MovingOf
    <2> QED BY <2>0, <2>1, <2>3, <2>6, <1>OnlyMover DEF StoreInv
  \* The chunk is cut over.
  <1>CutoverData. ASSUME Cutover(m)
                  PROVE  StoreInv'
    <2> USE <1>CutoverData
    <2>0. Context /\ DOMAIN mig = Migrators /\ DOMAIN mig[m] = MigFields
      BY Stepped DEF Setting, Context
    <2>1. Steady
      BY <2>0, MigratorControl DEF MigrationStep
    <2>2. UNCHANGED <<data, truth, op, entered, frozen, dead, faults>> /\ mig[m].pc = "copy" /\ mig[m].pc \in Moving
          /\ overlay' = [overlay EXCEPT !.migrated = @ \cup mig[m].chunk]
      BY DEF Cutover, gate, envVars, history, Moving
    <2>3. overlay'.old = overlay.old /\ overlay'.new = overlay.new
      <3>1. overlay \in Overlays
        BY <2>0, <2>2, ChunkClosed DEF Setting, Context, ControlInv, OverlayInv
      <3> QED BY <2>2, <3>1 DEF Overlays
    <2>4. SameChunk(m) /\ mig'[m].pc = "drop" /\ mig'[m].drops = mig[m].drops
      BY <2>0 DEF Cutover, Step, SameChunk, MigFields
    <2>5. ASSUME NEW k \in Keys, faults = 0 PROVE DataOf(k)'
      BY <2>0, <2>1, <2>2, <2>3, <2>5, KeyStays DEF StoreInv, SamePlan
    <2>6. ASSUME faults = 0 PROVE MovingOf(m)'
      <3>1. Copying(m)
        BY <2>2, <2>6 DEF StoreInv, MovingOf
      <3>2. \A b : DropsOf(m, b)' = DropsOf(m, b) /\ NewSet(b)' = NewSet(b)
        BY <2>3, <2>4, <1>SameMoves DEF NewSet
      <3>3. \A k \in Keys : bucket_of[k] \in mig[m].chunk => \A n \in NewSet(bucket_of[k]) : data[n][k] = truth[k]
        BY <2>6, AllCopied
      <3>4. Dropping(m)'
        BY SMT, <2>2, <2>4, <3>1, <3>2, <3>3 DEF Dropping, SameChunk, Copying
      <3> QED BY <2>4, <3>4 DEF MovingOf
    <2> QED BY <2>0, <2>2, <2>5, <2>6, <1>OnlyMover DEF StoreInv
  \* A node drops what it does not own any more.
  <1>DropData. ASSUME NEW n \in mig[m].drops, DropBuckets(m, n)
               PROVE  StoreInv' /\ StoreShape'
    <2> USE <1>DropData
    <2>0. Context /\ DOMAIN mig = Migrators /\ DOMAIN mig[m] = MigFields
      BY Stepped DEF Setting, Context
    <2>1. UNCHANGED <<clusterVars, truth, op, entered, frozen, dead, faults>> /\ mig[m].pc = "drop" /\ mig[m].pc \in Moving
      BY DEF DropBuckets, gate, envVars, history, Moving
    <2>2. PICK bs : bs = {b \in mig[m].chunk : n \in DropsOf(m, b)}
      OBVIOUS
    <2>3. /\ StoreShape'
          /\ \A i \in Nodes, k \in Keys :
               data'[i][k] = IF i = n /\ Reachable(n) /\ bucket_of[k] \in bs THEN Absent ELSE data[i][k]
      <3>1. data' = IF Reachable(n) THEN drop_buckets(n, bs) ELSE data
        BY <2>2 DEF DropBuckets
      <3>2. CASE Reachable(n)
        BY <2>1, <3>1, <3>2 DEF drop_buckets, Setting, StoreShape
      <3>3. CASE ~Reachable(n)
        BY <2>1, <3>1, <3>3 DEF Setting, StoreShape
      <3> QED BY <3>2, <3>3
    <2>4. SameChunk(m) /\ mig'[m].pc = "drop" /\ mig'[m].drops = mig[m].drops \ {n}
      BY <2>0, <2>1 DEF DropBuckets, Step, SameChunk, MigFields
    <2>5. ASSUME faults = 0
          PROVE  (\A k \in Keys : DataOf(k)') /\ MovingOf(m)'
      <3>1. Dropping(m)
        BY <2>1, <2>5 DEF StoreInv, MovingOf
      <3>2. dead = {}
        BY <2>0, <2>1, ChunkClosed DEF Setting
      <3>3. ASSUME NEW k \in Keys, bucket_of[k] \in mig[m].chunk
            PROVE  /\ Closed(bucket_of[k]) /\ Between(k)
                   /\ OldSet(bucket_of[k]) \subseteq Nodes /\ NewSet(bucket_of[k]) \subseteq Nodes
                   /\ DropsOf(m, bucket_of[k]) = OldSet(bucket_of[k]) \ NewSet(bucket_of[k])
                   /\ bucket_of[k] \in bs => n \in OldSet(bucket_of[k]) \ NewSet(bucket_of[k]) /\ Reachable(n)
        <4>1. /\ Closed(bucket_of[k]) /\ Between(k)
              /\ OldSet(bucket_of[k]) \subseteq Nodes /\ NewSet(bucket_of[k]) \subseteq Nodes
              /\ DropsOf(m, bucket_of[k]) = OldSet(bucket_of[k]) \ NewSet(bucket_of[k])
              /\ DropsOf(m, bucket_of[k]) \subseteq clients
          BY <2>1, <2>5, <3>3, ChunkKey
        <4> QED BY <2>2, <3>2, <4>1 DEF Reachable, client_of
      <3>4. ASSUME NEW k \in Keys PROVE DataOf(k)'
        <4>1. Closed(bucket_of[k])' <=> Closed(bucket_of[k])
          BY <2>1 DEF Closed, Inside
        <4>2. CASE bucket_of[k] \notin bs
          <5>1. truth'[k] = truth[k] /\ \A i \in Nodes : data'[i][k] = data[i][k]
            BY <2>1, <2>3, <4>2
          <5>2. DataOf(k)
            BY <2>5 DEF StoreInv
          <5> QED BY <2>1, <4>1, <5>1, <5>2, <1>KeyUntouched DEF clusterVars
        <4>3. CASE bucket_of[k] \in bs
          <5>1. bucket_of[k] \in mig[m].chunk
            BY <2>2, <4>3
          <5>2. /\ Closed(bucket_of[k]) /\ Between(k)
                /\ OldSet(bucket_of[k]) \subseteq Nodes /\ NewSet(bucket_of[k]) \subseteq Nodes
                /\ n \in OldSet(bucket_of[k]) \ NewSet(bucket_of[k]) /\ Reachable(n)
            BY <3>3, <4>3, <5>1
          <5>3. \A i \in NewSet(bucket_of[k]) : data[i][k] = truth[k]
            BY <3>1, <5>1 DEF Dropping
          <5>4. data'[n][k] = Absent /\ truth' = truth /\ \A i \in Nodes : i # n => data'[i][k] = data[i][k]
            BY <2>1, <2>3, <4>3, <5>2
          <5>5. OldSet(bucket_of[k])' = OldSet(bucket_of[k]) /\ NewSet(bucket_of[k])' = NewSet(bucket_of[k])
            BY <2>1 DEF OldSet, NewSet, clusterVars
          <5>6. Between(k)'
            BY <5>2, <5>3, <5>4, <5>5 DEF Between
          <5> QED BY <4>1, <5>2, <5>6 DEF DataOf
        <4> QED BY <4>2, <4>3
      <3>5. Dropping(m)'
        <4>1. \A b : DropsOf(m, b)' = DropsOf(m, b) /\ NewSet(b)' = NewSet(b)
          BY <2>1, <2>4, <1>SameMoves DEF NewSet, clusterVars
        <4>2. ASSUME NEW k \in Keys, bucket_of[k] \in mig[m].chunk
              PROVE  /\ \A i \in NewSet(bucket_of[k]) : data'[i][k] = truth'[k]
                     /\ \A i \in DropsOf(m, bucket_of[k]) : i \in mig'[m].drops \/ data'[i][k] = Absent
          <5>1. \A i \in NewSet(bucket_of[k]) : data'[i][k] = truth'[k]
            BY <2>1, <2>3, <3>1, <3>3, <4>2 DEF Dropping
          <5>2. ASSUME NEW i \in DropsOf(m, bucket_of[k]) PROVE i \in mig'[m].drops \/ data'[i][k] = Absent
            <6>1. i \in Nodes /\ (i \in mig[m].drops \/ data[i][k] = Absent)
              BY <3>1, <3>3, <4>2 DEF Dropping
            <6>2. CASE i = n
              BY <2>2, <2>3, <3>3, <4>2, <6>1, <6>2
            <6>3. CASE i # n
              BY <2>3, <2>4, <6>1, <6>3
            <6> QED BY <6>2, <6>3
          <5> QED BY <5>1, <5>2
        <4> QED BY <2>4, <4>1, <4>2 DEF Dropping, SameChunk
      <3> QED BY <2>4, <3>4, <3>5 DEF MovingOf
    <2> QED BY <2>0, <2>1, <2>3, <2>5, <1>OnlyMover DEF StoreInv
  \* The chunk is open again: its keys are on their new owners alone.
  <1>ThawData. ASSUME ChunkDone(m)
               PROVE  StoreInv'
    <2> USE <1>ThawData
    <2>0. Context /\ DOMAIN mig = Migrators /\ DOMAIN mig[m] = MigFields
          /\ Phase(mig[m])
      BY Stepped DEF Setting, Context
    <2>1. /\ UNCHANGED <<partitioner, replication, overlay, data, truth, op, entered, dead, faults>>
          /\ frozen' = frozen \ mig[m].chunk /\ mig[m].pc = "drop" /\ mig[m].pc \in Moving /\ mig[m].drops = {}
      BY DEF ChunkDone, Unfreeze, envVars, history, Moving
    <2>2. mig'[m].pc = "chunk"
      <3> DEFINE done == mig[m].done \cup mig[m].chunk
                 todo == mig[m].todo \ mig[m].chunk
      <3>1. mig' = [mig EXCEPT ![m] = [mig[m] EXCEPT !.pc = "chunk", !.done = done, !.todo = todo, !.chunk = {}]]
        BY DEF ChunkDone, Step
      <3> HIDE DEF done, todo
      <3> QED BY <2>0, <3>1 DEF MigFields
    <2>3. \A n \in Migrators : MovingOf(n)'
      BY <2>0, <2>2, <1>NotMoving DEF Moving
    <2>4. ASSUME NEW k \in Keys, faults = 0 PROVE DataOf(k)'
      <3> DEFINE b == bucket_of[k]
      <3>1. CASE b \notin mig[m].chunk
        <4>1. Closed(b)' <=> Closed(b)
          BY <2>1, <3>1 DEF Closed, Inside
        <4>2. DataOf(k)
          BY <2>4 DEF StoreInv
        <4> QED BY <2>1, <4>1, <4>2, <1>KeyUntouched
      <3>2. CASE b \in mig[m].chunk
        <4>1. /\ b \in Buckets /\ Closed(b) /\ Between(k) /\ OldSet(b) \subseteq Nodes /\ NewSet(b) \subseteq Nodes
              /\ DropsOf(m, b) = OldSet(b) \ NewSet(b)
          BY <2>1, <2>4, <3>2, ChunkKey
        <4>2. ~Closed(b)'
          BY <2>1, <3>2 DEF Closed
        <4>3. \A o \in Ops : ~WritingKey(o, k)
          BY <2>0, <4>1, ClosedQuiet DEF Closed, Setting, Context
        <4>4. Home(k) = NewSet(b)
          <5>1. overlay # None /\ b \in overlay.migrated
            BY <2>0, <2>1, <3>2, ChunkClosed DEF Phase, Working, AtWork, Setting
          <5> QED BY <2>0, <4>1, <5>1, RouteIs DEF Home, NewSet
        <4>5. Dropping(m)
          BY <2>1, <2>4 DEF StoreInv, MovingOf
        <4>6. \A n \in NewSet(b) : data[n][k] = truth[k]
          BY <3>2, <4>5 DEF Dropping
        <4>7. \A n \in Nodes \ NewSet(b) : data[n][k] = Absent
          BY <2>1, <3>2, <4>1, <4>5 DEF Dropping, Between
        <4>8. Home(k)' = Home(k) /\ \A o \in Ops : ~WritingKey(o, k)'
          BY <2>1, <4>3 DEF Home, Route, OverlayOwners, CommittedOwners, WritingKey
        <4>9. Settled(k)'
          BY <2>1, <4>4, <4>6, <4>7, <4>8 DEF Settled
        <4> QED BY <4>2, <4>9 DEF DataOf
      <3> QED BY <3>1, <3>2
    <2> QED BY <2>1, <2>3, <2>4 DEF StoreInv
  <1>1. UNCHANGED op
    BY MigratorControl DEF Setting
  <1>2. SerialInv'
    BY <1>1 DEF Setting, SerialInv, WritingKey
  <1>3. truth' = truth
    BY DEF MigrationStart, rebalance, apply_membership, rebalance_partial, drain, Start,
       resume_migration, MigrationStep,
       ReadMembers, InstallOverlay, StopEarly, ChunkFreeze, ChunkDrain, CopyExport, CopyImport, CopyFault, Cutover,
       DropBuckets, DropFault, ChunkDone, CommitEpoch, CommitNodes, CommitReplication, CommitClients, DropOverlay,
       MigrationCancel, history
  <1>4. CASE CopyImport(m)
    BY <1>2, <1>4, <1>ImportData
  <1>5. ASSUME NEW n \in mig[m].drops, DropBuckets(m, n) PROVE StoreInv' /\ StoreShape'
    BY <1>5, <1>DropData
  <1>6. CASE ~CopyImport(m) /\ ~\E n \in mig[m].drops : DropBuckets(m, n)
    <2>1. data' = data
      BY <1>6 DEF MigrationStart, rebalance, apply_membership, rebalance_partial, drain, Start,
         resume_migration, MigrationStep,
         ReadMembers, InstallOverlay, StopEarly, ChunkFreeze, ChunkDrain, CopyExport, CopyFault, Cutover, DropFault,
         ChunkDone, CommitEpoch, CommitNodes, CommitReplication, CommitClients, DropOverlay, MigrationCancel
    <2>2. StoreShape'
      BY <1>3, <2>1 DEF Setting, StoreShape
    <2>3. ASSUME CopyFault(m) \/ \E n \in mig[m].drops : DropFault(m, n) PROVE StoreInv'
      <3>1. faults \in Nat /\ faults' = faults + 1
        BY <2>3 DEF CopyFault, DropFault, Setting, ReachInv
      <3> QED BY SMT, <3>1 DEF StoreInv
    <2>4. StoreInv'
      BY <1>6, <2>3, <1>QuietData, <1>FreezeData, <1>DrainData, <1>ExportData, <1>CutoverData,
         <1>ThawData, ZenonT(60) DEF MigrationStep
    <2> QED BY <1>2, <2>2, <2>4
  <1> QED BY <1>2, <1>4, <1>5, <1>6

\* DataInv is inductive.
LEMMA DataStep ==
  ASSUME DataInv, [Next]_vars
  PROVE  DataInv'
PROOF
  \* Every node that an operation or a migration may call keeps its client.
  <1>ReachStep. ASSUME Context, Careful, ReachInv
                PROVE  ReachInv'
    <2> USE <1>ReachStep
    \* A step that moves neither members nor clients.
    <2>ReachKept. ASSUME UNCHANGED <<down, dead, partitioner, clients, overlay, started, mig>>,
                         faults' \in {faults, faults + 1}
                  PROVE  ReachInv'
      BY SMT, <2>ReachKept DEF ReachInv
    \* A migration that starts names nodes with a client; what a shard's death or a
    \* commit takes away is not an owner.
    <2>ReachMigrator. ASSUME NEW m \in Migrators,
                             \/ MigrationStart(m) \/ MigrationStep(m) \/ CopyFault(m) \/ MigrationCancel(m)
                             \/ \E n \in mig[m].drops : DropFault(m, n)
                      PROVE  ReachInv'
      <3> USE <2>ReachMigrator
      <3>0. /\ \A n \in Migrators : n = m
            /\ DOMAIN mig = Migrators /\ DOMAIN mig[m] = MigFields /\ Phase(mig[m])
            /\ MaxMigrations \in Nat
        BY Stepped, MigrationAssumption DEF Context, Orderly
      <3>1. CASE MigrationStart(m)
        <4>1. /\ started' = started + 1 /\ started < MaxMigrations /\ mig[m].pc = "idle"
              /\ UNCHANGED <<down, dead, partitioner, overlay, faults>>
          BY <3>1 DEF MigrationStart, rebalance, apply_membership, rebalance_partial, drain, Start,
             resume_migration, clusterVars
        <4>2. MaxMigrations # 0
          BY SMT, <3>0, <4>1 DEF ReachInv
        <4>3. clients \subseteq clients' /\ mig'[m].pc \in {"read", "lock"} /\ mig'[m].new \subseteq clients'
          <5>1. CASE resume_migration(m)
            <6>1. /\ mig' = [mig EXCEPT ![m] = [IdleMig EXCEPT !.pc = "lock", !.old = journal.old, !.new = journal.new,
                                                               !.done = journal.done]]
                  /\ journal # None /\ clients' = clients
              BY <5>1 DEF resume_migration, Step, clusterVars
            <6>2. mig'[m].pc = "lock" /\ mig'[m].new = journal.new
              BY <3>0, <6>1 DEF IdleMig
            <6>3. overlay # None /\ journal.new = overlay.new
              BY <6>1 DEF Context, ControlInv, JournalInv
            <6> QED BY <6>1, <6>2, <6>3 DEF ReachInv
          <5>2. ASSUME NEW new, NEW stop, Start(m, new, stop) PROVE mig'[m].pc = "read" /\ mig'[m].new = new
            <6>1. mig' = [mig EXCEPT ![m] = [IdleMig EXCEPT !.pc = "read", !.new = new, !.stop = stop]]
              BY <5>2 DEF Start, Step
            <6> QED BY <3>0, <6>1 DEF IdleMig
          <5>3. CASE ~resume_migration(m)
            <6>1. PICK new, stop : /\ Start(m, new, stop)
                                   /\ (clients' = clients /\ new \subseteq clients) \/ clients' = clients \cup new
              BY <3>1, <5>3 DEF MigrationStart, rebalance, apply_membership, rebalance_partial, drain,
                 Careful, ReachInv
            <6> QED BY <5>2, <6>1
          <5> QED BY <5>1, <5>3
        <4> QED BY SMT, <3>0, <4>1, <4>2, <4>3 DEF ReachInv
      <3>2. CASE InstallOverlay(m)
        <4>1. /\ UNCHANGED <<down, dead, partitioner, clients, started, faults>> /\ mig[m].pc = "lock" /\ migrating = None
          BY <3>2 DEF InstallOverlay, envVars
        <4>2. mig'[m].pc \in {"nodes", "chunk"} /\ mig'[m].new = mig[m].new
          <5> DEFINE todo == Moved(mig[m].old, mig[m].new, ReplTarget) \ mig[m].done
          <5>1. \/ mig' = [mig EXCEPT ![m] = [mig[m] EXCEPT !.pc = "nodes"]]
                \/ mig' = [mig EXCEPT ![m] = [mig[m] EXCEPT !.pc = "chunk", !.todo = todo]]
            BY <3>2 DEF InstallOverlay, Step
          <5> HIDE DEF todo
          <5> QED BY <3>0, <5>1 DEF MigFields
        <4>3. mig[m].old = partitioner
          BY <3>0, <4>1 DEF Phase, AtLock, Context, ControlInv, RestInv, JournalInv
        <4>4. overlay' = overlay \/ (overlay'.old = partitioner /\ overlay'.new = mig[m].new)
          BY SMT, <3>2, <4>3 DEF InstallOverlay
        <4> QED BY <3>0, <4>1, <4>2, <4>4 DEF ReachInv
      <3>3. CASE CommitNodes(m) \/ CommitClients(m) \/ DropOverlay(m)
        <4>1. /\ UNCHANGED <<dead, started, faults>> /\ mig[m].pc \in {"nodes", "clients", "close"} /\ MaxMigrations # 0
              /\ overlay' \in {overlay, None} /\ down' \subseteq down
          BY <3>3 DEF CommitNodes, CommitClients, DropOverlay, envVars, ReachInv
        <4>2. CASE CommitNodes(m)
          <5>1. /\ partitioner' = mig[m].new /\ clients' = clients /\ overlay' = overlay
                /\ mig'[m].pc = "replication" /\ mig'[m].new = mig[m].new
            BY <3>0, <4>2 DEF CommitNodes, Step, MigFields
          <5> QED BY <3>0, <4>1, <4>2, <5>1 DEF ReachInv, CommitNodes
        <4>3. CASE CommitClients(m)
          <5>1. /\ partitioner' = partitioner /\ overlay' = overlay /\ clients' = clients \cap mig[m].new
                /\ AtCommit(mig[m]) /\ mig[m].pc = "clients"
            BY <3>0, <4>3 DEF CommitClients, Phase, Committing
          <5>2. partitioner = mig[m].new /\ (overlay # None => overlay.new = mig[m].new /\ mig[m].old # mig[m].new)
            BY <5>1 DEF AtCommit
          <5>3. \/ mig[m].old = mig[m].new /\ mig'[m].pc = "idle"
                \/ mig[m].old # mig[m].new /\ mig'[m].pc = "close" /\ mig'[m].new = mig[m].new
            BY SMT, <3>0, <4>3 DEF CommitClients, Step, MigFields, IdleMig
          <5> QED BY <3>0, <4>1, <5>1, <5>2, <5>3 DEF ReachInv
        <4>4. CASE DropOverlay(m)
          <5>1. partitioner' = partitioner /\ overlay' = None /\ clients' = clients /\ mig'[m].pc = "idle"
            BY <3>0, <4>4 DEF DropOverlay, Step, IdleMig
          <5> QED BY <3>0, <4>1, <5>1 DEF ReachInv
        <4> QED BY <3>3, <4>2, <4>3, <4>4
      <3>4. CASE ~(MigrationStart(m) \/ InstallOverlay(m) \/ CommitNodes(m) \/ CommitClients(m) \/ DropOverlay(m))
        <4>1. /\ UNCHANGED <<down, dead, partitioner, clients, started>> /\ mig[m].pc # "idle" /\ mig[m].pc # "close"
              /\ faults' \in {faults, faults + 1}
          BY <3>4 DEF MigrationStep, ReadMembers, StopEarly, ChunkFreeze, ChunkDrain, CopyExport,
             CopyImport, CopyFault,
                      Cutover, DropBuckets, DropFault, ChunkDone, CommitEpoch, CommitReplication, MigrationCancel,
                      clusterVars, envVars
        <4>2. overlay' = overlay \/ (Cutover(m) /\ overlay' = [overlay EXCEPT !.migrated = @ \cup mig[m].chunk])
          BY <3>4 DEF MigrationStep, ReadMembers, StopEarly, ChunkFreeze, ChunkDrain, CopyExport,
             CopyImport, CopyFault,
                      Cutover, DropBuckets, DropFault, ChunkDone, CommitEpoch, CommitReplication, MigrationCancel,
                      clusterVars, envVars
        <4>3. overlay' # None => overlay # None /\ overlay'.old = overlay.old /\ overlay'.new = overlay.new
          <5>1. Cutover(m) => overlay \in Overlays
            BY <3>0 DEF Cutover, Phase, AtWork, Working, Context, ControlInv, OverlayInv, JournalInv
          <5>2. overlay \in Overlays => overlay # None
            BY MigrationAssumption DEF Context
          <5> QED BY <4>2, <5>1, <5>2 DEF Overlays
        <4>4. mig'[m].pc # "idle" => mig'[m].new = mig[m].new /\ mig'[m].pc # "close"
          <5>1. CASE StopEarly(m) \/ MigrationCancel(m)
            BY SMT, <3>0, <5>1 DEF StopEarly, MigrationCancel, Step, IdleMig
          <5>2. CASE ReadMembers(m) \/ ChunkDrain(m) \/ CopyImport(m) \/ CopyFault(m) \/ Cutover(m) \/ CommitEpoch(m) \/ CommitReplication(m)
            BY ZenonT(60), <3>0, <5>2 DEF ReadMembers, ChunkDrain, CopyImport, CopyFault, NextPair, Cutover,
               CommitEpoch, CommitReplication,
                              Step, MigFields
          <5>3. CASE \E n \in mig[m].drops : DropBuckets(m, n) \/ DropFault(m, n)
            BY SMT, <3>0, <5>3 DEF DropBuckets, DropFault, Step, MigFields
          <5>4. CASE ChunkFreeze(m) \/ ChunkDone(m) \/ \E p \in mig[m].copies : CopyExport(m, p)
            <6> DEFINE chunk == NextChunk(mig[m].todo)
                       stop == IF mig[m].stop = None THEN None ELSE mig[m].stop - 1
                       done == mig[m].done \cup mig[m].chunk
                       todo == mig[m].todo \ mig[m].chunk
            <6>1. \/ mig' = [mig EXCEPT ![m] = [mig[m] EXCEPT !.pc = "drain", !.chunk = chunk, !.stop = stop]]
                  \/ mig' = [mig EXCEPT ![m] = [mig[m] EXCEPT !.pc = "chunk", !.done = done, !.todo = todo, !.chunk = {}]]
                  \/ \E p, e : mig' = [mig EXCEPT ![m] = [mig[m] EXCEPT !.pc = "import", !.pair = p, !.entries = e]]
                  \/ \E c : mig' = [mig EXCEPT ![m] = [mig[m] EXCEPT !.copies = c]]
              BY <5>4 DEF ChunkFreeze, ChunkDone, CopyExport, Step
            <6> HIDE DEF chunk, stop, done, todo
            <6> QED BY ZenonT(60), <3>0, <4>1, <6>1 DEF MigFields
          <5> QED BY ZenonT(60), <3>4, <5>1, <5>2, <5>3, <5>4 DEF MigrationStep
        <4> QED BY SMT, <3>0, <4>1, <4>3, <4>4 DEF ReachInv
      <3> QED BY <3>1, <3>2, <3>3, <3>4
    <2>1. ASSUME NEW o \in Ops,
                 \/ \E kind \in Kinds, k \in Keys : \E a \in Arguments(kind) : Begin(o, kind, k, a[1], a[2])
                 \/ OpStep(o) \/ RmwReplyLost(o)
          PROVE  ReachInv'
      <3>1. UNCHANGED <<clusterVars, mig, dead, started>>
        BY <2>1 DEF Begin, OpStep, ReadOverlay, ReadPartitioner, GetCall, ReadDone, BroadcastCall,
           WriteDone,
                    RmwPrimary, ReplicaCall, RmwReplyLost, envVars
      <3>2. faults' \in {faults, faults + 1}
        BY <2>1 DEF Begin, OpStep, ReadOverlay, ReadPartitioner, GetCall, ReadDone, BroadcastCall,
           WriteDone,
                    RmwPrimary, ReplicaCall, RmwReplyLost, envVars
      <3> QED BY <3>1, <3>2, <2>ReachKept DEF clusterVars
    <2>2. ASSUME NEW m \in Migrators,
                 \/ MigrationStart(m) \/ MigrationStep(m) \/ CopyFault(m) \/ MigrationCancel(m)
                 \/ \E n \in mig[m].drops : DropFault(m, n)
          PROVE  ReachInv'
      BY <2>2, <2>ReachMigrator
    <2>3. ASSUME NEW n, add_node(n) PROVE ReachInv'
      BY <2>3 DEF add_node, envVars, ReachInv
    <2>4. ASSUME NEW n \in Nodes, NodeDies(n) PROVE ReachInv'
      <3>1. MaxDead # 0
        <4>1. Cardinality({}) = 0
          BY FS_EmptySet
        <4> QED BY SMT, <2>4, <4>1 DEF NodeDies, ReachInv
      <3> QED BY <2>4, <3>1 DEF NodeDies, clusterVars, ReachInv
    <2>5. ASSUME NEW n \in Nodes, mark_down(n) PROVE ReachInv'
      BY <2>5 DEF mark_down, envVars, ReachInv
    <2>6. ASSUME NEW members \in SUBSET Nodes, Restart(members) PROVE ReachInv'
      <3>1. /\ partitioner' = members /\ clients' = members /\ overlay' = None /\ down' = {} /\ UNCHANGED <<dead, started>>
            /\ faults' = faults + 1 /\ members \in {partitioner, InitialMembers}
        BY <2>6 DEF Restart, RestartedWith
      <3>2. \A m \in Migrators : mig'[m].pc = "idle"
        BY <2>6 DEF Restart, IdleMig
      <3> QED BY SMT, <3>1, <3>2 DEF ReachInv
    <2>7. ASSUME UNCHANGED vars PROVE ReachInv'
      BY <2>7, <2>ReachKept DEF vars, clusterVars, envVars
    <2> QED BY <2>1, <2>2, <2>3, <2>4, <2>5, <2>6, <2>7, ZenonT(60) DEF Next
  \* A shard dies, is marked down, or a client is added; or nothing happens.
  <1>OutsideData. ASSUME Setting, StoreInv, RouteInv',
                         \/ \E n \in Nodes \cup UNION Targets : add_node(n) \/ NodeDies(n) \/ mark_down(n)
                         \/ UNCHANGED vars
                  PROVE  StoreInv' /\ SerialInv' /\ StoreShape'
    <2> USE <1>OutsideData
    <2>1. UNCHANGED <<partitioner, replication, journal, overlay, migrating, mig, gate, op, data, faults, truth>>
      BY DEF add_node, NodeDies, mark_down, vars, clusterVars, envVars, history
    <2>2. dead \subseteq dead' /\ frozen' = frozen /\ entered' = entered
      BY <2>1 DEF add_node, NodeDies, mark_down, vars, envVars, gate
    <2>3. Steady
      <3>1. \A b \in frozen : Inside(b)' => Inside(b)
        BY <2>2 DEF Inside
      <3> QED BY <2>1, <2>2, <3>1, ControlKept DEF Setting
    <2>4. ASSUME NEW k \in Keys, faults = 0 PROVE DataOf(k)'
      BY ZenonT(60), <2>1, <2>2, <2>3, <2>4, KeyStays DEF Setting, Context, StoreInv, SamePlan
    <2>5. ASSUME NEW m \in Migrators, faults = 0 PROVE MovingOf(m)'
      <3>1. MovingOf(m)
        BY <2>5 DEF StoreInv
      <3> QED BY SMT, <2>1, <3>1
              DEF MovingOf, Copying, Importing, Dropping, Carries, CopiesOf, DropsOf, NewSet
    <2> QED BY <2>1, <2>4, <2>5 DEF StoreInv, Setting, SerialInv, StoreShape, WritingKey
  \* A restart ends every call.
  <1>RestartData. ASSUME Setting, NEW members \in SUBSET Nodes, Restart(members)
                  PROVE  StoreInv' /\ SerialInv' /\ StoreShape'
    <2> USE <1>RestartData
    <2>1. faults \in Nat /\ faults' = faults + 1 /\ UNCHANGED <<data, truth>> /\ \A o \in Ops : op'[o] = IdleOp
      BY DEF Restart, Setting, ReachInv
    <2>2. faults' # 0
      BY SMT, <2>1
    <2>3. \A o \in Ops, k \in Keys : ~WritingKey(o, k)'
      BY <2>1, IdleForm DEF WritingKey
    <2> QED BY <2>1, <2>2, <2>3 DEF StoreInv, SerialInv, StoreShape, Setting
  <1>0. Setting /\ StoreInv /\ RouteInv
    BY DEF DataInv, RouteInv, Setting, Context
  <1>1. RouteInv' /\ ReachInv' /\ Careful'
    BY <1>0, RouteStep, <1>ReachStep DEF Setting, Careful
  <1>2. ASSUME NEW o \in Ops,
               \/ \E kind \in Kinds, k \in Keys : \E a \in Arguments(kind) : Begin(o, kind, k, a[1], a[2])
               \/ OpStep(o) \/ RmwReplyLost(o)
        PROVE  StoreInv' /\ SerialInv' /\ StoreShape'
    <2>1. ExclusionInv' /\ OpInv'
      BY <1>1 DEF RouteInv
    <2> QED BY <1>0, <1>2, <2>1, OpData
  <1>3. ASSUME NEW m \in Migrators,
               \/ MigrationStart(m) \/ MigrationStep(m) \/ CopyFault(m) \/ MigrationCancel(m)
               \/ \E n \in mig[m].drops : DropFault(m, n)
        PROVE  StoreInv' /\ SerialInv' /\ StoreShape'
    BY <1>0, <1>3, MigratorData
  <1>4. ASSUME \/ \E n \in Nodes \cup UNION Targets : add_node(n) \/ NodeDies(n) \/ mark_down(n)
               \/ UNCHANGED vars
        PROVE  StoreInv' /\ SerialInv' /\ StoreShape'
    BY <1>0, <1>1, <1>4, <1>OutsideData
  <1>5. ASSUME NEW members \in SUBSET Nodes, Restart(members)
        PROVE  StoreInv' /\ SerialInv' /\ StoreShape'
    BY <1>0, <1>5, <1>RestartData
  <1>6. StoreInv' /\ SerialInv' /\ StoreShape'
    BY <1>2, <1>3, <1>4, <1>5, ZenonT(60) DEF Next
  <1> QED BY <1>1, <1>6 DEF DataInv

\* DataInv holds initially.
LEMMA DataInit ==
  ASSUME Orderly, Careful, Init
  PROVE  DataInv
PROOF
  <1>1. RouteInv
    BY RouteInit
  <1>2. /\ \A o \in Ops : op[o] = IdleOp
        /\ \A m \in Migrators : mig[m].pc = "idle"
    BY DEF Init, IdleMig
  <1>3. ReachInv
    BY <1>2 DEF Init, ReachInv
  <1>4. StoreShape
    BY DEF Init, StoreShape
  <1>5. \A o \in Ops, k \in Keys : ~WritingKey(o, k)
    BY <1>2, IdleForm DEF WritingKey
  <1>6. ASSUME NEW k \in Keys PROVE DataOf(k)
    <2>1. ~Closed(bucket_of[k])
      BY DEF Init, GateInit, Closed
    <2>2. Home(k) \subseteq Nodes
      <3>1. bucket_of[k] \in Buckets /\ Context
        BY <1>1, PlacementAssumption DEF RouteInv, Context
      <3> QED BY <3>1, OwnerLists DEF Home
    <2>3. \A n \in Nodes : data[n][k] = truth[k] /\ data[n][k] = Absent
      BY DEF Init
    <2> QED BY <1>5, <2>1, <2>2, <2>3 DEF DataOf, Settled
  <1>7. \A m \in Migrators : MovingOf(m)
    BY <1>2 DEF MovingOf
  <1> QED BY <1>1, <1>3, <1>4, <1>5, <1>6, <1>7 DEF DataInv, SerialInv, StoreInv

(***************************************************************************)
(* OwnersHoldData: every reachable owner holds the last acknowledged value *)
(* of a key at rest, whatever rebalance, cutover, drop, cancellation,      *)
(* resume or stop after a chunk has gone before.                           *)
(***************************************************************************)
THEOREM AcknowledgedDataIsKept == Orderly /\ Careful /\ Spec => []OwnersHoldData
PROOF
  <1>1. Orderly /\ Careful /\ Init => DataInv
    BY DataInit
  <1>2. DataInv /\ [Next]_vars => DataInv'
    BY DataStep
  <1>3. DataInv => OwnersHoldData
    <2> SUFFICES ASSUME DataInv, faults = 0, NEW k \in Keys, bucket_of[k] \notin frozen, \A o \in Ops : ~WritingKey(o, k)
                 PROVE  \A n \in Range(owners(k)) \ dead : data[n][k] = truth[k]
      BY DEF OwnersHoldData
    <2>1. ~Closed(bucket_of[k]) /\ DataOf(k)
      BY DEF Closed, DataInv, StoreInv
    <2>2. Range(owners(k)) = Home(k)
      BY DEF owners, Home, Route
    <2> QED BY <2>1, <2>2 DEF DataOf, Settled
  <1> QED BY <1>1, <1>2, <1>3, PTL DEF Spec

\* no call fails
Faultless == MaxFaults = 0 /\ faults = 0

\* Every failure is counted.
LEMMA FaultlessStep ==
  ASSUME Faultless, [Next]_vars
  PROVE  Faultless'
PROOF
  <1>1. \A o : ~RmwReplyLost(o)
    BY SMT DEF Faultless, RmwReplyLost
  <1>2. \A m, n : ~CopyFault(m) /\ ~DropFault(m, n)
    BY SMTT(30) DEF Faultless, CopyFault, DropFault
  <1>3. \A members : ~Restart(members)
    BY SMT DEF Faultless, Restart
  <1>4. ASSUME NEW o \in Ops,
               \/ \E kind \in Kinds, k \in Keys : \E a \in Arguments(kind) : Begin(o, kind, k, a[1], a[2])
               \/ OpStep(o) \/ RmwReplyLost(o)
        PROVE  faults' = faults
    BY <1>1, <1>4 DEF Begin, OpStep, ReadOverlay, ReadPartitioner, GetCall, ReadDone, BroadcastCall,
       WriteDone,
                      RmwPrimary, ReplicaCall, envVars
  <1>5. ASSUME NEW m \in Migrators,
               \/ MigrationStart(m) \/ MigrationStep(m) \/ CopyFault(m) \/ MigrationCancel(m)
               \/ \E n \in mig[m].drops : DropFault(m, n)
        PROVE  faults' = faults
    BY <1>2, <1>5 DEF MigrationStart, rebalance, apply_membership, rebalance_partial, drain, Start,
       resume_migration,
       MigrationStep, ReadMembers, InstallOverlay, StopEarly, ChunkFreeze, ChunkDrain, CopyExport, CopyImport, Cutover,
       DropBuckets, ChunkDone, CommitEpoch, CommitNodes, CommitReplication, CommitClients, DropOverlay,
       MigrationCancel, envVars
  <1>6. ASSUME \/ \E n \in Nodes \cup UNION Targets : add_node(n) \/ NodeDies(n) \/ mark_down(n)
               \/ UNCHANGED vars
        PROVE  faults' = faults
    BY <1>6 DEF add_node, NodeDies, mark_down, vars, envVars
  <1>7. faults' = faults
    BY <1>3, <1>4, <1>5, <1>6, ZenonT(60) DEF Next
  <1> QED BY ZenonT(60), <1>7 DEF Faultless

(***************************************************************************)
(* NoOrphans: without failed calls, the drops of every rebalance remove    *)
(* all that its cutovers leave behind.                                     *)
(***************************************************************************)
THEOREM DropsAreComplete == Orderly /\ Careful /\ MaxFaults = 0 /\ Spec => []NoOrphans
PROOF
  <1>1. Orderly /\ Careful /\ MaxFaults = 0 /\ Init => DataInv /\ Faultless
    BY DataInit DEF Init, Faultless
  <1>2. DataInv /\ Faultless /\ [Next]_vars => DataInv' /\ Faultless'
    BY DataStep, FaultlessStep
  <1>3. DataInv /\ Faultless => NoOrphans
    <2> SUFFICES ASSUME DataInv, Faultless, overlay = None, NEW k \in Keys, NEW n \in Nodes \ dead, data[n][k] # Absent
                 PROVE  n \in Range(owners(k))
      BY DEF NoOrphans
    <2>1. Context /\ Careful /\ ReachInv
      BY PlacementAssumption, MigrationAssumption DEF DataInv, RouteInv, Context
    <2>2. frozen = {}
      BY <2>1, OwnersReached
    <2>3. ~Closed(bucket_of[k]) /\ DataOf(k)
      BY <2>2 DEF Closed, DataInv, StoreInv, Faultless
    <2>4. Range(owners(k)) = Home(k)
      BY DEF owners, Home, Route
    <2> QED BY <2>3, <2>4 DEF DataOf, Settled
  <1> QED BY <1>1, <1>2, <1>3, PTL DEF Spec

(***************************************************************************)
(* CutoverCopied: no bucket is cut over before every owner it gains has a  *)
(* copy of each of its keys, on a resume as well.                          *)
(***************************************************************************)
THEOREM CutoversAreCopied == Orderly /\ Careful /\ MaxFaults = 0 /\ Spec => CutoverCopied
PROOF
  \* Only Cutover marks buckets as migrated; a resume goes on from the journal.
  <1>MarkedBy. ASSUME Context, [Next]_vars, overlay # None, overlay' # None,
                      NEW b \in overlay'.migrated \ overlay.migrated
               PROVE  \E m \in Migrators : Cutover(m) /\ b \in mig[m].chunk
    <2> USE <1>MarkedBy
    <2> SUFFICES ASSUME ~\E m \in Migrators : Cutover(m) /\ b \in mig[m].chunk
                 PROVE  FALSE
      OBVIOUS
    <2>1. ASSUME NEW o \in Ops,
                 \/ \E kind \in Kinds, k \in Keys : \E a \in Arguments(kind) : Begin(o, kind, k, a[1], a[2])
                 \/ OpStep(o) \/ RmwReplyLost(o)
          PROVE  FALSE
      BY <2>1, OpControl DEF clusterVars
    <2>2. ASSUME NEW m \in Migrators, Cutover(m) PROVE FALSE
      <3>1. overlay' = [overlay EXCEPT !.migrated = @ \cup mig[m].chunk] /\ overlay \in Overlays
        BY <2>2 DEF Cutover, Context, ControlInv, OverlayInv
      <3>2. overlay'.migrated = overlay.migrated \cup mig[m].chunk
        BY <3>1 DEF Overlays
      <3> QED BY <2>2, <3>2
    <2>3. ASSUME NEW m \in Migrators, InstallOverlay(m) PROVE FALSE
      <3>1. mig[m].pc = "lock" /\ migrating = None /\ (overlay' = overlay \/ overlay'.migrated = mig[m].done)
        BY SMT, <2>3 DEF InstallOverlay
      <3>2. AtLock(mig[m]) /\ journal # None /\ journal.done \subseteq overlay.migrated
        BY <3>1 DEF Context, ControlInv, Phase, RestInv, JournalInv
      <3> QED BY <3>1, <3>2 DEF AtLock
    <2>4. ASSUME NEW m \in Migrators, ~Cutover(m), ~InstallOverlay(m),
                 \/ MigrationStart(m) \/ MigrationStep(m) \/ CopyFault(m) \/ MigrationCancel(m)
                 \/ \E n \in mig[m].drops : DropFault(m, n)
          PROVE  FALSE
      BY <2>4 DEF MigrationStart, rebalance, apply_membership, rebalance_partial, drain, Start,
         resume_migration,
         MigrationStep, ReadMembers, StopEarly, ChunkFreeze, ChunkDrain, CopyExport, CopyImport, CopyFault,
         DropBuckets, DropFault, ChunkDone, CommitEpoch, CommitNodes, CommitReplication, CommitClients, DropOverlay,
         MigrationCancel, clusterVars
    <2>5. ASSUME \/ \E n \in Nodes \cup UNION Targets : add_node(n) \/ NodeDies(n) \/ mark_down(n)
                 \/ \E members \in SUBSET Nodes : Restart(members)
                 \/ UNCHANGED vars
          PROVE  FALSE
      BY <2>5 DEF add_node, NodeDies, mark_down, Restart, vars, clusterVars
    <2> QED BY <2>1, <2>2, <2>3, <2>4, <2>5, ZenonT(60) DEF Next
  <1> DEFINE Copied ==
        \A b \in Buckets :
          overlay # None /\ overlay' # None /\ b \in overlay'.migrated \ overlay.migrated =>
            \A k \in Keys, n \in OwnerSet(b, overlay.new, overlay.r_new) :
              bucket_of[k] = b /\ n \notin OwnerSet(b, overlay.old, overlay.r_old) =>
                data[n][k] = truth[k]
  <1>1. Orderly /\ Careful /\ MaxFaults = 0 /\ Init => DataInv /\ Faultless
    BY DataInit DEF Init, Faultless
  <1>2. DataInv /\ Faultless /\ [Next]_vars => DataInv' /\ Faultless'
    BY DataStep, FaultlessStep
  <1>3. DataInv /\ Faultless /\ [Next]_vars => [Copied]_vars
    <2> SUFFICES ASSUME DataInv, Faultless, [Next]_vars, NEW b \in Buckets, overlay # None, overlay' # None,
                        b \in overlay'.migrated \ overlay.migrated, NEW k \in Keys, bucket_of[k] = b,
                        NEW n \in OwnerSet(b, overlay.new, overlay.r_new)
                 PROVE  data[n][k] = truth[k]
      OBVIOUS
    <2>1. Setting /\ StoreInv /\ Context /\ faults = 0
      BY PlacementAssumption, MigrationAssumption DEF DataInv, RouteInv, Setting, Context, Faultless
    <2>2. PICK m \in Migrators : Cutover(m) /\ b \in mig[m].chunk
      BY <2>1, <1>MarkedBy
    <2>3. \A i \in NewSet(b) : data[i][k] = truth[k]
      BY <2>1, <2>2, AllCopied
    <2>4. OwnerSet(b, overlay.new, overlay.r_new) = NewSet(b)
      BY <2>1 DEF Context, ControlInv, OverlayInv, NewSet, Placed
    <2> QED BY <2>3, <2>4
  <1> QED BY <1>1, <1>2, <1>3, PTL DEF Spec, CutoverCopied
-----------------------------------------------------------------------------
(***************************************************************************)
(* Reads.  No call of mget, which does not enter the gate, and never so    *)
(* many dead shards that a key has lost every replica.                     *)
(***************************************************************************)
Surviving ==
  /\ "mget" \notin Kinds
  /\ MaxDead = 0 \/ (MaxDead < ReplTarget /\ MaxDead < Cardinality(InitialMembers))

DeadInv == Cardinality(dead) <= MaxDead

\* a read may return what its key holds and what the writes to it are storing, and
\* has every live owner still before it
ReadOf(o) ==
  /\ op[o].kind # "mget"
  /\ op[o].kind \in Reads /\ op[o].pc \in Active =>
       /\ truth[op[o].key] \in op[o].legal
       /\ \A p \in Ops : WritingKey(p, op[o].key) /\ HasValue(p) => op[p].val \in op[o].legal
  /\ op[o].kind = "get" /\ op[o].pc = "call" => Home(op[o].key) \ dead \subseteq Range(op[o].todo)
  /\ op[o].pc = "done" => op[o].val \in op[o].legal

ReadInv == Surviving /\ DeadInv /\ \A o \in Ops : ReadOf(o)

\* o publishes no value that the reads of its key do not know of
Published(o) ==
  \A j \in Keys :
    /\ WritingKey(o, j)' /\ HasValue(o)' =>
         \/ WritingKey(o, j) /\ HasValue(o) /\ op'[o].val = op[o].val
         \/ LegalGrows(o, j, op'[o].val)
    /\ truth'[j] = truth[j] \/ (WritingKey(o, j) /\ HasValue(o) /\ truth'[j] = op[o].val)

\* ReadInv is inductive, given where the data is.
LEMMA ReadStep ==
  ASSUME DataInv, Faultless, ReadInv, [Next]_vars
  PROVE  ReadInv'
PROOF
  \* A key has an owner that is alive.
  <1>OwnerSurvives. ASSUME Setting, Surviving, DeadInv, NEW b \in Buckets
                    PROVE  Route(b) \ dead # {}
    <2> USE <1>OwnerSurvives
    \* Without an overlay the factor is the one of the members.
    <2>FactorAtRest. ASSUME Context, overlay = None
                     PROVE  replication = Replicas(partitioner) /\ partitioner \in Memb
      <3> USE <2>FactorAtRest
      <3>1. partitioner \in Memb /\ migrating \in Migrators \cup {None}
        BY DEF Context, ControlInv, RestInv
      <3>2. CASE migrating = None
        BY <3>1, <3>2 DEF Context, ControlInv, RestInv
      <3>3. ASSUME NEW m \in Migrators, migrating = m PROVE replication = Replicas(partitioner)
        <4>1. mig[m].pc \in Working \cup Committing
          BY <3>3 DEF Context, ExclusionInv, LockInv, Holding, Moving, Working, Committing
        <4>2. Phase(mig[m])
          BY DEF Context, ControlInv
        <4>3. mig[m].pc \notin Working
          BY <4>2 DEF Phase, AtWork, Context, ControlInv, JournalInv
        <4>4. AtCommit(mig[m])
          BY <4>1, <4>2, <4>3 DEF Phase
        <4> QED BY <4>4 DEF AtCommit
      <3> QED BY <3>1, <3>2, <3>3
    <2>0. Context
      BY DEF Setting, Context
    <2>1. PICK members \in Memb : Route(b) = Placed(b, members) /\ (MaxDead # 0 => members = InitialMembers)
      <3>1. CASE overlay = None
        <4>1. replication = Replicas(partitioner) /\ partitioner \in Memb
          BY <2>0, <3>1, <2>FactorAtRest
        <4>2. Route(b) = Placed(b, partitioner)
          BY <2>0, <3>1, <4>1, RouteIs
        <4>3. MaxDead # 0 => partitioner = InitialMembers
          BY DEF Setting, Careful, ReachInv
        <4> QED BY <4>1, <4>2, <4>3
      <3>2. CASE overlay # None
        <4>1. MaxDead = 0
          BY <3>2 DEF Setting, Careful, ReachInv
        <4> QED BY <2>0, <3>2, <4>1, RouteIs
      <3> QED BY <3>1, <3>2
    <2>2. Placed(b, members) \subseteq members /\ members \subseteq Nodes /\ Cardinality(Placed(b, members)) = Replicas(members)
          /\ Replicas(members) \in Nat \ {0}
      BY <2>0, <2>1, PlacedFacts
    <2>3. CASE MaxDead = 0
      <3>1. dead = {}
        BY <2>3 DEF Setting, ReachInv
      <3>2. Placed(b, members) # {}
        BY <2>2, FS_EmptySet
      <3> QED BY <2>1, <3>1, <3>2
    <2>4. CASE MaxDead # 0
      <3>1. IsFiniteSet(dead) /\ Cardinality(dead) \in Nat
        <4>1. IsFiniteSet(Nodes) /\ dead \subseteq Nodes
          BY <2>0, PlacementAssumption DEF Setting, ReachInv
        <4> QED BY <4>1, FS_Subset, FS_CardinalityType
      <3>2. Cardinality(members) \in Nat
        BY <2>0, <2>1, ReplicasType
      <3>3. Replicas(members) > MaxDead
        BY SMT, <2>0, <2>1, <2>4, <3>2, MigrationAssumption DEF Surviving, Replicas, clamp, AtLeast,
           AtMost
      <3>4. Placed(b, members) \subseteq dead => Cardinality(Placed(b, members)) <= Cardinality(dead)
        BY <3>1, FS_Subset
      <3>5. ~(Placed(b, members) \subseteq dead)
        BY SMT, <2>0, <2>2, <3>1, <3>3, <3>4, MigrationAssumption DEF DeadInv
      <3> QED BY <2>1, <3>5
    <2> QED BY <2>3, <2>4
  \* A step outside the data plane.
  <1>ReadKept. ASSUME Setting, UNCHANGED <<op, truth>>, Steady, dead \subseteq dead', DeadInv'
               PROVE  ReadInv'
    <2> USE <1>ReadKept
    <2>1. ASSUME NEW o \in Ops PROVE ReadOf(o)'
      <3>1. ReadOf(o)
        BY DEF ReadInv
      <3>2. ASSUME op[o].kind = "get", op[o].pc = "call" PROVE Home(op[o].key)' = Home(op[o].key)
        <4>1. op[o].pc \in Active /\ Gated(op[o].kind)
          BY <3>2 DEF Active, Gated
        <4>2. bucket_of[op[o].key] \in Buckets /\ ~Closed(bucket_of[op[o].key])
          BY <4>1, InsideBucket DEF Setting, Context
        <4> QED BY <4>2 DEF Steady, Home
      <3> QED BY <3>1, <3>2 DEF ReadOf, WritingKey, HasValue
    <2> QED BY <2>1 DEF ReadInv, Surviving
  \* What is to be shown of a call after a step, its key named.
  <1>ReadSeen. ASSUME NEW o \in Ops, NEW k, op'[o].key = k, op'[o].kind # "mget",
                      op'[o].kind \in Reads /\ op'[o].pc \in Active =>
                        /\ truth'[k] \in op'[o].legal
                        /\ \A w \in Ops : WritingKey(w, k)' /\ HasValue(w)' => op'[w].val \in op'[o].legal,
                      op'[o].kind = "get" /\ op'[o].pc = "call" => Home(k)' \ dead' \subseteq Range(op'[o].todo),
                      op'[o].pc = "done" => op'[o].val \in op'[o].legal
               PROVE  ReadOf(o)'
    <2> USE <1>ReadSeen
    <2>1. \A w \in Ops : WritingKey(w, op[o].key)' <=> WritingKey(w, k)'
      BY DEF WritingKey
    <2>2. Home(op[o].key)' = Home(k)'
      BY DEF Home
    <2> QED BY <2>1, <2>2 DEF ReadOf
  \* A step of o, seen by the other calls.
  <1>ReadMove. ASSUME Setting, NEW o \in Ops, Others(o), UNCHANGED <<clusterVars, dead>>, Published(o), ReadOf(o)'
               PROVE  ReadInv'
    <2> USE <1>ReadMove
    <2>1. DeadInv'
      BY DEF ReadInv, DeadInv
    <2>2. ASSUME NEW p \in Ops, p # o PROVE ReadOf(p)'
      <3>1. ReadOf(p) /\ Same(p)
        BY <2>2 DEF ReadInv, Others
      <3>0. PICK k : k = op[p].key
        OBVIOUS
      <3>2. /\ op'[p].kind = op[p].kind /\ op'[p].pc = op[p].pc /\ op'[p].key = k /\ op'[p].todo = op[p].todo
            /\ op'[p].val = op[p].val /\ (op[p].pc = "done" => op'[p].legal = op[p].legal)
        BY <3>0, <3>1 DEF Same
      <3>3. Home(k)' = Home(k) /\ dead' = dead
        BY DEF Home, Route, OverlayOwners, CommittedOwners, clusterVars
      <3>4. ASSUME op[p].kind \in Reads, op[p].pc \in Active
            PROVE  /\ truth'[k] \in op'[p].legal
                   /\ \A w \in Ops : WritingKey(w, k)' /\ HasValue(w)' => op'[w].val \in op'[p].legal
        <4>1. k \in Keys
          BY <3>0, <3>4 DEF Setting, OpInv, Active
        <4>2. /\ truth[k] \in op[p].legal /\ op[p].legal \subseteq op'[p].legal
              /\ \A w \in Ops : WritingKey(w, k) /\ HasValue(w) => op[w].val \in op[p].legal
          BY <3>0, <3>1, <3>4 DEF ReadOf, Same
        <4>3. truth'[k] \in op'[p].legal
          BY <4>1, <4>2 DEF Published
        <4>4. ASSUME NEW w \in Ops, WritingKey(w, k)', HasValue(w)' PROVE op'[w].val \in op'[p].legal
          <5>1. CASE w = o
            <6>1. CASE WritingKey(o, k) /\ HasValue(o) /\ op'[o].val = op[o].val
              BY <4>2, <5>1, <6>1
            <6>2. CASE LegalGrows(o, k, op'[o].val)
              BY <2>2, <3>0, <3>4, <5>1, <6>2 DEF LegalGrows
            <6> QED BY <4>1, <4>4, <5>1, <6>1, <6>2 DEF Published
          <5>2. CASE w # o
            <6>1. WritingKey(w, k) /\ HasValue(w) /\ op'[w].val = op[w].val
              BY SMT, <4>4, <5>2 DEF Others, Same, WritingKey, HasValue
            <6> QED BY <4>2, <6>1
          <5> QED BY <5>1, <5>2
        <4> QED BY <4>3, <4>4
      <3>5. op'[p].kind = "get" /\ op'[p].pc = "call" => Home(k)' \ dead' \subseteq Range(op'[p].todo)
        BY <3>0, <3>1, <3>2, <3>3 DEF ReadOf
      <3>6. op'[p].kind # "mget" /\ (op'[p].pc = "done" => op'[p].val \in op'[p].legal)
        BY <3>1, <3>2 DEF ReadOf
      <3> QED BY <3>2, <3>4, <3>5, <3>6, <1>ReadSeen
    <2> QED BY <2>1, <2>2 DEF ReadInv, Surviving
  \* A live owner of an open bucket holds what a read of it may return.
  <1>ServedValue. ASSUME Setting, StoreInv, faults = 0, NEW o \in Ops, ReadOf(o), op[o].kind \in Reads,
                         op[o].pc \in Active,
                         NEW n \in Home(op[o].key) \ dead
                  PROVE  data[n][op[o].key] \in op[o].legal
    <2> USE <1>ServedValue
    <2>0. PICK k : k = op[o].key
      OBVIOUS
    <2>1. Gated(op[o].kind) /\ truth[k] \in op[o].legal
          /\ \A p \in Ops : WritingKey(p, k) /\ HasValue(p) => op[p].val \in op[o].legal
      BY <2>0 DEF ReadOf, Gated, Reads
    <2>2. k \in Keys /\ ~Closed(bucket_of[k])
      BY <2>0, <2>1, InsideBucket DEF Setting, Context
    <2>3. Settled(k)
      BY <2>2 DEF StoreInv, DataOf
    <2>4. CASE \A p \in Ops : ~WritingKey(p, k)
      BY <2>0, <2>1, <2>3, <2>4 DEF Settled
    <2>5. ASSUME NEW p \in Ops, WritingKey(p, k) PROVE data[n][k] \in op[o].legal
      <3>1. Written(p, n) /\ op[p].key = k
        BY <2>0, <2>3, <2>5 DEF Settled, WritingKey
      <3>2. CASE Begun(p)
        <4>1. HasValue(p) /\ data[n][k] \in {truth[k], op[p].val}
          BY <3>1, <3>2 DEF Begun, HasValue, Written
        <4> QED BY <2>1, <2>5, <4>1
      <3>3. CASE ~Begun(p)
        BY <2>1, <3>1, <3>3 DEF Written
      <3> QED BY <3>2, <3>3
    <2> QED BY <2>0, <2>4, <2>5
  \* A read asks its next owner, and returns what it has or goes on.
  <1>GetReads. ASSUME Setting, StoreInv, faults = 0, NEW o \in Ops, GetCall(o)
               PROVE  ReadInv'
    <2> USE <1>GetReads
    <2>0. PICK k : k = op[o].key
      OBVIOUS
    <2>1. DOMAIN op = Ops /\ OpInv /\ Context /\ ReadOf(o)
      BY DEF Setting, Context, ExclusionInv, Shapes, OpShape, ReadInv
    <2>2. /\ Others(o) /\ GoesOn(o) /\ op[o].pc = "call" /\ op[o].kind \in Reads
          /\ \/ /\ op[o].todo # <<>> /\ ~(~is_down(Head(op[o].todo)) /\ Reachable(Head(op[o].todo)))
                /\ op'[o].pc = op[o].pc /\ op'[o].val = op[o].val /\ op'[o].todo = Tail(op[o].todo)
             \/ /\ op'[o].pc = "done"
                /\ \/ op[o].todo = <<>> /\ op'[o].val = Absent
                   \/ /\ op[o].todo # <<>> /\ ~is_down(Head(op[o].todo)) /\ Reachable(Head(op[o].todo))
                      /\ op'[o].val = data[Head(op[o].todo)][op[o].key]
      BY <2>1, GetCallEffect
    <2>3. UNCHANGED <<clusterVars, dead, truth>>
      BY DEF GetCall, envVars, history
    <2>4. op[o].kind = "get" /\ Gated(op[o].kind) /\ op[o].pc \in Active /\ op[o].kind \notin Writes
      BY <2>1, <2>2 DEF ReadOf, Reads, Writes, Gated, Active
    <2>5. /\ k \in Keys /\ bucket_of[k] \in Buckets /\ op[o].todo \in Seq(Nodes)
          /\ Home(k) \ dead \subseteq Range(op[o].todo) /\ Range(op[o].todo) \subseteq Home(k)
      <3>1. k \in Keys /\ bucket_of[k] \in Buckets
        BY <2>0, <2>1, <2>4, InsideBucket DEF Context
      <3>2. Home(k) \ dead \subseteq Range(op[o].todo)
        BY <2>0, <2>1, <2>2, <2>4 DEF ReadOf
      <3>3. Range(op[o].todo) \subseteq Home(k)
        BY <2>0, <2>2, <2>4 DEF Setting, RoutedInv, Home
      <3> QED BY <2>1, <3>1, <3>2, <3>3 DEF OpInv
    <2>6. op[o].todo # <<>>
      <3>1. Home(k) \ dead # {}
        BY <2>5, <1>OwnerSurvives DEF ReadInv, Home
      <3> QED BY SMT, <2>5, <3>1 DEF Range
    <2>7. PICK n : n = Head(op[o].todo)
      OBVIOUS
    <2>8. n \in Home(k) /\ Range(Tail(op[o].todo)) \cup {n} = Range(op[o].todo)
      BY SMT, <2>5, <2>6, <2>7, HeadAndTail
    <2>9. op'[o].kind = op[o].kind /\ op'[o].key = k /\ op'[o].legal = op[o].legal
      BY <2>0, <2>2 DEF GoesOn
    <2>10. Home(k)' = Home(k)
      BY <2>3 DEF Home, Route, OverlayOwners, CommittedOwners, clusterVars
    <2>11. ASSUME op'[o].pc = op[o].pc, op'[o].todo = Tail(op[o].todo), ~(~is_down(n) /\ Reachable(n))
           PROVE  ReadOf(o)'
      <3>1. n \in dead
        <4>1. n \in clients
          BY <2>1, <2>5, <2>8, OwnersReached DEF Setting, Home
        <4> QED BY <2>11, <4>1 DEF is_down, Reachable, client_of, Setting, ReachInv
      <3>2. Home(k)' \ dead' \subseteq Range(op'[o].todo)
        BY <2>3, <2>5, <2>8, <2>10, <2>11, <3>1
      <3>3. /\ truth'[k] \in op'[o].legal
            /\ \A w \in Ops : WritingKey(w, k)' /\ HasValue(w)' => op'[w].val \in op'[o].legal
        <4>1. /\ truth[k] \in op[o].legal
              /\ \A w \in Ops : WritingKey(w, k) /\ HasValue(w) => op[w].val \in op[o].legal
          BY <2>0, <2>1, <2>2, <2>4 DEF ReadOf
        <4>2. ~WritingKey(o, k)'
          BY <2>4, <2>9 DEF WritingKey
        <4>3. \A w \in Ops \ {o} : WritingKey(w, k)' /\ HasValue(w)' => WritingKey(w, k) /\ HasValue(w) /\ op'[w].val = op[w].val
          BY <2>2 DEF Others, Same, WritingKey, HasValue
        <4> QED BY <2>3, <2>9, <4>1, <4>2, <4>3
      <3> QED BY ZenonT(60), <2>2, <2>4, <2>9, <2>11, <3>2, <3>3, <1>ReadSeen
    <2>12. ASSUME op'[o].pc = "done", ~is_down(n), Reachable(n), op'[o].val = data[n][k]
           PROVE  ReadOf(o)'
      <3>1. op'[o].val \in op'[o].legal
        BY ZenonT(60), <2>0, <2>1, <2>2, <2>4, <2>8, <2>9, <2>12, <1>ServedValue DEF Reachable
      <3> QED BY <2>4, <2>9, <2>12, <3>1, <1>ReadSeen DEF Active
    <2>13. ReadOf(o)'
      BY <2>0, <2>2, <2>6, <2>7, <2>11, <2>12
    <2>14. Published(o)
      <3>1. \A j \in Keys : ~WritingKey(o, j)'
        BY <2>4, <2>9 DEF WritingKey
      <3> QED BY <2>3, <3>1 DEF Published
    <2> QED BY <2>2, <2>3, <2>13, <2>14, <1>ReadMove
  \* A call that is not a read has nothing to return.
  <1>WritesReturnNothing. ASSUME NEW o \in Ops,
                                 op'[o].pc = "idle" \/ (op'[o].kind \in Writes /\ op'[o].pc \in Active),
                                 op'[o].kind # "mget"
                          PROVE  ReadOf(o)'
    <2> USE <1>WritesReturnNothing
    <2>1. PICK k : k = op'[o].key
      OBVIOUS
    <2>2. op'[o].kind \in Writes => op'[o].kind \notin Reads /\ op'[o].kind # "get"
      BY DEF Reads, Writes
    <2>3. op'[o].pc = "idle" => op'[o].pc \notin Active
      BY DEF Active
    <2>4. "done" \notin Active
      BY DEF Active
    <2> QED BY <2>1, <2>2, <2>3, <2>4, <1>ReadSeen
  \* A call starts: the reads of its key learn of the value it brings.
  <1>BeginReads. ASSUME Setting, NEW o \in Ops, NEW kind \in Kinds, NEW k \in Keys, NEW v, NEW e,
                        Begin(o, kind, k, v, e)
                 PROVE  ReadInv'
    <2> USE <1>BeginReads
    <2>0. kind \in Reads \cup Writes /\ kind # "mget" /\ DOMAIN op = Ops /\ OpInv
      BY MigrationAssumption DEF Setting, Context, Reads, Writes, ExclusionInv, Shapes, OpShape,
         ReadInv, Surviving
    <2>1. /\ Others(o) /\ op'[o].pc = "route" /\ op'[o].kind = kind /\ op'[o].key = k /\ op'[o].val = v
          /\ kind \in Reads => op'[o].legal = {truth[k]} \cup doubt[k] \cup InFlightValues(k)
          /\ kind \in {"put", "delete"} => LegalGrows(o, k, v)
      BY <2>0, BeginCall
    <2>2. UNCHANGED <<clusterVars, dead, truth>>
      BY DEF Begin, envVars, history
    <2>3. Published(o)
      <3>1. \A j \in Keys : WritingKey(o, j)' /\ HasValue(o)' => j = k /\ kind \in {"put", "delete"}
        BY <2>1 DEF WritingKey, HasValue
      <3> QED BY <2>1, <2>2, <3>1 DEF Published
    <2>4. CASE kind \in Writes
      <3>1. "route" \in Active
        BY DEF Active
      <3>2. ReadOf(o)'
        BY ZenonT(60), <2>0, <2>1, <2>4, <3>1, <1>WritesReturnNothing
      <3> QED BY <2>1, <2>2, <2>3, <3>2, <1>ReadMove
    <2>5. CASE kind \in Reads
      <3>1. ~WritingKey(o, k)'
        BY <2>1, <2>5 DEF WritingKey, Reads, Writes
      <3>2. \A w \in Ops \ {o} : WritingKey(w, k)' /\ HasValue(w)' => WritingKey(w, k) /\ HasValue(w) /\ op'[w].val = op[w].val
        BY <2>1 DEF Others, Same, WritingKey, HasValue
      <3>3. \A w \in Ops : WritingKey(w, k)' /\ HasValue(w)' => op'[w].val \in op'[o].legal
        BY <2>1, <2>5, <3>1, <3>2 DEF InFlightValues
      <3>4. truth'[k] \in op'[o].legal
        BY <2>1, <2>2, <2>5
      <3>5. ReadOf(o)'
        BY <2>0, <2>1, <3>3, <3>4, <1>ReadSeen
      <3> QED BY <2>1, <2>2, <2>3, <3>5, <1>ReadMove
    <2> QED BY <2>0, <2>4, <2>5
  \* A call learns its owners: a read has them all before it.
  <1>RouteReads. ASSUME Setting, NEW o \in Ops, ReadOverlay(o) \/ ReadPartitioner(o)
                 PROVE  ReadInv'
    <2> USE <1>RouteReads
    <2>0. PICK k : k = op[o].key
      OBVIOUS
    <2>1. DOMAIN op = Ops /\ OpInv /\ Context /\ ReadOf(o) /\ op[o].kind \in Reads \cup Writes
      BY DEF Setting, Context, ExclusionInv, Shapes, OpShape, ReadInv, OpInv
    <2>2. /\ Others(o) /\ GoesOn(o) /\ op'[o].val = op[o].val
          /\ \/ /\ op[o].pc = "route" /\ overlay = None
                /\ op'[o].pc = "route2" /\ op'[o].todo = op[o].todo
             \/ /\ op[o].pc = "route" /\ overlay # None
                /\ op'[o].pc = "call" /\ op'[o].todo = Targeted(op[o].kind, OverlayOwners(bucket_of[op[o].key]))
             \/ /\ op[o].pc = "route2"
                /\ op'[o].pc = "call" /\ op'[o].todo = Targeted(op[o].kind, CommittedOwners(bucket_of[op[o].key]))
      BY <2>1, RouteCall
    <2>3. UNCHANGED <<clusterVars, dead, truth>>
      BY DEF ReadOverlay, ReadPartitioner, envVars, history
    <2>4. op'[o].kind = op[o].kind /\ op'[o].key = k /\ op'[o].legal = op[o].legal /\ op[o].pc \in Active /\ op'[o].pc \in Active
          /\ op[o].kind # "mget"
      BY <2>0, <2>1, <2>2 DEF GoesOn, Active, ReadOf
    <2>5. Published(o)
      <3>1. op[o].pc \in {"route", "route2"} /\ op'[o].pc \in {"route2", "call"}
        BY <2>2
      <3>2. \A j \in Keys : WritingKey(o, j)' /\ HasValue(o)' => WritingKey(o, j) /\ HasValue(o)
        BY <2>0, <2>4, <3>1 DEF WritingKey, HasValue
      <3> QED BY <2>2, <2>3, <3>2 DEF Published
    <2>6. CASE op[o].kind \in Writes
      BY <2>2, <2>3, <2>4, <2>5, <2>6, <1>WritesReturnNothing, <1>ReadMove
    <2>7. CASE op[o].kind \in Reads
      <3>1. op[o].kind = "get" /\ Gated(op[o].kind) /\ op[o].kind \notin Writes
        BY <2>4, <2>7 DEF Reads, Gated, Writes
      <3>2. k \in Keys /\ bucket_of[k] \in Buckets
        BY <2>0, <2>1, <2>4, <3>1, InsideBucket DEF Context
      <3>3. op'[o].pc = "call" => Range(op'[o].todo) = Home(k)
        <4>1. \A s \in Seq(Nodes) : Targeted("get", s) = s
          BY TargetedFacts DEF Reads
        <4>2. CommittedOwners(bucket_of[k]) \in Seq(Nodes)
              /\ (overlay # None => OverlayOwners(bucket_of[k]) \in Seq(Nodes) /\ Range(OverlayOwners(bucket_of[k])) = Route(bucket_of[k]))
          BY <2>1, <3>2, OwnerLists
        <4>3. op[o].pc = "route2" => Range(CommittedOwners(bucket_of[k])) = Route(bucket_of[k])
          BY <2>0, <3>1 DEF Setting, RoutedInv
        <4> QED BY <2>0, <2>2, <3>1, <4>1, <4>2, <4>3 DEF Home
      <3>4. Home(k)' = Home(k)
        BY <2>3 DEF Home, Route, OverlayOwners, CommittedOwners, clusterVars
      <3>5. /\ truth'[k] \in op'[o].legal
            /\ \A w \in Ops : WritingKey(w, k)' /\ HasValue(w)' => op'[w].val \in op'[o].legal
        <4>1. /\ truth[k] \in op[o].legal
              /\ \A w \in Ops : WritingKey(w, k) /\ HasValue(w) => op[w].val \in op[o].legal
          BY <2>0, <2>1, <2>4, <2>7 DEF ReadOf
        <4>2. ~WritingKey(o, k)'
          BY <2>4, <3>1 DEF WritingKey
        <4>3. \A w \in Ops \ {o} : WritingKey(w, k)' /\ HasValue(w)' => WritingKey(w, k) /\ HasValue(w) /\ op'[w].val = op[w].val
          BY <2>2 DEF Others, Same, WritingKey, HasValue
        <4> QED BY <2>3, <2>4, <4>1, <4>2, <4>3
      <3>6. op'[o].pc # "done"
        BY <2>2
      <3>7. op'[o].kind = "get" /\ op'[o].pc = "call" => Home(k)' \ dead' \subseteq Range(op'[o].todo)
        BY <3>3, <3>4
      <3>8. ReadOf(o)'
        BY <2>4, <3>5, <3>6, <3>7, <1>ReadSeen
      <3> QED BY <2>2, <2>3, <2>5, <3>8, <1>ReadMove
    <2> QED BY <2>1, <2>6, <2>7
  \* A write goes on, or returns.
  <1>WriteReads. ASSUME Setting, NEW o \in Ops,
                        ReadDone(o) \/ BroadcastCall(o) \/ WriteDone(o) \/ RmwPrimary(o) \/ ReplicaCall(o)
                 PROVE  ReadInv'
    <2> USE <1>WriteReads
    <2>1. DOMAIN op = Ops /\ OpInv /\ ReadOf(o)
      BY DEF Setting, Context, ExclusionInv, Shapes, OpShape, ReadInv
    <2>2. UNCHANGED <<clusterVars, dead>>
      BY DEF ReadDone, BroadcastCall, WriteDone, RmwPrimary, ReplicaCall, envVars
    <2>3. CASE BroadcastCall(o) \/ ReplicaCall(o)
      <3>1. Others(o) /\ GoesOn(o) /\ op'[o].pc = op[o].pc /\ op'[o].val = op[o].val
        BY <2>1, <2>3, WriteCallEffect
      <3>2. op[o].pc \in Active /\ op[o].kind \in Writes /\ truth' = truth
        BY <2>1, <2>3 DEF BroadcastCall, ReplicaCall, Active, Writes, OpInv, history
      <3>3. Published(o)
        BY <3>1, <3>2 DEF Published, WritingKey, HasValue, GoesOn
      <3>4. ReadOf(o)'
        BY <2>1, <3>1, <3>2, <1>WritesReturnNothing DEF GoesOn, ReadOf
      <3> QED BY <2>2, <3>1, <3>3, <3>4, <1>ReadMove
    <2>4. ASSUME ReadDone(o) \/ ReturnWrite(o), Published(o) PROVE ReadInv'
      <3>1. op'[o] = IdleOp /\ Others(o)
        BY <2>1, <2>4, ReturnEffect DEF Returned
      <3>2. op'[o].pc = "idle" /\ op'[o].kind # "mget"
        BY SMT, <3>1 DEF IdleOp
      <3> QED BY <2>2, <2>4, <3>1, <3>2, <1>WritesReturnNothing, <1>ReadMove
    <2>5. ASSUME ReadDone(o) \/ ReturnWrite(o) PROVE \A j \in Keys : ~WritingKey(o, j)'
      <3>1. op'[o] = IdleOp
        BY <2>1, <2>5, ReturnEffect DEF Returned
      <3> QED BY <3>1, IdleForm DEF WritingKey
    <2>6. CASE WriteDone(o)
      <3>1. /\ ReturnWrite(o) /\ truth' = [truth EXCEPT ![op[o].key] = op[o].val] /\ HasValue(o)
            /\ op[o].pc \in {"call", "replicate"}
        BY <2>6 DEF WriteDone
      <3>2. op[o].kind \in Writes /\ op[o].pc # "idle"
        BY <2>1, <3>1 DEF HasValue, OpInv, Writes
      <3>3. Published(o)
        BY <2>5, <3>1, <3>2 DEF Published, WritingKey, Setting, StoreShape
      <3> QED BY <2>4, <3>1, <3>3
    <2>7. CASE ReadDone(o) \/ (RmwPrimary(o) /\ ReturnWrite(o))
      <3>1. truth' = truth
        BY <2>7 DEF ReadDone, RmwPrimary, history
      <3> QED BY <2>4, <2>5, <2>7, <3>1 DEF Published
    <2>8. CASE RmwPrimary(o) /\ ~ReturnWrite(o)
      <3>1. PICK v : v = Modified(o, data[Head(op[o].todo)][op[o].key])
        OBVIOUS
      <3>2. /\ Others(o) /\ LegalGrows(o, op[o].key, v)
            /\ op'[o].pc = "replicate" /\ op'[o].kind = op[o].kind /\ op'[o].key = op[o].key /\ op'[o].val = v
        BY <2>1, <2>8, <3>1, RmwEffect
      <3>3. truth' = truth /\ op[o].kind \in Writes /\ "replicate" \in Active
        BY <2>8 DEF RmwPrimary, history, Writes, Active
      <3>4. Published(o)
        BY <3>2, <3>3 DEF Published, WritingKey
      <3>5. ReadOf(o)'
        BY <2>1, <3>2, <3>3, <1>WritesReturnNothing DEF ReadOf
      <3> QED BY <2>2, <3>2, <3>4, <3>5, <1>ReadMove
    <2> QED BY <2>3, <2>6, <2>7, <2>8
  <1>0. Setting /\ StoreInv /\ Context /\ faults = 0
    BY DEF DataInv, RouteInv, Setting, Context, Faultless
  <1>1. ASSUME NEW o \in Ops,
               \/ \E kind \in Kinds, k \in Keys : \E a \in Arguments(kind) : Begin(o, kind, k, a[1], a[2])
               \/ OpStep(o) \/ RmwReplyLost(o)
        PROVE  ReadInv'
    <2>1. ~RmwReplyLost(o)
      BY SMT DEF Faultless, RmwReplyLost
    <2> QED BY ZenonT(60), <1>0, <1>1, <2>1, <1>BeginReads, <1>RouteReads, <1>GetReads, <1>WriteReads DEF OpStep
  <1>2. ASSUME NEW m \in Migrators,
               \/ MigrationStart(m) \/ MigrationStep(m) \/ CopyFault(m) \/ MigrationCancel(m)
               \/ \E n \in mig[m].drops : DropFault(m, n)
        PROVE  ReadInv'
    <2>1. UNCHANGED op /\ Steady
      BY <1>0, <1>2, MigratorControl
    <2>2. UNCHANGED <<truth, dead>>
      BY <1>2 DEF MigrationStart, rebalance, apply_membership, rebalance_partial, drain, Start,
         resume_migration, MigrationStep,
         ReadMembers, InstallOverlay, StopEarly, ChunkFreeze, ChunkDrain, CopyExport, CopyImport, CopyFault, Cutover,
         DropBuckets, DropFault, ChunkDone, CommitEpoch, CommitNodes, CommitReplication, CommitClients, DropOverlay,
         MigrationCancel, history, envVars
    <2>3. DeadInv'
      BY <2>2 DEF ReadInv, DeadInv
    <2> QED BY <1>0, <2>1, <2>2, <2>3, <1>ReadKept
  <1>3. ASSUME \/ \E n \in Nodes \cup UNION Targets : add_node(n) \/ NodeDies(n) \/ mark_down(n)
               \/ UNCHANGED vars
        PROVE  ReadInv'
    <2>1. UNCHANGED <<partitioner, replication, journal, overlay, migrating, mig, gate, op, truth>>
      BY <1>3 DEF add_node, NodeDies, mark_down, vars, clusterVars, history
    <2>2. dead \subseteq dead' /\ frozen' = frozen /\ \A b \in frozen : Inside(b)' => Inside(b)
      BY <1>3, <2>1 DEF add_node, NodeDies, mark_down, vars, envVars, gate, Inside
    <2>3. Steady
      BY <1>0, <2>1, <2>2, ControlKept
    <2>4. DeadInv'
      <3>1. CASE dead' = dead
        BY <3>1 DEF ReadInv, DeadInv
      <3>2. ASSUME NEW n, NodeDies(n) PROVE DeadInv'
        <4>1. IsFiniteSet(dead)
          BY <1>0, FS_Subset, PlacementAssumption DEF Setting, ReachInv
        <4>2. Cardinality(dead') = Cardinality(dead) + 1 /\ Cardinality(dead) \in Nat
          BY ZenonT(60), <3>2, <4>1, FS_AddElement, FS_CardinalityType DEF NodeDies
        <4> QED BY SMT, <3>2, <4>2, MigrationAssumption DEF NodeDies, DeadInv
      <3> QED BY <1>3, <3>1, <3>2 DEF add_node, mark_down, vars, envVars
    <2> QED BY <1>0, <2>1, <2>2, <2>3, <2>4, <1>ReadKept
  <1>4. \A members : ~Restart(members)
    BY SMT DEF Faultless, Restart
  <1> QED BY <1>1, <1>2, <1>3, <1>4, ZenonT(60) DEF Next

(***************************************************************************)
(* ReadsAreRegular: a read through the gate returns the last value that    *)
(* was acknowledged before it started, or that of a write it overlaps,     *)
(* however it interleaves with a rebalance or with the death of shards.    *)
(***************************************************************************)
THEOREM ReadsReturnTheirValue ==
  Orderly /\ Careful /\ Surviving /\ MaxFaults = 0 /\ Spec => []ReadsAreRegular
PROOF
  <1>1. Orderly /\ Careful /\ Surviving /\ MaxFaults = 0 /\ Init => DataInv /\ Faultless /\ ReadInv
    <2> SUFFICES ASSUME Orderly, Careful, Surviving, MaxFaults = 0, Init
                 PROVE  DataInv /\ Faultless /\ ReadInv
      OBVIOUS
    <2>1. DataInv
      BY DataInit
    <2>2. \A o \in Ops : op[o] = IdleOp
      BY DEF Init
    <2>3. \A o \in Ops : ReadOf(o)
      <3>1. IdleOp.pc = "idle" /\ IdleOp.kind = "get"
        BY DEF IdleOp
      <3> QED BY <2>2, <3>1 DEF ReadOf, Active
    <2>4. DeadInv
      BY SMT, FS_EmptySet, MigrationAssumption DEF Init, DeadInv
    <2> QED BY <2>1, <2>3, <2>4 DEF Init, Faultless, ReadInv
  <1>2. DataInv /\ Faultless /\ ReadInv /\ [Next]_vars => DataInv' /\ Faultless' /\ ReadInv'
    BY DataStep, FaultlessStep, ReadStep
  <1>3. ReadInv => ReadsAreRegular
    BY DEF ReadInv, ReadOf, ReadsAreRegular
  <1> QED BY <1>1, <1>2, <1>3, PTL DEF Spec
=============================================================================
