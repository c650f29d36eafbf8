----------------------------- MODULE Migration -----------------------------
(***************************************************************************)
(* cluster.rs: one coordinator's Cluster, with the shards it routes to     *)
(* (shard.rs), its migration journal (journal.rs), the placement           *)
(* (Placement) and the freeze/drain gate (GateContract, which Gates        *)
(* implements).                                                            *)
(*                                                                         *)
(* Operations and migrations run concurrently.  A step is the code between *)
(* two awaits, or between two lock sections of it that another thread can  *)
(* observe: every shard call is a step of its own, `owners` reads the      *)
(* overlay and the partitioner in two, and commit_membership publishes the *)
(* new membership field by field.                                          *)
(***************************************************************************)
EXTENDS Placement

CONSTANTS
  Ops,             \* concurrent data-plane calls
  NoBucket,        \* inside no bucket
  Migrators,       \* concurrent callers of rebalance / drain / resume
  Absent,          \* no object under a key
  Values,          \* stored values, 0..n (incr wraps at the top, as i64 does)
  Kinds,           \* the operations clients call
  InitialMembers,  \* Cluster::new
  Targets,         \* memberships that rebalance is called with
  ReplTarget,      \* replication_target
  Chunk,           \* buckets migrated per freeze (CHUNK)
  MaxMigrations,   \* bound: rebalance / resume calls
  MaxDead,         \* bound: shards that become unreachable for good
  MaxFaults,       \* bound: calls that fail or lose their answer, restarts
  SerialWrites,    \* do clients avoid concurrent writes to one key?
  MayCancel,       \* may the future of a rebalance be dropped at an await?
  MayAbandon,      \* may a rebalance start while an interrupted one is not resumed?
  MayStop,         \* may callers use rebalance_partial?
  MayNameUnknown,  \* may rebalance be called with a node that has no client?
  MayForget,       \* may a coordinator restart on an outdated shard list or mid-migration?
  None             \* Option::None

\* a MigrationRecord, and a routing overlay
Records == [old : SUBSET Nodes, new : SUBSET Nodes, done : SUBSET Buckets]
Overlays == [old : SUBSET Nodes, r_old : Nat, new : SUBSET Nodes, r_new : Nat,
             migrated : SUBSET Buckets]

ASSUME MigrationAssumption ==
  /\ NoBucket \notin Buckets
  /\ Absent \notin Values
  /\ Values = 0 .. Cardinality(Values) - 1
  /\ Kinds \subseteq {"get", "mget", "put", "delete", "cas", "incr"}
  /\ InitialMembers \subseteq Nodes
  /\ Targets \subseteq SUBSET Nodes
  /\ ReplTarget \in Nat \ {0} /\ Chunk \in Nat \ {0}
  /\ {MaxMigrations, MaxDead, MaxFaults} \subseteq Nat
  /\ {SerialWrites, MayCancel, MayAbandon, MayStop, MayNameUnknown, MayForget} \subseteq BOOLEAN
  /\ None \notin Migrators \cup Records \cup Overlays

VARIABLES
  frozen, entered, owned,  \* the gate, see GateContract
  partitioner,  \* the committed membership
  clients,      \* nodes with a ShardClient
  replication,  \* the committed, clamped replication factor
  down,         \* nodes marked down
  journal,      \* None or the saved MigrationRecord
  overlay,      \* None or the routing overlay
  epoch,
  migrating,    \* holder of the `migrating` lock
  op,           \* per operation: its call in progress
  mig,          \* per migrator: its call in progress
  data,         \* data[n][k]: what shard n stores under k
  dead,         \* shards whose calls fail
  faults,       \* transient failures so far
  started,      \* migrations started so far
  truth,        \* history: the last acknowledged value of each key
  doubt         \* history: what calls without an answer have stored since

INSTANCE GateContract

gate == <<frozen, entered, owned>>
clusterVars == <<partitioner, clients, replication, down, journal, overlay, epoch, migrating>>
envVars == <<dead, faults, started>>
history == <<truth, doubt>>
vars == <<clusterVars, gate, op, mig, data, envVars, history>>

Reads == {"get", "mget"}
Writes == {"put", "delete", "cas", "incr"}
Entry == Values \cup {Absent}

IdleOp == [pc |-> "idle", kind |-> "get", key |-> CHOOSE k \in Keys : TRUE, val |-> Absent,
           expect |-> Absent, todo |-> <<>>, legal |-> {}]
IdleMig == [pc |-> "idle", old |-> {}, new |-> {}, done |-> {}, stop |-> None,
            todo |-> {}, chunk |-> {}, copies |-> {}, pair |-> <<>>, entries |-> <<>>, drops |-> {}]

TypeOK ==
  /\ partitioner \subseteq Nodes /\ clients \subseteq Nodes /\ down \subseteq Nodes
  /\ replication \in Nat /\ epoch \in Nat
  /\ journal \in Records \cup {None}
  /\ overlay \in Overlays \cup {None}
  /\ migrating \in Migrators \cup {None}
  /\ GateTypeOK
  /\ data \in [Nodes -> [Keys -> Entry]]
  /\ truth \in [Keys -> Entry] /\ doubt \in [Keys -> SUBSET Entry]
  /\ \A o \in Ops : /\ op[o].pc \in {"idle", "route", "route2", "call", "replicate", "done"}
                    /\ op[o].kind \in Reads \cup Writes
                    /\ Range(op[o].todo) \subseteq Nodes
                    /\ op[o].legal \subseteq Entry

Init ==
  /\ partitioner = InitialMembers
  /\ clients = InitialMembers
  /\ replication = clamp(ReplTarget, Cardinality(InitialMembers))
  /\ down = {} /\ journal = None /\ overlay = None /\ epoch = 1 /\ migrating = None
  /\ GateInit
  /\ op = [o \in Ops |-> IdleOp]
  /\ mig = [m \in Migrators |-> IdleMig]
  /\ data = [n \in Nodes |-> [k \in Keys |-> Absent]]
  /\ dead = {} /\ faults = 0 /\ started = 0
  /\ truth = [k \in Keys |-> Absent] /\ doubt = [k \in Keys |-> {}]
-----------------------------------------------------------------------------
\* owners, with the overlay installed
OverlayOwners(b) ==
  IF b \in overlay.migrated THEN owners_of_bucket(b, overlay.new, overlay.r_new)
  ELSE owners_of_bucket(b, overlay.old, overlay.r_old)

\* owners, once the overlay was seen to be absent
CommittedOwners(b) == owners_of_bucket(b, partitioner, replication)

\* what `owners` returns when nothing moves under it
owners(k) ==
  IF overlay # None THEN OverlayOwners(bucket_of[k]) ELSE CommittedOwners(bucket_of[k])

is_down(n) == n \in down

client_of(n) == n \in clients

\* a call of n's client reaches the shard; otherwise it is an Err, after a timeout
Reachable(n) == client_of(n) /\ n \notin dead

\* what a shard's handlers do under its read lock and under its write lock
object(n, k) == data[n][k]
write(n, k, v) == [data EXCEPT ![n][k] = v]
import_entries(n, entries) ==
  [data EXCEPT ![n] = [k \in Keys |-> IF k \in DOMAIN entries THEN entries[k] ELSE @[k]]]
drop_buckets(n, bs) ==
  [data EXCEPT ![n] = [k \in Keys |-> IF bucket_of[k] \in bs THEN Absent ELSE @[k]]]
-----------------------------------------------------------------------------
(***************************************************************************)
(* The data plane.  history: the values a read may return are the last     *)
(* acknowledged one when it starts and those of the writes it overlaps.    *)
(***************************************************************************)
Gated(kind) == kind # "mget"
WritingKey(o, k) == op[o].kind \in Writes /\ op[o].key = k /\ op[o].pc # "idle"
HasValue(o) == op[o].kind \in {"put", "delete"} \/ op[o].pc = "replicate"
InFlightValues(k) == {op[o].val : o \in {p \in Ops : WritingKey(p, k) /\ HasValue(p)}}

WithLegal(f, k, v) ==
  [o \in Ops |-> IF f[o].kind \in Reads /\ f[o].key = k /\ f[o].pc \notin {"idle", "done"}
                 THEN [f[o] EXCEPT !.legal = @ \cup {v}] ELSE f[o]]

\* the arguments a call of each kind takes: <<value, expected>>
Arguments(kind) ==
  CASE kind = "put" -> Values \X {Absent}
    [] kind = "cas" -> Values \X Entry
    [] OTHER        -> {<<Absent, Absent>>}

\* a plausible slip: the operation does not enter the gate of its bucket
MutBegin(o, kind, k, v, e) ==
  /\ op[o].pc = "idle"
  /\ kind \in Writes /\ SerialWrites => \A p \in Ops : ~WritingKey(p, k)
  /\ entered' = [entered EXCEPT ![o] = bucket_of[k]]
  /\ LET call == [pc |-> "route", kind |-> kind, key |-> k, val |-> v, expect |-> e, todo |-> <<>>,
                  legal |-> IF kind \in Reads THEN {truth[k]} \cup doubt[k] \cup InFlightValues(k) ELSE {}]
         next == [op EXCEPT ![o] = call]
     IN  op' = IF kind \in {"put", "delete"} THEN WithLegal(next, k, v) ELSE next
  /\ UNCHANGED <<frozen, owned, clusterVars, mig, data, envVars, history>>

\* the call, and Gates::enter (mget goes ahead without it)
Begin(o, kind, k, v, e) ==
  /\ op[o].pc = "idle"
  /\ kind \in Writes /\ SerialWrites => \A p \in Ops : ~WritingKey(p, k)
  /\ IF Gated(kind) THEN Enter(o, bucket_of[k]) ELSE UNCHANGED gate
  /\ LET call == [pc |-> "route", kind |-> kind, key |-> k, val |-> v, expect |-> e, todo |-> <<>>,
                  legal |-> IF kind \in Reads THEN {truth[k]} \cup doubt[k] \cup InFlightValues(k) ELSE {}]
         next == [op EXCEPT ![o] = call]
     IN  op' = IF kind \in {"put", "delete"} THEN WithLegal(next, k, v) ELSE next
  /\ UNCHANGED <<clusterVars, mig, data, envVars, history>>

\* the elements of s that are in T, in their order
Filtered(s, T) ==
  LET at == {i \in DOMAIN s : s[i] \in T}
  IN  [j \in 1 .. Cardinality(at) |-> s[CHOOSE i \in at : Cardinality({h \in at : h < i}) = j - 1]]

\* cas, incr and mget drop the nodes marked down when they pick their targets
Targeted(kind, nodes) ==
  LET live == Filtered(nodes, Nodes \ down)
  IN  CASE kind \in {"cas", "incr"} -> live
        [] kind = "mget"            -> Take(live, 1)
        [] OTHER                    -> nodes

\* a plausible slip: the owners are looked up once the migration is over
MutReadOverlay(o) ==
  /\ op[o].pc = "route" /\ overlay = None
  /\ op' = [op EXCEPT ![o].pc = "route2"]
  /\ UNCHANGED <<clusterVars, gate, mig, data, envVars, history>>

ReadOverlay(o) ==
  /\ op[o].pc = "route"
  /\ \/ /\ overlay # None
        /\ op' = [op EXCEPT ![o].pc = "call",
                            ![o].todo = Targeted(op[o].kind, OverlayOwners(bucket_of[op[o].key]))]
     \/ /\ overlay = None
        /\ op' = [op EXCEPT ![o].pc = "route2"]
  /\ UNCHANGED <<clusterVars, gate, mig, data, envVars, history>>

ReadPartitioner(o) ==
  /\ op[o].pc = "route2"
  /\ op' = [op EXCEPT ![o].pc = "call",
                      ![o].todo = Targeted(op[o].kind, CommittedOwners(bucket_of[op[o].key]))]
  /\ UNCHANGED <<clusterVars, gate, mig, data, envVars, history>>

\* a plausible slip: the token outlives the call
MutRelease(o) == UNCHANGED gate

\* the call returns and its GateToken is dropped
Release(o) == IF Gated(op[o].kind) THEN Leave(o) ELSE UNCHANGED gate

ReturnRead(o, v) ==
  /\ op' = [op EXCEPT ![o].pc = "done", ![o].val = v, ![o].todo = <<>>]
  /\ Release(o)

ReturnWrite(o) == op' = [op EXCEPT ![o] = IdleOp] /\ Release(o)

\* get: the first owner that answers; mget asks its one target
GetCall(o) ==
  /\ op[o].pc = "call" /\ op[o].kind \in Reads
  /\ IF op[o].todo = <<>> THEN ReturnRead(o, Absent)
     ELSE LET n == Head(op[o].todo)
          IN  IF ~is_down(n) /\ Reachable(n) THEN ReturnRead(o, object(n, op[o].key))
              ELSE op' = [op EXCEPT ![o].todo = Tail(@)] /\ UNCHANGED gate
  /\ UNCHANGED <<clusterVars, mig, data, envVars, history>>

\* the caller of a read has its answer
ReadDone(o) ==
  /\ op[o].pc = "done"
  /\ op' = [op EXCEPT ![o] = IdleOp]
  /\ UNCHANGED <<clusterVars, gate, mig, data, envVars, history>>

\* broadcast: put and delete, owner by owner; a failed call is ignored
BroadcastCall(o) ==
  /\ op[o].pc = "call" /\ op[o].kind \in {"put", "delete"} /\ op[o].todo # <<>>
  /\ LET n == Head(op[o].todo)
     IN  data' = IF ~is_down(n) /\ Reachable(n) THEN write(n, op[o].key, op[o].val)
                 ELSE data
  /\ op' = [op EXCEPT ![o].todo = Tail(@)]
  /\ UNCHANGED <<clusterVars, gate, mig, envVars, history>>

WriteDone(o) ==
  /\ op[o].pc \in {"call", "replicate"} /\ HasValue(o) /\ op[o].todo = <<>>
  /\ truth' = [truth EXCEPT ![op[o].key] = op[o].val]
  /\ doubt' = [doubt EXCEPT ![op[o].key] = {}]
  /\ ReturnWrite(o)
  /\ UNCHANGED <<clusterVars, mig, data, envVars>>

\* IndexStore::cas and ::incr on the value found under the shard's write lock
Applies(o, found) == op[o].kind = "incr" \/ found = op[o].expect

Modified(o, found) ==
  IF op[o].kind = "cas" THEN op[o].val
  ELSE (IF found = Absent THEN 1 ELSE found + 1) % Cardinality(Values)

\* cas, incr: the read-modify-write on the first live owner
RmwPrimary(o) ==
  /\ op[o].pc = "call" /\ op[o].kind \in {"cas", "incr"}
  /\ LET k == op[o].key
         n == Head(op[o].todo)
         v == Modified(o, object(n, k))
     IN  IF op[o].todo # <<>> /\ Reachable(n) /\ Applies(o, object(n, k))
         THEN /\ data' = write(n, k, v)
              /\ op' = WithLegal([op EXCEPT ![o].pc = "replicate", ![o].val = v,
                                            ![o].todo = Tail(@)], k, v)
              /\ UNCHANGED gate
         ELSE ReturnWrite(o) /\ UNCHANGED data
  /\ UNCHANGED <<clusterVars, mig, envVars, history>>

\* the primary stores the new value but its answer is lost: cas returns false,
\* incr None, and nothing is replicated
RmwReplyLost(o) ==
  /\ op[o].pc = "call" /\ op[o].kind \in {"cas", "incr"} /\ op[o].todo # <<>>
  /\ faults < MaxFaults
  /\ LET k == op[o].key
         n == Head(op[o].todo)
         v == Modified(o, object(n, k))
     IN  /\ Reachable(n) /\ Applies(o, object(n, k))
         /\ data' = write(n, k, v)
         /\ op' = WithLegal([op EXCEPT ![o] = IdleOp], k, v)
         /\ doubt' = [doubt EXCEPT ![k] = @ \cup {v}]
  /\ Release(o)
  /\ faults' = faults + 1
  /\ UNCHANGED <<clusterVars, mig, dead, started, truth>>

\* a plausible slip: the new value stays on the primary
MutReplicaCall(o) ==
  /\ op[o].pc = "replicate" /\ op[o].todo # <<>>
  /\ op' = [op EXCEPT ![o].todo = Tail(@)]
  /\ UNCHANGED <<clusterVars, gate, mig, data, envVars, history>>

ReplicaCall(o) ==
  /\ op[o].pc = "replicate" /\ op[o].todo # <<>>
  /\ LET n == Head(op[o].todo)
     IN  data' = IF Reachable(n) THEN write(n, op[o].key, op[o].val) ELSE data
  /\ op' = [op EXCEPT ![o].todo = Tail(@)]
  /\ UNCHANGED <<clusterVars, gate, mig, envVars, history>>
-----------------------------------------------------------------------------
(***************************************************************************)
(* The control plane: rebalance, drain, apply_membership, resume.          *)
(***************************************************************************)
Step(m, rec) == mig' = [mig EXCEPT ![m] = rec]

\* unless MayAbandon, callers resume an interrupted migration before they start another
ResumedFirst == MayAbandon \/ migrating # None \/ journal = None

\* a call with its target membership, up to where it reads the current one
Start(m, new, stop) ==
  /\ mig[m].pc = "idle" /\ started < MaxMigrations
  /\ ResumedFirst
  /\ Step(m, [IdleMig EXCEPT !.pc = "read", !.new = new, !.stop = stop])
  /\ started' = started + 1
  /\ UNCHANGED <<partitioner, replication, down, journal, overlay, epoch, migrating>>
  /\ UNCHANGED <<gate, op, data, dead, faults, history>>

rebalance(m, new) ==
  /\ MayNameUnknown \/ new \subseteq clients
  /\ Start(m, new, None)
  /\ UNCHANGED clients

rebalance_partial(m, new, max_chunks) ==
  /\ MayStop
  /\ MayNameUnknown \/ new \subseteq clients
  /\ Start(m, new, max_chunks)
  /\ UNCHANGED clients

drain(m, n) ==
  /\ partitioner \ {n} \in Targets
  /\ Start(m, partitioner \ {n}, None)
  /\ UNCHANGED clients

\* a client is added for every target that has none, then rebalance
apply_membership(m, new) ==
  /\ Start(m, new, None)
  /\ clients' = clients \cup new

\* member_ids, before the lock is taken
ReadMembers(m) ==
  /\ mig[m].pc = "read"
  /\ Step(m, [mig[m] EXCEPT !.pc = "lock", !.old = partitioner])
  /\ UNCHANGED <<clusterVars, gate, op, data, envVars, history>>

add_node(n) ==
  /\ n \notin clients
  /\ clients' = clients \cup {n}
  /\ UNCHANGED <<partitioner, replication, down, journal, overlay, epoch, migrating>>
  /\ UNCHANGED <<gate, op, mig, data, envVars, history>>

\* a plausible slip: the progress in the journal is ignored
MutResume(m) ==
  /\ mig[m].pc = "idle" /\ started < MaxMigrations /\ journal # None
  /\ Step(m, [IdleMig EXCEPT !.pc = "lock", !.old = journal.old, !.new = journal.new])
  /\ started' = started + 1
  /\ UNCHANGED <<clusterVars, gate, op, data, dead, faults, history>>

resume_migration(m) ==
  /\ mig[m].pc = "idle" /\ started < MaxMigrations /\ journal # None
  /\ Step(m, [IdleMig EXCEPT !.pc = "lock", !.old = journal.old, !.new = journal.new,
                             !.done = journal.done])
  /\ started' = started + 1
  /\ UNCHANGED <<clusterVars, gate, op, data, dead, faults, history>>

save_record(m, done) == journal' = [old |-> mig[m].old, new |-> mig[m].new, done |-> done]

\* run_migration, up to its first chunk: take the lock, then either nothing is
\* to move or the overlay goes in and the journal is opened
InstallOverlay(m) ==
  /\ mig[m].pc = "lock" /\ migrating = None
  /\ migrating' = m
  /\ LET old == mig[m].old
         new == mig[m].new
     IN  IF old = new
         THEN /\ journal' = None /\ epoch' = epoch + 1
              /\ Step(m, [mig[m] EXCEPT !.pc = "nodes"])
              /\ UNCHANGED overlay
         ELSE /\ overlay' = [old |-> old, r_old |-> clamp(ReplTarget, Cardinality(old)),
                             new |-> new, r_new |-> clamp(ReplTarget, Cardinality(new)),
                             migrated |-> mig[m].done]
              /\ save_record(m, mig[m].done)
              /\ Step(m, [mig[m] EXCEPT !.pc = "chunk",
                                        !.todo = Moved(old, new, ReplTarget) \ mig[m].done])
              /\ UNCHANGED epoch
  /\ UNCHANGED <<partitioner, clients, replication, down, gate, op, data, envVars, history>>

CopiesOf(m, b) == Copies(b, mig[m].old, mig[m].new, ReplTarget)
DropsOf(m, b) == Drops(b, mig[m].old, mig[m].new, ReplTarget)

\* the next Chunk buckets in ascending order
NextChunk(todo) == {b \in todo : Cardinality({c \in todo : c < b}) < Chunk}

\* stop_after: leave overlay and journal, do not commit (a simulated crash)
StopEarly(m) ==
  /\ mig[m].pc = "chunk" /\ mig[m].todo # {} /\ mig[m].stop = 0
  /\ Step(m, IdleMig)
  /\ migrating' = None
  /\ UNCHANGED <<partitioner, clients, replication, down, journal, overlay, epoch>>
  /\ UNCHANGED <<gate, op, data, envVars, history>>

ChunkFreeze(m) ==
  /\ mig[m].pc = "chunk" /\ mig[m].todo # {} /\ mig[m].stop # 0
  /\ LET chunk == NextChunk(mig[m].todo)
     IN  /\ Freeze(chunk)
         /\ Step(m, [mig[m] EXCEPT !.pc = "drain", !.chunk = chunk,
                                   !.stop = IF @ = None THEN None ELSE @ - 1])
  /\ UNCHANGED <<clusterVars, op, data, envVars, history>>

\* a plausible slip: the copy starts without waiting for operations in flight
MutChunkDrain(m) ==
  /\ mig[m].pc = "drain"
  /\ owned' = mig[m].chunk
  /\ Step(m, [mig[m] EXCEPT !.pc = "copy",
                            !.copies = UNION {CopiesOf(m, b) : b \in mig[m].chunk},
                            !.drops = UNION {DropsOf(m, b) : b \in mig[m].chunk}])
  /\ UNCHANGED <<frozen, entered, clusterVars, op, data, envVars, history>>

\* Gates::drain returns; the chunk's moves are grouped by pair and by node
ChunkDrain(m) ==
  /\ mig[m].pc = "drain"
  /\ Drained(mig[m].chunk)
  /\ Step(m, [mig[m] EXCEPT !.pc = "copy",
                            !.copies = UNION {CopiesOf(m, b) : b \in mig[m].chunk},
                            !.drops = UNION {DropsOf(m, b) : b \in mig[m].chunk}])
  /\ UNCHANGED <<clusterVars, op, data, envVars, history>>

\* Shard::export_entries of the buckets that travel along the pair p
Exported(m, p) ==
  LET bs == {b \in mig[m].chunk : p \in CopiesOf(m, b)}
      ks == {k \in Keys : bucket_of[k] \in bs /\ data[p[1]][k] # Absent}
  IN  [k \in ks |-> data[p[1]][k]]

CopyExport(m, p) ==
  /\ mig[m].pc = "copy" /\ p \in mig[m].copies
  /\ IF Reachable(p[1]) /\ client_of(p[2]) /\ DOMAIN Exported(m, p) # {}
     THEN Step(m, [mig[m] EXCEPT !.pc = "import", !.pair = p, !.entries = Exported(m, p)])
     ELSE Step(m, [mig[m] EXCEPT !.copies = @ \ {p}])
  /\ UNCHANGED <<clusterVars, gate, op, data, envVars, history>>

\* the pair is finished with, whether or not the entries arrived
NextPair(m) ==
  Step(m, [mig[m] EXCEPT !.pc = "copy", !.copies = @ \ {mig[m].pair}, !.pair = <<>>, !.entries = <<>>])

CopyImport(m) ==
  /\ mig[m].pc = "import"
  /\ LET to == mig[m].pair[2]
     IN  data' = IF Reachable(to) THEN import_entries(to, mig[m].entries) ELSE data
  /\ NextPair(m)
  /\ UNCHANGED <<clusterVars, gate, op, envVars, history>>

\* export_entries or import_entries returns an error, which is ignored
CopyFault(m) ==
  /\ mig[m].pc = "import" /\ faults < MaxFaults
  /\ faults' = faults + 1
  /\ NextPair(m)
  /\ UNCHANGED <<clusterVars, gate, op, data, dead, started, history>>

\* a plausible slip: the buckets are cut over while copies are outstanding
MutCutover(m) ==
  /\ mig[m].pc = "copy"
  /\ overlay' = [overlay EXCEPT !.migrated = @ \cup mig[m].chunk]
  /\ Step(m, [mig[m] EXCEPT !.pc = "drop", !.copies = {}])
  /\ UNCHANGED <<partitioner, clients, replication, down, journal, epoch, migrating>>
  /\ UNCHANGED <<gate, op, data, envVars, history>>

Cutover(m) ==
  /\ mig[m].pc = "copy" /\ mig[m].copies = {}
  /\ overlay' = [overlay EXCEPT !.migrated = @ \cup mig[m].chunk]
  /\ Step(m, [mig[m] EXCEPT !.pc = "drop"])
  /\ UNCHANGED <<partitioner, clients, replication, down, journal, epoch, migrating>>
  /\ UNCHANGED <<gate, op, data, envVars, history>>

\* a plausible slip: the drop is forgotten
MutDropBuckets(m, n) ==
  /\ mig[m].pc = "drop" /\ n \in mig[m].drops
  /\ Step(m, [mig[m] EXCEPT !.drops = @ \ {n}])
  /\ UNCHANGED <<clusterVars, gate, op, data, envVars, history>>

\* the drops of a node that no longer owns them
DropBuckets(m, n) ==
  /\ mig[m].pc = "drop" /\ n \in mig[m].drops
  /\ LET bs == {b \in mig[m].chunk : n \in DropsOf(m, b)}
     IN  data' = IF Reachable(n) THEN drop_buckets(n, bs) ELSE data
  /\ Step(m, [mig[m] EXCEPT !.drops = @ \ {n}])
  /\ UNCHANGED <<clusterVars, gate, op, envVars, history>>

\* drop_buckets returns an error, which is ignored
DropFault(m, n) ==
  /\ mig[m].pc = "drop" /\ n \in mig[m].drops /\ faults < MaxFaults
  /\ faults' = faults + 1
  /\ Step(m, [mig[m] EXCEPT !.drops = @ \ {n}])
  /\ UNCHANGED <<clusterVars, gate, op, data, dead, started, history>>

ChunkDone(m) ==
  /\ mig[m].pc = "drop" /\ mig[m].drops = {}
  /\ Unfreeze(mig[m].chunk)
  /\ LET done == mig[m].done \cup mig[m].chunk
     IN  /\ save_record(m, done)
         /\ Step(m, [mig[m] EXCEPT !.pc = "chunk", !.done = done, !.todo = @ \ mig[m].chunk,
                                   !.chunk = {}])
  /\ UNCHANGED <<partitioner, clients, replication, down, overlay, epoch, migrating>>
  /\ UNCHANGED <<op, data, envVars, history>>

(***************************************************************************)
(* The end of run_migration: clear the journal, commit_membership field by *)
(* field, then drop the overlay.                                           *)
(***************************************************************************)
CommitEpoch(m) ==
  /\ mig[m].pc = "chunk" /\ mig[m].todo = {}
  /\ journal' = None /\ epoch' = epoch + 1
  /\ Step(m, [mig[m] EXCEPT !.pc = "nodes"])
  /\ UNCHANGED <<partitioner, clients, replication, down, overlay, migrating>>
  /\ UNCHANGED <<gate, op, data, envVars, history>>

CommitNodes(m) ==
  /\ mig[m].pc = "nodes"
  /\ partitioner' = mig[m].new
  /\ Step(m, [mig[m] EXCEPT !.pc = "replication"])
  /\ UNCHANGED <<clients, replication, down, journal, overlay, epoch, migrating>>
  /\ UNCHANGED <<gate, op, data, envVars, history>>

CommitReplication(m) ==
  /\ mig[m].pc = "replication"
  /\ replication' = clamp(ReplTarget, Cardinality(mig[m].new))
  /\ Step(m, [mig[m] EXCEPT !.pc = "clients"])
  /\ UNCHANGED <<partitioner, clients, down, journal, overlay, epoch, migrating>>
  /\ UNCHANGED <<gate, op, data, envVars, history>>

\* a membership that did not change returns here, its overlay (if any) in place
CommitClients(m) ==
  /\ mig[m].pc = "clients"
  /\ clients' = clients \cap mig[m].new
  /\ down' = down \cap mig[m].new
  /\ IF mig[m].old = mig[m].new THEN Step(m, IdleMig) /\ migrating' = None
     ELSE Step(m, [mig[m] EXCEPT !.pc = "close"]) /\ UNCHANGED migrating
  /\ UNCHANGED <<partitioner, replication, journal, overlay, epoch>>
  /\ UNCHANGED <<gate, op, data, envVars, history>>

DropOverlay(m) ==
  /\ mig[m].pc = "close"
  /\ overlay' = None /\ migrating' = None
  /\ Step(m, IdleMig)
  /\ UNCHANGED <<partitioner, clients, replication, down, journal, epoch>>
  /\ UNCHANGED <<gate, op, data, envVars, history>>

\* the future of the rebalance is dropped at one of its awaits
MigrationCancel(m) ==
  /\ MayCancel /\ mig[m].pc \in {"lock", "drain", "copy", "import", "drop"}
  /\ Step(m, IdleMig)
  /\ migrating' = IF migrating = m THEN None ELSE migrating
  /\ IF migrating = m /\ owned # {} THEN Abandon ELSE UNCHANGED gate
  /\ UNCHANGED <<partitioner, clients, replication, down, journal, overlay, epoch>>
  /\ UNCHANGED <<op, data, envVars, history>>
-----------------------------------------------------------------------------
\* a shard becomes unreachable; the operator may mark it down
NodeDies(n) ==
  /\ n \in clients \ dead /\ Cardinality(dead) < MaxDead
  /\ dead' = dead \cup {n}
  /\ UNCHANGED <<clusterVars, gate, op, mig, data, faults, started, history>>

mark_down(n) ==
  /\ n \in dead \ down
  /\ down' = down \cup {n}
  /\ UNCHANGED <<partitioner, clients, replication, journal, overlay, epoch, migrating>>
  /\ UNCHANGED <<gate, op, mig, data, envVars, history>>

\* the shards a restarted coordinator is given on its command line; nothing else
\* survives it, so the operator lists the committed members and waits for a migration
RestartedWith(members) ==
  \/ members = partitioner /\ overlay = None /\ journal = None
     /\ \A m \in Migrators : mig[m].pc = "idle"
  \/ MayForget /\ members = InitialMembers

\* the coordinator dies, its calls and its memory with it, and is started again
Restart(members) ==
  /\ faults < MaxFaults /\ RestartedWith(members)
  /\ doubt' = [k \in Keys |-> doubt[k] \cup InFlightValues(k)]
  /\ partitioner' = members /\ clients' = members
  /\ replication' = clamp(ReplTarget, Cardinality(members))
  /\ down' = {} /\ journal' = None /\ overlay' = None /\ epoch' = 1 /\ migrating' = None
  /\ frozen' = {} /\ owned' = {} /\ entered' = [o \in Ops |-> NoBucket]
  /\ op' = [o \in Ops |-> IdleOp]
  /\ mig' = [m \in Migrators |-> IdleMig]
  /\ faults' = faults + 1
  /\ UNCHANGED <<data, dead, started, truth>>
-----------------------------------------------------------------------------
OpStep(o) ==
  \/ ReadOverlay(o) \/ ReadPartitioner(o)
  \/ GetCall(o) \/ ReadDone(o)
  \/ BroadcastCall(o) \/ WriteDone(o)
  \/ RmwPrimary(o) \/ ReplicaCall(o)

MigrationStart(m) ==
  \/ \E new \in Targets : \/ rebalance(m, new)
                          \/ apply_membership(m, new)
                          \/ rebalance_partial(m, new, 1)
  \/ \E n \in Nodes : drain(m, n)
  \/ resume_migration(m)

MigrationStep(m) ==
  \/ ReadMembers(m) \/ InstallOverlay(m) \/ StopEarly(m) \/ ChunkFreeze(m) \/ ChunkDrain(m)
  \/ \E p \in mig[m].copies : CopyExport(m, p)
  \/ CopyImport(m) \/ Cutover(m)
  \/ \E n \in mig[m].drops : DropBuckets(m, n)
  \/ ChunkDone(m)
  \/ CommitEpoch(m) \/ CommitNodes(m) \/ CommitReplication(m) \/ CommitClients(m) \/ DropOverlay(m)

Next ==
  \/ \E o \in Ops, kind \in Kinds, k \in Keys :
       \E a \in Arguments(kind) : Begin(o, kind, k, a[1], a[2])
  \/ \E o \in Ops : OpStep(o) \/ RmwReplyLost(o)
  \/ \E m \in Migrators : MigrationStart(m)
  \/ \E m \in Migrators : MigrationStep(m)
  \/ \E m \in Migrators : CopyFault(m) \/ MigrationCancel(m)
  \/ \E m \in Migrators : \E n \in mig[m].drops : DropFault(m, n)
  \/ \E n \in UNION Targets : add_node(n)
  \/ \E n \in Nodes : NodeDies(n) \/ mark_down(n)
  \/ \E members \in SUBSET Nodes : Restart(members)

Spec == Init /\ [][Next]_vars

(***************************************************************************)
(* Tasks that can run are polled and shard calls return (HttpShardClient   *)
(* has a request timeout).  Nobody is obliged to call.                     *)
(***************************************************************************)
FairSpec == /\ Spec
            /\ \A o \in Ops : WF_vars(OpStep(o))
            /\ \A m \in Migrators : WF_vars(MigrationStep(m))
-----------------------------------------------------------------------------
(***************************************************************************)
(* No acknowledged write is lost or hidden: whenever no write to a key is  *)
(* in flight and its bucket is open, every reachable node that `owners`    *)
(* routes the key to holds its last acknowledged value, before, during and *)
(* after a rebalance ("old owners authoritative until a bucket is copied + *)
(* cut over", cluster.rs:12), as long as no shard call failed.              *)
(***************************************************************************)
OwnersHoldData ==
  faults = 0 =>
    \A k \in Keys : bucket_of[k] \notin frozen /\ (\A o \in Ops : ~WritingKey(o, k)) =>
      \A n \in Range(owners(k)) \ dead : data[n][k] = truth[k]

(***************************************************************************)
(* A read returns the last value acknowledged before it started or that of *)
(* a write it overlaps, whichever side of a cutover it is served from.     *)
(***************************************************************************)
ReadsAreRegular == \A o \in Ops : op[o].pc = "done" => op[o].val \in op[o].legal

(***************************************************************************)
(* A migration whose export, import or drop fails may lose an entry, since *)
(* run_migration ignores the error, and a cas or incr whose answer is lost *)
(* leaves its value on the primary alone, and a coordinator that dies      *)
(* leaves a write on some owners; but until a later rebalance makes an     *)
(* owner of a node that missed a drop, none of these brings back a value   *)
(* that was overwritten or deleted: a read returns the last value          *)
(* acknowledged, one written since or being written, or none.              *)
(***************************************************************************)
ReadsAreNeverStale == \A o \in Ops : op[o].pc = "done" => op[o].val \in op[o].legal \cup {Absent}

(***************************************************************************)
(* An operation inside the gate keeps the owners it computed: the overlay  *)
(* and the partitioner, which it reads one after the other, cannot move    *)
(* under it until it has left its bucket.                                  *)
(***************************************************************************)
RouteIsStable ==
  \A o \in Ops : op[o].pc \in {"call", "replicate"} /\ Gated(op[o].kind) =>
    Range(op[o].todo) \subseteq Range(owners(op[o].key))

(***************************************************************************)
(* A bucket is cut over only when every node it gains as an owner holds    *)
(* the last acknowledged value of each of its keys ("until a bucket is     *)
(* copied + cut over", cluster.rs:13), also when an interrupted rebalance  *)
(* is resumed and copies its last chunk again.                             *)
(***************************************************************************)
CutoverCopied ==
  [][\A b \in Buckets :
       overlay # None /\ overlay' # None /\ b \in overlay'.migrated \ overlay.migrated =>
         \A k \in Keys, n \in OwnerSet(b, overlay.new, overlay.r_new) :
           bucket_of[k] = b /\ n \notin OwnerSet(b, overlay.old, overlay.r_old) =>
             data[n][k] = truth[k]]_vars

(***************************************************************************)
(* At rest no node keeps an entry of a bucket it does not own: the drops   *)
(* of a plan leave nothing behind that a scan would bring back.            *)
(***************************************************************************)
NoOrphans ==
  overlay = None /\ migrating = None =>
    \A k \in Keys, n \in Nodes \ dead : data[n][k] # Absent => n \in Range(owners(k))

(***************************************************************************)
(* Every rebalance that is started returns: the lock is released, the      *)
(* drains end, the chunks run out.                                         *)
(***************************************************************************)
MigrationReturns == \A m \in Migrators : mig[m].pc = "read" ~> mig[m].pc = "idle"

(***************************************************************************)
(* Every gated call that got past its gate returns, also when its bucket   *)
(* is frozen meanwhile.                                                    *)
(***************************************************************************)
CallsReturn == \A o \in Ops : op[o].pc = "route" ~> op[o].pc = "idle"
=============================================================================
