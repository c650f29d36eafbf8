---------------------------- MODULE SmartClient ----------------------------
(***************************************************************************)
(* smart.rs: clients that route to the shards themselves, by a view of the *)
(* membership they poll from the coordinator's /members (coord.rs), and    *)
(* the scans of smart.rs and cluster.rs that visit every shard.            *)
(*                                                                         *)
(* The coordinator's side is what such a client can see of it: the order   *)
(* in which a rebalance adds clients, moves buckets and commits.  A bucket *)
(* moves in one step, as Migration shows it may be taken to.  The          *)
(* coordinator's own reads and writes are Migration's subject.             *)
(***************************************************************************)
EXTENDS Placement, FiniteSetsExt

CONSTANTS
  Absent,          \* no object under a key
  Values,          \* stored values, 0..n
  Readers,         \* get and mget calls of the client
  Writers,         \* put, delete, cas and incr calls
  WriteKinds,      \* the ones of these that are called
  Scanners,        \* paginated scans
  ScanKinds,       \* who scans: coordinator, client, one task per partition, a RESP client
  Refreshers,      \* concurrent callers of refresh
  InitialMembers,  \* Cluster::new
  Targets,         \* memberships that rebalances are called with
  ReplTarget,      \* replication, of the cluster and of the client
  Limit,           \* keys per page
  Zero,            \* the key that is spelled "0", RESP's cursor for the start (0: none is)
  Cap,             \* keys a shard returns at most (10_000 in net.rs)
  CHUNK,           \* keys scan_buckets looks at in one go
  MaxCalls,        \* bound: reads, writes and scans
  MaxMigrations,   \* bound: rebalances
  MaxTroubles,     \* bound: restarts, lost polls and shards that become unreachable for good
  MaxAstray,       \* bound: keys written to while the view is off
  MayPollCommit,   \* may a poll be answered while a commit is halfway?
  MayReset         \* may the epoch start again while the client is out of step?

ASSUME SmartClientAssumption ==
  /\ Keys \subseteq Nat \ {0} /\ IsFiniteSet(Keys)
  /\ Absent \notin Values /\ Values = 0 .. Cardinality(Values) - 1
  /\ WriteKinds \subseteq {"put", "delete", "cas", "incr"}
  /\ ScanKinds \subseteq {"cluster", "client", "partitions", "resp"} /\ Zero \in Keys \cup {0}
  /\ InitialMembers \subseteq Nodes /\ Targets \subseteq SUBSET Nodes
  /\ {ReplTarget, Limit, Cap, CHUNK} \subseteq Nat \ {0}
  /\ {MaxCalls, MaxMigrations, MaxTroubles, MaxAstray} \subseteq Nat
  /\ {MayPollCommit, MayReset} \subseteq BOOLEAN

VARIABLES
  partitioner, clients, epoch,  \* the coordinator's Cluster
  mig,                          \* its rebalance in progress
  data,                         \* data[n][k]: what shard n stores under k
  dead,                         \* shards whose calls fail
  started, troubles, issued,    \* rebalances, troubles and calls so far
  view,                         \* the client's clients, partitioner and epoch
  poll,                         \* per refresher: its refresh() in progress
  read, write, scan,            \* per caller: its call in progress
  truth,                        \* history: the last value written to each key
  astray                        \* history: keys written while the view was off

cluster == <<partitioner, clients, epoch, mig>>
env == <<dead, started, troubles, issued>>
calls == <<read, write, scan>>
history == <<truth, astray>>
vars == <<cluster, data, env, view, poll, calls, history>>

Entry == Values \cup {Absent}
IdlePoll == [pc |-> "idle", members |-> {}, epoch |-> 0]
IdleMig == [pc |-> "idle", new |-> {}, todo |-> {}, moved |-> {}]
IdleRead == [pc |-> "idle", kind |-> "get", key |-> 0, todo |-> <<>>, val |-> Absent,
             legal |-> {}]
IdleWrite == [pc |-> "idle", kind |-> "put", key |-> 0, todo |-> <<>>, val |-> Absent,
              expect |-> Absent, steady |-> FALSE]
IdleScan == [pc |-> "idle", kind |-> "client", todo |-> {}, after |-> 0, merged |-> {},
             got |-> {}, twice |-> FALSE, must |-> {}, may |-> {}]

TypeOK ==
  /\ partitioner \subseteq Nodes /\ clients \subseteq Nodes /\ epoch \in Nat \ {0}
  /\ mig \in [pc : {"idle", "moving", "nodes", "clients"}, new : SUBSET Nodes,
             todo : SUBSET Buckets, moved : SUBSET Buckets]
  /\ data \in [Nodes -> [Keys -> Entry]]
  /\ dead \subseteq Nodes
  /\ view \in [clients : SUBSET Nodes, members : SUBSET Nodes, epoch : Nat]
  /\ poll \in [Refreshers -> [pc : {"idle", "epoch", "reply", "nodes", "store"},
                              members : SUBSET Nodes, epoch : Nat]]
  /\ \A r \in Readers : Range(read[r].todo) \subseteq Nodes /\ read[r].val \in Entry
  /\ \A w \in Writers : Range(write[w].todo) \subseteq Nodes /\ write[w].val \in Entry
  /\ \A s \in Scanners : scan[s].got \subseteq Keys /\ scan[s].merged \subseteq Keys

\* Cluster::owners: by the new membership once the bucket has moved
owners(k) ==
  LET b == bucket_of[k]
  IN  IF b \in mig.moved THEN NewOwners(b, mig.new, ReplTarget)
      ELSE OldOwners(b, partitioner, ReplTarget)

\* a cluster at rest that holds some objects, and a client that knows no members yet
Init ==
  /\ partitioner = InitialMembers /\ clients = InitialMembers /\ epoch = 1
  /\ mig = IdleMig
  /\ truth \in [Keys -> Entry]
  /\ data = [n \in Nodes |-> [k \in Keys |-> IF n \in Range(owners(k)) THEN truth[k] ELSE Absent]]
  /\ dead = {} /\ started = 0 /\ troubles = 0 /\ issued = 0
  /\ view = [clients |-> {}, members |-> {}, epoch |-> 0]
  /\ poll = [r \in Refreshers |-> IdlePoll]
  /\ read = [r \in Readers |-> IdleRead]
  /\ write = [w \in Writers |-> IdleWrite]
  /\ scan = [s \in Scanners |-> IdleScan]
  /\ astray = {}
-----------------------------------------------------------------------------
(***************************************************************************)
(* Stable membership: no change is under way, and the client routes by the *)
(* membership the coordinator has.  Reads and scans change nothing and are *)
(* promised nothing otherwise, so they are followed only while it is       *)
(* stable: a step that ends the stability forgets them.  A write in        *)
(* progress is no longer steady then.                                      *)
(***************************************************************************)
Quiet == mig.pc = "idle" /\ clients = partitioner
InStep == view.members = partitioner /\ view.clients = clients
Stable == Quiet /\ InStep
Unsettle ==
  /\ read' = [r \in Readers |-> IdleRead] /\ scan' = [s \in Scanners |-> IdleScan]
  /\ write' = [w \in Writers |-> [write[w] EXCEPT !.steady = FALSE]]

Issue == issued < MaxCalls /\ issued' = issued + 1

Writing(k) == \E w \in Writers : write[w].pc # "idle" /\ write[w].key = k

\* what the writes of key k in progress have written or may write
HasValue(w) == write[w].pc = "replicate" \/ (write[w].pc = "call" /\ write[w].kind \in {"put", "delete"})
Pending(k) == {write[w].val : w \in {x \in Writers : HasValue(x) /\ write[x].key = k}}

\* a read of k that is in progress may now return v as well
Allowing(k, v) ==
  read' = [r \in Readers |-> IF read[r].pc = "call" /\ read[r].key = k
                             THEN [read[r] EXCEPT !.legal = @ \cup {v}] ELSE read[r]]
-----------------------------------------------------------------------------
(***************************************************************************)
(* The coordinator.                                                        *)
(***************************************************************************)
add_node(n) ==
  /\ n \notin clients /\ mig.pc = "idle"
  /\ clients' = clients \cup {n}
  /\ Unsettle
  /\ UNCHANGED <<partitioner, epoch, mig, data, env, view, poll, history>>

\* rebalance, drain or apply_membership, up to its first chunk; no shard fails meanwhile
Rebalance(new) ==
  /\ mig.pc = "idle" /\ started < MaxMigrations /\ dead = {}
  /\ started' = started + 1
  /\ clients' = clients \cup new
  /\ mig' = [IdleMig EXCEPT !.pc = "moving", !.new = new, !.todo = Moved(partitioner, new, ReplTarget)]
  /\ Unsettle
  /\ UNCHANGED <<partitioner, epoch, data, dead, troubles, issued, view, poll, history>>

\* one chunk: its buckets are copied, cut over and dropped
MoveBucket(b) ==
  /\ mig.pc = "moving" /\ b \in mig.todo
  /\ LET copies == Copies(b, partitioner, mig.new, ReplTarget)
         drops == Drops(b, partitioner, mig.new, ReplTarget)
         moved(n, k) == IF n \in drops THEN Absent
                        ELSE IF \E p \in copies : p[2] = n /\ data[p[1]][k] # Absent
                        THEN data[(CHOOSE p \in copies : p[2] = n)[1]][k]
                        ELSE data[n][k]
     IN  data' = [n \in Nodes |-> [k \in Keys |-> IF bucket_of[k] = b THEN moved(n, k) ELSE data[n][k]]]
  /\ mig' = [mig EXCEPT !.todo = @ \ {b}, !.moved = @ \cup {b}]
  /\ UNCHANGED <<partitioner, clients, epoch, env, view, poll, calls, history>>

\* commit_membership: the epoch, the partitioner, then the clients
CommitEpoch ==
  /\ mig.pc = "moving" /\ mig.todo = {}
  /\ MayPollCommit \/ \A r \in Refreshers : poll[r].pc # "epoch"
  /\ MayReset \/ view.epoch <= epoch
  /\ epoch' = epoch + 1
  /\ mig' = [mig EXCEPT !.pc = "nodes"]
  /\ UNCHANGED <<partitioner, clients, data, env, view, poll, calls, history>>

CommitNodes ==
  /\ mig.pc = "nodes"
  /\ partitioner' = mig.new
  /\ mig' = [mig EXCEPT !.pc = "clients", !.moved = {}]
  /\ UNCHANGED <<clients, epoch, data, env, view, poll, calls, history>>

CommitClients ==
  /\ mig.pc = "clients"
  /\ clients' = clients \cap mig.new
  /\ mig' = IdleMig
  /\ UNCHANGED <<partitioner, epoch, data, env, view, poll, calls, history>>

\* a new process, started with the shards of the current membership
Restart ==
  /\ mig.pc = "idle" /\ troubles < MaxTroubles
  /\ MayReset \/ (view.epoch = epoch /\ InStep /\ \A r \in Refreshers : poll[r].pc = "idle")
  /\ troubles' = troubles + 1
  /\ epoch' = 1
  /\ clients' = partitioner
  /\ UNCHANGED <<partitioner, mig, data, dead, started, issued, view, poll, calls, history>>

NodeDies(n) ==
  /\ mig.pc = "idle" /\ n \in clients \ dead /\ troubles < MaxTroubles
  /\ troubles' = troubles + 1
  /\ dead' = dead \cup {n}
  /\ UNCHANGED <<cluster, data, started, issued, view, poll, calls, history>>
-----------------------------------------------------------------------------
(***************************************************************************)
(* refresh: the coordinator's answer is read in two places, and the view   *)
(* is replaced field by field.                                             *)
(***************************************************************************)
Polled(r, p) == poll' = [poll EXCEPT ![r] = p] /\ UNCHANGED <<cluster, data, dead, started, issued>>

\* GET /members: members_with_endpoints lists the clients
PollMembers(r) ==
  /\ poll[r].pc = "idle"
  /\ MayPollCommit \/ mig.pc \in {"idle", "moving"}
  /\ Polled(r, [pc |-> "epoch", members |-> clients, epoch |-> 0])
  /\ UNCHANGED <<troubles, view, calls, history>>

PollEpoch(r) ==
  /\ poll[r].pc = "epoch"
  /\ Polled(r, [poll[r] EXCEPT !.pc = "reply", !.epoch = epoch])
  /\ UNCHANGED <<troubles, view, calls, history>>

\* the answer does not arrive; the loop tries again
PollLost(r) ==
  /\ poll[r].pc = "reply" /\ troubles < MaxTroubles
  /\ troubles' = troubles + 1
  /\ Polled(r, IdlePoll)
  /\ UNCHANGED <<view, calls, history>>

\* a plausible slip: the view is kept as soon as there is one
MutUnchanged(p) == view.members # {}

Unchanged(p) == p.epoch # 0 /\ p.epoch = view.epoch /\ view.members # {}

\* the comparison with the view, and the first store of update_membership
SetClients(r) ==
  /\ poll[r].pc = "reply"
  /\ IF Unchanged(poll[r]) \/ poll[r].members = {}
     THEN Polled(r, IdlePoll) /\ UNCHANGED <<view, calls>>
     ELSE /\ Polled(r, [poll[r] EXCEPT !.pc = "nodes"])
          /\ view' = [view EXCEPT !.clients = poll[r].members]
          /\ Unsettle
  /\ UNCHANGED <<troubles, history>>

\* a plausible slip: members are added to the partitioner and never removed
MutSetNodes(r) ==
  /\ poll[r].pc = "nodes"
  /\ Polled(r, [poll[r] EXCEPT !.pc = "store"])
  /\ view' = [view EXCEPT !.members = @ \cup poll[r].members]
  /\ Unsettle
  /\ UNCHANGED <<troubles, history>>

SetNodes(r) ==
  /\ poll[r].pc = "nodes"
  /\ Polled(r, [poll[r] EXCEPT !.pc = "store"])
  /\ view' = [view EXCEPT !.members = poll[r].members]
  /\ Unsettle
  /\ UNCHANGED <<troubles, history>>

SetEpoch(r) ==
  /\ poll[r].pc = "store"
  /\ Polled(r, IdlePoll)
  /\ view' = [view EXCEPT !.epoch = poll[r].epoch]
  /\ UNCHANGED <<troubles, calls, history>>
-----------------------------------------------------------------------------
(***************************************************************************)
(* The data plane, by the view.                                            *)
(***************************************************************************)
\* SmartClient::owners and ::route: the top of the ranking; the client knows no racks
route(k) == Take(Ranked(bucket_of[k], view.members), ReplTarget)

\* a client for the node, whose call succeeds
Answers(n) == n \in view.clients /\ n \notin dead

\* a plausible slip: no call fails over
MutReadTargets(kind, k) == Take(route(k), 1)

\* mget asks the first owner only
ReadTargets(kind, k) == IF kind = "mget" THEN Take(route(k), 1) ELSE route(k)

BeginRead(r, kind, k) ==
  /\ read[r].pc = "idle" /\ Issue /\ Stable
  /\ read' = [read EXCEPT ![r] = [pc |-> "call", kind |-> kind, key |-> k, val |-> Absent,
                                  todo |-> ReadTargets(kind, k),
                                  legal |-> {truth[k]} \cup Pending(k)]]
  /\ UNCHANGED <<cluster, data, dead, started, troubles, view, poll, write, scan, history>>

\* get: the first owner that answers
ReadCall(r) ==
  /\ read[r].pc = "call"
  /\ LET n == Head(read[r].todo)
     IN  read' = [read EXCEPT ![r] =
                    IF read[r].todo = <<>> THEN [@ EXCEPT !.pc = "done"]
                    ELSE IF Answers(n)
                    THEN [@ EXCEPT !.pc = "done", !.val = data[n][read[r].key], !.todo = <<>>]
                    ELSE [@ EXCEPT !.todo = Tail(read[r].todo)]]
  /\ UNCHANGED <<cluster, data, env, view, poll, write, scan, history>>

ReadDone(r) ==
  /\ read[r].pc = "done"
  /\ read' = [read EXCEPT ![r] = IdleRead]
  /\ UNCHANGED <<cluster, data, env, view, poll, write, scan, history>>

WriteArgs(kind) ==
  CASE kind = "put" -> Values \X {Absent}
    [] kind = "delete" -> {Absent} \X {Absent}
    [] kind = "cas" -> Values \X Entry
    [] kind = "incr" -> {Absent} \X {Absent}

\* one writer of a key at a time; a scan in progress may miss the key from now on
BeginWrite(w, kind, k, arg) ==
  /\ write[w].pc = "idle" /\ ~Writing(k) /\ Issue
  /\ Stable \/ Cardinality(astray) < MaxAstray
  /\ write' = [write EXCEPT ![w] = [pc |-> "call", kind |-> kind, key |-> k, todo |-> route(k),
                                    val |-> arg[1], expect |-> arg[2], steady |-> Stable]]
  /\ IF kind \in {"put", "delete"} THEN Allowing(k, arg[1]) ELSE UNCHANGED read
  /\ scan' = [s \in Scanners |-> IF scan[s].pc = "idle" THEN scan[s]
                                 ELSE [scan[s] EXCEPT !.must = @ \ {k}, !.may = @ \cup {k}]]
  /\ UNCHANGED <<cluster, data, dead, started, troubles, view, poll, history>>

\* put, delete: owner by owner; a failed call is ignored
BroadcastCall(w) ==
  /\ write[w].pc = "call" /\ write[w].kind \in {"put", "delete"} /\ write[w].todo # <<>>
  /\ LET n == Head(write[w].todo)
     IN  data' = IF Answers(n) THEN [data EXCEPT ![n][write[w].key] = write[w].val] ELSE data
  /\ write' = [write EXCEPT ![w].todo = Tail(@)]
  /\ UNCHANGED <<cluster, env, view, poll, read, scan, history>>

Applies(w, found) == write[w].kind = "incr" \/ found = write[w].expect
Modified(w, found) ==
  IF write[w].kind = "cas" THEN write[w].val
  ELSE (IF found = Absent THEN 1 ELSE found + 1) % Cardinality(Values)

\* cas, incr: on the primary; a primary that does not answer fails the call
RmwPrimary(w) ==
  /\ write[w].pc = "call" /\ write[w].kind \in {"cas", "incr"}
  /\ LET k == write[w].key
         n == Head(write[w].todo)
         v == Modified(w, data[n][k])
     IN  IF write[w].todo # <<>> /\ Answers(n) /\ Applies(w, data[n][k])
         THEN /\ data' = [data EXCEPT ![n][k] = v]
              /\ write' = [write EXCEPT ![w].pc = "replicate", ![w].val = v, ![w].todo = Tail(@)]
              /\ Allowing(k, v)
         ELSE /\ write' = [write EXCEPT ![w] = IdleWrite]
              /\ UNCHANGED <<data, read>>
  /\ UNCHANGED <<cluster, env, view, poll, scan, history>>

\* a plausible slip: the loop over the replicas writes nothing
MutReplicaCall(w) ==
  /\ write[w].pc = "replicate" /\ write[w].todo # <<>>
  /\ write' = [write EXCEPT ![w].todo = Tail(@)]
  /\ UNCHANGED <<cluster, data, env, view, poll, read, scan, history>>

ReplicaCall(w) ==
  /\ write[w].pc = "replicate" /\ write[w].todo # <<>>
  /\ LET n == Head(write[w].todo)
     IN  data' = IF Answers(n) THEN [data EXCEPT ![n][write[w].key] = write[w].val] ELSE data
  /\ write' = [write EXCEPT ![w].todo = Tail(@)]
  /\ UNCHANGED <<cluster, env, view, poll, read, scan, history>>

WriteDone(w) ==
  /\ HasValue(w) /\ write[w].todo = <<>>
  /\ truth' = [truth EXCEPT ![write[w].key] = write[w].val]
  /\ astray' = IF write[w].steady THEN astray ELSE astray \cup {write[w].key}
  /\ write' = [write EXCEPT ![w] = IdleWrite]
  /\ UNCHANGED <<cluster, data, env, view, poll, read, scan>>
-----------------------------------------------------------------------------
(***************************************************************************)
(* Scans.  Pages of at most Limit keys, the last key of a full page being  *)
(* the cursor of the next; a caller stops at a page that is not full.      *)
(***************************************************************************)
\* the n smallest keys of ks
First(ks, n) == {k \in ks : Cardinality({j \in ks : j < k}) < n}

\* IndexStore::scan_range on shard n
scan_range(n, after, limit) == First({k \in Keys : k > after /\ data[n][k] # Absent}, limit)

\* IndexStore::scan_buckets: chunk by chunk through the shard's keys, until limit are found
scan_buckets(n, bs, after, limit) ==
  LET walk[c \in Keys \cup {0}] ==
        LET page == scan_range(n, c, CHUNK)
        IN  {k \in page : bucket_of[k] \in bs}
              \cup IF Cardinality(page) = CHUNK THEN walk[Max(page)] ELSE {}
  IN  First(walk[after], limit)

\* partitions(): the buckets whose primary is n
Primaries(n) == {b \in Buckets : Take(Ranked(b, view.members), 1) = <<n>>}

\* the shards the next page asks: the coordinator's clients, the client's, one per
\* partition, or the one shard n that a RESP client is connected to
Shards(kind, n) ==
  CASE kind = "cluster" -> clients
    [] kind = "client" -> view.clients
    [] kind = "partitions" -> {m \in view.members : Primaries(m) # {}}
    [] kind = "resp" -> {n}

ScanStart(s, kind, n) ==
  /\ scan[s].pc = "idle" /\ Issue /\ Stable
  /\ LET there == {k \in Keys : truth[k] # Absent /\ (kind = "resp" => n \in Range(owners(k)))}
         unsure == {k \in Keys : Writing(k)}
     IN  scan' = [scan EXCEPT ![s] =
                    [IdleScan EXCEPT !.pc = "shards", !.kind = kind, !.todo = Shards(kind, n),
                                     !.must = there \ unsure, !.may = there \cup unsure]]
  /\ UNCHANGED <<cluster, data, dead, started, troubles, view, poll, read, write, history>>

\* one shard of a page; what it has is merged, what fails is left out
ScanShard(s, n) ==
  /\ scan[s].pc = "shards" /\ scan[s].kind \in {"cluster", "client"} /\ n \in scan[s].todo
  /\ scan' = [scan EXCEPT ![s].todo = @ \ {n},
                          ![s].merged = IF n \in dead THEN @
                                        ELSE @ \cup scan_range(n, scan[s].after, AtMost(Limit, Cap))]
  /\ UNCHANGED <<cluster, data, env, view, poll, read, write, history>>

Collected(sc, page) == [sc EXCEPT !.got = @ \cup page, !.twice = @ \/ page \cap sc.got # {}, !.merged = {}]

\* a plausible slip: the cursor is the last key seen, not the last one returned
MutCursor(sc, page) == Max(sc.merged)

Cursor(sc, page) == Max(page)

\* the merged page is returned, and the next one asked for if it was full
ScanPage(s) ==
  /\ scan[s].pc = "shards" /\ scan[s].kind \in {"cluster", "client"} /\ scan[s].todo = {}
  /\ LET page == First(scan[s].merged, Limit)
         sc == Collected(scan[s], page)
     IN  scan' = [scan EXCEPT ![s] =
                    IF Cardinality(page) >= Limit
                    THEN [sc EXCEPT !.after = Cursor(scan[s], page), !.todo = Shards(sc.kind, {})]
                    ELSE [sc EXCEPT !.pc = "done"]]
  /\ UNCHANGED <<cluster, data, env, view, poll, read, write, history>>

\* scan_partition, page after page of one partition, then the next partition;
\* a node without client or answer has an empty page
PartitionPage(s) ==
  /\ scan[s].pc = "shards" /\ scan[s].kind = "partitions" /\ scan[s].todo # {}
  /\ LET n == CHOOSE m \in scan[s].todo : TRUE
         page == IF Answers(n) THEN scan_buckets(n, Primaries(n), scan[s].after, AtMost(Limit, Cap)) ELSE {}
         sc == Collected(scan[s], page)
         left == scan[s].todo \ {n}
     IN  scan' = [scan EXCEPT ![s] =
                    IF Cardinality(page) >= Limit THEN [sc EXCEPT !.after = Max(page)]
                    ELSE [sc EXCEPT !.after = 0, !.todo = left, !.pc = IF left = {} THEN "done" ELSE @]]
  /\ UNCHANGED <<cluster, data, env, view, poll, read, write, history>>

\* RESP SCAN: the last key is the next cursor, and "0" tells the client it is done
RespPage(s) ==
  /\ scan[s].pc = "shards" /\ scan[s].kind = "resp"
  /\ LET n == CHOOSE m \in scan[s].todo : TRUE
         page == scan_range(n, scan[s].after, Limit)
         sc == Collected(scan[s], page)
     IN  /\ n \notin dead
         /\ scan' = [scan EXCEPT ![s] = IF Cardinality(page) < Limit \/ Max(page) = Zero
                                        THEN [sc EXCEPT !.pc = "done"]
                                        ELSE [sc EXCEPT !.after = Max(page)]]
  /\ UNCHANGED <<cluster, data, env, view, poll, read, write, history>>

ScanDone(s) ==
  /\ scan[s].pc = "done"
  /\ scan' = [scan EXCEPT ![s] = IdleScan]
  /\ UNCHANGED <<cluster, data, env, view, poll, read, write, history>>
-----------------------------------------------------------------------------
Committing == CommitEpoch \/ CommitNodes \/ CommitClients \/ \E b \in Buckets : MoveBucket(b)

Control ==
  \/ \E n \in Nodes : add_node(n) \/ NodeDies(n)
  \/ \E new \in Targets : Rebalance(new)
  \/ Committing
  \/ Restart

Refresh(r) == PollMembers(r) \/ PollEpoch(r) \/ SetClients(r) \/ SetNodes(r) \/ SetEpoch(r)

Reading(r) ==
  \/ \E kind \in {"get", "mget"}, k \in Keys : BeginRead(r, kind, k)
  \/ ReadCall(r)
  \/ ReadDone(r)

WriteStep(w) == BroadcastCall(w) \/ RmwPrimary(w) \/ ReplicaCall(w) \/ WriteDone(w)

Scanning(s) ==
  \/ \E kind \in ScanKinds \ {"resp"} : ScanStart(s, kind, {})
  \/ "resp" \in ScanKinds /\ \E n \in partitioner : ScanStart(s, "resp", n)
  \/ \E n \in Nodes : ScanShard(s, n)
  \/ ScanPage(s)
  \/ PartitionPage(s)
  \/ RespPage(s)
  \/ ScanDone(s)

Next ==
  \/ Control
  \/ \E r \in Refreshers : Refresh(r) \/ PollLost(r)
  \/ \E r \in Readers : Reading(r)
  \/ \E w \in Writers : WriteStep(w)
  \/ \E w \in Writers, kind \in WriteKinds, k \in Keys :
        \E arg \in WriteArgs(kind) : BeginWrite(w, kind, k, arg)
  \/ \E s \in Scanners : Scanning(s)

Spec == Init /\ [][Next]_vars

\* rebalances run to their end, and the refresher's loop never stops
FairSpec == Spec /\ WF_vars(Committing) /\ \A r \in Refreshers : WF_vars(Refresh(r))
-----------------------------------------------------------------------------
(***************************************************************************)
(* Properties.                                                             *)
(***************************************************************************)
\* A view that carries the coordinator's epoch is the coordinator's
\* membership once no change is under way: refresh may skip its update when
\* the epochs are equal.
EqualEpochsEqualViews ==
  Quiet /\ view.epoch = epoch /\ (\A r \in Refreshers : poll[r].pc \notin {"nodes", "store"})
    => InStep

\* When the membership stops changing, spawn_refresher's loop brings the view
\* in step with it for good, whatever polls were lost.
ViewConverges == <>[]Quiet => <>[]InStep

\* Under stable membership a read by the client returns the last value written
\* or one being written; mget, which does not fail over, may miss a key when
\* a shard is dead.  Keys once written through a view that was off are exempt.
DirectReadsAreRegular ==
  \A r \in Readers :
    read[r].pc = "done" /\ read[r].key \notin astray =>
      read[r].val \in read[r].legal \cup IF read[r].kind = "mget" /\ dead # {} THEN {Absent} ELSE {}

\* A key that is not being written, and was only ever written under stable
\* membership, is the same on all its live owners by the coordinator's routing:
\* a put, delete, cas or incr that went straight to the shards is what the
\* coordinator reads, and what a later rebalance carries along.
OwnersAgree ==
  \A k \in Keys : ~Writing(k) /\ k \notin astray =>
    \A n \in Range(owners(k)) \ dead : data[n][k] = truth[k]

\* Under stable membership a paginated scan returns every key that was there
\* all along, none that was never there, and none twice, across the pages and
\* the shards; partition tasks do not fail over and need every shard, and a RESP
\* client iterates over the keys of the one shard it is connected to.
ScansAreExact ==
  \A s \in Scanners :
    LET sc == scan[s]
    IN  sc.pc = "done" /\ (sc.kind = "partitions" => dead = {}) =>
          ~sc.twice /\ sc.must \ astray \subseteq sc.got /\ sc.got \ astray \subseteq sc.may
=============================================================================
