------------------------------- MODULE Ingest -------------------------------
(***************************************************************************)
(* ingest.rs: the durable write-ahead queue in front of the cluster.       *)
(* `queue` and `committed` are the two LMDB databases (the in-memory copy  *)
(* of the cursor differs from the disk only inside persist_committed);     *)
(* `next` and the drainer's variables are lost in a crash.                 *)
(*                                                                         *)
(* A queued op is named by its position in the history `accepted`, so that *)
(* a sequence number given out twice is told apart.  A stored value is a   *)
(* set: {} when the key is absent, {v} for an object, the members of a     *)
(* posting list otherwise.                                                 *)
(***************************************************************************)
EXTENDS Naturals, Sequences, FiniteSets, SequencesExt

CONSTANTS
  Keys, Values, Members,
  Limit,            \* the batch size of drain (1024 in spawn_drainer)
  MayRestartEmpty,  \* may the process restart when everything was trimmed?
  MaxOps,           \* bound: enqueued ops
  MaxCrashes,       \* bound: crashes
  MaxFails          \* bound: failed sink calls and failed trims

ASSUME IngestAssumption ==
  /\ Limit \in Nat \ {0}
  /\ MayRestartEmpty \in BOOLEAN
  /\ {MaxOps, MaxCrashes, MaxFails} \subseteq Nat
  /\ Values \cap Members = {}

VARIABLES
  queue,             \* queue[seq]: the op stored under seq
  committed,         \* the durable cursor
  next,              \* the next sequence number
  pc, ops, last_ok,  \* drain: its place, the rest of its batch, its progress
  doomed,            \* compact: the keys it has collected
  sink,              \* the cluster behind the queue
  accepted, applied, \* history: ops acknowledged, ops the sink took
  expected,          \* history: the sink had each op been applied when accepted
  crashes, fails

drainer == <<pc, ops, last_ok, doomed>>
vars == <<queue, committed, next, drainer, sink, accepted, applied, expected, crashes, fails>>

IngestOp ==
  [kind : {"put"}, key : Keys, arg : Values] \cup [kind : {"delete"}, key : Keys]
    \cup [kind : {"setAdd", "setRemove"}, key : Keys, arg : Members]

Store == [Keys -> SUBSET (Values \cup Members)]

TypeOK ==
  /\ DOMAIN queue \subseteq 1 .. Len(accepted)
  /\ queue \in [DOMAIN queue -> 1 .. Len(accepted)]
  /\ committed \in Nat /\ next \in Nat \ {0} /\ last_ok \in Nat
  /\ pc \in {"idle", "apply", "compact", "trim"}
  /\ DOMAIN ops \subseteq DOMAIN queue
  /\ ops \in [DOMAIN ops -> 1 .. Len(accepted)]
  /\ doomed \subseteq DOMAIN queue
  /\ sink \in Store /\ expected \in Store
  /\ accepted \in Seq(IngestOp)
  /\ applied \subseteq 1 .. Len(accepted)
  /\ crashes \in Nat /\ fails \in Nat

Nothing == [s \in {} |-> 0]

Init ==
  /\ queue = Nothing /\ committed = 0 /\ next = 1
  /\ pc = "idle" /\ ops = Nothing /\ last_ok = 0 /\ doomed = {}
  /\ sink = [k \in Keys |-> {}] /\ expected = sink
  /\ accepted = <<>> /\ applied = {}
  /\ crashes = 0 /\ fails = 0
-----------------------------------------------------------------------------
\* what the sink's write path makes of the value under the op's key: set_add
\* starts an empty list over an object, set_remove leaves an object alone and
\* deletes the key with its last member
Effect(op, value) ==
  CASE op.kind = "put"       -> {op.arg}
    [] op.kind = "delete"    -> {}
    [] op.kind = "setAdd"    -> (value \cap Members) \cup {op.arg}
    [] op.kind = "setRemove" -> value \ {op.arg}

ApplyOp(store, op) == [store EXCEPT ![op.key] = Effect(op, @)]

\* a plausible slip: acknowledged before it is stored
MutEnqueue(op) ==
  /\ Len(accepted) < MaxOps
  /\ accepted' = Append(accepted, op)
  /\ expected' = ApplyOp(expected, op)
  /\ next' = next + 1
  /\ UNCHANGED <<queue, committed, drainer, sink, applied, crashes, fails>>

\* under the lock of `next`; the commit is the acknowledgement point
enqueue(op) ==
  /\ Len(accepted) < MaxOps
  /\ accepted' = Append(accepted, op)
  /\ queue' = [s \in DOMAIN queue \cup {next} |-> IF s = next THEN Len(accepted) + 1 ELSE queue[s]]
  /\ next' = next + 1
  /\ expected' = ApplyOp(expected, op)
  /\ UNCHANGED <<committed, drainer, sink, applied, crashes, fails>>

\* the first Limit queued ops past the cursor
read_uncommitted ==
  LET past == {s \in DOMAIN queue : s > committed}
  IN  [s \in {s \in past : Cardinality({t \in past : t <= s}) <= Limit} |-> queue[s]]

\* a plausible slip: the early return of compact without a cursor, taken over by drain
MutDrainRead ==
  /\ pc = "idle" /\ read_uncommitted # Nothing
  /\ last_ok' = committed
  /\ ops' = IF committed = 0 THEN Nothing ELSE read_uncommitted
  /\ pc' = "apply"
  /\ UNCHANGED <<queue, committed, next, doomed, sink, accepted, applied, expected, crashes, fails>>

\* one iteration of spawn_drainer: read the cursor and a batch
DrainRead ==
  /\ pc = "idle"
  /\ last_ok' = committed
  /\ ops' = read_uncommitted
  /\ ops' # Nothing
  /\ pc' = "apply"
  /\ UNCHANGED <<queue, committed, next, doomed, sink, accepted, applied, expected, crashes, fails>>

Without(s) == [t \in DOMAIN ops \ {s} |-> ops[t]]

\* a plausible slip: the batch is applied newest first
MutApplyOk(s) ==
  /\ pc = "apply" /\ \A t \in DOMAIN ops : t <= s
  /\ sink' = ApplyOp(sink, accepted[ops[s]])
  /\ applied' = applied \cup {ops[s]}
  /\ last_ok' = s
  /\ ops' = Without(s)
  /\ UNCHANGED <<queue, committed, next, pc, doomed, accepted, expected, crashes, fails>>

ApplyOk(s) ==
  /\ pc = "apply" /\ \A t \in DOMAIN ops : s <= t
  /\ sink' = ApplyOp(sink, accepted[ops[s]])
  /\ applied' = applied \cup {ops[s]}
  /\ last_ok' = s
  /\ ops' = Without(s)
  /\ UNCHANGED <<queue, committed, next, pc, doomed, accepted, expected, crashes, fails>>

\* the sink reports an error: the rest of the batch waits for the next drain
ApplyFails(s) ==
  /\ pc = "apply" /\ fails < MaxFails /\ \A t \in DOMAIN ops : s <= t
  /\ fails' = fails + 1
  /\ ops' = Nothing
  /\ UNCHANGED <<queue, committed, next, pc, last_ok, doomed, sink, accepted, applied, expected, crashes>>

\* nothing of the batch succeeded
DrainNothing ==
  /\ pc = "apply" /\ ops = Nothing /\ last_ok = committed
  /\ pc' = "idle"
  /\ UNCHANGED <<queue, committed, next, ops, last_ok, doomed, sink, accepted, applied, expected,
                 crashes, fails>>

persist_committed ==
  /\ pc = "apply" /\ ops = Nothing /\ last_ok > committed
  /\ committed' = last_ok
  /\ pc' = "compact"
  /\ UNCHANGED <<queue, next, ops, last_ok, doomed, sink, accepted, applied, expected, crashes, fails>>

\* a plausible slip: the trim looks at the head of the log, not at the cursor
MutCompactRead ==
  /\ pc = "compact"
  /\ doomed' = DOMAIN queue
  /\ pc' = "trim"
  /\ UNCHANGED <<queue, committed, next, ops, last_ok, sink, accepted, applied, expected, crashes, fails>>

\* compact: collect the applied keys ...
CompactRead ==
  /\ pc = "compact"
  /\ doomed' = {s \in DOMAIN queue : s <= committed}
  /\ pc' = "trim"
  /\ UNCHANGED <<queue, committed, next, ops, last_ok, sink, accepted, applied, expected, crashes, fails>>

\* ... and delete them in one transaction
CompactDelete ==
  /\ pc = "trim"
  /\ queue' = [s \in DOMAIN queue \ doomed |-> queue[s]]
  /\ doomed' = {}
  /\ pc' = "idle"
  /\ UNCHANGED <<committed, next, ops, last_ok, sink, accepted, applied, expected, crashes, fails>>

\* ... unless that transaction fails: the entries stay for the next drain
CompactFails ==
  /\ pc = "trim" /\ fails < MaxFails
  /\ fails' = fails + 1
  /\ doomed' = {}
  /\ pc' = "idle"
  /\ UNCHANGED <<queue, committed, next, ops, last_ok, sink, accepted, applied, expected, crashes>>

\* crash or stop at any point, and open: the next number follows the last key
open ==
  /\ crashes < MaxCrashes
  /\ MayRestartEmpty \/ DOMAIN queue # {} \/ committed = 0
  /\ crashes' = crashes + 1
  /\ \/ DOMAIN queue = {} /\ next' = 1
     \/ \E last \in DOMAIN queue : (\A s \in DOMAIN queue : s <= last) /\ next' = last + 1
  /\ pc' = "idle" /\ ops' = Nothing /\ last_ok' = 0 /\ doomed' = {}
  /\ UNCHANGED <<queue, committed, sink, accepted, applied, expected, fails>>
-----------------------------------------------------------------------------
DrainStep ==
  \/ DrainRead \/ DrainNothing \/ persist_committed
  \/ (\E s \in DOMAIN ops : ApplyOk(s))
  \/ CompactRead \/ CompactDelete

\* drain finds nothing past the cursor
DrainIdle ==
  /\ pc = "idle" /\ read_uncommitted = Nothing
  /\ UNCHANGED vars

Next ==
  \/ \E op \in IngestOp : enqueue(op)
  \/ DrainStep
  \/ \E s \in DOMAIN ops : ApplyFails(s)
  \/ CompactFails
  \/ open
  \/ DrainIdle

Spec == Init /\ [][Next]_vars

\* spawn_drainer loops forever
FairSpec == Spec /\ WF_vars(DrainStep)
-----------------------------------------------------------------------------
(***************************************************************************)
(* "once this returns, the write survives a crash" (ingest.rs:80): an      *)
(* acknowledged op has reached the sink or is queued past the cursor,      *)
(* where a drain will find it.                                             *)
(***************************************************************************)
NothingLost ==
  \A i \in 1 .. Len(accepted) :
    i \in applied \/ \E s \in DOMAIN queue : s > committed /\ queue[s] = i

(***************************************************************************)
(* "in order ... Stops at the first failure" (ingest.rs:185-186): the sink *)
(* never takes an op while an older one has not reached it, across         *)
(* failures, batches and restarts.                                         *)
(***************************************************************************)
AppliedInOrder == \A i \in applied : 1 .. i \subseteq applied

(***************************************************************************)
(* "Idempotent replay makes a partial drain safe" (ingest.rs:187): from    *)
(* every state, replaying what is queued past the cursor over the sink     *)
(* gives what applying each op once, in order, gives, although part of it  *)
(* may have been applied already.                                          *)
(***************************************************************************)
ReplayConverges ==
  LET past == {s \in DOMAIN queue : s > committed}
      redo(s, store) == ApplyOp(store, accepted[queue[s]])
  IN  MapThenFoldSet(redo, sink, LAMBDA s : s, Max, past) = expected

(***************************************************************************)
(* "at-least-once delivery" (ingest.rs:9): every acknowledged op is        *)
(* eventually applied, after failures and restarts.                        *)
(***************************************************************************)
AtLeastOnce == \A i \in 1 .. MaxOps : i <= Len(accepted) ~> i \in applied
=============================================================================
