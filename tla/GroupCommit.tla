----------------------------- MODULE GroupCommit -----------------------------
(***************************************************************************)
(* proto.rs and resp.rs: the binary protocol's connections, the one writer *)
(* task that their SETs funnel into, and the commands of both protocols    *)
(* that take the shard's lock themselves and are one step.  A connection   *)
(* serves one request at a time.  An object is a number (a JSON number or  *)
(* a numeric string, which incr does not tell apart) or an array of        *)
(* members.                                                                *)
(***************************************************************************)
EXTENDS Integers, Sequences, FiniteSets, SequencesExt

CONSTANTS
  Conns, Keys, None,
  Values,     \* 0..n (incr wraps at the top, as i64 does)
  Members,    \* members of sets
  Puts,       \* bound: the <<key, value>> pairs that clients SET
  SetKeys,    \* bound: the keys that set commands name
  MaxArgs,    \* bound: arguments of one SADD or SREM
  BATCH_MAX, CHAN_CAP,
  MayPanic    \* may write_batch panic (a full or failing disk)?

ASSUME GroupCommitAssumption ==
  /\ BATCH_MAX \in Nat \ {0} /\ CHAN_CAP \in Nat \ {0}
  /\ MayPanic \in BOOLEAN
  /\ Values = 0 .. Cardinality(Values) - 1 /\ None \notin Values /\ None \notin Conns
  /\ Puts \subseteq Keys \X Values /\ SetKeys \subseteq Keys /\ MaxArgs \in Nat

VARIABLES
  store,          \* the shard's objects
  pc, asked,      \* per connection: its place, its SET in progress (or None)
  chan,           \* the channel: connections whose WriteReq is queued
  wpc,            \* the writer task
  batch, replies  \* connections in the writer's batch, and still to be told

vars == <<store, pc, asked, chan, wpc, batch, replies>>

Waiting == {"send", "wait", "told"}

Num(v) == <<"number", v>>
Arr(ms) == <<"array", ms>>
Arrays == {Arr(ms) : ms \in UNION {[1 .. n -> Members] : n \in 1 .. Cardinality(Members)}}
Arguments == UNION {[1 .. n -> Members] : n \in 1 .. MaxArgs}

TypeOK ==
  /\ store \in [Keys -> {Num(v) : v \in Values} \cup Arrays \cup {None}]
  /\ pc \in [Conns -> {"idle", "closed"} \cup Waiting]
  /\ asked \in [Conns -> (Keys \X Values) \cup {None}]
  /\ chan \in Seq(Conns) /\ Len(chan) <= CHAN_CAP
  /\ wpc \in {"recv", "sweep", "reply", "gone"}
  /\ batch \in Seq(Conns) /\ Len(batch) <= BATCH_MAX
  /\ replies \subseteq Conns

Init ==
  /\ store = [k \in Keys |-> None]
  /\ pc = [c \in Conns |-> "idle"]
  /\ asked = [c \in Conns |-> None]
  /\ chan = <<>> /\ wpc = "recv" /\ batch = <<>> /\ replies = {}
-----------------------------------------------------------------------------
\* a panic while the writer holds the shard's lock poisons it
Poisoned == wpc = "gone"

\* the accept loop takes a new connection; a client closes its own
Connect(c) ==
  /\ pc[c] = "closed"
  /\ pc' = [pc EXCEPT ![c] = "idle"]
  /\ UNCHANGED <<store, asked, chan, wpc, batch, replies>>

Close(c) ==
  /\ pc[c] = "idle"
  /\ pc' = [pc EXCEPT ![c] = "closed"]
  /\ UNCHANGED <<store, asked, chan, wpc, batch, replies>>

\* OP_SET: the request is read
Set(c, k, v) ==
  /\ pc[c] = "idle"
  /\ pc' = [pc EXCEPT ![c] = "send"]
  /\ asked' = [asked EXCEPT ![c] = <<k, v>>]
  /\ UNCHANGED <<store, chan, wpc, batch, replies>>

\* wtx.send: waits for room in the channel; an error closes the connection
Send(c) ==
  /\ pc[c] = "send"
  /\ \/ /\ wpc # "gone" /\ Len(chan) < CHAN_CAP
        /\ chan' = Append(chan, c)
        /\ pc' = [pc EXCEPT ![c] = "wait"]
        /\ UNCHANGED asked
     \/ /\ wpc = "gone"
        /\ pc' = [pc EXCEPT ![c] = "closed"]
        /\ asked' = [asked EXCEPT ![c] = None]
        /\ UNCHANGED chan
  /\ UNCHANGED <<store, wpc, batch, replies>>

\* a plausible slip: the reply is not awaited
MutAckSet(c) ==
  /\ pc[c] \in {"wait", "told"}
  /\ pc' = [pc EXCEPT ![c] = "idle"]
  /\ asked' = [asked EXCEPT ![c] = None]
  /\ UNCHANGED <<store, chan, wpc, batch, replies>>

\* rrx.await returns, with the writer's answer or because its sender was
\* dropped (both are ignored), and ST_OK is written
AckSet(c) ==
  /\ pc[c] = "told" \/ (pc[c] = "wait" /\ wpc = "gone")
  /\ pc' = [pc EXCEPT ![c] = "idle"]
  /\ asked' = [asked EXCEPT ![c] = None]
  /\ UNCHANGED <<store, chan, wpc, batch, replies>>

\* what IndexStore makes of the objects s; incr leaves an array alone
delete_object(s, k) == [s EXCEPT ![k] = None]

incr(s, k, delta) ==
  LET cur == IF s[k] = None THEN 0 ELSE s[k][2]
  IN  IF s[k] # None /\ s[k][1] = "array" THEN s
      ELSE [s EXCEPT ![k] = Num((cur + delta) % Cardinality(Values))]

\* anything but an array of members counts as the empty one
set_members(s, k) == IF s[k] # None /\ s[k][1] = "array" THEN s[k][2] ELSE <<>>

set_add(s, k, m) ==
  IF Contains(set_members(s, k), m) THEN s
  ELSE [s EXCEPT ![k] = Arr(Append(set_members(s, k), m))]

set_remove(s, k, m) ==
  LET arr == SelectSeq(set_members(s, k), LAMBDA x : x # m)
  IN  IF arr = set_members(s, k) THEN s
      ELSE IF arr = <<>> THEN delete_object(s, k) ELSE [s EXCEPT ![k] = Arr(arr)]

\* OP_DEL, OP_SADD, OP_SREM: a poisoned lock ends the connection's task
Locked(c, new) ==
  /\ pc[c] = "idle"
  /\ IF Poisoned THEN pc' = [pc EXCEPT ![c] = "closed"] /\ UNCHANGED store
     ELSE store' = new /\ UNCHANGED pc
  /\ UNCHANGED <<asked, chan, wpc, batch, replies>>

Del(c, k) == Locked(c, delete_object(store, k))
SAdd(c, k, m) == Locked(c, set_add(store, k, m))
SRem(c, k, m) == Locked(c, set_remove(store, k, m))

\* a RESP command: its connection keeps no state, and ends on a poisoned lock
Resp(new) ==
  /\ ~Poisoned
  /\ store' = new
  /\ UNCHANGED <<pc, asked, chan, wpc, batch, replies>>

\* SET; GETSET, which reads the old value under the same guard
RespSet(k, v) == Resp([store EXCEPT ![k] = Num(v)])

\* DEL: the keys that are there, under one guard
RespDel(ks) == Resp(FoldSet(LAMBDA k, s : IF s[k] # None THEN delete_object(s, k) ELSE s, store, ks))

\* INCR, DECR, INCRBY, DECRBY
RespIncr(k, delta) == Resp(incr(store, k, delta))

RespSAdd(k, ms) == Resp(FoldLeft(LAMBDA s, m : set_add(s, k, m), store, ms))
RespSRem(k, ms) == Resp(FoldLeft(LAMBDA s, m : set_remove(s, k, m), store, ms))
-----------------------------------------------------------------------------
\* recv().await: the first request of a batch
Recv ==
  /\ wpc = "recv" /\ chan # <<>>
  /\ batch' = <<Head(chan)>> /\ chan' = Tail(chan)
  /\ wpc' = "sweep"
  /\ UNCHANGED <<store, pc, asked, replies>>

\* try_recv: whatever else is queued by now
TryRecv ==
  /\ wpc = "sweep" /\ Len(batch) < BATCH_MAX /\ chan # <<>>
  /\ batch' = Append(batch, Head(chan)) /\ chan' = Tail(chan)
  /\ UNCHANGED <<store, pc, asked, wpc, replies>>

BatchReady == wpc = "sweep" /\ (Len(batch) = BATCH_MAX \/ chan = <<>>)

\* Shard::write_batch: the objects in the order of the batch
Written ==
  FoldLeft(LAMBDA s, c : [s EXCEPT ![asked[c][1]] = Num(asked[c][2])], store, batch)

WriteBatch ==
  /\ BatchReady
  /\ store' = Written
  /\ replies' = Range(batch) /\ batch' = <<>>
  /\ wpc' = "reply"
  /\ UNCHANGED <<pc, asked, chan>>

\* write_batch panics: the task ends, its receiver and reply senders are dropped
WriterPanics ==
  /\ MayPanic /\ BatchReady
  /\ wpc' = "gone"
  /\ chan' = <<>> /\ batch' = <<>>
  /\ UNCHANGED <<store, pc, asked, replies>>

\* a plausible slip: only one of the batch is told
MutReply(c) ==
  /\ wpc = "reply" /\ c \in replies
  /\ pc' = [pc EXCEPT ![c] = "told"]
  /\ replies' = {}
  /\ UNCHANGED <<store, asked, chan, wpc, batch>>

Reply(c) ==
  /\ wpc = "reply" /\ c \in replies
  /\ pc' = [pc EXCEPT ![c] = "told"]
  /\ replies' = replies \ {c}
  /\ UNCHANGED <<store, asked, chan, wpc, batch>>

RepliesDone ==
  /\ wpc = "reply" /\ replies = {}
  /\ wpc' = "recv"
  /\ UNCHANGED <<store, pc, asked, chan, batch, replies>>
-----------------------------------------------------------------------------
Writer == Recv \/ TryRecv \/ WriteBatch \/ (\E c \in replies : Reply(c)) \/ RepliesDone

Next ==
  \/ \E c \in Conns, p \in Puts : Set(c, p[1], p[2])
  \/ \E c \in Conns, k \in Keys : Del(c, k)
  \/ \E c \in Conns, k \in SetKeys, m \in Members : SAdd(c, k, m) \/ SRem(c, k, m)
  \/ \E p \in Puts : RespSet(p[1], p[2])
  \/ \E ks \in SUBSET Keys \ {{}} : RespDel(ks)
  \/ \E k \in Keys : RespIncr(k, 1) \/ RespIncr(k, -1)
  \/ \E k \in SetKeys, ms \in Arguments : RespSAdd(k, ms) \/ RespSRem(k, ms)
  \/ \E c \in Conns : Connect(c) \/ Close(c) \/ Send(c) \/ AckSet(c)
  \/ Writer
  \/ WriterPanics

Spec == Init /\ [][Next]_vars

(***************************************************************************)
(* The runtime polls every task that can go on.  A sender that waits for   *)
(* room is served in turn (tokio's channel hands out permits first come    *)
(* first served): strong fairness.  Clients need not ask.                  *)
(***************************************************************************)
FairSpec ==
  /\ Spec
  /\ WF_vars(Writer)
  /\ \A c \in Conns : SF_vars(Send(c)) /\ WF_vars(AckSet(c))
-----------------------------------------------------------------------------
(***************************************************************************)
(* "the value is durable+visible before we ack" (proto.rs): batched SETs   *)
(* take effect between request and answer, once, in an order that keeps    *)
(* answered ones before later ones; see SetContract.  A writer that        *)
(* panicked answers nobody, and proto.rs takes that for success.           *)
(***************************************************************************)
Object(e) == IF e = None \/ e[1] = "number" THEN e ELSE <<"set", Range(e[2]), Len(e[2])>>
Contract == INSTANCE SetContract WITH
  store <- [k \in Keys |-> Object(store[k])],
  applied <- {c \in Conns : pc[c] = "told" \/ c \in replies},
  failed <- wpc = "gone"
ImplementsSet == Contract!SetSpec

(***************************************************************************)
(* Every connection with a SET in progress is somewhere the writer will    *)
(* find it: waiting for room, queued once, in the batch once, or about to  *)
(* be told; nobody is answered twice and no request is dropped.            *)
(***************************************************************************)
Occurrences(s, c) == Cardinality({i \in DOMAIN s : s[i] = c})
OnePlace ==
  wpc # "gone" => \A c \in Conns :
    Occurrences(chan, c) + Occurrences(batch, c) + (IF c \in replies THEN 1 ELSE 0)
      = IF pc[c] = "wait" THEN 1 ELSE 0

(***************************************************************************)
(* Every SET is answered, or its connection closed, also when the channel  *)
(* is full, batches are smaller than the queue and the writer panics.      *)
(***************************************************************************)
SetsReturn == \A c \in Conns : pc[c] = "send" ~> pc[c] \in {"idle", "closed"}
=============================================================================
