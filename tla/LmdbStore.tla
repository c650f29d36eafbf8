------------------------------ MODULE LmdbStore ------------------------------
(***************************************************************************)
(* lmdb.rs: one shard's durable store, with per-key expiry.  The shard's   *)
(* write lock is held for a whole call, so readers see the state between   *)
(* calls; but a call that needs two LMDB transactions can be cut in two by *)
(* a crash, so every transaction is a step.                                *)
(*                                                                         *)
(* The environment runs with NO_SYNC.  `tail` holds what each commit since *)
(* the last sync left: its last element is what the process reads and what *)
(* survives a crash of the process, and a power loss leaves any one of     *)
(* them (LMDB's copy-on-write keeps the order of commits).                 *)
(***************************************************************************)
EXTENDS Integers, Sequences, FiniteSetsExt

CONSTANTS
  Keys,         \* in the order of the database
  Values, None,
  SYNC_EVERY,
  TTLs,         \* the ttl_ms that clients pass, in ticks
  MaxNow,       \* bound: the clock
  MaxCalls,     \* bound: acknowledged write calls
  MaxCrashes    \* bound: process crashes and power losses

ASSUME LmdbAssumption ==
  /\ Keys \subseteq Nat \ {0} /\ IsFiniteSet(Keys)
  /\ None \notin Values /\ None \notin Int
  /\ SYNC_EVERY \in Nat \ {0}
  /\ TTLs \subseteq Nat \ {0}
  /\ {MaxNow, MaxCalls, MaxCrashes} \subseteq Nat

VARIABLES
  tail,         \* the committed environments since the last sync
  has_any_ttl, writes,
  pc, key, at,  \* the call in progress: its place, its key, its deadline
  dead,         \* sweep_expired: the keys it has collected
  now,
  acked,        \* write calls acknowledged
  reopened,     \* history: unsynced restarts since the last sync
  crashes

volatile == <<has_any_ttl, writes, pc, key, at, dead>>
vars == <<tail, volatile, now, acked, reopened, crashes>>

Time == Nat
Promise == [val : Values \cup {None}, until : {None} \cup Time]

(***************************************************************************)
(* An environment: the object and the expiry databases.  history: what the *)
(* clients were told about each key (`want`: MemoryStore, where a call is  *)
(* one step, would hold exactly this) and how many calls it reflects.      *)
(***************************************************************************)
Env == [obj : [Keys -> Values \cup {None}], exp : [Keys -> {None} \cup Time],
        want : [Keys -> Promise], calls : Nat]

env == tail[Len(tail)]

TypeOK ==
  /\ tail \in Seq(Env) /\ tail # <<>>
  /\ has_any_ttl \in BOOLEAN /\ writes \in Nat
  /\ pc \in {"idle", "clear", "stamp", "sweep"}
  /\ pc \in {"clear", "stamp"} => key \in Keys
  /\ at \in Time /\ dead \subseteq Keys
  /\ now \in 0 .. MaxNow /\ acked \in Nat /\ reopened \in Nat /\ crashes \in Nat

Nothing == [val |-> None, until |-> None]

Init ==
  /\ tail = <<[obj |-> [k \in Keys |-> None], exp |-> [k \in Keys |-> None],
               want |-> [k \in Keys |-> Nothing], calls |-> 0]>>
  /\ has_any_ttl = FALSE /\ writes = 0
  /\ pc = "idle" /\ key = (CHOOSE k \in Keys : TRUE) /\ at = 0 /\ dead = {}
  /\ now = 0 /\ acked = 0 /\ reopened = 0 /\ crashes = 0
-----------------------------------------------------------------------------
\* is_expired and get_object on a pair of databases
IsExpired(o, k) == o.exp[k] # None /\ o.exp[k] <= now
is_expired(k) == has_any_ttl /\ IsExpired(env, k)
get_object(k) == IF is_expired(k) THEN None ELSE env.obj[k]

\* a plausible slip: an expired key takes up a place in the page
MutScanRange(after, first, last, limit) ==
  LET walk[k \in 1 .. Max(Keys) + 1] == [left \in 0 .. limit |->
        IF k > Max(Keys) \/ left = 0 \/ k > last THEN {}
        ELSE IF k \in Keys /\ env.obj[k] # None
        THEN (IF is_expired(k) THEN {} ELSE {k}) \cup walk[k + 1][left - 1]
        ELSE walk[k + 1][left]]
  IN  walk[Max({after + 1, first})][limit]

\* scan_range: from the cursor or the start of the prefix, whichever is later,
\* until the page is full or the prefix ends; first .. last are the keys of the prefix
scan_range(after, first, last, limit) ==
  LET walk[k \in 1 .. Max(Keys) + 1] == [left \in 0 .. limit |->
        IF k > Max(Keys) \/ left = 0 \/ k > last THEN {}
        ELSE IF k \in Keys /\ env.obj[k] # None /\ ~is_expired(k)
        THEN {k} \cup walk[k + 1][left - 1]
        ELSE walk[k + 1][left]]
  IN  walk[Max({after + 1, first})][limit]

\* a commit without a sync
Commit(e) == tail' = Append(tail, e) /\ UNCHANGED <<writes, reopened>>

\* a plausible slip: the threshold is tested after the count was taken
MutCommitSync(e) ==
  /\ writes' = writes + 1
  /\ IF writes % SYNC_EVERY = SYNC_EVERY THEN tail' = <<e>> /\ reopened' = 0
     ELSE tail' = Append(tail, e) /\ UNCHANGED reopened

\* a commit followed by maybe_sync: every SYNC_EVERY-th of them is synced
CommitSync(e) ==
  /\ writes' = writes + 1
  /\ IF writes % SYNC_EVERY = SYNC_EVERY - 1 THEN tail' = <<e>> /\ reopened' = 0
     ELSE tail' = Append(tail, e) /\ UNCHANGED reopened

\* what the databases now say of k, when they are all there is to go by
Found(obj, exp, k) == [val |-> obj[k], until |-> exp[k]]

\* the environment after a first transaction: k is in doubt if it is the last
Halfway(obj, k) == [env EXCEPT !.obj = obj, !.want[k] = Found(obj, env.exp, k)]

\* the environment after the last transaction of a call that promised p for k
Done(e, k, p) == [e EXCEPT !.want[k] = p, !.calls = acked + 1]

Idle(k) == pc' = "idle" /\ key' = k /\ at' = 0 /\ dead' = {}
Ack == acked' = acked + 1
-----------------------------------------------------------------------------
\* put_object and delete_object: one transaction, and another to clear the
\* expiry if any key may have one (v = None: delete; the collection exists)
WriteObject(k, v) ==
  /\ pc = "idle" /\ acked < MaxCalls
  /\ LET obj == [env.obj EXCEPT ![k] = v]
     IN  IF has_any_ttl
         THEN /\ CommitSync(Halfway(obj, k))
              /\ pc' = "clear" /\ key' = k
              /\ UNCHANGED <<at, dead, acked>>
         ELSE /\ CommitSync(Done([env EXCEPT !.obj = obj], k, [val |-> v, until |-> None]))
              /\ Idle(k) /\ Ack
  /\ UNCHANGED <<has_any_ttl, now, crashes>>

put_object(k, v) == WriteObject(k, v)
delete_object(k) == WriteObject(k, None)

\* a plausible slip: the entry stays when it belongs to the future
MutClearExpiry ==
  /\ pc = "clear"
  /\ LET exp == [env.exp EXCEPT ![key] = IF IsExpired(env, key) THEN None ELSE @]
     IN  Commit(Done([env EXCEPT !.exp = exp], key, [val |-> env.obj[key], until |-> None]))
  /\ Idle(key) /\ Ack
  /\ UNCHANGED <<has_any_ttl, now, crashes>>

clear_expiry ==
  /\ pc = "clear"
  /\ LET exp == [env.exp EXCEPT ![key] = None]
     IN  Commit(Done([env EXCEPT !.exp = exp], key, [val |-> env.obj[key], until |-> None]))
  /\ Idle(key) /\ Ack
  /\ UNCHANGED <<has_any_ttl, now, crashes>>

\* put_object_at: the object, then its deadline
put_object_at(k, v, ttl) ==
  /\ pc = "idle" /\ acked < MaxCalls
  /\ CommitSync(Halfway([env.obj EXCEPT ![k] = v], k))
  /\ pc' = "stamp" /\ key' = k /\ at' = now + ttl
  /\ UNCHANGED <<has_any_ttl, dead, now, acked, crashes>>

StampExpiry ==
  /\ pc = "stamp"
  /\ LET exp == [env.exp EXCEPT ![key] = at]
     IN  CommitSync(Done([env EXCEPT !.exp = exp], key, [val |-> env.obj[key], until |-> at]))
  /\ has_any_ttl' = TRUE
  /\ Idle(key) /\ Ack
  /\ UNCHANGED <<now, crashes>>

\* put_batch: all objects, and their expiries if there are any, in one transaction
put_batch(items) ==
  /\ pc = "idle" /\ acked < MaxCalls
  /\ CommitSync([obj |-> [k \in Keys |-> IF k \in DOMAIN items THEN items[k] ELSE env.obj[k]],
                 exp |-> [k \in Keys |-> IF has_any_ttl /\ k \in DOMAIN items THEN None
                                         ELSE env.exp[k]],
                 want |-> [k \in Keys |-> IF k \in DOMAIN items
                                          THEN [val |-> items[k], until |-> None] ELSE env.want[k]],
                 calls |-> acked + 1])
  /\ Ack
  /\ UNCHANGED <<has_any_ttl, pc, key, at, dead, now, crashes>>

SweepOf(keys) ==
  /\ pc = "idle"
  /\ dead' = IF has_any_ttl THEN keys ELSE {}
  /\ pc' = IF dead' = {} THEN "idle" ELSE "sweep"
  /\ UNCHANGED <<tail, has_any_ttl, writes, key, at, now, acked, reopened, crashes>>

\* a plausible slip: the deadline is compared the wrong way round
MutSweepExpired == SweepOf({k \in Keys : env.exp[k] # None /\ env.exp[k] > now})

\* sweep_expired: collect, then one transaction per key
sweep_expired == SweepOf({k \in Keys : IsExpired(env, k)})

SweepKey(k) ==
  /\ pc = "sweep" /\ k \in dead
  /\ LET e == [env EXCEPT !.obj[k] = None, !.exp[k] = None]
     IN  IF dead = {k} THEN CommitSync(e) /\ Idle(key)
         ELSE Commit(e) /\ dead' = dead \ {k} /\ UNCHANGED <<pc, key, at>>
  /\ UNCHANGED <<has_any_ttl, now, acked, crashes>>

\* the flush before a hot backup copies the environment
snapshot ==
  /\ pc = "idle" /\ Len(tail) > 1
  /\ tail' = <<env>> /\ reopened' = 0
  /\ UNCHANGED <<volatile, now, acked, crashes>>
-----------------------------------------------------------------------------
\* a plausible slip: the guard of the expiry path starts out unset
MutOpen(e) ==
  /\ has_any_ttl' = FALSE
  /\ writes' = 0
  /\ pc' = "idle" /\ key' = key /\ at' = 0 /\ dead' = {}

\* open on the environment e: recover the guard from the expiry database
open(e) ==
  /\ has_any_ttl' = \E k \in Keys : e.exp[k] # None
  /\ writes' = 0
  /\ pc' = "idle" /\ key' = key /\ at' = 0 /\ dead' = {}

\* Drop: a clean shutdown flushes; then the shard is started again
CleanRestart ==
  /\ pc = "idle" /\ crashes < MaxCrashes
  /\ tail' = <<env>> /\ reopened' = 0
  /\ open(env)
  /\ crashes' = crashes + 1
  /\ UNCHANGED <<now, acked>>

\* the process dies between two transactions; the page cache survives
ProcessCrash ==
  /\ crashes < MaxCrashes
  /\ crashes' = crashes + 1
  /\ reopened' = reopened + 1
  /\ open(env)
  /\ UNCHANGED <<tail, now, acked>>

PowerLoss(i) ==
  /\ crashes < MaxCrashes
  /\ crashes' = crashes + 1
  /\ tail' = <<tail[i]>> /\ reopened' = 0
  /\ acked' = tail[i].calls
  /\ open(tail[i])
  /\ UNCHANGED now

Tick ==
  /\ now < MaxNow
  /\ now' = now + 1
  /\ UNCHANGED <<tail, volatile, acked, reopened, crashes>>
-----------------------------------------------------------------------------
Batches == UNION {[ks -> Values] : ks \in SUBSET Keys \ {{}}}

Sweep == sweep_expired \/ \E k \in dead : SweepKey(k)

Next ==
  \/ \E k \in Keys, v \in Values : put_object(k, v)
  \/ \E k \in Keys : delete_object(k)
  \/ \E k \in Keys, v \in Values, ttl \in TTLs : put_object_at(k, v, ttl)
  \/ clear_expiry \/ StampExpiry
  \/ \E items \in Batches : put_batch(items)
  \/ Sweep
  \/ snapshot
  \/ CleanRestart \/ ProcessCrash \/ \E i \in 1 .. Len(tail) : PowerLoss(i)
  \/ Tick

Spec == Init /\ [][Next]_vars

(***************************************************************************)
(* A call that holds the lock finishes, and the sweeper task (stplrd.rs)   *)
(* comes round every ten seconds.  Nobody is obliged to call.              *)
(***************************************************************************)
FairSpec == Spec /\ WF_vars(clear_expiry \/ StampExpiry) /\ WF_vars(Sweep)
-----------------------------------------------------------------------------
(***************************************************************************)
(* The fast path that skips the expiry database (lmdb.rs:40) is sound:     *)
(* while it is taken no key has an expiry, in this process or in the       *)
(* environment an earlier one left behind.                                 *)
(***************************************************************************)
FlagCoversExpiry == ~has_any_ttl => \A k \in Keys : env.exp[k] = None

(***************************************************************************)
(* Between calls every key reads as its last acknowledged write says: the  *)
(* value until its deadline and absent from then on, a plain write or a    *)
(* batched one clears the deadline, and sweeping changes no answer.  After *)
(* a power loss this holds of the writes that were committed by then; a    *)
(* write that a crash cut in two leaves what its first transaction wrote.  *)
(***************************************************************************)
TtlHonoured ==
  pc = "idle" => \A k \in Keys :
    LET p == env.want[k]
    IN  get_object(k) = IF p.until # None /\ p.until <= now THEN None ELSE p.val

(***************************************************************************)
(* A page of scan_range holds exactly the smallest keys after the cursor   *)
(* that get_object finds, so that a short page means there are no more:    *)
(* keys that expired and were not swept yet neither show up in a page nor  *)
(* use up its places, with the guard of the expiry path on or off.         *)
(***************************************************************************)
ScansAgreeWithReads ==
  pc = "idle" =>
    \A after \in Keys \cup {0}, first, last \in Keys, limit \in 1 .. Cardinality(Keys) :
      LET found == {k \in Keys : k > after /\ k \in first .. last /\ get_object(k) # None}
      IN  scan_range(after, first, last, limit)
            = {k \in found : Cardinality({j \in found : j < k}) < limit}

(***************************************************************************)
(* "A hard crash loses at most ~that many recent writes" (lmdb.rs:12): a   *)
(* power loss takes back at most SYNC_EVERY acknowledged calls, a group    *)
(* commit counting as one; each crash of the process since the last sync   *)
(* lets the count begin anew.                                              *)
(***************************************************************************)
LossBounded == acked - tail[1].calls <= SYNC_EVERY * (reopened + 1)

(***************************************************************************)
(* "a background sweeper reclaims it" (README.md:75): an entry past its    *)
(* deadline does not stay on disk, also when a crash cuts the sweep short. *)
(***************************************************************************)
ExpiredReclaimed == \A k \in Keys : IsExpired(env, k) ~> ~IsExpired(env, k)
=============================================================================
