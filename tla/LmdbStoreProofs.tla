--------------------------- MODULE LmdbStoreProofs ---------------------------
(***************************************************************************)
(* Proofs about LmdbStore: what a key reads as, what a page of a scan has  *)
(* and how much a power loss takes back, for any keys, values, deadlines   *)
(* and sync interval, and for any number of calls, crashes and power       *)
(* losses at any transaction.                                              *)
(***************************************************************************)
EXTENDS LmdbStore, FiniteSetTheorems, WellFoundedInduction, TLAPS

(***************************************************************************)
(* What the databases of the environment e say of k is what was promised,  *)
(* or k was swept after its deadline.                                      *)
(***************************************************************************)
Agrees(e, k) ==
  \/ e.want[k].val = e.obj[k] /\ e.want[k].until = e.exp[k]
  \/ /\ e.obj[k] = None /\ e.exp[k] = None
     /\ e.want[k].until # None /\ e.want[k].until <= now

\* Every environment that a crash may leave agrees with its own promises.
Promised == \A i \in 1 .. Len(tail) : \A k \in Keys : Agrees(tail[i], k)

\* What a sweep collected stays expired until it is removed.
DeadExpired == pc = "sweep" => \A k \in dead : IsExpired(env, k)

\* A deadline is cleared on the expiry path only.
ClearGuarded == pc = "clear" => has_any_ttl

PromiseInv == TypeOK /\ FlagCoversExpiry /\ Promised /\ DeadExpired /\ ClearGuarded

\* The environment that the process reads reflects every acknowledged call.
CallsCounted == env.calls = acked

(***************************************************************************)
(* How many acknowledged calls the last sync misses: a call has at least   *)
(* one counted commit, but clear_expiry acknowledges with one that is not  *)
(* counted, right after the one that is.                                   *)
(***************************************************************************)
Slack == IF pc \in {"clear", "stamp"} THEN 0 ELSE 1
LagBounded == acked - tail[1].calls <= SYNC_EVERY * reopened + (writes % SYNC_EVERY) + Slack

LossInv == PromiseInv /\ CallsCounted /\ LagBounded
-----------------------------------------------------------------------------
\* The environment of the process is one of those that a power loss may leave.
LEMMA EnvIsLast ==
  ASSUME TypeOK
  PROVE  Len(tail) \in 1 .. Len(tail) /\ env \in Env /\ \A i \in 1 .. Len(tail) : tail[i] \in Env
  BY DEF TypeOK, env

\* A commit, synced or not, makes e what the process reads; what a power loss
\* may leave is e or could be left before.
LEMMA CommitEffect ==
  ASSUME LmdbAssumption, TypeOK, NEW e \in Env, Commit(e) \/ CommitSync(e)
  PROVE  /\ tail' \in Seq(Env) /\ tail' # <<>>
         /\ env' = e
         /\ \A i \in 1 .. Len(tail') :
              tail'[i] = e \/ \E j \in 1 .. Len(tail) : tail'[i] = tail[j]
         /\ writes' \in Nat /\ reopened' \in Nat
PROOF
  <1>1. tail' = <<e>> \/ tail' = Append(tail, e)
    BY DEF Commit, CommitSync
  <1>2. tail \in Seq(Env) /\ writes \in Nat /\ reopened \in Nat
    BY DEF TypeOK
  <1>3. writes' \in Nat /\ reopened' \in Nat
    BY <1>2 DEF Commit, CommitSync
  <1>4. CASE tail' = <<e>>
    BY <1>3, <1>4 DEF env
  <1>5. CASE tail' = Append(tail, e)
    <2>1. /\ tail' \in Seq(Env) /\ Len(tail') = Len(tail) + 1
          /\ tail'[Len(tail) + 1] = e
          /\ \A i \in 1 .. Len(tail) : tail'[i] = tail[i]
      BY <1>2, <1>5
    <2>2. \A i \in 1 .. Len(tail') : i = Len(tail) + 1 \/ i \in 1 .. Len(tail)
      BY <1>2, <2>1
    <2> QED BY <1>2, <1>3, <2>1, <2>2 DEF env
  <1> QED BY <1>1, <1>4, <1>5

\* So the promises are kept if they are in e, whose databases the flag covers.
LEMMA CommitKeeps ==
  ASSUME LmdbAssumption, PromiseInv, UNCHANGED now,
         NEW e \in Env, Commit(e) \/ CommitSync(e), \A k \in Keys : Agrees(e, k)
  PROVE  Promised'
PROOF
  <1>1. \A i \in 1 .. Len(tail') :
          tail'[i] = e \/ \E j \in 1 .. Len(tail) : tail'[i] = tail[j]
    BY CommitEffect DEF PromiseInv
  <1> QED BY <1>1, SMTT(30) DEF PromiseInv, Promised, Agrees

\* A transaction of a call: what is left to show of its new environment e.
LEMMA Transaction ==
  ASSUME LmdbAssumption, PromiseInv, UNCHANGED <<now, crashes>>,
         NEW e \in Env, Commit(e) \/ CommitSync(e), \A k \in Keys : Agrees(e, k),
         has_any_ttl' \in BOOLEAN, ~has_any_ttl' => \A k \in Keys : e.exp[k] = None,
         pc' \in {"idle", "clear", "stamp", "sweep"}, pc' \in {"clear", "stamp"} => key' \in Keys,
         at' \in Nat, dead' \subseteq Keys, acked' \in Nat, pc' = "clear" => has_any_ttl',
         pc' = "sweep" => \A k \in dead' : IsExpired(e, k)
  PROVE  PromiseInv'
PROOF
  <1>1. /\ tail' \in Seq(Env) /\ tail' # <<>> /\ env' = e
        /\ writes' \in Nat /\ reopened' \in Nat
    BY CommitEffect DEF PromiseInv
  <1>2. TypeOK'
    BY <1>1 DEF PromiseInv, TypeOK, Time
  <1>3. FlagCoversExpiry'
    BY <1>1 DEF FlagCoversExpiry
  <1>4. Promised'
    BY CommitKeeps
  <1>5. DeadExpired'
    BY <1>1 DEF DeadExpired, IsExpired
  <1> QED BY <1>2, <1>3, <1>4, <1>5 DEF PromiseInv, ClearGuarded

\* The environments that the calls commit are environments, and their fields
\* are what they were except where the call wrote.
LEMMA DoneEnv ==
  ASSUME NEW e \in Env, NEW k \in Keys, NEW p \in Promise, acked \in Nat, NEW f, f = Done(e, k, p)
  PROVE  /\ f \in Env /\ f.obj = e.obj /\ f.exp = e.exp /\ f.calls = acked + 1
         /\ f.want[k] = p /\ \A j \in Keys \ {k} : f.want[j] = e.want[j]
PROOF
  <1>1. acked + 1 \in Nat
    OBVIOUS
  <1> DEFINE n == acked + 1
  <1> HIDE DEF n
  <1>2. f = [e EXCEPT !.want[k] = p, !.calls = n]
    BY DEF Done, n
  <1>3. n \in Nat
    BY <1>1 DEF n
  <1>4. /\ f \in Env /\ f.obj = e.obj /\ f.exp = e.exp /\ f.calls = n
        /\ f.want[k] = p /\ \A j \in Keys \ {k} : f.want[j] = e.want[j]
    BY ZenonT(60), <1>2, <1>3 DEF Env
  <1> QED BY <1>4 DEF n

\* put_object and delete_object: with the guard of the expiry path set, the first
\* of two transactions, after which the old deadline still holds; otherwise the only one.
LEMMA WriteStep ==
  ASSUME LmdbAssumption, PromiseInv, NEW k \in Keys, NEW v \in Values \cup {None}, WriteObject(k, v)
  PROVE  PromiseInv'
PROOF
  <1> DEFINE obj == [env.obj EXCEPT ![k] = v]
  <1>a. env \in Env
    BY EnvIsLast DEF PromiseInv
  <1>0. env \in Env /\ acked \in Nat /\ has_any_ttl \in BOOLEAN /\ \A j \in Keys : Agrees(env, j)
    BY EnvIsLast DEF PromiseInv, TypeOK, Promised, env
  <1>1. /\ obj \in [Keys -> Values \cup {None}] /\ env.exp \in [Keys -> {None} \cup Nat]
        /\ env.want \in [Keys -> Promise] /\ env.calls \in Nat
        /\ obj[k] = v /\ \A j \in Keys \ {k} : obj[j] = env.obj[j]
    BY <1>0 DEF Env, Time
  <1>2. CASE has_any_ttl
    <2> DEFINE e == Halfway(obj, k)
    <2>2. Found(obj, env.exp, k) \in Promise
      BY Zenon, <1>1 DEF Found, Promise, Time
    <2>3. CommitSync(e) /\ pc' = "clear" /\ key' = k /\ UNCHANGED <<at, dead, acked, has_any_ttl, now, crashes>>
      BY <1>2 DEF WriteObject
    <2> HIDE DEF e, obj
    <2>4. /\ e \in Env /\ e.obj = obj /\ e.exp = env.exp
          /\ e.want[k] = Found(obj, env.exp, k) /\ \A j \in Keys \ {k} : e.want[j] = env.want[j]
      BY Zenon, <1>0, <1>1, <2>2 DEF e, Halfway, Env
    <2>5. \A j \in Keys : Agrees(e, j)
      BY <1>0, <1>1, <2>4 DEF Agrees, Found
    <2> QED BY <1>2, <2>3, <2>4, <2>5, Transaction DEF PromiseInv, TypeOK, Time
  <1>3. CASE ~has_any_ttl
    <2> DEFINE base == [env EXCEPT !.obj = obj]
               p == [val |-> v, until |-> None]
               e == Done(base, k, p)
    <2> HIDE DEF obj
    <2>1. base \in Env /\ base.obj = obj /\ base.exp = env.exp /\ base.want = env.want
      BY <1>a, <1>1 DEF Env, Time
    <2> USE DEF obj
    <2>2. p \in Promise /\ p.val = v /\ p.until = None
      BY DEF Promise
    <2>3. CommitSync(e) /\ Idle(k) /\ Ack /\ UNCHANGED <<has_any_ttl, now, crashes>>
      BY <1>3 DEF WriteObject
    <2> HIDE DEF base, obj, p
    <2>4. /\ e \in Env /\ e.obj = obj /\ e.exp = env.exp
          /\ e.want[k] = p /\ \A j \in Keys \ {k} : e.want[j] = env.want[j]
      BY <1>0, <2>1, <2>2, DoneEnv
    <2> HIDE DEF e
    <2>5. \A j \in Keys : e.exp[j] = None
      BY <1>3, <2>4 DEF PromiseInv, FlagCoversExpiry
    <2>6. \A j \in Keys : Agrees(e, j)
      BY <1>0, <1>1, <2>2, <2>4, <2>5 DEF Agrees
    <2> QED BY <1>0, <1>3, <2>3, <2>4, <2>5, <2>6, Transaction DEF Idle, Ack
  <1> QED BY <1>2, <1>3

\* The second transaction of a call: what it wrote is promised.
LEMMA SecondStep ==
  ASSUME LmdbAssumption, PromiseInv, key \in Keys, NEW until \in {None} \cup Nat,
         Commit(Done([env EXCEPT !.exp = [env.exp EXCEPT ![key] = until]], key,
                     [val |-> env.obj[key], until |-> until]))
         \/ CommitSync(Done([env EXCEPT !.exp = [env.exp EXCEPT ![key] = until]], key,
                            [val |-> env.obj[key], until |-> until])),
         has_any_ttl' = TRUE, Idle(key), Ack, UNCHANGED <<now, crashes>>
  PROVE  PromiseInv'
PROOF
  <1> DEFINE exp == [env.exp EXCEPT ![key] = until]
             base == [env EXCEPT !.exp = exp]
             p == [val |-> env.obj[key], until |-> until]
             e == Done(base, key, p)
  <1>a. env \in Env
    BY EnvIsLast DEF PromiseInv
  <1>0. acked \in Nat /\ \A j \in Keys : Agrees(env, j)
    BY EnvIsLast DEF PromiseInv, TypeOK, Promised, env
  <1>1. /\ env.obj \in [Keys -> Values \cup {None}] /\ exp \in [Keys -> {None} \cup Nat]
        /\ exp[key] = until /\ \A j \in Keys \ {key} : exp[j] = env.exp[j]
    BY <1>a DEF Env, Time
  <1>2. p \in Promise /\ p.val = env.obj[key] /\ p.until = until
    BY <1>1 DEF Promise, Time
  <1>3. Commit(e) \/ CommitSync(e)
    OBVIOUS
  <1> HIDE DEF exp, p
  <1>4. base \in Env /\ base.obj = env.obj /\ base.exp = exp /\ base.want = env.want
    BY <1>a, <1>1 DEF Env, Time
  <1> HIDE DEF base
  <1>5. /\ e \in Env /\ e.obj = env.obj /\ e.exp = exp
        /\ e.want[key] = p /\ \A j \in Keys \ {key} : e.want[j] = env.want[j]
    BY <1>0, <1>2, <1>4, DoneEnv
  <1> HIDE DEF e
  <1>6. \A j \in Keys : Agrees(e, j)
    BY <1>0, <1>1, <1>2, <1>5 DEF Agrees
  <1> QED BY <1>0, <1>3, <1>5, <1>6, Transaction DEF Idle, Ack

\* clear_expiry runs only with the guard set, which stays set.
LEMMA ClearStep ==
  ASSUME LmdbAssumption, PromiseInv, clear_expiry
  PROVE  PromiseInv'
PROOF
  <1>1. key \in Keys /\ has_any_ttl' = TRUE
    BY DEF clear_expiry, PromiseInv, TypeOK, ClearGuarded
  <1> QED BY <1>1, SecondStep DEF clear_expiry

\* expire sets the guard before it writes the deadline.
LEMMA StampStep ==
  ASSUME LmdbAssumption, PromiseInv, StampExpiry
  PROVE  PromiseInv'
PROOF
  <1>1. key \in Keys /\ at \in Nat
    BY DEF StampExpiry, PromiseInv, TypeOK, Time
  <1> QED BY <1>1, SecondStep DEF StampExpiry

\* put_object_at: the object is there, its old deadline still holds.
LEMMA PutAtStep ==
  ASSUME LmdbAssumption, PromiseInv, NEW k \in Keys, NEW v \in Values, NEW ttl \in TTLs,
         put_object_at(k, v, ttl)
  PROVE  PromiseInv'
PROOF
  <1> DEFINE obj == [env.obj EXCEPT ![k] = v]
             e == Halfway(obj, k)
  <1>a. env \in Env
    BY EnvIsLast DEF PromiseInv
  <1>b. now \in Nat /\ ttl \in Nat
    BY DEF PromiseInv, TypeOK, LmdbAssumption
  <1>0. \A j \in Keys : Agrees(env, j)
    BY EnvIsLast DEF PromiseInv, Promised, env
  <1>1. /\ obj \in [Keys -> Values \cup {None}] /\ env.exp \in [Keys -> {None} \cup Nat]
        /\ env.want \in [Keys -> Promise]
        /\ obj[k] = v /\ \A j \in Keys \ {k} : obj[j] = env.obj[j]
    BY <1>a DEF Env, Time
  <1>2. Found(obj, env.exp, k) \in Promise
    BY Zenon, <1>1 DEF Found, Promise, Time
  <1>3. CommitSync(e) /\ pc' = "stamp" /\ key' = k /\ at' = now + ttl
        /\ UNCHANGED <<has_any_ttl, dead, now, acked, crashes>>
    BY DEF put_object_at
  <1> HIDE DEF e, obj
  <1>4. /\ e \in Env /\ e.obj = obj /\ e.exp = env.exp
        /\ e.want[k] = Found(obj, env.exp, k) /\ \A j \in Keys \ {k} : e.want[j] = env.want[j]
    BY Zenon, <1>a, <1>1, <1>2 DEF e, Halfway, Env
  <1>5. \A j \in Keys : Agrees(e, j)
    BY <1>0, <1>1, <1>4 DEF Agrees, Found
  <1>6. has_any_ttl' \in BOOLEAN /\ dead' \subseteq Keys /\ acked' \in Nat
    BY <1>3 DEF PromiseInv, TypeOK
  <1>7. ~has_any_ttl' => \A j \in Keys : e.exp[j] = None
    BY <1>3, <1>4 DEF PromiseInv, FlagCoversExpiry
  <1> QED BY <1>b, <1>3, <1>4, <1>5, <1>6, <1>7, Transaction

\* put_batch: one transaction, and with the guard unset no deadline is there to clear.
LEMMA BatchStep ==
  ASSUME LmdbAssumption, PromiseInv, NEW items \in Batches, put_batch(items)
  PROVE  PromiseInv'
PROOF
  <1> DEFINE obj == [k \in Keys |-> IF k \in DOMAIN items THEN items[k] ELSE env.obj[k]]
             exp == [k \in Keys |-> IF has_any_ttl /\ k \in DOMAIN items THEN None ELSE env.exp[k]]
             want == [k \in Keys |-> IF k \in DOMAIN items
                                     THEN [val |-> items[k], until |-> None] ELSE env.want[k]]
             e == [obj |-> obj, exp |-> exp, want |-> want, calls |-> acked + 1]
  <1>a. env \in Env /\ acked \in Nat
    BY EnvIsLast DEF PromiseInv, TypeOK
  <1>0. \A j \in Keys : Agrees(env, j)
    BY EnvIsLast DEF PromiseInv, Promised, env
  <1>b. \A k \in DOMAIN items : items[k] \in Values
    BY DEF Batches
  <1>1. obj \in [Keys -> Values \cup {None}] /\ exp \in [Keys -> {None} \cup Nat]
    BY <1>a, <1>b DEF Env, Time
  <1>2. want \in [Keys -> Promise]
    BY <1>a, <1>b DEF Env, Promise
  <1>3. CommitSync(e) /\ Ack /\ UNCHANGED <<has_any_ttl, pc, key, at, dead, now, crashes>> /\ pc = "idle"
    BY DEF put_batch
  <1>5. \A j \in Keys :
          /\ obj[j] = IF j \in DOMAIN items THEN items[j] ELSE env.obj[j]
          /\ exp[j] = IF j \in DOMAIN items THEN None ELSE env.exp[j]
          /\ j \in DOMAIN items => want[j].val = items[j] /\ want[j].until = None
          /\ j \notin DOMAIN items => want[j] = env.want[j]
    BY Zenon DEF PromiseInv, FlagCoversExpiry
  <1> HIDE DEF obj, exp, want
  <1>4. e \in Env /\ e.obj = obj /\ e.exp = exp /\ e.want = want
    BY <1>a, <1>1, <1>2 DEF Env, Time
  <1> HIDE DEF e
  <1>6. \A j \in Keys : Agrees(e, j)
    BY <1>0, <1>4, <1>5 DEF Agrees
  <1>7. ~has_any_ttl' => \A j \in Keys : e.exp[j] = None
    BY Zenon, <1>3, <1>4, <1>5 DEF PromiseInv, FlagCoversExpiry
  <1> QED BY <1>a, <1>3, <1>4, <1>6, <1>7, Transaction DEF Ack, PromiseInv, TypeOK, Time

\* One key of a sweep: its promise had run out.
LEMMA SweepStep ==
  ASSUME LmdbAssumption, PromiseInv, NEW k \in dead, SweepKey(k)
  PROVE  PromiseInv'
PROOF
  <1> DEFINE e == [env EXCEPT !.obj[k] = None, !.exp[k] = None]
  <1>a. env \in Env /\ now \in Nat /\ k \in Keys
    BY EnvIsLast DEF PromiseInv, TypeOK
  <1>0. \A j \in Keys : Agrees(env, j)
    BY EnvIsLast DEF PromiseInv, Promised, env
  <1>1. pc = "sweep" /\ \A j \in dead : IsExpired(env, j)
    BY DEF SweepKey, PromiseInv, DeadExpired
  <1>2. /\ Commit(e) \/ CommitSync(e)
        /\ UNCHANGED <<has_any_ttl, now, acked, crashes>>
        /\ Idle(key) \/ (dead' = dead \ {k} /\ UNCHANGED <<pc, key, at>>)
    BY DEF SweepKey
  <1>3. /\ e \in Env /\ e.want = env.want
        /\ e.obj[k] = None /\ e.exp[k] = None
        /\ \A j \in Keys \ {k} : e.obj[j] = env.obj[j] /\ e.exp[j] = env.exp[j]
    BY Zenon, <1>a DEF Env
  <1> HIDE DEF e
  <1>4. env.want[k].until # None /\ env.want[k].until <= now
    BY <1>a, <1>0, <1>1 DEF Agrees, IsExpired
  <1>5. \A j \in Keys : Agrees(e, j)
    BY <1>0, <1>3, <1>4 DEF Agrees
  <1>6. ~has_any_ttl' => \A j \in Keys : e.exp[j] = None
    BY Zenon, <1>2, <1>3 DEF PromiseInv, FlagCoversExpiry
  <1>7. pc' \in {"idle", "sweep"} /\ at' \in Nat /\ dead' \subseteq Keys
    <2>1. at \in Nat /\ dead \subseteq Keys
      BY DEF PromiseInv, TypeOK, Time
    <2>2. CASE Idle(key)
      BY <2>2 DEF Idle
    <2>3. CASE dead' = dead \ {k} /\ UNCHANGED <<pc, key, at>>
      BY <1>1, <2>1, <2>3
    <2> QED BY <1>2, <2>2, <2>3
  <1>8. pc' = "sweep" => \A j \in dead' : IsExpired(e, j)
    <2>1. dead \subseteq Keys
      BY DEF PromiseInv, TypeOK
    <2> QED BY Zenon, <1>1, <1>2, <1>3, <2>1 DEF Idle, IsExpired
  <1>9. has_any_ttl' \in BOOLEAN /\ acked' \in Nat
    BY <1>2 DEF PromiseInv, TypeOK
  <1> QED BY <1>2, <1>3, <1>5, <1>6, <1>7, <1>8, <1>9, Transaction

\* A synced environment e, taken from those a power loss may leave, is opened or kept.
LEMMA Reopened ==
  ASSUME PromiseInv, NEW e, \E i \in 1 .. Len(tail) : e = tail[i],
         tail' = <<e>>, UNCHANGED now,
         has_any_ttl' \in BOOLEAN, ~has_any_ttl' => \A k \in Keys : e.exp[k] = None,
         writes' \in Nat, pc' = "idle", at' \in Nat, dead' \subseteq Keys,
         acked' \in Nat, reopened' \in Nat, crashes' \in Nat
  PROVE  PromiseInv'
PROOF
  <1>1. e \in Env /\ \A k \in Keys : Agrees(e, k)
    BY EnvIsLast DEF PromiseInv, Promised
  <1>2. tail' \in Seq(Env) /\ tail' # <<>> /\ env' = e /\ Len(tail') = 1 /\ tail'[1] = e
    BY <1>1 DEF env
  <1>3. TypeOK'
    BY <1>2 DEF PromiseInv, TypeOK, Time
  <1>4. FlagCoversExpiry' /\ DeadExpired' /\ ClearGuarded'
    BY <1>2 DEF FlagCoversExpiry, DeadExpired, ClearGuarded
  <1>5. Promised'
    BY <1>1, <1>2 DEF Promised, Agrees
  <1> QED BY <1>3, <1>4, <1>5 DEF PromiseInv

\* Steps that write nothing: a sweep collects its keys, the store is flushed or
\* opened again, time passes.
LEMMA QuietSteps ==
  ASSUME LmdbAssumption, PromiseInv,
         \/ sweep_expired \/ snapshot \/ CleanRestart \/ ProcessCrash
         \/ \E i \in 1 .. Len(tail) : PowerLoss(i)
         \/ Tick \/ UNCHANGED vars
  PROVE  PromiseInv'
PROOF
  <1>0. /\ TypeOK /\ Len(tail) \in 1 .. Len(tail) /\ env \in Env
        /\ \A i \in 1 .. Len(tail) : tail[i] \in Env
    BY EnvIsLast DEF PromiseInv
  <1>1. CASE sweep_expired
    <2>1. /\ UNCHANGED <<tail, has_any_ttl, writes, key, at, now, acked, reopened, crashes>>
          /\ dead' \subseteq {k \in Keys : IsExpired(env, k)} /\ pc' \in {"idle", "sweep"}
      BY <1>1 DEF sweep_expired, SweepOf
    <2>2. TypeOK'
      BY <1>0, <2>1 DEF TypeOK
    <2>3. FlagCoversExpiry' /\ DeadExpired' /\ ClearGuarded'
      BY Zenon, <2>1 DEF PromiseInv, FlagCoversExpiry, DeadExpired, ClearGuarded, IsExpired, env
    <2>4. Promised'
      BY <2>1 DEF PromiseInv, Promised, Agrees
    <2> QED BY <2>2, <2>3, <2>4 DEF PromiseInv
  <1>2. CASE snapshot
    BY <1>0, <1>2, Reopened DEF snapshot, volatile, env, PromiseInv, TypeOK, Time, FlagCoversExpiry
  <1>3. CASE CleanRestart
    BY <1>0, <1>3, Reopened DEF CleanRestart, open, env, TypeOK
  <1>4. CASE ProcessCrash
    <2>1. /\ UNCHANGED <<tail, now, acked>> /\ env' = env /\ crashes' \in Nat /\ reopened' \in Nat
          /\ has_any_ttl' = (\E k \in Keys : env.exp[k] # None) /\ writes' = 0
          /\ pc' = "idle" /\ at' = 0 /\ dead' = {}
      BY <1>0, <1>4 DEF ProcessCrash, open, TypeOK, env
    <2>2. TypeOK'
      BY <1>0, <2>1 DEF TypeOK, Time
    <2>3. FlagCoversExpiry' /\ DeadExpired' /\ ClearGuarded'
      BY <2>1 DEF FlagCoversExpiry, DeadExpired, ClearGuarded
    <2>4. Promised'
      BY <2>1 DEF PromiseInv, Promised, Agrees
    <2> QED BY <2>2, <2>3, <2>4 DEF PromiseInv
  <1>5. ASSUME NEW i \in 1 .. Len(tail), PowerLoss(i) PROVE PromiseInv'
    <2>1. tail[i] \in Env /\ tail[i].calls \in Nat
      BY <1>0 DEF Env
    <2> QED BY <1>0, <1>5, <2>1, Reopened DEF PowerLoss, open, TypeOK
  <1>6. CASE Tick
    <2>1. now' = now + 1 /\ now' \in 0 .. MaxNow /\ now \in Nat
          /\ UNCHANGED <<tail, has_any_ttl, writes, pc, key, at, dead, acked, reopened, crashes>>
      BY <1>0, <1>6 DEF Tick, TypeOK, volatile, LmdbAssumption
    <2>2. TypeOK'
      BY <1>0, <2>1 DEF TypeOK
    <2>3. FlagCoversExpiry' /\ ClearGuarded'
      BY Zenon, <2>1 DEF PromiseInv, FlagCoversExpiry, ClearGuarded, env
    <2>4. ASSUME NEW t \in {None} \cup Nat, t # None, t <= now PROVE t <= now'
      BY <2>1, <2>4
    <2>5. DeadExpired'
      <3>1. \A k \in Keys : env.exp[k] \in {None} \cup Nat
        BY Zenon, <1>0 DEF Env, Time
      <3> QED BY <1>0, <2>1, <2>4, <3>1 DEF PromiseInv, DeadExpired, IsExpired, env, TypeOK
    <2>6. Promised'
      <3>1. \A j \in 1 .. Len(tail), k \in Keys : tail[j].want[k].until \in {None} \cup Nat
        BY ZenonT(60), <1>0 DEF Env, Promise, Time
      <3> QED BY <2>1, <2>4, <3>1 DEF PromiseInv, Promised, Agrees
    <2> QED BY <2>2, <2>3, <2>5, <2>6 DEF PromiseInv
  <1>7. CASE UNCHANGED vars
    BY <1>7 DEF vars, volatile, PromiseInv, TypeOK, FlagCoversExpiry, Promised, Agrees, DeadExpired,
                ClearGuarded, IsExpired, env
  <1> QED BY <1>1, <1>2, <1>3, <1>4, <1>5, <1>6, <1>7

\* An empty store keeps the promise.
LEMMA PromiseInit ==
  ASSUME LmdbAssumption, Init
  PROVE  PromiseInv
PROOF
  <1> DEFINE e == [obj |-> [k \in Keys |-> None], exp |-> [k \in Keys |-> None],
                   want |-> [k \in Keys |-> Nothing], calls |-> 0]
  <1>1. tail = <<e>>
    BY DEF Init
  <1>2. /\ e \in Env /\ e.calls = 0
        /\ \A k \in Keys : e.obj[k] = None /\ e.exp[k] = None
                           /\ e.want[k].val = None /\ e.want[k].until = None
    BY DEF Env, Promise, Nothing
  <1> HIDE DEF e
  <1>3. tail \in Seq(Env) /\ tail # <<>> /\ Len(tail) = 1 /\ tail[1] = e /\ env = e
    BY <1>1, <1>2 DEF env
  <1>a. has_any_ttl = FALSE /\ writes = 0 /\ pc = "idle" /\ at = 0 /\ dead = {}
        /\ now = 0 /\ acked = 0 /\ reopened = 0 /\ crashes = 0
    BY DEF Init
  <1>b. MaxNow \in Nat
    BY DEF LmdbAssumption
  <1>c. now \in 0 .. MaxNow /\ {writes, at, acked, reopened, crashes} \subseteq Nat
    BY <1>a, <1>b
  <1>4. TypeOK
    BY <1>3, <1>a, <1>c, Zenon DEF TypeOK, Time
  <1>5. FlagCoversExpiry /\ Promised /\ DeadExpired /\ ClearGuarded
    BY <1>2, <1>3, <1>a DEF FlagCoversExpiry, Promised, Agrees, DeadExpired, ClearGuarded
  <1> QED BY <1>4, <1>5 DEF PromiseInv

\* PromiseInv is inductive.
LEMMA PromiseStep ==
  ASSUME LmdbAssumption, PromiseInv, [Next]_vars
  PROVE  PromiseInv'
PROOF
  <1>1. ASSUME NEW k \in Keys, NEW v \in Values, put_object(k, v) PROVE PromiseInv'
    BY <1>1, WriteStep DEF put_object
  <1>2. ASSUME NEW k \in Keys, delete_object(k) PROVE PromiseInv'
    BY <1>2, WriteStep DEF delete_object
  <1>3. CASE Sweep
    BY <1>3, SweepStep, QuietSteps DEF Sweep
  <1> QED BY <1>1, <1>2, <1>3, PutAtStep, ClearStep, StampStep, BatchStep, QuietSteps DEF Next

(***************************************************************************)
(* A key reads as promised whenever the databases agree with the promises  *)
(* and the guard of the expiry path covers them.                           *)
(***************************************************************************)
LEMMA PromiseRead ==
  ASSUME LmdbAssumption, PromiseInv
  PROVE  TtlHonoured
PROOF
  <1> SUFFICES ASSUME NEW k \in Keys
               PROVE  get_object(k) = IF env.want[k].until # None /\ env.want[k].until <= now THEN None
                                      ELSE env.want[k].val
    BY Zenon DEF TtlHonoured
  <1>1. Agrees(env, k)
    BY EnvIsLast DEF PromiseInv, Promised, env
  <1>2. ~has_any_ttl => env.exp[k] = None
    BY DEF PromiseInv, FlagCoversExpiry
  <1> QED BY <1>1, <1>2 DEF Agrees, get_object, is_expired, IsExpired

(***************************************************************************)
(* Every commit, sync, sweep, restart and power loss keeps the store well  *)
(* formed (lmdb.rs: LmdbStore and the two databases of its environment).   *)
(***************************************************************************)
THEOREM LmdbTypeCorrect == Spec => []TypeOK
PROOF
  <1>1. Init => PromiseInv
    BY PromiseInit, LmdbAssumption
  <1>2. PromiseInv /\ [Next]_vars => PromiseInv'
    BY PromiseStep, LmdbAssumption
  <1>3. PromiseInv => TypeOK
    BY DEF PromiseInv
  <1> QED BY <1>1, <1>2, <1>3, PTL DEF Spec

(***************************************************************************)
(* The in-memory guard has_any_ttl (lmdb.rs:40) may be trusted: whenever   *)
(* it is unset the environment holds no deadline, also after the store was *)
(* opened on what a crash or a power loss left at any transaction.         *)
(***************************************************************************)
THEOREM FlagIsSound == Spec => []FlagCoversExpiry
PROOF
  <1>1. Init => PromiseInv
    BY PromiseInit, LmdbAssumption
  <1>2. PromiseInv /\ [Next]_vars => PromiseInv'
    BY PromiseStep, LmdbAssumption
  <1>3. PromiseInv => FlagCoversExpiry
    BY DEF PromiseInv
  <1> QED BY <1>1, <1>2, <1>3, PTL DEF Spec

(***************************************************************************)
(* get_object, put_object, put_object_at, delete_object, put_batch and     *)
(* sweep_expired together honour every deadline, whatever the order of the *)
(* calls, the clock and the crashes between their transactions.            *)
(***************************************************************************)
THEOREM DeadlinesHonoured == Spec => []TtlHonoured
PROOF
  <1>1. Init => PromiseInv
    BY PromiseInit, LmdbAssumption
  <1>2. PromiseInv /\ [Next]_vars => PromiseInv'
    BY PromiseStep, LmdbAssumption
  <1>3. PromiseInv => TtlHonoured
    BY PromiseRead, LmdbAssumption
  <1> QED BY <1>1, <1>2, <1>3, PTL DEF Spec
-----------------------------------------------------------------------------
\* Quotient and remainder are unique.
LEMMA DivisionUnique ==
  ASSUME NEW d \in Nat \ {0}, NEW p \in Nat, NEW q \in Nat, NEW a \in 0 .. d - 1, NEW b \in 0 .. d - 1,
         d * p + a = d * q + b
  PROVE  a = b
PROOF
  <1>1. ASSUME NEW x \in Nat, NEW y \in Nat, x < y PROVE d * y >= d * x + d
    <2>1. PICK n \in Nat : y = x + 1 + n
      <3>1. y - x - 1 \in Nat /\ y = x + 1 + (y - x - 1)
        BY <1>1
      <3> QED BY <3>1
    <2>2. d * y = d * x + d + d * n
      BY <2>1
    <2>3. d * n >= 0
      BY <2>1
    <2> QED BY <2>2, <2>3
  <1>2. d * p \in Nat /\ d * q \in Nat
    OBVIOUS
  <1>3. CASE p < q
    BY <1>1, <1>2, <1>3
  <1>4. CASE q < p
    BY <1>1, <1>2, <1>4
  <1>5. CASE p = q
    BY <1>5
  <1> QED BY <1>3, <1>4, <1>5

\* What \div and % give.
LEMMA Division ==
  ASSUME NEW d \in Nat \ {0}, NEW w \in Nat
  PROVE  w \div d \in Nat /\ w % d \in 0 .. d - 1 /\ w = d * (w \div d) + (w % d)
  OBVIOUS

\* The remainder that maybe_sync compares with 0.
LEMMA RemainderIsNat ==
  ASSUME NEW d \in Nat \ {0}, NEW w \in Nat
  PROVE  w % d \in Nat
  BY Division

\* The count of writes comes round to the sync interval (maybe_sync).
LEMMA CountGoesOn ==
  ASSUME NEW d \in Nat \ {0}, NEW w \in Nat
  PROVE  /\ w % d = d - 1 => (w + 1) % d = 0
         /\ w % d # d - 1 => (w + 1) % d = (w % d) + 1
PROOF
  <1> DEFINE n == w + 1
             p == w \div d
             q == n \div d
             a == w % d
             b == n % d
  <1>1. p \in Nat /\ a \in 0 .. d - 1 /\ w = d * p + a
    BY Zenon, Division
  <1>2. n \in Nat
    OBVIOUS
  <1> HIDE DEF n
  <1>3. q \in Nat /\ b \in 0 .. d - 1 /\ n = d * q + b
    BY Zenon, <1>2, Division
  <1> HIDE DEF p, q, a, b
  <1>4. d * p + a + 1 = d * q + b
    BY <1>1, <1>3 DEF n
  <1>5. CASE a = d - 1
    <2>1. d * (p + 1) + 0 = d * p + d
      BY <1>1
    <2>2. d * (p + 1) + 0 = d * q + b
      BY <1>1, <1>3, <1>4, <1>5, <2>1
    <2>3. p + 1 \in Nat /\ 0 \in 0 .. d - 1
      BY <1>1
    <2>4. b = 0
      BY Zenon, <1>3, <2>2, <2>3, DivisionUnique
    <2> QED BY <1>5, <2>4 DEF a, b, n
  <1>6. CASE a # d - 1
    <2>1. a + 1 \in 0 .. d - 1 /\ d * p + (a + 1) = d * q + b
      BY <1>1, <1>3, <1>4, <1>6
    <2>2. a + 1 = b
      BY Zenon, <1>1, <1>3, <2>1, DivisionUnique
    <2> QED BY <1>6, <2>2 DEF a, b, n
  <1> QED BY <1>5, <1>6

\* The oldest environment that a power loss may leave.
LEMMA OldestKept ==
  ASSUME TypeOK, NEW e
  PROVE  /\ tail' = <<e>> => tail'[1] = e /\ env' = e
         /\ tail' = Append(tail, e) => tail'[1] = tail[1] /\ env' = e
PROOF
  <1>1. tail \in Seq(Env) /\ Len(tail) >= 1 /\ \A i \in 1 .. Len(tail) : tail[i] \in Env
    BY DEF TypeOK
  <1>2. ASSUME tail' = Append(tail, e) PROVE tail'[1] = tail[1] /\ env' = e
    BY <1>1, <1>2 DEF env
  <1> QED BY <1>2 DEF env

\* A commit that maybe_sync counts may acknowledge a call.
LEMMA CountedCommit ==
  ASSUME LmdbAssumption, LossInv, NEW e, CommitSync(e), e.calls = acked',
         acked' = acked \/ (acked' = acked + 1 /\ pc' \notin {"clear", "stamp"})
  PROVE  CallsCounted' /\ LagBounded'
PROOF
  <1> DEFINE m == SYNC_EVERY * reopened
             c == writes % SYNC_EVERY
             l == acked - tail[1].calls
  <1>1. /\ SYNC_EVERY \in Nat \ {0} /\ reopened \in Nat /\ writes \in Nat /\ acked \in Nat
        /\ tail[1] \in Env /\ tail[1].calls \in Nat
    BY EnvIsLast DEF LossInv, PromiseInv, TypeOK, LmdbAssumption, Env
  <1>2. c \in 0 .. SYNC_EVERY - 1 /\ m \in Nat
    BY <1>1, Division
  <1>3. l <= m + c + 1
    BY <1>1, <1>2 DEF LossInv, LagBounded, Slack
  <1>4. writes' = writes + 1
    BY DEF CommitSync
  <1>5. CASE c = SYNC_EVERY - 1
    <2>1. tail' = <<e>> /\ reopened' = 0
      BY <1>5 DEF CommitSync
    <2>2. tail'[1] = e /\ env' = e
      BY <2>1, OldestKept DEF LossInv, PromiseInv
    <2>3. writes' % SYNC_EVERY = 0
      BY Zenon, <1>1, <1>4, <1>5, CountGoesOn
    <2>4. acked' - tail'[1].calls = 0 /\ SYNC_EVERY * reopened' = 0
      BY <1>1, <2>1, <2>2
    <2>5. Slack' \in {0, 1}
      BY DEF Slack
    <2> QED BY <2>2, <2>3, <2>4, <2>5 DEF CallsCounted, LagBounded
  <1>6. CASE c # SYNC_EVERY - 1
    <2>1. tail' = Append(tail, e) /\ reopened' = reopened
      BY <1>6 DEF CommitSync
    <2>2. tail'[1] = tail[1] /\ env' = e
      BY <2>1, OldestKept DEF LossInv, PromiseInv
    <2>3. writes' % SYNC_EVERY = c + 1
      BY Zenon, <1>1, <1>4, <1>6, CountGoesOn
    <2>4. SYNC_EVERY * reopened' = m
      BY <2>1
    <2> HIDE DEF m, c
    <2>5. \/ acked' - tail'[1].calls = l /\ Slack' \in {0, 1}
          \/ acked' - tail'[1].calls = l + 1 /\ Slack' = 1
      BY <1>1, <2>2 DEF Slack
    <2>6. l \in Int
      BY <1>1
    <2> HIDE DEF l
    <2>7. acked' - tail'[1].calls <= m + (c + 1) + Slack'
      BY <1>2, <1>3, <2>5, <2>6
    <2> QED BY <2>2, <2>3, <2>4, <2>7 DEF CallsCounted, LagBounded
  <1> QED BY <1>5, <1>6

\* One that it does not count acknowledges a call only right after one that it did.
LEMMA UncountedCommit ==
  ASSUME LmdbAssumption, LossInv, NEW e, Commit(e), e.calls = acked', pc' \notin {"clear", "stamp"},
         acked' = acked \/ (acked' = acked + 1 /\ pc \in {"clear", "stamp"})
  PROVE  CallsCounted' /\ LagBounded'
PROOF
  <1> DEFINE bound == SYNC_EVERY * reopened + (writes % SYNC_EVERY)
  <1>1. /\ SYNC_EVERY \in Nat \ {0} /\ reopened \in Nat /\ writes \in Nat /\ acked \in Nat
        /\ tail[1] \in Env /\ tail[1].calls \in Nat
    BY EnvIsLast DEF LossInv, PromiseInv, TypeOK, LmdbAssumption, Env
  <1>2. bound \in Nat
    BY <1>1, Division
  <1>3. tail'[1] = tail[1] /\ env' = e /\ UNCHANGED <<writes, reopened>>
    BY OldestKept DEF LossInv, PromiseInv, Commit
  <1>4. acked - tail[1].calls <= bound + Slack
    BY DEF LossInv, LagBounded
  <1> HIDE DEF bound
  <1>5. acked' - tail'[1].calls <= bound + 1
    BY <1>1, <1>2, <1>3, <1>4 DEF Slack
  <1> QED BY <1>3, <1>5 DEF CallsCounted, LagBounded, Slack, bound

\* After a sync nothing acknowledged is missing.
LEMMA Synced ==
  ASSUME LmdbAssumption, LossInv, NEW e \in Env, tail' = <<e>>, reopened' = 0, writes' \in Nat, e.calls = acked'
  PROVE  CallsCounted' /\ LagBounded'
PROOF
  <1>1. tail'[1] = e /\ env' = e
    BY OldestKept DEF LossInv, PromiseInv
  <1>2. SYNC_EVERY \in Nat \ {0}
    BY DEF LmdbAssumption
  <1>a. writes' % SYNC_EVERY \in Nat
    BY Zenon, <1>2, RemainderIsNat
  <1>3. writes' % SYNC_EVERY \in Nat /\ Slack' \in {0, 1}
    BY Zenon, <1>a DEF Slack
  <1>4. acked' - tail'[1].calls = 0 /\ SYNC_EVERY * reopened' = 0
    BY <1>1, <1>2 DEF Env
  <1> QED BY <1>1, <1>3, <1>4 DEF CallsCounted, LagBounded

\* The calls that an environment reflects.
LEMMA EnvCalls ==
  ASSUME LossInv
  PROVE  /\ env \in Env /\ acked \in Nat /\ env.calls = acked
         /\ \A obj, k : Halfway(obj, k).calls = acked
         /\ \A x, k, q : Done([env EXCEPT !.obj = x], k, q).calls = acked + 1
         /\ \A x, k, q : Done([env EXCEPT !.exp = x], k, q).calls = acked + 1
         /\ \A k : [env EXCEPT !.obj[k] = None, !.exp[k] = None].calls = acked
PROOF
  <1>1. env \in Env /\ acked \in Nat /\ env.calls = acked
    BY EnvIsLast DEF LossInv, PromiseInv, TypeOK, CallsCounted
  <1>2. \A obj, k : Halfway(obj, k).calls = acked
    BY <1>1 DEF Halfway, Env
  <1>3. \A x, k, q : Done([env EXCEPT !.obj = x], k, q).calls = acked + 1
    BY <1>1 DEF Done, Env
  <1>4. \A x, k, q : Done([env EXCEPT !.exp = x], k, q).calls = acked + 1
    BY <1>1 DEF Done, Env
  <1>5. \A k : [env EXCEPT !.obj[k] = None, !.exp[k] = None].calls = acked
    BY <1>1 DEF Env
  <1> QED BY <1>1, <1>2, <1>3, <1>4, <1>5

\* Every step keeps the count of calls and the lag.
LEMMA LagStep ==
  ASSUME LmdbAssumption, LossInv, [Next]_vars
  PROVE  CallsCounted' /\ LagBounded'
PROOF
  <1>0. env \in Env /\ acked \in Nat /\ env.calls = acked
    BY EnvCalls
  <1>1. ASSUME NEW k, NEW v, WriteObject(k, v) PROVE CallsCounted' /\ LagBounded'
    <2> DEFINE obj == [env.obj EXCEPT ![k] = v]
    <2>1. CASE has_any_ttl
      <3>1. CommitSync(Halfway(obj, k)) /\ acked' = acked
        BY <1>1, <2>1 DEF WriteObject
      <3> HIDE DEF obj
      <3>2. Halfway(obj, k).calls = acked
        BY EnvCalls
      <3> QED BY <3>1, <3>2, CountedCommit
    <2>2. CASE ~has_any_ttl
      <3> DEFINE e == Done([env EXCEPT !.obj = obj], k, [val |-> v, until |-> None])
      <3>1. CommitSync(e) /\ acked' = acked + 1 /\ pc' = "idle"
        BY <1>1, <2>2 DEF WriteObject, Idle, Ack
      <3> HIDE DEF obj
      <3>2. e.calls = acked + 1
        BY Zenon, EnvCalls
      <3> HIDE DEF e
      <3> QED BY <3>1, <3>2, CountedCommit
    <2> QED BY <2>1, <2>2
  <1>2. CASE clear_expiry
    <2> DEFINE exp == [env.exp EXCEPT ![key] = None]
               e == Done([env EXCEPT !.exp = exp], key, [val |-> env.obj[key], until |-> None])
    <2>1. Commit(e) /\ acked' = acked + 1 /\ pc = "clear" /\ pc' = "idle"
      BY <1>2 DEF clear_expiry, Idle, Ack
    <2> HIDE DEF exp
    <2>2. e.calls = acked + 1
      BY EnvCalls
    <2> HIDE DEF e
    <2> QED BY <2>1, <2>2, UncountedCommit
  <1>3. CASE StampExpiry
    <2> DEFINE exp == [env.exp EXCEPT ![key] = at]
               e == Done([env EXCEPT !.exp = exp], key, [val |-> env.obj[key], until |-> at])
    <2>1. CommitSync(e) /\ acked' = acked + 1 /\ pc' = "idle"
      BY <1>3 DEF StampExpiry, Idle, Ack
    <2> HIDE DEF exp
    <2>2. e.calls = acked + 1
      BY EnvCalls
    <2> HIDE DEF e
    <2> QED BY <2>1, <2>2, CountedCommit
  <1>4. ASSUME NEW k, NEW v, NEW ttl, put_object_at(k, v, ttl) PROVE CallsCounted' /\ LagBounded'
    <2> DEFINE obj == [env.obj EXCEPT ![k] = v]
    <2>1. CommitSync(Halfway(obj, k)) /\ acked' = acked
      BY <1>4 DEF put_object_at
    <2> HIDE DEF obj
    <2>2. Halfway(obj, k).calls = acked
      BY EnvCalls
    <2> QED BY <2>1, <2>2, CountedCommit
  <1>5. ASSUME NEW items, put_batch(items) PROVE CallsCounted' /\ LagBounded'
    <2> DEFINE obj == [k \in Keys |-> IF k \in DOMAIN items THEN items[k] ELSE env.obj[k]]
               exp == [k \in Keys |-> IF has_any_ttl /\ k \in DOMAIN items THEN None ELSE env.exp[k]]
               want == [k \in Keys |-> IF k \in DOMAIN items
                                       THEN [val |-> items[k], until |-> None] ELSE env.want[k]]
               e == [obj |-> obj, exp |-> exp, want |-> want, calls |-> acked + 1]
    <2>1. CommitSync(e) /\ acked' = acked + 1 /\ pc' = "idle"
      BY <1>5 DEF put_batch, Ack
    <2> HIDE DEF obj, exp, want
    <2>2. e.calls = acked + 1
      OBVIOUS
    <2> HIDE DEF e
    <2> QED BY <2>1, <2>2, CountedCommit
  <1>6. ASSUME NEW k, SweepKey(k) PROVE CallsCounted' /\ LagBounded'
    <2> DEFINE e == [env EXCEPT !.obj[k] = None, !.exp[k] = None]
    <2>1. /\ CommitSync(e) \/ (Commit(e) /\ pc' = "sweep")
          /\ acked' = acked
      BY <1>6 DEF SweepKey
    <2>2. e.calls = acked
      BY EnvCalls
    <2> HIDE DEF e
    <2> QED BY <2>1, <2>2, CountedCommit, UncountedCommit
  <1>7. CASE sweep_expired \/ Tick \/ UNCHANGED vars
    <2>1. UNCHANGED <<tail, writes, acked, reopened>> /\ (pc' = pc \/ (pc = "idle" /\ pc' = "sweep"))
      BY <1>7 DEF sweep_expired, SweepOf, Tick, vars, volatile
    <2>2. Slack' = Slack
      BY <2>1 DEF Slack
    <2> QED BY <2>1, <2>2 DEF LossInv, CallsCounted, LagBounded, env
  <1>8. CASE snapshot
    BY <1>0, <1>8, Synced DEF snapshot, volatile, LossInv, PromiseInv, TypeOK
  <1>9. CASE CleanRestart
    BY <1>0, <1>9, Synced DEF CleanRestart, open
  <1>10. ASSUME NEW i \in 1 .. Len(tail), PowerLoss(i) PROVE CallsCounted' /\ LagBounded'
    <2>1. tail[i] \in Env
      BY EnvIsLast DEF LossInv, PromiseInv
    <2> QED BY <1>10, <2>1, Synced DEF PowerLoss, open
  <1>11. CASE ProcessCrash
    <2> DEFINE m == SYNC_EVERY * reopened
               c == writes % SYNC_EVERY
    <2>1. /\ UNCHANGED <<tail, acked>> /\ writes' = 0 /\ reopened' = reopened + 1 /\ pc' = "idle"
      BY <1>11 DEF ProcessCrash, open
    <2>2. SYNC_EVERY \in Nat \ {0} /\ reopened \in Nat /\ writes \in Nat
      BY DEF LossInv, PromiseInv, TypeOK, LmdbAssumption
    <2>3. c \in 0 .. SYNC_EVERY - 1 /\ m \in Nat /\ writes' % SYNC_EVERY \in Nat
      BY <2>1, <2>2, Division
    <2>4. SYNC_EVERY * reopened' = m + SYNC_EVERY
      BY <2>1, <2>2
    <2>5. Slack \in {0, 1} /\ Slack' = 1
      BY <2>1 DEF Slack
    <2>6. acked - tail[1].calls <= m + c + Slack /\ acked - tail[1].calls \in Int
      BY <1>0, EnvIsLast DEF LossInv, LagBounded, PromiseInv, Env
    <2> HIDE DEF m, c
    <2>7. acked - tail[1].calls <= (m + SYNC_EVERY) + (writes' % SYNC_EVERY) + 1
      BY <2>2, <2>3, <2>5, <2>6
    <2> QED BY <1>0, <2>1, <2>4, <2>5, <2>7 DEF CallsCounted, LagBounded, env
  <1> QED
    BY <1>1, <1>2, <1>3, <1>4, <1>5, <1>6, <1>7, <1>8, <1>9, <1>10, <1>11
    DEF Next, put_object, delete_object, Sweep

(***************************************************************************)
(* "A hard crash loses at most ~that many recent writes" (lmdb.rs:12), for *)
(* any sync interval and any mix of plain, dated and batched writes.       *)
(***************************************************************************)
THEOREM LossIsBounded == Spec => []LossBounded
PROOF
  <1>1. Init => LossInv
    <2> SUFFICES ASSUME Init PROVE LossInv
      OBVIOUS
    <2>1. PromiseInv
      BY PromiseInit, LmdbAssumption
    <2>2. tail[1].calls = 0 /\ env.calls = 0 /\ acked = 0 /\ reopened = 0 /\ writes = 0 /\ pc = "idle"
      BY DEF Init, env
    <2>3. SYNC_EVERY * 0 = 0 /\ 0 % SYNC_EVERY \in Nat
      BY LmdbAssumption, Division DEF LmdbAssumption
    <2> QED BY <2>1, <2>2, <2>3 DEF LossInv, CallsCounted, LagBounded, Slack
  <1>2. LossInv /\ [Next]_vars => LossInv'
    BY PromiseStep, LagStep, LmdbAssumption DEF LossInv
  <1>3. LossInv => LossBounded
    <2> SUFFICES ASSUME LossInv PROVE LossBounded
      OBVIOUS
    <2> DEFINE m == SYNC_EVERY * reopened
               c == writes % SYNC_EVERY
    <2>1. SYNC_EVERY \in Nat \ {0} /\ reopened \in Nat /\ writes \in Nat
      BY LmdbAssumption DEF LossInv, PromiseInv, TypeOK, LmdbAssumption
    <2>2. c \in 0 .. SYNC_EVERY - 1 /\ m \in Nat
      BY <2>1, Division
    <2>3. SYNC_EVERY * (reopened + 1) = m + SYNC_EVERY
      BY <2>1
    <2>4. acked - tail[1].calls <= m + c + Slack /\ Slack \in {0, 1}
      BY DEF LossInv, LagBounded, Slack
    <2>5. acked - tail[1].calls \in Int
      BY EnvIsLast DEF LossInv, PromiseInv, TypeOK, Env
    <2> HIDE DEF m, c
    <2> QED BY <2>1, <2>2, <2>3, <2>4, <2>5 DEF LossBounded
  <1> QED BY <1>1, <1>2, <1>3, PTL DEF Spec
-----------------------------------------------------------------------------
\* A set of naturals that is not empty has a least element.
LEMMA Least ==
  ASSUME NEW T \in SUBSET Nat, T # {}
  PROVE  \E x \in T : \A y \in T : x <= y
PROOF
  <1> DEFINE R == OpToRel(<, Nat)
  <1>1. \A x, y \in Nat : <<x, y>> \in R <=> x < y
    BY DEF OpToRel
  <1>2. IsWellFoundedOn(R, Nat)
    BY Zenon, NatLessThanWellFounded
  <1> HIDE DEF R
  <1>3. PICK x \in T : \A y \in T : ~(<<y, x>> \in R)
    BY Zenon, <1>2, WFMin
  <1>4. ASSUME NEW y \in T PROVE x <= y
    <2>1. x \in Nat /\ y \in Nat
      OBVIOUS
    <2>2. ~(y < x)
      BY <1>1, <1>3, <2>1, Zenon
    <2> QED BY <2>1, <2>2
  <1> QED BY <1>4

\* The keys have a greatest one: the key with the fewest keys above it.
LEMMA LastKey ==
  ASSUME Keys # {}
  PROVE  Max(Keys) \in Keys /\ Max(Keys) \in Nat /\ \A k \in Keys : k \in 1 .. Max(Keys)
PROOF
  <1> DEFINE above(k) == {j \in Keys : j > k}
             T == {Cardinality(above(k)) : k \in Keys}
  <1>1. IsFiniteSet(Keys) /\ \A k \in Keys : k \in Nat /\ k > 0
    BY LmdbAssumption
  <1>2. ASSUME NEW k \in Keys PROVE IsFiniteSet(above(k)) /\ Cardinality(above(k)) \in Nat
    <2>1. above(k) \in SUBSET Keys
      OBVIOUS
    <2>2. IsFiniteSet(above(k))
      BY <1>1, <2>1, FS_Subset
    <2> QED BY <2>2, FS_CardinalityType
  <1>3. T \in SUBSET Nat /\ T # {}
    BY Zenon, <1>2
  <1> HIDE DEF T
  <1>4. PICK t \in T : \A u \in T : t <= u
    BY <1>3, Least
  <1>5. PICK m \in Keys : t = Cardinality(above(m))
    BY <1>4 DEF T
  <1>6. ASSUME NEW j \in Keys PROVE m >= j
    <2>1. SUFFICES ASSUME j > m PROVE FALSE
      BY <1>1
    <2>2. above(j) \in SUBSET above(m) /\ j \in above(m) /\ j \notin above(j)
      BY <1>1, <2>1
    <2>3. Cardinality(above(j)) < Cardinality(above(m))
      <3>1. above(j) # above(m) /\ above(j) \in SUBSET above(m)
        BY <2>2
      <3> HIDE DEF above
      <3> QED BY <1>2, <3>1, FS_Subset
    <2>4. Cardinality(above(j)) \in T
      BY Zenon DEF T
    <2>5. Cardinality(above(m)) <= Cardinality(above(j))
      BY <1>4, <1>5, <2>4
    <2>6. Cardinality(above(j)) \in Nat /\ Cardinality(above(m)) \in Nat
      BY Zenon, <1>2
    <2> HIDE DEF above
    <2> QED BY <2>3, <2>5, <2>6
  <1>7. Max(Keys) \in Keys /\ \A j \in Keys : Max(Keys) >= j
    BY <1>6, Zenon DEF Max
  <1> QED BY <1>1, <1>7, SMT
-----------------------------------------------------------------------------
\* the keys that a walk takes, and the page that it should collect from k on
Live == {k \in Keys : env.obj[k] # None /\ ~is_expired(k)}
Between(k, x) == {j \in Live : k <= j /\ j < x}
Page(k, left, last) == {x \in Live : k <= x /\ x <= last /\ Cardinality(Between(k, x)) < left}

\* f is the walk of scan_range: what it collects from k on with room for left keys
Collects(f, k, left, last) ==
  IF k > Max(Keys) \/ left = 0 \/ k > last THEN {}
  ELSE IF k \in Keys /\ env.obj[k] # None /\ ~is_expired(k)
  THEN {k} \cup f[k + 1][left - 1]
  ELSE f[k + 1][left]
IsWalk(f, last, limit) ==
  f = [k \in 1 .. Max(Keys) + 1 |-> [left \in 0 .. limit |-> Collects(f, k, left, last)]]

Walk(last, limit) ==
  [k \in 1 .. Max(Keys) + 1 |-> [left \in 0 .. limit |-> Page(k, left, last)]]

\* Between two positions there are finitely many keys to take.
LEMMA BetweenFinite ==
  ASSUME NEW k, NEW x
  PROVE  IsFiniteSet(Between(k, x)) /\ Cardinality(Between(k, x)) \in Nat
PROOF
  <1>1. Between(k, x) \in SUBSET Keys
    BY DEF Between, Live
  <1>2. IsFiniteSet(Between(k, x))
    BY <1>1, LmdbAssumption, FS_Subset
  <1> QED BY <1>2, FS_CardinalityType

\* What the page holds, one step of the walk at a time.
LEMMA PageStep ==
  ASSUME Keys # {}, NEW k \in 1 .. Max(Keys) + 1, NEW left \in Nat, NEW last \in Keys
  PROVE  Page(k, left, last) =
           IF k > Max(Keys) \/ left = 0 \/ k > last THEN {}
           ELSE IF k \in Live THEN {k} \cup Page(k + 1, left - 1, last)
           ELSE Page(k + 1, left, last)
PROOF
  <1>1. Max(Keys) \in Nat /\ \A j \in Live : j \in 1 .. Max(Keys)
    BY LastKey DEF Live
  <1>2. k \in Nat /\ last \in Nat
    BY <1>1, LmdbAssumption, SMT
  <1>3. ASSUME NEW x PROVE Cardinality(Between(k, x)) \in Nat /\ Cardinality(Between(k + 1, x)) \in Nat
    BY BetweenFinite, Zenon
  <1>4. CASE k > Max(Keys) \/ left = 0 \/ k > last
    <2>1. ASSUME NEW x \in Page(k, left, last) PROVE FALSE
      <3>1. x \in Live /\ k <= x /\ x <= last /\ Cardinality(Between(k, x)) < left
        BY <2>1, Zenon DEF Page
      <3>2. Cardinality(Between(k, x)) \in Nat /\ x \in 1 .. Max(Keys)
        BY <1>1, <1>3, <3>1, Zenon
      <3> HIDE DEF Page
      <3> QED BY <1>1, <1>2, <1>4, <3>1, <3>2, SMT
    <2> QED BY <1>4, <2>1, Zenon
  <1>5. ASSUME ~(k > Max(Keys) \/ left = 0 \/ k > last), k \in Live
        PROVE  Page(k, left, last) = {k} \cup Page(k + 1, left - 1, last)
    <2>1. ASSUME NEW x \in Live, k < x
          PROVE  Cardinality(Between(k, x)) = Cardinality(Between(k + 1, x)) + 1
      <3>1. x \in Nat /\ \A j \in Live : j \in Nat
        BY <1>1, SMT
      <3>2. Between(k, x) = Between(k + 1, x) \cup {k} /\ k \notin Between(k + 1, x)
        <4>1. \A j \in Live : (k <= j /\ j < x) <=> ((k + 1 <= j /\ j < x) \/ j = k)
          BY <1>2, <2>1, <3>1, SMT
        <4>2. ~(k + 1 <= k)
          BY <1>2, SMT
        <4> QED BY <1>5, <4>1, <4>2, Zenon DEF Between
      <3>3. IsFiniteSet(Between(k + 1, x))
        BY BetweenFinite, Zenon
      <3> QED BY <3>2, <3>3, FS_AddElement
    <2>2. Cardinality(Between(k, k)) = 0
      <3>1. Between(k, k) = {}
        BY <1>1, <1>2, SMT DEF Between
      <3> QED BY <3>1, FS_EmptySet
    <2>3. ASSUME NEW x PROVE x \in Page(k, left, last) <=> x \in {k} \cup Page(k + 1, left - 1, last)
      <3>1. CASE x = k
        <4>1. k \in Live /\ k <= k /\ k <= last /\ Cardinality(Between(k, k)) < left
          BY <1>2, <1>5, <2>2, SMT
        <4> QED BY <3>1, <4>1, Zenon DEF Page
      <3>2. CASE x # k /\ x \in Live
        <4>1. x \in Nat
          BY <1>1, <3>2, SMT
        <4>2. k < x => Cardinality(Between(k, x)) = Cardinality(Between(k + 1, x)) + 1
          BY <2>1, <3>2, Zenon
        <4>3. Cardinality(Between(k, x)) \in Nat /\ Cardinality(Between(k + 1, x)) \in Nat
          BY <1>3, Zenon
        <4>4. (k <= x /\ x <= last /\ Cardinality(Between(k, x)) < left)
              <=> (k + 1 <= x /\ x <= last /\ Cardinality(Between(k + 1, x)) < left - 1)
          BY <1>2, <3>2, <4>1, <4>2, <4>3, SMT
        <4> QED BY <3>2, <4>4, Zenon DEF Page
      <3>3. CASE x # k /\ x \notin Live
        BY <3>3, Zenon DEF Page
      <3> QED BY <3>1, <3>2, <3>3, Zenon
    <2> QED BY <2>3, Zenon
  <1>6. ASSUME ~(k > Max(Keys) \/ left = 0 \/ k > last), k \notin Live
        PROVE  Page(k, left, last) = Page(k + 1, left, last)
    <2>1. ASSUME NEW x \in Live PROVE (k <= x <=> k + 1 <= x)
      <3>1. x \in Nat /\ x # k
        BY <1>1, <1>6, SMT
      <3> QED BY <1>2, <3>1, SMT
    <2>2. ASSUME NEW x PROVE Between(k, x) = Between(k + 1, x)
      BY <2>1, Zenon DEF Between
    <2>3. ASSUME NEW x PROVE x \in Page(k, left, last) <=> x \in Page(k + 1, left, last)
      <3>1. CASE x \in Live
        <4>1. (k <= x <=> k + 1 <= x) /\ Cardinality(Between(k, x)) = Cardinality(Between(k + 1, x))
          BY <2>1, <2>2, <3>1, Zenon
        <4> QED BY <3>1, <4>1, Zenon DEF Page
      <3>2. CASE x \notin Live
        BY <3>2, Zenon DEF Page
      <3> QED BY <3>1, <3>2
    <2> QED BY <2>3, Zenon
  <1> QED BY <1>4, <1>5, <1>6, Zenon

\* So the pages are a walk.
LEMMA WalkExists ==
  ASSUME NEW last \in Keys, NEW limit \in Nat
  PROVE  IsWalk(Walk(last, limit), last, limit)
PROOF
  <1> DEFINE w == Walk(last, limit)
             M == Max(Keys)
  <1>1. M \in Nat
    BY LastKey
  <1>2. ASSUME NEW k \in 1 .. M + 1, NEW left \in 0 .. limit
        PROVE  Page(k, left, last) = Collects(w, k, left, last)
    <2>0. left \in Nat
      BY SMT
    <2>1. CASE k > M \/ left = 0 \/ k > last
      BY <2>0, <2>1, PageStep, Zenon DEF Collects
    <2>2. CASE ~(k > M \/ left = 0 \/ k > last)
      <3>1. k + 1 \in 1 .. M + 1 /\ left - 1 \in 0 .. limit /\ left \in Nat
        BY <1>1, <2>2, SMT
      <3>2. w[k + 1][left - 1] = Page(k + 1, left - 1, last) /\ w[k + 1][left] = Page(k + 1, left, last)
        BY <3>1, Zenon DEF Walk
      <3>3. k \in Live <=> k \in Keys /\ env.obj[k] # None /\ ~is_expired(k)
        BY Zenon DEF Live
      <3>4. Page(k, left, last) = IF k \in Live THEN {k} \cup Page(k + 1, left - 1, last)
                                  ELSE Page(k + 1, left, last)
        BY <2>2, <3>1, PageStep, Zenon
      <3> QED BY <2>2, <3>2, <3>3, <3>4, Zenon DEF Collects
    <2> QED BY <2>1, <2>2
  <1>3. w = [k \in 1 .. M + 1 |-> [left \in 0 .. limit |-> Collects(w, k, left, last)]]
    BY <1>2, Zenon DEF Walk
  <1> QED BY <1>3, Zenon DEF IsWalk

\* What a walk collects at one position.
LEMMA WalkAt ==
  ASSUME NEW last, NEW limit, NEW f, IsWalk(f, last, limit),
         NEW k \in 1 .. Max(Keys) + 1, NEW left \in 0 .. limit
  PROVE  f[k][left] = Collects(f, k, left, last)
  BY Zenon DEF IsWalk, Collects

\* There is one walk: two that differ would differ at a last position, and what a
\* walk collects there is determined by the next position.
LEMMA WalkUnique ==
  ASSUME NEW last \in Keys, NEW limit \in Nat, NEW f, NEW g,
         IsWalk(f, last, limit), IsWalk(g, last, limit),
         NEW k \in 1 .. Max(Keys) + 1, NEW left \in 0 .. limit
  PROVE  f[k][left] = g[k][left]
PROOF
  <1> DEFINE M == Max(Keys)
             T == {d \in 0 .. M : \E l \in 0 .. limit : f[M + 1 - d][l] # g[M + 1 - d][l]}
  <1>1. M \in Nat
    BY LastKey
  <1>2. SUFFICES ASSUME f[k][left] # g[k][left] PROVE FALSE
    OBVIOUS
  <1>3. M + 1 - k \in T
    <2>1. M + 1 - k \in 0 .. M /\ M + 1 - (M + 1 - k) = k
      BY <1>1, SMT
    <2> QED BY <1>2, <2>1, Zenon
  <1>4. T \in SUBSET Nat
    BY <1>1, SMT
  <1>5. PICK d \in T : \A e \in T : d <= e
    BY <1>3, <1>4, Least, Zenon
  <1>6. PICK l \in 0 .. limit : f[M + 1 - d][l] # g[M + 1 - d][l]
    BY <1>5, Zenon
  <1>7. PICK i \in 1 .. M + 1 : i = M + 1 - d
    BY <1>1, <1>5, SMT
  <1>8. f[i][l] = Collects(f, i, l, last) /\ g[i][l] = Collects(g, i, l, last)
    <2>1. i \in 1 .. Max(Keys) + 1 /\ l \in 0 .. limit
      BY <1>6, <1>7
    <2> QED BY <2>1, WalkAt, Zenon
  <1>9. CASE i > M \/ l = 0 \/ i > last
    <2>1. f[i][l] = {} /\ g[i][l] = {}
      BY <1>8, <1>9, Zenon DEF Collects
    <2> QED BY <1>6, <1>7, <2>1, Zenon
  <1>10. CASE ~(i > M \/ l = 0 \/ i > last)
    <2>1. d - 1 \in 0 .. M /\ ~(d <= d - 1) /\ M + 1 - (d - 1) = i + 1 /\ l - 1 \in 0 .. limit
      BY <1>1, <1>5, <1>7, <1>10, SMT
    <2>2. d - 1 \notin T
      BY <1>5, <2>1, Zenon
    <2>3. \A m \in 0 .. limit : f[M + 1 - (d - 1)][m] = g[M + 1 - (d - 1)][m]
      BY <2>1, <2>2, Zenon
    <2>4. f[i + 1][l] = g[i + 1][l] /\ f[i + 1][l - 1] = g[i + 1][l - 1]
      BY <2>1, <2>3, Zenon
    <2>5. f[i][l] = g[i][l]
      BY <1>8, <2>4, Zenon DEF Collects
    <2> QED BY <1>6, <1>7, <2>5, Zenon
  <1> QED BY <1>9, <1>10

\* scan_range: the walk from the later of the cursor and the start of the prefix
\* collects its page.
LEMMA ScanIsPage ==
  ASSUME NEW after \in Keys \cup {0}, NEW first \in Keys, NEW last \in Keys, NEW limit \in Nat
  PROVE  scan_range(after, first, last, limit)
           = Page(IF after + 1 >= first THEN after + 1 ELSE first, limit, last)
PROOF
  <1> DEFINE start == IF after + 1 >= first THEN after + 1 ELSE first
  <1>1. /\ Max(Keys) \in Nat /\ after \in Nat /\ first \in Nat
        /\ start \in 1 .. Max(Keys) + 1 /\ limit \in 0 .. limit
    <2>1. Max(Keys) \in Nat /\ first \in 1 .. Max(Keys) /\ after \in 0 .. Max(Keys)
      BY LastKey, SMT
    <2> QED BY <2>1, SMT
  <1>2. Max({after + 1, first}) = start
    <2>1. \E x \in {after + 1, first} : \A y \in {after + 1, first} : x >= y
      BY <1>1, SMT
    <2>2. Max({after + 1, first}) \in {after + 1, first}
          /\ \A y \in {after + 1, first} : Max({after + 1, first}) >= y
      BY <2>1, Zenon DEF Max
    <2> QED BY <1>1, <2>2, SMT
  <1>3. \E f : IsWalk(f, last, limit) /\ scan_range(after, first, last, limit) = f[Max({after + 1, first})][limit]
    <2>1. \E f : IsWalk(f, last, limit)
      BY WalkExists
    <2> QED BY <2>1, Zenon DEF scan_range, IsWalk, Collects
  <1>4. PICK f : IsWalk(f, last, limit) /\ scan_range(after, first, last, limit) = f[start][limit]
    BY <1>2, <1>3
  <1> HIDE DEF start
  <1>5. f[start][limit] = Walk(last, limit)[start][limit]
    <2>1. PICK g : g = Walk(last, limit) /\ IsWalk(g, last, limit)
      BY WalkExists
    <2>2. PICK k \in 1 .. Max(Keys) + 1 : k = start
      BY <1>1
    <2>3. IsWalk(f, last, limit) /\ limit \in 0 .. limit
      BY <1>1, <1>4
    <2>4. f[k][limit] = g[k][limit]
      BY <2>1, <2>2, <2>3, WalkUnique
    <2> QED BY <2>1, <2>2, <2>4
  <1>6. Walk(last, limit)[start][limit] = Page(start, limit, last)
    BY <1>1, Zenon DEF Walk
  <1> QED BY <1>4, <1>5, <1>6, Zenon DEF start

\* So scans and reads agree whatever the store holds, and whatever is expired in it.
LEMMA PagesAgree == ScansAgreeWithReads
PROOF
  <1> SUFFICES ASSUME NEW after \in Keys \cup {0}, NEW first \in Keys, NEW last \in Keys,
                      NEW limit \in 1 .. Cardinality(Keys)
               PROVE  LET found == {k \in Keys : k > after /\ k \in first .. last /\ get_object(k) # None}
                      IN  scan_range(after, first, last, limit)
                            = {k \in found : Cardinality({j \in found : j < k}) < limit}
    BY Zenon DEF ScansAgreeWithReads
  <1> DEFINE found == {k \in Keys : k > after /\ k \in first .. last /\ get_object(k) # None}
             start == IF after + 1 >= first THEN after + 1 ELSE first
  <1>1. limit \in Nat /\ after \in Nat /\ first \in Nat /\ last \in Nat /\ \A k \in Keys : k \in Nat
    BY LmdbAssumption, FS_CardinalityType, SMT
  <1>2. scan_range(after, first, last, limit) = Page(start, limit, last)
    BY <1>1, ScanIsPage
  <1>3. ASSUME NEW k PROVE k \in found <=> k \in Live /\ start <= k /\ k <= last
    <2>1. k \in Keys => (get_object(k) # None <=> env.obj[k] # None /\ ~is_expired(k))
      BY Zenon DEF get_object
    <2>2. k \in Keys => (k > after /\ k \in first .. last <=> start <= k /\ k <= last)
      BY <1>1, SMT
    <2> HIDE DEF start
    <2> QED BY <2>1, <2>2, Zenon DEF Live
  <1>4. ASSUME NEW k \in found PROVE {j \in found : j < k} = Between(start, k)
    <2>1. ASSUME NEW j \in Live, j < k PROVE j <= last
      <3>1. j \in Nat /\ k \in Nat /\ k <= last
        BY <1>1, <1>3, SMT DEF Live
      <3> QED BY <1>1, <2>1, <3>1, SMT
    <2> HIDE DEF found, start
    <2> QED BY <1>3, <2>1, Zenon DEF Between
  <1>5. ASSUME NEW k
        PROVE  k \in Page(start, limit, last)
                 <=> k \in {x \in found : Cardinality({j \in found : j < x}) < limit}
    <2> HIDE DEF found, start
    <2>1. CASE k \in found
      <3>1. Cardinality({j \in found : j < k}) = Cardinality(Between(start, k))
        BY <1>4, <2>1, Zenon
      <3> QED BY <1>3, <2>1, <3>1, Zenon DEF Page
    <2>2. CASE k \notin found
      BY <1>3, <2>2, Zenon DEF Page
    <2> QED BY <2>1, <2>2
  <1> QED BY <1>2, <1>5, Zenon

(***************************************************************************)
(* A page of scan_range holds exactly the smallest keys after the cursor   *)
(* that get_object finds (ScansAgreeWithReads), for any set of keys,       *)
(* prefix, cursor and limit: the walk skips what is absent or expired      *)
(* without using up places of the page.                                    *)
(***************************************************************************)
THEOREM ScansMatchReads == Spec => []ScansAgreeWithReads
  BY PagesAgree, PTL
=============================================================================
