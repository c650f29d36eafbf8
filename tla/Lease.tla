------------------------------- MODULE Lease -------------------------------
(***************************************************************************)
(* lease.rs, Shard::lease_acquire, Cluster::lease_acquire and the elector  *)
(* and admin gate of coord.rs: several coordinators elect the driver of    *)
(* rebalances through a TTL lease on the shard that owns LEADER_KEY.       *)
(*                                                                         *)
(* A lease record keeps the time it has `left` instead of expires_ms: the  *)
(* code only ever compares expires_ms with the clock.  The owner of        *)
(* LEADER_KEY is looked up in each coordinator's own Cluster.              *)
(***************************************************************************)
EXTENDS Naturals, FiniteSets

CONSTANTS
  Coordinators,
  Shards,
  Arbiter,       \* owner of LEADER_KEY in the membership all are started with
  TTL,
  Nobody,        \* no record, no reply, no known leader
  MayMoveLease,  \* may a rebalance move the bucket of LEADER_KEY?
  MaxCrashes,    \* bound: coordinator crashes
  MaxTerms       \* bound: leadership terms

ASSUME LeaseAssumption ==
  /\ Arbiter \in Shards
  /\ TTL \in Nat \ {0}
  /\ Nobody \notin Coordinators
  /\ Nobody \notin [granted : BOOLEAN, lease : [holder : Coordinators, left : 0 .. TTL, token : Nat]]
  /\ MayMoveLease \in BOOLEAN
  /\ {MaxCrashes, MaxTerms} \subseteq Nat

VARIABLES
  lease,                             \* lease[s]: the record shard s stores
  owner,                             \* owner[c]: primary of LEADER_KEY as c sees it
  pc, outcome,                       \* the election loop and the reply it works on
  is_leader, token, current_leader,  \* Leadership
  driving,                           \* driving[c]: c runs a rebalance or a drain
  crashes,
  late,                              \* history: a call was lost or a lease in use ran out
  grants                             \* history: every grant a shard ever made

elector == <<pc, outcome, is_leader, token, current_leader>>
vars == <<lease, owner, elector, driving, crashes, late, grants>>

Record == [holder : Coordinators, left : 0 .. TTL, token : Nat]
Outcome == [granted : BOOLEAN, lease : Record]
NoRecord == [holder |-> Nobody, left |-> 0, token |-> 0]

TypeOK ==
  /\ lease \in [Shards -> Record \cup {NoRecord}]
  /\ owner \in [Coordinators -> Shards]
  /\ pc \in [Coordinators -> {"down", "ask", "reply", "token", "holder", "sleep"}]
  /\ outcome \in [Coordinators -> Outcome \cup {Nobody}]
  /\ is_leader \in [Coordinators -> BOOLEAN]
  /\ token \in [Coordinators -> Nat]
  /\ current_leader \in [Coordinators -> Coordinators \cup {Nobody}]
  /\ driving \in [Coordinators -> BOOLEAN]
  /\ crashes \in Nat /\ late \in BOOLEAN
  /\ grants \subseteq [shard : Shards, holder : Coordinators, token : Nat]

Init ==
  /\ lease = [s \in Shards |-> NoRecord]
  /\ owner = [c \in Coordinators |-> Arbiter]
  /\ pc = [c \in Coordinators |-> "ask"]
  /\ outcome = [c \in Coordinators |-> Nobody]
  /\ is_leader = [c \in Coordinators |-> FALSE]
  /\ token = [c \in Coordinators |-> 0]
  /\ current_leader = [c \in Coordinators |-> Nobody]
  /\ driving = [c \in Coordinators |-> FALSE]
  /\ crashes = 0 /\ late = FALSE
  /\ grants = {}
-----------------------------------------------------------------------------
Grant(c, t) == [granted |-> TRUE, lease |-> [holder |-> c, left |-> TTL, token |-> t]]

\* a plausible slip: a late renewal or a takeover continues the old term
MutEvaluateKeepsToken(current, c) ==
  IF current.holder # c /\ current.left > 0 THEN [granted |-> FALSE, lease |-> current]
  ELSE Grant(c, IF current = NoRecord THEN 1 ELSE current.token)

\* a plausible slip: a lease of somebody else is denied even when it expired
MutEvaluateForever(current, c) ==
  IF current.holder \notin {c, Nobody} THEN [granted |-> FALSE, lease |-> current]
  ELSE Grant(c, IF current.left > 0 THEN current.token ELSE current.token + 1)

\* renew in the same term, deny, or open a new term (the first one is 1)
evaluate(current, c) ==
  IF current.left > 0
  THEN IF current.holder = c THEN Grant(c, current.token)
       ELSE [granted |-> FALSE, lease |-> current]
  ELSE Grant(c, current.token + 1)

\* the call reaches the owner, which decides and stores under its write lock
lease_acquire(c) ==
  /\ pc[c] = "ask"
  /\ LET s == owner[c]
         o == evaluate(lease[s], c)
     IN  /\ o.lease.token <= MaxTerms
         /\ lease' = [lease EXCEPT ![s] = IF o.granted THEN o.lease ELSE @]
         /\ grants' = grants \cup IF o.granted
                                  THEN {[shard |-> s, holder |-> c, token |-> o.lease.token]} ELSE {}
         /\ outcome' = [outcome EXCEPT ![c] = o]
  /\ pc' = [pc EXCEPT ![c] = "reply"]
  /\ UNCHANGED <<owner, is_leader, token, current_leader, driving, crashes, late>>

\* the owner is marked down or unreachable: the request does not arrive
Unreachable(c) ==
  /\ pc[c] = "ask"
  /\ pc' = [pc EXCEPT ![c] = "reply"]
  /\ late' = TRUE
  /\ UNCHANGED <<lease, owner, outcome, is_leader, token, current_leader, driving, crashes, grants>>

\* the owner has decided, its reply does not arrive
ReplyLost(c) ==
  /\ pc[c] = "reply" /\ outcome[c] # Nobody
  /\ outcome' = [outcome EXCEPT ![c] = Nobody]
  /\ late' = TRUE
  /\ UNCHANGED <<lease, owner, pc, is_leader, token, current_leader, driving, crashes, grants>>

\* try_acquire_leadership returned None
StepDown(c) ==
  /\ pc[c] = "reply" /\ outcome[c] = Nobody
  /\ is_leader' = [is_leader EXCEPT ![c] = FALSE]
  /\ pc' = [pc EXCEPT ![c] = "sleep"]
  /\ UNCHANGED <<lease, owner, outcome, token, current_leader, driving, crashes, late, grants>>

\* it returned an outcome, which is published one field at a time
PublishLeader(c) ==
  /\ pc[c] = "reply" /\ outcome[c] # Nobody
  /\ is_leader' = [is_leader EXCEPT ![c] = outcome[c].granted]
  /\ pc' = [pc EXCEPT ![c] = "token"]
  /\ UNCHANGED <<lease, owner, outcome, token, current_leader, driving, crashes, late, grants>>

PublishToken(c) ==
  /\ pc[c] = "token"
  /\ token' = [token EXCEPT ![c] = outcome[c].lease.token]
  /\ pc' = [pc EXCEPT ![c] = "holder"]
  /\ UNCHANGED <<lease, owner, outcome, is_leader, current_leader, driving, crashes, late, grants>>

PublishHolder(c) ==
  /\ pc[c] = "holder"
  /\ current_leader' = [current_leader EXCEPT ![c] = outcome[c].lease.holder]
  /\ outcome' = [outcome EXCEPT ![c] = Nobody]
  /\ pc' = [pc EXCEPT ![c] = "sleep"]
  /\ UNCHANGED <<lease, owner, is_leader, token, driving, crashes, late, grants>>

Wake(c) ==
  /\ pc[c] = "sleep"
  /\ pc' = [pc EXCEPT ![c] = "ask"]
  /\ UNCHANGED <<lease, owner, outcome, is_leader, token, current_leader, driving, crashes, late, grants>>
-----------------------------------------------------------------------------
\* a plausible slip: the handler forgets the leader check
MutBeginAdmin(c) ==
  /\ pc[c] # "down" /\ ~driving[c]
  /\ driving' = [driving EXCEPT ![c] = TRUE]
  /\ UNCHANGED <<lease, owner, elector, crashes, late, grants>>

\* POST /admin/rebalance or /admin/drain on the leader (others answer 409)
BeginAdmin(c) ==
  /\ pc[c] # "down" /\ ~driving[c]
  /\ is_leader[c]
  /\ driving' = [driving EXCEPT ![c] = TRUE]
  /\ UNCHANGED <<lease, owner, elector, crashes, late, grants>>

\* the rebalance commits the new membership in this coordinator's Cluster; the
\* record stays where it was, __lease is not among the migrated collections
EndAdmin(c, s) ==
  /\ driving[c]
  /\ driving' = [driving EXCEPT ![c] = FALSE]
  /\ MayMoveLease \/ s = owner[c]
  /\ owner' = [owner EXCEPT ![c] = s]
  /\ UNCHANGED <<lease, elector, crashes, late, grants>>

Crash(c) ==
  /\ pc[c] # "down" /\ crashes < MaxCrashes
  /\ crashes' = crashes + 1
  /\ pc' = [pc EXCEPT ![c] = "down"]
  /\ outcome' = [outcome EXCEPT ![c] = Nobody]
  /\ is_leader' = [is_leader EXCEPT ![c] = FALSE]
  /\ token' = [token EXCEPT ![c] = 0]
  /\ current_leader' = [current_leader EXCEPT ![c] = Nobody]
  /\ driving' = [driving EXCEPT ![c] = FALSE]
  /\ owner' = [owner EXCEPT ![c] = Arbiter]
  /\ UNCHANGED <<lease, late, grants>>

Restart(c) ==
  /\ pc[c] = "down"
  /\ pc' = [pc EXCEPT ![c] = "ask"]
  /\ UNCHANGED <<lease, owner, outcome, is_leader, token, current_leader, driving, crashes, late, grants>>

\* c counts on its lease: it leads, or is being told so
Renewing(c) == is_leader[c] \/ (outcome[c] # Nobody /\ outcome[c].granted)

\* history: the next tick ends a lease its holder counts on
RunsOut ==
  \E s \in Shards, c \in Coordinators :
    lease[s].left = 1 /\ lease[s].holder = c /\ owner[c] = s /\ Renewing(c)

\* the clock of the shards
Tick ==
  /\ \E s \in Shards : lease[s].left > 0
  /\ late' = (late \/ RunsOut)
  /\ lease' = [s \in Shards |-> [lease[s] EXCEPT !.left = IF @ > 0 THEN @ - 1 ELSE 0]]
  /\ UNCHANGED <<owner, elector, driving, crashes, grants>>
-----------------------------------------------------------------------------
ElectorStep(c) ==
  \/ lease_acquire(c) \/ StepDown(c)
  \/ PublishLeader(c) \/ PublishToken(c) \/ PublishHolder(c) \/ Wake(c)

Next ==
  \/ \E c \in Coordinators : ElectorStep(c)
  \/ \E c \in Coordinators : Unreachable(c) \/ ReplyLost(c)
  \/ \E c \in Coordinators : BeginAdmin(c)
  \/ \E c \in Coordinators, s \in Shards : EndAdmin(c, s)
  \/ \E c \in Coordinators : Crash(c) \/ Restart(c)
  \/ Tick

Spec == Init /\ [][Next]_vars

\* election loops keep running and time passes; nobody is obliged to restart
FairSpec == Spec /\ WF_vars(Tick) /\ \A c \in Coordinators : WF_vars(ElectorStep(c))
-----------------------------------------------------------------------------
(***************************************************************************)
(* Fencing (lease.rs:22): a shard never gives the same token to two        *)
(* coordinators, whatever is lost, late or restarted.                      *)
(***************************************************************************)
FencingUnique ==
  \A g, h \in grants : g.shard = h.shard /\ g.token = h.token => g.holder = h.holder

\* the fields of Leadership belong to one outcome
Settled(c) == pc[c] \in {"ask", "reply", "sleep"}

(***************************************************************************)
(* "a deposed leader can detect it" (README.md:69): as long as the arbiter *)
(* is one shard, two coordinators that both believe to lead publish        *)
(* different tokens, also when one of them has lost its lease.             *)
(***************************************************************************)
TermsDiffer ==
  \A c, d \in Coordinators :
    c # d /\ is_leader[c] /\ is_leader[d] /\ Settled(c) /\ Settled(d) => token[c] # token[d]

\* c holds a lease that has not expired, on the shard it takes for the arbiter
Holds(c) == lease[owner[c]].holder = c /\ lease[owner[c]].left > 0

(***************************************************************************)
(* "True iff THIS coordinator currently holds the lease" (coord.rs:53), in *)
(* the direction that matters: as long as calls return and renewals are in *)
(* time, a leader holds the lease, also after a crash and a takeover.      *)
(***************************************************************************)
LeaderHoldsLease == ~late => \A c \in Coordinators : is_leader[c] => Holds(c)

(***************************************************************************)
(* "the singleton work leader election exists to serialize" (coord.rs:253) *)
(* : at most one coordinator runs a rebalance or a drain, as long as       *)
(* renewals are in time.                                                   *)
(***************************************************************************)
SingleDriver == ~late => \A c, d \in Coordinators : driving[c] /\ driving[d] => c = d

(***************************************************************************)
(* A cluster with a coordinator that stays up has a leader again and       *)
(* again: a crashed leader's lease runs out and another one takes over.    *)
(* Calls return and renewals are in time throughout.                       *)
(***************************************************************************)
LeaderElected ==
  []~late => \/ []<>(\A c \in Coordinators : pc[c] = "down")
             \/ []<>(\E c \in Coordinators : is_leader[c])
=============================================================================
