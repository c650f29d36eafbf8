----------------------------- MODULE LeaseProofs -----------------------------
(***************************************************************************)
(* Proofs about Lease: the fencing token, for any number of coordinators   *)
(* and shards, any TTL, and any loss, delay, crash or restart.             *)
(***************************************************************************)
EXTENDS Lease, TLAPS

\* no grant is ahead of the stored record, and the stored term has one holder
GrantsBehind ==
  \A g \in grants :
    /\ g.token <= lease[g.shard].token
    /\ g.token = lease[g.shard].token => g.holder = lease[g.shard].holder

\* the loop publishes only an outcome it has
ReplyInHand == \A c \in Coordinators : pc[c] \in {"token", "holder"} => outcome[c] # Nobody

FencingInv == TypeOK /\ ReplyInHand /\ GrantsBehind /\ FencingUnique

Granted(c, t) == [shard |-> Arbiter, holder |-> c, token |-> t] \in grants

\* the bucket of LEADER_KEY stays where it is
OneArbiter == ~MayMoveLease

\* with one arbiter, what a coordinator believes stems from a grant of its own
BeliefInv ==
  /\ OneArbiter
  /\ \A c \in Coordinators :
       /\ owner[c] = Arbiter
       /\ outcome[c] # Nobody /\ outcome[c].granted => Granted(c, outcome[c].lease.token)
       /\ pc[c] = "token" /\ is_leader[c] => outcome[c].granted
       /\ is_leader[c] /\ pc[c] # "token" => Granted(c, token[c])
       /\ pc[c] = "down" => ~is_leader[c] /\ outcome[c] = Nobody
-----------------------------------------------------------------------------
\* what evaluate answers: a renewal, a new term, or a refusal
LEMMA EvaluateCases ==
  ASSUME NEW c \in Coordinators, NEW cur \in Record \cup {NoRecord}
  PROVE  LET o == evaluate(cur, c)
         IN  /\ o \in Outcome
             /\ o.granted => o.lease.holder = c
             /\ o.granted => \/ o.lease.token = cur.token /\ cur.holder = c
                             \/ o.lease.token = cur.token + 1
             /\ ~o.granted => o.lease = cur
<1>1. CASE cur.left > 0 /\ cur.holder = c
  BY <1>1, LeaseAssumption DEF evaluate, Grant, Outcome, Record, NoRecord
<1>2. CASE cur.left > 0 /\ cur.holder # c
  <2>1. cur \in Record
    BY <1>2 DEF NoRecord
  <2> QED
    BY <1>2, <2>1 DEF evaluate, Outcome, Record
<1>3. CASE ~(cur.left > 0)
  BY <1>3, LeaseAssumption DEF evaluate, Grant, Outcome, Record, NoRecord
<1> QED
  BY <1>1, <1>2, <1>3

\* No lease is granted at first.
LEMMA InitFencing == Init => FencingInv
<1> SUFFICES ASSUME Init PROVE FencingInv
  OBVIOUS
<1>1. late \in BOOLEAN
  BY Zenon DEF Init
<1>2. TypeOK
  BY <1>1, LeaseAssumption DEF Init, TypeOK
<1>3. ReplyInHand /\ GrantsBehind /\ FencingUnique
  BY DEF Init, ReplyInHand, GrantsBehind, FencingUnique
<1> QED
  BY <1>2, <1>3 DEF FencingInv

\* a step that leaves tokens, holders and grants alone keeps the fencing
LEMMA FencingKept ==
  ASSUME FencingInv, TypeOK', ReplyInHand', grants' = grants,
         \A s \in Shards : lease'[s].token = lease[s].token /\ lease'[s].holder = lease[s].holder
  PROVE  FencingInv'
<1>1. GrantsBehind'
  BY DEF FencingInv, GrantsBehind, TypeOK
<1>2. FencingUnique'
  BY DEF FencingInv, FencingUnique
<1> QED
  BY <1>1, <1>2 DEF FencingInv

\* lease_acquire grants a free or an expired lease with a higher token, or renews.
LEMMA AcquireFencing ==
  ASSUME FencingInv, NEW c \in Coordinators, lease_acquire(c)
  PROVE  FencingInv'
<1> DEFINE s == owner[c]
           cur == lease[s]
           o == evaluate(cur, c)
           g0 == [shard |-> s, holder |-> c, token |-> o.lease.token]
<1>0. TypeOK /\ ReplyInHand /\ GrantsBehind /\ FencingUnique
  BY DEF FencingInv
<1>1. s \in Shards /\ cur \in Record \cup {NoRecord}
  BY <1>0 DEF TypeOK
<1>2. /\ o \in Outcome
      /\ o.granted => o.lease.holder = c
      /\ o.granted => \/ o.lease.token = cur.token /\ cur.holder = c
                      \/ o.lease.token = cur.token + 1
      /\ ~o.granted => o.lease = cur
  BY <1>1, EvaluateCases
<1>3. cur.token \in Nat /\ o.lease \in Record /\ o.lease.token \in Nat
  BY <1>1, <1>2 DEF Record, NoRecord, Outcome
<1>4. /\ lease' = [lease EXCEPT ![s] = IF o.granted THEN o.lease ELSE @]
      /\ grants' = grants \cup IF o.granted THEN {g0} ELSE {}
      /\ outcome' = [outcome EXCEPT ![c] = o]
      /\ pc' = [pc EXCEPT ![c] = "reply"]
      /\ UNCHANGED <<owner, is_leader, token, current_leader, driving, crashes, late>>
  BY DEF lease_acquire
<1> HIDE DEF o, cur
<1>5. TypeOK'
  <2>1. lease' \in [Shards -> Record \cup {NoRecord}]
    BY <1>0, <1>1, <1>3, <1>4 DEF TypeOK
  <2>2. grants' \subseteq [shard : Shards, holder : Coordinators, token : Nat]
    BY <1>0, <1>1, <1>3, <1>4 DEF TypeOK
  <2>3. outcome' \in [Coordinators -> Outcome \cup {Nobody}]
    BY <1>0, <1>2, <1>4 DEF TypeOK
  <2>4. crashes' \in Nat /\ late' \in BOOLEAN
    BY <1>0, <1>4 DEF TypeOK
  <2> QED
    BY <1>0, <1>4, <2>1, <2>2, <2>3, <2>4 DEF TypeOK
<1>8. ReplyInHand'
  BY <1>0, <1>4 DEF TypeOK, ReplyInHand
<1>6. CASE ~o.granted
  BY <1>0, <1>4, <1>5, <1>6, <1>8, FencingKept DEF FencingInv, TypeOK
<1>7. CASE o.granted
  <2>1. lease'[s] = o.lease /\ \A t \in Shards \ {s} : lease'[t] = lease[t]
    BY <1>0, <1>1, <1>4, <1>7 DEF TypeOK
  <2>2. ASSUME NEW g \in grants
        PROVE  /\ g.token <= lease'[g.shard].token
               /\ g.token = lease'[g.shard].token => g.holder = lease'[g.shard].holder
               /\ g.shard = s /\ g.token = o.lease.token => g.holder = c
    <3>1. g.token \in Nat /\ g.shard \in Shards
      BY <1>0 DEF TypeOK
    <3>2. /\ g.token <= lease[g.shard].token
          /\ g.token = lease[g.shard].token => g.holder = lease[g.shard].holder
      BY <1>0 DEF GrantsBehind
    <3>3. CASE g.shard # s
      BY <2>1, <3>1, <3>2, <3>3
    <3>4. CASE g.shard = s
      BY <1>2, <1>3, <1>7, <2>1, <3>1, <3>2, <3>4 DEF cur
    <3> QED
      BY <3>3, <3>4
  <2>3. GrantsBehind'
    BY <1>2, <1>3, <1>4, <1>7, <2>1, <2>2 DEF GrantsBehind
  <2>4. FencingUnique'
    BY <1>0, <1>4, <1>7, <2>2 DEF FencingUnique
  <2> QED
    BY <1>5, <1>8, <2>3, <2>4 DEF FencingInv
<1> QED
  BY <1>6, <1>7

\* Every step keeps what fencing rests on.
LEMMA NextFencing == FencingInv /\ [Next]_vars => FencingInv'
<1> SUFFICES ASSUME FencingInv, [Next]_vars PROVE FencingInv'
  OBVIOUS
<1>0. TypeOK /\ ReplyInHand
  BY DEF FencingInv
<1> DEFINE Same == /\ grants' = grants
                   /\ \A s \in Shards : /\ lease'[s].token = lease[s].token
                                        /\ lease'[s].holder = lease[s].holder
<1>1. ASSUME TypeOK', ReplyInHand', Same PROVE FencingInv'
  BY <1>1, FencingKept
<1> HIDE DEF Same
<1> USE DEF elector
<1>2. ASSUME NEW c \in Coordinators, lease_acquire(c) PROVE FencingInv'
  BY <1>2, AcquireFencing
<1>3. ASSUME NEW c \in Coordinators,
             Unreachable(c) \/ ReplyLost(c) \/ StepDown(c) \/ Wake(c) \/ Crash(c) \/ Restart(c)
      PROVE  FencingInv'
  <2>1. TypeOK'
    <3>1. CASE Crash(c)
      BY <1>0, <3>1, LeaseAssumption DEF TypeOK, Crash
    <3>2. CASE Unreachable(c) \/ Wake(c) \/ Restart(c)
      BY Zenon, <1>0, <3>2 DEF TypeOK, Unreachable, Wake, Restart
    <3>3. CASE ReplyLost(c) \/ StepDown(c)
      BY Zenon, <1>0, <3>3 DEF TypeOK, ReplyLost, StepDown
    <3> QED
      BY <1>3, <3>1, <3>2, <3>3
  <2>2. ReplyInHand'
    BY <1>0, <1>3
    DEF TypeOK, ReplyInHand, Unreachable, ReplyLost, StepDown, Wake, Crash, Restart
  <2>3. Same
    BY <1>3 DEF Same, Unreachable, ReplyLost, StepDown, Wake, Crash, Restart
  <2> QED
    BY <1>1, <2>1, <2>2, <2>3
<1>4. ASSUME NEW c \in Coordinators, PublishLeader(c) \/ PublishToken(c) \/ PublishHolder(c)
      PROVE  FencingInv'
  <2>1. outcome[c] \in Outcome
    BY <1>0, <1>4 DEF TypeOK, ReplyInHand, PublishLeader, PublishToken, PublishHolder
  <2>2. TypeOK'
    <3>1. /\ outcome[c].granted \in BOOLEAN
          /\ outcome[c].lease.token \in Nat
          /\ outcome[c].lease.holder \in Coordinators
      BY <2>1 DEF Outcome, Record
    <3> QED
      BY <1>0, <1>4, <3>1 DEF TypeOK, PublishLeader, PublishToken, PublishHolder
  <2>3. ReplyInHand'
    BY <1>0, <1>4 DEF TypeOK, ReplyInHand, PublishLeader, PublishToken, PublishHolder
  <2>4. Same
    BY <1>4 DEF Same, PublishLeader, PublishToken, PublishHolder
  <2> QED
    BY <1>1, <2>2, <2>3, <2>4
<1>5. ASSUME NEW c \in Coordinators, BeginAdmin(c) \/ \E s \in Shards : EndAdmin(c, s)
      PROVE  FencingInv'
  <2>1. TypeOK'
    BY ZenonT(60), <1>0, <1>5 DEF TypeOK, BeginAdmin, EndAdmin
  <2>2. ReplyInHand' /\ Same
    BY <1>0, <1>5 DEF ReplyInHand, Same, BeginAdmin, EndAdmin
  <2> QED
    BY <1>1, <2>1, <2>2
<1>6. CASE Tick
  <2>1. ASSUME NEW s \in Shards
        PROVE  /\ lease'[s] \in Record \cup {NoRecord}
               /\ lease'[s].token = lease[s].token
               /\ lease'[s].holder = lease[s].holder
    <3>1. lease'[s] = [lease[s] EXCEPT !.left = IF @ > 0 THEN @ - 1 ELSE 0]
      BY <1>6 DEF Tick
    <3>2. CASE lease[s] = NoRecord
      BY <3>1, <3>2 DEF NoRecord
    <3>3. CASE lease[s] \in Record
      BY <3>1, <3>3, LeaseAssumption DEF Record
    <3> QED
      BY <1>0, <3>2, <3>3 DEF TypeOK
  <2>2. TypeOK'
    BY <1>0, <1>6, <2>1 DEF TypeOK, Tick
  <2>3. ReplyInHand' /\ Same
    BY <1>0, <1>6, <2>1 DEF ReplyInHand, Same, Tick
  <2> QED
    BY <1>1, <2>2, <2>3
<1>7. CASE UNCHANGED vars
  <2>1. TypeOK' /\ ReplyInHand' /\ Same
    BY <1>0, <1>7 DEF TypeOK, ReplyInHand, Same, vars
  <2> QED
    BY <1>1, <2>1
<1> QED
  BY <1>2, <1>3, <1>4, <1>5, <1>6, <1>7 DEF Next, ElectorStep

\* What fencing rests on holds throughout.
LEMMA FencingInvariance == Spec => []FencingInv
<1> QED
  BY InitFencing, NextFencing, PTL DEF Spec

(***************************************************************************)
(* The stored records, the election loops and the published leadership     *)
(* stay well formed; in particular a loop never publishes a reply it does  *)
(* not have.                                                               *)
(***************************************************************************)
THEOREM TypeCorrect == Spec => []TypeOK
<1>1. FencingInv => TypeOK
  BY DEF FencingInv
<1> QED
  BY <1>1, FencingInvariance, PTL

(***************************************************************************)
(* No shard ever gives one token to two coordinators (evaluate under the   *)
(* shard's write lock), however calls are lost, leases expire, memberships *)
(* move and coordinators crash.                                            *)
(***************************************************************************)
THEOREM Fencing == Spec => []FencingUnique
<1>1. FencingInv => FencingUnique
  BY DEF FencingInv
<1> QED
  BY <1>1, FencingInvariance, PTL
-----------------------------------------------------------------------------
\* Nobody believes to lead at first.
LEMMA InitBelief == OneArbiter /\ Init => BeliefInv
BY DEF Init, BeliefInv

\* the steps of one coordinator, with one arbiter
LEMMA NextBelief == FencingInv /\ BeliefInv /\ [Next]_vars => BeliefInv'
<1> SUFFICES ASSUME FencingInv, BeliefInv, [Next]_vars PROVE BeliefInv'
  OBVIOUS
<1> USE DEF elector, Granted, OneArbiter
<1>0. TypeOK /\ ReplyInHand
  BY DEF FencingInv
<1>1. grants \subseteq grants'
  BY DEF Next, ElectorStep, lease_acquire, Unreachable, ReplyLost, StepDown, PublishLeader,
         PublishToken, PublishHolder, Wake, BeginAdmin, EndAdmin, Crash, Restart, Tick, vars
<1>2. ASSUME NEW c \in Coordinators, lease_acquire(c) PROVE BeliefInv'
  <2>1. owner[c] = Arbiter
    BY Zenon DEF BeliefInv
  <2> DEFINE o == evaluate(lease[Arbiter], c)
  <2>2. /\ outcome' = [outcome EXCEPT ![c] = o]
        /\ o.granted => [shard |-> Arbiter, holder |-> c, token |-> o.lease.token] \in grants'
        /\ pc' = [pc EXCEPT ![c] = "reply"]
        /\ pc[c] = "ask"
        /\ UNCHANGED <<owner, is_leader, token>>
    BY <1>2, <2>1 DEF lease_acquire
  <2> HIDE DEF o
  <2>3. DOMAIN pc = Coordinators /\ DOMAIN outcome = Coordinators
    BY <1>0 DEF TypeOK
  <2> QED
    BY Zenon, <1>1, <2>2, <2>3 DEF BeliefInv
<1>3. ASSUME NEW c \in Coordinators, Unreachable(c) \/ ReplyLost(c) \/ StepDown(c) \/ Wake(c)
      PROVE  BeliefInv'
  BY <1>0, <1>1, <1>3, ZenonT(60) DEF BeliefInv, TypeOK, Unreachable, ReplyLost, StepDown, Wake
<1>4. ASSUME NEW c \in Coordinators, PublishLeader(c) \/ PublishToken(c) \/ PublishHolder(c)
      PROVE  BeliefInv'
  BY <1>0, <1>1, <1>4, ZenonT(60)
  DEF BeliefInv, TypeOK, ReplyInHand, PublishLeader, PublishToken, PublishHolder
<1>5. ASSUME NEW c \in Coordinators, Crash(c) \/ Restart(c) PROVE BeliefInv'
  BY <1>0, <1>1, <1>5 DEF BeliefInv, TypeOK, Crash, Restart
<1>6. ASSUME NEW c \in Coordinators, BeginAdmin(c) \/ \E s \in Shards : EndAdmin(c, s)
      PROVE  BeliefInv'
  BY <1>0, <1>6 DEF BeliefInv, TypeOK, BeginAdmin, EndAdmin
<1>7. CASE Tick \/ UNCHANGED vars
  BY <1>7 DEF BeliefInv, Tick, vars
<1> QED
  BY <1>2, <1>3, <1>4, <1>5, <1>6, <1>7 DEF Next, ElectorStep

(***************************************************************************)
(* While the bucket of LEADER_KEY does not move, two coordinators that     *)
(* both believe to lead, one of them wrongly, show different tokens: what  *)
(* makes the token usable as a fence.  The elector's step-by-step publish  *)
(* is the only exception (Settled).                                        *)
(***************************************************************************)
THEOREM Deposed == OneArbiter /\ Spec => []TermsDiffer
<1>1. FencingInv /\ BeliefInv => TermsDiffer
  <2> SUFFICES ASSUME FencingInv, BeliefInv, NEW c \in Coordinators, NEW d \in Coordinators,
                      is_leader[c], is_leader[d], Settled(c), Settled(d), token[c] = token[d]
               PROVE  c = d
    BY DEF TermsDiffer
  <2> DEFINE g == [shard |-> Arbiter, holder |-> c, token |-> token[c]]
             h == [shard |-> Arbiter, holder |-> d, token |-> token[d]]
  <2>1. g \in grants /\ h \in grants
    BY Zenon DEF BeliefInv, Granted, Settled
  <2>2. g.shard = h.shard /\ g.token = h.token => g.holder = h.holder
    BY <2>1 DEF FencingInv, FencingUnique
  <2> QED
    BY <2>2
<1> QED
  BY <1>1, FencingInvariance, InitBelief, NextBelief, PTL DEF Spec
-----------------------------------------------------------------------------
\* while nothing is lost or late: who counts on the lease holds it, a refusal
\* goes to one that does not lead, and only leaders drive
Punctual(c) ==
  /\ Renewing(c) => Holds(c)
  /\ pc[c] = "reply" => outcome[c] # Nobody
  /\ outcome[c] # Nobody /\ ~outcome[c].granted => ~is_leader[c]
  /\ driving[c] => is_leader[c]

PunctualInv == ~late => \A c \in Coordinators : Punctual(c)

\* At first no coordinator has a lease to be late for.
LEMMA InitPunctual == Init => PunctualInv
BY DEF Init, PunctualInv, Punctual, Renewing

\* A lease that is granted or renewed lasts longer than the coordinator believes.
LEMMA AcquirePunctual ==
  ASSUME FencingInv, BeliefInv, \A d \in Coordinators : Punctual(d),
         NEW c \in Coordinators, lease_acquire(c)
  PROVE  \A d \in Coordinators : Punctual(d)'
<1> DEFINE cur == lease[Arbiter]
           o == evaluate(cur, c)
<1>0. TypeOK
  BY DEF FencingInv
<1>1. \A d \in Coordinators : owner[d] = Arbiter
  BY DEF BeliefInv
<1>2. Arbiter \in Shards /\ cur \in Record \cup {NoRecord}
  BY <1>0, LeaseAssumption DEF TypeOK
<1>3. /\ lease' = [lease EXCEPT ![Arbiter] = IF o.granted THEN o.lease ELSE @]
      /\ outcome' = [outcome EXCEPT ![c] = o]
      /\ pc' = [pc EXCEPT ![c] = "reply"]
      /\ UNCHANGED <<owner, is_leader, driving>>
  BY Zenon, <1>1 DEF lease_acquire
<1>4. o \in Outcome /\ o # Nobody
  BY Zenon, <1>2, EvaluateCases, LeaseAssumption DEF Outcome, Record
<1>5. o.granted => o.lease.holder = c /\ o.lease.left > 0
  BY <1>2, LeaseAssumption DEF evaluate, Grant
<1>6. cur.left > 0 /\ cur.holder # c => ~o.granted
  BY <1>2 DEF evaluate
<1>7. cur.left > 0 /\ cur.holder = c => o.granted
  BY <1>2 DEF evaluate, Grant
<1> HIDE DEF o
<1>8. Punctual(c)'
  <2>1. outcome'[c] = o /\ is_leader'[c] = is_leader[c] /\ driving'[c] = driving[c]
    BY <1>0, <1>3 DEF TypeOK
  <2>2. is_leader[c] => o.granted
    BY <1>1, <1>7 DEF Punctual, Renewing, Holds
  <2>3. o.granted => Holds(c)'
    BY <1>0, <1>1, <1>2, <1>3, <1>5 DEF TypeOK, Holds
  <2> QED
    BY <1>4, <2>1, <2>2, <2>3 DEF Punctual, Renewing
<1>9. ASSUME NEW d \in Coordinators, d # c PROVE Punctual(d)'
  <2>1. /\ outcome'[d] = outcome[d] /\ pc'[d] = pc[d]
        /\ is_leader'[d] = is_leader[d] /\ driving'[d] = driving[d] /\ owner'[d] = Arbiter
    BY <1>0, <1>1, <1>3, <1>9 DEF TypeOK
  <2>2. Renewing(d) => cur.left > 0 /\ cur.holder = d
    BY <1>1 DEF Punctual, Holds
  <2>3. Renewing(d) => lease'[Arbiter] = cur
    BY <1>0, <1>2, <1>3, <1>6, <1>9, <2>2 DEF TypeOK
  <2>4. Renewing(d) => Holds(d)'
    BY <2>1, <2>2, <2>3 DEF Holds
  <2> QED
    BY <2>1, <2>4 DEF Punctual, Renewing
<1> QED
  BY <1>8, <1>9

\* Every step keeps coordinators punctual, as long as none is late.
LEMMA NextPunctual == FencingInv /\ BeliefInv /\ PunctualInv /\ [Next]_vars => PunctualInv'
<1> SUFFICES ASSUME FencingInv, BeliefInv, PunctualInv, [Next]_vars, ~late'
             PROVE  \A d \in Coordinators : Punctual(d)'
  BY DEF PunctualInv
<1> USE DEF elector
<1>0. TypeOK /\ ReplyInHand /\ ~MayMoveLease /\ \A d \in Coordinators : owner[d] = Arbiter
  BY DEF FencingInv, BeliefInv, OneArbiter
<1>1. ~late
  BY Zenon DEF Next, ElectorStep, lease_acquire, Unreachable, ReplyLost, StepDown, PublishLeader,
         PublishToken, PublishHolder, Wake, BeginAdmin, EndAdmin, Crash, Restart, Tick, vars
<1>2. \A d \in Coordinators : Punctual(d)
  BY <1>1 DEF PunctualInv
<1>3. ASSUME NEW c \in Coordinators, lease_acquire(c)
      PROVE  \A d \in Coordinators : Punctual(d)'
  BY <1>2, <1>3, AcquirePunctual
<1>4. ASSUME NEW c \in Coordinators, Unreachable(c) \/ ReplyLost(c)
      PROVE  \A d \in Coordinators : Punctual(d)'
  BY <1>4 DEF Unreachable, ReplyLost
<1>5. ASSUME NEW c \in Coordinators, StepDown(c) PROVE \A d \in Coordinators : Punctual(d)'
  BY <1>2, <1>5 DEF Punctual, StepDown
<1>6. ASSUME NEW c \in Coordinators, PublishLeader(c) \/ PublishToken(c) \/ PublishHolder(c)
      PROVE  \A d \in Coordinators : Punctual(d)'
  BY <1>0, <1>2, <1>6
  DEF TypeOK, ReplyInHand, Punctual, Renewing, Holds, PublishLeader, PublishToken, PublishHolder
<1>7. ASSUME NEW c \in Coordinators, Wake(c) \/ BeginAdmin(c) \/ Crash(c) \/ Restart(c)
      PROVE  \A d \in Coordinators : Punctual(d)'
  BY <1>0, <1>2, <1>7
  DEF TypeOK, Punctual, Renewing, Holds, Wake, BeginAdmin, Crash, Restart
<1>8. ASSUME NEW c \in Coordinators, NEW s \in Shards, EndAdmin(c, s)
      PROVE  \A d \in Coordinators : Punctual(d)'
  BY <1>0, <1>2, <1>8 DEF TypeOK, Punctual, Renewing, Holds, EndAdmin
<1>9. CASE Tick
  <2>1. ASSUME NEW d \in Coordinators, Renewing(d) PROVE Holds(d)'
    <3>1. lease[Arbiter].holder = d /\ lease[Arbiter].left > 0
      BY <1>0, <1>2, <2>1 DEF Punctual, Holds
    <3>2. Arbiter \in Shards /\ lease[Arbiter].left # 1
      BY Zenon, <1>0, <1>9, <2>1, <3>1, LeaseAssumption DEF Tick, RunsOut
    <3>3. lease[Arbiter] \in Record \cup {NoRecord}
      BY <1>0, <3>2 DEF TypeOK
    <3>4. lease'[Arbiter] = [lease[Arbiter] EXCEPT !.left = IF @ > 0 THEN @ - 1 ELSE 0]
      BY <1>9, <3>2 DEF Tick
    <3>5. lease'[Arbiter].holder = d /\ lease'[Arbiter].left > 0
      BY <3>1, <3>2, <3>3, <3>4, LeaseAssumption DEF Record, NoRecord
    <3> QED
      BY <1>0, <1>9, <3>5 DEF Holds, Tick
  <2> QED
    BY <1>2, <1>9, <2>1 DEF Tick, Punctual, Renewing
<1>10. CASE UNCHANGED vars
  BY <1>2, <1>10 DEF vars, Punctual, Renewing, Holds
<1> QED
  BY <1>3, <1>4, <1>5, <1>6, <1>7, <1>8, <1>9, <1>10 DEF Next, ElectorStep

\* With one arbiter the three invariants hold throughout.
LEMMA PunctualInvariance == OneArbiter /\ Spec => [](TypeOK /\ BeliefInv /\ PunctualInv)
<1>1. FencingInv => TypeOK
  BY DEF FencingInv
<1> QED
  BY <1>1, FencingInvariance, InitBelief, NextBelief, InitPunctual, NextPunctual, PTL DEF Spec

(***************************************************************************)
(* While the bucket of LEADER_KEY does not move, calls return and renewals *)
(* are in time, a coordinator whose is_leader is set holds the lease, for  *)
(* any number of coordinators, crashes and takeovers.                      *)
(***************************************************************************)
THEOREM Leadership == OneArbiter /\ Spec => []LeaderHoldsLease
<1>1. PunctualInv => LeaderHoldsLease
  BY DEF PunctualInv, Punctual, Renewing, LeaderHoldsLease
<1> QED
  BY <1>1, PunctualInvariance, PTL

(***************************************************************************)
(* Under the same premises the admin gate lets one coordinator at a time   *)
(* run a rebalance or a drain, since a driver stays the leader.            *)
(***************************************************************************)
THEOREM OneDriver == OneArbiter /\ Spec => []SingleDriver
<1>1. BeliefInv /\ PunctualInv => SingleDriver
  <2> SUFFICES ASSUME BeliefInv, PunctualInv, ~late, NEW c \in Coordinators,
                      NEW d \in Coordinators, driving[c], driving[d]
               PROVE  c = d
    BY DEF SingleDriver
  <2>1. Holds(c) /\ Holds(d)
    BY DEF PunctualInv, Punctual, Renewing
  <2> QED
    BY <2>1 DEF Holds, BeliefInv
<1> QED
  BY <1>1, PunctualInvariance, PTL
=============================================================================
