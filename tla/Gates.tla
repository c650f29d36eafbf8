------------------------------- MODULE Gates -------------------------------
(***************************************************************************)
(* guard.rs: the per-bucket freeze/drain gate.  GateState is `frozen` and  *)
(* `in_flight` (one mutex, so each locked section is one step); the watch  *)
(* channel is modelled by what a receiver can observe of it: whether a     *)
(* value was sent since it subscribed.  The caller side is what            *)
(* cluster.rs does with the gate: any number of operations that enter a    *)
(* bucket and leave it, and one migration at a time (the `migrating` lock) *)
(* that freezes a chunk, drains it, works on it and unfreezes it.          *)
(***************************************************************************)
EXTENDS Naturals, FiniteSets

CONSTANTS
  Buckets,
  Ops,
  NoBucket,
  MayCancel  \* may the future of a rebalance be dropped at an await?

ASSUME GatesAssumption ==
  /\ NoBucket \notin Buckets
  /\ IsFiniteSet(Ops)
  /\ MayCancel \in BOOLEAN

VARIABLES
  frozen, in_flight,   \* GateState
  pc, bucket,          \* per operation: where it is, the bucket it asked for
  changed,             \* per operation: its receiver has an unseen value
  mpc, chunk,          \* the migration: where it is, the buckets it works on
  mchanged             \* the migration's receiver has an unseen value

vars == <<frozen, in_flight, pc, bucket, changed, mpc, chunk, mchanged>>

OpPc == {"idle", "subscribed", "parked", "inside", "left"}
MigPc == {"idle", "frozen", "subscribed", "parked", "exclusive", "thawed"}

TypeOK ==
  /\ frozen \subseteq Buckets
  /\ in_flight \in [Buckets -> Nat]
  /\ pc \in [Ops -> OpPc]
  /\ bucket \in [Ops -> Buckets]
  /\ changed \in [Ops -> BOOLEAN]
  /\ mpc \in MigPc
  /\ chunk \subseteq Buckets
  /\ mchanged \in BOOLEAN

Init ==
  /\ frozen = {}
  /\ in_flight = [b \in Buckets |-> 0]
  /\ pc = [o \in Ops |-> "idle"]
  /\ bucket \in [Ops -> Buckets]
  /\ changed = [o \in Ops |-> FALSE]
  /\ mpc = "idle"
  /\ chunk = {}
  /\ mchanged = FALSE
-----------------------------------------------------------------------------
(***************************************************************************)
(* bump: send a new value; every live receiver now has one it has not seen *)
(***************************************************************************)
bump ==
  /\ changed' = [o \in Ops |-> TRUE]
  /\ mchanged' = TRUE

NoBump == UNCHANGED <<changed, mchanged>>

\* enter: the head of the loop, on the first call and after each wakeup
EnterSubscribe(o, b) ==
  /\ \/ pc[o] = "idle" /\ bucket' = [bucket EXCEPT ![o] = b]
     \/ pc[o] = "parked" /\ changed[o] /\ b = bucket[o] /\ UNCHANGED bucket
  /\ pc' = [pc EXCEPT ![o] = "subscribed"]
  /\ changed' = [changed EXCEPT ![o] = FALSE]
  /\ UNCHANGED <<frozen, in_flight, mpc, chunk, mchanged>>

\* a plausible slip: the frozen set is not consulted
MutEnterUnchecked(o) ==
  /\ pc[o] = "subscribed"
  /\ in_flight' = [in_flight EXCEPT ![bucket[o]] = @ + 1]
  /\ pc' = [pc EXCEPT ![o] = "inside"]
  /\ UNCHANGED <<frozen, bucket, changed, mpc, chunk, mchanged>>

\* enter: the locked section; register as in flight or go on to await a change
EnterCheck(o) ==
  /\ pc[o] = "subscribed"
  /\ \/ /\ bucket[o] \notin frozen
        /\ in_flight' = [in_flight EXCEPT ![bucket[o]] = @ + 1]
        /\ pc' = [pc EXCEPT ![o] = "inside"]
     \/ /\ bucket[o] \in frozen
        /\ pc' = [pc EXCEPT ![o] = "parked"]
        /\ UNCHANGED in_flight
  /\ UNCHANGED <<frozen, bucket, changed, mpc, chunk, mchanged>>

\* the future of a waiting operation is dropped (its only await is the wakeup)
EnterCancel(o) ==
  /\ pc[o] = "parked"
  /\ pc' = [pc EXCEPT ![o] = "idle"]
  /\ UNCHANGED <<frozen, in_flight, bucket, changed, mpc, chunk, mchanged>>

\* GateToken::drop -> leave: the locked section, then bump
LeaveDecrement(o) ==
  /\ pc[o] = "inside"
  /\ in_flight' = [in_flight EXCEPT ![bucket[o]] = @ - 1]
  /\ pc' = [pc EXCEPT ![o] = "left"]
  /\ UNCHANGED <<frozen, bucket, changed, mpc, chunk, mchanged>>

\* a plausible slip: leave tells nobody
MutLeaveSilent(o) ==
  /\ pc[o] = "left"
  /\ pc' = [pc EXCEPT ![o] = "idle"]
  /\ NoBump
  /\ UNCHANGED <<frozen, in_flight, bucket, mpc, chunk>>

LeaveBump(o) ==
  /\ pc[o] = "left"
  /\ pc' = [pc EXCEPT ![o] = "idle"]
  /\ bump
  /\ UNCHANGED <<frozen, in_flight, bucket, mpc, chunk>>
-----------------------------------------------------------------------------
freeze(c) ==
  /\ mpc = "idle"
  /\ frozen' = frozen \cup c
  /\ chunk' = c
  /\ mpc' = "frozen"
  /\ UNCHANGED <<in_flight, pc, bucket, changed, mchanged>>

DrainSubscribe ==
  /\ \/ mpc = "frozen"
     \/ mpc = "parked" /\ mchanged
  /\ mpc' = "subscribed"
  /\ mchanged' = FALSE
  /\ UNCHANGED <<frozen, in_flight, pc, bucket, changed, chunk>>

\* a plausible slip: `any` for `all`
MutDrainAny ==
  /\ mpc = "subscribed"
  /\ mpc' = IF \E b \in chunk : in_flight[b] = 0 THEN "exclusive" ELSE "parked"
  /\ UNCHANGED <<frozen, in_flight, pc, bucket, changed, chunk, mchanged>>

DrainCheck ==
  /\ mpc = "subscribed"
  /\ mpc' = IF \A b \in chunk : in_flight[b] = 0 THEN "exclusive" ELSE "parked"
  /\ UNCHANGED <<frozen, in_flight, pc, bucket, changed, chunk, mchanged>>

\* a plausible slip: the chunk is thawed without telling the waiters
MutUnfreezeSilent ==
  /\ mpc = "exclusive"
  /\ frozen' = frozen \ chunk
  /\ mpc' = "idle"
  /\ UNCHANGED <<in_flight, pc, bucket, changed, chunk, mchanged>>

unfreeze ==
  /\ mpc = "exclusive"
  /\ frozen' = frozen \ chunk
  /\ mpc' = "thawed"
  /\ UNCHANGED <<in_flight, pc, bucket, changed, chunk, mchanged>>

UnfreezeBump ==
  /\ mpc = "thawed"
  /\ mpc' = "idle"
  /\ bump
  /\ UNCHANGED <<frozen, in_flight, pc, bucket, chunk>>

\* the rebalance future is dropped while it awaits the drain or a shard call
MigrationCancel ==
  /\ MayCancel
  /\ mpc \in {"parked", "exclusive"}
  /\ mpc' = "idle"
  /\ UNCHANGED <<frozen, in_flight, pc, bucket, changed, chunk, mchanged>>
-----------------------------------------------------------------------------
Next ==
  \/ \E o \in Ops, b \in Buckets : EnterSubscribe(o, b)
  \/ \E o \in Ops : EnterCheck(o)
  \/ \E o \in Ops : EnterCancel(o)
  \/ \E o \in Ops : LeaveDecrement(o)
  \/ \E o \in Ops : LeaveBump(o)
  \/ \E c \in SUBSET Buckets \ {{}} : freeze(c)
  \/ DrainSubscribe
  \/ DrainCheck
  \/ unfreeze
  \/ UnfreezeBump
  \/ MigrationCancel

Spec == Init /\ [][Next]_vars

(***************************************************************************)
(* The runtime polls every woken task, an operation inside the gate        *)
(* finishes (shard calls carry a request timeout, net.rs) and so does the  *)
(* migration's work on a chunk.  Nothing obliges a caller to start, to     *)
(* cancel, or a migration to freeze a chunk.                               *)
(***************************************************************************)
Fairness ==
  /\ \A o \in Ops : /\ WF_vars(EnterSubscribe(o, bucket[o]) /\ pc[o] = "parked")
                    /\ WF_vars(EnterCheck(o))
                    /\ WF_vars(LeaveDecrement(o))
                    /\ WF_vars(LeaveBump(o))
  /\ WF_vars(DrainSubscribe)
  /\ WF_vars(DrainCheck)
  /\ WF_vars(unfreeze)
  /\ WF_vars(UnfreezeBump)

FairSpec == Spec /\ Fairness
-----------------------------------------------------------------------------
Inside(b) == {o \in Ops : pc[o] = "inside" /\ bucket[o] = b}

(***************************************************************************)
(* in_flight counts the operations inside each bucket: no token is lost or *)
(* dropped twice, so the drain's test for zero means what it says.         *)
(***************************************************************************)
InFlightExact == \A b \in Buckets : in_flight[b] = Cardinality(Inside(b))

(***************************************************************************)
(* From `freeze` to `unfreeze` the migration's chunk stays frozen, and     *)
(* from the moment `drain` returns no operation is inside one of its       *)
(* buckets (guard.rs: freeze, drain, copy+cut over, unfreeze).             *)
(***************************************************************************)
DrainedIsExclusive ==
  /\ mpc \in {"frozen", "subscribed", "parked", "exclusive"} => chunk \subseteq frozen
  /\ mpc = "exclusive" => \A o \in Ops : pc[o] = "inside" => bucket[o] \notin chunk

(***************************************************************************)
(* "cannot lose a notification" (guard.rs:6): a task that awaits a change  *)
(* although what it waits for has already happened either has an unseen    *)
(* value in its receiver or the task that made it happen is about to send  *)
(* one.                                                                    *)
(***************************************************************************)
NoLostWakeup ==
  /\ \A o \in Ops :
       pc[o] = "parked" /\ bucket[o] \notin frozen => changed[o] \/ mpc = "thawed"
  /\ mpc = "parked" /\ (\A b \in chunk : in_flight[b] = 0) =>
       mchanged \/ \E o \in Ops : pc[o] = "left"

(***************************************************************************)
(* A drain that has frozen its chunk finishes, unless its rebalance is     *)
(* dropped: the operations in flight leave and no new one gets in.         *)
(***************************************************************************)
DrainCompletes == mpc = "frozen" ~> mpc \in {"exclusive", "idle"}

(***************************************************************************)
(* "waiters resume" (guard.rs:5): an operation that waits at the gate is   *)
(* woken, and once no bucket is frozen any more it gets in (or is          *)
(* cancelled by its caller).  The one exception to the first part is a     *)
(* bucket whose migration was dropped between freeze and unfreeze: nothing *)
(* thaws it until another migration works on it.                           *)
(***************************************************************************)
Abandoned == IF mpc = "idle" THEN frozen ELSE frozen \ chunk
WaitersResume ==
  /\ \A o \in Ops : pc[o] = "parked" ~> pc[o] # "parked" \/ bucket[o] \in Abandoned
  /\ <>[](frozen = {}) => \A o \in Ops : pc[o] = "parked" ~> pc[o] \in {"inside", "idle"}
-----------------------------------------------------------------------------
(***************************************************************************)
(* The gate keeps the contract its callers rely on.                        *)
(***************************************************************************)
Contract == INSTANCE GateContract WITH
  entered <- [o \in Ops |-> IF pc[o] = "inside" THEN bucket[o] ELSE NoBucket],
  owned <- IF mpc = "exclusive" THEN chunk ELSE {}

ImplementsContract == Contract!GateSpec
=============================================================================
