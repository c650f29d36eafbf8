---------------------------- MODULE GateContract ----------------------------
(***************************************************************************)
(* What guard.rs promises its callers in cluster.rs, with locks, counters  *)
(* and wakeups left out: an operation is inside a bucket or it is not, a   *)
(* migration freezes a chunk of buckets, owns the chunk once it is drained *)
(* and releases it.  Gates implements this module; Migration is built on   *)
(* its actions.                                                            *)
(***************************************************************************)
CONSTANTS
  Buckets,   \* the virtual buckets (4096 in partitioner.rs)
  Ops,       \* concurrently running data-plane operations
  NoBucket   \* "not inside any bucket", not a bucket

VARIABLES
  frozen,    \* buckets whose new entrants wait
  entered,   \* entered[o]: the bucket operation o is inside of
  owned      \* the chunk whose drain has returned, {} if none

gateVars == <<frozen, entered, owned>>

GateTypeOK ==
  /\ frozen \subseteq Buckets
  /\ entered \in [Ops -> Buckets \cup {NoBucket}]
  /\ owned \subseteq Buckets

GateInit ==
  /\ frozen = {}
  /\ entered = [o \in Ops |-> NoBucket]
  /\ owned = {}

Enter(o, b) ==
  /\ entered[o] = NoBucket
  /\ b \notin frozen
  /\ entered' = [entered EXCEPT ![o] = b]
  /\ UNCHANGED <<frozen, owned>>

Leave(o) ==
  /\ entered[o] # NoBucket
  /\ entered' = [entered EXCEPT ![o] = NoBucket]
  /\ UNCHANGED <<frozen, owned>>

Freeze(c) ==
  /\ owned = {}
  /\ frozen' = frozen \cup c
  /\ UNCHANGED <<entered, owned>>

Drained(c) ==
  /\ owned = {}
  /\ c \subseteq frozen
  /\ \A o \in Ops : entered[o] \notin c
  /\ owned' = c
  /\ UNCHANGED <<frozen, entered>>

Unfreeze(c) ==
  /\ owned = c
  /\ frozen' = frozen \ c
  /\ owned' = {}
  /\ UNCHANGED entered

\* The migration's future is dropped: nothing thaws the chunk it had frozen.
Abandon ==
  /\ owned # {}
  /\ owned' = {}
  /\ UNCHANGED <<frozen, entered>>

GateNext ==
  \/ \E o \in Ops, b \in Buckets : Enter(o, b)
  \/ \E o \in Ops : Leave(o)
  \/ \E c \in SUBSET Buckets : Freeze(c) \/ Drained(c) \/ Unfreeze(c)
  \/ Abandon

GateSpec == GateInit /\ [][GateNext]_gateVars
=============================================================================
