---------------------------- MODULE GatesProofs ----------------------------
(***************************************************************************)
(* Proofs about guard.rs for any set of buckets and any finite set of      *)
(* concurrent operations: the invariants of Gates, and that it implements  *)
(* GateContract.                                                           *)
(***************************************************************************)
EXTENDS Gates, FiniteSetTheorems, TLAPS

\* The invariants are inductive together.  The drain's test reads in_flight,
\* so exclusion needs the counters to be exact and the chunk to stay frozen.
IInv == TypeOK /\ InFlightExact /\ DrainedIsExclusive /\ NoLostWakeup

-----------------------------------------------------------------------------
\* The operations inside a bucket are finitely many.
LEMMA InsideFinite ==
  ASSUME NEW b
  PROVE  IsFiniteSet(Inside(b)) /\ Cardinality(Inside(b)) \in Nat
<1>1. Inside(b) \in SUBSET Ops
  BY DEF Inside
<1>2. IsFiniteSet(Inside(b))
  BY <1>1, GatesAssumption, FS_Subset
<1> QED
  BY <1>2, FS_CardinalityType

\* A bucket whose count is zero has no operation inside.
LEMMA ZeroMeansEmpty ==
  ASSUME InFlightExact, NEW b \in Buckets, in_flight[b] = 0,
         NEW o \in Ops, pc[o] = "inside"
  PROVE  bucket[o] # b
<1>1. Inside(b) = {}
  BY InsideFinite, FS_EmptySet DEF InFlightExact
<1> QED
  BY <1>1 DEF Inside

\* A step that moves no operation in or out and leaves the counters alone
\* keeps them exact.
LEMMA CountersKept ==
  ASSUME InFlightExact, UNCHANGED in_flight,
         \A o \in Ops : (pc[o] = "inside") = (pc'[o] = "inside"),
         \A o \in Ops : pc[o] = "inside" => bucket'[o] = bucket[o]
  PROVE  InFlightExact'
<1>1. \A b \in Buckets : Inside(b)' = Inside(b)
  BY DEF Inside
<1> QED
  BY <1>1 DEF InFlightExact

\* enter registers the operation it lets in.
LEMMA CountersAfterEnter ==
  ASSUME TypeOK, InFlightExact, NEW o \in Ops, EnterCheck(o)
  PROVE  InFlightExact'
<1>1. CASE bucket[o] \in frozen
  BY <1>1, CountersKept DEF EnterCheck, TypeOK, OpPc
<1>2. CASE bucket[o] \notin frozen
  <2> SUFFICES ASSUME NEW b \in Buckets
               PROVE  in_flight'[b] = Cardinality(Inside(b)')
    BY DEF InFlightExact
  <2>1. o \notin Inside(b)
    BY DEF EnterCheck, Inside
  <2>2. CASE b = bucket[o]
    <3>1. Inside(b)' = Inside(b) \cup {o}
      BY <1>2, <2>2 DEF EnterCheck, Inside, TypeOK
    <3>2. in_flight'[b] = in_flight[b] + 1
      BY <1>2, <2>2 DEF EnterCheck, TypeOK
    <3> QED
      BY Zenon, <2>1, <3>1, <3>2, InsideFinite, FS_AddElement DEF InFlightExact
  <2>3. CASE b # bucket[o]
    <3>1. Inside(b)' = Inside(b)
      BY <1>2, <2>3 DEF EnterCheck, Inside, TypeOK
    <3>2. in_flight'[b] = in_flight[b]
      BY <1>2, <2>3 DEF EnterCheck, TypeOK
    <3> QED
      BY <3>1, <3>2 DEF InFlightExact
  <2> QED
    BY <2>2, <2>3
<1> QED
  BY <1>1, <1>2

\* leave takes back exactly one registration.
LEMMA CountersAfterLeave ==
  ASSUME TypeOK, InFlightExact, NEW o \in Ops, LeaveDecrement(o)
  PROVE  InFlightExact' /\ in_flight' \in [Buckets -> Nat]
<1> DEFINE c == bucket[o]
<1>1. c \in Buckets /\ o \in Inside(c)
  BY DEF TypeOK, LeaveDecrement, Inside
<1>2. in_flight[c] \in Nat /\ in_flight[c] # 0
  BY <1>1, InsideFinite, FS_EmptySet DEF InFlightExact, TypeOK
<1>3. in_flight' = [in_flight EXCEPT ![c] = @ - 1]
  BY DEF LeaveDecrement
<1>4. in_flight' \in [Buckets -> Nat]
  BY <1>1, <1>2, <1>3 DEF TypeOK
<1>5. ASSUME NEW b \in Buckets
      PROVE  in_flight'[b] = Cardinality(Inside(b)')
  <2>1. CASE b = c
    <3>1. Inside(b)' = Inside(b) \ {o}
      BY <2>1 DEF LeaveDecrement, Inside, TypeOK
    <3>2. in_flight'[b] = in_flight[b] - 1
      BY <1>1, <1>3, <2>1 DEF TypeOK
    <3> QED
      BY Zenon, <1>1, <2>1, <3>1, <3>2, InsideFinite, FS_RemoveElement DEF InFlightExact
  <2>2. CASE b # c
    <3>1. Inside(b)' = Inside(b)
      BY <2>2 DEF LeaveDecrement, Inside, TypeOK
    <3>2. in_flight'[b] = in_flight[b]
      BY <1>3, <2>2 DEF TypeOK
    <3> QED
      BY <3>1, <3>2 DEF InFlightExact
  <2> QED
    BY <2>1, <2>2
<1> QED
  BY <1>4, <1>5 DEF InFlightExact

-----------------------------------------------------------------------------
\* Nobody is inside the gate of a cluster that has just been created.
LEMMA InitEstablishes == Init => IInv
<1> SUFFICES ASSUME Init PROVE IInv
  OBVIOUS
<1>1. TypeOK
  BY Zenon DEF Init, TypeOK, OpPc, MigPc
<1>2. InFlightExact
  <2> SUFFICES ASSUME NEW b \in Buckets PROVE in_flight[b] = Cardinality(Inside(b))
    BY DEF InFlightExact
  <2>1. Inside(b) = {}
    BY DEF Init, Inside
  <2> QED
    BY <2>1, FS_EmptySet DEF Init
<1>3. DrainedIsExclusive /\ NoLostWakeup
  BY DEF Init, DrainedIsExclusive, NoLostWakeup
<1> QED
  BY <1>1, <1>2, <1>3 DEF IInv

\* Every locked section of guard.rs, and every dropped future, keeps IInv.
LEMMA NextPreserves == IInv /\ [Next]_vars => IInv'
<1> SUFFICES ASSUME IInv, [Next]_vars PROVE IInv'
  OBVIOUS
<1> USE DEF IInv
<1>1. ASSUME NEW o \in Ops, NEW b \in Buckets, EnterSubscribe(o, b)
      PROVE  IInv'
  <2>1. TypeOK'
    BY <1>1 DEF EnterSubscribe, TypeOK, OpPc
  <2>2. InFlightExact'
    BY <1>1, CountersKept DEF EnterSubscribe, TypeOK, OpPc
  <2>3. DrainedIsExclusive' /\ NoLostWakeup'
    BY <1>1 DEF EnterSubscribe, TypeOK, OpPc, DrainedIsExclusive, NoLostWakeup
  <2> QED
    BY <2>1, <2>2, <2>3
<1>2. ASSUME NEW o \in Ops, EnterCheck(o)
      PROVE  IInv'
  <2>1. TypeOK'
    BY <1>2 DEF EnterCheck, TypeOK, OpPc
  <2>2. InFlightExact'
    BY <1>2, CountersAfterEnter
  <2>3. DrainedIsExclusive'
    BY <1>2 DEF EnterCheck, TypeOK, OpPc, DrainedIsExclusive
  <2>4. NoLostWakeup'
    BY <1>2 DEF EnterCheck, TypeOK, OpPc, NoLostWakeup, DrainedIsExclusive
  <2> QED
    BY <2>1, <2>2, <2>3, <2>4
<1>3. ASSUME NEW o \in Ops, EnterCancel(o)
      PROVE  IInv'
  <2>1. TypeOK'
    BY <1>3 DEF EnterCancel, TypeOK, OpPc
  <2>2. InFlightExact'
    BY <1>3, CountersKept DEF EnterCancel, TypeOK, OpPc
  <2>3. DrainedIsExclusive' /\ NoLostWakeup'
    BY <1>3 DEF EnterCancel, TypeOK, OpPc, DrainedIsExclusive, NoLostWakeup
  <2> QED
    BY <2>1, <2>2, <2>3
<1>4. ASSUME NEW o \in Ops, LeaveDecrement(o)
      PROVE  IInv'
  <2>1. TypeOK'
    BY Zenon, <1>4, CountersAfterLeave DEF LeaveDecrement, TypeOK, OpPc
  <2>2. InFlightExact'
    BY <1>4, CountersAfterLeave
  <2>3. DrainedIsExclusive' /\ NoLostWakeup'
    BY <1>4 DEF LeaveDecrement, TypeOK, OpPc, DrainedIsExclusive, NoLostWakeup
  <2> QED
    BY <2>1, <2>2, <2>3
<1>5. ASSUME NEW o \in Ops, LeaveBump(o)
      PROVE  IInv'
  <2>1. TypeOK'
    BY <1>5 DEF LeaveBump, bump, TypeOK, OpPc
  <2>2. InFlightExact'
    BY <1>5, CountersKept DEF LeaveBump, TypeOK, OpPc
  <2>3. DrainedIsExclusive' /\ NoLostWakeup'
    BY <1>5 DEF LeaveBump, bump, TypeOK, OpPc, DrainedIsExclusive, NoLostWakeup
  <2> QED
    BY <2>1, <2>2, <2>3
<1>6. ASSUME NEW c \in SUBSET Buckets \ {{}}, freeze(c)
      PROVE  IInv'
  <2>1. TypeOK'
    BY <1>6 DEF freeze, TypeOK, MigPc
  <2>2. InFlightExact'
    BY <1>6, CountersKept DEF freeze
  <2>3. DrainedIsExclusive' /\ NoLostWakeup'
    BY <1>6 DEF freeze, TypeOK, DrainedIsExclusive, NoLostWakeup
  <2> QED
    BY <2>1, <2>2, <2>3
<1>7. CASE DrainSubscribe
  <2>1. TypeOK'
    BY Zenon, <1>7 DEF DrainSubscribe, TypeOK, MigPc
  <2>2. InFlightExact'
    BY <1>7, CountersKept DEF DrainSubscribe
  <2>3. DrainedIsExclusive' /\ NoLostWakeup'
    BY <1>7 DEF DrainSubscribe, TypeOK, DrainedIsExclusive, NoLostWakeup
  <2> QED
    BY <2>1, <2>2, <2>3
<1>8. CASE DrainCheck
  <2>1. TypeOK'
    BY <1>8 DEF DrainCheck, TypeOK, MigPc
  <2>2. InFlightExact'
    BY <1>8, CountersKept DEF DrainCheck
  <2>3. DrainedIsExclusive'
    BY <1>8, ZeroMeansEmpty DEF DrainCheck, TypeOK, DrainedIsExclusive
  <2>4. NoLostWakeup'
    BY <1>8 DEF DrainCheck, TypeOK, NoLostWakeup
  <2> QED
    BY <2>1, <2>2, <2>3, <2>4
<1>9. CASE unfreeze
  <2>1. TypeOK'
    BY <1>9 DEF unfreeze, TypeOK, MigPc
  <2>2. InFlightExact'
    BY <1>9, CountersKept DEF unfreeze
  <2>3. DrainedIsExclusive' /\ NoLostWakeup'
    BY <1>9 DEF unfreeze, TypeOK, DrainedIsExclusive, NoLostWakeup
  <2> QED
    BY <2>1, <2>2, <2>3
<1>10. CASE UnfreezeBump
  <2>1. TypeOK'
    BY <1>10 DEF UnfreezeBump, bump, TypeOK, MigPc
  <2>2. InFlightExact'
    BY <1>10, CountersKept DEF UnfreezeBump
  <2>3. DrainedIsExclusive' /\ NoLostWakeup'
    BY <1>10 DEF UnfreezeBump, bump, TypeOK, DrainedIsExclusive, NoLostWakeup
  <2> QED
    BY <2>1, <2>2, <2>3
<1>11. CASE MigrationCancel
  <2>1. TypeOK'
    BY <1>11 DEF MigrationCancel, TypeOK, MigPc
  <2>2. InFlightExact'
    BY <1>11, CountersKept DEF MigrationCancel
  <2>3. DrainedIsExclusive' /\ NoLostWakeup'
    BY <1>11 DEF MigrationCancel, TypeOK, DrainedIsExclusive, NoLostWakeup
  <2> QED
    BY <2>1, <2>2, <2>3
<1>12. CASE UNCHANGED vars
  BY <1>12, CountersKept DEF vars, TypeOK, DrainedIsExclusive, NoLostWakeup
<1> QED
  BY <1>1, <1>2, <1>3, <1>4, <1>5, <1>6, <1>7, <1>8, <1>9, <1>10, <1>11, <1>12 DEF Next

\* The inductive invariant holds of every reachable state.
LEMMA Invariance == Spec => []IInv
  BY InitEstablishes, NextPreserves, PTL DEF Spec

\* guard.rs, any number of buckets and operations: every variable of the gate
\* keeps its type; in particular no in_flight counter is decremented below zero.
THEOREM TypeCorrect == Spec => []TypeOK
<1>1. IInv => TypeOK
  BY DEF IInv
<1> QED
  BY <1>1, Invariance, PTL

\* GateToken: in_flight is exactly the number of operations inside each bucket.
THEOREM CountersExact == Spec => []InFlightExact
<1>1. IInv => InFlightExact
  BY DEF IInv
<1> QED
  BY <1>1, Invariance, PTL

\* freeze, drain: between a drain's return and the unfreeze no operation is
\* inside a bucket of the chunk, also when rebalances are dropped midway.
THEOREM Exclusive == Spec => []DrainedIsExclusive
<1>1. IInv => DrainedIsExclusive
  BY DEF IInv
<1> QED
  BY <1>1, Invariance, PTL

\* The watch channel: no task waits for a change that has happened already
\* without a notification that is there or on its way.
THEOREM WakeupsKept == Spec => []NoLostWakeup
<1>1. IInv => NoLostWakeup
  BY DEF IInv
<1> QED
  BY <1>1, Invariance, PTL
-----------------------------------------------------------------------------
\* A new gate is a new contract.
LEMMA RefinesInit == Init => Contract!GateInit
  BY DEF Init, Contract!GateInit

\* Each step of guard.rs is one step of the contract or none.
LEMMA RefinesNext == IInv /\ [Next]_vars => [Contract!GateNext]_Contract!gateVars
<1> SUFFICES ASSUME IInv, [Next]_vars
             PROVE  Contract!GateNext \/ UNCHANGED Contract!gateVars
  OBVIOUS
<1> DEFINE entered == [o \in Ops |-> IF pc[o] = "inside" THEN bucket[o] ELSE NoBucket]
           owned == IF mpc = "exclusive" THEN chunk ELSE {}
<1>0. TypeOK /\ InFlightExact /\ DrainedIsExclusive
  BY DEF IInv
<1>1. ASSUME NEW o \in Ops, NEW b \in Buckets, EnterSubscribe(o, b)
      PROVE  UNCHANGED Contract!gateVars
  <2>1. entered' = entered
    BY <1>0, <1>1 DEF EnterSubscribe, TypeOK
  <2>2. frozen' = frozen /\ owned' = owned
    BY <1>1 DEF EnterSubscribe
  <2> QED
    BY <2>1, <2>2 DEF Contract!gateVars
<1>2. ASSUME NEW o \in Ops, EnterCheck(o)
      PROVE  Contract!GateNext \/ UNCHANGED Contract!gateVars
  <2>1. frozen' = frozen /\ owned' = owned
    BY <1>2 DEF EnterCheck
  <2>2. CASE bucket[o] \notin frozen
    <3>1. PICK b \in Buckets : b = bucket[o]
      BY <1>0 DEF TypeOK
    <3>2. entered' = [entered EXCEPT ![o] = b]
      BY Zenon, <1>0, <1>2, <2>2, <3>1 DEF EnterCheck, TypeOK
    <3>3. entered[o] = NoBucket /\ b \notin frozen
      BY <1>2, <2>2, <3>1 DEF EnterCheck
    <3>4. Contract!Enter(o, b)
      BY <2>1, <3>2, <3>3 DEF Contract!Enter
    <3> QED
      BY <3>4 DEF Contract!GateNext
  <2>3. CASE bucket[o] \in frozen
    <3>1. entered' = entered
      BY <1>0, <1>2, <2>3 DEF EnterCheck, TypeOK
    <3> QED
      BY <2>1, <3>1 DEF Contract!gateVars
  <2> QED
    BY <2>2, <2>3
<1>3. ASSUME NEW o \in Ops, EnterCancel(o)
      PROVE  UNCHANGED Contract!gateVars
  <2>1. entered' = entered
    BY <1>0, <1>3 DEF EnterCancel, TypeOK
  <2>2. frozen' = frozen /\ owned' = owned
    BY <1>3 DEF EnterCancel
  <2> QED
    BY <2>1, <2>2 DEF Contract!gateVars
<1>4. ASSUME NEW o \in Ops, LeaveDecrement(o)
      PROVE  Contract!GateNext
  <2>1. frozen' = frozen /\ owned' = owned
    BY <1>4 DEF LeaveDecrement
  <2>2. entered' = [entered EXCEPT ![o] = NoBucket]
    BY Zenon, <1>0, <1>4 DEF LeaveDecrement, TypeOK
  <2>3. entered[o] # NoBucket
    BY <1>0, <1>4, GatesAssumption DEF LeaveDecrement, TypeOK
  <2>4. Contract!Leave(o)
    BY <2>1, <2>2, <2>3 DEF Contract!Leave
  <2> QED
    BY <2>4 DEF Contract!GateNext
<1>5. ASSUME NEW o \in Ops, LeaveBump(o)
      PROVE  UNCHANGED Contract!gateVars
  <2>1. entered' = entered
    BY <1>0, <1>5 DEF LeaveBump, TypeOK
  <2>2. frozen' = frozen /\ owned' = owned
    BY <1>5 DEF LeaveBump
  <2> QED
    BY <2>1, <2>2 DEF Contract!gateVars
<1>6. ASSUME NEW c \in SUBSET Buckets \ {{}}, freeze(c)
      PROVE  Contract!GateNext
  <2>1. Contract!Freeze(c)
    BY <1>6 DEF freeze, Contract!Freeze
  <2> QED
    BY <2>1 DEF Contract!GateNext
<1>7. CASE DrainSubscribe
  BY <1>7 DEF DrainSubscribe, Contract!gateVars
<1>8. CASE DrainCheck
  <2>1. CASE \A b \in chunk : in_flight[b] = 0
    <3>1. ASSUME NEW o \in Ops PROVE entered[o] \notin chunk
      BY <1>0, <2>1, ZeroMeansEmpty, GatesAssumption DEF TypeOK
    <3>2. chunk \in SUBSET Buckets /\ chunk \subseteq frozen
      BY <1>0, <1>8 DEF DrainCheck, TypeOK, DrainedIsExclusive
    <3>3. Contract!Drained(chunk)
      BY <1>8, <2>1, <3>1, <3>2 DEF DrainCheck, Contract!Drained
    <3> QED
      BY <3>2, <3>3 DEF Contract!GateNext
  <2>2. CASE ~ \A b \in chunk : in_flight[b] = 0
    BY <1>8, <2>2 DEF DrainCheck, Contract!gateVars
  <2> QED
    BY <2>1, <2>2
<1>9. CASE unfreeze
  <2>1. Contract!Unfreeze(chunk)
    BY <1>9 DEF unfreeze, Contract!Unfreeze
  <2> QED
    BY <1>0, <2>1 DEF Contract!GateNext, TypeOK
<1>10. CASE UnfreezeBump
  BY <1>10 DEF UnfreezeBump, Contract!gateVars
<1>11. CASE MigrationCancel
  <2>1. CASE mpc = "exclusive" /\ chunk # {}
    BY <1>11, <2>1 DEF MigrationCancel, Contract!Abandon, Contract!GateNext
  <2>2. CASE ~ (mpc = "exclusive" /\ chunk # {})
    BY <1>11, <2>2 DEF MigrationCancel, Contract!gateVars
  <2> QED
    BY <2>1, <2>2
<1>12. CASE UNCHANGED vars
  BY <1>12 DEF vars, Contract!gateVars
<1> QED
  BY <1>1, <1>2, <1>3, <1>4, <1>5, <1>6, <1>7, <1>8, <1>9, <1>10, <1>11, <1>12 DEF Next

\* guard.rs keeps the contract that Migration is built on: locks, counters and
\* wakeups implement "inside", "frozen" and "owned".
THEOREM Implements == Spec => ImplementsContract
  BY RefinesInit, RefinesNext, Invariance, PTL
     DEF Spec, ImplementsContract, Contract!GateSpec
=============================================================================
