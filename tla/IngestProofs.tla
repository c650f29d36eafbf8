---------------------------- MODULE IngestProofs ----------------------------
(***************************************************************************)
(* Proofs about Ingest, for any number of ops, crashes and failures and    *)
(* any batch size: as long as no restart finds the log trimmed to nothing, *)
(* acknowledged writes survive and reach the sink in order, and replaying  *)
(* the log restores what they add up to.                                   *)
(***************************************************************************)
EXTENDS Ingest, FiniteSetTheorems, WellFoundedInduction, TLAPS

\* the hypothesis of the theorems; without it NothingLost is false
RestartsSeeTheLog == ~MayRestartEmpty

(***************************************************************************)
(* The log holds every op past the cursor under its own number and ends    *)
(* with the newest op; the ops up to the cursor, and up to the progress of *)
(* a running drain, are applied; the batch is the contiguous rest.         *)
(***************************************************************************)
LogInv ==
  /\ RestartsSeeTheLog
  /\ next = Len(accepted) + 1
  /\ \A s \in DOMAIN queue : queue[s] = s
  /\ committed <= Len(accepted)
  /\ committed + 1 .. Len(accepted) \subseteq DOMAIN queue
  /\ DOMAIN queue = {} \/ Len(accepted) \in DOMAIN queue
  /\ 1 .. committed \subseteq applied

DrainInv ==
  /\ pc = "apply" =>
       /\ committed <= last_ok /\ last_ok <= Len(accepted)
       /\ 1 .. last_ok \subseteq applied
       /\ \A s \in DOMAIN ops : /\ s > last_ok /\ ops[s] = s
                                /\ last_ok + 1 .. s \subseteq DOMAIN ops
  /\ pc # "apply" => ops = Nothing
  /\ doomed = IF pc = "trim" THEN {s \in DOMAIN queue : s <= committed} ELSE {}

IInv == TypeOK /\ LogInv /\ DrainInv /\ AppliedInOrder
-----------------------------------------------------------------------------
\* the write path keeps the store well formed
LEMMA ApplyOpType ==
  ASSUME NEW st \in Store, NEW op \in IngestOp
  PROVE  ApplyOp(st, op) \in Store
<1>1. op.key \in Keys
  BY DEF IngestOp
<1>2. ASSUME NEW v \in SUBSET (Values \cup Members)
      PROVE  Effect(op, v) \in SUBSET (Values \cup Members)
  <2>1. CASE op \in [kind : {"put"}, key : Keys, arg : Values]
    BY <2>1 DEF Effect
  <2>2. CASE op \in [kind : {"delete"}, key : Keys]
    BY <2>2 DEF Effect
  <2>3. CASE op \in [kind : {"setAdd", "setRemove"}, key : Keys, arg : Members]
    <3>1. op.kind \in {"setAdd", "setRemove"} /\ op.arg \in Members
      BY <2>3
    <3>2. CASE op.kind = "setAdd"
      BY <3>1, <3>2 DEF Effect
    <3>3. CASE op.kind = "setRemove"
      BY <3>1, <3>3 DEF Effect
    <3> QED
      BY <3>1, <3>2, <3>3
  <2> QED
    BY <2>1, <2>2, <2>3 DEF IngestOp
<1> QED
  BY <1>1, <1>2 DEF ApplyOp, Store

\* a batch is the contiguous head of the log past the cursor
LEMMA BatchContiguous ==
  ASSUME IInv, NEW s \in DOMAIN read_uncommitted
  PROVE  /\ s \in DOMAIN queue /\ s > committed /\ read_uncommitted[s] = s
         /\ committed + 1 .. s \subseteq DOMAIN read_uncommitted
<1> DEFINE past == {t \in DOMAIN queue : t > committed}
           upto(t) == {u \in past : u <= t}
<1>0. TypeOK /\ LogInv
  BY DEF IInv
<1>1. /\ DOMAIN read_uncommitted = {t \in past : Cardinality(upto(t)) <= Limit}
      /\ \A t \in DOMAIN read_uncommitted : read_uncommitted[t] = queue[t]
  BY DEF read_uncommitted
<1>2. s \in past /\ Cardinality(upto(s)) <= Limit
  BY <1>1
<1>3. /\ s \in DOMAIN queue /\ s > committed /\ read_uncommitted[s] = s
      /\ Len(accepted) \in Nat /\ committed \in Nat /\ s \in 1 .. Len(accepted)
  BY <1>0, <1>1, <1>2 DEF LogInv, TypeOK
<1>4. ASSUME NEW t \in committed + 1 .. s PROVE t \in DOMAIN read_uncommitted
  <2>1. t \in past
    BY <1>0, <1>3 DEF LogInv
  <2>2. IsFiniteSet(upto(s)) /\ upto(t) \subseteq upto(s)
    <3>1. upto(s) \subseteq 1 .. Len(accepted) /\ upto(t) \subseteq upto(s)
      BY <1>0, <1>3 DEF TypeOK
    <3>2. IsFiniteSet(1 .. Len(accepted))
      BY <1>3, FS_Interval
    <3> QED
      BY <3>1, <3>2, FS_Subset
  <2>3. /\ Cardinality(upto(t)) <= Cardinality(upto(s))
        /\ Cardinality(upto(t)) \in Nat /\ Cardinality(upto(s)) \in Nat
    BY <2>2, FS_Subset, FS_CardinalityType
  <2>4. Cardinality(upto(t)) <= Limit
    BY <1>2, <2>3, IngestAssumption
  <2> QED
    BY <1>1, <2>1, <2>4
<1> QED
  BY <1>3, <1>4

\* The log is empty at first.
LEMMA InitIInv == RestartsSeeTheLog /\ Init => IInv
<1> SUFFICES ASSUME RestartsSeeTheLog, Init PROVE IInv
  OBVIOUS
<1>1. Len(accepted) = 0 /\ accepted \in Seq(IngestOp) /\ DOMAIN queue = {} /\ DOMAIN ops = {}
  BY DEF Init, Nothing
<1>2. TypeOK
  BY <1>1 DEF Init, TypeOK, Store, Nothing
<1>3. LogInv /\ DrainInv /\ AppliedInOrder
  BY <1>1 DEF Init, LogInv, DrainInv, AppliedInOrder
<1> QED
  BY <1>2, <1>3 DEF IInv

\* enqueue appends one record under the next number.
LEMMA EnqueueKeeps ==
  ASSUME IInv, NEW op \in IngestOp, enqueue(op)
  PROVE  IInv'
<1>0. TypeOK /\ LogInv /\ DrainInv /\ AppliedInOrder
  BY DEF IInv
<1>1. /\ accepted' \in Seq(IngestOp) /\ Len(accepted') = Len(accepted) + 1
      /\ Len(accepted) \in Nat
  BY <1>0 DEF TypeOK, enqueue
<1>2. /\ DOMAIN queue' = DOMAIN queue \cup {next}
      /\ \A s \in DOMAIN queue' : queue'[s] = s
      /\ next = Len(accepted) + 1
      /\ queue' = [s \in DOMAIN queue' |-> queue'[s]]
  BY <1>0 DEF LogInv, TypeOK, enqueue
<1>3. TypeOK'
  <2>1. expected' \in Store
    BY <1>0, ApplyOpType DEF TypeOK, enqueue
  <2>2. DOMAIN queue' \subseteq 1 .. Len(accepted')
    BY <1>0, <1>1, <1>2 DEF TypeOK
  <2>3. queue' \in [DOMAIN queue' -> 1 .. Len(accepted')]
    BY <1>2, <2>2
  <2>4. 1 .. Len(accepted) \subseteq 1 .. Len(accepted')
    BY <1>1
  <2>5. ops' \in [DOMAIN ops' -> 1 .. Len(accepted')]
    BY <1>0, <2>4 DEF TypeOK, enqueue, drainer
  <2> QED
    BY <1>0, <1>1, <1>2, <2>1, <2>2, <2>3, <2>4, <2>5 DEF TypeOK, enqueue, drainer
<1>4. LogInv'
  <2>1. committed' = committed /\ applied' = applied /\ next' = next + 1 /\ committed \in Nat
    BY <1>0 DEF TypeOK, enqueue
  <2>2. committed + 1 .. Len(accepted') \subseteq DOMAIN queue'
    BY <1>0, <1>1, <1>2, <2>1 DEF LogInv
  <2>3. Len(accepted') \in DOMAIN queue'
    BY <1>1, <1>2
  <2>4. next' = Len(accepted') + 1 /\ committed' <= Len(accepted')
    BY <1>0, <1>1, <1>2, <2>1 DEF LogInv
  <2> QED
    BY <1>0, <1>2, <2>1, <2>2, <2>3, <2>4 DEF LogInv, RestartsSeeTheLog
<1>5. DrainInv'
  <2>1. UNCHANGED <<pc, ops, last_ok, doomed, committed, applied>> /\ last_ok \in Nat
    BY <1>0 DEF TypeOK, enqueue, drainer
  <2>2. ~(next <= committed)
    BY <1>0, <1>1, <1>2 DEF LogInv, TypeOK
  <2>3. doomed = IF pc = "trim" THEN {s \in DOMAIN queue' : s <= committed} ELSE {}
    <3>1. CASE pc = "trim"
      <4>1. doomed = {s \in DOMAIN queue : s <= committed}
        BY <1>0, <3>1 DEF DrainInv
      <4> QED
        BY <1>2, <2>2, <3>1, <4>1
    <3>2. CASE pc # "trim"
      BY <1>0, <3>2 DEF DrainInv
    <3> QED
      BY <3>1, <3>2
  <2>4. pc = "apply" => last_ok <= Len(accepted')
    BY <1>0, <1>1, <2>1 DEF DrainInv
  <2> QED
    BY Zenon, <1>0, <2>1, <2>3, <2>4 DEF DrainInv
<1>6. AppliedInOrder'
  BY <1>0 DEF AppliedInOrder, enqueue
<1> QED
  BY <1>3, <1>4, <1>5, <1>6 DEF IInv

\* A drain reads a batch of records that follow the committed one.
LEMMA DrainReadKeeps ==
  ASSUME IInv, DrainRead
  PROVE  IInv'
<1>0. TypeOK /\ LogInv /\ DrainInv /\ AppliedInOrder
  BY DEF IInv
<1>1. /\ ops' = read_uncommitted /\ last_ok' = committed /\ pc = "idle" /\ pc' = "apply"
      /\ UNCHANGED <<queue, committed, next, doomed, sink, accepted, applied, expected, crashes, fails>>
  BY DEF DrainRead
<1>2. \A s \in DOMAIN ops' : /\ s \in DOMAIN queue /\ s > committed /\ ops'[s] = s
                             /\ committed + 1 .. s \subseteq DOMAIN ops'
  BY <1>1, BatchContiguous
<1>3. ops' = [s \in DOMAIN ops' |-> ops'[s]]
  BY <1>1 DEF read_uncommitted
<1>4. TypeOK'
  BY <1>0, <1>1, <1>2, <1>3 DEF TypeOK
<1>5. LogInv' /\ AppliedInOrder'
  BY <1>0, <1>1 DEF LogInv, AppliedInOrder
<1>6. DrainInv'
  BY <1>0, <1>1, <1>2 DEF DrainInv, LogInv, TypeOK
<1> QED
  BY <1>4, <1>5, <1>6 DEF IInv

\* A drain applies the records of its batch in number order.
LEMMA ApplyOkKeeps ==
  ASSUME IInv, NEW s \in DOMAIN ops, ApplyOk(s)
  PROVE  IInv'
<1>0. TypeOK /\ LogInv /\ DrainInv /\ AppliedInOrder
  BY DEF IInv
<1>1. /\ pc = "apply" /\ \A t \in DOMAIN ops : s <= t
      /\ sink' = ApplyOp(sink, accepted[ops[s]])
      /\ applied' = applied \cup {ops[s]} /\ last_ok' = s /\ ops' = Without(s)
      /\ UNCHANGED <<queue, committed, next, pc, doomed, accepted, expected, crashes, fails>>
  BY DEF ApplyOk
<1>2. /\ s \in 1 .. Len(accepted) /\ ops[s] = s /\ s > last_ok
      /\ last_ok + 1 .. s \subseteq DOMAIN ops
      /\ last_ok \in Nat /\ Len(accepted) \in Nat /\ committed \in Nat
  BY <1>0, <1>1 DEF TypeOK, DrainInv
\* the smallest element of a contiguous batch is the next op
<1>3. s = last_ok + 1
  <2>1. last_ok + 1 \in DOMAIN ops
    BY <1>2
  <2> QED
    BY <1>1, <1>2, <2>1
<1>4. /\ DOMAIN ops' = DOMAIN ops \ {s}
      /\ \A t \in DOMAIN ops' : ops'[t] = ops[t]
      /\ ops' = [t \in DOMAIN ops' |-> ops'[t]]
  BY <1>1 DEF Without
<1>5. TypeOK'
  <2>1. sink' \in Store
    BY <1>0, <1>1, <1>2, ApplyOpType DEF TypeOK
  <2>2. ops' \in [DOMAIN ops' -> 1 .. Len(accepted)]
    BY <1>0, <1>4 DEF TypeOK
  <2> QED
    BY <1>0, <1>1, <1>2, <1>4, <2>1, <2>2 DEF TypeOK
<1>6. LogInv'
  BY <1>0, <1>1 DEF LogInv
<1>7. 1 .. s \subseteq applied'
  BY <1>0, <1>1, <1>2, <1>3 DEF DrainInv
<1>8. DrainInv'
  <2>1. \A t \in DOMAIN ops' : t > s /\ ops'[t] = t /\ s + 1 .. t \subseteq DOMAIN ops'
    <3> SUFFICES ASSUME NEW t \in DOMAIN ops'
                 PROVE  t > s /\ ops'[t] = t /\ s + 1 .. t \subseteq DOMAIN ops'
      OBVIOUS
    <3>1. t \in DOMAIN ops /\ t # s /\ t \in Nat /\ ops[t] = t /\ last_ok + 1 .. t \subseteq DOMAIN ops
      BY <1>0, <1>1, <1>4 DEF DrainInv, TypeOK
    <3> QED
      BY <1>1, <1>2, <1>3, <1>4, <3>1
  <2>2. committed <= s /\ s <= Len(accepted)
    BY <1>0, <1>1, <1>2 DEF DrainInv
  <2> QED
    BY <1>0, <1>1, <1>7, <2>1, <2>2 DEF DrainInv
<1>9. AppliedInOrder'
  BY <1>0, <1>1, <1>2, <1>7 DEF AppliedInOrder
<1> QED
  BY <1>5, <1>6, <1>8, <1>9 DEF IInv

\* persist_committed stores the number of the last record applied.
LEMMA PersistKeeps ==
  ASSUME IInv, persist_committed
  PROVE  IInv'
<1>0. TypeOK /\ LogInv /\ DrainInv /\ AppliedInOrder
  BY DEF IInv
<1>1. /\ pc = "apply" /\ ops = Nothing /\ last_ok > committed
      /\ committed' = last_ok /\ pc' = "compact"
      /\ UNCHANGED <<queue, next, ops, last_ok, doomed, sink, accepted, applied, expected, crashes, fails>>
  BY DEF persist_committed
<1>2. TypeOK' /\ AppliedInOrder'
  BY <1>0, <1>1 DEF TypeOK, AppliedInOrder
<1>3. LogInv'
  BY <1>0, <1>1 DEF TypeOK, LogInv, DrainInv
<1>4. DrainInv'
  BY <1>0, <1>1 DEF DrainInv
<1> QED
  BY <1>2, <1>3, <1>4 DEF IInv

\* compact removes records that are committed.
LEMMA CompactDeleteKeeps ==
  ASSUME IInv, CompactDelete
  PROVE  IInv'
<1>0. TypeOK /\ LogInv /\ DrainInv /\ AppliedInOrder
  BY DEF IInv
<1>1. /\ pc = "trim" /\ pc' = "idle" /\ doomed' = {}
      /\ queue' = [s \in DOMAIN queue \ doomed |-> queue[s]]
      /\ UNCHANGED <<committed, next, ops, last_ok, sink, accepted, applied, expected, crashes, fails>>
  BY DEF CompactDelete
<1>2. doomed = {s \in DOMAIN queue : s <= committed} /\ ops = Nothing /\ DOMAIN ops = {}
  BY <1>0, <1>1 DEF DrainInv, Nothing
<1>3. /\ DOMAIN queue' = {s \in DOMAIN queue : ~(s <= committed)}
      /\ \A s \in DOMAIN queue' : queue'[s] = queue[s]
      /\ queue' = [s \in DOMAIN queue' |-> queue'[s]]
  BY <1>1, <1>2
<1>4. TypeOK'
  BY <1>0, <1>1, <1>2, <1>3 DEF TypeOK
<1>5. LogInv'
  <2>1. /\ committed \in Nat /\ Len(accepted) \in Nat
        /\ DOMAIN queue \subseteq 1 .. Len(accepted)
    BY <1>0 DEF TypeOK
  <2>2. DOMAIN queue' = {} \/ Len(accepted) \in DOMAIN queue'
    BY <1>0, <1>3, <2>1 DEF LogInv
  <2>3. committed + 1 .. Len(accepted) \subseteq DOMAIN queue'
    BY <1>0, <1>3, <2>1 DEF LogInv
  <2> QED
    BY <1>0, <1>1, <1>3, <2>2, <2>3 DEF LogInv
<1>6. DrainInv' /\ AppliedInOrder'
  BY <1>0, <1>1, <1>2 DEF DrainInv, AppliedInOrder
<1> QED
  BY <1>4, <1>5, <1>6 DEF IInv

\* the last key is the newest op, so no number is given out twice
LEMMA OpenKeeps ==
  ASSUME IInv, open
  PROVE  IInv'
<1>0. TypeOK /\ LogInv /\ DrainInv /\ AppliedInOrder
  BY DEF IInv
<1>1. /\ pc' = "idle" /\ ops' = Nothing /\ last_ok' = 0 /\ doomed' = {} /\ crashes' = crashes + 1
      /\ UNCHANGED <<queue, committed, sink, accepted, applied, expected, fails>>
  BY DEF open
<1>2. /\ committed \in Nat /\ Len(accepted) \in Nat
      /\ DOMAIN queue \subseteq 1 .. Len(accepted)
  BY <1>0 DEF TypeOK
<1>3. next' = Len(accepted) + 1
  <2>1. CASE DOMAIN queue = {}
    <3>1. committed = 0 /\ next' = 1
      BY <1>0, <2>1 DEF open, LogInv, RestartsSeeTheLog
    <3>2. ~(committed + 1 <= Len(accepted))
      BY <1>0, <1>2, <2>1 DEF LogInv
    <3> QED
      BY <1>2, <3>1, <3>2
  <2>2. CASE DOMAIN queue # {}
    <3>1. PICK last \in DOMAIN queue : (\A s \in DOMAIN queue : s <= last) /\ next' = last + 1
      BY <2>2 DEF open
    <3>2. Len(accepted) \in DOMAIN queue
      BY <1>0, <2>2 DEF LogInv
    <3> QED
      BY <1>2, <3>1, <3>2
  <2> QED
    BY Zenon, <2>1, <2>2
<1>4. TypeOK'
  <2>1. DOMAIN ops' = {} /\ ops' \in [DOMAIN ops' -> 1 .. Len(accepted)]
    BY <1>1 DEF Nothing
  <2> QED
    BY <1>0, <1>1, <1>2, <1>3, <2>1 DEF TypeOK
<1>5. LogInv' /\ DrainInv' /\ AppliedInOrder'
  BY <1>0, <1>1, <1>3 DEF LogInv, DrainInv, AppliedInOrder
<1> QED
  BY <1>4, <1>5 DEF IInv

\* Every step keeps the invariant, restarts included.
LEMMA NextIInv == IInv /\ [Next]_vars => IInv'
<1> SUFFICES ASSUME IInv, [Next]_vars PROVE IInv'
  OBVIOUS
<1>0. TypeOK /\ LogInv /\ DrainInv /\ AppliedInOrder
  BY DEF IInv
<1>1. ASSUME NEW s \in DOMAIN ops, ApplyFails(s) PROVE IInv'
  <2>1. DOMAIN ops' = {} /\ ops' \in [DOMAIN ops' -> 1 .. Len(accepted)]
    BY <1>1 DEF ApplyFails, Nothing
  <2>2. TypeOK'
    BY <1>0, <1>1, <2>1 DEF TypeOK, ApplyFails
  <2>3. LogInv' /\ DrainInv' /\ AppliedInOrder'
    BY <1>0, <1>1, <2>1 DEF LogInv, DrainInv, AppliedInOrder, ApplyFails
  <2> QED
    BY <2>2, <2>3 DEF IInv
<1>2. CASE DrainNothing
  BY <1>0, <1>2 DEF IInv, TypeOK, LogInv, DrainInv, AppliedInOrder, DrainNothing
<1>3. CASE CompactRead
  BY <1>0, <1>3 DEF IInv, TypeOK, LogInv, DrainInv, AppliedInOrder, CompactRead
<1>4. CASE CompactFails
  BY <1>0, <1>4 DEF IInv, TypeOK, LogInv, DrainInv, AppliedInOrder, CompactFails
<1>5. CASE DrainIdle \/ UNCHANGED vars
  <2>1. UNCHANGED vars
    BY <1>5 DEF DrainIdle
  <2>2. TypeOK' /\ LogInv'
    BY <1>0, <2>1 DEF TypeOK, LogInv, vars, drainer
  <2>3. DrainInv' /\ AppliedInOrder'
    BY <1>0, <2>1 DEF DrainInv, AppliedInOrder, vars, drainer
  <2> QED
    BY <2>2, <2>3 DEF IInv
<1>6. ASSUME NEW op \in IngestOp, enqueue(op) PROVE IInv'
  BY <1>6, EnqueueKeeps
<1>7. ASSUME NEW s \in DOMAIN ops, ApplyOk(s) PROVE IInv'
  BY <1>7, ApplyOkKeeps
<1>8. ASSUME DrainRead \/ persist_committed \/ CompactDelete \/ open PROVE IInv'
  BY <1>8, DrainReadKeeps, PersistKeeps, CompactDeleteKeeps, OpenKeeps
<1> QED
  BY <1>1, <1>2, <1>3, <1>4, <1>5, <1>6, <1>7, <1>8 DEF Next, DrainStep

\* The invariant holds throughout, if a restart sees the log it left.
LEMMA IInvariance == RestartsSeeTheLog /\ Spec => []IInv
<1> QED
  BY InitIInv, NextIInv, PTL DEF Spec

(***************************************************************************)
(* The log, the cursor, the running batch and the store stay well formed:  *)
(* every stored number was given to an acknowledged op.                    *)
(***************************************************************************)
THEOREM TypeCorrect == RestartsSeeTheLog /\ Spec => []TypeOK
<1>1. IInv => TypeOK
  BY DEF IInv
<1> QED
  BY <1>1, IInvariance, PTL

(***************************************************************************)
(* What enqueue acknowledged is applied or still queued past the cursor,   *)
(* whatever fails and wherever the process crashes, provided a restart     *)
(* finds an entry in the log or nothing was ever committed.                *)
(***************************************************************************)
THEOREM Survives == RestartsSeeTheLog /\ Spec => []NothingLost
<1>1. IInv => NothingLost
  <2> SUFFICES ASSUME IInv, NEW i \in 1 .. Len(accepted), i \notin applied
               PROVE  \E s \in DOMAIN queue : s > committed /\ queue[s] = i
    BY DEF NothingLost
  <2>1. committed \in Nat /\ Len(accepted) \in Nat
    BY DEF IInv, TypeOK
  <2>2. i > committed
    BY <2>1 DEF IInv, LogInv
  <2>3. i \in DOMAIN queue /\ queue[i] = i
    BY <2>1, <2>2 DEF IInv, LogInv
  <2> QED
    BY <2>2, <2>3
<1> QED
  BY <1>1, IInvariance, PTL

(***************************************************************************)
(* drain hands ops to the sink in the order of their acknowledgement, and  *)
(* skips none, across failed calls, batches and restarts.                  *)
(***************************************************************************)
THEOREM InOrder == RestartsSeeTheLog /\ Spec => []AppliedInOrder
<1>1. IInv => AppliedInOrder
  BY DEF IInv
<1> QED
  BY <1>1, IInvariance, PTL
-----------------------------------------------------------------------------
(***************************************************************************)
(* Replay, element by element.  Whether the value under k has the element  *)
(* e is decided by the last op that touches the pair: set_add and          *)
(* set_remove leave other members alone, and set_add replaces an object.   *)
(***************************************************************************)
Touches(op, k, e) ==
  op.key = k /\ (op.kind \in {"put", "delete"} \/ op.arg = e \/ (op.kind = "setAdd" /\ e \notin Members))
Adds(op, k, e) == op.key = k /\ op.kind \in {"put", "setAdd"} /\ op.arg = e

\* e is under k after the ops of log with numbers in S were applied in order to store
InReplay(log, S, store, k, e) ==
  \/ \E s \in S : Adds(log[s], k, e) /\ \A t \in S : t > s => ~Touches(log[t], k, e)
  \/ e \in store[k] /\ \A t \in S : ~Touches(log[t], k, e)

\* What one op does.
LEMMA OpOnElement ==
  ASSUME NEW st \in Store, NEW op \in IngestOp, NEW k \in Keys, NEW e
  PROVE  /\ e \in ApplyOp(st, op)[k] <=> Adds(op, k, e) \/ (e \in st[k] /\ ~Touches(op, k, e))
         /\ Adds(op, k, e) => Touches(op, k, e)
PROOF
  <1>1. op.key \in Keys /\ ApplyOp(st, op)[k] = IF k = op.key THEN Effect(op, st[k]) ELSE st[k]
    BY DEF IngestOp, ApplyOp, Store
  <1>2. CASE op \in [kind : {"put"}, key : Keys, arg : Values]
    BY <1>1, <1>2 DEF Effect, Adds, Touches
  <1>3. CASE op \in [kind : {"delete"}, key : Keys]
    BY <1>1, <1>3 DEF Effect, Adds, Touches
  <1>4. CASE op \in [kind : {"setAdd", "setRemove"}, key : Keys, arg : Members]
    <2>1. op.kind \in {"setAdd", "setRemove"} /\ op.arg \in Members
      BY <1>4
    <2>2. CASE op.kind = "setAdd"
      BY <1>1, <2>1, <2>2 DEF Effect, Adds, Touches
    <2>3. CASE op.kind = "setRemove"
      BY <1>1, <2>1, <2>3 DEF Effect, Adds, Touches
    <2> QED BY <2>1, <2>2, <2>3
  <1> QED BY <1>2, <1>3, <1>4 DEF IngestOp

\* The last op of a replay is applied to what the others leave.
LEMMA ReplayLast ==
  ASSUME NEW S \in SUBSET Nat, NEW log, NEW x, NEW k, NEW e,
         NEW m \in S, \A s \in S : s <= m, Adds(log[m], k, e) => Touches(log[m], k, e)
  PROVE  InReplay(log, S, x, k, e)
           <=> Adds(log[m], k, e) \/ (~Touches(log[m], k, e) /\ InReplay(log, S \ {m}, x, k, e))
PROOF
  <1>1. ~(m > m) /\ \A s \in S : ~(s > m) /\ (s # m => m > s)
    BY SMT
  <1>2. CASE Touches(log[m], k, e)
    <2>1. ASSUME NEW s \in S, Adds(log[s], k, e), \A t \in S : t > s => ~Touches(log[t], k, e)
          PROVE  s = m
      BY <1>1, <1>2, <2>1, Zenon
    <2> QED BY <1>1, <1>2, <2>1, Zenon DEF InReplay
  <1>3. CASE ~Touches(log[m], k, e)
    <2>1. \A s \in S : Adds(log[s], k, e) => s # m
      BY <1>3, Zenon
    <2>2. \A s \in S : (\A t \in S : t > s => ~Touches(log[t], k, e))
                         <=> (\A t \in S \ {m} : t > s => ~Touches(log[t], k, e))
      BY <1>3, Zenon
    <2>3. (\A t \in S : ~Touches(log[t], k, e)) <=> (\A t \in S \ {m} : ~Touches(log[t], k, e))
      BY <1>3, Zenon
    <2> QED BY <1>3, <2>1, <2>2, <2>3, Zenon DEF InReplay
  <1> QED BY <1>2, <1>3

\* The first op of a replay may be applied beforehand.
LEMMA ReplayFirst ==
  ASSUME NEW S \in SUBSET Nat, NEW log, NEW x \in Store, NEW k \in Keys, NEW e,
         NEW m \in S, \A s \in S : m <= s, log[m] \in IngestOp
  PROVE  InReplay(log, S, x, k, e) <=> InReplay(log, S \ {m}, ApplyOp(x, log[m]), k, e)
PROOF
  <1> DEFINE y == ApplyOp(x, log[m])
  <1>1. /\ e \in y[k] <=> Adds(log[m], k, e) \/ (e \in x[k] /\ ~Touches(log[m], k, e))
        /\ Adds(log[m], k, e) => Touches(log[m], k, e)
    BY OpOnElement
  <1> HIDE DEF y
  <1>2. \A s \in S : ~(m > s) /\ (s > m <=> s # m)
    BY SMT
  <1>3. \A s \in S \ {m} : (\A t \in S : t > s => ~Touches(log[t], k, e))
                             <=> (\A t \in S \ {m} : t > s => ~Touches(log[t], k, e))
    BY <1>2, Zenon
  <1>4. (\A t \in S : t > m => ~Touches(log[t], k, e)) <=> (\A t \in S \ {m} : ~Touches(log[t], k, e))
    BY <1>2, Zenon
  <1>5. InReplay(log, S, x, k, e)
          <=> \/ \E s \in S \ {m} : Adds(log[s], k, e) /\ \A t \in S \ {m} : t > s => ~Touches(log[t], k, e)
              \/ Adds(log[m], k, e) /\ \A t \in S \ {m} : ~Touches(log[t], k, e)
              \/ e \in x[k] /\ ~Touches(log[m], k, e) /\ \A t \in S \ {m} : ~Touches(log[t], k, e)
    BY <1>3, <1>4, Zenon DEF InReplay
  <1>6. InReplay(log, S \ {m}, y, k, e)
          <=> \/ \E s \in S \ {m} : Adds(log[s], k, e) /\ \A t \in S \ {m} : t > s => ~Touches(log[t], k, e)
              \/ e \in y[k] /\ \A t \in S \ {m} : ~Touches(log[t], k, e)
    BY Zenon DEF InReplay
  <1> QED BY <1>1, <1>5, <1>6, Zenon DEF y

\* An op that is still to be replayed may have been applied already.
LEMMA ReplayTwice ==
  ASSUME NEW S, NEW log, NEW x \in Store, NEW k \in Keys, NEW e,
         NEW m \in S, log[m] \in IngestOp
  PROVE  InReplay(log, S, x, k, e) <=> InReplay(log, S, ApplyOp(x, log[m]), k, e)
PROOF
  <1>1. /\ e \in ApplyOp(x, log[m])[k] <=> Adds(log[m], k, e) \/ (e \in x[k] /\ ~Touches(log[m], k, e))
        /\ Adds(log[m], k, e) => Touches(log[m], k, e)
    BY OpOnElement
  <1> QED BY <1>1, Zenon DEF InReplay
-----------------------------------------------------------------------------
\* replaying what log has past c over store gives goal
After(log, c) == c + 1 .. Len(log)
Restores(log, c, store, goal) ==
  \A k \in Keys, e \in Values \cup Members :
    e \in goal[k] <=> InReplay(log, After(log, c), store, k, e)

\* the inductive invariant: also from the point that a running drain has reached
ReplayInv ==
  /\ IInv
  /\ Restores(accepted, committed, sink, expected)
  /\ pc = "apply" => Restores(accepted, last_ok, sink, expected)

\* f is the fold of ReplayConverges
IsReplay(f) ==
  f = [S \in SUBSET {s \in DOMAIN queue : s > committed} |->
         IF S = {} THEN sink ELSE ApplyOp(f[S \ {Max(S)}], accepted[queue[Max(S)]])]

Replayed == [S \in SUBSET {s \in DOMAIN queue : s > committed} |->
               [k \in Keys |-> {e \in Values \cup Members : InReplay(accepted, S, sink, k, e)}]]

\* A set of naturals that is not empty has a least element.
LEMMA Least ==
  ASSUME NEW T \in SUBSET Nat, T # {}
  PROVE  \E x \in T : \A y \in T : x <= y
PROOF
  <1> DEFINE R == OpToRel(<, Nat)
  <1>1. \A x, y \in Nat : <<x, y>> \in R <=> x < y
    BY DEF OpToRel
  <1>2. IsWellFoundedOn(R, Nat)
    BY Zenon, NatLessThanWellFounded
  <1> HIDE DEF R
  <1>3. PICK x \in T : \A y \in T : ~(<<y, x>> \in R)
    BY Zenon, <1>2, WFMin
  <1>4. ASSUME NEW y \in T PROVE x <= y
    <2>1. x \in Nat /\ y \in Nat
      OBVIOUS
    <2>2. ~(y < x)
      BY <1>1, <1>3, <2>1, Zenon
    <2> QED BY <2>1, <2>2
  <1> QED BY <1>4

\* Numbers given out have a last one.
LEMMA LastNumber ==
  ASSUME NEW n \in Nat, NEW S \in SUBSET (1 .. n), S # {}
  PROVE  Max(S) \in S /\ \A s \in S : s <= Max(S)
PROOF
  <1> DEFINE T == {n - s : s \in S}
  <1>1. T \in SUBSET Nat /\ T # {}
    <2>1. \A s \in S : n - s \in Nat
      BY SMT
    <2> QED BY <2>1
  <1>2. PICK t \in T : \A u \in T : t <= u
    BY Zenon, <1>1, Least
  <1>3. PICK x \in S : t = n - x
    BY <1>2
  <1>4. ASSUME NEW y \in S PROVE x >= y
    <2>1. n - y \in T
      OBVIOUS
    <2>2. n - x <= n - y
      BY <1>2, <1>3, <2>1
    <2> QED BY <2>2, SMT
  <1>5. Max(S) \in S /\ \A y \in S : Max(S) >= y
    BY <1>4, Zenon DEF Max
  <1> QED BY <1>5, SMT

\* What is queued past the cursor.
LEMMA PastIs ==
  ASSUME IInv
  PROVE  /\ {s \in DOMAIN queue : s > committed} = After(accepted, committed)
         /\ After(accepted, committed) \in SUBSET (1 .. Len(accepted)) /\ Len(accepted) \in Nat
         /\ \A s \in After(accepted, committed) : queue[s] = s /\ accepted[s] \in IngestOp
PROOF
  <1>1. /\ DOMAIN queue \subseteq 1 .. Len(accepted) /\ committed \in Nat /\ accepted \in Seq(IngestOp)
        /\ After(accepted, committed) \subseteq DOMAIN queue /\ \A s \in DOMAIN queue : queue[s] = s
    BY DEF IInv, TypeOK, LogInv, After
  <1>2. Len(accepted) \in Nat /\ \A s \in 1 .. Len(accepted) : accepted[s] \in IngestOp
    BY <1>1
  <1> QED BY <1>1, <1>2, SMT DEF After

\* Stores with the same elements are equal.
LEMMA SameElements ==
  ASSUME NEW x \in Store, NEW y \in Store,
         \A k \in Keys, e \in Values \cup Members : e \in x[k] <=> e \in y[k]
  PROVE  x = y
PROOF
  <1>1. ASSUME NEW k \in Keys PROVE x[k] = y[k]
    <2>1. x[k] \in SUBSET (Values \cup Members) /\ y[k] \in SUBSET (Values \cup Members)
      BY DEF Store
    <2> QED BY <2>1, Zenon
  <1> QED BY <1>1, SMT DEF Store

\* Replaying one op after another, in order, satisfies the equation of the fold.
LEMMA ReplayExists ==
  ASSUME IInv
  PROVE  IsReplay(Replayed)
PROOF
  <1> DEFINE P == {s \in DOMAIN queue : s > committed}
  <1>1. /\ P = After(accepted, committed) /\ P \in SUBSET (1 .. Len(accepted)) /\ Len(accepted) \in Nat
        /\ \A s \in P : queue[s] = s /\ accepted[s] \in IngestOp
    BY PastIs, Zenon
  <1>2. sink \in Store
    BY DEF IInv, TypeOK
  <1>3. ASSUME NEW S \in SUBSET P PROVE Replayed[S] \in Store /\
                 \A k \in Keys, e \in Values \cup Members :
                    e \in Replayed[S][k] <=> InReplay(accepted, S, sink, k, e)
    <2>1. Replayed[S] = [k \in Keys |-> {e \in Values \cup Members : InReplay(accepted, S, sink, k, e)}]
      BY Zenon DEF Replayed
    <2> QED BY <2>1, Zenon DEF Store
  <1>4. Replayed[{}] = sink
    <2>1. {} \in SUBSET P
      OBVIOUS
    <2>2. Replayed[{}] \in Store /\ \A k \in Keys, e \in Values \cup Members :
             e \in Replayed[{}][k] <=> InReplay(accepted, {}, sink, k, e)
      BY <1>3, <2>1
    <2>3. \A k, e : InReplay(accepted, {}, sink, k, e) <=> e \in sink[k]
      BY Zenon DEF InReplay
    <2> QED BY <1>2, <2>2, <2>3, SameElements
  <1>5. ASSUME NEW S \in SUBSET P, S # {}
        PROVE  Replayed[S] = ApplyOp(Replayed[S \ {Max(S)}], accepted[queue[Max(S)]])
    <2> DEFINE m == Max(S)
               R == Replayed[S \ {m}]
               A == ApplyOp(R, accepted[m])
    <2>1. m \in S /\ (\A s \in S : s <= m) /\ S \in SUBSET Nat
      <3>1. S \in SUBSET (1 .. Len(accepted))
        BY <1>1
      <3>2. m \in S /\ \A s \in S : s <= m
        BY Zenon, <1>1, <1>5, <3>1, LastNumber
      <3>3. S \in SUBSET Nat
        BY <1>1, <3>1, SMT
      <3> QED BY <3>2, <3>3
    <2> HIDE DEF m
    <2>2. queue[m] = m /\ accepted[m] \in IngestOp /\ S \ {m} \in SUBSET P
      BY <1>1, <2>1
    <2>3. /\ R \in Store
          /\ \A k \in Keys, e \in Values \cup Members : e \in R[k] <=> InReplay(accepted, S \ {m}, sink, k, e)
      BY <1>3, <2>2
    <2> HIDE DEF R
    <2>4. A \in Store
      BY <2>2, <2>3, ApplyOpType
    <2>5. ASSUME NEW k \in Keys, NEW e \in Values \cup Members
          PROVE  e \in Replayed[S][k] <=> e \in A[k]
      <3>1. /\ e \in A[k] <=> Adds(accepted[m], k, e) \/ (e \in R[k] /\ ~Touches(accepted[m], k, e))
            /\ Adds(accepted[m], k, e) => Touches(accepted[m], k, e)
        BY <2>2, <2>3, OpOnElement
      <3>2. InReplay(accepted, S, sink, k, e)
              <=> Adds(accepted[m], k, e)
                  \/ (~Touches(accepted[m], k, e) /\ InReplay(accepted, S \ {m}, sink, k, e))
        BY <2>1, <3>1, ReplayLast
      <3> HIDE DEF A
      <3> QED BY <1>3, <2>3, <3>1, <3>2, Zenon
    <2> HIDE DEF A
    <2>6. Replayed[S] = A
      BY <1>3, <2>4, <2>5, SameElements
    <2> QED BY <2>2, <2>6, Zenon DEF A, R, m
  <1>6. ASSUME NEW S \in SUBSET P
        PROVE  Replayed[S] = IF S = {} THEN sink ELSE ApplyOp(Replayed[S \ {Max(S)}], accepted[queue[Max(S)]])
    BY <1>4, <1>5, Zenon
  <1>7. DOMAIN Replayed = SUBSET P /\ Replayed = [S \in SUBSET P |-> Replayed[S]]
    BY Zenon DEF Replayed
  <1> DEFINE body(S) == IF S = {} THEN sink ELSE ApplyOp(Replayed[S \ {Max(S)}], accepted[queue[Max(S)]])
  <1>8. [S \in SUBSET P |-> Replayed[S]] = [S \in SUBSET P |-> body(S)]
    BY <1>6, Zenon
  <1> QED BY <1>7, <1>8, Zenon DEF IsReplay

\* One step of the fold.
LEMMA ReplayAt ==
  ASSUME NEW f, IsReplay(f), NEW S \in SUBSET {s \in DOMAIN queue : s > committed}
  PROVE  f[S] = IF S = {} THEN sink ELSE ApplyOp(f[S \ {Max(S)}], accepted[queue[Max(S)]])
  BY Zenon DEF IsReplay

\* There is one such fold: two that differ would differ on a smallest set.
LEMMA ReplayUnique ==
  ASSUME IInv, NEW f, NEW g, IsReplay(f), IsReplay(g)
  PROVE  f[{s \in DOMAIN queue : s > committed}] = g[{s \in DOMAIN queue : s > committed}]
PROOF
  <1> DEFINE P == {s \in DOMAIN queue : s > committed}
             Bad == {S \in SUBSET P : f[S] # g[S]}
             T == {Cardinality(S) : S \in Bad}
  <1>1. SUFFICES ASSUME f[P] # g[P] PROVE FALSE
    OBVIOUS
  <1>2. P \in SUBSET (1 .. Len(accepted)) /\ Len(accepted) \in Nat
    BY PastIs, Zenon
  <1>3. ASSUME NEW S \in SUBSET P PROVE IsFiniteSet(S) /\ Cardinality(S) \in Nat
    <2>1. S \in SUBSET (1 .. Len(accepted)) /\ IsFiniteSet(1 .. Len(accepted))
      BY <1>2, FS_Interval
    <2>2. IsFiniteSet(S)
      BY <2>1, FS_Subset
    <2> QED BY <2>2, FS_CardinalityType
  <1>4. T \in SUBSET Nat /\ T # {}
    <2>1. P \in Bad
      BY <1>1
    <2> QED BY <1>3, <2>1
  <1>5. PICK t \in T : \A u \in T : t <= u
    BY Zenon, <1>4, Least
  <1>6. PICK S \in Bad : t = Cardinality(S)
    BY <1>5
  <1>7. S \in SUBSET P /\ f[S] # g[S]
    BY <1>6
  <1>8. CASE S = {}
    <2>1. f[S] = sink /\ g[S] = sink
      BY <1>7, <1>8, ReplayAt, Zenon
    <2> QED BY <1>7, <2>1
  <1>9. CASE S # {}
    <2>1. Max(S) \in S
      <3>1. S \in SUBSET (1 .. Len(accepted))
        BY <1>2, <1>7
      <3> QED BY Zenon, <1>2, <1>9, <3>1, LastNumber
    <2> DEFINE U == S \ {Max(S)}
    <2>2. U \in SUBSET P /\ Cardinality(U) = Cardinality(S) - 1 /\ Cardinality(S) \in Nat
      <3>1. IsFiniteSet(S) /\ Cardinality(S) \in Nat
        BY <1>3, <1>7
      <3> QED BY Zenon, <1>7, <2>1, <3>1, FS_RemoveElement
    <2>3. f[U] = g[U]
      <3>1. SUFFICES ASSUME U \in Bad PROVE FALSE
        BY <2>2
      <3>2. Cardinality(S) <= Cardinality(U)
        BY <1>5, <1>6, <3>1
      <3> HIDE DEF U
      <3> QED BY <2>2, <3>2, SMT
    <2>4. f[S] = ApplyOp(f[U], accepted[queue[Max(S)]]) /\ g[S] = ApplyOp(g[U], accepted[queue[Max(S)]])
      BY <1>7, <1>9, ReplayAt, Zenon
    <2> QED BY <1>7, <2>3, <2>4
  <1> QED BY <1>8, <1>9

\* What ReplayConverges says, element by element.
LEMMA ConvergesIs ==
  ASSUME ReplayInv
  PROVE  ReplayConverges
PROOF
  <1> DEFINE P == {s \in DOMAIN queue : s > committed}
  <1>0. IInv /\ Restores(accepted, committed, sink, expected)
    BY DEF ReplayInv
  <1>1. \E f : IsReplay(f)
    BY <1>0, ReplayExists
  <1>2. \E f : IsReplay(f) /\ (f[P] = expected => ReplayConverges)
    BY <1>1, Zenon DEF IsReplay, ReplayConverges, MapThenFoldSet
  <1>3. PICK f : IsReplay(f) /\ (f[P] = expected => ReplayConverges)
    BY <1>2
  <1>4. f[P] = Replayed[P]
    BY <1>0, <1>3, ReplayExists, ReplayUnique
  <1>5. Replayed[P] = [k \in Keys |-> {e \in Values \cup Members : InReplay(accepted, P, sink, k, e)}]
    BY Zenon DEF Replayed
  <1>6. P = After(accepted, committed)
    BY <1>0, PastIs
  <1>7. Replayed[P] \in Store /\ expected \in Store
    BY <1>0, <1>5, SMT DEF IInv, TypeOK, Store
  <1>8. ASSUME NEW k \in Keys, NEW e \in Values \cup Members
        PROVE  e \in Replayed[P][k] <=> e \in expected[k]
    <2>1. e \in expected[k] <=> InReplay(accepted, P, sink, k, e)
      BY <1>0, <1>6, Zenon DEF Restores
    <2>2. e \in Replayed[P][k] <=> InReplay(accepted, P, sink, k, e)
      BY <1>5, Zenon
    <2> QED BY <2>1, <2>2
  <1>9. Replayed[P] = expected
    BY <1>7, <1>8, SameElements
  <1> QED BY <1>3, <1>4, <1>9
-----------------------------------------------------------------------------
\* A new op is replayed last.
LEMMA ReplayGrows ==
  ASSUME NEW log \in Seq(IngestOp), NEW c \in Nat, c <= Len(log), NEW store \in Store,
         NEW goal \in Store, NEW op \in IngestOp, Restores(log, c, store, goal)
  PROVE  Restores(Append(log, op), c, store, ApplyOp(goal, op))
PROOF
  <1> DEFINE n == Len(log)
             longer == Append(log, op)
             S == After(longer, c)
  <1>1. /\ n \in Nat /\ Len(longer) = n + 1 /\ longer[n + 1] = op
        /\ \A s \in 1 .. n : longer[s] = log[s]
    OBVIOUS
  <1> HIDE DEF n, longer
  <1>2. /\ S \in SUBSET Nat /\ n + 1 \in S /\ (\A s \in S : s <= n + 1)
        /\ S \ {n + 1} = After(log, c) /\ \A s \in After(log, c) : longer[s] = log[s]
    BY <1>1, SMT DEF After, n
  <1> HIDE DEF S
  <1>3. ASSUME NEW k \in Keys, NEW e \in Values \cup Members
        PROVE  e \in ApplyOp(goal, op)[k] <=> InReplay(longer, S, store, k, e)
    <2>1. /\ e \in ApplyOp(goal, op)[k] <=> Adds(op, k, e) \/ (e \in goal[k] /\ ~Touches(op, k, e))
          /\ Adds(op, k, e) => Touches(op, k, e)
      BY OpOnElement
    <2>2. InReplay(longer, S, store, k, e)
            <=> Adds(op, k, e) \/ (~Touches(op, k, e) /\ InReplay(longer, S \ {n + 1}, store, k, e))
      <3>1. Adds(longer[n + 1], k, e) => Touches(longer[n + 1], k, e)
        BY <1>1, <2>1
      <3>2. InReplay(longer, S, store, k, e)
              <=> Adds(longer[n + 1], k, e)
                  \/ (~Touches(longer[n + 1], k, e) /\ InReplay(longer, S \ {n + 1}, store, k, e))
        BY Zenon, <1>2, <3>1, ReplayLast
      <3> QED BY <1>1, <3>2
    <2>3. InReplay(longer, S \ {n + 1}, store, k, e) <=> InReplay(log, After(log, c), store, k, e)
      <3>1. S \ {n + 1} = After(log, c) /\ \A s \in After(log, c) : longer[s] = log[s]
        BY <1>2
      <3> QED BY <3>1, Zenon DEF InReplay
    <2>4. e \in goal[k] <=> InReplay(log, After(log, c), store, k, e)
      BY Zenon DEF Restores
    <2> QED BY <2>1, <2>2, <2>3, <2>4
  <1> QED BY <1>3, Zenon DEF Restores, S, longer

\* An op that will be replayed may be applied, and the first one then be left out.
LEMMA ReplayAdvances ==
  ASSUME NEW log \in Seq(IngestOp), NEW c \in Nat, NEW s \in After(log, c), NEW store \in Store,
         NEW goal, Restores(log, c, store, goal)
  PROVE  /\ Restores(log, c, ApplyOp(store, log[s]), goal)
         /\ s = c + 1 => Restores(log, s, ApplyOp(store, log[s]), goal)
PROOF
  <1>1. /\ After(log, c) \in SUBSET Nat /\ log[s] \in IngestOp
        /\ s = c + 1 => (\A t \in After(log, c) : s <= t) /\ After(log, s) = After(log, c) \ {s}
    <2>1. Len(log) \in Nat /\ \A i \in 1 .. Len(log) : log[i] \in IngestOp
      OBVIOUS
    <2> QED BY <2>1, SMT DEF After
  <1>2. ASSUME NEW k \in Keys, NEW e \in Values \cup Members
        PROVE  /\ e \in goal[k] <=> InReplay(log, After(log, c), ApplyOp(store, log[s]), k, e)
               /\ s = c + 1 => (e \in goal[k] <=> InReplay(log, After(log, s), ApplyOp(store, log[s]), k, e))
    <2>1. e \in goal[k] <=> InReplay(log, After(log, c), store, k, e)
      BY Zenon DEF Restores
    <2>2. InReplay(log, After(log, c), store, k, e)
            <=> InReplay(log, After(log, c), ApplyOp(store, log[s]), k, e)
      BY Zenon, <1>1, ReplayTwice
    <2>3. ASSUME s = c + 1
          PROVE  InReplay(log, After(log, c), store, k, e)
                   <=> InReplay(log, After(log, c) \ {s}, ApplyOp(store, log[s]), k, e)
      <3>1. \A t \in After(log, c) : s <= t
        BY <1>1, <2>3
      <3> QED BY Zenon, <1>1, <3>1, ReplayFirst
    <2> QED BY Zenon, <1>1, <2>1, <2>2, <2>3
  <1> QED BY <1>2, Zenon DEF Restores

\* Nothing is queued at first.
LEMMA ReplayInit == RestartsSeeTheLog /\ Init => ReplayInv
PROOF
  <1> SUFFICES ASSUME RestartsSeeTheLog, Init PROVE ReplayInv
    OBVIOUS
  <1>1. IInv
    BY InitIInv
  <1>2. accepted = <<>> /\ committed = 0 /\ expected = sink /\ pc = "idle"
    BY DEF Init
  <1>3. After(accepted, committed) = {}
    <2>1. Len(accepted) = 0
      BY <1>2
    <2> QED BY <1>2, <2>1, SMT DEF After
  <1>4. Restores(accepted, committed, sink, expected)
    BY <1>2, <1>3, Zenon DEF Restores, InReplay
  <1> QED BY <1>1, <1>2, <1>4 DEF ReplayInv

\* Every step keeps the log replayable from the cursor and from where a drain has got to.
LEMMA ReplayStep == ReplayInv /\ [Next]_vars => ReplayInv'
PROOF
  <1> SUFFICES ASSUME ReplayInv, [Next]_vars PROVE ReplayInv'
    OBVIOUS
  <1>1. IInv /\ IInv'
    BY NextIInv DEF ReplayInv
  <1>2. /\ Restores(accepted, committed, sink, expected)
        /\ pc = "apply" => Restores(accepted, last_ok, sink, expected)
    BY DEF ReplayInv
  <1>3. /\ accepted \in Seq(IngestOp) /\ sink \in Store /\ expected \in Store /\ Len(accepted) \in Nat
        /\ committed \in Nat /\ committed <= Len(accepted) /\ last_ok \in Nat
        /\ pc = "apply" => committed <= last_ok /\ last_ok <= Len(accepted)
    BY <1>1 DEF IInv, TypeOK, LogInv, DrainInv
  <1>4. ASSUME NEW op \in IngestOp, enqueue(op) PROVE ReplayInv'
    <2>1. /\ accepted' = Append(accepted, op) /\ expected' = ApplyOp(expected, op)
          /\ UNCHANGED <<committed, sink, pc, last_ok>>
      BY <1>4 DEF enqueue, drainer
    <2>2. Restores(accepted', committed, sink, expected')
      BY <1>2, <1>3, <2>1, ReplayGrows
    <2>3. pc = "apply" => Restores(accepted', last_ok, sink, expected')
      BY <1>2, <1>3, <2>1, ReplayGrows
    <2> QED BY <1>1, <2>1, <2>2, <2>3, Zenon DEF ReplayInv
  <1>5. ASSUME NEW s \in DOMAIN ops, ApplyOk(s) PROVE ReplayInv'
    <2>1. /\ pc = "apply" /\ (\A t \in DOMAIN ops : s <= t) /\ sink' = ApplyOp(sink, accepted[ops[s]])
          /\ last_ok' = s /\ UNCHANGED <<accepted, expected, committed, pc>>
      BY <1>5 DEF ApplyOk
    <2>2. /\ s \in 1 .. Len(accepted) /\ ops[s] = s /\ s > last_ok
          /\ last_ok + 1 .. s \subseteq DOMAIN ops
      BY <1>1, <2>1 DEF IInv, TypeOK, DrainInv
    <2>3. s = last_ok + 1 /\ s \in After(accepted, last_ok) /\ s \in After(accepted, committed)
      <3>1. last_ok + 1 \in DOMAIN ops
        BY <1>3, <2>2
      <3>2. s <= last_ok + 1
        BY <2>1, <3>1
      <3> QED BY <1>3, <2>1, <2>2, <3>2, SMT DEF After
    <2>4. Restores(accepted, committed, ApplyOp(sink, accepted[s]), expected)
      BY <1>2, <1>3, <2>3, ReplayAdvances
    <2>5. Restores(accepted, s, ApplyOp(sink, accepted[s]), expected)
      BY <1>2, <1>3, <2>1, <2>3, ReplayAdvances
    <2> QED BY <1>1, <2>1, <2>2, <2>4, <2>5, Zenon DEF ReplayInv
  <1>6. CASE DrainRead
    <2>1. last_ok' = committed /\ UNCHANGED <<accepted, expected, sink, committed>>
      BY <1>6 DEF DrainRead
    <2> QED BY <1>1, <1>2, <2>1, Zenon DEF ReplayInv
  <1>7. CASE persist_committed
    <2>1. pc = "apply" /\ committed' = last_ok /\ pc' = "compact" /\ UNCHANGED <<accepted, expected, sink>>
      BY <1>7 DEF persist_committed
    <2>2. pc' # "apply"
      BY <2>1
    <2> QED BY <1>1, <1>2, <2>1, <2>2, Zenon DEF ReplayInv
  <1>8. CASE DrainNothing \/ CompactRead \/ CompactDelete \/ CompactFails \/ open
    <2>1. pc' \in {"idle", "trim"} /\ UNCHANGED <<accepted, expected, sink, committed>>
      BY <1>8, Zenon DEF DrainNothing, CompactRead, CompactDelete, CompactFails, open
    <2>2. pc' # "apply"
      BY <2>1
    <2> QED BY <1>1, <1>2, <2>1, <2>2, Zenon DEF ReplayInv
  <1>9. ASSUME (\E s \in DOMAIN ops : ApplyFails(s)) \/ DrainIdle \/ UNCHANGED vars PROVE ReplayInv'
    <2>1. UNCHANGED <<accepted, expected, sink, committed, pc, last_ok>>
      BY <1>9, Zenon DEF ApplyFails, DrainIdle, vars, drainer
    <2> QED BY <1>1, <1>2, <2>1, Zenon DEF ReplayInv
  <1> QED BY <1>4, <1>5, <1>6, <1>7, <1>8, <1>9, Zenon DEF Next, DrainStep

(***************************************************************************)
(* Replaying what is queued past the cursor gives what applying each op    *)
(* once would have given (ReplayConverges), at any point of a drain, after *)
(* failed calls and crashes, for any ops: what a drain applied before it   *)
(* failed is applied again and does no harm.                               *)
(***************************************************************************)
THEOREM ReplayIsSafe == RestartsSeeTheLog /\ Spec => []ReplayConverges
PROOF
  <1>1. ReplayInv => ReplayConverges
    BY ConvergesIs
  <1> QED BY <1>1, ReplayInit, ReplayStep, PTL DEF Spec
=============================================================================
