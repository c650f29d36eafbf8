-------------------------- MODULE SmartClientProofs --------------------------
(***************************************************************************)
(* Proofs about SmartClient, for any number of shards, keys, calls and     *)
(* rebalances.                                                             *)
(*                                                                         *)
(* EpochTellsView: what the epoch says about the view.  It needs the three *)
(* conditions without which TLC finds counterexamples: no poll overlaps a  *)
(* commit, no epoch is reused while the client is out of step, and one     *)
(* refresher at a time (Orderly).                                          *)
(*                                                                         *)
(* DirectWritesReachTheOwners, DirectReadsReturnTheirValue and             *)
(* DirectScansAreExact: what the client does to the shards itself.  They   *)
(* need none of these, but that no two nodes share a rack (Flat), as the   *)
(* client knows of none; the reads and scans also that fewer shards fail   *)
(* than hold a copy (Lasting), the scans that no page is cut short         *)
(* (Paging).                                                               *)
(***************************************************************************)
EXTENDS SmartClient, FiniteSetTheorems, WellFoundedInduction, TLAPS

Orderly == ~MayPollCommit /\ ~MayReset /\ \A r, s \in Refreshers : r = s

\* the types the epoch argument needs
ViewTypeOK ==
  /\ partitioner \subseteq Nodes /\ clients \subseteq Nodes /\ epoch \in Nat \ {0}
  /\ mig \in [pc : {"idle", "moving", "nodes", "clients"}, new : SUBSET Nodes,
             todo : SUBSET Buckets, moved : SUBSET Buckets]
  /\ view \in [clients : SUBSET Nodes, members : SUBSET Nodes, epoch : Nat]
  /\ poll \in [Refreshers -> [pc : {"idle", "epoch", "reply", "nodes", "store"},
                              members : SUBSET Nodes, epoch : Nat]]

\* every member has a client, and so has every member to be
Served ==
  /\ partitioner \subseteq clients
  /\ mig.pc # "idle" => mig.new \subseteq clients
  /\ mig.pc = "clients" => partitioner = mig.new

BeforeCommit == mig.pc \in {"idle", "moving"}

\* a list of members that the coordinator may have given out in its current epoch
Current(members) == BeforeCommit /\ partitioner \subseteq members /\ members \subseteq clients

Updating == \E r \in Refreshers : poll[r].pc \in {"nodes", "store"}

\* an answer carries an epoch that was reached, and a list of that epoch
AnswersCurrent ==
  \A r \in Refreshers :
    /\ poll[r].pc = "epoch" => Current(poll[r].members)
    /\ poll[r].pc \in {"reply", "nodes", "store"} =>
         poll[r].epoch <= epoch /\ (poll[r].epoch = epoch => Current(poll[r].members))

\* how far update_membership has come
UpdateInOrder ==
  /\ \A r \in Refreshers :
       /\ poll[r].pc \in {"nodes", "store"} => view.clients = poll[r].members
       /\ poll[r].pc = "store" => view.members = poll[r].members
  /\ (\A r \in Refreshers : poll[r].pc # "nodes") => view.members = view.clients

ViewCurrent == ~Updating /\ view.epoch = epoch => Current(view.members)

EpochInv == ViewTypeOK /\ Served /\ AnswersCurrent /\ UpdateInOrder /\ ViewCurrent
-----------------------------------------------------------------------------
\* The initial view is empty and carries epoch 0, which no coordinator has.
LEMMA EpochInvInit ==
  ASSUME SmartClientAssumption, Init
  PROVE  EpochInv
  BY DEF SmartClientAssumption, Init, EpochInv, ViewTypeOK, AnswersCurrent, UpdateInOrder,
         ViewCurrent, Current, BeforeCommit, Updating, IdleMig, IdlePoll, Served

\* A step that leaves the coordinator's membership, the view and the polls alone.
LEMMA OtherSteps ==
  ASSUME EpochInv, UNCHANGED <<cluster, view, poll>>
  PROVE  EpochInv'
  BY DEF EpochInv, ViewTypeOK, AnswersCurrent, UpdateInOrder, ViewCurrent, Current, BeforeCommit,
         Updating, cluster, Served

\* The coordinator's steps: clients only grow until the commit, which leaves every
\* epoch given out behind.
LEMMA ControlSteps ==
  ASSUME SmartClientAssumption, Orderly, EpochInv, Control
  PROVE  EpochInv'
PROOF
  <1> USE DEF EpochInv, ViewTypeOK, BeforeCommit
  <1>1. ASSUME NEW n \in Nodes, add_node(n) PROVE EpochInv'
    BY <1>1 DEF add_node, Served, AnswersCurrent, UpdateInOrder, ViewCurrent, Current, Updating
  <1>2. ASSUME NEW n \in Nodes, NodeDies(n) PROVE EpochInv'
    BY <1>2, OtherSteps DEF NodeDies
  <1>3. ASSUME NEW new \in Targets, Rebalance(new) PROVE EpochInv'
    <2>1. new \subseteq Nodes /\ Moved(partitioner, new, ReplTarget) \subseteq Buckets
      BY DEF SmartClientAssumption, Moved
    <2>2. ViewTypeOK' /\ mig'.pc = "moving"
      BY Zenon, <1>3, <2>1 DEF Rebalance, IdleMig
    <2>3. Served' /\ AnswersCurrent' /\ UpdateInOrder' /\ ViewCurrent'
      BY <1>3, <2>2 DEF Rebalance, IdleMig, Served, AnswersCurrent, UpdateInOrder, ViewCurrent, Current, Updating
    <2> QED BY <2>2, <2>3
  <1>4. ASSUME NEW b \in Buckets, MoveBucket(b) PROVE EpochInv'
    <2>1. ViewTypeOK' /\ mig'.pc = mig.pc
      BY Zenon, <1>4 DEF MoveBucket
    <2>2. Served' /\ AnswersCurrent' /\ UpdateInOrder' /\ ViewCurrent'
      BY <1>4, <2>1 DEF MoveBucket, Served, AnswersCurrent, UpdateInOrder, ViewCurrent, Current, Updating
    <2> QED BY <2>1, <2>2
  <1>5. CASE CommitEpoch
    <2>0. mig' \in [pc : {"idle", "moving", "nodes", "clients"}, new : SUBSET Nodes,
                    todo : SUBSET Buckets, moved : SUBSET Buckets]
      BY <1>5, SMTT(30) DEF CommitEpoch
    <2>a. epoch' = epoch + 1 /\ UNCHANGED <<partitioner, clients, view, poll>>
      BY <1>5 DEF CommitEpoch
    <2>b. epoch' \in Nat \ {0}
      BY <2>a
    <2>1. ViewTypeOK' /\ epoch' = epoch + 1 /\ UNCHANGED <<view, poll>>
      BY <2>0, <2>a, <2>b
    <2>2. AnswersCurrent'
      BY <1>5, <2>1 DEF CommitEpoch, Orderly, AnswersCurrent
    <2>3. view.epoch <= epoch
      BY <1>5 DEF CommitEpoch, Orderly
    <2>4. Served' /\ UpdateInOrder' /\ ViewCurrent'
      BY <1>5, <2>1, <2>3 DEF CommitEpoch, Served, UpdateInOrder, ViewCurrent, Updating
    <2> QED BY <2>1, <2>2, <2>4
  <1>6. CASE CommitNodes
    <2>1. ViewTypeOK' /\ UNCHANGED <<epoch, view, poll>> /\ mig.pc = "nodes"
      BY Zenon, <1>6 DEF CommitNodes
    <2>2. Served' /\ AnswersCurrent' /\ UpdateInOrder' /\ ViewCurrent'
      BY <1>6, <2>1 DEF CommitNodes, Served, AnswersCurrent, UpdateInOrder, ViewCurrent, Current, Updating
    <2> QED BY <2>1, <2>2
  <1>7. CASE CommitClients
    <2>1. ViewTypeOK' /\ UNCHANGED <<epoch, view, poll>> /\ mig.pc = "clients"
      BY <1>7 DEF CommitClients, IdleMig
    <2>2. Served' /\ AnswersCurrent' /\ UpdateInOrder' /\ ViewCurrent'
      BY <1>7, <2>1 DEF CommitClients, IdleMig, Served, AnswersCurrent, UpdateInOrder, ViewCurrent, Current, Updating
    <2> QED BY <2>1, <2>2
  <1>8. CASE Restart
    <2>1. ViewTypeOK' /\ UNCHANGED <<partitioner, mig, view, poll>> /\ clients' = partitioner
      BY <1>8 DEF Restart
    <2>2. view.members = partitioner /\ mig.pc = "idle" /\ \A r \in Refreshers : poll[r].pc = "idle"
      BY <1>8 DEF Restart, Orderly, InStep
    <2>3. Served' /\ AnswersCurrent' /\ UpdateInOrder' /\ ViewCurrent'
      BY <2>1, <2>2 DEF Served, AnswersCurrent, UpdateInOrder, ViewCurrent, Current, Updating
    <2> QED BY <2>1, <2>3
  <1> QED
    BY <1>1, <1>2, <1>3, <1>4, <1>5, <1>6, <1>7, <1>8 DEF Control, Committing

\* The steps of refresh: the list is read before the epoch, and the view's own epoch
\* is stored last.
LEMMA RefreshSteps ==
  ASSUME Orderly, EpochInv, NEW r \in Refreshers, Refresh(r) \/ PollLost(r)
  PROVE  EpochInv'
PROOF
  <1> USE DEF EpochInv, ViewTypeOK
  <1>0. \A s \in Refreshers : s = r
    BY DEF Orderly
  <1>1. CASE PollMembers(r)
    <2>1. ViewTypeOK' /\ UNCHANGED <<partitioner, clients, epoch, mig, view>> /\ poll[r].pc = "idle"
      BY <1>1 DEF PollMembers, Polled, cluster
    <2>2. poll'[r].pc = "epoch" /\ poll'[r].members = clients /\ BeforeCommit
      BY <1>1 DEF PollMembers, Polled, Orderly, BeforeCommit
    <2>3. Served' /\ AnswersCurrent' /\ UpdateInOrder' /\ ViewCurrent'
      BY <1>0, <2>1, <2>2 DEF Served, AnswersCurrent, UpdateInOrder, ViewCurrent, Current, Updating,
         BeforeCommit
    <2> QED BY <2>1, <2>3
  <1>2. CASE PollEpoch(r)
    <2>1. ViewTypeOK' /\ UNCHANGED <<partitioner, clients, epoch, mig, view>> /\ poll[r].pc = "epoch"
      BY <1>2, ZenonT(60) DEF PollEpoch, Polled, cluster
    <2>2. poll'[r].pc = "reply" /\ poll'[r].members = poll[r].members /\ poll'[r].epoch = epoch
      BY <1>2 DEF PollEpoch, Polled
    <2>3. Served' /\ AnswersCurrent' /\ UpdateInOrder' /\ ViewCurrent'
      BY <1>0, <2>1, <2>2 DEF Served, AnswersCurrent, UpdateInOrder, ViewCurrent, Current, Updating,
         BeforeCommit
    <2> QED BY <2>1, <2>3
  <1>3. ASSUME poll[r].pc = "reply", Polled(r, IdlePoll), UNCHANGED view PROVE EpochInv'
    <2>1. ViewTypeOK' /\ UNCHANGED <<partitioner, clients, epoch, mig, view>> /\ poll'[r].pc = "idle"
      BY <1>3 DEF Polled, IdlePoll, cluster
    <2>2. Served' /\ AnswersCurrent' /\ UpdateInOrder' /\ ViewCurrent'
      BY <1>0, <1>3, <2>1 DEF Served, AnswersCurrent, UpdateInOrder, ViewCurrent, Current, Updating,
         BeforeCommit
    <2> QED BY <2>1, <2>2
  <1>4. CASE PollLost(r)
    BY <1>3, <1>4 DEF PollLost
  <1>5. CASE SetClients(r)
    <2>1. CASE Unchanged(poll[r]) \/ poll[r].members = {}
      BY <1>3, <1>5, <2>1 DEF SetClients
    <2>2. CASE ~(Unchanged(poll[r]) \/ poll[r].members = {})
      <3>a. /\ UNCHANGED <<partitioner, clients, epoch, mig>> /\ poll[r].pc = "reply"
            /\ poll' = [poll EXCEPT ![r] = [poll[r] EXCEPT !.pc = "nodes"]]
            /\ view' = [view EXCEPT !.clients = poll[r].members]
        BY <1>5, <2>2 DEF SetClients, Polled, cluster
      <3>b. poll' \in [Refreshers -> [pc : {"idle", "epoch", "reply", "nodes", "store"},
                                      members : SUBSET Nodes, epoch : Nat]]
        BY <3>a
      <3>c. view' \in [clients : SUBSET Nodes, members : SUBSET Nodes, epoch : Nat]
        BY <3>a
      <3>1. ViewTypeOK' /\ UNCHANGED <<partitioner, clients, epoch, mig>> /\ poll[r].pc = "reply"
        BY <3>a, <3>b, <3>c
      <3>2. /\ poll'[r].pc = "nodes" /\ view'.clients = poll[r].members
            /\ poll'[r].members = poll[r].members /\ poll'[r].epoch = poll[r].epoch
        BY <1>5, <2>2 DEF SetClients, Polled
      <3>3. Served' /\ AnswersCurrent' /\ UpdateInOrder' /\ ViewCurrent'
        BY <1>0, <3>1, <3>2 DEF Served, AnswersCurrent, UpdateInOrder, ViewCurrent, Current, Updating,
           BeforeCommit
      <3> QED BY <3>1, <3>3
    <2> QED BY <2>1, <2>2
  <1>6. CASE SetNodes(r)
    <2>1. ViewTypeOK' /\ UNCHANGED <<partitioner, clients, epoch, mig>> /\ poll[r].pc = "nodes"
      BY <1>6 DEF SetNodes, Polled, cluster
    <2>2. /\ poll'[r].pc = "store" /\ view'.clients = view.clients /\ view'.members = poll[r].members
          /\ poll'[r].members = poll[r].members /\ poll'[r].epoch = poll[r].epoch
      BY <1>6 DEF SetNodes, Polled
    <2>3. Served' /\ AnswersCurrent' /\ UpdateInOrder' /\ ViewCurrent'
      BY <1>0, <2>1, <2>2 DEF Served, AnswersCurrent, UpdateInOrder, ViewCurrent, Current, Updating,
         BeforeCommit
    <2> QED BY <2>1, <2>3
  <1>7. CASE SetEpoch(r)
    <2>1. ViewTypeOK' /\ UNCHANGED <<partitioner, clients, epoch, mig>> /\ poll[r].pc = "store"
      BY <1>7 DEF SetEpoch, Polled, cluster, IdlePoll
    <2>2. /\ poll'[r].pc = "idle" /\ view'.clients = view.clients /\ view'.members = view.members
          /\ view'.epoch = poll[r].epoch
      BY <1>7 DEF SetEpoch, Polled, IdlePoll
    <2>3. Served' /\ AnswersCurrent' /\ UpdateInOrder' /\ ViewCurrent'
      BY <1>0, <2>1, <2>2 DEF Served, AnswersCurrent, UpdateInOrder, ViewCurrent, Current, Updating,
         BeforeCommit
    <2> QED BY <2>1, <2>3
  <1> QED
    BY <1>1, <1>2, <1>4, <1>5, <1>6, <1>7 DEF Refresh

\* Reads, writes and scans only use the view.
LEMMA CallSteps ==
  ASSUME NEW x,
         \/ x \in Readers /\ Reading(x)
         \/ x \in Writers /\ WriteStep(x)
         \/ x \in Writers /\ \E kind \in WriteKinds, k \in Keys :
               \E arg \in WriteArgs(kind) : BeginWrite(x, kind, k, arg)
         \/ x \in Scanners /\ Scanning(x)
  PROVE  UNCHANGED <<cluster, view, poll>>
PROOF
  <1> DEFINE Untouched == UNCHANGED <<cluster, view, poll>>
  <1>1. ASSUME Reading(x) PROVE Untouched
    <2>1. ASSUME NEW kind \in {"get", "mget"}, NEW k \in Keys, BeginRead(x, kind, k) PROVE Untouched
      BY <2>1 DEF BeginRead
    <2>2. ASSUME ReadCall(x) PROVE Untouched
      BY <2>2 DEF ReadCall
    <2>3. ASSUME ReadDone(x) PROVE Untouched
      BY <2>3 DEF ReadDone
    <2> HIDE DEF Untouched
    <2> QED BY <1>1, <2>1, <2>2, <2>3 DEF Reading
  <1>2. ASSUME WriteStep(x) PROVE Untouched
    <2>1. ASSUME BroadcastCall(x) PROVE Untouched
      BY <2>1 DEF BroadcastCall
    <2>2. ASSUME RmwPrimary(x) PROVE Untouched
      BY <2>2 DEF RmwPrimary
    <2>3. ASSUME ReplicaCall(x) PROVE Untouched
      BY <2>3 DEF ReplicaCall
    <2>4. ASSUME WriteDone(x) PROVE Untouched
      BY <2>4 DEF WriteDone
    <2> HIDE DEF Untouched
    <2> QED BY <1>2, <2>1, <2>2, <2>3, <2>4 DEF WriteStep
  <1>3. ASSUME NEW kind \in WriteKinds, NEW k \in Keys, NEW arg \in WriteArgs(kind),
               BeginWrite(x, kind, k, arg)
        PROVE  Untouched
    BY Zenon, <1>3 DEF BeginWrite
  <1>4. ASSUME Scanning(x) PROVE Untouched
    <2>1. ASSUME NEW kind, NEW n, ScanStart(x, kind, n) PROVE Untouched
      BY <2>1 DEF ScanStart
    <2>2. ASSUME NEW n \in Nodes, ScanShard(x, n) PROVE Untouched
      BY <2>2 DEF ScanShard
    <2>3. ASSUME ScanPage(x) PROVE Untouched
      BY <2>3 DEF ScanPage
    <2>4. ASSUME PartitionPage(x) PROVE Untouched
      BY <2>4 DEF PartitionPage
    <2>5. ASSUME RespPage(x) PROVE Untouched
      BY <2>5 DEF RespPage
    <2>6. ASSUME ScanDone(x) PROVE Untouched
      BY <2>6 DEF ScanDone
    <2> HIDE DEF Untouched
    <2> QED BY <1>4, <2>1, <2>2, <2>3, <2>4, <2>5, <2>6 DEF Scanning
  <1> HIDE DEF Untouched
  <1>5. Untouched
    BY <1>1, <1>2, <1>3, <1>4
  <1> QED BY <1>5 DEF Untouched

\* EpochInv is inductive.
LEMMA EpochInvStep ==
  ASSUME SmartClientAssumption, Orderly, EpochInv, [Next]_vars
  PROVE  EpochInv'
PROOF
  <1>1. CASE Control
    BY <1>1, ControlSteps
  <1>2. CASE \E r \in Refreshers : Refresh(r) \/ PollLost(r)
    BY <1>2, RefreshSteps
  <1>3. CASE UNCHANGED vars
    BY <1>3, OtherSteps DEF vars
  <1>4. CASE UNCHANGED <<cluster, view, poll>>
    BY <1>4, OtherSteps
  <1> QED
    BY Zenon, <1>1, <1>2, <1>3, <1>4, CallSteps DEF Next

(***************************************************************************)
(* refresh may trust equal epochs: a view that carries the coordinator's   *)
(* epoch is the coordinator's membership whenever no change of it and no   *)
(* update of the view is under way (refresh in smart.rs against            *)
(* commit_membership in cluster.rs).                                       *)
(***************************************************************************)
THEOREM EpochTellsView ==
  ASSUME Orderly
  PROVE  Spec => []EqualEpochsEqualViews
PROOF
  <1>1. Init => EpochInv
    BY EpochInvInit, SmartClientAssumption
  <1>2. EpochInv /\ [Next]_vars => EpochInv'
    BY EpochInvStep, SmartClientAssumption
  <1>3. EpochInv => EqualEpochsEqualViews
    BY Zenon DEF EpochInv, UpdateInOrder, ViewCurrent, Current, Updating, EqualEpochsEqualViews,
                 Quiet, InStep
  <1> QED
    BY <1>1, <1>2, <1>3, PTL DEF Spec
-----------------------------------------------------------------------------
\* From here on a leaf is for Zenon unless it names another prover.
USE Zenon

\* the members that set_nodes ranks before n
Better(b, S, n) == {m \in S : Score[b][m] > Score[b][n]}

\* set_nodes ranks the members without gaps or repetitions: as many of them have a better
\* score than a member as come before it.
LEMMA RankedList ==
  ASSUME NEW b \in Buckets, NEW S \in SUBSET Nodes
  PROVE  /\ Cardinality(S) \in Nat
         /\ \A i \in 1 .. Cardinality(S) : Ranked(b, S)[i] \in S
         /\ \A i, j \in 1 .. Cardinality(S) : Ranked(b, S)[i] = Ranked(b, S)[j] => i = j
         /\ \A i \in 1 .. Cardinality(S), n \in S :
              Cardinality(Better(b, S, n)) = i - 1 <=> n = Ranked(b, S)[i]
PROOF
  <1> DEFINE at(n) == Cardinality(Better(b, S, n))
             c == Cardinality(S)
             f == [n \in S |-> at(n) + 1]
  <1>1. IsFiniteSet(S) /\ c \in Nat
    BY PlacementAssumption, FS_Subset, FS_CardinalityType
  <1>2. /\ \A n \in S : Score[b][n] \in Nat
        /\ \A m, n \in S : Score[b][m] = Score[b][n] => m = n
    BY SMT, PlacementAssumption
  <1>3. ASSUME NEW n \in S PROVE IsFiniteSet(Better(b, S, n)) /\ at(n) \in Nat /\ at(n) < c
    <2>1. Better(b, S, n) \in SUBSET (S \ {n})
      BY SMT, <1>2 DEF Better
    <2>2. IsFiniteSet(S \ {n}) /\ Cardinality(S \ {n}) = c - 1
      BY <1>1, FS_RemoveElement
    <2>3. IsFiniteSet(Better(b, S, n)) /\ at(n) <= Cardinality(S \ {n})
      BY <2>1, <2>2, FS_Subset
    <2>4. at(n) \in Nat
      BY <2>3, FS_CardinalityType
    <2> QED BY SMT, <1>1, <2>2, <2>3, <2>4
  <1>4. ASSUME NEW m \in S, NEW n \in S, Score[b][m] > Score[b][n] PROVE at(m) < at(n)
    <2>1. Better(b, S, m) \cup {m} \in SUBSET Better(b, S, n) /\ m \notin Better(b, S, m)
      BY SMT, <1>2, <1>4 DEF Better
    <2>2. Cardinality(Better(b, S, m) \cup {m}) = at(m) + 1
      BY <1>3, <2>1, FS_AddElement
    <2>3. Cardinality(Better(b, S, m) \cup {m}) <= at(n)
      BY <1>3, <2>1, FS_Subset
    <2>4. at(m) \in Nat /\ at(n) \in Nat
      BY <1>3
    <2> QED BY SMT, <2>2, <2>3, <2>4
  <1>5. ASSUME NEW m \in S, NEW n \in S, at(m) = at(n) PROVE m = n
    <2>1. at(m) \in Nat
      BY <1>3
    <2>2. ~(Score[b][m] > Score[b][n]) /\ ~(Score[b][n] > Score[b][m])
      BY SMT, <1>4, <1>5, <2>1
    <2> QED BY SMT, <1>2, <2>2
  <1>6. f \in Injection(S, 1 .. c)
    <2>1. f \in [S -> 1 .. c]
      BY SMT, <1>1, <1>3
    <2>2. ASSUME NEW m \in S, NEW n \in S, f[m] = f[n] PROVE m = n
      <3>1. at(m) \in Nat /\ at(n) \in Nat
        BY <1>3
      <3>2. at(m) = at(n)
        BY SMT, <2>2, <3>1
      <3> QED BY <1>5, <3>2
    <2> QED BY <2>1, <2>2 DEF Injection, IsInjective
  <1>7. f \in Surjection(S, 1 .. c)
    <2>1. IsFiniteSet(1 .. c) /\ Cardinality(1 .. c) = c
      BY SMT, <1>1, FS_Interval
    <2> QED BY <1>6, <2>1, FS_Injection
  <1>8. ASSUME NEW i \in 1 .. c PROVE Ranked(b, S)[i] \in S /\ at(Ranked(b, S)[i]) = i - 1
    <2>1. PICK n \in S : f[n] = i
      BY <1>7 DEF Surjection
    <2>2. at(n) \in Nat
      BY <1>3
    <2>3. at(n) = i - 1
      BY SMT, <2>1, <2>2
    <2>4. Ranked(b, S)[i] = CHOOSE m \in S : at(m) = i - 1
      BY DEF Ranked, Better
    <2> QED BY <2>3, <2>4
  <1>9. ASSUME NEW i \in 1 .. c, NEW j \in 1 .. c, Ranked(b, S)[i] = Ranked(b, S)[j] PROVE i = j
    <2>1. i - 1 = j - 1
      BY <1>8, <1>9
    <2> QED BY SMT, <1>1, <2>1
  <1> QED BY <1>1, <1>5, <1>8, <1>9

(***************************************************************************)
(* Clusters are never empty, and no two nodes share a rack: the client     *)
(* knows no racks.                                                         *)
(***************************************************************************)
Flat ==
  /\ InitialMembers # {} /\ {} \notin Targets
  /\ \A m, n \in Nodes : Rack[m] = Rack[n] => m = n

\* the owners of bucket b by the ranking alone, as the client sees them
Top(b, S) == Take(Ranked(b, S), ReplTarget)

\* Where no rack is shared, the coordinator picks the top of the ranking, as the client does.
LEMMA OwnersAreTop ==
  ASSUME Flat, NEW b \in Buckets, NEW S \in SUBSET Nodes, S # {}
  PROVE  /\ OldOwners(b, S, ReplTarget) = Top(b, S) /\ NewOwners(b, S, ReplTarget) = Top(b, S)
         /\ Top(b, S) \in Seq(S) /\ Len(Top(b, S)) = AtMost(ReplTarget, Cardinality(S))
         /\ Len(Top(b, S)) \in Nat \ {0}
         /\ Head(Top(b, S)) \in Range(Top(b, S)) /\ Range(Top(b, S)) \subseteq S
         /\ \A i, j \in 1 .. Len(Top(b, S)) : Top(b, S)[i] = Top(b, S)[j] => i = j
PROOF
  <1> DEFINE c == Cardinality(S)
             top == Top(b, S)
  <1>0. /\ \A i \in 1 .. c : Ranked(b, S)[i] \in S
        /\ \A i, j \in 1 .. c : Ranked(b, S)[i] = Ranked(b, S)[j] => i = j
        /\ \A i \in 1 .. c : \A n \in S : Cardinality(Better(b, S, n)) = i - 1 <=> n = Ranked(b, S)[i]
    BY RankedList
  <1>1. c \in Nat /\ c # 0 /\ ReplTarget \in Nat \ {0}
    <2>1. IsFiniteSet(S)
      BY PlacementAssumption, FS_Subset
    <2>2. c \in Nat /\ c # 0
      BY <2>1, FS_CardinalityType, FS_EmptySet
    <2> QED BY <2>2, SmartClientAssumption
  <1> DEFINE before(n) == {m \in S : ChosenBefore(b, S, m, n)}
             chosen(i) == CHOOSE n \in S : Cardinality(before(n)) = i - 1
             ranked(i) == CHOOSE n \in S : Cardinality(Better(b, S, n)) = i - 1
  <1>2. Choice[b][S] = [i \in 1 .. c |-> chosen(i)] /\ Ranked(b, S) = [i \in 1 .. c |-> ranked(i)]
    BY DEF Choice, Memberships, Ranked, Better
  <1>3. ASSUME NEW i \in 1 .. c PROVE Ranked(b, S)[i] = ranked(i)
    BY <1>2
  <1>12. ASSUME NEW n \in S PROVE before(n) = Better(b, S, n)
    <2>1. ASSUME NEW m \in S PROVE FirstOfRack(b, S, m)
      <3>1. ASSUME NEW l \in S, Rack[l] = Rack[m] PROVE Score[b][l] <= Score[b][m]
        <4>1. l = m
          BY <3>1 DEF Flat
        <4>2. Score[b][m] \in Nat
          BY SMT, PlacementAssumption
        <4> QED BY SMT, <4>1, <4>2
      <3> QED BY <3>1 DEF FirstOfRack
    <2> QED BY <2>1 DEF ChosenBefore, Better
  <1>13. ASSUME NEW i \in 1 .. c PROVE chosen(i) = ranked(i)
    <2>1. ranked(i) \in S /\ Cardinality(Better(b, S, ranked(i))) = i - 1
      BY <1>0, <1>3
    <2>2. Cardinality(before(ranked(i))) = i - 1
      BY <1>12, <2>1
    <2>3. chosen(i) \in S /\ Cardinality(before(chosen(i))) = i - 1
      <3> HIDE DEF before, ranked
      <3> QED BY <2>1, <2>2
    <2>4. Cardinality(Better(b, S, chosen(i))) = i - 1
      BY <1>12, <2>3
    <2> HIDE DEF chosen, ranked
    <2> QED BY <1>0, <1>3, <2>3, <2>4
  <1>14. Choice[b][S] = Ranked(b, S)
    <2> HIDE DEF chosen, ranked
    <2> QED BY <1>2, <1>13
  <1>15. Ranked(b, S) \in Seq(S) /\ Len(Ranked(b, S)) = c
    <2>1. \A i \in 1 .. c : ranked(i) \in S
      BY <1>0, <1>3
    <2> HIDE DEF c, ranked
    <2> QED BY SMT, <1>1, <1>2, <2>1
  <1>4. clamp(ReplTarget, c) = AtMost(ReplTarget, c)
    BY SMT, <1>1 DEF clamp, AtMost, AtLeast
  <1>5. AtMost(AtMost(ReplTarget, c), c) = AtMost(ReplTarget, c) /\ AtMost(ReplTarget, c) \in 1 .. c
    BY SMT, <1>1 DEF AtMost
  <1>6. OldOwners(b, S, ReplTarget) = top /\ NewOwners(b, S, ReplTarget) = top
    BY <1>14, <1>15, <1>4, <1>5 DEF OldOwners, NewOwners, owners_of_bucket, pick, Take, Top
  <1>7. top = SubSeq(Ranked(b, S), 1, AtMost(ReplTarget, c))
    BY <1>15 DEF Top, Take
  <1> DEFINE a == AtMost(ReplTarget, c)
  <1>8. top \in Seq(S) /\ Len(top) = a /\ \A i \in 1 .. a : top[i] = Ranked(b, S)[i]
    <2> HIDE DEF top, c, a
    <2>1. a \in 1 .. c /\ top = SubSeq(Ranked(b, S), 1, a)
      BY <1>5, <1>7 DEF a
    <2> QED BY SMT, <1>1, <1>15, <2>1
  <1>9. a \in Nat \ {0}
    BY SMT, <1>1, <1>5
  <1>10. Head(top) \in Range(top) /\ Range(top) \subseteq S
    <2> HIDE DEF top, a
    <2> QED BY SMT, <1>8, <1>9 DEF Range
  <1>11. ASSUME NEW i \in 1 .. a, NEW j \in 1 .. a, top[i] = top[j] PROVE i = j
    <2>1. i \in 1 .. c /\ j \in 1 .. c
      BY SMT, <1>1, <1>5
    <2> QED BY <1>8, <1>11, <2>1, <1>0
  <1> QED BY <1>6, <1>8, <1>9, <1>10, <1>11
-----------------------------------------------------------------------------
(***************************************************************************)
(* The data.  Homes(k): the nodes that the coordinator has k on; Rest(n, k) *)
(* is what n then stores while nobody writes k.                            *)
(***************************************************************************)
Homes(k) == Range(owners(k))

Rest(n, k) == IF n \in Homes(k) THEN truth[k] ELSE Absent

WriteFields == {"pc", "kind", "key", "todo", "val", "expect", "steady"}

Migs == [pc : {"idle", "moving", "nodes", "clients"}, new : SUBSET Nodes,
         todo : SUBSET Buckets, moved : SUBSET Buckets]

\* the types the argument needs
DataShape ==
  /\ partitioner \subseteq Nodes /\ partitioner # {} /\ dead \subseteq Nodes
  /\ mig \in Migs
  /\ DOMAIN view = {"clients", "members", "epoch"}
  /\ DOMAIN data = Nodes /\ DOMAIN truth = Keys /\ DOMAIN write = Writers
  /\ \A n \in Nodes : DOMAIN data[n] = Keys
  /\ \A w \in Writers : /\ DOMAIN write[w] = WriteFields
                        /\ write[w].pc # "idle" => write[w].key \in Keys

\* how far a rebalance has come, and that it has every shard
MovesInOrder ==
  /\ mig.pc = "idle" => mig.moved = {}
  /\ mig.pc # "idle" => mig.new # {} /\ dead = {}
  /\ mig.pc = "moving" => mig.todo \cap mig.moved = {}
  /\ mig.pc \in {"moving", "nodes"} => mig.todo \cup mig.moved = Moved(partitioner, mig.new, ReplTarget)
  /\ mig.pc = "nodes" => mig.todo = {}
  /\ mig.pc = "clients" => partitioner = mig.new /\ mig.moved = {}

OneWriter ==
  \A w, x \in Writers :
    write[w].pc # "idle" /\ write[x].pc # "idle" /\ write[w].key = write[x].key => w = x

Storing(k) == \E w \in Writers : HasValue(w) /\ write[w].key = k

\* nobody stores anything under k
Settled(k) == \A n \in Nodes \ dead : data[n][k] = Rest(n, k)

\* a write that has a value has stored it on some nodes and touched nothing else; a
\* steady one on every owner it has called, and only there
Spreading(w, k) ==
  \A n \in Nodes \ dead :
    /\ data[n][k] \in {write[w].val, Rest(n, k)}
    /\ write[w].steady =>
         /\ n \in Homes(k) \ Range(write[w].todo) => data[n][k] = write[w].val
         /\ n \notin Homes(k) => data[n][k] = Absent

KeyInv(k) ==
  k \notin astray =>
    /\ ~Storing(k) => Settled(k)
    /\ \A w \in Writers : HasValue(w) /\ write[w].key = k => Spreading(w, k)

\* a steady write goes to the owners, and to all of them
WriteInv(w) ==
  write[w].steady =>
    /\ Stable /\ write[w].key \in Keys
    /\ write[w].todo \in Seq(Nodes) /\ Range(write[w].todo) \subseteq Homes(write[w].key)
    /\ ~HasValue(w) => Homes(write[w].key) \subseteq Range(write[w].todo)

DirectInv ==
  /\ Flat /\ DataShape /\ MovesInOrder /\ OneWriter
  /\ \A k \in Keys : KeyInv(k)
  /\ \A w \in Writers : WriteInv(w)
-----------------------------------------------------------------------------
\* The rest of a queue that is not empty.
LEMMA Queue ==
  ASSUME NEW T, NEW s \in Seq(T), s # <<>>
  PROVE  Tail(s) \in Seq(T) /\ Range(s) = {Head(s)} \cup Range(Tail(s))
PROOF
  <1>1. Tail(s) \in Seq(T)
    BY SMT
  <1>2. ASSUME NEW x \in Range(s) PROVE x = Head(s) \/ x \in Range(Tail(s))
    <2>1. PICK i \in DOMAIN s : s[i] = x
      BY DEF Range
    <2>2. i = 1 \/ (i - 1 \in DOMAIN Tail(s) /\ Tail(s)[i - 1] = s[i])
      BY SMT
    <2> QED BY SMT, <2>1, <2>2 DEF Range
  <1>3. Head(s) \in Range(s)
    BY SMT DEF Range
  <1>4. ASSUME NEW x \in Range(Tail(s)) PROVE x \in Range(s)
    <2>1. PICK i \in DOMAIN Tail(s) : Tail(s)[i] = x
      BY DEF Range
    <2>2. i + 1 \in DOMAIN s /\ s[i + 1] = Tail(s)[i]
      BY SMT
    <2> QED BY <2>1, <2>2 DEF Range
  <1> QED BY <1>1, <1>2, <1>3, <1>4

\* The coordinator's owners, by the ranking; under stable membership the client calls
\* the same nodes, and has a client for each.
LEMMA HomesAre ==
  ASSUME Flat, DataShape, MovesInOrder, NEW k \in Keys
  PROVE  LET b == bucket_of[k] IN
         /\ b \in Buckets
         /\ owners(k) = IF b \in mig.moved THEN Top(b, mig.new) ELSE Top(b, partitioner)
         /\ owners(k) \in Seq(Nodes) /\ owners(k) # <<>> /\ Homes(k) \subseteq Nodes
         /\ Stable => route(k) = owners(k) /\ Homes(k) \subseteq view.clients
PROOF
  <1> DEFINE b == bucket_of[k]
             S == IF b \in mig.moved THEN mig.new ELSE partitioner
  <1>1. b \in Buckets
    BY SMT, PlacementAssumption
  <1>2. S \in SUBSET Nodes /\ S # {}
    BY SMT DEF DataShape, Migs, MovesInOrder
  <1>3. owners(k) = Top(b, S)
    <2>1. OldOwners(b, S, ReplTarget) = Top(b, S) /\ NewOwners(b, S, ReplTarget) = Top(b, S)
      BY <1>1, <1>2, OwnersAreTop
    <2> QED BY <2>1 DEF owners
  <1>4. /\ Top(b, S) \in Seq(S) /\ Len(Top(b, S)) \in Nat \ {0}
        /\ Range(Top(b, S)) \subseteq S
    BY <1>1, <1>2, OwnersAreTop
  <1> HIDE DEF S
  <1>5. owners(k) \in Seq(Nodes) /\ owners(k) # <<>>
    <2>1. Top(b, S) \in Seq(Nodes) /\ Top(b, S) # <<>>
      BY SMT, <1>2, <1>4
    <2> QED BY <1>3, <2>1
  <1>6. ASSUME Stable PROVE route(k) = owners(k) /\ Homes(k) \subseteq view.clients
    <2>1. S = partitioner /\ view.members = partitioner /\ view.clients = partitioner
      BY <1>6 DEF Stable, Quiet, InStep, MovesInOrder, S
    <2>2. route(k) = Top(b, S)
      BY <2>1 DEF route, Top
    <2> QED BY <1>3, <1>4, <2>1, <2>2 DEF Homes
  <1> QED BY <1>1, <1>2, <1>3, <1>4, <1>5, <1>6 DEF Homes, S

\* The record that a write has about itself, up to whether it is steady.
SameWrite(w) ==
  /\ write'[w].pc = write[w].pc /\ write'[w].kind = write[w].kind /\ write'[w].key = write[w].key
  /\ write'[w].todo = write[w].todo /\ write'[w].val = write[w].val

\* A step that changes no data and no owners: shards may die, and writes may stop being steady.
LEMMA Frame ==
  ASSUME DirectInv, DataShape', MovesInOrder', \A k \in Keys : Homes(k)' = Homes(k),
         UNCHANGED <<data, truth, astray>>, dead \subseteq dead',
         \A w \in Writers : SameWrite(w) /\ (write'[w].steady => write[w].steady /\ Stable')
  PROVE  DirectInv'
PROOF
  <1>1. \A w \in Writers : HasValue(w)' <=> HasValue(w)
    BY DEF SameWrite, HasValue
  <1>2. OneWriter'
    BY ZenonT(60) DEF DirectInv, OneWriter, SameWrite
  <1>3. ASSUME NEW k \in Keys PROVE KeyInv(k)'
    <2>1. Storing(k)' <=> Storing(k)
      BY <1>1 DEF Storing, SameWrite
    <2>2. \A n : Rest(n, k)' = Rest(n, k)
      BY DEF Rest
    <2>3. Settled(k) => Settled(k)'
      BY <2>2 DEF Settled
    <2>4. ASSUME NEW w \in Writers, Spreading(w, k) PROVE Spreading(w, k)'
      BY <2>2, <2>4 DEF Spreading, SameWrite
    <2>5. KeyInv(k)
      BY DEF DirectInv
    <2> QED BY <1>1, <2>1, <2>3, <2>4, <2>5 DEF KeyInv, SameWrite
  <1>4. ASSUME NEW w \in Writers PROVE WriteInv(w)'
    <2>1. CASE ~write'[w].steady
      BY <2>1 DEF WriteInv
    <2>2. CASE write'[w].steady
      <3>1. WriteInv(w) /\ write[w].steady /\ Stable'
        BY <2>2 DEF DirectInv
      <3>2. PICK k \in Keys : k = write[w].key /\ k = write'[w].key
        BY <3>1 DEF WriteInv, SameWrite
      <3>3. /\ write[w].todo \in Seq(Nodes) /\ Range(write[w].todo) \subseteq Homes(k)
            /\ ~HasValue(w) => Homes(k) \subseteq Range(write[w].todo)
        BY <3>1, <3>2 DEF WriteInv
      <3>4. Homes(k)' = Homes(k)
        OBVIOUS
      <3> QED BY <1>1, <3>1, <3>2, <3>3, <3>4 DEF WriteInv, SameWrite
    <2> QED BY <2>1, <2>2
  <1> QED BY <1>2, <1>3, <1>4 DEF DirectInv, Flat

\* The initial cluster holds every object on its owners, and nobody writes.
LEMMA DirectInvInit ==
  ASSUME Flat, Init
  PROVE  DirectInv
PROOF
  <1>1. DataShape /\ mig.moved = {} /\ mig.pc = "idle"
    BY SMT, SmartClientAssumption DEF Init, DataShape, Migs, Flat, IdleMig, IdleWrite, WriteFields
  <1>2. MovesInOrder
    BY <1>1 DEF MovesInOrder
  <1>3. \A w \in Writers : write[w].pc = "idle" /\ ~write[w].steady
    BY SMT DEF Init, IdleWrite
  <1>4. OneWriter /\ (\A w \in Writers : WriteInv(w)) /\ \A w \in Writers : ~HasValue(w)
    BY <1>3 DEF OneWriter, WriteInv, HasValue
  <1>5. ASSUME NEW k \in Keys PROVE Settled(k)
    <2>1. ASSUME NEW n \in Nodes PROVE data[n][k] = IF n \in Range(owners(k)) THEN truth[k] ELSE Absent
      BY DEF Init
    <2> QED BY <2>1 DEF Settled, Rest, Homes
  <1> QED BY <1>1, <1>2, <1>4, <1>5 DEF DirectInv, KeyInv

\* A step that ends the stability leaves no write steady.
LEMMA Unsettled ==
  ASSUME DataShape, Unsettle
  PROVE  /\ DOMAIN write' = Writers
         /\ \A w \in Writers : /\ SameWrite(w) /\ ~write'[w].steady /\ DOMAIN write'[w] = WriteFields
                               /\ write'[w].pc # "idle" => write'[w].key \in Keys
PROOF
  <1>1. DOMAIN write' = Writers
    BY DEF Unsettle
  <1>2. ASSUME NEW w \in Writers
        PROVE  SameWrite(w) /\ ~write'[w].steady /\ DOMAIN write'[w] = WriteFields
    <2>1. write'[w] = [write[w] EXCEPT !.steady = FALSE] /\ DOMAIN write[w] = WriteFields
      BY DEF Unsettle, DataShape
    <2> QED BY SMT, <2>1 DEF SameWrite, WriteFields
  <1> QED BY <1>1, <1>2 DEF DataShape, SameWrite

\* Steps that touch neither the data nor the owners, the writes or the view.
LEMMA SameView ==
  ASSUME DirectInv, UNCHANGED <<partitioner, clients, mig, data, dead, write, history>>,
         DOMAIN view' = DOMAIN view, view'.members = view.members, view'.clients = view.clients
  PROVE  DirectInv'
PROOF
  <1>1. DataShape' /\ MovesInOrder'
    BY DEF DirectInv, DataShape, MovesInOrder, history
  <1>2. (\A k \in Keys : Homes(k)' = Homes(k)) /\ UNCHANGED <<data, truth, astray>> /\ dead \subseteq dead'
    BY DEF Homes, owners, history
  <1>3. Stable => Stable'
    BY DEF Stable, Quiet, InStep
  <1>4. \A w \in Writers : SameWrite(w) /\ (write'[w].steady => write[w].steady /\ Stable')
    BY <1>3 DEF DirectInv, WriteInv, SameWrite
  <1> QED BY <1>1, <1>2, <1>4, Frame

\* The coordinator's steps other than the moves and the commit of a new partitioner.
LEMMA QuietControl ==
  ASSUME DirectInv,
         \/ \E n \in Nodes : add_node(n) \/ NodeDies(n)
         \/ \E new \in Targets : Rebalance(new)
         \/ CommitEpoch \/ CommitClients \/ Restart
  PROVE  DirectInv'
PROOF
  <1> USE DEF history, env, cluster, calls
  <1>0. DataShape /\ MovesInOrder /\ Flat
    BY DEF DirectInv
  <1>1. ASSUME NEW n \in Nodes, add_node(n) PROVE DirectInv'
    <2>1. UNCHANGED <<partitioner, mig, data, dead, view, truth, astray>> /\ Unsettle
      BY <1>1 DEF add_node
    <2>2. DataShape' /\ MovesInOrder'
      BY <1>0, <2>1, Unsettled DEF DataShape, MovesInOrder
    <2>3. \A k \in Keys : Homes(k)' = Homes(k)
      BY <2>1 DEF Homes, owners
    <2> QED BY <1>0, <2>1, <2>2, <2>3, Unsettled, Frame
  <1>2. ASSUME NEW n \in Nodes, NodeDies(n) PROVE DirectInv'
    <2>1. /\ UNCHANGED <<partitioner, clients, mig, data, view, write, truth, astray>>
          /\ dead' = dead \cup {n} /\ mig.pc = "idle"
      BY <1>2 DEF NodeDies
    <2>2. DataShape' /\ MovesInOrder'
      BY <1>0, <2>1 DEF DataShape, MovesInOrder
    <2>3. (\A k \in Keys : Homes(k)' = Homes(k)) /\ (Stable => Stable') /\ dead \subseteq dead'
      BY <2>1 DEF Homes, owners, Stable, Quiet, InStep
    <2>4. \A w \in Writers : SameWrite(w) /\ (write'[w].steady => write[w].steady /\ Stable')
      BY <2>1, <2>3 DEF DirectInv, WriteInv, SameWrite
    <2> QED BY <2>1, <2>2, <2>3, <2>4, Frame
  <1>3. ASSUME NEW new \in Targets, Rebalance(new) PROVE DirectInv'
    <2>1. /\ UNCHANGED <<partitioner, data, dead, view, truth, astray>> /\ Unsettle
          /\ mig.pc = "idle" /\ dead = {}
          /\ mig' = [IdleMig EXCEPT !.pc = "moving", !.new = new, !.todo = Moved(partitioner, new, ReplTarget)]
      BY <1>3 DEF Rebalance
    <2>2. new \in SUBSET Nodes /\ new # {} /\ Moved(partitioner, new, ReplTarget) \subseteq Buckets
      BY <1>0, SmartClientAssumption DEF Flat, Moved
    <2>3. DataShape' /\ mig'.pc = "moving" /\ mig'.new = new /\ mig'.moved = {}
          /\ mig'.todo = Moved(partitioner, new, ReplTarget)
      <3>1. PICK todo \in SUBSET Buckets :
              /\ todo = Moved(partitioner, new, ReplTarget)
              /\ mig' = [IdleMig EXCEPT !.pc = "moving", !.new = new, !.todo = todo]
        BY <2>1, <2>2
      <3>2. /\ mig'.pc = "moving" /\ mig'.new = new /\ mig'.moved = {} /\ mig'.todo = todo
            /\ mig' \in Migs
        <4>1. mig' = [pc |-> "moving", new |-> new, todo |-> todo, moved |-> {}] /\ new \in SUBSET Nodes
          BY <2>2, <3>1 DEF IdleMig
        <4> QED BY SMT, <4>1 DEF Migs
      <3> QED BY <1>0, <2>1, <3>1, <3>2, Unsettled DEF DataShape
    <2>4. MovesInOrder'
      BY <2>1, <2>2, <2>3 DEF MovesInOrder
    <2>5. \A k \in Keys : Homes(k)' = Homes(k)
      BY <1>0, <2>1, <2>3 DEF Homes, owners, MovesInOrder
    <2> QED BY <1>0, <2>1, <2>3, <2>4, <2>5, Unsettled, Frame
  <1>4. ASSUME CommitEpoch \/ CommitClients PROVE DirectInv'
    <2>1. /\ UNCHANGED <<partitioner, data, dead, view, write, truth, astray>> /\ mig.pc # "idle"
          /\ \/ mig.pc = "moving" /\ mig.todo = {} /\ mig' = [mig EXCEPT !.pc = "nodes"]
             \/ mig.pc = "clients" /\ mig' = IdleMig
      BY <1>4 DEF CommitEpoch, CommitClients
    <2>2. /\ \/ /\ mig.pc = "moving" /\ mig.todo = {} /\ mig'.pc = "nodes" /\ mig'.new = mig.new
                /\ mig'.todo = {} /\ mig'.moved = mig.moved
             \/ mig.pc = "clients" /\ mig'.pc = "idle" /\ mig'.moved = {}
          /\ mig' \in Migs
      BY SMT, <1>0, <2>1 DEF DataShape, Migs, IdleMig
    <2>3. DataShape'
      BY <1>0, <2>1, <2>2 DEF DataShape
    <2>4. MovesInOrder'
      BY <1>0, <2>1, <2>2 DEF MovesInOrder
    <2>5. \A k \in Keys : Homes(k)' = Homes(k)
      BY <1>0, <2>1, <2>2 DEF Homes, owners, MovesInOrder
    <2>6. \A w \in Writers : SameWrite(w) /\ ~write'[w].steady
      BY <2>1 DEF DirectInv, WriteInv, SameWrite, Stable, Quiet
    <2> QED BY <2>1, <2>3, <2>4, <2>5, <2>6, Frame
  <1>5. ASSUME Restart PROVE DirectInv'
    <2>1. UNCHANGED <<partitioner, mig, data, dead, view, write, truth, astray>> /\ clients' = partitioner
      BY <1>5 DEF Restart
    <2>2. DataShape' /\ MovesInOrder'
      BY <1>0, <2>1 DEF DataShape, MovesInOrder
    <2>3. (\A k \in Keys : Homes(k)' = Homes(k)) /\ (Stable => Stable') /\ dead \subseteq dead'
      BY <2>1 DEF Homes, owners, Stable, Quiet, InStep
    <2>4. \A w \in Writers : SameWrite(w) /\ (write'[w].steady => write[w].steady /\ Stable')
      BY <2>1, <2>3 DEF DirectInv, WriteInv, SameWrite
    <2> QED BY <2>1, <2>2, <2>3, <2>4, Frame
  <1> QED BY <1>1, <1>2, <1>3, <1>4, <1>5

\* The plan of a bucket: the first owner copies to every new one, and the former ones drop.
LEMMA PlanIs ==
  ASSUME Flat, NEW b \in Buckets, NEW old \in SUBSET Nodes, old # {}, NEW new \in SUBSET Nodes, new # {}
  PROVE  LET was == Range(Top(b, old))
             is == Range(Top(b, new))
             from == Head(Top(b, old))
         IN  /\ from \in was /\ was \subseteq Nodes /\ is \subseteq Nodes
             /\ \A p \in Copies(b, old, new, ReplTarget) : p[1] = from /\ p[2] \in is \ was
             /\ \A n \in is \ was : \E p \in Copies(b, old, new, ReplTarget) : p[2] = n
             /\ Drops(b, old, new, ReplTarget) = was \ is
PROOF
  <1> DEFINE was == Range(Top(b, old))
             is == Range(Top(b, new))
             from == Head(Top(b, old))
  <1>1. /\ OldOwners(b, old, ReplTarget) = Top(b, old) /\ from \in was /\ was \subseteq old
        /\ Top(b, old) \in Seq(old) /\ Len(Top(b, old)) \in Nat \ {0}
    BY OwnersAreTop
  <1>2. NewOwners(b, new, ReplTarget) = Top(b, new) /\ is \subseteq new
    BY OwnersAreTop
  <1>3. Top(b, old) # <<>>
    BY SMT, <1>1
  <1>4. Copies(b, old, new, ReplTarget) = {p \in Nodes \X Nodes : p[1] = from /\ p[2] \in is \ was}
    BY <1>1, <1>2, <1>3 DEF Copies
  <1>5. from \in Nodes /\ is \ was \subseteq Nodes
    BY <1>1, <1>2
  <1> HIDE DEF was, is, from
  <1>6. ASSUME NEW n \in is \ was PROVE \E p \in Copies(b, old, new, ReplTarget) : p[2] = n
    <2>1. <<from, n>> \in Nodes \X Nodes /\ <<from, n>>[1] = from /\ <<from, n>>[2] = n
      BY SMT, <1>5
    <2> QED BY <1>4, <2>1
  <1>7. Drops(b, old, new, ReplTarget) = was \ is
    BY <1>1, <1>2 DEF Drops, was, is
  <1> QED BY <1>1, <1>2, <1>4, <1>6, <1>7 DEF was, is, from

\* The partitioner is replaced when every bucket of the plan has moved; the others have
\* the owners they had.
LEMMA NodesCommitted ==
  ASSUME DirectInv, CommitNodes
  PROVE  DirectInv'
PROOF
  <1>0. DataShape /\ MovesInOrder /\ Flat
    BY DEF DirectInv
  <1>1. /\ UNCHANGED <<data, dead, view, write, truth, astray>> /\ mig.pc = "nodes"
        /\ partitioner' = mig.new /\ mig' = [mig EXCEPT !.pc = "clients", !.moved = {}]
    BY DEF CommitNodes, env, calls, history
  <1>2. /\ mig'.pc = "clients" /\ mig'.new = mig.new /\ mig'.moved = {}
        /\ mig' \in Migs /\ mig.new \in SUBSET Nodes
    <2>1. mig \in Migs /\ mig' = [mig EXCEPT !.pc = "clients", !.moved = {}]
      BY <1>0, <1>1 DEF DataShape
    <2> QED BY <2>1 DEF Migs
  <1>3. /\ mig.new # {} /\ partitioner \in SUBSET Nodes /\ partitioner # {} /\ dead = {}
        /\ mig.moved = Moved(partitioner, mig.new, ReplTarget)
    BY <1>0, <1>1 DEF DataShape, MovesInOrder
  <1>4. DataShape' /\ MovesInOrder'
    BY <1>0, <1>1, <1>2, <1>3 DEF DataShape, MovesInOrder
  <1>5. ASSUME NEW k \in Keys PROVE Homes(k)' = Homes(k)
    <2> DEFINE b == bucket_of[k]
    <2>1. b \in Buckets /\ owners(k) = IF b \in mig.moved THEN Top(b, mig.new) ELSE Top(b, partitioner)
      BY <1>0, HomesAre
    <2>2. owners(k)' = Top(b, mig.new)
      <3>1. OldOwners(b, mig.new, ReplTarget) = Top(b, mig.new)
        BY <1>0, <1>2, <1>3, <2>1, OwnersAreTop
      <3> QED BY <1>1, <1>2, <3>1 DEF owners
    <2>3. CASE b \in mig.moved
      BY <2>1, <2>2, <2>3 DEF Homes
    <2>4. CASE b \notin mig.moved
      <3>1. Copies(b, partitioner, mig.new, ReplTarget) = {} /\ Drops(b, partitioner, mig.new, ReplTarget) = {}
        BY <1>3, <2>1, <2>4 DEF Moved
      <3> DEFINE was == Range(Top(b, partitioner))
                 is == Range(Top(b, mig.new))
      <3>2. /\ \A n \in is \ was : \E p \in Copies(b, partitioner, mig.new, ReplTarget) : p[2] = n
            /\ Drops(b, partitioner, mig.new, ReplTarget) = was \ is
        <4>1. /\ b \in Buckets /\ partitioner \in SUBSET Nodes /\ partitioner # {}
              /\ mig.new \in SUBSET Nodes /\ mig.new # {} /\ Flat
          BY <1>0, <1>2, <1>3, <2>1
        <4> HIDE DEF b
        <4> QED BY <4>1, PlanIs
      <3>3. was = is
        <4> HIDE DEF was, is
        <4> QED BY <3>1, <3>2
      <3> QED BY <2>1, <2>2, <2>4, <3>3 DEF Homes
    <2> QED BY <2>3, <2>4
  <1>6. \A w \in Writers : SameWrite(w) /\ ~write'[w].steady
    BY <1>1 DEF DirectInv, WriteInv, SameWrite, Stable, Quiet
  <1> QED BY <1>1, <1>4, <1>5, <1>6, Frame

\* A bucket moves with what its owners have: a value that is being written may be on any
\* of them, but a node never gets or keeps anything else.
LEMMA BucketMoved ==
  ASSUME DirectInv, NEW b \in Buckets, MoveBucket(b)
  PROVE  DirectInv'
PROOF
  <1> DEFINE copies == Copies(b, partitioner, mig.new, ReplTarget)
             drops == Drops(b, partitioner, mig.new, ReplTarget)
             was == Range(Top(b, partitioner))
             is == Range(Top(b, mig.new))
             from == Head(Top(b, partitioner))
             moved(n, k) == IF n \in drops THEN Absent
                            ELSE IF \E p \in copies : p[2] = n /\ data[p[1]][k] # Absent
                            THEN data[(CHOOSE p \in copies : p[2] = n)[1]][k]
                            ELSE data[n][k]
  <1>0. DataShape /\ MovesInOrder /\ Flat
    BY DEF DirectInv
  <1>1. /\ UNCHANGED <<partitioner, clients, dead, view, write, truth, astray>>
        /\ mig.pc = "moving" /\ b \in mig.todo /\ mig' = [mig EXCEPT !.todo = @ \ {b}, !.moved = @ \cup {b}]
        /\ data' = [n \in Nodes |-> [k \in Keys |-> IF bucket_of[k] = b THEN moved(n, k) ELSE data[n][k]]]
    BY DEF MoveBucket, env, calls, history
  <1> HIDE DEF moved
  <1>2. /\ mig'.pc = mig.pc /\ mig'.new = mig.new /\ mig'.todo = mig.todo \ {b}
        /\ mig'.moved = mig.moved \cup {b} /\ mig' \in Migs /\ mig.new \in SUBSET Nodes
    <2>1. mig \in Migs /\ mig' = [mig EXCEPT !.todo = @ \ {b}, !.moved = @ \cup {b}]
      BY <1>0, <1>1 DEF DataShape
    <2> QED BY <2>1 DEF Migs
  <1>3. /\ partitioner \in SUBSET Nodes /\ partitioner # {} /\ mig.new \in SUBSET Nodes /\ mig.new # {}
        /\ dead = {} /\ b \notin mig.moved
    BY <1>0, <1>1, <1>2 DEF DataShape, MovesInOrder
  <1>4. DataShape' /\ MovesInOrder'
    <2>1. DOMAIN data' = Nodes /\ \A n \in Nodes : DOMAIN data'[n] = Keys
      BY <1>1
    <2>2. DataShape'
      BY <1>0, <1>1, <1>2, <2>1 DEF DataShape
    <2>3. MovesInOrder'
      BY <1>0, <1>1, <1>2, <1>3 DEF MovesInOrder
    <2> QED BY <2>2, <2>3
  <1>5. /\ from \in was /\ was \subseteq Nodes /\ is \subseteq Nodes
        /\ \A p \in copies : p[1] = from /\ p[2] \in is \ was
        /\ \A n \in is \ was : \E p \in copies : p[2] = n
        /\ drops = was \ is
    <2> HIDE DEF was, is, from, copies, drops
    <2> QED BY <1>0, <1>3, PlanIs DEF was, is, from, copies, drops
  <1>6. \A w \in Writers : ~write[w].steady
    BY <1>1 DEF DirectInv, WriteInv, Stable, Quiet
  <1>7. ASSUME NEW k \in Keys, bucket_of[k] = b PROVE Homes(k) = was /\ Homes(k)' = is
    <2>1. OldOwners(b, partitioner, ReplTarget) = Top(b, partitioner)
      BY <1>0, <1>3, OwnersAreTop
    <2>2. NewOwners(b, mig.new, ReplTarget) = Top(b, mig.new)
      BY <1>0, <1>3, OwnersAreTop
    <2>3. owners(k) = Top(b, partitioner) /\ owners(k)' = Top(b, mig.new)
      BY <1>2, <1>3, <1>7, <2>1, <2>2 DEF owners
    <2> QED BY <2>3 DEF Homes
  <1> HIDE DEF was, is, from, copies, drops
  \* what any node has afterwards
  <1>8. ASSUME NEW k \in Keys, NEW V, \A n \in Nodes : data[n][k] \in V \cup {Rest(n, k)}, NEW n \in Nodes
        PROVE  data'[n][k] \in V \cup {Rest(n, k)'}
    <2>1. CASE bucket_of[k] # b
      <3>1. data'[n][k] = data[n][k]
        BY <1>1, <2>1
      <3>2. Rest(n, k)' = Rest(n, k)
        BY <1>1, <1>2, <2>1 DEF Rest, Homes, owners
      <3> QED BY <1>8, <3>1, <3>2
    <2>2. CASE bucket_of[k] = b
      <3>1. data'[n][k] = moved(n, k)
        BY <1>1, <2>2
      <3>2. Rest(n, k) = (IF n \in was THEN truth[k] ELSE Absent) /\ Rest(from, k) = truth[k]
        BY <1>5, <1>7, <2>2 DEF Rest
      <3>3. Rest(n, k)' = IF n \in is THEN truth[k] ELSE Absent
        BY <1>1, <1>7, <2>2 DEF Rest
      <3>4. data[from][k] \in V \cup {truth[k]} /\ data[n][k] \in V \cup {Rest(n, k)}
        BY <1>5, <1>8, <3>2
      <3>5. CASE n \in was \ is
        BY <1>5, <3>1, <3>3, <3>5 DEF moved
      <3>6. CASE n \in is \ was
        <4>1. (CHOOSE p \in copies : p[2] = n)[1] = from
          BY <1>5, <3>6
        <4>2. n \notin drops /\ ((\E p \in copies : p[2] = n /\ data[p[1]][k] # Absent) => data[from][k] # Absent)
          BY <1>5, <3>6
        <4>3. data[from][k] # Absent => \E p \in copies : p[2] = n /\ data[p[1]][k] # Absent
          BY <1>5, <3>6
        <4>4. moved(n, k) = IF data[from][k] # Absent THEN data[from][k] ELSE data[n][k]
          BY <4>1, <4>2, <4>3 DEF moved
        <4> QED BY <3>1, <3>2, <3>3, <3>4, <3>6, <4>4
      <3>7. CASE n \notin was \ is /\ n \notin is \ was
        <4>1. moved(n, k) = data[n][k]
          BY <1>5, <3>7 DEF moved
        <4> QED BY <3>1, <3>2, <3>3, <3>4, <3>7, <4>1
      <3> QED BY <3>5, <3>6, <3>7
    <2> QED BY <2>1, <2>2
  <1>9. ASSUME NEW k \in Keys PROVE KeyInv(k)'
    <2>1. KeyInv(k) /\ (Storing(k)' <=> Storing(k)) /\ \A w \in Writers : HasValue(w)' <=> HasValue(w)
      BY <1>1 DEF DirectInv, Storing, HasValue
    <2>2. ASSUME Settled(k) PROVE Settled(k)'
      <3>1. \A n \in Nodes : data[n][k] \in {} \cup {Rest(n, k)}
        BY <1>3, <2>2 DEF Settled
      <3>2. \A n \in Nodes : data'[n][k] \in {} \cup {Rest(n, k)'}
        BY <1>8, <3>1
      <3> QED BY <3>2 DEF Settled
    <2>3. ASSUME NEW w \in Writers, Spreading(w, k) PROVE Spreading(w, k)'
      <3>1. \A n \in Nodes : data[n][k] \in {write[w].val} \cup {Rest(n, k)}
        BY <1>3, <2>3 DEF Spreading
      <3>2. \A n \in Nodes : data'[n][k] \in {write[w].val} \cup {Rest(n, k)'}
        BY <1>8, <3>1
      <3> QED BY <1>1, <1>6, <3>2 DEF Spreading
    <2> QED BY <1>1, <2>1, <2>2, <2>3 DEF KeyInv
  <1>10. OneWriter' /\ \A w \in Writers : WriteInv(w)'
    BY <1>1, <1>6 DEF DirectInv, OneWriter, WriteInv
  <1> QED BY <1>4, <1>9, <1>10 DEF DirectInv, Flat

\* A step of one write: what the others are about stays as it is.
LEMMA OtherWrites ==
  ASSUME DirectInv, DataShape', MovesInOrder', NEW w \in Writers, NEW key \in Keys,
         \A k \in Keys : Homes(k)' = Homes(k), dead' = dead, Stable => Stable',
         \A x \in Writers \ {w} : write'[x] = write[x],
         \A n \in Nodes, k \in Keys \ {key} : data'[n][k] = data[n][k],
         \A k \in Keys \ {key} : truth'[k] = truth[k], astray' \ {key} = astray \ {key},
         write[w].pc # "idle" => write[w].key = key,
         write'[w].pc # "idle" => write'[w].key = key,
         write[w].pc = "idle" => ~Writing(key),
         KeyInv(key)', WriteInv(w)'
  PROVE  DirectInv'
PROOF
  <1>1. OneWriter'
    <2>1. \A x \in Writers : write[x].pc # "idle" /\ write[x].key = key => x = w
      BY DEF DirectInv, OneWriter, Writing
    <2>2. ASSUME NEW x \in Writers, NEW y \in Writers, write'[x].pc # "idle", write'[y].pc # "idle",
                 write'[x].key = write'[y].key
          PROVE  x = y
      BY ZenonT(60), <2>1, <2>2 DEF DirectInv, OneWriter
    <2> QED BY <2>2 DEF OneWriter
  <1>2. ASSUME NEW k \in Keys \ {key} PROVE KeyInv(k)'
    <2>1. \A x \in Writers : (HasValue(x) /\ write[x].key = k)' <=> HasValue(x) /\ write[x].key = k
      BY <1>2 DEF HasValue
    <2>2. \A x \in Writers : HasValue(x) /\ write[x].key = k => x # w
      BY <1>2 DEF HasValue
    <2>3. Storing(k)' <=> Storing(k)
      BY <2>1 DEF Storing
    <2>4. \A n : Rest(n, k)' = Rest(n, k)
      BY DEF Rest
    <2>5. Settled(k) => Settled(k)'
      BY <2>4 DEF Settled
    <2>6. ASSUME NEW x \in Writers \ {w}, Spreading(x, k) PROVE Spreading(x, k)'
      BY <2>4, <2>6 DEF Spreading
    <2>7. KeyInv(k) /\ (k \in astray' <=> k \in astray)
      BY DEF DirectInv
    <2> QED BY <2>1, <2>2, <2>3, <2>5, <2>6, <2>7 DEF KeyInv
  <1>3. ASSUME NEW x \in Writers \ {w} PROVE WriteInv(x)'
    <2>1. WriteInv(x) /\ (HasValue(x)' <=> HasValue(x))
      BY DEF DirectInv, HasValue
    <2>2. CASE ~write[x].steady
      BY <2>2 DEF WriteInv
    <2>3. CASE write[x].steady
      <3>1. PICK k \in Keys : k = write[x].key /\ k = write'[x].key
        BY <2>1, <2>3 DEF WriteInv
      <3>2. /\ Stable /\ write[x].todo \in Seq(Nodes) /\ Range(write[x].todo) \subseteq Homes(k)
            /\ ~HasValue(x) => Homes(k) \subseteq Range(write[x].todo)
        BY <2>1, <2>3, <3>1 DEF WriteInv
      <3> QED BY ZenonT(60), <2>1, <3>1, <3>2 DEF WriteInv
    <2> QED BY <2>2, <2>3
  <1> QED BY <1>1, <1>2, <1>3 DEF DirectInv, Flat

\* Where the membership and the view stay, so do the owners and the stability.
LEMMA SameRouting ==
  ASSUME UNCHANGED <<cluster, view, dead>>
  PROVE  /\ \A k : Homes(k)' = Homes(k)
         /\ Stable' <=> Stable
         /\ MovesInOrder => MovesInOrder'
  BY DEF cluster, Homes, owners, Stable, Quiet, InStep, MovesInOrder

\* A write begins: its key is settled, and if the membership is stable it is to call the owners.
LEMMA WriteBegun ==
  ASSUME DirectInv, NEW w \in Writers, NEW kind, NEW k \in Keys, NEW arg, BeginWrite(w, kind, k, arg)
  PROVE  DirectInv'
PROOF
  <1>0. DataShape /\ MovesInOrder /\ Flat /\ KeyInv(k)
    BY DEF DirectInv
  <1>1. /\ UNCHANGED <<cluster, data, dead, view, truth, astray>> /\ write[w].pc = "idle" /\ ~Writing(k)
        /\ write' = [write EXCEPT ![w] = [pc |-> "call", kind |-> kind, key |-> k, todo |-> route(k),
                                          val |-> arg[1], expect |-> arg[2], steady |-> Stable]]
    BY DEF BeginWrite, history
  <1>2. /\ write'[w] = [pc |-> "call", kind |-> kind, key |-> k, todo |-> route(k),
                        val |-> arg[1], expect |-> arg[2], steady |-> Stable]
        /\ DOMAIN write' = Writers /\ \A x \in Writers \ {w} : write'[x] = write[x]
    BY ZenonT(60), <1>0, <1>1 DEF DataShape
  <1>3. /\ write'[w].pc = "call" /\ write'[w].key = k /\ write'[w].todo = route(k)
        /\ write'[w].steady = Stable /\ DOMAIN write'[w] = WriteFields
    BY SMT, <1>2 DEF WriteFields
  <1>4. (\A l : Homes(l)' = Homes(l)) /\ (Stable' <=> Stable) /\ MovesInOrder'
    BY <1>0, <1>1, SameRouting
  <1>5. DataShape'
    BY <1>0, <1>1, <1>2, <1>3 DEF DataShape, cluster
  <1>6. owners(k) \in Seq(Nodes) /\ (Stable => route(k) = owners(k))
    BY <1>0, HomesAre
  <1>7. write'[w].steady => Stable' /\ write'[w].todo \in Seq(Nodes) /\ Range(write'[w].todo) = Homes(k)
    BY <1>3, <1>4, <1>6 DEF Homes
  <1>8. WriteInv(w)'
    BY <1>3, <1>4, <1>7 DEF WriteInv
  <1>9. KeyInv(k)'
    <2>1. ~Storing(k) /\ \A x \in Writers \ {w} : ~(HasValue(x) /\ write[x].key = k)'
      BY <1>1, <1>2 DEF Storing, Writing, HasValue
    <2>2. \A n : Rest(n, k)' = Rest(n, k)
      BY <1>1, <1>4 DEF Rest
    <2>3. ASSUME Settled(k) PROVE Settled(k)' /\ Spreading(w, k)'
      <3>1. Settled(k)'
        BY <1>1, <2>2, <2>3 DEF Settled
      <3>2. ASSUME NEW n \in Nodes \ dead
            PROVE  /\ data[n][k] = Rest(n, k) /\ (n \notin Homes(k) => data[n][k] = Absent)
                   /\ write'[w].steady => n \notin Homes(k) \ Range(write'[w].todo)
        BY <1>7, <2>3 DEF Settled, Rest
      <3> QED BY <1>1, <1>4, <2>2, <3>1, <3>2 DEF Spreading
    <2> QED BY <1>0, <1>1, <2>1, <2>3 DEF KeyInv
  <1> QED BY <1>1, <1>2, <1>3, <1>4, <1>5, <1>8, <1>9, OtherWrites

\* A call of a write that has a value stores it, on an owner if the write is steady.
LEMMA ValueStored ==
  ASSUME DirectInv, NEW w \in Writers, HasValue(w), write[w].todo # <<>>,
         data' = IF Answers(Head(write[w].todo))
                 THEN [data EXCEPT ![Head(write[w].todo)][write[w].key] = write[w].val] ELSE data,
         write' = [write EXCEPT ![w].todo = Tail(@)], UNCHANGED <<cluster, view, dead, truth, astray>>
  PROVE  DirectInv'
PROOF
  <1> DEFINE todo == write[w].todo
  <1>0. DataShape /\ MovesInOrder /\ Flat /\ WriteInv(w)
    BY DEF DirectInv
  <1>1. PICK k \in Keys : k = write[w].key /\ KeyInv(k)
    BY <1>0 DEF DataShape, HasValue, DirectInv
  <1>2. /\ write'[w] = [write[w] EXCEPT !.todo = Tail(@)] /\ DOMAIN write[w] = WriteFields
        /\ DOMAIN write' = Writers /\ \A x \in Writers \ {w} : write'[x] = write[x]
    BY <1>0 DEF DataShape
  <1>3. /\ write'[w].pc = write[w].pc /\ write'[w].key = k /\ write'[w].todo = Tail(todo)
        /\ write'[w].steady = write[w].steady /\ write'[w].val = write[w].val
        /\ write'[w].kind = write[w].kind /\ DOMAIN write'[w] = WriteFields
    BY <1>1, <1>2 DEF WriteFields
  <1>4. (\A l : Homes(l)' = Homes(l)) /\ (Stable' <=> Stable) /\ MovesInOrder'
    BY <1>0, SameRouting
  <1>5. /\ DOMAIN data' = Nodes /\ \A n \in Nodes : DOMAIN data'[n] = Keys
        /\ \A n \in Nodes, l \in Keys :
             data'[n][l] = IF Answers(Head(todo)) /\ n = Head(todo) /\ l = k THEN write[w].val ELSE data[n][l]
    BY <1>0, <1>1 DEF DataShape
  <1>6. DataShape'
    BY <1>0, <1>1, <1>2, <1>3, <1>5 DEF DataShape, cluster
  <1>7. ASSUME write[w].steady
        PROVE  /\ Stable /\ Tail(todo) \in Seq(Nodes) /\ Range(todo) \subseteq Homes(k)
               /\ Range(todo) = {Head(todo)} \cup Range(Tail(todo))
               /\ Head(todo) \in dead \/ Answers(Head(todo))
    <2>1. Stable /\ todo \in Seq(Nodes) /\ Range(todo) \subseteq Homes(k)
      BY <1>0, <1>1, <1>7 DEF WriteInv
    <2>2. Tail(todo) \in Seq(Nodes) /\ Range(todo) = {Head(todo)} \cup Range(Tail(todo))
      BY <2>1, Queue
    <2>3. Homes(k) \subseteq view.clients
      BY <1>0, <2>1, HomesAre
    <2> QED BY <2>1, <2>2, <2>3 DEF Answers
  <1> HIDE DEF todo
  <1>8. HasValue(w)' /\ WriteInv(w)'
    <2>1. HasValue(w)'
      BY <1>3 DEF HasValue
    <2> QED BY <1>3, <1>4, <1>7, <2>1 DEF WriteInv
  <1>9. KeyInv(k)'
    <2>1. ASSUME NEW x \in Writers, (HasValue(x) /\ write[x].key = k)' PROVE x = w
      BY ZenonT(60), <1>1, <1>2, <2>1 DEF DirectInv, OneWriter, HasValue
    <2>2. \A n : Rest(n, k)' = Rest(n, k)
      BY <1>4 DEF Rest
    <2>3. Storing(k)'
      BY <1>3, <1>8 DEF Storing
    <2>4. ASSUME Spreading(w, k) PROVE Spreading(w, k)'
      <3>1. ASSUME NEW n \in Nodes \ dead
            PROVE  /\ data'[n][k] \in {write[w].val, Rest(n, k)}
                   /\ write[w].steady =>
                        /\ n \in Homes(k) \ Range(Tail(todo)) => data'[n][k] = write[w].val
                        /\ n \notin Homes(k) => data'[n][k] = Absent
        <4>1. /\ data[n][k] \in {write[w].val, Rest(n, k)}
              /\ write[w].steady =>
                   /\ n \in Homes(k) \ Range(todo) => data[n][k] = write[w].val
                   /\ n \notin Homes(k) => data[n][k] = Absent
          BY <2>4 DEF Spreading, todo
        <4> QED BY <1>5, <1>7, <4>1
      <3> QED BY <1>3, <1>4, <2>2, <3>1 DEF Spreading
    <2> QED BY <1>1, <2>1, <2>3, <2>4 DEF KeyInv
  <1>10. write[w].pc # "idle" /\ \A n \in Nodes, l \in Keys \ {k} : data'[n][l] = data[n][l]
    BY ZenonT(60), <1>5 DEF HasValue
  <1> QED BY <1>1, <1>2, <1>3, <1>4, <1>6, <1>8, <1>9, <1>10, OtherWrites

\* cas and incr take the value they find on the primary, and are spread from there.
LEMMA PrimaryModified ==
  ASSUME DirectInv, NEW w \in Writers, RmwPrimary(w)
  PROVE  DirectInv'
PROOF
  <1> DEFINE todo == write[w].todo
             n == Head(todo)
  <1>0. DataShape /\ MovesInOrder /\ Flat /\ WriteInv(w)
    BY DEF DirectInv
  <1>1. UNCHANGED <<cluster, view, dead, truth, astray>> /\ write[w].pc = "call" /\ ~HasValue(w)
    BY DEF RmwPrimary, env, history, HasValue
  <1>2. PICK k \in Keys : k = write[w].key /\ KeyInv(k)
    BY <1>0, <1>1 DEF DataShape, DirectInv
  <1>3. (\A l : Homes(l)' = Homes(l)) /\ (Stable' <=> Stable) /\ MovesInOrder'
    BY <1>0, <1>1, SameRouting
  <1>4. /\ \A x \in Writers : write[x].pc # "idle" /\ write[x].key = k => x = w
        /\ k \notin astray => Settled(k)
    <2>1. \A x \in Writers : write[x].pc # "idle" /\ write[x].key = k => x = w
      BY <1>1, <1>2 DEF DirectInv, OneWriter
    <2>2. ~Storing(k)
      BY <1>1, <2>1 DEF Storing, HasValue
    <2> QED BY <1>2, <2>1, <2>2 DEF KeyInv
  <1>5. \A m : Rest(m, k)' = Rest(m, k)
    BY <1>1, <1>3 DEF Rest
  <1>6. ASSUME write' = [write EXCEPT ![w] = IdleWrite], data' = data PROVE DirectInv'
    <2>1. write'[w] = IdleWrite /\ DOMAIN write' = Writers /\ \A x \in Writers \ {w} : write'[x] = write[x]
      BY ZenonT(60), <1>0, <1>6 DEF DataShape
    <2>2. write'[w].pc = "idle" /\ ~write'[w].steady /\ DOMAIN write'[w] = WriteFields
      BY SMT, <2>1 DEF IdleWrite, WriteFields
    <2>3. DataShape'
      BY <1>0, <1>1, <1>6, <2>1, <2>2 DEF DataShape, cluster
    <2>4. KeyInv(k)' /\ WriteInv(w)'
      <3>1. \A x \in Writers : ~(HasValue(x) /\ write[x].key = k)'
        BY <1>4, <2>1, <2>2 DEF HasValue
      <3>2. Settled(k) => Settled(k)'
        BY <1>1, <1>5, <1>6 DEF Settled
      <3> QED BY <1>1, <1>4, <2>2, <3>1, <3>2 DEF KeyInv, WriteInv
    <2> QED BY <1>1, <1>2, <1>3, <1>6, <2>1, <2>2, <2>3, <2>4, OtherWrites
  <1>7. ASSUME NEW v, todo # <<>>, Answers(n), data' = [data EXCEPT ![n][write[w].key] = v],
               write' = [write EXCEPT ![w].pc = "replicate", ![w].val = v, ![w].todo = Tail(@)]
        PROVE  DirectInv'
    <2>1. /\ write'[w] = [write[w] EXCEPT !.pc = "replicate", !.val = v, !.todo = Tail(@)]
          /\ DOMAIN write' = Writers /\ \A x \in Writers \ {w} : write'[x] = write[x]
          /\ DOMAIN write[w] = WriteFields
      BY <1>0, <1>7 DEF DataShape
    <2>2. /\ write'[w].pc = "replicate" /\ write'[w].key = k /\ write'[w].todo = Tail(todo)
          /\ write'[w].steady = write[w].steady /\ write'[w].val = v /\ DOMAIN write'[w] = WriteFields
      BY <1>2, <2>1 DEF WriteFields
    <2>3. /\ DOMAIN data' = Nodes /\ \A m \in Nodes : DOMAIN data'[m] = Keys
          /\ \A m \in Nodes, l \in Keys : data'[m][l] = IF m = n /\ l = k THEN v ELSE data[m][l]
      BY <1>0, <1>2, <1>7 DEF DataShape
    <2>4. DataShape'
      BY ZenonT(60), <1>0, <1>1, <1>2, <2>1, <2>2, <2>3 DEF DataShape, cluster
    <2>5. ASSUME write[w].steady
          PROVE  /\ Stable /\ Tail(todo) \in Seq(Nodes) /\ Range(todo) = Homes(k)
                 /\ Range(todo) = {n} \cup Range(Tail(todo))
      <3>1. Stable /\ todo \in Seq(Nodes) /\ Range(todo) = Homes(k)
        BY <1>0, <1>1, <1>2, <2>5 DEF WriteInv
      <3> QED BY <1>7, <3>1, Queue
    <2>6. HasValue(w)' /\ WriteInv(w)'
      <3>1. HasValue(w)'
        BY <2>2 DEF HasValue
      <3> HIDE DEF todo, n
      <3> QED BY <1>3, <2>2, <2>5, <3>1 DEF WriteInv
    <2> HIDE DEF todo, n
    <2>7. KeyInv(k)'
      <3>1. ASSUME NEW x \in Writers, (HasValue(x) /\ write[x].key = k)' PROVE x = w
        BY <1>4, <2>1, <3>1 DEF HasValue
      <3>2. Storing(k)'
        BY <2>2, <2>6 DEF Storing
      <3>3. ASSUME Settled(k) PROVE Spreading(w, k)'
        <4>1. ASSUME NEW m \in Nodes \ dead
              PROVE  /\ data'[m][k] \in {v, Rest(m, k)}
                     /\ write[w].steady =>
                          /\ m \in Homes(k) \ Range(Tail(todo)) => data'[m][k] = v
                          /\ m \notin Homes(k) => data'[m][k] = Absent
          <5>1. data[m][k] = Rest(m, k)
            BY <3>3 DEF Settled
          <5> QED BY <2>3, <2>5, <5>1 DEF Rest
        <4> QED BY <1>1, <1>3, <1>5, <2>2, <4>1 DEF Spreading
      <3> QED BY <1>1, <1>4, <3>1, <3>2, <3>3 DEF KeyInv
    <2>8. \A m \in Nodes, l \in Keys \ {k} : data'[m][l] = data[m][l]
      BY <2>3
    <2> QED BY <1>1, <1>2, <1>3, <2>1, <2>2, <2>4, <2>6, <2>7, <2>8, OtherWrites
  <1> QED BY <1>6, <1>7 DEF RmwPrimary

\* A steady write that is done has stored its value on every owner that is alive, and
\* nowhere else.
LEMMA WriteFinished ==
  ASSUME DirectInv, NEW w \in Writers, WriteDone(w)
  PROVE  DirectInv'
PROOF
  <1>0. DataShape /\ MovesInOrder /\ Flat
    BY DEF DirectInv
  <1>1. /\ UNCHANGED <<cluster, data, view, dead>> /\ HasValue(w) /\ write[w].todo = <<>>
        /\ truth' = [truth EXCEPT ![write[w].key] = write[w].val]
        /\ astray' = IF write[w].steady THEN astray ELSE astray \cup {write[w].key}
        /\ write' = [write EXCEPT ![w] = IdleWrite]
    BY DEF WriteDone, env
  <1>2. PICK k \in Keys : k = write[w].key /\ KeyInv(k)
    BY <1>0, <1>1 DEF DataShape, DirectInv, HasValue
  <1>3. (\A l : Homes(l)' = Homes(l)) /\ (Stable' <=> Stable) /\ MovesInOrder'
    BY <1>0, <1>1, SameRouting
  <1>4. write'[w] = IdleWrite /\ DOMAIN write' = Writers /\ \A x \in Writers \ {w} : write'[x] = write[x]
    BY <1>0, <1>1 DEF DataShape
  <1>5. write'[w].pc = "idle" /\ ~write'[w].steady /\ DOMAIN write'[w] = WriteFields
    BY SMT, <1>4 DEF IdleWrite, WriteFields
  <1>6. /\ DOMAIN truth' = Keys /\ truth'[k] = write[w].val /\ \A l \in Keys \ {k} : truth'[l] = truth[l]
        /\ astray' \ {k} = astray \ {k} /\ (k \notin astray' => k \notin astray /\ write[w].steady)
    BY <1>0, <1>1, <1>2 DEF DataShape
  <1>7. DataShape'
    BY <1>0, <1>1, <1>2, <1>4, <1>5, <1>6 DEF DataShape, cluster
  <1>8. KeyInv(k)' /\ WriteInv(w)'
    <2>1. \A x \in Writers : ~(HasValue(x) /\ write[x].key = k)'
      BY ZenonT(60), <1>1, <1>2, <1>4, <1>5 DEF HasValue, DirectInv, OneWriter
    <2>2. ASSUME k \notin astray' PROVE Settled(k)'
      <3>1. Spreading(w, k) /\ write[w].steady
        BY <1>1, <1>2, <1>6, <2>2 DEF KeyInv
      <3>2. Range(write[w].todo) = {}
        BY SMT, <1>1 DEF Range
      <3>3. \A n \in Nodes \ dead : data[n][k] = IF n \in Homes(k) THEN write[w].val ELSE Absent
        BY <3>1, <3>2 DEF Spreading
      <3> QED BY <1>1, <1>3, <1>6, <3>3 DEF Settled, Rest
    <2> QED BY <1>5, <2>1, <2>2 DEF KeyInv, WriteInv
  <1>9. write[w].pc # "idle"
    BY <1>1 DEF HasValue
  <1> QED BY <1>1, <1>2, <1>3, <1>4, <1>5, <1>6, <1>7, <1>8, <1>9, OtherWrites

\* DirectInv is inductive.
LEMMA DirectInvStep ==
  ASSUME DirectInv, [Next]_vars
  PROVE  DirectInv'
PROOF
  <1> USE DEF history, env, cluster, calls
  <1>1. CASE Control
    BY <1>1, QuietControl, NodesCommitted, BucketMoved DEF Control, Committing
  <1>2. ASSUME NEW r \in Refreshers, Refresh(r) \/ PollLost(r) PROVE DirectInv'
    <2>0. DataShape /\ MovesInOrder /\ Flat
      BY DEF DirectInv
    <2>1. CASE PollMembers(r) \/ PollEpoch(r) \/ PollLost(r)
      BY <2>1, SameView DEF PollMembers, PollEpoch, PollLost, Polled
    <2>2. CASE SetEpoch(r)
      <3>1. view' = [view EXCEPT !.epoch = poll[r].epoch]
        BY <2>2 DEF SetEpoch
      <3>2. DOMAIN view' = DOMAIN view /\ view'.members = view.members /\ view'.clients = view.clients
        BY SMT, <2>0, <3>1 DEF DataShape
      <3> QED BY <2>2, <3>2, SameView DEF SetEpoch, Polled
    <2>3. ASSUME Unsettle, UNCHANGED <<partitioner, mig, data, dead, truth, astray>>,
                 DOMAIN view' = DOMAIN view
          PROVE  DirectInv'
      <3>1. DataShape' /\ MovesInOrder'
        BY <2>0, <2>3, Unsettled DEF DataShape, MovesInOrder
      <3>2. \A k \in Keys : Homes(k)' = Homes(k)
        BY <2>3 DEF Homes, owners
      <3> QED BY <2>0, <2>3, <3>1, <3>2, Unsettled, Frame
    <2>4. CASE SetClients(r)
      <3>1. CASE UNCHANGED <<view, calls>>
        BY <2>4, <3>1, SameView DEF SetClients, Polled
      <3>2. CASE view' = [view EXCEPT !.clients = poll[r].members] /\ Unsettle
        BY <2>3, <2>4, <3>2 DEF SetClients, Polled
      <3> QED BY <2>4, <3>1, <3>2 DEF SetClients
    <2>5. CASE SetNodes(r)
      BY <2>3, <2>5 DEF SetNodes, Polled
    <2> QED BY <1>2, <2>1, <2>2, <2>4, <2>5 DEF Refresh
  <1>3. ASSUME UNCHANGED <<cluster, data, dead, view, write, history>> PROVE DirectInv'
    BY <1>3, SameView
  <1>4. ASSUME NEW r \in Readers, Reading(r) PROVE DirectInv'
    BY <1>3, <1>4 DEF Reading, BeginRead, ReadCall, ReadDone
  <1>5. ASSUME NEW s \in Scanners, Scanning(s) PROVE DirectInv'
    BY <1>3, <1>5 DEF Scanning, ScanStart, ScanShard, ScanPage, PartitionPage, RespPage, ScanDone
  <1>6. ASSUME NEW w \in Writers, WriteStep(w) PROVE DirectInv'
    <2>1. CASE BroadcastCall(w)
      BY <2>1, ValueStored DEF BroadcastCall, HasValue
    <2>2. CASE ReplicaCall(w)
      BY <2>2, ValueStored DEF ReplicaCall, HasValue
    <2> QED BY <1>6, <2>1, <2>2, PrimaryModified, WriteFinished DEF WriteStep
  <1>7. CASE UNCHANGED vars
    BY <1>3, <1>7 DEF vars
  <1> QED BY <1>1, <1>2, <1>4, <1>5, <1>6, <1>7, WriteBegun DEF Next

(***************************************************************************)
(* A key that is not being written, and was only ever written under stable *)
(* membership, is the same on all its live owners: the broadcast of put    *)
(* and delete and the primary-then-replicas of cas and incr (smart.rs)     *)
(* leave what the coordinator would have, whatever rebalances move the     *)
(* bucket afterwards and however the polls go.                             *)
(***************************************************************************)
THEOREM DirectWritesReachTheOwners ==
  ASSUME Flat
  PROVE  Spec => []OwnersAgree
PROOF
  <1>1. Init => DirectInv
    BY DirectInvInit
  <1>2. DirectInv /\ [Next]_vars => DirectInv'
    BY DirectInvStep
  <1>3. DirectInv => OwnersAgree
    <2> SUFFICES ASSUME DirectInv, NEW k \in Keys, ~Writing(k), k \notin astray,
                        NEW n \in Range(owners(k)) \ dead
                 PROVE  data[n][k] = truth[k]
      BY DEF OwnersAgree
    <2>1. Settled(k)
      BY DEF DirectInv, KeyInv, Storing, HasValue, Writing
    <2>2. n \in Nodes
      BY HomesAre DEF DirectInv, Homes
    <2> QED BY <2>1, <2>2 DEF Settled, Rest, Homes
  <1> QED BY <1>1, <1>2, <1>3, PTL DEF Spec
-----------------------------------------------------------------------------
(***************************************************************************)
(* Fewer shards fail than have a copy of a key.                            *)
(***************************************************************************)
Lasting ==
  /\ MaxTroubles < ReplTarget
  /\ \A members \in Targets \cup {InitialMembers} : MaxTroubles < Cardinality(members)

AliveInv ==
  /\ partitioner \in Targets \cup {InitialMembers} /\ (mig.pc # "idle" => mig.new \in Targets)
  /\ troubles \in Nat /\ Cardinality(dead) <= troubles /\ troubles <= MaxTroubles

ReadFields == {"pc", "kind", "key", "todo", "val", "legal"}

ReadShape ==
  /\ DOMAIN read = Readers
  /\ \A r \in Readers : /\ DOMAIN read[r] = ReadFields
                        /\ read[r].pc # "idle" => read[r].key \in Keys /\ read[r].kind \in {"get", "mget"}

\* a read has called dead owners only, and may return the last value and any being written
ReadInv(r) ==
  LET k == read[r].key IN
  /\ read[r].pc = "call" =>
       /\ Stable /\ read[r].todo \in Seq(Nodes) /\ Range(read[r].todo) \subseteq Homes(k)
       /\ {truth[k]} \cup Pending(k) \subseteq read[r].legal /\ read[r].val = Absent
       /\ read[r].kind = "get" => Homes(k) \ dead \subseteq Range(read[r].todo)
       /\ read[r].kind = "mget" => dead # {} \/ read[r].todo # <<>>
  /\ read[r].pc = "done" /\ k \notin astray =>
       read[r].val \in read[r].legal \/ (read[r].kind = "mget" /\ dead # {} /\ read[r].val = Absent)

ReadsInv == ReadShape /\ \A r \in Readers : ReadInv(r)

DirectReadInv == DirectInv /\ Lasting /\ AliveInv /\ ReadsInv
-----------------------------------------------------------------------------
\* A bucket has min(ReplTarget, |S|) owners.
LEMMA TopSize ==
  ASSUME Flat, NEW b \in Buckets, NEW S \in SUBSET Nodes, S # {}
  PROVE  Cardinality(Range(Top(b, S))) = AtMost(ReplTarget, Cardinality(S))
PROOF
  <1> DEFINE o == Top(b, S)
             c == AtMost(ReplTarget, Cardinality(S))
  <1>1. /\ o \in Seq(S) /\ Len(o) = c /\ Len(o) \in Nat
        /\ \A i, j \in 1 .. Len(o) : o[i] = o[j] => i = j
    BY OwnersAreTop
  <1> HIDE DEF o, c
  <1>2. DOMAIN o = 1 .. c /\ c \in Nat /\ o \in [1 .. c -> S]
    BY SMT, <1>1
  <1>3. Range(o) = {o[i] : i \in 1 .. c}
    BY <1>2 DEF Range
  <1>4. o \in Surjection(1 .. c, Range(o)) /\ o \in Injection(1 .. c, Range(o))
    BY <1>1, <1>2, <1>3 DEF Surjection, Injection, IsInjective
  <1>5. IsFiniteSet(1 .. c) /\ Cardinality(1 .. c) = c
    BY SMT, <1>2, FS_Interval
  <1>6. Cardinality(Range(o)) = c
    BY <1>4, <1>5, FS_Surjection
  <1> QED BY <1>6 DEF o, c

\* Under stable membership some owner of every key is alive.
LEMMA SomeoneAlive ==
  ASSUME DirectInv, Lasting, AliveInv, Stable, NEW k \in Keys
  PROVE  Homes(k) \ dead # {}
PROOF
  <1> DEFINE b == bucket_of[k]
  <1>0. DataShape /\ MovesInOrder /\ Flat /\ mig.moved = {}
    BY DEF DirectInv, MovesInOrder, Stable, Quiet
  <1>1. b \in Buckets /\ Homes(k) = Range(Top(b, partitioner))
    BY <1>0, HomesAre DEF Homes
  <1>2. partitioner \in SUBSET Nodes /\ partitioner # {} /\ dead \in SUBSET Nodes
    BY <1>0 DEF DataShape
  <1>3. Cardinality(Homes(k)) = AtMost(ReplTarget, Cardinality(partitioner))
    BY <1>0, <1>1, <1>2, TopSize
  <1>4. IsFiniteSet(dead) /\ IsFiniteSet(partitioner)
    BY <1>2, PlacementAssumption, FS_Subset
  <1>5. Cardinality(dead) \in Nat /\ Cardinality(partitioner) \in Nat
    BY <1>4, FS_CardinalityType
  <1>6. /\ MaxTroubles < ReplTarget /\ MaxTroubles < Cardinality(partitioner)
        /\ Cardinality(dead) <= troubles /\ troubles <= MaxTroubles /\ troubles \in Nat
        /\ MaxTroubles \in Nat /\ ReplTarget \in Nat
    BY SmartClientAssumption DEF Lasting, AliveInv
  <1>7. Cardinality(dead) < AtMost(ReplTarget, Cardinality(partitioner))
    BY SMT, <1>5, <1>6 DEF AtMost
  <1>8. ASSUME Homes(k) \in SUBSET dead PROVE FALSE
    <2>1. Cardinality(Homes(k)) <= Cardinality(dead)
      BY <1>4, <1>8, FS_Subset
    <2>2. AtMost(ReplTarget, Cardinality(partitioner)) \in Nat
      BY SMT, <1>5, <1>6 DEF AtMost
    <2> QED BY SMT, <1>3, <1>5, <1>7, <2>1, <2>2
  <1> QED BY <1>8

\* What a step must leave of a read in progress, and of one that is done.
LEMMA ReadKept ==
  ASSUME NEW r \in Readers, ReadShape, ReadInv(r),
         read'[r].pc = read[r].pc, read'[r].kind = read[r].kind, read'[r].key = read[r].key,
         read'[r].todo = read[r].todo, read'[r].val = read[r].val, read[r].legal \subseteq read'[r].legal,
         dead \subseteq dead', astray \subseteq astray',
         Stable => Stable' /\ \A k \in Keys : Homes(k)' = Homes(k),
         Stable => \A k \in Keys : read[r].pc = "call" /\ read[r].key = k =>
                     {truth'[k]} \cup Pending(k)' \subseteq read'[r].legal
  PROVE  ReadInv(r)'
PROOF
  <1>1. CASE read[r].pc = "call"
    <2>1. PICK k \in Keys : k = read[r].key /\ k = read'[r].key
      BY <1>1 DEF ReadShape
    <2>2. /\ Stable /\ read[r].todo \in Seq(Nodes) /\ Range(read[r].todo) \subseteq Homes(k)
          /\ read[r].val = Absent
          /\ read[r].kind = "get" => Homes(k) \ dead \subseteq Range(read[r].todo)
          /\ read[r].kind = "mget" => dead # {} \/ read[r].todo # <<>>
      BY <1>1, <2>1 DEF ReadInv
    <2>3. Stable' /\ Homes(k)' = Homes(k) /\ {truth'[k]} \cup Pending(k)' \subseteq read'[r].legal
      BY <1>1, <2>1, <2>2
    <2> QED BY <1>1, <2>1, <2>2, <2>3 DEF ReadInv
  <1>2. CASE read[r].pc # "call"
    BY <1>2 DEF ReadInv
  <1> QED BY <1>1, <1>2

\* A step that adds v to what reads of k may return, or nothing.
LEMMA ReadsAllowed ==
  ASSUME ReadsInv, NEW k, NEW v, read' = read \/ Allowing(k, v),
         dead \subseteq dead', astray \subseteq astray',
         Stable => Stable' /\ \A l \in Keys : Homes(l)' = Homes(l),
         Stable => \A l \in Keys : \A u \in {truth'[l]} \cup Pending(l)' :
                     u \in {truth[l]} \cup Pending(l) \/ (Allowing(k, v) /\ l = k /\ u = v)
  PROVE  ReadsInv'
PROOF
  <1>1. ASSUME NEW r \in Readers
        PROVE  /\ DOMAIN read'[r] = ReadFields
               /\ read'[r].pc = read[r].pc /\ read'[r].kind = read[r].kind /\ read'[r].key = read[r].key
               /\ read'[r].todo = read[r].todo /\ read'[r].val = read[r].val
               /\ read[r].legal \subseteq read'[r].legal
               /\ Allowing(k, v) /\ read[r].pc = "call" /\ read[r].key = k => v \in read'[r].legal
    <2>0. DOMAIN read[r] = ReadFields
      BY DEF ReadsInv, ReadShape
    <2>1. CASE Allowing(k, v)
      <3>1. read'[r] = IF read[r].pc = "call" /\ read[r].key = k
                       THEN [read[r] EXCEPT !.legal = @ \cup {v}] ELSE read[r]
        BY <2>1 DEF Allowing
      <3>2. CASE read[r].pc = "call" /\ read[r].key = k
        <4>1. read'[r] = [read[r] EXCEPT !.legal = @ \cup {v}]
          BY <3>1, <3>2
        <4> QED BY <2>0, <4>1 DEF ReadFields
      <3> QED BY <2>0, <3>1, <3>2
    <2>2. CASE ~Allowing(k, v)
      BY <2>0, <2>2
    <2> QED BY <2>1, <2>2
  <1>2. DOMAIN read' = Readers
    BY DEF ReadsInv, ReadShape, Allowing
  <1>3. ReadShape'
    BY <1>1, <1>2 DEF ReadsInv, ReadShape
  <1>4. ASSUME NEW r \in Readers PROVE ReadInv(r)'
    <2>1. ReadShape /\ ReadInv(r)
      BY DEF ReadsInv
    <2>2. ASSUME Stable, NEW l \in Keys, read[r].pc = "call", read[r].key = l
          PROVE  {truth'[l]} \cup Pending(l)' \subseteq read'[r].legal
      <3>1. {truth[l]} \cup Pending(l) \subseteq read[r].legal
        BY <2>1, <2>2 DEF ReadInv
      <3> QED BY <1>1, <2>2, <3>1
    <2> QED BY <1>1, <2>1, <2>2, ReadKept
  <1> QED BY <1>3, <1>4 DEF ReadsInv

\* A step that ends the stability forgets the reads.
LEMMA ReadsForgotten ==
  ASSUME Unsettle
  PROVE  ReadsInv'
PROOF
  <1>1. DOMAIN read' = Readers /\ \A r \in Readers : read'[r] = IdleRead
    BY DEF Unsettle
  <1>2. IdleRead.pc = "idle" /\ DOMAIN IdleRead = ReadFields
    BY SMT DEF IdleRead, ReadFields
  <1> QED BY <1>1, <1>2 DEF ReadsInv, ReadShape, ReadInv

\* A step of one write adds its value, if it has one, to those being written.
LEMMA PendingGrows ==
  ASSUME NEW w \in Writers, \A x \in Writers \ {w} : write'[x] = write[x], NEW k, NEW v \in Pending(k)'
  PROVE  v \in Pending(k) \/ (v = write'[w].val /\ HasValue(w)' /\ write'[w].key = k)
PROOF
  <1>1. PICK x \in Writers : HasValue(x)' /\ write'[x].key = k /\ v = write'[x].val
    BY DEF Pending
  <1>2. CASE x = w
    BY <1>1, <1>2
  <1>3. CASE x # w
    <2>1. HasValue(x) /\ write[x].key = k /\ v = write[x].val
      BY <1>1, <1>3 DEF HasValue
    <2> QED BY <2>1 DEF Pending
  <1> QED BY <1>2, <1>3

\* Reads and scans, polls, restarts and failures leave the writes alone.
LEMMA ReadsFrame ==
  ASSUME ReadsInv, read' = read, dead \subseteq dead', astray \subseteq astray',
         Stable => Stable' /\ UNCHANGED <<truth, write>> /\ \A l \in Keys : Homes(l)' = Homes(l)
  PROVE  ReadsInv'
PROOF
  <1>1. Stable => \A l \in Keys : \A u \in {truth'[l]} \cup Pending(l)' : u \in {truth[l]} \cup Pending(l)
    BY DEF Pending, HasValue
  <1> QED BY <1>1, ReadsAllowed

\* get begins with all the owners to call, mget with the first.
LEMMA ReadBegun ==
  ASSUME DirectInv, NEW kind \in {"get", "mget"}, NEW k \in Keys, Stable
  PROVE  LET todo == ReadTargets(kind, k) IN
         /\ todo \in Seq(Nodes) /\ todo # <<>> /\ Range(todo) \subseteq Homes(k)
         /\ kind = "get" => Homes(k) \subseteq Range(todo)
PROOF
  <1>1. route(k) = owners(k) /\ owners(k) \in Seq(Nodes) /\ owners(k) # <<>>
    BY HomesAre DEF DirectInv
  <1>2. CASE kind = "get"
    <2>1. ReadTargets(kind, k) = owners(k)
      BY <1>1, <1>2 DEF ReadTargets
    <2> QED BY <1>1, <2>1 DEF Homes
  <1>3. CASE kind = "mget"
    <2>1. ReadTargets(kind, k) = Take(owners(k), 1)
      BY <1>1, <1>3 DEF ReadTargets
    <2> DEFINE o == owners(k)
    <2> HIDE DEF o
    <2>2. o \in Seq(Nodes) /\ o # <<>>
      BY <1>1 DEF o
    <2>3. Len(o) \in Nat \ {0}
      BY SMT, <2>2
    <2>5. ASSUME NEW m \in Nat \ {0} PROVE AtMost(1, m) = 1
      BY SMT DEF AtMost
    <2>6. AtMost(1, Len(o)) = 1
      BY <2>3, <2>5
    <2>4. Take(o, 1) = SubSeq(o, 1, 1)
      BY <2>6 DEF Take
    <2>7. SubSeq(o, 1, 1) \in Seq(Nodes) /\ SubSeq(o, 1, 1) # <<>> /\ Range(SubSeq(o, 1, 1)) \subseteq Range(o)
      BY SMT, <2>2, <2>3 DEF Range
    <2> QED BY <1>3, <2>1, <2>4, <2>7 DEF Homes, o
  <1> QED BY <1>2, <1>3

\* The steps of a read: an owner that does not answer is dead, and one that does has the
\* last value or one being written.
LEMMA ReadSteps ==
  ASSUME DirectReadInv, NEW r \in Readers, Reading(r)
  PROVE  ReadsInv'
PROOF
  <1>0. /\ DirectInv /\ Lasting /\ AliveInv /\ ReadsInv /\ ReadShape /\ ReadInv(r)
        /\ DataShape /\ MovesInOrder /\ Flat
    BY DEF DirectReadInv, ReadsInv, DirectInv
  <1>1. UNCHANGED <<cluster, data, dead, view, write, truth, astray>>
    BY DEF Reading, BeginRead, ReadCall, ReadDone, env, history
  <1>2. (\A l : Homes(l)' = Homes(l)) /\ (Stable' <=> Stable) /\ \A l : Pending(l)' = Pending(l)
    BY <1>1, SameRouting DEF Pending, HasValue
  \* what is to be shown of the new record
  <1>3. ASSUME NEW new, read' = [read EXCEPT ![r] = new], DOMAIN new = ReadFields,
               new.pc # "idle" => new.key \in Keys /\ new.kind \in {"get", "mget"}, ReadInv(r)'
        PROVE  ReadsInv'
    <2>1. read'[r] = new /\ DOMAIN read' = Readers /\ \A x \in Readers \ {r} : read'[x] = read[x]
      BY <1>0, <1>3 DEF ReadShape
    <2>2. ReadShape'
      BY <1>0, <1>3, <2>1 DEF ReadShape
    <2>3. ASSUME NEW x \in Readers \ {r} PROVE ReadInv(x)'
      <3>1. ReadInv(x)
        BY <1>0 DEF ReadsInv
      <3>2. Stable => \A k \in Keys : read[x].pc = "call" /\ read[x].key = k =>
                        {truth'[k]} \cup Pending(k)' \subseteq read'[x].legal
        BY <1>1, <1>2, <2>1, <3>1 DEF ReadInv
      <3> QED BY <1>0, <1>1, <1>2, <2>1, <3>1, <3>2, ReadKept
    <2> QED BY <1>3, <2>2, <2>3 DEF ReadsInv
  <1>4. ASSUME NEW kind \in {"get", "mget"}, NEW k \in Keys, BeginRead(r, kind, k) PROVE ReadsInv'
    <2> DEFINE new == [pc |-> "call", kind |-> kind, key |-> k, val |-> Absent,
                       todo |-> ReadTargets(kind, k), legal |-> {truth[k]} \cup Pending(k)]
    <2>1. read' = [read EXCEPT ![r] = new] /\ Stable
      BY <1>4 DEF BeginRead
    <2>2. /\ new.pc = "call" /\ new.kind = kind /\ new.key = k /\ new.val = Absent
          /\ new.todo = ReadTargets(kind, k) /\ new.legal = {truth[k]} \cup Pending(k)
          /\ DOMAIN new = ReadFields
      BY SMT DEF ReadFields
    <2> HIDE DEF new
    <2>3. read'[r] = new
      BY <1>0, <2>1 DEF ReadShape
    <2>4. /\ new.todo \in Seq(Nodes) /\ new.todo # <<>> /\ Range(new.todo) \subseteq Homes(k)
          /\ kind = "get" => Homes(k) \subseteq Range(new.todo)
      BY <1>0, <2>1, <2>2, ReadBegun
    <2>5. ReadInv(r)'
      BY <1>1, <1>2, <2>1, <2>2, <2>3, <2>4 DEF ReadInv
    <2> QED BY <1>3, <2>1, <2>2, <2>5
  <1>5. ASSUME ReadDone(r) PROVE ReadsInv'
    <2>1. read' = [read EXCEPT ![r] = IdleRead]
      BY <1>5 DEF ReadDone
    <2>2. IdleRead.pc = "idle" /\ DOMAIN IdleRead = ReadFields
      BY SMT DEF IdleRead, ReadFields
    <2>3. read'[r] = IdleRead
      BY <1>0, <2>1 DEF ReadShape
    <2>4. ReadInv(r)'
      BY <2>2, <2>3 DEF ReadInv
    <2> QED BY <1>3, <2>1, <2>2, <2>4
  <1>6. ASSUME ReadCall(r) PROVE ReadsInv'
    <2> DEFINE todo == read[r].todo
               n == Head(todo)
               new == IF todo = <<>> THEN [read[r] EXCEPT !.pc = "done"]
                      ELSE IF Answers(n)
                      THEN [read[r] EXCEPT !.pc = "done", !.val = data[n][read[r].key], !.todo = <<>>]
                      ELSE [read[r] EXCEPT !.todo = Tail(@)]
    <2>1. read' = [read EXCEPT ![r] = new] /\ read[r].pc = "call"
      BY <1>6 DEF ReadCall
    <2>2. PICK k \in Keys : k = read[r].key
      BY <1>0, <2>1 DEF ReadShape
    <2>3. /\ Stable /\ todo \in Seq(Nodes) /\ Range(todo) \subseteq Homes(k)
          /\ {truth[k]} \cup Pending(k) \subseteq read[r].legal /\ read[r].val = Absent
          /\ read[r].kind = "get" => Homes(k) \ dead \subseteq Range(todo)
          /\ read[r].kind = "mget" => dead # {} \/ todo # <<>>
          /\ read[r].kind \in {"get", "mget"} /\ DOMAIN read[r] = ReadFields
      BY <1>0, <2>1, <2>2 DEF ReadInv, ReadShape
    <2>4. read'[r] = new
      BY <1>0, <2>1 DEF ReadShape
    <2>5. Homes(k) \subseteq view.clients /\ Homes(k) \subseteq Nodes /\ Homes(k) \ dead # {}
      BY <1>0, <2>3, HomesAre, SomeoneAlive
    <2>6. CASE todo = <<>>
      <3>1. new = [read[r] EXCEPT !.pc = "done"]
        BY <2>6
      <3> HIDE DEF new
      <3>2. /\ new.pc = "done" /\ new.kind = read[r].kind /\ new.key = k /\ new.val = Absent
            /\ new.legal = read[r].legal /\ DOMAIN new = ReadFields
        BY <2>2, <2>3, <3>1 DEF ReadFields
      <3>3. Range(todo) = {}
        BY SMT, <2>6 DEF Range
      <3>4. read[r].kind = "mget" /\ dead # {}
        BY <2>3, <2>5, <2>6, <3>3
      <3>5. ReadInv(r)'
        BY <1>1, <2>4, <3>2, <3>4 DEF ReadInv
      <3> QED BY <1>3, <2>1, <2>3, <3>2, <3>5
    <2>7. CASE todo # <<>>
      <3>1. /\ Tail(todo) \in Seq(Nodes) /\ Range(todo) = {n} \cup Range(Tail(todo))
        BY <2>3, <2>7, Queue
      <3>2. n \in Homes(k) /\ (Answers(n) <=> n \notin dead)
        BY <2>3, <2>5, <3>1 DEF Answers
      <3>3. CASE Answers(n)
        <4>1. new = [read[r] EXCEPT !.pc = "done", !.val = data[n][k], !.todo = <<>>]
          BY <2>2, <2>7, <3>3
        <4> HIDE DEF new, n, todo
        <4>2. /\ new.pc = "done" /\ new.kind = read[r].kind /\ new.key = k /\ new.val = data[n][k]
              /\ new.legal = read[r].legal /\ DOMAIN new = ReadFields
          BY <2>2, <2>3, <4>1 DEF ReadFields
        <4>3. ASSUME k \notin astray PROVE data[n][k] \in {truth[k]} \cup Pending(k)
          <5>1. KeyInv(k) /\ n \in Nodes \ dead /\ Rest(n, k) = truth[k]
            BY <1>0, <2>5, <3>2, <3>3 DEF DirectInv, Rest
          <5>2. CASE ~Storing(k)
            BY <4>3, <5>1, <5>2 DEF KeyInv, Settled
          <5>3. CASE Storing(k)
            <6>1. PICK w \in Writers : HasValue(w) /\ write[w].key = k
              BY <5>3 DEF Storing
            <6>2. data[n][k] \in {write[w].val, truth[k]}
              BY <4>3, <5>1, <6>1 DEF KeyInv, Spreading
            <6>3. write[w].val \in Pending(k)
              BY <6>1 DEF Pending
            <6> QED BY <6>2, <6>3
          <5> QED BY <5>2, <5>3
        <4>4. ReadInv(r)'
          BY <1>1, <2>3, <2>4, <4>2, <4>3 DEF ReadInv
        <4> QED BY <1>3, <2>1, <2>3, <4>2, <4>4
      <3>4. CASE ~Answers(n)
        <4>1. new = [read[r] EXCEPT !.todo = Tail(todo)]
          BY <2>7, <3>4
        <4> HIDE DEF new, n, todo
        <4>2. /\ new.pc = "call" /\ new.kind = read[r].kind /\ new.key = k /\ new.val = Absent
              /\ new.todo = Tail(todo) /\ new.legal = read[r].legal /\ DOMAIN new = ReadFields
          BY <2>1, <2>2, <2>3, <4>1 DEF ReadFields
        <4>3. ReadInv(r)'
          BY <1>1, <1>2, <2>3, <2>4, <3>1, <3>2, <3>4, <4>2 DEF ReadInv
        <4> QED BY <1>3, <2>1, <2>3, <4>2, <4>3
      <3> QED BY <3>3, <3>4
    <2> QED BY <2>6, <2>7
  <1> QED BY <1>4, <1>5, <1>6 DEF Reading

\* The steps of a write: a value is allowed before it is stored anywhere.
LEMMA WriteReads ==
  ASSUME DirectInv, ReadsInv, NEW w \in Writers,
         \/ WriteStep(w)
         \/ \E kind, arg : \E k \in Keys : BeginWrite(w, kind, k, arg)
  PROVE  ReadsInv'
PROOF
  <1>0. DataShape
    BY DEF DirectInv
  <1>1. UNCHANGED <<cluster, view, dead>>
    BY DEF WriteStep, BroadcastCall, RmwPrimary, ReplicaCall, WriteDone, BeginWrite, env
  <1>2. dead \subseteq dead' /\ (Stable => Stable' /\ \A l \in Keys : Homes(l)' = Homes(l))
    BY ZenonT(60), <1>1, SameRouting
  <1>3. ASSUME NEW k \in Keys, NEW v, read' = read \/ Allowing(k, v), UNCHANGED <<truth, astray>>,
               \A x \in Writers \ {w} : write'[x] = write[x],
               HasValue(w)' => write'[w].key = k /\
                 (write'[w].val \in Pending(k) \/ (Allowing(k, v) /\ write'[w].val = v))
        PROVE  ReadsInv'
    <2>1. ASSUME NEW l \in Keys, NEW u \in {truth'[l]} \cup Pending(l)'
          PROVE  u \in {truth[l]} \cup Pending(l) \/ (Allowing(k, v) /\ l = k /\ u = v)
      <3>1. u \in Pending(l)' => u \in Pending(l) \/ (u = write'[w].val /\ HasValue(w)' /\ write'[w].key = l)
        BY <1>3, PendingGrows
      <3> QED BY <1>3, <3>1
    <2>2. astray \subseteq astray' /\ (read' = read \/ Allowing(k, v))
      BY <1>3
    <2>3. \A l \in Keys : \A u \in {truth'[l]} \cup Pending(l)' :
            u \in {truth[l]} \cup Pending(l) \/ (Allowing(k, v) /\ l = k /\ u = v)
      BY <2>1
    <2> QED BY SMT, <1>2, <2>2, <2>3, ReadsAllowed
  \* calls that store a value they had before
  <1>4. ASSUME HasValue(w), write' = [write EXCEPT ![w].todo = Tail(@)], UNCHANGED <<read, truth, astray>>
        PROVE  ReadsInv'
    <2>1. PICK k \in Keys : k = write[w].key
      BY <1>0, <1>4 DEF DataShape, HasValue
    <2>2. /\ write'[w] = [write[w] EXCEPT !.todo = Tail(@)] /\ DOMAIN write[w] = WriteFields
          /\ \A x \in Writers \ {w} : write'[x] = write[x]
      BY <1>0, <1>4 DEF DataShape
    <2>3. write'[w].key = k /\ write'[w].val = write[w].val
      BY <2>1, <2>2 DEF WriteFields
    <2>4. write[w].val \in Pending(k)
      BY <1>4, <2>1 DEF Pending
    <2> QED BY <1>3, <1>4, <2>2, <2>3, <2>4
  <1>5. CASE BroadcastCall(w)
    BY <1>4, <1>5 DEF BroadcastCall, HasValue, history
  <1>6. CASE ReplicaCall(w)
    BY <1>4, <1>6 DEF ReplicaCall, HasValue, history
  <1>7. CASE WriteDone(w)
    <2>1. /\ HasValue(w) /\ read' = read /\ write' = [write EXCEPT ![w] = IdleWrite]
          /\ truth' = [truth EXCEPT ![write[w].key] = write[w].val] /\ astray \subseteq astray'
      BY <1>7 DEF WriteDone
    <2>2. write'[w] = IdleWrite /\ \A x \in Writers \ {w} : write'[x] = write[x]
      BY <1>0, <2>1 DEF DataShape
    <2>3. ~HasValue(w)'
      <3>1. write'[w].pc = "idle"
        BY SMT, <2>2 DEF IdleWrite
      <3> QED BY <3>1 DEF HasValue
    <2>4. ASSUME NEW l \in Keys, NEW u \in {truth'[l]} \cup Pending(l)' PROVE u \in {truth[l]} \cup Pending(l)
      <3>1. CASE u \in Pending(l)'
        BY <2>2, <2>3, <3>1, PendingGrows
      <3>2. CASE u = truth'[l] /\ l # write[w].key
        BY <1>0, <2>1, <3>2 DEF DataShape
      <3>3. CASE u = truth'[l] /\ l = write[w].key
        <4>1. u = write[w].val
          BY <1>0, <2>1, <3>3 DEF DataShape
        <4> QED BY <2>1, <3>3, <4>1 DEF Pending
      <3> QED BY <2>4, <3>1, <3>2, <3>3
    <2> QED BY <1>2, <2>1, <2>4, ReadsAllowed
  <1>8. CASE RmwPrimary(w)
    <2>1. write[w].pc = "call" /\ UNCHANGED <<truth, astray>>
      BY <1>8 DEF RmwPrimary, history
    <2>2. PICK k \in Keys : k = write[w].key
      BY <1>0, <2>1 DEF DataShape
    <2>3. ASSUME write' = [write EXCEPT ![w] = IdleWrite], read' = read PROVE ReadsInv'
      <3>1. write'[w] = IdleWrite /\ \A x \in Writers \ {w} : write'[x] = write[x]
        BY <1>0, <2>3 DEF DataShape
      <3>2. ~HasValue(w)'
        <4>1. write'[w].pc = "idle"
          BY SMT, <3>1 DEF IdleWrite
        <4> QED BY <4>1 DEF HasValue
      <3> QED BY <1>3, <2>1, <2>3, <3>1, <3>2
    <2>4. ASSUME NEW v, Allowing(write[w].key, v),
                 write' = [write EXCEPT ![w].pc = "replicate", ![w].val = v, ![w].todo = Tail(@)]
          PROVE  ReadsInv'
      <3>1. /\ write'[w] = [write[w] EXCEPT !.pc = "replicate", !.val = v, !.todo = Tail(@)]
            /\ DOMAIN write[w] = WriteFields /\ \A x \in Writers \ {w} : write'[x] = write[x]
        BY <1>0, <2>4 DEF DataShape
      <3>2. write'[w].key = k /\ write'[w].val = v
        BY <2>2, <3>1 DEF WriteFields
      <3> QED BY <1>3, <2>1, <2>2, <2>4, <3>1, <3>2
    <2> QED BY <1>8, <2>3, <2>4 DEF RmwPrimary
  <1>9. ASSUME NEW kind, NEW arg, NEW k \in Keys, BeginWrite(w, kind, k, arg) PROVE ReadsInv'
    <2>1. /\ UNCHANGED <<truth, astray>>
          /\ write' = [write EXCEPT ![w] = [pc |-> "call", kind |-> kind, key |-> k, todo |-> route(k),
                                            val |-> arg[1], expect |-> arg[2], steady |-> Stable]]
          /\ IF kind \in {"put", "delete"} THEN Allowing(k, arg[1]) ELSE UNCHANGED read
      BY <1>9 DEF BeginWrite, history
    <2>2. /\ write'[w] = [pc |-> "call", kind |-> kind, key |-> k, todo |-> route(k),
                          val |-> arg[1], expect |-> arg[2], steady |-> Stable]
          /\ \A x \in Writers \ {w} : write'[x] = write[x]
      BY <1>0, <2>1 DEF DataShape
    <2>3. write'[w].pc = "call" /\ write'[w].kind = kind /\ write'[w].key = k /\ write'[w].val = arg[1]
      BY SMT, <2>2
    <2>4. HasValue(w)' => kind \in {"put", "delete"}
      BY <2>3 DEF HasValue
    <2> QED BY <1>3, <2>1, <2>2, <2>3, <2>4
  <1> QED BY <1>5, <1>6, <1>7, <1>8, <1>9 DEF WriteStep

\* No shard is dead at the start.
LEMMA AliveInit ==
  ASSUME Init
  PROVE  AliveInv
PROOF
  <1>1. partitioner = InitialMembers /\ mig.pc = "idle" /\ troubles = 0 /\ Cardinality(dead) = 0
    BY FS_EmptySet DEF Init, IdleMig
  <1>2. 0 \in Nat /\ 0 <= 0 /\ 0 <= MaxTroubles
    BY SMT, SmartClientAssumption
  <1> QED BY <1>1, <1>2 DEF AliveInv

\* Every shard that dies is one of the troubles.
LEMMA AliveStep ==
  ASSUME DirectInv, AliveInv, [Next]_vars
  PROVE  AliveInv'
PROOF
  <1> USE DEF history, env, cluster, calls
  <1>0. DataShape /\ mig \in Migs /\ IsFiniteSet(dead) /\ MaxTroubles \in Nat
    <2>1. dead \in SUBSET Nodes /\ mig \in Migs /\ DataShape
      BY DEF DirectInv, DataShape
    <2> QED BY <2>1, FS_Subset, PlacementAssumption, SmartClientAssumption
  <1>1. ASSUME UNCHANGED <<partitioner, mig, dead>>,
               troubles' = troubles \/ (troubles < MaxTroubles /\ troubles' = troubles + 1)
        PROVE  AliveInv'
    <2>1. troubles \in Nat /\ Cardinality(dead) <= troubles /\ troubles <= MaxTroubles
      BY DEF AliveInv
    <2>2. Cardinality(dead) \in Nat
      BY <1>0, FS_CardinalityType
    <2>3. troubles' \in Nat /\ Cardinality(dead) <= troubles' /\ troubles' <= MaxTroubles
      BY SMT, <1>0, <1>1, <2>1, <2>2
    <2> QED BY <1>1, <2>3 DEF AliveInv
  <1>2. ASSUME UNCHANGED <<dead, troubles>>,
               partitioner' = partitioner \/ (mig.pc # "idle" /\ partitioner' = mig.new),
               mig'.pc # "idle" => mig'.new \in Targets
        PROVE  AliveInv'
    BY <1>2 DEF AliveInv
  <1>3. ASSUME NEW n \in Nodes, NodeDies(n) PROVE AliveInv'
    <2>1. /\ UNCHANGED <<partitioner, mig>> /\ n \notin dead /\ troubles < MaxTroubles
          /\ troubles' = troubles + 1 /\ dead' = dead \cup {n}
      BY <1>3 DEF NodeDies
    <2>2. Cardinality(dead') = Cardinality(dead) + 1 /\ Cardinality(dead) \in Nat
      BY <1>0, <2>1, FS_AddElement, FS_CardinalityType
    <2>3. troubles \in Nat /\ Cardinality(dead) <= troubles
      BY DEF AliveInv
    <2>4. troubles' \in Nat /\ Cardinality(dead') <= troubles' /\ troubles' <= MaxTroubles
      BY SMT, <1>0, <2>1, <2>2, <2>3
    <2> QED BY <2>1, <2>4 DEF AliveInv
  <1>4. ASSUME NEW new \in Targets, Rebalance(new) PROVE AliveInv'
    <2>1. mig'.new = new
      BY <1>4 DEF Rebalance, IdleMig
    <2> QED BY <1>2, <1>4, <2>1 DEF Rebalance
  <1>5. CASE Committing
    <2>1. UNCHANGED <<dead, troubles>> /\ mig.pc # "idle" /\ (mig' = IdleMig \/ mig'.new = mig.new)
          /\ (partitioner' = partitioner \/ partitioner' = mig.new)
      BY <1>0, <1>5 DEF Committing, CommitEpoch, CommitNodes, CommitClients, MoveBucket, Migs
    <2>2. IdleMig.pc = "idle"
      BY DEF IdleMig
    <2> QED BY <1>2, <2>1, <2>2 DEF AliveInv
  <1>6. CASE Restart \/ \E n \in Nodes : add_node(n)
    BY <1>1, <1>6 DEF Restart, add_node
  <1>7. ASSUME NEW r \in Refreshers, Refresh(r) \/ PollLost(r) PROVE AliveInv'
    BY <1>1, <1>7 DEF Refresh, PollMembers, PollEpoch, PollLost, SetClients, SetNodes, SetEpoch, Polled
  <1>8. ASSUME NEW r \in Readers, Reading(r) PROVE AliveInv'
    BY <1>1, <1>8 DEF Reading, BeginRead, ReadCall, ReadDone
  <1>9. ASSUME NEW s \in Scanners, Scanning(s) PROVE AliveInv'
    BY <1>1, <1>9 DEF Scanning, ScanStart, ScanShard, ScanPage, PartitionPage, RespPage, ScanDone
  <1>10. ASSUME NEW w \in Writers, WriteStep(w) \/ \E kind, k, arg : BeginWrite(w, kind, k, arg) PROVE AliveInv'
    BY <1>1, <1>10 DEF WriteStep, BroadcastCall, RmwPrimary, ReplicaCall, WriteDone, BeginWrite
  <1>11. CASE UNCHANGED vars
    BY <1>1, <1>11 DEF vars
  <1> QED BY <1>3, <1>4, <1>5, <1>6, <1>7, <1>8, <1>9, <1>10, <1>11 DEF Next, Control

\* DirectReadInv is inductive.
LEMMA DirectReadInvStep ==
  ASSUME DirectReadInv, [Next]_vars
  PROVE  DirectReadInv'
PROOF
  <1> USE DEF history, env, cluster, calls
  <1>0. DirectInv /\ Lasting /\ AliveInv /\ ReadsInv /\ DataShape
    BY DEF DirectReadInv, DirectInv
  <1>1. DirectInv' /\ Lasting' /\ AliveInv'
    BY <1>0, DirectInvStep, AliveStep DEF Lasting
  <1>2. ASSUME UNCHANGED <<read, write, truth, astray, partitioner, mig>>,
               dead \subseteq dead', Stable => Stable'
        PROVE  ReadsInv'
    <2>1. \A l \in Keys : Homes(l)' = Homes(l)
      BY <1>2 DEF Homes, owners
    <2> QED BY <1>0, <1>2, <2>1, ReadsFrame
  <1>3. ASSUME UNCHANGED <<read, dead, astray>>, mig.pc # "idle" PROVE ReadsInv'
    <2>1. ~Stable
      BY <1>3 DEF Stable, Quiet
    <2> QED BY <1>0, <1>3, <2>1, ReadsFrame
  <1>4. ASSUME Control PROVE ReadsInv'
    <2>1. CASE \/ \E n \in Nodes : add_node(n)
               \/ \E new \in Targets : Rebalance(new)
      BY <2>1, ReadsForgotten DEF add_node, Rebalance
    <2>2. CASE Committing
      BY <1>3, <2>2 DEF Committing, CommitEpoch, CommitNodes, CommitClients, MoveBucket
    <2>3. CASE Restart \/ \E n \in Nodes : NodeDies(n)
      <3>1. UNCHANGED <<read, write, truth, astray, partitioner, mig>> /\ dead \subseteq dead'
        BY <2>3 DEF Restart, NodeDies
      <3>2. Stable => Stable'
        BY <2>3 DEF Restart, NodeDies, Stable, Quiet, InStep
      <3> QED BY <1>2, <3>1, <3>2
    <2> QED BY <1>4, <2>1, <2>2, <2>3 DEF Control
  <1>5. ASSUME NEW r \in Refreshers, Refresh(r) \/ PollLost(r) PROVE ReadsInv'
    <2>1. CASE Unsettle
      BY <2>1, ReadsForgotten
    <2>2. CASE ~Unsettle
      <3>1. UNCHANGED <<read, write, truth, astray, partitioner, mig, dead, clients>>
            /\ (view' = view \/ view' = [view EXCEPT !.epoch = poll[r].epoch])
        BY <1>5, <2>2 DEF Refresh, PollMembers, PollEpoch, PollLost, SetClients, SetNodes, SetEpoch, Polled
      <3>2. view'.members = view.members /\ view'.clients = view.clients
        <4>1. DOMAIN view = {"clients", "members", "epoch"}
          BY <1>0 DEF DataShape
        <4> QED BY <3>1, <4>1
      <3>3. Stable => Stable'
        BY <3>1, <3>2 DEF Stable, Quiet, InStep
      <3> QED BY <1>2, <3>1, <3>3
    <2> QED BY <2>1, <2>2
  <1>6. ASSUME UNCHANGED <<read, write, truth, astray, cluster, view, dead>> PROVE ReadsInv'
    BY <1>2, <1>6, SameRouting
  <1>7. ASSUME NEW s \in Scanners, Scanning(s) PROVE ReadsInv'
    BY <1>6, <1>7 DEF Scanning, ScanStart, ScanShard, ScanPage, PartitionPage, RespPage, ScanDone
  <1>8. ASSUME UNCHANGED vars PROVE ReadsInv'
    BY <1>6, <1>8 DEF vars
  <1>9. ReadsInv'
    BY <1>0, <1>4, <1>5, <1>7, <1>8, ReadSteps, WriteReads DEF Next
  <1> QED BY <1>1, <1>9 DEF DirectReadInv

(***************************************************************************)
(* Under stable membership a get or mget of the client (smart.rs) returns  *)
(* the last value written or one being written: get fails over past every  *)
(* dead owner to one that has it, mget may miss a key while a shard is     *)
(* dead.                                                                   *)
(***************************************************************************)
THEOREM DirectReadsReturnTheirValue ==
  ASSUME Flat, Lasting
  PROVE  Spec => []DirectReadsAreRegular
PROOF
  <1>1. Init => DirectReadInv
    <2> SUFFICES ASSUME Init PROVE DirectReadInv
      OBVIOUS
    <2>1. AliveInv
      BY AliveInit
    <2>2. ReadsInv
      <3>1. DOMAIN read = Readers /\ \A r \in Readers : read[r] = IdleRead
        BY DEF Init
      <3>2. IdleRead.pc = "idle" /\ DOMAIN IdleRead = ReadFields
        BY SMT DEF IdleRead, ReadFields
      <3> QED BY <3>1, <3>2 DEF ReadsInv, ReadShape, ReadInv
    <2> QED BY <2>1, <2>2, DirectInvInit DEF DirectReadInv
  <1>2. DirectReadInv /\ [Next]_vars => DirectReadInv'
    BY DirectReadInvStep
  <1>3. DirectReadInv => DirectReadsAreRegular
    BY DEF DirectReadInv, ReadsInv, ReadInv, DirectReadsAreRegular
  <1> QED BY <1>1, <1>2, <1>3, PTL DEF Spec
-----------------------------------------------------------------------------
\* A set of naturals that is not empty has a least element.
LEMMA Least ==
  ASSUME NEW T \in SUBSET Nat, T # {}
  PROVE  \E x \in T : \A y \in T : x <= y
PROOF
  <1> DEFINE R == OpToRel(<, Nat)
  <1>1. \A x, y \in Nat : <<x, y>> \in R <=> x < y
    BY SMT DEF OpToRel
  <1>2. IsWellFoundedOn(R, Nat)
    BY NatLessThanWellFounded
  <1> HIDE DEF R
  <1>3. PICK x \in T : \A y \in T : ~(<<y, x>> \in R)
    BY <1>2, WFMin
  <1>4. ASSUME NEW y \in T PROVE x <= y
    <2>1. x \in Nat /\ y \in Nat
      BY <1>3
    <2>2. ~(y < x)
      BY <1>1, <1>3, <2>1
    <2> QED BY SMT, <2>1, <2>2
  <1> QED BY <1>3, <1>4

\* A finite set has more elements than what is left without some of them.
LEMMA Fewer ==
  ASSUME NEW A, NEW B, IsFiniteSet(B), A \in SUBSET B, A # B
  PROVE  Cardinality(A) < Cardinality(B)
PROOF
  <1>1. Cardinality(A) <= Cardinality(B) /\ Cardinality(A) # Cardinality(B) /\ IsFiniteSet(A)
    BY FS_Subset
  <1>2. Cardinality(A) \in Nat /\ Cardinality(B) \in Nat
    BY <1>1, FS_CardinalityType
  <1> QED BY SMT, <1>1, <1>2

\* A finite set of naturals has a greatest element: the one with the fewest above it.
LEMMA Greatest ==
  ASSUME NEW T \in SUBSET Nat, IsFiniteSet(T), T # {}
  PROVE  Max(T) \in T /\ \A y \in T : y <= Max(T)
PROOF
  <1> DEFINE above(x) == {y \in T : y > x}
             C == {Cardinality(above(x)) : x \in T}
  <1>1. ASSUME NEW x \in T PROVE IsFiniteSet(above(x)) /\ Cardinality(above(x)) \in Nat
    <2>1. above(x) \in SUBSET T
      OBVIOUS
    <2>2. IsFiniteSet(above(x))
      BY <2>1, FS_Subset
    <2> QED BY <2>2, FS_CardinalityType
  <1>2. C \in SUBSET Nat /\ C # {}
    BY <1>1
  <1> HIDE DEF C
  <1>3. PICK c \in C : \A d \in C : c <= d
    BY <1>2, Least
  <1>4. PICK m \in T : c = Cardinality(above(m))
    BY <1>3 DEF C
  <1>5. ASSUME NEW y \in T PROVE m >= y
    <2>0. m \in Nat /\ y \in Nat
      BY <1>4
    <2>1. SUFFICES ASSUME y > m PROVE FALSE
      BY SMT, <2>0
    <2>2. above(y) \in SUBSET above(m) /\ y \in above(m) /\ y \notin above(y)
      <3>1. (\A x \in T : x > y => x > m) /\ ~(y > y)
        <4>1. \A x \in T : x \in Nat
          OBVIOUS
        <4> QED BY SMT, <2>0, <2>1, <4>1
      <3> QED BY <2>1, <3>1
    <2>3. Cardinality(above(y)) < Cardinality(above(m))
      <3>1. above(y) # above(m) /\ above(y) \in SUBSET above(m)
        BY <2>2
      <3> HIDE DEF above
      <3> QED BY <1>1, <1>4, <3>1, Fewer
    <2>4. Cardinality(above(m)) <= Cardinality(above(y))
      BY <1>3, <1>4 DEF C
    <2>5. Cardinality(above(y)) \in Nat /\ Cardinality(above(m)) \in Nat
      BY <1>1, <1>4
    <2> HIDE DEF above
    <2> QED BY SMT, <2>3, <2>4, <2>5
  <1>6. Max(T) \in T /\ \A y \in T : Max(T) >= y
    BY <1>4, <1>5 DEF Max
  <1> QED BY SMT, <1>6

\* A page has at most as many keys as it may; a key that is left out is behind a full page;
\* and a page has every key up to its last one.
LEMMA PageIs ==
  ASSUME NEW S \in SUBSET Keys, NEW L \in Nat \ {0}, NEW P, P = First(S, L)
  PROVE  /\ P \subseteq S /\ IsFiniteSet(P) /\ Cardinality(P) \in Nat /\ Cardinality(P) <= L
         /\ \A k \in S \ P : Cardinality({j \in P : j < k}) >= L
         /\ Cardinality(P) < L => P = S
         /\ Cardinality(P) >= L => /\ Max(P) \in P /\ \A j \in P : j <= Max(P)
                                   /\ \A k \in S : k <= Max(P) => k \in P
PROOF
  <1> DEFINE below(k) == {j \in S : j < k}
             at(k) == Cardinality(below(k))
             f == [k \in P |-> at(k)]
  <1>1. IsFiniteSet(S) /\ \A k \in S : k \in Nat
    BY SmartClientAssumption, FS_Subset
  <1>2. P \in SUBSET S /\ \A k \in S : k \in P <=> at(k) < L
    BY DEF First
  <1>3. IsFiniteSet(P) /\ Cardinality(P) \in Nat
    BY <1>1, <1>2, FS_Subset, FS_CardinalityType
  <1>4. ASSUME NEW k PROVE IsFiniteSet(below(k)) /\ at(k) \in Nat
    <2>1. below(k) \in SUBSET S
      OBVIOUS
    <2>2. IsFiniteSet(below(k))
      BY <1>1, <2>1, FS_Subset
    <2> QED BY <2>2, FS_CardinalityType
  <1>5. ASSUME NEW j \in S, NEW k \in S, j < k PROVE at(j) < at(k)
    <2>1. below(j) \in SUBSET below(k) /\ j \in below(k) /\ j \notin below(j)
      BY SMT, <1>1, <1>5
    <2>2. below(j) # below(k)
      BY <2>1
    <2> HIDE DEF below
    <2> QED BY <1>4, <2>1, <2>2, Fewer
  <1>6. Cardinality(P) <= L
    <2>1. f \in [P -> 0 .. L - 1]
      <3>1. ASSUME NEW k \in P PROVE at(k) \in 0 .. L - 1
        <4>1. at(k) \in Nat /\ at(k) < L
          BY <1>2, <1>4
        <4> HIDE DEF at
        <4> QED BY SMT, <4>1
      <3> QED BY <3>1
    <2>2. ASSUME NEW j \in P, NEW k \in P, f[j] = f[k] PROVE j = k
      <3>1. j \in S /\ k \in S /\ j \in Nat /\ k \in Nat /\ at(j) = at(k) /\ at(j) \in Nat
        BY <1>1, <1>2, <1>4, <2>2
      <3>2. ~(j < k) /\ ~(k < j)
        <4>1. (j < k => at(j) < at(k)) /\ (k < j => at(k) < at(j))
          BY <1>5, <3>1
        <4> HIDE DEF at
        <4> QED BY SMT, <3>1, <4>1
      <3> QED BY SMT, <3>1, <3>2
    <2>3. f \in Injection(P, 0 .. L - 1)
      BY <2>1, <2>2 DEF Injection, IsInjective
    <2>4. IsFiniteSet(0 .. L - 1) /\ Cardinality(0 .. L - 1) = L
      <3>1. 0 \in Int /\ L - 1 \in Int /\ L - 1 - 0 + 1 = L /\ ~(0 > L - 1)
        BY SMT
      <3> QED BY <3>1, FS_Interval
    <2>5. PICK T : IsFiniteSet(T) /\ Cardinality(T) = L /\ f \in Injection(P, T)
      BY <2>3, <2>4
    <2> HIDE DEF f
    <2>6. Cardinality(P) <= Cardinality(T)
      BY <2>5, FS_Injection
    <2> QED BY <2>5, <2>6
  <1>7. ASSUME NEW k \in S \ P PROVE Cardinality({j \in P : j < k}) >= L
    <2>1. S \ P \in SUBSET Nat /\ S \ P # {}
      BY <1>1
    <2>2. PICK i \in S \ P : \A j \in S \ P : i <= j
      BY <2>1, Least
    <2>3. at(i) \in Nat /\ ~(at(i) < L) /\ i \in Nat /\ k \in Nat /\ i <= k
      BY <1>1, <1>2, <1>4, <2>2
    <2>4. below(i) \in SUBSET {j \in P : j < k}
      <3>1. ASSUME NEW j \in S, j < i PROVE j \in P /\ j < k
        <4>1. j \in Nat
          BY <1>1
        <4>2. ~(i <= j) /\ j < k
          BY SMT, <2>3, <3>1, <4>1
        <4> QED BY <2>2, <4>2
      <3> QED BY <3>1
    <2>5. {j \in P : j < k} \in SUBSET P
      OBVIOUS
    <2>6. IsFiniteSet({j \in P : j < k}) /\ Cardinality({j \in P : j < k}) \in Nat
      BY <1>3, <2>5, FS_Subset, FS_CardinalityType
    <2>7. at(i) <= Cardinality({j \in P : j < k})
      <3> HIDE DEF below
      <3> QED BY <2>4, <2>6, FS_Subset
    <2> HIDE DEF at
    <2> QED BY SMT, <2>3, <2>6, <2>7
  <1>8. ASSUME Cardinality(P) < L PROVE P = S
    <2>1. ASSUME NEW k \in S \ P PROVE FALSE
      <3>1. {j \in P : j < k} \in SUBSET P
        OBVIOUS
      <3>2. Cardinality({j \in P : j < k}) <= Cardinality(P) /\ Cardinality({j \in P : j < k}) \in Nat
        BY <1>3, <3>1, FS_Subset, FS_CardinalityType
      <3>3. Cardinality({j \in P : j < k}) >= L
        BY <1>7
      <3> QED BY SMT, <1>3, <1>8, <3>2, <3>3
    <2> QED BY <1>2, <2>1
  <1>9. ASSUME Cardinality(P) >= L
        PROVE  /\ Max(P) \in P /\ \A j \in P : j <= Max(P)
               /\ \A k \in S : k <= Max(P) => k \in P
    <2>1. P # {}
      <3>1. Cardinality({}) = 0
        BY FS_EmptySet
      <3> QED BY SMT, <1>9, <3>1
    <2>2. P \in SUBSET Nat
      BY <1>1, <1>2
    <2>3. Max(P) \in P /\ \A j \in P : j <= Max(P)
      <3> QED BY <1>3, <2>1, <2>2, Greatest
    <2>4. ASSUME NEW k \in S, k <= Max(P) PROVE k \in P
      <3>1. PICK m \in P : m = Max(P)
        BY <2>3
      <3>2. m \in S /\ m \in Nat /\ k \in Nat /\ at(m) < L /\ at(m) \in Nat /\ at(k) \in Nat
        BY <1>1, <1>2, <1>4, <3>1
      <3>3. k < m => at(k) < at(m)
        BY <1>5, <3>2
      <3>4. k <= m
        BY <2>4, <3>1
      <3>5. k < m \/ k = m
        BY SMT, <3>2, <3>4
      <3>6. at(k) < L
        <4>1. CASE k = m
          BY <3>2, <4>1
        <4>2. CASE k < m
          <5>1. at(k) < at(m)
            BY <3>3, <4>2
          <5> HIDE DEF at
          <5> QED BY SMT, <3>2, <5>1
        <4> QED BY <3>5, <4>1, <4>2
      <3> QED BY <1>2, <3>6
    <2> QED BY <2>3, <2>4
  <1> QED BY <1>2, <1>3, <1>6, <1>7, <1>8, <1>9
-----------------------------------------------------------------------------
\* Keys and cursors are finitely many naturals.
LEMMA KeysAre ==
  IsFiniteSet(Keys \cup {0}) /\ Keys \cup {0} \in SUBSET Nat
PROOF
  <1>1. IsFiniteSet(Keys) /\ \A k \in Keys : k \in Nat
    BY SmartClientAssumption
  <1>2. 0 \in Nat
    BY SMT
  <1> QED BY <1>1, <1>2, FS_AddElement

\* what shard n has behind a cursor, and of that what is in the buckets bs
Held(n, c) == {k \in Keys : k > c /\ data[n][k] # Absent}
InBuckets(ks, bs) == {k \in ks : bucket_of[k] \in bs}
HeldIn(n, bs, c) == InBuckets(Held(n, c), bs)

\* f is the walk of scan_buckets: what it finds behind c
Finds(f, n, bs, c) ==
  LET page == scan_range(n, c, CHUNK)
  IN  InBuckets(page, bs) \cup IF Cardinality(page) = CHUNK THEN f[Max(page)] ELSE {}
IsWalk(f, n, bs) == f = [c \in Keys \cup {0} |-> Finds(f, n, bs, c)]

\* One chunk of scan_buckets, and what is behind it, is all there is behind the cursor.
LEMMA ChunkIs ==
  ASSUME NEW n, NEW bs, NEW c \in Keys \cup {0}, NEW page, page = scan_range(n, c, CHUNK)
  PROVE  /\ Cardinality(page) = CHUNK =>
              \E m \in Keys :
                /\ m = Max(page) /\ m > c
                /\ HeldIn(n, bs, c) = InBuckets(page, bs) \cup HeldIn(n, bs, m)
         /\ Cardinality(page) # CHUNK => HeldIn(n, bs, c) = InBuckets(page, bs)
PROOF
  <1> DEFINE S == Held(n, c)
  <1>0. CHUNK \in Nat \ {0} /\ S \in SUBSET Keys /\ page = First(S, CHUNK)
    BY SmartClientAssumption DEF Held, scan_range
  <1>1. /\ page \subseteq S /\ Cardinality(page) \in Nat /\ Cardinality(page) <= CHUNK
        /\ Cardinality(page) < CHUNK => page = S
        /\ Cardinality(page) >= CHUNK => /\ Max(page) \in page
                                         /\ \A k \in S : k <= Max(page) => k \in page
    BY <1>0, PageIs
  <1>2. CASE Cardinality(page) = CHUNK
    <2>0. Cardinality(page) >= CHUNK
      BY SMT, <1>0, <1>2
    <2>1. PICK m \in S : m = Max(page) /\ m \in page /\ \A k \in S : k <= m => k \in page
      BY <1>1, <2>0
    <2>2. m \in Keys /\ m > c
      BY <2>1 DEF Held
    <2>3. ASSUME NEW k \in Keys PROVE (k > m => k > c) /\ (~(k > m) => k <= m)
      <3>1. k \in Nat /\ m \in Nat /\ c \in Nat
        BY <2>2, KeysAre
      <3> QED BY SMT, <2>2, <3>1
    <2>4. ASSUME NEW k PROVE k \in S <=> k \in page \/ k \in Held(n, m)
      <3>1. k \in S => k \in page \/ k \in Held(n, m)
        BY <2>1, <2>3 DEF Held
      <3>2. k \in Held(n, m) => k \in S
        BY <2>3 DEF Held
      <3> QED BY <1>1, <3>1, <3>2
    <2>5. HeldIn(n, bs, c) = InBuckets(page, bs) \cup HeldIn(n, bs, m)
      <3> QED BY <2>4 DEF HeldIn, InBuckets
    <2> QED BY <1>2, <2>1, <2>2, <2>5
  <1>3. CASE Cardinality(page) # CHUNK
    <2>1. Cardinality(page) < CHUNK
      BY SMT, <1>0, <1>1, <1>3
    <2>2. page = S
      BY <1>1, <2>1
    <2>3. HeldIn(n, bs, c) = InBuckets(page, bs)
      BY <2>2 DEF HeldIn, InBuckets
    <2> QED BY <1>3, <2>3
  <1> QED BY <1>2, <1>3

\* So what is behind the cursor is a walk of scan_buckets,
LEMMA WalkExists ==
  ASSUME NEW n, NEW bs
  PROVE  IsWalk([c \in Keys \cup {0} |-> HeldIn(n, bs, c)], n, bs)
PROOF
  <1> DEFINE f == [c \in Keys \cup {0} |-> HeldIn(n, bs, c)]
  <1>1. ASSUME NEW c \in Keys \cup {0} PROVE HeldIn(n, bs, c) = Finds(f, n, bs, c)
    <2>0. PICK page : page = scan_range(n, c, CHUNK)
      OBVIOUS
    <2>1. CASE Cardinality(page) = CHUNK
      <3>1. PICK m \in Keys : /\ m = Max(page) /\ m > c
                              /\ HeldIn(n, bs, c) = InBuckets(page, bs) \cup HeldIn(n, bs, m)
        <4> HIDE DEF f
        <4> QED BY SMT, <2>0, <2>1, ChunkIs
      <3>2. f[m] = HeldIn(n, bs, m)
        BY <3>1
      <3> HIDE DEF f
      <3> QED BY <2>0, <2>1, <3>1, <3>2 DEF Finds
    <2>2. CASE Cardinality(page) # CHUNK
      <3>1. HeldIn(n, bs, c) = InBuckets(page, bs)
        BY SMT, <2>0, <2>2, ChunkIs
      <3> QED BY <2>0, <2>2, <3>1 DEF Finds
    <2> QED BY <2>1, <2>2
  <1>2. f = [c \in Keys \cup {0} |-> Finds(f, n, bs, c)]
    BY <1>1
  <1> QED BY <1>2 DEF IsWalk

\* What a walk finds behind one cursor.
LEMMA WalkAt ==
  ASSUME NEW n, NEW bs, NEW f, IsWalk(f, n, bs), NEW c \in Keys \cup {0}
  PROVE  f[c] = Finds(f, n, bs, c)
  BY DEF IsWalk, Finds, InBuckets

\* and there is no other: it would have to differ behind some last cursor.
LEMMA WalkUnique ==
  ASSUME NEW n, NEW bs, NEW f, IsWalk(f, n, bs), NEW c \in Keys \cup {0}
  PROVE  f[c] = HeldIn(n, bs, c)
PROOF
  <1> DEFINE T == {d \in Keys \cup {0} : f[d] # HeldIn(n, bs, d)}
  <1>0. Keys \cup {0} \in SUBSET Nat /\ IsFiniteSet(Keys \cup {0})
    BY KeysAre
  <1>1. SUFFICES ASSUME c \in T PROVE FALSE
    OBVIOUS
  <1>2. T \in SUBSET (Keys \cup {0}) /\ T \in SUBSET Nat
    BY <1>0
  <1>3. IsFiniteSet(T)
    BY <1>0, <1>2, FS_Subset
  <1>4. PICK d \in T : \A e \in T : e <= d
    BY <1>1, <1>2, <1>3, Greatest
  <1>5. d \in Keys \cup {0} /\ d \in Nat /\ f[d] # HeldIn(n, bs, d)
    BY <1>2, <1>4
  <1>6. f[d] = Finds(f, n, bs, d)
    BY <1>5, WalkAt
  <1> HIDE DEF T
  <1>9. PICK page : page = scan_range(n, d, CHUNK)
    OBVIOUS
  <1>7. CASE Cardinality(page) = CHUNK
    <2>1. PICK m \in Keys : /\ m = Max(page) /\ m > d
                            /\ HeldIn(n, bs, d) = InBuckets(page, bs) \cup HeldIn(n, bs, m)
      BY SMT, <1>5, <1>7, <1>9, ChunkIs
    <2>2. ~(m <= d)
      <3>1. m \in Nat
        BY <2>1, SmartClientAssumption
      <3> QED BY SMT, <1>5, <2>1, <3>1
    <2>3. f[m] = HeldIn(n, bs, m)
      BY <1>4, <2>1, <2>2 DEF T
    <2>4. Finds(f, n, bs, d) = InBuckets(page, bs) \cup f[m]
      BY <1>7, <1>9, <2>1 DEF Finds
    <2> QED BY ZenonT(60), <1>5, <1>6, <2>1, <2>3, <2>4
  <1>8. CASE Cardinality(page) # CHUNK
    <2>1. HeldIn(n, bs, d) = InBuckets(page, bs)
      BY SMT, <1>5, <1>8, <1>9, ChunkIs
    <2>2. Finds(f, n, bs, d) = InBuckets(page, bs)
      BY <1>8, <1>9 DEF Finds
    <2> QED BY ZenonT(60), <1>5, <1>6, <2>1, <2>2
  <1> QED BY <1>7, <1>8

\* scan_buckets returns the first keys of its buckets behind the cursor, whatever the size
\* of the chunks it looks at.
LEMMA BucketsPage ==
  ASSUME NEW n, NEW bs, NEW after \in Keys \cup {0}, NEW limit
  PROVE  scan_buckets(n, bs, after, limit) = First(HeldIn(n, bs, after), limit)
PROOF
  <1>1. \E f : IsWalk(f, n, bs)
    BY WalkExists
  <1>2. \E f : IsWalk(f, n, bs) /\ scan_buckets(n, bs, after, limit) = First(f[after], limit)
    BY <1>1 DEF scan_buckets, IsWalk, Finds, InBuckets
  <1>3. PICK f : IsWalk(f, n, bs) /\ scan_buckets(n, bs, after, limit) = First(f[after], limit)
    BY <1>2
  <1>4. f[after] = HeldIn(n, bs, after)
    BY <1>3, WalkUnique
  <1> QED BY <1>3, <1>4
-----------------------------------------------------------------------------
(***************************************************************************)
(* Scans.  A shard returns as many keys as a page has, and no key is       *)
(* spelled like RESP's cursor for the start.                               *)
(***************************************************************************)
Paging == Limit <= Cap /\ Zero = 0

ScanFields == {"pc", "kind", "todo", "after", "merged", "got", "twice", "must", "may"}

\* the first owner of a key by the client's view, whose partition has the key
Primary(k) == Ranked(bucket_of[k], view.members)[1]

\* the partition that is next, and the keys that a scan has left behind
Following(todo) == CHOOSE m \in todo : TRUE

Passed(s, k) ==
  IF scan[s].kind = "partitions"
  THEN \/ Primary(k) \notin scan[s].todo
       \/ Primary(k) = Following(scan[s].todo) /\ k <= scan[s].after
  ELSE k <= scan[s].after

\* RESP scans the keys of its shard
InView(s, k) == scan[s].kind = "resp" => scan[s].todo \subseteq Homes(k)

\* what is known of k while a scan runs: it is there, or it is not
Known(s, k) ==
  /\ k \in scan[s].must => ~Writing(k) /\ truth[k] # Absent /\ InView(s, k)
  /\ k \notin scan[s].may => ~Writing(k) /\ (truth[k] = Absent \/ ~InView(s, k))

\* once a live owner of k was asked for this page, k is in it, or a page of smaller keys
Offered(s, k) ==
  \A n \in Homes(k) \ (dead \cup scan[s].todo) :
    k \in scan[s].merged \/ Cardinality({j \in scan[s].merged : j < k}) >= Limit

Merging(s) ==
  /\ scan[s].merged \subseteq Keys
  /\ \A k \in scan[s].merged : k > scan[s].after /\ (k \in astray \/ k \in scan[s].may)
  /\ \A k \in scan[s].must \ astray : k > scan[s].after => Offered(s, k)

Exact(s) == ~scan[s].twice /\ scan[s].must \ astray \subseteq scan[s].got /\ scan[s].got \ astray \subseteq scan[s].may

ScanInv(s) ==
  /\ scan[s].pc = "done" /\ (scan[s].kind = "partitions" => dead = {}) => Exact(s)
  /\ scan[s].pc = "shards" =>
       /\ Stable /\ scan[s].kind \in {"cluster", "client", "partitions", "resp"}
       /\ scan[s].after \in Keys \cup {0} /\ ~scan[s].twice /\ scan[s].must \subseteq Keys
       /\ \A k \in Keys : Known(s, k)
       /\ \A k \in scan[s].got : k \in Keys /\ Passed(s, k) /\ (k \in astray \/ k \in scan[s].may)
       /\ (scan[s].kind = "partitions" => dead = {}) =>
            \A k \in scan[s].must \ astray : Passed(s, k) => k \in scan[s].got
       /\ scan[s].kind \in {"cluster", "client"} => Merging(s)
       /\ scan[s].kind = "partitions" => scan[s].todo \subseteq view.members
       /\ scan[s].kind = "resp" => \E n \in partitioner : scan[s].todo = {n}

ScansInv ==
  /\ DOMAIN scan = Scanners
  /\ \A s \in Scanners : DOMAIN scan[s] = ScanFields /\ ScanInv(s)
-----------------------------------------------------------------------------
\* The partition of a key is its first owner's.
LEMMA PrimaryIs ==
  ASSUME DirectInv, Stable, NEW k \in Keys
  PROVE  /\ Primary(k) \in view.members /\ Primary(k) \in Homes(k)
         /\ \A n : bucket_of[k] \in Primaries(n) <=> n = Primary(k)
PROOF
  <1> DEFINE b == bucket_of[k]
             S == view.members
             r == Ranked(b, S)
             c == Cardinality(S)
  <1>1. DataShape /\ MovesInOrder /\ Flat /\ mig.moved = {} /\ S = partitioner
    BY DEF DirectInv, MovesInOrder, Stable, Quiet, InStep
  <1>2. S \in SUBSET Nodes /\ S # {} /\ b \in Buckets /\ Homes(k) = Range(Top(b, S))
    <2>1. b \in Buckets /\ owners(k) = Top(b, partitioner)
      BY <1>1, HomesAre
    <2> QED BY <1>1, <2>1 DEF DataShape, Homes
  <1>3. c \in Nat /\ c # 0
    <2>1. IsFiniteSet(S)
      BY <1>2, PlacementAssumption, FS_Subset
    <2> QED BY <1>2, <2>1, FS_CardinalityType, FS_EmptySet
  <1>4. \A i \in 1 .. c : r[i] \in S
    BY <1>2, RankedList
  <1>5. r \in Seq(S) /\ Len(r) = c
    <2> DEFINE ranked(i) == CHOOSE n \in S : Cardinality({m \in S : Score[b][m] > Score[b][n]}) = i - 1
    <2>1. r = [i \in 1 .. c |-> ranked(i)]
      BY DEF Ranked
    <2> HIDE DEF r, c, S, ranked
    <2>2. PICK f : f = r /\ f = [i \in 1 .. c |-> ranked(i)] /\ \A i \in 1 .. c : f[i] \in S
      BY <1>4, <2>1
    <2>3. f \in [1 .. c -> S]
      BY <2>2
    <2>4. f \in Seq(S) /\ Len(f) = c
      BY SMT, <1>3, <2>3
    <2> QED BY <2>2, <2>4
  <1>6. Primary(k) = r[1] /\ r[1] \in S
    <2>1. 1 \in 1 .. c
      BY SMT, <1>3
    <2> QED BY <1>4, <2>1 DEF Primary
  <1>7. ASSUME NEW m \in Nat \ {0} PROVE Take(r, m) # <<>> /\ Head(Take(r, m)) = r[1]
    <2>1. AtMost(m, c) \in 1 .. c
      BY SMT, <1>3 DEF AtMost
    <2>2. Take(r, m) = SubSeq(r, 1, AtMost(m, c))
      BY <1>5 DEF Take
    <2> HIDE DEF r, c
    <2> QED BY SMT, <1>3, <1>5, <2>1, <2>2
  <1>8. Take(r, 1) = <<r[1]>>
    <2>1. AtMost(1, c) = 1
      BY SMT, <1>3 DEF AtMost
    <2>2. Take(r, 1) = SubSeq(r, 1, 1)
      BY <1>5, <2>1 DEF Take
    <2> HIDE DEF r, c
    <2> QED BY SMT, <1>3, <1>5, <2>2
  <1>9. r[1] \in Homes(k)
    <2>1. Top(b, S) = Take(r, ReplTarget) /\ ReplTarget \in Nat \ {0}
      BY SmartClientAssumption DEF Top
    <2>2. Head(Top(b, S)) = r[1]
      BY <1>7, <2>1
    <2>3. Head(Top(b, S)) \in Range(Top(b, S))
      BY <1>1, <1>2, OwnersAreTop
    <2> QED BY <1>2, <2>2, <2>3
  <1>10. ASSUME NEW n PROVE b \in Primaries(n) <=> n = r[1]
    <2>1. b \in Primaries(n) <=> Take(r, 1) = <<n>>
      BY <1>2 DEF Primaries
    <2>2. <<r[1]>> = <<n>> <=> n = r[1]
      BY SMT
    <2> QED BY <1>8, <2>1, <2>2
  <1> QED BY <1>6, <1>9, <1>10

\* A live shard has a key that nobody writes if and only if it is an owner and the key is there.
LEMMA AtRest ==
  ASSUME DirectInv, NEW n \in Nodes \ dead, NEW k \in Keys \ astray, ~Writing(k)
  PROVE  data[n][k] = IF n \in Homes(k) THEN truth[k] ELSE Absent
PROOF
  <1>1. KeyInv(k) /\ ~Storing(k)
    BY DEF DirectInv, Storing, Writing, HasValue
  <1> QED BY <1>1 DEF KeyInv, Settled, Rest

\* What a scan asks for is on every live owner,
LEMMA Present ==
  ASSUME DirectInv, NEW s \in Scanners, ScanInv(s), scan[s].pc = "shards",
         NEW k \in scan[s].must \ astray, NEW n \in Homes(k) \ dead
  PROVE  k \in Keys /\ n \in Nodes /\ data[n][k] # Absent
PROOF
  <1>1. k \in Keys /\ Known(s, k)
    BY DEF ScanInv
  <1>2. ~Writing(k) /\ truth[k] # Absent
    BY <1>1 DEF Known
  <1>3. n \in Nodes
    BY <1>1, HomesAre DEF DirectInv
  <1> QED BY <1>1, <1>2, <1>3, AtRest

\* and what a live shard has may be returned.
LEMMA Possible ==
  ASSUME DirectInv, NEW s \in Scanners, ScanInv(s), scan[s].pc = "shards",
         NEW n \in Nodes \ dead, NEW k \in Keys, data[n][k] # Absent,
         scan[s].kind = "resp" => scan[s].todo = {n}
  PROVE  k \in astray \/ k \in scan[s].may
PROOF
  <1>1. SUFFICES ASSUME k \notin astray, k \notin scan[s].may PROVE FALSE
    OBVIOUS
  <1>2. ~Writing(k) /\ (truth[k] = Absent \/ ~InView(s, k))
    BY <1>1 DEF ScanInv, Known
  <1>3. n \in Homes(k) /\ truth[k] # Absent
    BY <1>1, <1>2, AtRest
  <1> QED BY <1>2, <1>3 DEF InView

\* What a step must leave of a scan.
LEMMA ScanKept ==
  ASSUME NEW s \in Scanners, ScanInv(s),
         scan'[s].pc = scan[s].pc, scan'[s].kind = scan[s].kind, scan'[s].todo = scan[s].todo,
         scan'[s].after = scan[s].after, scan'[s].merged = scan[s].merged,
         scan'[s].got = scan[s].got, scan'[s].twice = scan[s].twice,
         scan'[s].must \subseteq scan[s].must, scan[s].may \subseteq scan'[s].may,
         dead \subseteq dead', astray \subseteq astray',
         Stable => /\ Stable' /\ partitioner' = partitioner /\ view'.members = view.members
                   /\ \A k \in Keys : Homes(k)' = Homes(k),
         Stable => \A k \in Keys : ~Writing(k) /\ (k \in scan'[s].must \/ k \notin scan'[s].may) =>
                     ~Writing(k)' /\ truth'[k] = truth[k]
  PROVE  ScanInv(s)'
PROOF
  <1>1. scan'[s].pc = "done" /\ (scan'[s].kind = "partitions" => dead' = {}) => Exact(s)'
    BY DEF ScanInv, Exact
  <1>2. ASSUME scan[s].pc = "shards" PROVE ScanInv(s)'
    <2>1. /\ Stable /\ scan[s].kind \in {"cluster", "client", "partitions", "resp"}
          /\ scan[s].after \in Keys \cup {0} /\ ~scan[s].twice /\ scan[s].must \subseteq Keys
      BY <1>2 DEF ScanInv
    <2>2. /\ Stable' /\ partitioner' = partitioner /\ view'.members = view.members
          /\ \A k \in Keys : Homes(k)' = Homes(k)
      BY <2>1
    <2>3. ASSUME NEW k \in Keys PROVE (Passed(s, k)' <=> Passed(s, k)) /\ (InView(s, k)' <=> InView(s, k))
      BY <2>2 DEF Passed, InView, Primary
    <2>4. ASSUME NEW k \in Keys PROVE Known(s, k)'
      <3>1. Known(s, k)
        BY <1>2 DEF ScanInv
      <3> QED BY <2>1, <2>3, <3>1 DEF Known
    <2>5. \A k \in scan[s].got : k \in Keys /\ Passed(s, k) /\ (k \in astray \/ k \in scan[s].may)
      BY <1>2 DEF ScanInv
    <2>6. \A k \in scan'[s].got : k \in Keys /\ Passed(s, k)' /\ (k \in astray' \/ k \in scan'[s].may)
      BY <2>3, <2>5
    <2>7. (scan[s].kind = "partitions" => dead = {}) =>
            \A k \in scan[s].must \ astray : Passed(s, k) => k \in scan[s].got
      BY <1>2 DEF ScanInv
    <2>8. (scan'[s].kind = "partitions" => dead' = {}) =>
            \A k \in scan'[s].must \ astray' : Passed(s, k)' => k \in scan'[s].got
      BY <2>1, <2>3, <2>7
    <2>9. ASSUME scan[s].kind \in {"cluster", "client"} PROVE Merging(s)'
      <3>1. Merging(s)
        BY <1>2, <2>9 DEF ScanInv
      <3>2. ASSUME NEW k \in scan'[s].must \ astray', k > scan'[s].after PROVE Offered(s, k)'
        <4>1. Offered(s, k) /\ Homes(k)' = Homes(k)
          BY <2>1, <2>2, <3>1, <3>2 DEF Merging
        <4> QED BY <4>1 DEF Offered
      <3> QED BY <3>1, <3>2 DEF Merging
    <2>10. /\ scan[s].kind = "partitions" => scan[s].todo \subseteq view.members
           /\ scan[s].kind = "resp" => \E n \in partitioner : scan[s].todo = {n}
      BY <1>2 DEF ScanInv
    <2> QED BY <1>2, <2>1, <2>2, <2>4, <2>6, <2>8, <2>9, <2>10 DEF ScanInv
  <1> QED BY <1>1, <1>2 DEF ScanInv
-----------------------------------------------------------------------------
\* Whom a scan asks.
LEMMA ShardsAre ==
  ASSUME NEW n
  PROVE  /\ Shards("cluster", n) = clients /\ Shards("client", n) = view.clients
         /\ Shards("partitions", n) = {m \in view.members : Primaries(m) # {}}
         /\ Shards("resp", n) = {n}
PROOF
  <1> USE DEF Shards
  <1>1. Shards("cluster", n) = clients
    OBVIOUS
  <1>2. Shards("client", n) = view.clients
    OBVIOUS
  <1>3. Shards("partitions", n) = {m \in view.members : Primaries(m) # {}}
    OBVIOUS
  <1>4. Shards("resp", n) = {n}
    OBVIOUS
  <1> QED BY <1>1, <1>2, <1>3, <1>4

\* What a step of scan s must show: the others are as they were.
LEMMA OneScan ==
  ASSUME ScansInv, NEW s \in Scanners, UNCHANGED <<cluster, view, dead, write, truth, astray>>,
         NEW new, scan' = [scan EXCEPT ![s] = new], DOMAIN new = ScanFields, ScanInv(s)'
  PROVE  ScansInv'
PROOF
  <1>1. scan'[s] = new /\ DOMAIN scan' = Scanners /\ \A x \in Scanners \ {s} : scan'[x] = scan[x]
    BY DEF ScansInv
  <1>2. ASSUME NEW x \in Scanners \ {s} PROVE ScanInv(x)'
    <2>1. ScanInv(x) /\ scan'[x] = scan[x]
      BY <1>1 DEF ScansInv
    <2>2. (\A k \in Keys : Homes(k)' = Homes(k)) /\ (Stable => Stable') /\ partitioner' = partitioner
      BY SameRouting DEF cluster
    <2>3. \A k \in Keys : ~Writing(k) => ~Writing(k)' /\ truth'[k] = truth[k]
      BY DEF Writing
    <2> QED BY <2>1, <2>2, <2>3, ScanKept
  <1> QED BY <1>1, <1>2 DEF ScansInv

\* A scan begins: nothing is left behind, and every owner is to be asked.
LEMMA ScanBegun ==
  ASSUME DirectInv, ScansInv, NEW s \in Scanners, NEW kind \in {"cluster", "client", "partitions", "resp"},
         NEW n, kind = "resp" => n \in partitioner, ScanStart(s, kind, n)
  PROVE  ScansInv'
PROOF
  <1> DEFINE there == {k \in Keys : truth[k] # Absent /\ (kind = "resp" => n \in Range(owners(k)))}
             unsure == {k \in Keys : Writing(k)}
             new == [IdleScan EXCEPT !.pc = "shards", !.kind = kind, !.todo = Shards(kind, n),
                                     !.must = there \ unsure, !.may = there \cup unsure]
  <1>1. /\ scan' = [scan EXCEPT ![s] = new] /\ Stable
        /\ UNCHANGED <<cluster, data, view, dead, write, truth, astray>>
    BY DEF ScanStart, history
  <1>2. /\ (\A k : Homes(k)' = Homes(k)) /\ Stable' /\ (\A k : Writing(k)' <=> Writing(k))
        /\ partitioner' = partitioner /\ \A k : Primary(k)' = Primary(k)
    BY <1>1, SameRouting DEF Writing, cluster, Primary
  <1> HIDE DEF there, unsure
  <1>3. /\ DOMAIN new = ScanFields
        /\ new.pc = "shards" /\ new.kind = kind /\ new.todo = Shards(kind, n) /\ new.after = 0
        /\ new.merged = {} /\ new.got = {} /\ ~new.twice
        /\ new.must = there \ unsure /\ new.may = there \cup unsure
    BY SMT DEF IdleScan, ScanFields
  <1> HIDE DEF new
  <1>4. scan'[s] = new
    BY <1>1 DEF ScansInv
  <1>14. ASSUME kind = "partitions" PROVE new.todo = {m \in view.members : Primaries(m) # {}}
    <2>1. Shards("partitions", n) = {m \in view.members : Primaries(m) # {}}
      BY ShardsAre
    <2> QED BY <1>3, <1>14, <2>1
  <1>5. ASSUME NEW k \in Keys PROVE ~(k <= 0)
    <2>1. k \in Nat \ {0}
      BY SmartClientAssumption
    <2> QED BY SMT, <2>1
  <1>6. ASSUME NEW k \in Keys PROVE InView(s, k)' <=> (kind = "resp" => n \in Homes(k))
    <2>1. kind = "resp" => new.todo = {n}
      BY <1>3, ShardsAre
    <2> QED BY <1>2, <1>3, <1>4, <2>1 DEF InView
  <1>7. ASSUME NEW k \in Keys PROVE Known(s, k)'
    <2>1. k \in there <=> truth[k] # Absent /\ (kind = "resp" => n \in Homes(k))
      BY DEF there, Homes
    <2>2. k \in unsure <=> Writing(k)
      BY DEF unsure
    <2> QED BY <1>1, <1>2, <1>3, <1>4, <1>6, <2>1, <2>2 DEF Known
  <1>8. ASSUME NEW k \in Keys PROVE ~Passed(s, k)'
    <2>1. CASE kind = "partitions"
      <3>1. Primary(k) \in view.members /\ bucket_of[k] \in Primaries(Primary(k))
        BY <1>1, PrimaryIs
      <3>2. Primary(k) \in new.todo
        BY <1>14, <2>1, <3>1
      <3> QED BY <1>2, <1>3, <1>4, <1>5, <2>1, <3>2 DEF Passed
    <2>2. CASE kind # "partitions"
      BY <1>3, <1>4, <1>5, <2>2 DEF Passed
    <2> QED BY <2>1, <2>2
  <1>9. ASSUME kind \in {"cluster", "client"} PROVE Merging(s)'
    <2>1. clients = view.clients
      BY <1>1 DEF Stable, InStep
    <2>2. new.todo = view.clients
      BY <1>3, <1>9, <2>1, ShardsAre
    <2>3. ASSUME NEW k \in Keys PROVE Offered(s, k)'
      <3>1. Homes(k) \subseteq view.clients
        BY <1>1, HomesAre DEF DirectInv
      <3> QED BY <1>2, <1>3, <1>4, <2>2, <3>1 DEF Offered
    <2>4. new.must \subseteq Keys
      BY <1>3 DEF there
    <2> QED BY <1>3, <1>4, <2>3, <2>4 DEF Merging
  <1>10. new.must \subseteq Keys
    BY <1>3 DEF there
  <1>11. kind = "partitions" => new.todo \subseteq view.members
    BY <1>14
  <1>12. kind = "resp" => new.todo = {n}
    BY <1>3, ShardsAre
  <1>13. ScanInv(s)'
    BY ZenonT(60), <1>1, <1>2, <1>3, <1>4, <1>7, <1>8, <1>9, <1>10, <1>11, <1>12 DEF ScanInv
  <1> QED BY <1>1, <1>3, <1>13, OneScan

\* A shard of a page is asked.
LEMMA ShardAsked ==
  ASSUME DirectInv, ScansInv, Paging, NEW s \in Scanners, NEW n \in Nodes, ScanShard(s, n)
  PROVE  ScansInv'
PROOF
  <1> DEFINE after == scan[s].after
             got == scan_range(n, after, AtMost(Limit, Cap))
             merged == IF n \in dead THEN scan[s].merged ELSE scan[s].merged \cup got
             new == [scan[s] EXCEPT !.todo = @ \ {n}, !.merged = merged]
  <1>0. DOMAIN scan = Scanners /\ DOMAIN scan[s] = ScanFields /\ ScanInv(s)
    BY DEF ScansInv
  <1>1. /\ scan[s].pc = "shards" /\ scan[s].kind \in {"cluster", "client"}
        /\ UNCHANGED <<cluster, data, view, dead, write, truth, astray>>
    BY DEF ScanShard, history, env
  <1>2. scan' = [scan EXCEPT ![s] = new]
    BY <1>0 DEF ScanShard
  <1>3. /\ (\A k : Homes(k)' = Homes(k)) /\ (Stable <=> Stable') /\ (\A k : Writing(k)' <=> Writing(k))
        /\ partitioner' = partitioner
    BY <1>1, SameRouting DEF Writing, cluster
  <1> HIDE DEF merged
  <1>4. /\ DOMAIN new = ScanFields /\ new.pc = "shards" /\ new.kind = scan[s].kind
        /\ new.todo = scan[s].todo \ {n} /\ new.after = after /\ new.merged = merged
        /\ new.got = scan[s].got /\ new.twice = scan[s].twice
        /\ new.must = scan[s].must /\ new.may = scan[s].may
    BY <1>0, <1>1 DEF ScanFields
  <1> HIDE DEF new
  <1>5. scan'[s] = new
    BY <1>0, <1>2
  <1>6. Merging(s) /\ scan[s].must \subseteq Keys /\ scan[s].kind # "resp" /\ scan[s].kind # "partitions"
    BY <1>0, <1>1 DEF ScanInv
  <1>7. Limit \in Nat \ {0} /\ AtMost(Limit, Cap) = Limit
    <2>1. Limit \in Nat \ {0} /\ Cap \in Nat /\ Limit <= Cap
      BY SmartClientAssumption DEF Paging
    <2> QED BY SMT, <2>1 DEF AtMost
  <1>8. /\ got \subseteq Held(n, after) /\ IsFiniteSet(got)
        /\ \A k \in Held(n, after) \ got : Cardinality({j \in got : j < k}) >= Limit
    <2>1. PICK S \in SUBSET Keys : S = Held(n, after)
      BY DEF Held
    <2>2. PICK P : P = got
      OBVIOUS
    <2>3. P = First(S, Limit)
      BY ZenonT(60), <1>7, <2>1, <2>2 DEF scan_range, Held
    <2>4. P \subseteq S /\ IsFiniteSet(P) /\ \A k \in S \ P : Cardinality({j \in P : j < k}) >= Limit
      BY SMT, <1>7, <2>1, <2>3, PageIs
    <2> QED BY <2>1, <2>2, <2>4
  <1>9. merged \subseteq Keys /\ scan[s].merged \subseteq merged
    BY <1>6, <1>8 DEF Merging, Held, merged
  <1>10. ASSUME NEW k \in merged PROVE k > after /\ (k \in astray \/ k \in scan[s].may)
    <2>1. CASE k \in scan[s].merged
      BY <1>6, <2>1 DEF Merging
    <2>2. CASE k \notin scan[s].merged
      <3>1. k \in Held(n, after) /\ n \notin dead
        BY <1>8, <1>10, <2>2 DEF merged
      <3>2. k > after /\ k \in Keys /\ data[n][k] # Absent
        BY <3>1 DEF Held
      <3> QED BY <1>0, <1>1, <1>6, <3>1, <3>2, Possible
    <2> QED BY <2>1, <2>2
  <1>11. ASSUME NEW k, NEW P \in SUBSET merged, Cardinality({j \in P : j < k}) >= Limit
         PROVE  Cardinality({j \in merged : j < k}) >= Limit
    <2>1. {j \in P : j < k} \in SUBSET {j \in merged : j < k} /\ {j \in merged : j < k} \in SUBSET Keys
      BY <1>9
    <2>2. IsFiniteSet({j \in merged : j < k})
      BY <2>1, SmartClientAssumption, FS_Subset
    <2>3. Cardinality({j \in P : j < k}) <= Cardinality({j \in merged : j < k}) /\ IsFiniteSet({j \in P : j < k})
      BY <2>1, <2>2, FS_Subset
    <2>4. Cardinality({j \in P : j < k}) \in Nat /\ Cardinality({j \in merged : j < k}) \in Nat
      BY <2>2, <2>3, FS_CardinalityType
    <2> QED BY SMT, <1>7, <1>11, <2>3, <2>4
  <1>12. ASSUME NEW k \in scan[s].must \ astray, k > after PROVE Offered(s, k)'
    <2>1. Offered(s, k)
      BY <1>6, <1>12 DEF Merging
    <2>2. ASSUME NEW m \in Homes(k) \ (dead \cup new.todo)
          PROVE  k \in merged \/ Cardinality({j \in merged : j < k}) >= Limit
      <3>1. CASE m # n
        <4>1. k \in scan[s].merged \/ Cardinality({j \in scan[s].merged : j < k}) >= Limit
          BY <1>4, <2>1, <2>2, <3>1 DEF Offered
        <4> QED BY <1>9, <1>11, <4>1
      <3>2. CASE m = n
        <4>1. n \in Homes(k) \ dead
          BY <2>2, <3>2
        <4>2. k \in Keys /\ data[n][k] # Absent
          BY <1>0, <1>1, <4>1, Present
        <4>3. k \in Held(n, after) /\ got \subseteq merged
          BY <1>12, <4>1, <4>2 DEF Held, merged
        <4>4. k \in got \/ Cardinality({j \in got : j < k}) >= Limit
          BY <1>8, <4>3
        <4>5. PICK P \in SUBSET merged : P = got
          BY <4>3
        <4> QED BY <1>11, <4>4, <4>5
      <3> QED BY <3>1, <3>2
    <2> QED BY <1>1, <1>3, <1>4, <1>5, <2>2 DEF Offered
  <1>13. Merging(s)'
    BY <1>1, <1>4, <1>5, <1>9, <1>10, <1>12 DEF Merging
  <1>14. ASSUME NEW k \in Keys PROVE (Passed(s, k)' <=> Passed(s, k)) /\ (Known(s, k) => Known(s, k)')
    <2>1. InView(s, k)' /\ InView(s, k)
      BY <1>4, <1>5, <1>6 DEF InView
    <2> QED BY <1>1, <1>3, <1>4, <1>5, <1>6, <2>1 DEF Passed, Known
  <1>15. ScanInv(s)'
    <2>1. /\ Stable /\ after \in Keys \cup {0} /\ ~scan[s].twice /\ (\A k \in Keys : Known(s, k))
          /\ \A k \in scan[s].got : k \in Keys /\ Passed(s, k) /\ (k \in astray \/ k \in scan[s].may)
          /\ \A k \in scan[s].must \ astray : Passed(s, k) => k \in scan[s].got
      BY <1>0, <1>1, <1>6 DEF ScanInv
    <2>2. /\ Stable' /\ after \in Keys \cup {0} /\ ~new.twice /\ (\A k \in Keys : Known(s, k)')
          /\ \A k \in new.got : k \in Keys /\ Passed(s, k)' /\ (k \in astray' \/ k \in new.may)
          /\ \A k \in new.must \ astray' : Passed(s, k)' => k \in new.got
      BY <1>1, <1>3, <1>4, <1>6, <1>14, <2>1
    <2> QED BY <1>1, <1>4, <1>5, <1>6, <1>13, <2>2 DEF ScanInv
  <1> QED BY <1>1, <1>2, <1>4, <1>15, OneScan
-----------------------------------------------------------------------------
\* A page keeps the promise of a scan if it has keys that the scan has not passed, that may
\* be returned, and among them all those to be returned that the scan passes with it.
LEMMA PageReturned ==
  ASSUME DirectInv, ScansInv, NEW s \in Scanners, scan[s].pc = "shards",
         UNCHANGED <<cluster, data, view, dead, write, truth, astray>>,
         NEW page \in SUBSET Keys, NEW new, scan' = [scan EXCEPT ![s] = new], DOMAIN new = ScanFields,
         /\ new.kind = scan[s].kind /\ new.got = scan[s].got \cup page /\ new.merged = {}
         /\ new.twice = (scan[s].twice \/ page \cap scan[s].got # {})
         /\ new.must = scan[s].must /\ new.may = scan[s].may /\ new.pc \in {"shards", "done"},
         \A k \in page : ~Passed(s, k) /\ (k \in astray \/ k \in scan[s].may),
         (scan[s].kind = "partitions" => dead = {}) =>
           \A k \in scan[s].must \ astray : new.pc = "done" \/ Passed(s, k)' => Passed(s, k) \/ k \in page,
         new.pc = "shards" =>
           /\ new.after \in Keys \cup {0}
           /\ \A k \in Keys : Passed(s, k) \/ k \in page => Passed(s, k)'
           /\ scan[s].kind \in {"cluster", "client"} => new.todo = view.clients
           /\ scan[s].kind = "partitions" => new.todo \subseteq scan[s].todo
           /\ scan[s].kind = "resp" => new.todo = scan[s].todo
  PROVE  ScansInv'
PROOF
  <1>1. scan'[s] = new /\ ScanInv(s)
    BY DEF ScansInv
  <1>2. /\ (\A k : Homes(k)' = Homes(k)) /\ (Stable <=> Stable') /\ (\A k : Writing(k)' <=> Writing(k))
        /\ partitioner' = partitioner
    BY SameRouting DEF Writing, cluster
  <1>3. /\ Stable /\ scan[s].kind \in {"cluster", "client", "partitions", "resp"}
        /\ ~scan[s].twice /\ scan[s].must \subseteq Keys /\ (\A k \in Keys : Known(s, k))
        /\ \A k \in scan[s].got : k \in Keys /\ Passed(s, k) /\ (k \in astray \/ k \in scan[s].may)
    BY <1>1 DEF ScanInv
  <1>4. (scan[s].kind = "partitions" => dead = {}) =>
           \A k \in scan[s].must \ astray : Passed(s, k) => k \in scan[s].got
    BY <1>1 DEF ScanInv
  <1>5. ~new.twice
    <2>1. page \cap scan[s].got = {}
      BY <1>3
    <2> QED BY <1>3, <2>1
  <1>6. \A k \in new.got : k \in Keys /\ (k \in astray \/ k \in new.may)
    BY <1>3
  <1>7. (scan[s].kind = "partitions" => dead = {}) =>
           \A k \in new.must \ astray : new.pc = "done" \/ Passed(s, k)' => k \in new.got
    BY <1>4
  <1>8. CASE new.pc = "done"
    <2>1. new.got \ astray \subseteq new.may
      BY <1>6
    <2>2. (scan[s].kind = "partitions" => dead = {}) => new.must \ astray \subseteq new.got
      BY <1>7, <1>8
    <2>3. ScanInv(s)'
      BY ZenonT(60), <1>1, <1>5, <1>8, <2>1, <2>2 DEF ScanInv, Exact
    <2> QED BY <2>3, OneScan
  <1>9. CASE new.pc = "shards"
    <2>1. ASSUME NEW k \in Keys PROVE Known(s, k)'
      <3>1. Known(s, k) /\ (InView(s, k)' <=> InView(s, k))
        BY <1>1, <1>2, <1>3, <1>9 DEF InView
      <3> QED BY <1>1, <1>2, <3>1 DEF Known
    <2>2. ASSUME scan[s].kind \in {"cluster", "client"} PROVE Merging(s)'
      <3>1. ASSUME NEW k \in Keys PROVE Offered(s, k)'
        <4>1. Homes(k) \subseteq view.clients
          BY <1>3, HomesAre DEF DirectInv
        <4> QED BY <1>1, <1>2, <1>9, <2>2, <4>1 DEF Offered
      <3> QED BY <1>1, <1>3, <3>1 DEF Merging
    <2>3. \A k \in new.got : k \in Keys /\ Passed(s, k)' /\ (k \in astray \/ k \in new.may)
      BY <1>3, <1>9
    <2>4. /\ scan[s].kind = "partitions" => scan[s].todo \subseteq view.members
          /\ scan[s].kind = "resp" => \E n \in partitioner : scan[s].todo = {n}
      BY <1>1 DEF ScanInv
    <2>5. ScanInv(s)'
      BY ZenonT(60), <1>1, <1>2, <1>3, <1>5, <1>7, <1>9, <2>1, <2>2, <2>3, <2>4 DEF ScanInv
    <2> QED BY <2>5, OneScan
  <1> QED BY <1>8, <1>9

\* The merged page of all shards.
LEMMA PageMerged ==
  ASSUME DirectInv, Lasting, AliveInv, ScansInv, NEW s \in Scanners, ScanPage(s)
  PROVE  ScansInv'
PROOF
  <1> DEFINE merged == scan[s].merged
             after == scan[s].after
             sc(page) == Collected(scan[s], page)
             full(page) == [sc(page) EXCEPT !.after = Max(page), !.todo = Shards(sc(page).kind, {})]
             last(page) == [sc(page) EXCEPT !.pc = "done"]
  <1>0. DOMAIN scan = Scanners /\ DOMAIN scan[s] = ScanFields /\ ScanInv(s)
    BY DEF ScansInv
  <1>1. PICK page : page = First(merged, Limit)
    OBVIOUS
  <1>2. /\ scan[s].pc = "shards" /\ scan[s].kind \in {"cluster", "client"} /\ scan[s].todo = {}
        /\ UNCHANGED <<cluster, data, view, dead, write, truth, astray>>
        /\ scan' = [scan EXCEPT ![s] = IF Cardinality(page) >= Limit THEN full(page) ELSE last(page)]
    BY <1>1 DEF ScanPage, Cursor, history, env
  <1>3. /\ Stable /\ Merging(s) /\ scan[s].must \subseteq Keys /\ after \in Keys \cup {0}
        /\ scan[s].kind # "partitions" /\ scan[s].kind # "resp"
    BY <1>0, <1>2 DEF ScanInv
  <1>4. /\ merged \in SUBSET Keys /\ Limit \in Nat \ {0}
        /\ \A k \in merged : k > after /\ (k \in astray \/ k \in scan[s].may)
        /\ \A k \in scan[s].must \ astray : k > after => Offered(s, k)
    BY ZenonT(60), <1>3, SmartClientAssumption DEF Merging
  <1>5. /\ page \subseteq merged /\ IsFiniteSet(page) /\ Cardinality(page) \in Nat
        /\ \A k \in merged \ page : Cardinality({j \in page : j < k}) >= Limit
        /\ Cardinality(page) < Limit => page = merged
        /\ Cardinality(page) >= Limit => /\ Max(page) \in page /\ \A j \in page : j <= Max(page)
                                         /\ \A k \in merged : k <= Max(page) => k \in page
    <2>1. PICK S \in SUBSET Keys : S = merged
      BY <1>4
    <2> QED BY SMT, <1>1, <1>4, <2>1, PageIs
  <1>6. \A k \in Keys : k \in Nat
    BY KeysAre
  <1>7. after \in Nat
    BY <1>3, KeysAre
  <1>8. ASSUME NEW k \in page PROVE ~Passed(s, k) /\ (k \in astray \/ k \in scan[s].may)
    <2>1. k \in merged /\ k \in Nat /\ k > after
      BY <1>4, <1>5, <1>6
    <2>2. ~(k <= after)
      BY SMT, <1>7, <2>1
    <2> QED BY <1>3, <1>4, <2>1, <2>2 DEF Passed
  <1>9. ASSUME NEW k \in scan[s].must \ astray, ~Passed(s, k)
        PROVE  k \in merged \/ Cardinality({j \in merged : j < k}) >= Limit
    <2>1. k \in Keys /\ k \in Nat /\ ~(k <= after)
      BY <1>3, <1>6, <1>9 DEF Passed
    <2>2. k > after
      BY SMT, <1>7, <2>1
    <2>3. Homes(k) \ dead # {}
      BY <1>3, <2>1, SomeoneAlive
    <2> QED BY <1>2, <1>4, <2>2, <2>3 DEF Offered
  <1>10. ASSUME NEW k PROVE IsFiniteSet({j \in merged : j < k}) /\ Cardinality({j \in merged : j < k}) \in Nat
    <2>1. {j \in merged : j < k} \in SUBSET Keys
      BY <1>4
    <2>2. IsFiniteSet({j \in merged : j < k})
      BY ZenonT(60), <2>1, SmartClientAssumption, FS_Subset
    <2> QED BY <2>2, FS_CardinalityType
  <1>11. page \in SUBSET Keys
    BY <1>4, <1>5
  <1> HIDE DEF merged, after
  <1>12. CASE Cardinality(page) >= Limit
    <2>1. PICK m \in page : m = Max(page) /\ (\A j \in page : j <= m) /\ \A k \in merged : k <= m => k \in page
      BY <1>5, <1>12
    <2>2. PICK new : new = full(page)
      OBVIOUS
    <2>3. scan' = [scan EXCEPT ![s] = new]
      BY <1>2, <1>12, <2>2
    <2>4. /\ DOMAIN new = ScanFields /\ new.pc = "shards" /\ new.kind = scan[s].kind
          /\ new.after = m /\ new.todo = Shards(scan[s].kind, {}) /\ new.merged = {}
          /\ new.got = scan[s].got \cup page /\ new.twice = (scan[s].twice \/ page \cap scan[s].got # {})
          /\ new.must = scan[s].must /\ new.may = scan[s].may
      <3>1. PICK c : c = sc(page) /\ c = Collected(scan[s], page)
        OBVIOUS
      <3>2. /\ DOMAIN c = ScanFields /\ c.pc = scan[s].pc /\ c.kind = scan[s].kind
            /\ c.merged = {} /\ c.got = scan[s].got \cup page
            /\ c.twice = (scan[s].twice \/ page \cap scan[s].got # {})
            /\ c.must = scan[s].must /\ c.may = scan[s].may
        BY <1>0, <3>1 DEF Collected, ScanFields
      <3>3. new = [c EXCEPT !.after = m, !.todo = Shards(c.kind, {})]
        BY <2>1, <2>2, <3>1
      <3> HIDE DEF sc, full, last
      <3> QED BY <1>2, <3>2, <3>3 DEF ScanFields
    <2>5. new.todo = view.clients
      <3>1. clients = view.clients
        BY <1>3 DEF Stable, InStep
      <3> QED BY <1>2, <2>4, <3>1, ShardsAre
    <2>6. scan'[s] = new
      BY <1>0, <2>3
    <2>7. ASSUME NEW k \in Keys PROVE (Passed(s, k)' <=> k <= m) /\ (Passed(s, k) <=> k <= after)
      BY <1>3, <2>4, <2>6 DEF Passed, after
    <2>8. m \in Keys /\ m \in Nat /\ m > after /\ m \in merged
      BY <1>4, <1>5, <1>6, <2>1
    <2>9. ASSUME NEW k \in Keys, Passed(s, k) \/ k \in page PROVE Passed(s, k)'
      <3>1. CASE k \in page
        BY <2>1, <2>7, <3>1
      <3>2. CASE k <= after
        <4>1. k \in Nat
          BY <1>6
        <4>2. k <= m
          BY SMTT(30), <1>7, <2>8, <3>2, <4>1
        <4> QED BY <2>7, <4>2
      <3> QED BY <2>7, <2>9, <3>1, <3>2
    <2>10. ASSUME NEW k \in scan[s].must \ astray, Passed(s, k)' PROVE Passed(s, k) \/ k \in page
      <3>1. SUFFICES ASSUME ~Passed(s, k), k \notin page PROVE FALSE
        OBVIOUS
      <3>2. k \in Keys /\ k \in Nat /\ k <= m
        BY <1>3, <1>6, <2>7, <2>10
      <3>3. Cardinality({j \in merged : j < k}) >= Limit
        BY <1>9, <2>1, <3>1, <3>2
      <3>4. {j \in merged : j < k} \in SUBSET {j \in merged : j < m}
        <4>1. ASSUME NEW j \in merged, j < k PROVE j < m
          <5>1. j \in Nat
            BY <1>4, <1>6
          <5> QED BY SMT, <2>8, <3>2, <4>1, <5>1
        <4> QED BY <4>1
      <3>5. Cardinality({j \in merged : j < k}) <= Cardinality({j \in merged : j < m})
        BY <1>10, <3>4, FS_Subset
      <3>6. Cardinality({j \in merged : j < m}) < Limit
        BY <1>1, <2>1 DEF First
      <3>7. Cardinality({j \in merged : j < k}) \in Nat /\ Cardinality({j \in merged : j < m}) \in Nat
        BY <1>10
      <3> QED BY SMT, <1>4, <3>3, <3>5, <3>6, <3>7
    <2>11. new.after \in Keys \cup {0} /\ new.pc # "done"
      BY <2>4, <2>8
    <2> QED BY <1>2, <1>3, <1>8, <1>11, <2>3, <2>4, <2>5, <2>9, <2>10, <2>11, PageReturned
  <1>13. CASE ~(Cardinality(page) >= Limit)
    <2>1. Cardinality(page) < Limit /\ page = merged
      <3>1. Cardinality(page) < Limit
        BY SMT, <1>4, <1>5, <1>13
      <3> QED BY <1>5, <3>1 DEF merged
    <2>2. PICK new : new = last(page)
      OBVIOUS
    <2>3. scan' = [scan EXCEPT ![s] = new]
      BY <1>2, <1>13, <2>2
    <2>4. /\ DOMAIN new = ScanFields /\ new.pc = "done" /\ new.kind = scan[s].kind /\ new.merged = {}
          /\ new.got = scan[s].got \cup page /\ new.twice = (scan[s].twice \/ page \cap scan[s].got # {})
          /\ new.must = scan[s].must /\ new.may = scan[s].may
      <3>1. PICK c : c = sc(page) /\ c = Collected(scan[s], page)
        OBVIOUS
      <3>2. /\ DOMAIN c = ScanFields /\ c.pc = scan[s].pc /\ c.kind = scan[s].kind
            /\ c.merged = {} /\ c.got = scan[s].got \cup page
            /\ c.twice = (scan[s].twice \/ page \cap scan[s].got # {})
            /\ c.must = scan[s].must /\ c.may = scan[s].may
        BY <1>0, <3>1 DEF Collected, ScanFields
      <3>3. new = [c EXCEPT !.pc = "done"]
        BY <2>2, <3>1
      <3> HIDE DEF sc, full, last
      <3> QED BY <3>2, <3>3 DEF ScanFields
    <2>5. ASSUME NEW k \in scan[s].must \ astray PROVE Passed(s, k) \/ k \in page
      <3>1. SUFFICES ASSUME ~Passed(s, k), k \notin page PROVE FALSE
        OBVIOUS
      <3>2. Cardinality({j \in merged : j < k}) >= Limit
        BY <1>9, <2>1, <3>1
      <3>3. {j \in merged : j < k} \in SUBSET page
        BY <2>1
      <3>4. Cardinality({j \in merged : j < k}) <= Cardinality(page)
        BY <1>5, <3>3, FS_Subset
      <3>5. Cardinality({j \in merged : j < k}) \in Nat
        BY <1>10
      <3> QED BY SMTT(30), <1>4, <1>5, <2>1, <3>2, <3>4, <3>5
    <2> QED BY ZenonT(60), <1>2, <1>8, <1>11, <2>3, <2>4, <2>5, PageReturned
  <1> QED BY <1>12, <1>13
\* The page of one partition: its primary has every key of it, and no other partition has any.
LEMMA PartitionReturned ==
  ASSUME DirectInv, ScansInv, Paging, NEW s \in Scanners, PartitionPage(s)
  PROVE  ScansInv'
PROOF
  <1> DEFINE after == scan[s].after
             todo == scan[s].todo
             n == Following(todo)
             left == todo \ {n}
             sc(page) == Collected(scan[s], page)
             full(page) == [sc(page) EXCEPT !.after = Max(page)]
             last(page) == [sc(page) EXCEPT !.after = 0, !.todo = left, !.pc = IF left = {} THEN "done" ELSE @]
  <1>0. DOMAIN scan = Scanners /\ DOMAIN scan[s] = ScanFields /\ ScanInv(s)
    BY DEF ScansInv
  <1>1. PICK page : page = IF Answers(n) THEN scan_buckets(n, Primaries(n), after, AtMost(Limit, Cap)) ELSE {}
    <2> HIDE DEF n, after
    <2> QED OBVIOUS
  <1>2. /\ scan[s].pc = "shards" /\ scan[s].kind = "partitions" /\ todo # {}
        /\ UNCHANGED <<cluster, data, view, dead, write, truth, astray>>
        /\ scan' = [scan EXCEPT ![s] = IF Cardinality(page) >= Limit THEN full(page) ELSE last(page)]
    BY <1>1 DEF PartitionPage, Following, history, env
  <1>3. /\ Stable /\ scan[s].must \subseteq Keys /\ after \in Keys \cup {0} /\ todo \subseteq view.members
    BY <1>0, <1>2 DEF ScanInv
  <1>4. n \in todo /\ view.members = partitioner /\ view.members = view.clients /\ n \in Nodes
    <2>1. n \in todo
      BY <1>2 DEF Following
    <2> QED BY <1>3, <2>1 DEF Stable, Quiet, InStep, DirectInv, DataShape
  <1>5. (\A k \in Keys : k \in Nat /\ ~(k <= 0)) /\ after \in Nat /\ Limit \in Nat \ {0} /\ AtMost(Limit, Cap) = Limit
    <2>1. Limit \in Nat \ {0} /\ Cap \in Nat /\ Limit <= Cap /\ \A k \in Keys : k \in Nat \ {0}
      BY SmartClientAssumption DEF Paging
    <2>2. after \in Nat
      BY <1>3, KeysAre
    <2>3. AtMost(Limit, Cap) = Limit
      BY SMT, <2>1 DEF AtMost
    <2>4. ASSUME NEW k \in Nat \ {0} PROVE ~(k <= 0)
      BY SMT
    <2> QED BY <2>1, <2>2, <2>3, <2>4
  \* what the primary has of its partition behind the cursor
  <1>6. PICK S \in SUBSET Keys : S = HeldIn(n, Primaries(n), after)
    BY DEF HeldIn, InBuckets, Held
  <1>7. ASSUME NEW k \in Keys PROVE k \in S <=> k > after /\ data[n][k] # Absent /\ Primary(k) = n
    <2>1. bucket_of[k] \in Primaries(n) <=> n = Primary(k)
      BY <1>3, PrimaryIs
    <2> HIDE DEF n, after
    <2> QED BY <1>6, <2>1 DEF HeldIn, InBuckets, Held
  <1>8. Answers(n) => page = First(S, Limit)
    <2>1. PICK a \in Keys \cup {0} : a = after
      BY <1>3
    <2>2. PICK bs : bs = Primaries(n)
      OBVIOUS
    <2> HIDE DEF n, after
    <2>3. scan_buckets(n, bs, a, Limit) = First(HeldIn(n, bs, a), Limit)
      BY ZenonT(60), <2>1, BucketsPage
    <2> QED BY <1>1, <1>5, <1>6, <2>1, <2>2, <2>3
  <1>9. Answers(n) <=> n \notin dead
    BY <1>3, <1>4 DEF Answers
  <1>10. ~Answers(n) => page = {} /\ ~(Cardinality(page) >= Limit)
    <2>1. Cardinality({}) = 0 /\ ~(0 >= Limit)
      BY SMT, <1>5, FS_EmptySet
    <2> QED BY <1>1, <2>1
  <1> HIDE DEF n, after, todo
  <1>11. Answers(n) =>
           /\ page \subseteq S /\ IsFiniteSet(page) /\ Cardinality(page) \in Nat
           /\ Cardinality(page) < Limit => page = S
           /\ Cardinality(page) >= Limit => /\ Max(page) \in page /\ \A j \in page : j <= Max(page)
                                            /\ \A k \in S : k <= Max(page) => k \in page
    BY SMT, <1>5, <1>6, <1>8, PageIs
  <1>12. ASSUME NEW k \in Keys
         PROVE  Passed(s, k) <=> Primary(k) \notin todo \/ (Primary(k) = n /\ k <= after)
    BY <1>2 DEF Passed, n, after, todo
  <1>13. page \in SUBSET Keys /\ \A k \in page : Answers(n) /\ k \in S
    BY <1>10, <1>11
  <1>14. ASSUME NEW k \in page PROVE ~Passed(s, k) /\ (k \in astray \/ k \in scan[s].may)
    <2>1. k \in Keys /\ k \in Nat /\ k > after /\ data[n][k] # Absent /\ Primary(k) = n /\ n \notin dead
      BY <1>5, <1>7, <1>9, <1>13
    <2>2. ~(k <= after)
      BY SMT, <1>5, <2>1
    <2>3. scan[s].kind # "resp"
      BY <1>2
    <2>4. k \in astray \/ k \in scan[s].may
      BY <1>0, <1>2, <1>4, <2>1, <2>3, Possible
    <2> QED BY <1>4, <1>12, <2>1, <2>2, <2>4
  <1>15. ASSUME dead = {}, NEW k \in scan[s].must \ astray, Primary(k) = n, ~Passed(s, k)
         PROVE  k \in S /\ Answers(n)
    <2>1. k \in Keys /\ k \in Nat /\ ~(k <= after)
      BY <1>3, <1>5, <1>12, <1>15
    <2>2. k > after
      BY SMT, <1>5, <2>1
    <2>3. n \in Homes(k) \ dead
      BY <1>3, <1>15, <2>1, PrimaryIs
    <2>4. data[n][k] # Absent
      BY <1>0, <1>2, <2>3, Present
    <2> QED BY <1>7, <1>9, <1>15, <2>1, <2>2, <2>4
  <1>16. ASSUME NEW new, scan'[s] = new, new.kind = "partitions", NEW k \in Keys
         PROVE  Passed(s, k)' <=> \/ Primary(k) \notin new.todo
                                  \/ Primary(k) = Following(new.todo) /\ k <= new.after
    <2>1. Primary(k)' = Primary(k)
      BY <1>2 DEF Primary
    <2> QED BY <1>16, <2>1 DEF Passed
  <1>17. CASE Cardinality(page) >= Limit
    <2>0. Answers(n)
      BY <1>10, <1>17
    <2>1. PICK m \in page : m = Max(page) /\ (\A j \in page : j <= m) /\ \A k \in S : k <= m => k \in page
      BY <1>11, <1>17, <2>0
    <2>2. PICK new : new = full(page)
      OBVIOUS
    <2>3. scan' = [scan EXCEPT ![s] = new]
      BY <1>2, <1>17, <2>2
    <2>4. /\ DOMAIN new = ScanFields /\ new.pc = "shards" /\ new.kind = scan[s].kind
          /\ new.after = m /\ new.todo = todo /\ new.merged = {}
          /\ new.got = scan[s].got \cup page /\ new.twice = (scan[s].twice \/ page \cap scan[s].got # {})
          /\ new.must = scan[s].must /\ new.may = scan[s].may
      <3>1. PICK c : c = sc(page)
        OBVIOUS
      <3>2. /\ DOMAIN c = ScanFields /\ c.pc = scan[s].pc /\ c.kind = scan[s].kind /\ c.todo = todo
            /\ c.merged = {} /\ c.got = scan[s].got \cup page
            /\ c.twice = (scan[s].twice \/ page \cap scan[s].got # {})
            /\ c.must = scan[s].must /\ c.may = scan[s].may
        BY <1>0, <3>1 DEF Collected, ScanFields, todo
      <3>3. new = [c EXCEPT !.after = m]
        BY <2>1, <2>2, <3>1
      <3> HIDE DEF sc, full, last
      <3> QED BY <1>2, <3>2, <3>3 DEF ScanFields
    <2>5. scan'[s] = new
      BY <1>0, <2>3
    <2>6. ASSUME NEW k \in Keys PROVE Passed(s, k)' <=> Primary(k) \notin todo \/ (Primary(k) = n /\ k <= m)
      BY <1>2, <1>16, <2>4, <2>5 DEF n
    <2>7. m \in Keys /\ m \in Nat /\ m > after
      BY <1>5, <1>7, <1>13, <2>1
    <2>8. ASSUME NEW k \in Keys, Passed(s, k) \/ k \in page PROVE Passed(s, k)'
      <3>1. CASE k \in page
        BY <1>7, <1>13, <2>1, <2>6, <3>1
      <3>2. CASE Passed(s, k)
        <4>1. k \in Nat
          BY <1>5
        <4>2. k <= after => k <= m
          BY SMT, <1>5, <2>7, <4>1
        <4> QED BY <1>12, <2>6, <3>2, <4>2
      <3> QED BY <2>8, <3>1, <3>2
    <2>9. ASSUME dead = {}, NEW k \in scan[s].must \ astray, Passed(s, k)' PROVE Passed(s, k) \/ k \in page
      <3>1. k \in Keys
        BY <1>3
      <3>2. Primary(k) \notin todo => Passed(s, k)
        BY <1>12, <3>1
      <3>3. Primary(k) = n /\ k <= m /\ ~Passed(s, k) => k \in page
        BY <1>15, <2>1, <2>9
      <3> QED BY <2>6, <2>9, <3>1, <3>2, <3>3
    <2>10. new.after \in Keys \cup {0} /\ new.pc # "done" /\ new.todo = scan[s].todo
      BY <2>4, <2>7 DEF todo
    <2> QED BY ZenonT(60), <1>2, <1>13, <1>14, <2>3, <2>4, <2>8, <2>9, <2>10, PageReturned
  <1>18. CASE ~(Cardinality(page) >= Limit)
    <2>1. Answers(n) => page = S
      <3>1. Answers(n) => Cardinality(page) < Limit
        BY SMT, <1>5, <1>11, <1>18
      <3> QED BY <1>11, <3>1
    <2>2. PICK new : new = last(page)
      OBVIOUS
    <2>3. scan' = [scan EXCEPT ![s] = new]
      BY <1>2, <1>18, <2>2
    <2>4. /\ DOMAIN new = ScanFields /\ new.pc = (IF left = {} THEN "done" ELSE "shards")
          /\ new.kind = scan[s].kind /\ new.after = 0 /\ new.todo = left /\ new.merged = {}
          /\ new.got = scan[s].got \cup page /\ new.twice = (scan[s].twice \/ page \cap scan[s].got # {})
          /\ new.must = scan[s].must /\ new.may = scan[s].may
      <3>1. PICK c : c = sc(page)
        OBVIOUS
      <3>2. /\ DOMAIN c = ScanFields /\ c.pc = "shards" /\ c.kind = scan[s].kind
            /\ c.merged = {} /\ c.got = scan[s].got \cup page
            /\ c.twice = (scan[s].twice \/ page \cap scan[s].got # {})
            /\ c.must = scan[s].must /\ c.may = scan[s].may
        BY <1>0, <1>2, <3>1 DEF Collected, ScanFields
      <3>3. new = [c EXCEPT !.after = 0, !.todo = left, !.pc = IF left = {} THEN "done" ELSE @]
        BY <2>2, <3>1
      <3> HIDE DEF sc, full, last, left
      <3> QED BY <3>2, <3>3 DEF ScanFields
    <2>5. scan'[s] = new
      BY <1>0, <2>3
    <2>6. ASSUME NEW k \in Keys PROVE Passed(s, k)' <=> Primary(k) \notin left
      <3>1. ~(k <= 0)
        BY <1>5
      <3> HIDE DEF left
      <3> QED BY <1>2, <1>16, <2>4, <2>5, <3>1
    <2>7. ASSUME NEW k \in Keys, Passed(s, k) \/ k \in page PROVE Passed(s, k)'
      <3>1. Primary(k) \notin todo \/ Primary(k) = n
        BY <1>7, <1>12, <1>13, <2>7
      <3> QED BY <2>6, <3>1
    <2>8. ASSUME dead = {}, NEW k \in scan[s].must \ astray, new.pc = "done" \/ Passed(s, k)'
          PROVE  Passed(s, k) \/ k \in page
      <3>1. k \in Keys
        BY <1>3
      <3>2. Primary(k) \notin left
        BY <2>4, <2>6, <2>8, <3>1
      <3>3. Primary(k) \notin todo => Passed(s, k)
        BY <1>12, <3>1
      <3>4. Primary(k) = n /\ ~Passed(s, k) => k \in page
        BY <1>15, <2>1, <2>8
      <3> QED BY <3>2, <3>3, <3>4
    <2>9. new.after \in Keys \cup {0} /\ new.pc \in {"shards", "done"} /\ new.todo \subseteq scan[s].todo
      BY <2>4 DEF todo
    <2> HIDE DEF left
    <2> QED BY ZenonT(60), <1>2, <1>13, <1>14, <2>3, <2>4, <2>7, <2>8, <2>9, PageReturned
  <1> QED BY <1>17, <1>18
\* A page of RESP's SCAN: the shard it is connected to has every key that it owns.
LEMMA RespReturned ==
  ASSUME DirectInv, ScansInv, Paging, NEW s \in Scanners, RespPage(s)
  PROVE  ScansInv'
PROOF
  <1> DEFINE after == scan[s].after
             n == Following(scan[s].todo)
             sc(page) == Collected(scan[s], page)
  <1>0. DOMAIN scan = Scanners /\ DOMAIN scan[s] = ScanFields /\ ScanInv(s)
    BY DEF ScansInv
  <1>1. /\ scan[s].pc = "shards" /\ scan[s].kind = "resp"
        /\ UNCHANGED <<cluster, data, view, dead, write, truth, astray>>
    BY DEF RespPage, history, env
  <1>2. /\ Stable /\ scan[s].must \subseteq Keys /\ after \in Keys \cup {0}
    BY <1>0, <1>1 DEF ScanInv
  <1>3. scan[s].todo = {n} /\ n \in partitioner
    <2>1. PICK m \in partitioner : scan[s].todo = {m}
      BY <1>0, <1>1 DEF ScanInv
    <2>2. n \in scan[s].todo
      BY <2>1 DEF Following
    <2> HIDE DEF n
    <2>3. n = m
      BY <2>1, <2>2
    <2> QED BY <2>1, <2>3
  <1>4. n \in Nodes
    BY <1>3 DEF DirectInv, DataShape
  <1> DEFINE next(page) == IF Cardinality(page) < Limit \/ Max(page) = Zero
                           THEN [sc(page) EXCEPT !.pc = "done"]
                           ELSE [sc(page) EXCEPT !.after = Max(page)]
  <1>5. n \notin dead /\ scan' = [scan EXCEPT ![s] = next(scan_range(n, after, Limit))]
    BY DEF RespPage, Following
  <1>6. PICK page : page = scan_range(n, after, Limit) /\ scan' = [scan EXCEPT ![s] = next(page)]
    <2> HIDE DEF n, after, next
    <2> QED BY <1>5
  <1> HIDE DEF n
  <1>7. (\A k \in Keys : k \in Nat /\ k # Zero) /\ after \in Nat /\ Limit \in Nat \ {0}
    <2>1. Limit \in Nat \ {0} /\ Zero = 0 /\ \A k \in Keys : k \in Nat \ {0}
      BY SmartClientAssumption DEF Paging
    <2>2. after \in Nat
      BY <1>2, KeysAre
    <2> QED BY <2>1, <2>2
  <1>8. PICK S \in SUBSET Keys : S = Held(n, after)
    BY DEF Held
  <1>9. ASSUME NEW k \in Keys PROVE k \in S <=> k > after /\ data[n][k] # Absent
    BY <1>8 DEF Held
  <1>10. page = First(S, Limit)
    BY <1>6, <1>8 DEF scan_range, Held
  <1> HIDE DEF after
  <1>11. /\ page \subseteq S /\ IsFiniteSet(page) /\ Cardinality(page) \in Nat
         /\ Cardinality(page) < Limit => page = S
         /\ Cardinality(page) >= Limit => /\ Max(page) \in page /\ \A j \in page : j <= Max(page)
                                          /\ \A k \in S : k <= Max(page) => k \in page
    BY SMT, <1>7, <1>8, <1>10, PageIs
  <1>12. ASSUME NEW k PROVE Passed(s, k) <=> k <= after
    BY <1>1 DEF Passed, after
  <1>13. page \in SUBSET Keys
    BY <1>8, <1>11
  <1>14. ASSUME NEW k \in page PROVE ~Passed(s, k) /\ (k \in astray \/ k \in scan[s].may)
    <2>1. k \in Keys /\ k \in Nat /\ k > after /\ data[n][k] # Absent
      BY <1>7, <1>9, <1>11, <1>13
    <2>2. ~(k <= after)
      BY SMT, <1>7, <2>1
    <2>3. n \in Nodes \ dead
      BY <1>4, <1>5
    <2>4. k \in astray \/ k \in scan[s].may
      BY <1>0, <1>1, <1>3, <2>1, <2>3, Possible
    <2> QED BY <1>12, <2>2, <2>4
  <1>15. ASSUME NEW k \in scan[s].must \ astray, ~Passed(s, k) PROVE k \in S
    <2>1. k \in Keys /\ k \in Nat /\ ~(k <= after) /\ Known(s, k)
      BY ZenonT(60), <1>0, <1>1, <1>2, <1>7, <1>12, <1>15 DEF ScanInv
    <2>2. k > after
      BY SMT, <1>7, <2>1
    <2>3. n \in Homes(k) \ dead
      BY <1>1, <1>3, <1>5, <1>15, <2>1 DEF Known, InView
    <2>4. data[n][k] # Absent
      BY <1>0, <1>1, <2>3, Present
    <2> QED BY <1>9, <2>1, <2>2, <2>4
  <1>16. Cardinality(page) >= Limit => Max(page) # Zero
    BY <1>7, <1>11, <1>13
  <1>17. PICK c : c = sc(page)
    OBVIOUS
  <1>18. /\ DOMAIN c = ScanFields /\ c.pc = scan[s].pc /\ c.kind = scan[s].kind /\ c.todo = scan[s].todo
         /\ c.merged = {} /\ c.got = scan[s].got \cup page
         /\ c.twice = (scan[s].twice \/ page \cap scan[s].got # {})
         /\ c.must = scan[s].must /\ c.may = scan[s].may
    BY <1>0, <1>17 DEF Collected, ScanFields
  <1>19. CASE Cardinality(page) < Limit
    <2>1. PICK new : new = [c EXCEPT !.pc = "done"]
      OBVIOUS
    <2>2. scan' = [scan EXCEPT ![s] = new]
      BY <1>6, <1>17, <1>19, <2>1
    <2>3. /\ DOMAIN new = ScanFields /\ new.pc = "done" /\ new.kind = scan[s].kind /\ new.merged = {}
          /\ new.got = scan[s].got \cup page /\ new.twice = (scan[s].twice \/ page \cap scan[s].got # {})
          /\ new.must = scan[s].must /\ new.may = scan[s].may
      <3> HIDE DEF sc
      <3> QED BY <1>18, <2>1 DEF ScanFields
    <2>4. \A k \in scan[s].must \ astray : Passed(s, k) \/ k \in page
      BY <1>11, <1>15, <1>19
    <2> QED BY ZenonT(60), <1>1, <1>13, <1>14, <2>2, <2>3, <2>4, PageReturned
  <1>20. CASE ~(Cardinality(page) < Limit)
    <2>0. Cardinality(page) >= Limit
      BY SMT, <1>7, <1>11, <1>20
    <2>1. PICK m \in page : m = Max(page) /\ (\A j \in page : j <= m) /\ \A k \in S : k <= m => k \in page
      BY <1>11, <2>0
    <2>2. PICK new : new = [c EXCEPT !.after = m]
      OBVIOUS
    <2>3. scan' = [scan EXCEPT ![s] = new]
      BY ZenonT(60), <1>6, <1>16, <1>17, <1>20, <2>0, <2>1, <2>2
    <2>4. /\ DOMAIN new = ScanFields /\ new.pc = "shards" /\ new.kind = scan[s].kind
          /\ new.after = m /\ new.todo = scan[s].todo /\ new.merged = {}
          /\ new.got = scan[s].got \cup page /\ new.twice = (scan[s].twice \/ page \cap scan[s].got # {})
          /\ new.must = scan[s].must /\ new.may = scan[s].may
      <3> HIDE DEF sc
      <3> QED BY <1>1, <1>18, <2>2 DEF ScanFields
    <2>5. scan'[s] = new
      BY <1>0, <2>3
    <2>6. ASSUME NEW k PROVE Passed(s, k)' <=> k <= m
      BY <1>1, <2>4, <2>5 DEF Passed
    <2>7. m \in Keys /\ m \in Nat /\ m > after
      BY <1>7, <1>9, <1>11, <1>13, <2>1
    <2>8. ASSUME NEW k \in Keys, Passed(s, k) \/ k \in page PROVE Passed(s, k)'
      <3>1. k \in Nat
        BY <1>7
      <3>2. k <= after => k <= m
        BY SMT, <1>7, <2>7, <3>1
      <3> QED BY <1>12, <2>1, <2>6, <2>8, <3>2
    <2>9. ASSUME NEW k \in scan[s].must \ astray, Passed(s, k)' PROVE Passed(s, k) \/ k \in page
      BY <1>15, <2>1, <2>6, <2>9
    <2>10. new.after \in Keys \cup {0} /\ new.pc # "done"
      BY <2>4, <2>7
    <2> QED BY ZenonT(60), <1>1, <1>13, <1>14, <2>3, <2>4, <2>8, <2>9, <2>10, PageReturned
  <1> QED BY <1>19, <1>20

\* The steps of a scan.
LEMMA ScanSteps ==
  ASSUME DirectInv, Lasting, AliveInv, ScansInv, Paging, NEW s \in Scanners, Scanning(s)
  PROVE  ScansInv'
PROOF
  <1>1. ASSUME NEW kind \in ScanKinds \ {"resp"}, ScanStart(s, kind, {}) PROVE ScansInv'
    <2>1. kind \in {"cluster", "client", "partitions", "resp"} /\ kind # "resp"
      BY <1>1, SmartClientAssumption
    <2>2. PICK n : n = {}
      OBVIOUS
    <2> QED BY <1>1, <2>1, <2>2, ScanBegun
  <1>2. ASSUME NEW n \in partitioner, ScanStart(s, "resp", n) PROVE ScansInv'
    BY <1>2, ScanBegun
  <1>3. CASE ScanDone(s)
    <2>1. scan' = [scan EXCEPT ![s] = IdleScan] /\ UNCHANGED <<cluster, view, dead, write, truth, astray>>
      BY <1>3 DEF ScanDone, history, env
    <2>2. IdleScan.pc = "idle" /\ DOMAIN IdleScan = ScanFields
      BY SMT DEF IdleScan, ScanFields
    <2>3. scan'[s] = IdleScan
      BY <2>1 DEF ScansInv
    <2>4. ScanInv(s)'
      BY <2>2, <2>3 DEF ScanInv
    <2> QED BY <2>1, <2>2, <2>4, OneScan
  <1> QED BY <1>1, <1>2, <1>3, ShardAsked, PageMerged, PartitionReturned, RespReturned DEF Scanning
-----------------------------------------------------------------------------
\* A step that ends the stability forgets the scans.
LEMMA ScansForgotten ==
  ASSUME Unsettle
  PROVE  ScansInv'
PROOF
  <1>1. DOMAIN scan' = Scanners /\ \A s \in Scanners : scan'[s] = IdleScan
    BY DEF Unsettle
  <1>2. IdleScan.pc = "idle" /\ DOMAIN IdleScan = ScanFields
    BY SMT DEF IdleScan, ScanFields
  <1> QED BY <1>1, <1>2 DEF ScansInv, ScanInv

\* A step that leaves the scans alone, and the keys that nobody writes.
LEMMA ScansFrame ==
  ASSUME ScansInv, scan' = scan, dead \subseteq dead', astray \subseteq astray',
         Stable => /\ Stable' /\ partitioner' = partitioner /\ view'.members = view.members
                   /\ \A k \in Keys : Homes(k)' = Homes(k),
         Stable => \A k \in Keys : ~Writing(k) => ~Writing(k)' /\ truth'[k] = truth[k]
  PROVE  ScansInv'
PROOF
  <1>1. ASSUME NEW s \in Scanners PROVE ScanInv(s)'
    <2>1. ScanInv(s)
      BY DEF ScansInv
    <2> QED BY <2>1, ScanKept
  <1> QED BY <1>1 DEF ScansInv

\* The steps of a write: a key is unsure before it is written.
LEMMA WriteScans ==
  ASSUME DirectInv, ScansInv, NEW w \in Writers,
         \/ WriteStep(w)
         \/ \E kind, arg : \E k \in Keys : BeginWrite(w, kind, k, arg)
  PROVE  ScansInv'
PROOF
  <1>0. DataShape
    BY DEF DirectInv
  <1>1. UNCHANGED <<cluster, view, dead>>
    BY DEF WriteStep, BroadcastCall, RmwPrimary, ReplicaCall, WriteDone, BeginWrite, env
  <1>2. /\ dead \subseteq dead'
        /\ Stable => /\ Stable' /\ partitioner' = partitioner /\ view'.members = view.members
                     /\ \A l \in Keys : Homes(l)' = Homes(l)
    BY <1>1, SameRouting DEF cluster
  <1>3. ASSUME scan' = scan, write[w].pc # "idle", \A x \in Writers \ {w} : write'[x] = write[x],
               write'[w].pc = "idle" \/ write'[w].key = write[w].key,
               astray \subseteq astray', \A k \in Keys : k # write[w].key => truth'[k] = truth[k]
        PROVE  ScansInv'
    <2>1. ASSUME NEW k \in Keys, ~Writing(k) PROVE ~Writing(k)' /\ truth'[k] = truth[k]
      <3>1. k # write[w].key
        BY <1>3, <2>1 DEF Writing
      <3> QED BY <1>3, <2>1, <3>1 DEF Writing
    <2>2. scan' = scan /\ astray \subseteq astray'
      BY <1>3
    <2> QED BY <1>2, <2>1, <2>2, ScansFrame
  <1>4. ASSUME NEW new, write' = [write EXCEPT ![w] = new]
        PROVE  write'[w] = new /\ \A x \in Writers \ {w} : write'[x] = write[x]
    BY <1>0, <1>4 DEF DataShape
  <1>5. ASSUME write' = [write EXCEPT ![w].todo = Tail(@)], HasValue(w), UNCHANGED <<scan, truth, astray>>
        PROVE  ScansInv'
    <2>1. /\ write'[w] = [write[w] EXCEPT !.todo = Tail(@)] /\ DOMAIN write[w] = WriteFields
          /\ \A x \in Writers \ {w} : write'[x] = write[x]
      BY <1>0, <1>5 DEF DataShape
    <2>2. write'[w].key = write[w].key /\ write[w].pc # "idle"
      BY ZenonT(60), <1>5, <2>1 DEF WriteFields, HasValue
    <2> QED BY <1>3, <1>5, <2>1, <2>2
  <1>6. IdleWrite.pc = "idle"
    BY SMT DEF IdleWrite
  <1>7. CASE BroadcastCall(w)
    BY <1>5, <1>7 DEF BroadcastCall, HasValue, history
  <1>8. CASE ReplicaCall(w)
    BY <1>5, <1>8 DEF ReplicaCall, HasValue, history
  <1>9. CASE WriteDone(w)
    <2>1. /\ HasValue(w) /\ scan' = scan /\ write' = [write EXCEPT ![w] = IdleWrite]
          /\ truth' = [truth EXCEPT ![write[w].key] = write[w].val] /\ astray \subseteq astray'
      BY <1>9 DEF WriteDone
    <2>2. write'[w] = IdleWrite /\ \A x \in Writers \ {w} : write'[x] = write[x]
      BY <1>4, <2>1
    <2>3. write[w].pc # "idle" /\ \A k \in Keys : k # write[w].key => truth'[k] = truth[k]
      BY <1>0, <2>1 DEF HasValue, DataShape
    <2> QED BY <1>3, <1>6, <2>1, <2>2, <2>3
  <1>10. CASE RmwPrimary(w)
    <2>1. write[w].pc = "call" /\ UNCHANGED <<scan, truth, astray>>
      BY <1>10 DEF RmwPrimary, history
    <2>2. ASSUME write' = [write EXCEPT ![w] = IdleWrite] PROVE ScansInv'
      <3>1. write'[w] = IdleWrite /\ \A x \in Writers \ {w} : write'[x] = write[x]
        BY <1>4, <2>2
      <3> QED BY <1>3, <1>6, <2>1, <3>1
    <2>3. ASSUME NEW v, write' = [write EXCEPT ![w].pc = "replicate", ![w].val = v, ![w].todo = Tail(@)]
          PROVE  ScansInv'
      <3>1. /\ write'[w] = [write[w] EXCEPT !.pc = "replicate", !.val = v, !.todo = Tail(@)]
            /\ DOMAIN write[w] = WriteFields /\ \A x \in Writers \ {w} : write'[x] = write[x]
        BY <1>0, <2>3 DEF DataShape
      <3>2. write'[w].key = write[w].key
        BY <3>1 DEF WriteFields
      <3> QED BY <1>3, <2>1, <3>1, <3>2
    <2> QED BY <1>10, <2>2, <2>3 DEF RmwPrimary
  <1>11. ASSUME NEW kind, NEW arg, NEW k \in Keys, BeginWrite(w, kind, k, arg) PROVE ScansInv'
    <2> DEFINE new(s) == IF scan[s].pc = "idle" THEN scan[s]
                         ELSE [scan[s] EXCEPT !.must = @ \ {k}, !.may = @ \cup {k}]
    <2>1. /\ scan' = [s \in Scanners |-> new(s)] /\ UNCHANGED <<truth, astray>>
          /\ write' = [write EXCEPT ![w] = [pc |-> "call", kind |-> kind, key |-> k, todo |-> route(k),
                                            val |-> arg[1], expect |-> arg[2], steady |-> Stable]]
      BY <1>11 DEF BeginWrite, history
    <2>2. write'[w].key = k /\ \A x \in Writers \ {w} : write'[x] = write[x]
      <3>1. /\ write'[w] = [pc |-> "call", kind |-> kind, key |-> k, todo |-> route(k),
                            val |-> arg[1], expect |-> arg[2], steady |-> Stable]
            /\ \A x \in Writers \ {w} : write'[x] = write[x]
        BY ZenonT(60), <1>0, <2>1 DEF DataShape
      <3>2. write'[w].key = k
        BY SMT, <3>1
      <3> QED BY <3>1, <3>2
    <2>3. ASSUME NEW l \in Keys, l # k, ~Writing(l) PROVE ~Writing(l)' /\ truth'[l] = truth[l]
      BY <2>1, <2>2, <2>3 DEF Writing
    <2>4. ASSUME NEW s \in Scanners PROVE DOMAIN scan'[s] = ScanFields /\ ScanInv(s)'
      <3>0. ScanInv(s) /\ DOMAIN scan[s] = ScanFields
        BY DEF ScansInv
      <3>1. CASE scan[s].pc = "idle"
        <4>1. scan'[s] = scan[s]
          BY <2>1, <3>1
        <4> QED BY <3>0, <3>1, <4>1 DEF ScanInv
      <3>2. CASE scan[s].pc # "idle"
        <4>1. scan'[s] = [scan[s] EXCEPT !.must = @ \ {k}, !.may = @ \cup {k}]
          BY <2>1, <3>2
        <4>2. /\ DOMAIN scan'[s] = ScanFields
              /\ scan'[s].pc = scan[s].pc /\ scan'[s].kind = scan[s].kind /\ scan'[s].todo = scan[s].todo
              /\ scan'[s].after = scan[s].after /\ scan'[s].merged = scan[s].merged
              /\ scan'[s].got = scan[s].got /\ scan'[s].twice = scan[s].twice
              /\ scan'[s].must = scan[s].must \ {k} /\ scan'[s].may = scan[s].may \cup {k}
          BY <3>0, <4>1 DEF ScanFields
        <4>3. ASSUME NEW l \in Keys, ~Writing(l), l \in scan'[s].must \/ l \notin scan'[s].may
              PROVE  ~Writing(l)' /\ truth'[l] = truth[l]
          BY <2>3, <4>2, <4>3
        <4>4. /\ scan'[s].must \subseteq scan[s].must /\ scan[s].may \subseteq scan'[s].may
              /\ astray \subseteq astray'
          BY <2>1, <4>2
        <4> QED BY ZenonT(60), <1>2, <3>0, <4>2, <4>3, <4>4, ScanKept
      <3> QED BY <3>1, <3>2
    <2>5. DOMAIN scan' = Scanners
      BY <2>1
    <2> HIDE DEF new
    <2> QED BY <2>4, <2>5 DEF ScansInv
  <1> QED BY <1>7, <1>8, <1>9, <1>10, <1>11 DEF WriteStep

\* ScansInv is inductive.
LEMMA ScansInvStep ==
  ASSUME DirectInv, Lasting, AliveInv, Paging, ScansInv, [Next]_vars
  PROVE  ScansInv'
PROOF
  <1> USE DEF history, env, cluster, calls
  <1>0. DataShape
    BY DEF DirectInv
  <1>1. ASSUME UNCHANGED <<scan, write, truth, astray, partitioner, mig>>, dead \subseteq dead',
               Stable => Stable' /\ view'.members = view.members
        PROVE  ScansInv'
    <2>1. \A l \in Keys : Homes(l)' = Homes(l)
      BY <1>1 DEF Homes, owners
    <2>2. \A l \in Keys : ~Writing(l) => ~Writing(l)' /\ truth'[l] = truth[l]
      BY <1>1 DEF Writing
    <2> QED BY <1>1, <2>1, <2>2, ScansFrame
  <1>2. ASSUME UNCHANGED <<scan, dead, astray>>, mig.pc # "idle" PROVE ScansInv'
    <2>1. ~Stable
      BY <1>2 DEF Stable, Quiet
    <2> QED BY <1>2, <2>1, ScansFrame
  <1>3. ASSUME Control PROVE ScansInv'
    <2>1. CASE \/ \E n \in Nodes : add_node(n)
               \/ \E new \in Targets : Rebalance(new)
      BY <2>1, ScansForgotten DEF add_node, Rebalance
    <2>2. CASE Committing
      BY <1>2, <2>2 DEF Committing, CommitEpoch, CommitNodes, CommitClients, MoveBucket
    <2>3. CASE Restart \/ \E n \in Nodes : NodeDies(n)
      <3>1. UNCHANGED <<scan, write, truth, astray, partitioner, mig, view>> /\ dead \subseteq dead'
        BY <2>3 DEF Restart, NodeDies
      <3>2. Stable => Stable'
        BY <2>3 DEF Restart, NodeDies, Stable, Quiet, InStep
      <3> QED BY <1>1, <3>1, <3>2
    <2> QED BY <1>3, <2>1, <2>2, <2>3 DEF Control
  <1>4. ASSUME NEW r \in Refreshers, Refresh(r) \/ PollLost(r) PROVE ScansInv'
    <2>1. CASE Unsettle
      BY <2>1, ScansForgotten
    <2>2. CASE ~Unsettle
      <3>1. UNCHANGED <<scan, write, truth, astray, partitioner, mig, dead, clients>>
            /\ (view' = view \/ view' = [view EXCEPT !.epoch = poll[r].epoch])
        BY <1>4, <2>2 DEF Refresh, PollMembers, PollEpoch, PollLost, SetClients, SetNodes, SetEpoch, Polled
      <3>2. view'.members = view.members /\ view'.clients = view.clients
        <4>1. DOMAIN view = {"clients", "members", "epoch"}
          BY <1>0 DEF DataShape
        <4> QED BY <3>1, <4>1
      <3>3. Stable => Stable'
        BY <3>1, <3>2 DEF Stable, Quiet, InStep
      <3> QED BY <1>1, <3>1, <3>2, <3>3
    <2> QED BY <2>1, <2>2
  <1>5. ASSUME UNCHANGED <<scan, write, truth, astray, cluster, view, dead>> PROVE ScansInv'
    BY <1>1, <1>5, SameRouting
  <1>6. ASSUME NEW r \in Readers, Reading(r) PROVE ScansInv'
    BY <1>5, <1>6 DEF Reading, BeginRead, ReadCall, ReadDone
  <1>7. ASSUME UNCHANGED vars PROVE ScansInv'
    BY <1>5, <1>7 DEF vars
  <1> QED BY <1>3, <1>4, <1>6, <1>7, ScanSteps, WriteScans DEF Next

(***************************************************************************)
(* Under stable membership a paginated scan of the coordinator, of the     *)
(* client, of a client's partition tasks or of a RESP client returns every *)
(* key that was there all along, none that was never there, and none       *)
(* twice (ScansAreExact), whatever is written meanwhile, for any number of *)
(* keys, shards, pages and failed shards that leaves every key an owner.   *)
(***************************************************************************)
THEOREM DirectScansAreExact ==
  ASSUME Flat, Lasting, Paging
  PROVE  Spec => []ScansAreExact
PROOF
  <1> DEFINE SInv == DirectInv /\ AliveInv /\ ScansInv
  <1>1. Init => SInv
    <2> SUFFICES ASSUME Init PROVE SInv
      OBVIOUS
    <2>1. AliveInv
      BY AliveInit
    <2>2. DOMAIN scan = Scanners /\ \A s \in Scanners : scan[s] = IdleScan
      BY DEF Init
    <2>3. IdleScan.pc = "idle" /\ DOMAIN IdleScan = ScanFields
      BY SMT DEF IdleScan, ScanFields
    <2>4. ScansInv
      BY <2>2, <2>3 DEF ScansInv, ScanInv
    <2> QED BY <2>1, <2>4, DirectInvInit
  <1>2. SInv /\ [Next]_vars => SInv'
    BY DirectInvStep, AliveStep, ScansInvStep
  <1>3. SInv => ScansAreExact
    BY DEF ScansInv, ScanInv, Exact, ScansAreExact
  <1> QED BY <1>1, <1>2, <1>3, PTL DEF Spec
=============================================================================
