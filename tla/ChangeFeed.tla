----------------------------- MODULE ChangeFeed -----------------------------
(***************************************************************************)
(* changefeed.rs: the durable, replayable log of value-level changes       *)
(* (LmdbChangeLog), its consumer groups and its retention.  An append is   *)
(* one transaction under the lock of `next`; a compaction takes two, with  *)
(* no lock around them.                                                    *)
(*                                                                         *)
(* An event is named by its position in the history `issued` of numbers    *)
(* given out.  The log is a set of events, since LMDB keeps them under     *)
(* their numbers (as keys of fixed width) and iterates in number order.    *)
(***************************************************************************)
EXTENDS Naturals, Sequences, FiniteSets

CONSTANTS
  Groups,
  Limit,       \* the batch size of read_group
  MayEmpty,    \* may a compaction remove the newest event too?
  MaxEvents,   \* bound: appended events
  MaxCrashes,  \* bound: crashes of the log's process or of a consumer
  MaxFails     \* bound: LMDB transactions that fail

ASSUME ChangeFeedAssumption ==
  /\ Limit \in Nat \ {0}
  /\ MayEmpty \in BOOLEAN
  /\ {MaxEvents, MaxCrashes, MaxFails} \subseteq Nat

VARIABLES
  log,            \* the stored events
  next,           \* the next number
  offsets,        \* the committed offset of each group
  pc, batch,      \* per group: its consumer and the events it has read
  before, doomed, \* compact: its argument (0: not running), the keys it collected
  issued,         \* history: the numbers given out
  handled,        \* history: per group, the events its consumers have handled
  trimmed,        \* history: events removed by a compaction
  crashes, fails

compaction == <<before, doomed>>
consumers == <<pc, batch, handled>>
vars == <<log, next, offsets, consumers, compaction, issued, trimmed, crashes, fails>>

Events == 1 .. Len(issued)

TypeOK ==
  /\ issued \in Seq(Nat \ {0})
  /\ log \subseteq Events /\ next \in Nat \ {0}
  /\ offsets \in [Groups -> Nat]
  /\ pc \in [Groups -> {"idle", "read", "handled"}]
  /\ batch \in [Groups -> SUBSET Events] /\ \A g \in Groups : Cardinality(batch[g]) <= Limit
  /\ before \in Nat /\ doomed \subseteq Nat
  /\ handled \in [Groups -> SUBSET Events] /\ trimmed \subseteq Events
  /\ crashes \in Nat /\ fails \in Nat

Init ==
  /\ log = {} /\ next = 1 /\ issued = <<>>
  /\ offsets = [g \in Groups |-> 0]
  /\ pc = [g \in Groups |-> "idle"] /\ batch = [g \in Groups |-> {}]
  /\ handled = [g \in Groups |-> {}]
  /\ before = 0 /\ doomed = {} /\ trimmed = {}
  /\ crashes = 0 /\ fails = 0
-----------------------------------------------------------------------------
\* LmdbChangeLog::append; a failed transaction panics with the lock held, after
\* which nothing is appended any more
append ==
  /\ Len(issued) < MaxEvents
  /\ issued' = Append(issued, next)
  /\ log' = log \cup {Len(issued) + 1}
  /\ next' = next + 1
  /\ UNCHANGED <<offsets, consumers, compaction, trimmed, crashes, fails>>

latest_seq == next - 1

\* the event of S with the highest number
Newest(S) == CHOOSE i \in S : \A j \in S : issued[j] <= issued[i]

\* the stored events an iteration from above `since` meets before event i
Between(since, i) == {j \in log : since < issued[j] /\ issued[j] < issued[i]}

\* the first Limit events of the log with a number above `since`
read(since) == {i \in log : issued[i] > since /\ Cardinality(Between(since, i)) < Limit}
-----------------------------------------------------------------------------
(***************************************************************************)
(* A consumer of a group reads a batch, handles it, and commits the number *)
(* of the last event.  A group has one consumer at a time.                 *)
(***************************************************************************)
Fetch(g, since) ==
  /\ pc[g] = "idle" /\ read(since) # {}
  /\ batch' = [batch EXCEPT ![g] = read(since)]
  /\ pc' = [pc EXCEPT ![g] = "read"]
  /\ UNCHANGED <<log, next, offsets, handled, compaction, issued, trimmed, crashes>>

read_group(g) == Fetch(g, offsets[g]) /\ UNCHANGED fails

\* committed_offset cannot read the offset and answers 0: the group starts over
ReadGroupFails(g) ==
  /\ fails < MaxFails /\ offsets[g] > 0
  /\ Fetch(g, 0)
  /\ fails' = fails + 1

Handle(g) ==
  /\ pc[g] = "read"
  /\ handled' = [handled EXCEPT ![g] = @ \cup batch[g]]
  /\ pc' = [pc EXCEPT ![g] = "handled"]
  /\ UNCHANGED <<log, next, offsets, batch, compaction, issued, trimmed, crashes, fails>>

Finish(g) == pc' = [pc EXCEPT ![g] = "idle"] /\ batch' = [batch EXCEPT ![g] = {}]

\* a plausible slip: everything appended so far is acknowledged
MutCommitOffset(g) ==
  /\ pc[g] = "handled"
  /\ offsets' = [offsets EXCEPT ![g] = latest_seq]
  /\ Finish(g)
  /\ UNCHANGED <<log, next, handled, compaction, issued, trimmed, crashes, fails>>

\* a plausible slip: the offset is not stored
MutCommitForgets(g) ==
  /\ pc[g] = "handled"
  /\ Finish(g)
  /\ UNCHANGED <<log, next, offsets, handled, compaction, issued, trimmed, crashes, fails>>

commit_offset(g) ==
  /\ pc[g] = "handled"
  /\ offsets' = [offsets EXCEPT ![g] = issued[Newest(batch[g])]]
  /\ Finish(g)
  /\ UNCHANGED <<log, next, handled, compaction, issued, trimmed, crashes, fails>>

\* its transaction fails, which it does not report
CommitFails(g) ==
  /\ pc[g] = "handled" /\ fails < MaxFails
  /\ fails' = fails + 1
  /\ Finish(g)
  /\ UNCHANGED <<log, next, offsets, handled, compaction, issued, trimmed, crashes>>

\* a consumer dies; another one of its group starts over at the committed offset
ConsumerCrash(g) ==
  /\ pc[g] # "idle" /\ crashes < MaxCrashes
  /\ crashes' = crashes + 1
  /\ Finish(g)
  /\ UNCHANGED <<log, next, offsets, handled, compaction, issued, trimmed, fails>>
-----------------------------------------------------------------------------
\* retain_latest reads the latest number and calls compact(latest - max + 1); a
\* direct call of compact has some such argument
retain_latest(max) ==
  /\ before = 0 /\ latest_seq > max
  /\ before' = latest_seq - max + 1
  /\ UNCHANGED <<log, next, offsets, consumers, doomed, issued, trimmed, crashes, fails>>

Trim(seqs) ==
  /\ log' = {i \in log : issued[i] \notin seqs}
  /\ trimmed' = trimmed \cup {i \in log : issued[i] \in seqs}
  /\ before' = 0 /\ doomed' = {}

Below(seq) == {issued[i] : i \in {j \in log : issued[j] < seq}}

\* LmdbChangeLog::compact: collect the keys in one transaction ...
CompactRead ==
  /\ before > 0 /\ doomed = {}
  /\ doomed' = Below(before)
  /\ before' = IF doomed' = {} THEN 0 ELSE before
  /\ UNCHANGED <<log, next, offsets, consumers, issued, trimmed, crashes, fails>>

\* ... and delete them in another
CompactDelete ==
  /\ doomed # {}
  /\ Trim(doomed)
  /\ UNCHANGED <<next, offsets, consumers, issued, crashes, fails>>

\* either transaction may fail
CompactFails ==
  /\ before > 0 /\ fails < MaxFails
  /\ fails' = fails + 1
  /\ before' = 0 /\ doomed' = {}
  /\ UNCHANGED <<log, next, offsets, consumers, issued, trimmed, crashes>>
-----------------------------------------------------------------------------
\* a plausible slip: numbering goes on from the number of events kept
MutOpen ==
  /\ crashes < MaxCrashes
  /\ crashes' = crashes + 1
  /\ next' = Cardinality(log) + 1
  /\ before' = 0 /\ doomed' = {}
  /\ UNCHANGED <<log, offsets, consumers, issued, trimmed, fails>>

\* the process of the durable log stops at any point and opens it again
open ==
  /\ crashes < MaxCrashes
  /\ crashes' = crashes + 1
  /\ next' = IF log = {} THEN 1 ELSE issued[Newest(log)] + 1
  /\ before' = 0 /\ doomed' = {}
  /\ UNCHANGED <<log, offsets, consumers, issued, trimmed, fails>>
-----------------------------------------------------------------------------
Consume(g) == read_group(g) \/ Handle(g) \/ commit_offset(g)

\* a consumer finds nothing new
PollIdle(g) ==
  /\ pc[g] = "idle" /\ read(offsets[g]) = {}
  /\ UNCHANGED vars

Next ==
  \/ append
  \/ \E g \in Groups : Consume(g) \/ ReadGroupFails(g) \/ CommitFails(g) \/ ConsumerCrash(g) \/ PollIdle(g)
  \/ \E max \in (IF MayEmpty THEN 0 ELSE 1) .. MaxEvents : retain_latest(max)
  \/ CompactRead \/ CompactDelete \/ CompactFails
  \/ open

Spec == Init /\ [][Next]_vars

\* every group has a consumer that keeps polling; nobody is obliged to append
FairSpec == Spec /\ \A g \in Groups : WF_vars(Consume(g))
-----------------------------------------------------------------------------
(***************************************************************************)
(* "a monotonic log" (changefeed.rs:4): no number is given out twice or    *)
(* out of order, across restarts and retention.                            *)
(***************************************************************************)
NumbersIncrease == \A i, j \in Events : i < j => issued[i] < issued[j]

(***************************************************************************)
(* "each tracking its own position (at-least-once)" (changefeed.rs:56): an *)
(* event at or below the committed offset of a group was handled by the    *)
(* group or removed by a compaction; no append, restart, lost commit or    *)
(* crash of a consumer makes a group pass over an event.                   *)
(***************************************************************************)
NothingSkipped ==
  \A g \in Groups, i \in Events : issued[i] <= offsets[g] => i \in handled[g] \cup trimmed

(***************************************************************************)
(* Every event reaches every group ("consumers pull from any offset ...    *)
(* and resume after downtime", changefeed.rs:4-5), unless a compaction     *)
(* removes it first.                                                       *)
(***************************************************************************)
EveryGroupServed ==
  \A g \in Groups, i \in 1 .. MaxEvents : i \in Events ~> i \in handled[g] \cup trimmed
=============================================================================
