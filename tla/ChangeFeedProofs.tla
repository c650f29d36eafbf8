--------------------------- MODULE ChangeFeedProofs --------------------------
(***************************************************************************)
(* Proofs about ChangeFeed, for any groups, batch size, number of events,  *)
(* crashes and failed transactions: the numbers of the log increase, and   *)
(* no consumer group passes over an event.  Both rest on retention keeping *)
(* the newest event (~MayEmpty), from whose key open() recovers `next`.    *)
(***************************************************************************)
EXTENDS ChangeFeed, FiniteSetTheorems, WellFoundedInduction, TLAPS
-----------------------------------------------------------------------------
\* a consumer that has a batch has everything up to the batch's last event, or
\* its group handled it before, or a compaction took it
Caught(g) ==
  /\ pc[g] # "idle" => batch[g] # {}
  /\ pc[g] # "idle" =>
       \A b \in batch[g], i \in Events :
         issued[i] <= issued[b] => i \in batch[g] \cup handled[g] \cup trimmed
  /\ pc[g] = "handled" => batch[g] \subseteq handled[g]

\* the numbers: the newest event is stored and bears the number before `next`
Numbering ==
  /\ Len(issued) > 0 => Len(issued) \in log /\ next = issued[Len(issued)] + 1
  /\ Len(issued) = 0 => next = 1
  /\ before < next /\ (\A d \in doomed : d < before)
  /\ \A g \in Groups : offsets[g] < next

\* the inductive invariant
FeedInv ==
  /\ ~MayEmpty
  /\ TypeOK /\ NumbersIncrease /\ Numbering
  /\ Events \subseteq log \cup trimmed
  /\ NothingSkipped
  /\ \A g \in Groups : Caught(g)
-----------------------------------------------------------------------------
\* A set of naturals that is not empty has a least element.
LEMMA Least ==
  ASSUME NEW T \in SUBSET Nat, T # {}
  PROVE  \E x \in T : \A y \in T : x <= y
PROOF
  <1> DEFINE R == OpToRel(<, Nat)
  <1>1. \A x, y \in Nat : <<x, y>> \in R <=> x < y
    BY DEF OpToRel
  <1>2. IsWellFoundedOn(R, Nat)
    BY Zenon, NatLessThanWellFounded
  <1> HIDE DEF R
  <1>3. PICK x \in T : \A y \in T : ~(<<y, x>> \in R)
    BY Zenon, <1>2, WFMin
  <1>4. ASSUME NEW y \in T PROVE x <= y
    <2>1. x \in Nat /\ y \in Nat
      OBVIOUS
    <2>2. ~(y < x)
      BY <1>1, <1>3, <2>1, Zenon
    <2> QED BY <2>1, <2>2
  <1> QED BY <1>4

\* A set of events that is not empty has a last one.
LEMMA LastExists ==
  ASSUME NEW n \in Nat, NEW S \in SUBSET (1 .. n), S # {}
  PROVE  \E x \in S : \A y \in S : y <= x
PROOF
  <1> DEFINE T == {n - x : x \in S}
  <1>1. T \in SUBSET Nat /\ T # {}
    <2>1. \A x \in S : n - x \in Nat
      OBVIOUS
    <2> QED BY Zenon, <2>1
  <1>2. PICK t \in T : \A u \in T : t <= u
    BY Zenon, <1>1, Least
  <1>3. PICK x \in S : t = n - x
    BY <1>2
  <1>4. ASSUME NEW y \in S PROVE y <= x
    <2>1. n - y \in T
      OBVIOUS
    <2>2. n - x <= n - y
      BY <1>2, <1>3, <2>1
    <2> QED BY <2>2
  <1> QED BY <1>4

\* Newest (the last key of an iteration) is the member with the highest number, which
\* is also the one appended last.
LEMMA NewestIsLast ==
  ASSUME TypeOK, NumbersIncrease, NEW S \in SUBSET Events, S # {}
  PROVE  Newest(S) \in S /\ \A y \in S : y <= Newest(S) /\ issued[y] <= issued[Newest(S)]
PROOF
  <1>1. Len(issued) \in Nat /\ \A i \in Events : i \in Nat /\ issued[i] \in Nat
    BY DEF TypeOK, Events
  <1>2. PICK x \in S : \A y \in S : y <= x
    BY Zenon, <1>1, LastExists DEF Events
  <1>3. ASSUME NEW y \in S PROVE issued[y] <= issued[x]
    <2>1. y \in Events /\ x \in Events /\ (y = x \/ y < x)
      BY <1>1, <1>2
    <2> QED BY <1>1, <2>1 DEF NumbersIncrease
  <1>4. Newest(S) \in S /\ \A y \in S : issued[y] <= issued[Newest(S)]
    BY <1>3 DEF Newest
  <1>5. ASSUME NEW y \in S PROVE y <= Newest(S)
    <2>1. y \in Events /\ Newest(S) \in Events /\ issued[y] <= issued[Newest(S)]
      BY <1>4
    <2> QED BY <1>1, <2>1 DEF NumbersIncrease
  <1> QED BY <1>4, <1>5

\* What an iteration from `since` meets before an event is finite, and what it meets
\* before an earlier event is less.
LEMMA BetweenIsFinite ==
  ASSUME TypeOK, NEW since \in Nat, NEW i
  PROVE  IsFiniteSet(Between(since, i)) /\ Cardinality(Between(since, i)) \in Nat
PROOF
  <1>1. Between(since, i) \in SUBSET (1 .. Len(issued)) /\ Len(issued) \in Nat
    <2>1. Between(since, i) \in SUBSET log
      BY DEF Between
    <2>2. log \subseteq 1 .. Len(issued)
      BY DEF TypeOK, Events
    <2>3. Len(issued) \in Nat
      BY DEF TypeOK
    <2> QED BY <2>1, <2>2, <2>3, Zenon
  <1>2. IsFiniteSet(1 .. Len(issued))
    BY <1>1, FS_Interval
  <1> QED BY <1>1, <1>2, FS_Subset, FS_CardinalityType

\* An event that an iteration meets has more events before it than an earlier one has.
LEMMA BetweenGrows ==
  ASSUME TypeOK, NEW since \in Nat, NEW i \in log, NEW j \in log,
         since < issued[i], issued[i] < issued[j]
  PROVE  Cardinality(Between(since, i)) < Cardinality(Between(since, j))
PROOF
  <1> DEFINE bi == Between(since, i)
             bj == Between(since, j)
  <1>1. \A k \in log : issued[k] \in Nat
    BY DEF TypeOK, Events
  <1>2. IsFiniteSet(bi) /\ Cardinality(bi) \in Nat /\ IsFiniteSet(bj) /\ Cardinality(bj) \in Nat
    BY BetweenIsFinite
  <1>3. i \notin bi /\ bi \cup {i} \in SUBSET bj
    BY <1>1 DEF Between
  <1> HIDE DEF bi, bj
  <1>4. Cardinality(bi \cup {i}) = Cardinality(bi) + 1
    BY Zenon, <1>2, <1>3, FS_AddElement
  <1>5. Cardinality(bi \cup {i}) <= Cardinality(bj)
    BY <1>2, <1>3, FS_Subset
  <1> QED BY <1>2, <1>4, <1>5 DEF bi, bj

\* LmdbChangeLog::read gives at most Limit events, each stored and above `since`, and
\* with one of them every earlier event above `since` that is stored.
LEMMA ReadIsPrefix ==
  ASSUME ChangeFeedAssumption, TypeOK, NumbersIncrease, NEW since \in Nat
  PROVE  /\ read(since) \subseteq log /\ \A i \in read(since) : issued[i] > since
         /\ Cardinality(read(since)) <= Limit
         /\ \A b \in read(since), i \in log : since < issued[i] /\ issued[i] <= issued[b] => i \in read(since)
PROOF
  <1> DEFINE f == [i \in read(since) |-> Cardinality(Between(since, i))]
  <1>1. read(since) \subseteq log /\ \A i \in read(since) : issued[i] > since
    BY DEF read
  <1>2. Limit \in Nat \ {0} /\ \A k \in log : k \in Events /\ k \in Nat /\ issued[k] \in Nat
    BY DEF ChangeFeedAssumption, TypeOK, Events
  <1>3. \A i : Cardinality(Between(since, i)) \in Nat
    BY BetweenIsFinite
  <1>4. f \in Injection(read(since), 0 .. Limit - 1)
    <2>1. f \in [read(since) -> 0 .. Limit - 1]
      BY <1>2, <1>3 DEF read
    <2>2. ASSUME NEW i \in read(since), NEW j \in read(since), f[i] = f[j] PROVE i = j
      <3>1. i \in log /\ j \in log /\ since < issued[i] /\ since < issued[j]
        BY <1>1, <1>2
      <3>2. ~(issued[i] < issued[j]) /\ ~(issued[j] < issued[i])
        <4>1. Cardinality(Between(since, i)) = Cardinality(Between(since, j))
          BY <2>2
        <4> QED BY <1>3, <3>1, <4>1, BetweenGrows
      <3>3. ~(i < j) /\ ~(j < i)
        BY <1>2, <3>1, <3>2 DEF NumbersIncrease
      <3> QED BY <1>2, <3>1, <3>3
    <2> QED BY <2>1, <2>2 DEF Injection, IsInjective
  <1>5. Cardinality(read(since)) <= Limit
    <2>1. IsFiniteSet(0 .. Limit - 1) /\ Cardinality(0 .. Limit - 1) = Limit
      <3>1. 0 \in Int /\ Limit - 1 \in Int /\ ~(0 > Limit - 1) /\ (Limit - 1) - 0 + 1 = Limit
        BY <1>2
      <3> QED BY Zenon, <3>1, FS_Interval
    <2> QED BY <1>4, <2>1, FS_Injection
  <1>6. ASSUME NEW b \in read(since), NEW i \in log, since < issued[i], issued[i] <= issued[b]
        PROVE  i \in read(since)
    <2>1. b \in log /\ Cardinality(Between(since, b)) < Limit
      BY DEF read
    <2>2. Cardinality(Between(since, i)) <= Cardinality(Between(since, b))
      <3>1. CASE issued[i] < issued[b]
        BY <1>3, <1>6, <2>1, <3>1, BetweenGrows
      <3>2. CASE issued[i] = issued[b]
        BY <1>3, <3>2 DEF Between
      <3> QED BY <1>2, <1>6, <2>1, <3>1, <3>2
    <2> QED BY <1>2, <1>3, <1>6, <2>1, <2>2 DEF read
  <1> QED BY <1>1, <1>5, <1>6

\* Every number given out is below the next one.
LEMMA NumberBelowNext ==
  ASSUME TypeOK, NumbersIncrease, Numbering, NEW i \in Events
  PROVE  issued[i] < next
PROOF
  <1>1. /\ Len(issued) \in Nat /\ Len(issued) > 0 /\ Len(issued) \in Events
        /\ i \in Nat /\ (i = Len(issued) \/ i < Len(issued))
    BY DEF TypeOK, Events
  <1>2. issued[i] \in Nat /\ issued[Len(issued)] \in Nat
    BY <1>1 DEF TypeOK, Events
  <1>3. issued[i] <= issued[Len(issued)]
    BY <1>1, <1>2 DEF NumbersIncrease
  <1> QED BY <1>1, <1>2, <1>3 DEF Numbering
-----------------------------------------------------------------------------
\* The fresh log of LmdbChangeLog::open.
LEMMA FeedInit == ChangeFeedAssumption /\ ~MayEmpty /\ Init => FeedInv
PROOF
  <1> SUFFICES ASSUME ChangeFeedAssumption, ~MayEmpty, Init PROVE FeedInv
    OBVIOUS
  <1>1. Len(issued) = 0 /\ Events = {} /\ issued \in Seq(Nat \ {0})
    BY DEF Init, Events
  <1>2. Cardinality({}) = 0 /\ Limit \in Nat \ {0}
    BY FS_EmptySet DEF ChangeFeedAssumption
  <1>3. TypeOK
    BY <1>1, <1>2 DEF Init, TypeOK
  <1>4. NumbersIncrease /\ NothingSkipped
    BY <1>1 DEF NumbersIncrease, NothingSkipped
  <1>5. Numbering
    BY <1>1 DEF Init, Numbering
  <1>6. ASSUME NEW g \in Groups PROVE Caught(g)
    BY DEF Init, Caught
  <1> QED BY <1>1, <1>3, <1>4, <1>5, <1>6 DEF FeedInv

\* LmdbChangeLog::append gives the new event a number above all the others and above
\* every committed offset.
LEMMA FeedAppend == FeedInv /\ append => FeedInv'
PROOF
  <1> SUFFICES ASSUME FeedInv, append PROVE FeedInv'
    OBVIOUS
  <1> DEFINE n == Len(issued)
  <1>1. /\ n \in Nat /\ issued \in Seq(Nat \ {0}) /\ next \in Nat \ {0}
        /\ n > 0 => next = issued[n] + 1
        /\ n = 0 => next = 1
    BY DEF FeedInv, TypeOK, Numbering
  <1>2. issued' = Append(issued, next) /\ log' = log \cup {n + 1} /\ next' = next + 1
    BY DEF append
  <1>3. issued' \in Seq(Nat \ {0}) /\ Len(issued') = n + 1 /\ issued'[n + 1] = next
    BY <1>1, <1>2
  <1>4. \A i \in Events : i \in Nat /\ i \in 1 .. n /\ issued'[i] = issued[i] /\ issued[i] \in Nat \ {0}
    BY <1>1, <1>2 DEF Events
  <1>5. Events' = Events \cup {n + 1}
    BY <1>1, <1>3 DEF Events
  <1>6. \A i \in Events : issued[i] < next
    BY NumberBelowNext DEF FeedInv
  <1> HIDE DEF n
  <1>7. TypeOK'
    BY <1>1, <1>2, <1>3, <1>5 DEF FeedInv, TypeOK, append, consumers, compaction
  <1>8. NumbersIncrease'
    <2> SUFFICES ASSUME NEW i \in Events', NEW j \in Events', i < j PROVE issued'[i] < issued'[j]
      BY DEF NumbersIncrease
    <2>1. i \in Events
      BY <1>1, <1>4, <1>5
    <2>2. CASE j \in Events
      BY <1>4, <2>1, <2>2 DEF FeedInv, NumbersIncrease
    <2>3. CASE j = n + 1
      BY <1>3, <1>4, <1>6, <2>1, <2>3
    <2> QED BY <1>5, <2>2, <2>3
  <1>9. Numbering'
    <2>1. before' = before /\ doomed' = doomed /\ offsets' = offsets /\ before \in Nat /\ offsets \in [Groups -> Nat]
      BY DEF FeedInv, TypeOK, append, compaction
    <2>2. before < next /\ (\A d \in doomed : d < before) /\ \A g \in Groups : offsets[g] < next
      BY DEF FeedInv, Numbering
    <2>3. before < next + 1 /\ \A g \in Groups : offsets[g] < next + 1
      BY <1>1, <2>1, <2>2
    <2>4. n + 1 > 0 /\ n + 1 # 0
      BY <1>1
    <2> QED BY <1>2, <1>3, <2>1, <2>2, <2>3, <2>4 DEF Numbering
  <1>10. Events' \subseteq log' \cup trimmed'
    BY <1>2, <1>5 DEF FeedInv, append
  <1>11. NothingSkipped'
    <2> SUFFICES ASSUME NEW g \in Groups, NEW i \in Events', issued'[i] <= offsets'[g]
                 PROVE  i \in handled'[g] \cup trimmed'
      BY DEF NothingSkipped
    <2>1. handled' = handled /\ trimmed' = trimmed /\ offsets' = offsets /\ offsets[g] \in Nat /\ offsets[g] < next
      BY DEF append, consumers, FeedInv, TypeOK, Numbering
    <2>2. i # n + 1
      BY <1>1, <1>3, <2>1
    <2>3. i \in Events /\ issued[i] <= offsets[g]
      BY <1>4, <1>5, <2>1, <2>2
    <2> QED BY <2>1, <2>3 DEF FeedInv, NothingSkipped
  <1>12. ASSUME NEW g \in Groups PROVE Caught(g)'
    <2>1. /\ handled'[g] = handled[g] /\ trimmed' = trimmed /\ batch'[g] = batch[g] /\ pc'[g] = pc[g]
          /\ batch[g] \subseteq Events /\ Caught(g)
      BY DEF append, consumers, FeedInv, TypeOK
    <2>2. ASSUME pc[g] # "idle", NEW b \in batch[g], NEW i \in Events', issued'[i] <= issued'[b]
          PROVE  i \in batch[g] \cup handled[g] \cup trimmed
      <3>1. b \in Events /\ issued'[b] = issued[b] /\ issued[b] \in Nat /\ issued[b] < next
        BY <1>4, <1>6, <2>1
      <3>2. i # n + 1
        BY <1>1, <1>3, <2>2, <3>1
      <3>3. i \in Events /\ issued[i] <= issued[b]
        BY <1>4, <1>5, <2>2, <3>1, <3>2
      <3> QED BY <2>1, <2>2, <3>3 DEF Caught
    <2> QED BY <2>1, <2>2 DEF Caught
  <1> QED BY <1>7, <1>8, <1>9, <1>10, <1>11, <1>12 DEF FeedInv

\* the steps of a group's consumer leave the log and its numbers alone
SameLog == UNCHANGED <<log, next, compaction, issued, trimmed>>

\* What a consumer step has to keep: its types, its offset and its batch.
LEMMA FeedConsumer ==
  ASSUME FeedInv, SameLog, NEW g \in Groups, TypeOK',
         /\ offsets'[g] < next /\ Caught(g)'
         /\ \A i \in Events : issued[i] <= offsets'[g] => i \in handled'[g] \cup trimmed,
         \A h \in Groups \ {g} : /\ offsets'[h] = offsets[h] /\ handled'[h] = handled[h]
                                 /\ pc'[h] = pc[h] /\ batch'[h] = batch[h]
  PROVE  FeedInv'
PROOF
  <1>1. log' = log /\ next' = next /\ before' = before /\ doomed' = doomed /\ issued' = issued /\ trimmed' = trimmed
    BY DEF SameLog, compaction
  <1>2. Events' = Events
    BY <1>1 DEF Events
  <1>3. NumbersIncrease'
    BY <1>1, <1>2 DEF FeedInv, NumbersIncrease
  <1>4. Numbering'
    <2>1. ASSUME NEW h \in Groups PROVE offsets'[h] < next
      <3>1. CASE h = g
        BY <3>1
      <3>2. CASE h # g
        BY <3>2 DEF FeedInv, Numbering
      <3> QED BY <3>1, <3>2
    <2> QED BY <1>1, <2>1 DEF FeedInv, Numbering
  <1>5. NothingSkipped'
    <2> SUFFICES ASSUME NEW h \in Groups, NEW i \in Events, issued[i] <= offsets'[h]
                 PROVE  i \in handled'[h] \cup trimmed
      BY <1>1, <1>2 DEF NothingSkipped
    <2>1. CASE h = g
      BY <2>1
    <2>2. CASE h # g
      BY <2>2 DEF FeedInv, NothingSkipped
    <2> QED BY <2>1, <2>2
  <1>6. ASSUME NEW h \in Groups PROVE Caught(h)'
    <2>1. CASE h = g
      BY <2>1
    <2>2. CASE h # g
      BY <1>1, <1>2, <2>2 DEF FeedInv, Caught
    <2> QED BY <2>1, <2>2
  <1> QED BY <1>1, <1>2, <1>3, <1>4, <1>5, <1>6 DEF FeedInv

\* A batch holds the stored events after the point it was read from; what is not
\* stored was trimmed, and what is at or below a committed offset was handled.
LEMMA FeedFetch ==
  ASSUME ChangeFeedAssumption, FeedInv, NEW g \in Groups, NEW since \in {0, offsets[g]},
         Fetch(g, since), fails' \in Nat
  PROVE  FeedInv'
PROOF
  <1>1. TypeOK /\ NumbersIncrease /\ since \in Nat /\ offsets[g] \in Nat
    BY DEF FeedInv, TypeOK
  <1>2. SameLog /\ offsets' = offsets /\ handled' = handled /\ crashes' = crashes
    BY DEF Fetch, SameLog
  <1>3. log' = log /\ issued' = issued /\ trimmed' = trimmed /\ next' = next /\ before' = before /\ doomed' = doomed
        /\ Events' = Events
    BY <1>2 DEF SameLog, compaction, Events
  <1> DEFINE new == read(since)
  <1>4. /\ new \subseteq log /\ Cardinality(new) <= Limit
        /\ \A b \in new, i \in log : since < issued[i] /\ issued[i] <= issued[b] => i \in new
    BY <1>1, ReadIsPrefix
  <1>5. /\ batch' = [batch EXCEPT ![g] = new] /\ new # {}
        /\ pc' = [pc EXCEPT ![g] = "read"]
    BY DEF Fetch
  <1> HIDE DEF new
  <1>6. TypeOK'
    <2>1. log \subseteq Events
      BY <1>1 DEF TypeOK
    <2>2. batch' \in [Groups -> SUBSET Events] /\ \A h \in Groups : Cardinality(batch'[h]) <= Limit
      BY <1>1, <1>4, <1>5, <2>1 DEF TypeOK
    <2>3. pc' \in [Groups -> {"idle", "read", "handled"}]
      BY <1>1, <1>5 DEF TypeOK
    <2> QED BY <1>1, <1>2, <1>3, <2>2, <2>3 DEF TypeOK
  <1>7. pc'[g] = "read" /\ batch'[g] = new
    BY <1>1, <1>5 DEF TypeOK
  <1>8. Caught(g)'
    <2>1. ASSUME NEW b \in new, NEW i \in Events, issued[i] <= issued[b]
          PROVE  i \in new \cup handled[g] \cup trimmed
      <3>1. issued[i] \in Nat \ {0} /\ i \in log \cup trimmed
        BY <1>1 DEF FeedInv, TypeOK, Events
      <3>2. CASE i \in trimmed
        BY <3>2
      <3>3. CASE i \in log /\ since < issued[i]
        BY <1>4, <2>1, <3>3
      <3>4. CASE ~(since < issued[i])
        <4>1. issued[i] <= offsets[g]
          BY <1>1, <3>1, <3>4
        <4> QED BY <4>1 DEF FeedInv, NothingSkipped
      <3> QED BY <3>1, <3>2, <3>3, <3>4
    <2> QED BY <1>2, <1>3, <1>5, <1>7, <2>1 DEF Caught
  <1>9. offsets'[g] < next /\ \A i \in Events : issued[i] <= offsets'[g] => i \in handled'[g] \cup trimmed
    BY <1>2 DEF FeedInv, Numbering, NothingSkipped
  <1>10. \A h \in Groups \ {g} : /\ offsets'[h] = offsets[h] /\ handled'[h] = handled[h]
                                /\ pc'[h] = pc[h] /\ batch'[h] = batch[h]
    BY <1>1, <1>2, <1>5 DEF TypeOK
  <1> QED BY <1>2, <1>6, <1>8, <1>9, <1>10, FeedConsumer

\* A consumer works on its batch.
LEMMA FeedHandle ==
  ASSUME FeedInv, NEW g \in Groups, Handle(g)
  PROVE  FeedInv'
PROOF
  <1>1. TypeOK /\ Caught(g) /\ pc[g] = "read"
    BY DEF FeedInv, Handle
  <1>2. SameLog /\ offsets' = offsets /\ batch' = batch /\ crashes' = crashes /\ fails' = fails
    BY DEF Handle, SameLog
  <1>3. log' = log /\ issued' = issued /\ trimmed' = trimmed /\ next' = next /\ before' = before /\ doomed' = doomed
        /\ Events' = Events
    BY <1>2 DEF SameLog, compaction, Events
  <1>4. /\ handled' = [handled EXCEPT ![g] = handled[g] \cup batch[g]]
        /\ pc' = [pc EXCEPT ![g] = "handled"]
    BY DEF Handle
  <1>5. TypeOK'
    <2>1. handled' \in [Groups -> SUBSET Events] /\ pc' \in [Groups -> {"idle", "read", "handled"}]
      BY <1>1, <1>4 DEF TypeOK
    <2> QED BY <1>1, <1>2, <1>3, <2>1 DEF TypeOK
  <1>6. pc'[g] = "handled" /\ handled'[g] = handled[g] \cup batch[g]
    BY <1>1, <1>4 DEF TypeOK
  <1>7. Caught(g)'
    BY <1>1, <1>2, <1>3, <1>6 DEF Caught
  <1>8. offsets'[g] < next /\ \A i \in Events : issued[i] <= offsets'[g] => i \in handled'[g] \cup trimmed
    BY <1>2, <1>6 DEF FeedInv, Numbering, NothingSkipped
  <1>9. \A h \in Groups \ {g} : /\ offsets'[h] = offsets[h] /\ handled'[h] = handled[h]
                                /\ pc'[h] = pc[h] /\ batch'[h] = batch[h]
    BY <1>1, <1>2, <1>4 DEF TypeOK
  <1> QED BY <1>2, <1>5, <1>7, <1>8, <1>9, FeedConsumer

\* A consumer that ends its round keeps the offset, or commits the number of an event of
\* its batch that it has handled (commit_offset, a commit that fails, a crash).
LEMMA FeedFinish ==
  ASSUME FeedInv, NEW g \in Groups, Finish(g), SameLog, handled' = handled,
         crashes' \in Nat, fails' \in Nat,
         \/ offsets' = offsets
         \/ /\ pc[g] = "handled"
            /\ \E b \in batch[g] : offsets' = [offsets EXCEPT ![g] = issued[b]]
  PROVE  FeedInv'
PROOF
  <1>1. TypeOK /\ Caught(g) /\ Numbering /\ NumbersIncrease
    BY DEF FeedInv
  <1>2. log' = log /\ issued' = issued /\ trimmed' = trimmed /\ next' = next /\ before' = before /\ doomed' = doomed
        /\ Events' = Events
    BY DEF SameLog, compaction, Events
  <1>3. pc' = [pc EXCEPT ![g] = "idle"] /\ batch' = [batch EXCEPT ![g] = {}]
    BY DEF Finish
  <1>4. pc'[g] = "idle"
    BY <1>1, <1>3 DEF TypeOK
  <1>5. /\ offsets' \in [Groups -> Nat] /\ offsets'[g] < next
        /\ \A i \in Events : issued[i] <= offsets'[g] => i \in handled[g] \cup trimmed
        /\ \A h \in Groups \ {g} : offsets'[h] = offsets[h]
    <2>1. CASE offsets' = offsets
      BY <1>1, <2>1 DEF FeedInv, TypeOK, Numbering, NothingSkipped
    <2>2. CASE /\ pc[g] = "handled"
               /\ \E b \in batch[g] : offsets' = [offsets EXCEPT ![g] = issued[b]]
      <3>1. PICK b \in batch[g] : offsets' = [offsets EXCEPT ![g] = issued[b]]
        BY Zenon, <2>2
      <3>2. b \in Events /\ issued[b] \in Nat /\ offsets \in [Groups -> Nat] /\ next \in Nat
        BY <1>1, <3>1 DEF TypeOK, Events
      <3>3. offsets'[g] = issued[b] /\ \A h \in Groups \ {g} : offsets'[h] = offsets[h]
        BY <3>1, <3>2
      <3>4. issued[b] < next
        BY <1>1, <3>2, NumberBelowNext
      <3>5. \A i \in Events : issued[i] <= issued[b] => i \in handled[g] \cup trimmed
        BY <1>1, <2>2, <3>1 DEF Caught
      <3> QED BY <3>1, <3>2, <3>3, <3>4, <3>5
    <2> QED BY <2>1, <2>2
  <1>6. TypeOK'
    <2>1. Cardinality({}) = 0 /\ \A h \in Groups : Cardinality(batch[h]) <= Limit
      BY <1>1, FS_EmptySet DEF TypeOK
    <2>2. batch' \in [Groups -> SUBSET Events] /\ pc' \in [Groups -> {"idle", "read", "handled"}]
      BY <1>1, <1>3 DEF TypeOK
    <2>3. \A h \in Groups : Cardinality(batch'[h]) <= Limit
      BY <1>1, <1>3, <2>1, ChangeFeedAssumption DEF TypeOK, ChangeFeedAssumption
    <2> QED BY <1>1, <1>2, <1>5, <2>2, <2>3 DEF TypeOK
  <1>7. Caught(g)'
    BY <1>4 DEF Caught
  <1>8. \A h \in Groups \ {g} : handled'[h] = handled[h] /\ pc'[h] = pc[h] /\ batch'[h] = batch[h]
    BY <1>1, <1>3 DEF TypeOK
  <1>9. \A i \in Events : issued[i] <= offsets'[g] => i \in handled'[g] \cup trimmed
    BY <1>5
  <1> QED BY <1>5, <1>6, <1>7, <1>8, <1>9, FeedConsumer
-----------------------------------------------------------------------------
\* the steps of retention leave the numbers given out, the offsets and the consumers alone
SameReaders == UNCHANGED <<issued, offsets, consumers>>

\* What a step of retention, or of reopening, has to keep: the newest event, and a trace of
\* every event that is gone.
LEMMA FeedStorage ==
  ASSUME FeedInv, SameReaders, next' = next, crashes' \in Nat, fails' \in Nat,
         log' \subseteq log, trimmed \subseteq trimmed', trimmed' \subseteq Events,
         Events \subseteq log' \cup trimmed',
         Len(issued) > 0 => Len(issued) \in log',
         before' \in Nat, before' < next, doomed' \subseteq Nat, \A d \in doomed' : d < before'
  PROVE  FeedInv'
PROOF
  <1>1. issued' = issued /\ offsets' = offsets /\ pc' = pc /\ batch' = batch /\ handled' = handled
        /\ Events' = Events
    BY DEF SameReaders, consumers, Events
  <1>2. TypeOK'
    BY <1>1 DEF FeedInv, TypeOK
  <1>3. NumbersIncrease'
    BY <1>1 DEF FeedInv, NumbersIncrease
  <1>4. Numbering'
    BY <1>1 DEF FeedInv, Numbering
  <1>5. NothingSkipped'
    BY <1>1 DEF FeedInv, NothingSkipped
  <1>6. ASSUME NEW g \in Groups PROVE Caught(g)'
    BY <1>1 DEF FeedInv, Caught
  <1> QED BY <1>1, <1>2, <1>3, <1>4, <1>5, <1>6 DEF FeedInv

\* retain_latest keeps at least one event, so compact's argument is a number given out.
LEMMA FeedRetain ==
  ASSUME FeedInv, NEW max \in Nat \ {0}, retain_latest(max)
  PROVE  FeedInv'
PROOF
  <1>1. next \in Nat \ {0} /\ next - 1 > max /\ before' = next - 1 - max + 1
    BY DEF FeedInv, TypeOK, retain_latest, latest_seq
  <1>2. before' \in Nat /\ before' < next
    BY <1>1
  <1>3. doomed = {} /\ doomed' = doomed
    <2>1. before = 0 /\ doomed' = doomed /\ doomed \subseteq Nat /\ \A d \in doomed : d < before
      BY DEF retain_latest, FeedInv, TypeOK, Numbering
    <2> QED BY <2>1
  <1>4. SameReaders /\ next' = next /\ crashes' \in Nat /\ fails' \in Nat /\ log' = log /\ trimmed' = trimmed
    BY DEF retain_latest, SameReaders, FeedInv, TypeOK
  <1> QED BY <1>2, <1>3, <1>4, FeedStorage DEF FeedInv, TypeOK, Numbering

\* compact's first transaction collects numbers below its argument.
LEMMA FeedCompactRead == FeedInv /\ CompactRead => FeedInv'
PROOF
  <1> SUFFICES ASSUME FeedInv, CompactRead PROVE FeedInv'
    OBVIOUS
  <1>1. doomed' \subseteq Nat /\ \A d \in doomed' : d < before
    <2>1. \A i \in log : issued[i] \in Nat
      BY DEF FeedInv, TypeOK, Events
    <2>2. doomed' = {issued[i] : i \in {j \in log : issued[j] < before}}
      BY DEF CompactRead, Below
    <2> QED BY <2>1, <2>2
  <1>2. /\ before' \in Nat /\ before' < next
        /\ doomed' # {} => before' = before
    BY DEF CompactRead, FeedInv, TypeOK, Numbering
  <1>3. SameReaders /\ next' = next /\ crashes' \in Nat /\ fails' \in Nat /\ log' = log /\ trimmed' = trimmed
    BY DEF CompactRead, SameReaders, FeedInv, TypeOK
  <1> QED BY <1>1, <1>2, <1>3, FeedStorage DEF FeedInv, TypeOK, Numbering

\* compact's second transaction removes them: events appended in between stay, and so
\* does the newest one, whose number is not below the argument.
LEMMA FeedCompactDelete == FeedInv /\ CompactDelete => FeedInv'
PROOF
  <1> SUFFICES ASSUME FeedInv, CompactDelete PROVE FeedInv'
    OBVIOUS
  <1>1. /\ log' = {i \in log : issued[i] \notin doomed}
        /\ trimmed' = trimmed \cup {i \in log : issued[i] \in doomed}
        /\ before' = 0 /\ doomed' = {}
    BY DEF CompactDelete, Trim
  <1>2. SameReaders /\ next' = next /\ crashes' \in Nat /\ fails' \in Nat
    BY DEF CompactDelete, SameReaders, FeedInv, TypeOK
  <1>3. /\ log \subseteq Events /\ trimmed \subseteq Events /\ Events \subseteq log \cup trimmed
        /\ next \in Nat \ {0} /\ before \in Nat /\ doomed \subseteq Nat
    BY DEF FeedInv, TypeOK
  <1>4. /\ log' \subseteq log /\ trimmed \subseteq trimmed' /\ trimmed' \subseteq Events
        /\ Events \subseteq log' \cup trimmed'
    BY <1>1, <1>3
  <1>5. ASSUME Len(issued) > 0 PROVE Len(issued) \in log'
    <2>1. /\ Len(issued) \in log /\ next = issued[Len(issued)] + 1
          /\ before < next /\ \A d \in doomed : d < before
      BY <1>5 DEF FeedInv, Numbering
    <2>2. issued[Len(issued)] \in Nat
      BY <1>3, <2>1 DEF FeedInv, TypeOK, Events
    <2>3. issued[Len(issued)] \notin doomed
      BY <1>3, <2>1, <2>2
    <2> QED BY <1>1, <2>1, <2>3
  <1>6. 0 < next
    BY <1>3
  <1> QED BY <1>1, <1>2, <1>4, <1>5, <1>6, FeedStorage

\* A transaction of compact fails, or the process stops during a compaction and the log
\* is opened again: the numbering goes on after the newest event.
LEMMA FeedGiveUp ==
  ASSUME FeedInv, CompactFails \/ open
  PROVE  FeedInv'
PROOF
  <1>1. TypeOK /\ NumbersIncrease /\ Numbering
    BY DEF FeedInv
  <1>2. SameReaders /\ log' = log /\ trimmed' = trimmed /\ crashes' \in Nat /\ fails' \in Nat
        /\ before' = 0 /\ doomed' = {}
    BY <1>1 DEF CompactFails, open, SameReaders, TypeOK
  <1>3. next' = next
    <2>1. CASE CompactFails
      BY <2>1 DEF CompactFails
    <2>2. CASE open
      <3>1. next' = IF log = {} THEN 1 ELSE issued[Newest(log)] + 1
        BY <2>2 DEF open
      <3>2. CASE Len(issued) = 0
        <4>1. log = {}
          BY <1>1, <3>2 DEF TypeOK, Events
        <4> QED BY <1>1, <3>1, <3>2, <4>1 DEF Numbering
      <3>3. CASE Len(issued) > 0
        <4>1. Len(issued) \in log /\ log \in SUBSET Events /\ next = issued[Len(issued)] + 1 /\ Len(issued) \in Nat
          BY <1>1, <3>3 DEF Numbering, TypeOK
        <4>2. Newest(log) \in log /\ Len(issued) <= Newest(log)
          BY <1>1, <4>1, NewestIsLast
        <4>3. Newest(log) \in 1 .. Len(issued)
          BY Zenon, <4>1, <4>2 DEF Events
        <4>4. Newest(log) = Len(issued)
          BY <4>1, <4>2, <4>3
        <4> QED BY <3>1, <4>1, <4>4
      <3>4. Len(issued) \in Nat
        BY <1>1 DEF TypeOK
      <3> QED BY <3>2, <3>3, <3>4
    <2> QED BY <2>1, <2>2
  <1>4. 0 < next
    BY <1>1 DEF TypeOK
  <1> QED BY <1>2, <1>3, <1>4, FeedStorage DEF FeedInv, TypeOK, Numbering

\* Every step keeps the invariant.
LEMMA FeedNext == FeedInv /\ [Next]_vars => FeedInv'
PROOF
  <1> SUFFICES ASSUME FeedInv, [Next]_vars PROVE FeedInv'
    OBVIOUS
  <1>1. CASE append
    BY <1>1, FeedAppend
  <1>2. ASSUME NEW g \in Groups, read_group(g) PROVE FeedInv'
    <2>1. Fetch(g, offsets[g]) /\ fails' \in Nat
      BY <1>2 DEF read_group, FeedInv, TypeOK
    <2> QED BY <2>1, ChangeFeedAssumption, FeedFetch
  <1>3. ASSUME NEW g \in Groups, ReadGroupFails(g) PROVE FeedInv'
    <2>1. Fetch(g, 0) /\ fails' \in Nat
      BY <1>3 DEF ReadGroupFails, FeedInv, TypeOK
    <2> QED BY <2>1, ChangeFeedAssumption, FeedFetch
  <1>4. ASSUME NEW g \in Groups, Handle(g) PROVE FeedInv'
    BY <1>4, FeedHandle
  <1>5. ASSUME NEW g \in Groups, commit_offset(g) PROVE FeedInv'
    <2>1. Finish(g) /\ SameLog /\ handled' = handled /\ crashes' \in Nat /\ fails' \in Nat /\ pc[g] = "handled"
      BY <1>5 DEF commit_offset, SameLog, FeedInv, TypeOK
    <2>2. batch[g] # {} /\ batch[g] \in SUBSET Events
      BY <2>1 DEF FeedInv, Caught, TypeOK
    <2>3. Newest(batch[g]) \in batch[g]
      BY <2>2, NewestIsLast DEF FeedInv
    <2>4. \E b \in batch[g] : offsets' = [offsets EXCEPT ![g] = issued[b]]
      BY Zenon, <1>5, <2>3 DEF commit_offset
    <2> QED BY Zenon, <2>1, <2>4, FeedFinish
  <1>6. ASSUME NEW g \in Groups, CommitFails(g) \/ ConsumerCrash(g) PROVE FeedInv'
    <2>1. Finish(g) /\ SameLog /\ handled' = handled /\ crashes' \in Nat /\ fails' \in Nat /\ offsets' = offsets
      BY <1>6 DEF CommitFails, ConsumerCrash, SameLog, FeedInv, TypeOK
    <2> QED BY <2>1, FeedFinish
  <1>7. CASE UNCHANGED vars \/ \E g \in Groups : PollIdle(g)
    <2>1. SameReaders /\ UNCHANGED <<log, next, before, doomed, trimmed, crashes, fails>>
      BY <1>7 DEF PollIdle, vars, SameReaders, consumers, compaction
    <2> QED BY <2>1, FeedStorage DEF FeedInv, TypeOK, Numbering
  <1>8. ASSUME NEW max \in (IF MayEmpty THEN 0 ELSE 1) .. MaxEvents, retain_latest(max) PROVE FeedInv'
    <2>1. max \in Nat \ {0}
      BY <1>8, ChangeFeedAssumption DEF FeedInv, ChangeFeedAssumption
    <2> QED BY <1>8, <2>1, FeedRetain
  <1>9. CASE CompactRead \/ CompactDelete \/ CompactFails \/ open
    BY <1>9, FeedCompactRead, FeedCompactDelete, FeedGiveUp
  <1> QED BY <1>1, <1>2, <1>3, <1>4, <1>5, <1>6, <1>7, <1>8, <1>9 DEF Next, Consume
-----------------------------------------------------------------------------
\* FeedInv holds throughout: the change log of changefeed.rs while retention keeps its
\* newest event.
LEMMA FeedInvariant == ~MayEmpty /\ Spec => []FeedInv
PROOF
  <1>1. ~MayEmpty /\ Init => FeedInv
    BY ChangeFeedAssumption, FeedInit
  <1> QED BY <1>1, FeedNext, PTL DEF Spec

(***************************************************************************)
(* No number is given out twice or out of order, however often the process *)
(* stops and LmdbChangeLog::open recovers `next`, at whatever point of a   *)
(* compaction.                                                             *)
(***************************************************************************)
THEOREM NumbersNeverRepeat == ~MayEmpty /\ Spec => []NumbersIncrease
PROOF
  <1>1. FeedInv => NumbersIncrease
    BY DEF FeedInv
  <1> QED BY <1>1, FeedInvariant, PTL

(***************************************************************************)
(* Consumer groups are at-least-once: an event at or below a committed     *)
(* offset was handled by the group or trimmed, although read_group takes   *)
(* batches of a log that appends and compactions change, offsets are lost, *)
(* and consumers and the process crash.                                    *)
(***************************************************************************)
THEOREM NoEventIsSkipped == ~MayEmpty /\ Spec => []NothingSkipped
PROOF
  <1>1. FeedInv => NothingSkipped
    BY DEF FeedInv
  <1> QED BY <1>1, FeedInvariant, PTL

(***************************************************************************)
(* The type invariant; a batch of read_group never exceeds its limit.      *)
(***************************************************************************)
THEOREM FeedTypeCorrect == ~MayEmpty /\ Spec => []TypeOK
PROOF
  <1>1. FeedInv => TypeOK
    BY DEF FeedInv
  <1> QED BY <1>1, FeedInvariant, PTL
=============================================================================
