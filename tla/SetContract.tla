----------------------------- MODULE SetContract -----------------------------
(***************************************************************************)
(* What the clients of one shard may rely on: every SET of the binary      *)
(* protocol takes effect at one point between its request and its ST_OK,   *)
(* alone or together with others (proto.rs: "the value is durable+visible  *)
(* before we ack"), and every other command of it or of RESP acts on the   *)
(* store as it is then, with the members of a set a set, as in Redis.      *)
(* Once the shard's writer has failed nothing takes effect any more, but   *)
(* SETs that were waiting may still be answered.                           *)
(***************************************************************************)
EXTENDS Naturals, FiniteSets

CONSTANTS Conns, Keys, Values, Members, None

VARIABLES
  store,   \* the shard's objects
  asked,   \* per connection: the SET it waits for, <<key, value>>, or None
  applied, \* connections whose SET has taken effect and is not yet answered
  failed   \* has the writer failed?

contract == <<store, asked, applied, failed>>

Number(v) == <<"number", v>>

\* a set with its SCARD; there is no empty one
SetOf(S) == IF S = {} THEN None ELSE <<"set", S, Cardinality(S)>>

Objects == {Number(v) : v \in Values} \cup {SetOf(S) : S \in SUBSET Members}

\* a key without a set counts as the empty one
MembersOf(k) == IF store[k] # None /\ store[k][1] = "set" THEN store[k][2] ELSE {}

SetInit ==
  /\ store = [k \in Keys |-> None]
  /\ asked = [c \in Conns |-> None]
  /\ applied = {} /\ failed = FALSE

Ask(c, k, v) ==
  /\ asked[c] = None
  /\ asked' = [asked EXCEPT ![c] = <<k, v>>]
  /\ UNCHANGED <<store, applied, failed>>

\* the SETs of cs take effect; of two on one key either may come last
Apply(cs) ==
  /\ cs # {} /\ ~failed
  /\ \A c \in cs : asked[c] # None /\ c \notin applied
  /\ applied' = applied \cup cs
  /\ store' \in [Keys -> Objects]
  /\ \A k \in Keys :
       LET on == {c \in cs : asked[c][1] = k}
       IN  IF on = {} THEN store'[k] = store[k] ELSE \E c \in on : store'[k] = Number(asked[c][2])
  /\ UNCHANGED <<asked, failed>>

Answer(c) ==
  /\ c \in applied \/ failed
  /\ asked' = [asked EXCEPT ![c] = None]
  /\ applied' = applied \ {c}
  /\ UNCHANGED <<store, failed>>

Act(new) ==
  /\ ~failed
  /\ store' = new
  /\ UNCHANGED <<asked, applied, failed>>

Delete(ks) == Act([k \in Keys |-> IF k \in ks THEN None ELSE store[k]])

Put(k, v) == Act([store EXCEPT ![k] = Number(v)])

\* on a number or on nothing, which counts as 0
Add(k, delta) ==
  /\ MembersOf(k) = {}
  /\ LET found == IF store[k] = None THEN 0 ELSE store[k][2]
     IN  Put(k, (found + delta) % Cardinality(Values))

Include(k, ms) == ~(ms \subseteq MembersOf(k)) /\ Act([store EXCEPT ![k] = SetOf(MembersOf(k) \cup ms)])

Exclude(k, ms) == ms \cap MembersOf(k) # {} /\ Act([store EXCEPT ![k] = SetOf(MembersOf(k) \ ms)])

Fail ==
  /\ failed' = TRUE
  /\ UNCHANGED <<store, asked, applied>>

SetNext ==
  \/ \E c \in Conns, k \in Keys, v \in Values : Ask(c, k, v)
  \/ \E cs \in SUBSET Conns : Apply(cs)
  \/ \E c \in Conns : Answer(c)
  \/ \E ks \in SUBSET Keys : Delete(ks)
  \/ \E k \in Keys, v \in Values : Put(k, v) \/ Add(k, v)
  \/ \E k \in Keys, ms \in SUBSET Members : Include(k, ms) \/ Exclude(k, ms)
  \/ Fail

SetSpec == SetInit /\ [][SetNext]_contract
=============================================================================
