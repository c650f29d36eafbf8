--------------------------- MODULE MCSmartClient ---------------------------
(***************************************************************************)
(* A small instance of SmartClient: three shards, two buckets, and keys    *)
(* in alphabetical order 1, 2, ...                                         *)
(***************************************************************************)
EXTENDS SmartClient

CONSTANTS n1, n2, n3

MCNodes == {n1, n2, n3}
MCBuckets == {1, 2}
MCbucket_of == [k \in Keys |-> 2 - (k % 2)]
MCScore == <<[n \in MCNodes |-> CASE n = n1 -> 3 [] n = n2 -> 2 [] n = n3 -> 1],
             [n \in MCNodes |-> CASE n = n1 -> 2 [] n = n2 -> 1 [] n = n3 -> 3]>>
MCRack == [n \in MCNodes |-> n]

\* n3 is drained
Drain == {{n1, n2}}
=============================================================================
