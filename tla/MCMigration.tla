---------------------------- MODULE MCMigration ----------------------------
(***************************************************************************)
(* Instances of Migration: three nodes, two buckets whose rankings differ, *)
(* one key in each.                                                        *)
(***************************************************************************)
EXTENDS Migration

CONSTANTS n1, n2, n3, k1, k2

MCNodes == {n1, n2, n3}
MCKeys == {k1, k2}
MCBuckets == {1, 2}
MCbucket_of == [k \in MCKeys |-> IF k = k1 THEN 1 ELSE 2]
MCScore == <<[n \in MCNodes |-> CASE n = n1 -> 3 [] n = n2 -> 2 [] n = n3 -> 1],
             [n \in MCNodes |-> CASE n = n1 -> 2 [] n = n2 -> 1 [] n = n3 -> 3]>>
MCRack == [n \in MCNodes |-> n]
TwoNodes == {n1, n2}
Grow == {{n1, n2, n3}}
GrowOrReplace == {{n1, n2, n3}, {n2, n3}}
Stay == {}
=============================================================================
