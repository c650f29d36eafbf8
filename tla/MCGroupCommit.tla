--------------------------- MODULE MCGroupCommit ---------------------------
(***************************************************************************)
(* An instance of GroupCommit: two keys, of which the first meets every    *)
(* command and two values, so that the order of a batch shows.             *)
(***************************************************************************)
EXTENDS GroupCommit

CONSTANTS k1, k2

MCPuts == {<<k1, 0>>, <<k1, 1>>, <<k2, 0>>}
=============================================================================
