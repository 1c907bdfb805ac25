------------------------- MODULE MCReplicationServer --------------------------
(***************************************************************************)
(* ReplicationServer with one table that has private columns: two keys,    *)
(* two values of the public and of the private columns. The table is with  *)
(* the column ændret, so that every update is public, or without.          *)
(***************************************************************************)
EXTENDS ReplicationServer, TLC

CONSTANTS e1, k1, k2, p, q, h, i

MCEntities == {e1}
MCKeys == {k1, k2}
MCTimedTables == SUBSET MCEntities
MCPublics == {p, q}
MCHiddens == {h, i}
MCPosition == [e \in MCEntities |-> 1]

Symmetry == Permutations(MCKeys) \cup Permutations(MCPublics) \cup Permutations(MCHiddens)
==============================================================================
