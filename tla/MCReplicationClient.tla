------------------------ MODULE MCReplicationClient -------------------------
(***************************************************************************)
(* A server with two tables of one key each, the row of the second refers  *)
(* to the row of the first, and the client. Neither has the column ændret, *)
(* which the client does not copy here.                                    *)
(***************************************************************************)
EXTENDS ReplicationClient, TLC

CONSTANTS adresse, postnummer, k1, p, q, h, r1, r2

MCEntities == {adresse, postnummer}
MCKeys == {k1}
MCPublics == {p, q}
MCHiddens == {h}
MCPosition == (postnummer :> 1) @@ (adresse :> 2)
MCTimedTables == {{}}
MCReferences ==
  {[entity |-> adresse, key |-> k1, parent |-> postnummer, parentKey |-> k1]}
MCOneRun == {r1}
MCTwoRuns == {r1, r2}
MCBoth == BOOLEAN
==============================================================================
