---------------------------- MODULE MCDarImport -----------------------------
(***************************************************************************)
(* DarImport with two entities of one row each: four events, in            *)
(* transactions of one or two.                                             *)
(***************************************************************************)
EXTENDS DarImport, TLC

CONSTANTS husnummer, adresse, k1

MCEntities == {husnummer, adresse}
MCRowkeys == {k1}
MCDaemons ==
  [pretend : {FALSE}, noDaemon : {FALSE}, notificationUrl : BOOLEAN]
    \cup {[pretend |-> FALSE, noDaemon |-> TRUE, notificationUrl |-> TRUE],
          [pretend |-> TRUE, noDaemon |-> FALSE, notificationUrl |-> TRUE]}
=============================================================================
