------------------------ MODULE MCConnectionScheduler ------------------------
(***************************************************************************)
(* ConnectionScheduler with five tasks of three clients.                   *)
(***************************************************************************)
EXTENDS ConnectionScheduler, TLC

CONSTANTS t1, t2, t3, t4, t5, a, b, c

MCTaskIds == {t1, t2, t3, t4, t5}
MCSources == {a, b, c}

Symmetry == Permutations(MCTaskIds) \cup Permutations(MCSources)
==============================================================================
