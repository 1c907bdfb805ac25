-------------------------- MODULE MCQueryScheduler ---------------------------
(***************************************************************************)
(* QueryScheduler with a few tasks of three clients. The clients differ    *)
(* only in their names, and so do the tasks.                               *)
(***************************************************************************)
EXTENDS QueryScheduler, TLC

CONSTANTS t1, t2, t3, t4, t5, a, b, c

MCTaskIds == {t1, t2, t3, t4, t5}
MCSources == {a, b, c}
MCDurations == {0, 1, 3}

Symmetry == Permutations(MCTaskIds) \cup Permutations(MCSources)
==============================================================================
