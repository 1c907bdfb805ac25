--------------------------- MODULE MCDistScheduler ---------------------------
(***************************************************************************)
(* DistScheduler with two workers and two clients, around an object of     *)
(* either class: the initial state chooses.                                *)
(***************************************************************************)
EXTENDS DistScheduler, TLC

CONSTANTS t1, t2, t3, v, w, a, b

MCTaskIds == {t1, t2, t3}
MCWorkers == {v, w}
MCSources == {a, b}
MCWorkerOf == (t1 :> v) @@ (t2 :> v) @@ (t3 :> w)
MCSourceOf == (t1 :> a) @@ (t2 :> b) @@ (t3 :> a)
==============================================================================
