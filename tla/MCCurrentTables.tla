--------------------------- MODULE MCCurrentTables ---------------------------
(***************************************************************************)
(* CurrentTables with two objects and two processes that import, a daemon  *)
(* that polls and a command that need not begin: periods that touch        *)
(* with the same and another value, one that ends between milliseconds,    *)
(* one whose end is open. The sequence suffices for both objects, one of   *)
(* them with two periods.                                                  *)
(***************************************************************************)
EXTENDS CurrentTables, TLC

CONSTANTS a, b, i1, i2, daemon, command

slice(value, from, to) == [value |-> value, from |-> from, to |-> to]

MCIds == {i1, i2}
MCRegistered == {4}
MCImporters == {daemon, command}
MCPolling == {daemon}
MCTimelines ==
  {{},
   {slice(a, 0, 2), slice(a, 2, Forever)},
   {slice(a, 0, 2), slice(b, 2, 3)}}
==============================================================================
