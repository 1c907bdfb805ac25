--------------------------- MODULE MCChangeColumns ---------------------------
(***************************************************************************)
(* ChangeColumns with a key whose geometry may be absent, small, large, a  *)
(* second large one of the same shape and a large one of another shape,    *)
(* and a key that has a large geometry or no row.                          *)
(***************************************************************************)
EXTENDS ChangeColumns, TLC

CONSTANTS a, b, k1, k2, small, large, largeToo, other

row(attr, geom) == [attr |-> attr, geom |-> geom]

MCKeys == {k1, k2}
MCAttributes == {a, b}
MCGeometries == {small, large, largeToo, other}
MCLarge == {large, largeToo, other}
MCShape == [g \in MCGeometries |-> IF g = largeToo THEN large ELSE g]
MCRows ==
  {NoRow, row(a, NoGeometry), row(a, small), row(a, large), row(b, large),
   row(b, largeToo), row(a, other)}
MCSources ==
  {[k \in MCKeys |-> IF k = k1 THEN r ELSE s] : r \in MCRows, s \in {NoRow, row(a, large)}}
==============================================================================
