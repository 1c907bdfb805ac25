----------------------------- MODULE ChangeTable -----------------------------
(***************************************************************************)
(* A table, its change table, and the functions of import-util that        *)
(* compare and change them (table-diff.js).                                *)
(*                                                                         *)
(*   table     a function from primary keys to rows, NoRow where the table *)
(*             has no row with that key                                    *)
(*   changes   rows of <table>_changes, as a set of records                *)
(*                                                                         *)
(* Columns that are derived from the row are part of the row here.         *)
(***************************************************************************)
EXTENDS Naturals, FiniteSets

CONSTANTS Keys,     \* values of the primary key
          NoRow     \* the absent row

Present(table) == {k \in Keys : table[k] # NoRow}

\* A row of the change table. changeid is NULL (0 here) until the end of the
\* transaction, public is set by setPublic.
NewChange(txid, operation, k, row) ==
  [txid |-> txid, operation |-> operation, key |-> k, row |-> row,
   public |-> FALSE, changeid |-> 0]

computeInserts(txid, source, table) ==
  {NewChange(txid, "insert", k, source[k]) : k \in Present(source) \ Present(table)}

computeUpdates(txid, source, table) ==
  {NewChange(txid, "update", k, source[k]) :
     k \in {j \in Present(source) \cap Present(table) : source[j] # table[j]}}

\* A delete carries the row it removes.
computeDeletes(txid, source, table) ==
  {NewChange(txid, "delete", k, table[k]) : k \in Present(table) \ Present(source)}

\* What must happen to table to make it equal to source.
computeDifferences(txid, source, table) ==
  computeInserts(txid, source, table)
    \cup computeUpdates(txid, source, table)
    \cup computeDeletes(txid, source, table)

HasChange(changes, k) == \E c \in changes : c.key = k

RowIn(changes, k) == (CHOOSE c \in changes : c.key = k).row

WithOperation(changes, operation) == {c \in changes : c.operation = operation}

applyDeletes(table, changes) ==
  [k \in Keys |-> IF HasChange(WithOperation(changes, "delete"), k) THEN NoRow ELSE table[k]]

\* Every row that is there takes its change, whatever the operation of it.
applyUpdates(table, changes) ==
  [k \in Keys |-> IF table[k] # NoRow /\ HasChange(changes, k)
                  THEN RowIn(changes, k) ELSE table[k]]

applyInserts(table, changes) ==
  [k \in Keys |-> IF HasChange(WithOperation(changes, "insert"), k)
                  THEN RowIn(WithOperation(changes, "insert"), k) ELSE table[k]]

applyChanges(table, changes) ==
  applyInserts(applyUpdates(applyDeletes(table, changes), changes), changes)
==============================================================================
