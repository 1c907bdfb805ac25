--------------------------- MODULE Materialization ---------------------------
(***************************************************************************)
(* Materialized views of import-util (materialize.js): a table that holds  *)
(* the rows of a view, brought up to date from the changes of the tables   *)
(* the view reads, or by computing it anew.                                *)
(*                                                                         *)
(* A materialization names its table, the dependents (a table and the      *)
(* column that joins it, a column of the view on one side and references   *)
(* on the other), and the tables that are read but not followed.           *)
(***************************************************************************)
EXTENDS ChangeTable

CONSTANTS Tables,
          Materializations,     \* records, see above
          Rows(_),              \* the rows a table may have
          View(_, _),           \* the view of a materialization, in SQL
          Column(_, _, _),      \* of a dependent: the value in a row of the view
          Reference(_, _, _)    \* of a dependent: the value in a row of its table

ContentOf(t) == [Keys -> Rows(t) \cup {NoRow}]

nonIncrementalDependents(m) == m.nonIncrementalDependents

dependentTables(m) == {d.table : d \in m.dependents}

requiredTables(m) == dependentTables(m) \cup nonIncrementalDependents(m)

\* What the view reads.
Inputs(m, tables) == [t \in requiredTables(m) |-> tables[t]]

Databases(m) == {db \in [requiredTables(m) -> UNION {ContentOf(t) : t \in requiredTables(m)}] :
                   \A t \in requiredTables(m) : db[t] \in ContentOf(t)}

Fresh(m, tables) == tables[m.table] = View(m, Inputs(m, tables))

\* Row k of the view and row j of the table of d belong together.
Joins(d, k, row, j, other) ==
  row # NoRow /\ other # NoRow /\ Column(d, k, row) = Reference(d, j, other)

\* A difference between two databases that row k of neither view joins, and
\* none in what is not followed.
Unrelated(m, db1, db2, k) ==
  /\ \A t \in nonIncrementalDependents(m) : db1[t] = db2[t]
  /\ \A d \in m.dependents, j \in Keys :
       db1[d.table][j] # db2[d.table][j] =>
         /\ ~ Joins(d, k, View(m, db1)[k], j, db1[d.table][j])
         /\ ~ Joins(d, k, View(m, db1)[k], j, db2[d.table][j])
         /\ ~ Joins(d, k, View(m, db2)[k], j, db1[d.table][j])
         /\ ~ Joins(d, k, View(m, db2)[k], j, db2[d.table][j])

\* The dependents of a materialization are complete: a row of the view only
\* changes with rows that join it before or after.
ASSUME MaterializationAssumption ==
  /\ \A m \in Materializations :
       /\ m.table \in Tables \ requiredTables(m) /\ requiredTables(m) \subseteq Tables
       /\ \A db \in Databases(m) : View(m, db) \in ContentOf(m.table)
       /\ \A db1, db2 \in Databases(m), k \in Keys :
            Unrelated(m, db1, db2, k) => View(m, db1)[k] = View(m, db2)[k]
  /\ \A t \in Tables : NoRow \notin Rows(t)

-----------------------------------------------------------------------------
\* NATURAL JOIN with a table of keys
Only(table, dirty) == [k \in Keys |-> IF k \in dirty THEN table[k] ELSE NoRow]

\* The Subset functions of table-diff.js.
computeDifferencesSubset(txid, source, dirty, table) ==
  computeDifferences(txid, Only(source, dirty), Only(table, dirty))

\* The keys of source whose rows join a changed row. Of an update the change
\* table only has the new row.
computeDirtyPart(m, source, changes) ==
  {k \in Present(source) :
     \E d \in m.dependents : \E c \in changes[d.table] :
       Column(d, k, source[k]) = Reference(d, c.key, c.row)}

\* Slip: rows that leave the view are not looked for in the table.
computeDirty_OfView(m, tables, changes) ==
  computeDirtyPart(m, View(m, Inputs(m, tables)), changes)

computeDirty(m, tables, changes) ==
  computeDirtyPart(m, tables[m.table], changes)
    \cup computeDirtyPart(m, View(m, Inputs(m, tables)), changes)

\* The change rows each way leaves for the table of m; applyChanges follows.
materialize(txid, m, tables, changes) ==
  IF m.dependents = {} THEN {}
  ELSE computeDifferencesSubset(txid, View(m, Inputs(m, tables)),
                                computeDirty(m, tables, changes), tables[m.table])

recomputeMaterialization(txid, m, tables) ==
  computeDifferences(txid, View(m, Inputs(m, tables)), tables[m.table])
==============================================================================
