----------------------------- MODULE Components ------------------------------
(***************************************************************************)
(* The component executor (server/components): an import transaction runs  *)
(* importers, which replace tables by what an external source has, and the *)
(* processors of all tables that depend on them, each a list of            *)
(* materializations.                                                       *)
(*                                                                         *)
(* The change tables are looked at within one transaction: rows of earlier *)
(* ones have another txid and are never read.                              *)
(***************************************************************************)
EXTENDS Materialization, Sequences

CONSTANTS Importers,        \* components: [id, produces, requires]
          Processors,       \* components: [id, materializations]
          Imported(_),      \* what may be in a table at the source
          Runs              \* [roots, strategy]: the runs that are looked at

Components == Importers \cup Processors

materializationsOf(c) == {c.materializations[i] : i \in DOMAIN c.materializations}

produces(c) ==
  IF c \in Importers THEN c.produces ELSE {m.table : m \in materializationsOf(c)}

requires(c) ==
  IF c \in Importers THEN c.requires ELSE UNION {requiredTables(m) : m \in materializationsOf(c)}

ASSUME ComponentsAssumption ==
  /\ IsFiniteSet(Tables) /\ IsFiniteSet(Components) /\ Importers \cap Processors = {}
  /\ \A r \in Runs : r.roots \subseteq Components /\ r.strategy \in {"QUICK", "SLOW", "VERIFY"}
  /\ \A c \in Components : produces(c) \cup requires(c) \subseteq Tables
  /\ \A c, d \in Components : c # d => produces(c) \cap produces(d) = {}
  /\ \A c \in Components : produces(c) \cap requires(c) = {}
  /\ \A p \in Processors :
       /\ p.materializations \in Seq(Materializations)
       /\ \A i, j \in DOMAIN p.materializations :
            /\ p.materializations[i].table = p.materializations[j].table => i = j
            \* QUICK may end a component early
            /\ dependentTables(p.materializations[i]) = dependentTables(p.materializations[j])
  /\ Materializations = UNION {materializationsOf(p) : p \in Processors}
  \* Materialized tables are referred to by their primary key.
  /\ \A m, n \in Materializations : \A d \in m.dependents : d.table = n.table =>
       \A j \in Keys, r1, r2 \in Rows(n.table) : Reference(d, j, r1) = Reference(d, j, r2)
  /\ \A i \in Importers : \A t \in i.produces : Imported(t) \subseteq ContentOf(t)

VARIABLES tables,       \* contents
          changes,      \* rows of the change tables with the txid of this run
          phase,        \* "idle" or "running"
          strategy,
          inScope,      \* components of this run
          todo,         \* those not executed yet
          modified,     \* context.changes: the tables with a total > 0
          before        \* the tables at the savepoint

runVars == <<strategy, inScope, before>>
vars == <<tables, changes, phase, runVars, todo, modified>>

txid == 1

NoChanges == [t \in Tables |-> {}]

-----------------------------------------------------------------------------
\* getTablesInScope: the least set that follows the components.
Closed(S, roots) ==
  /\ UNION {produces(c) : c \in roots} \subseteq S
  /\ \A c \in Components : requires(c) \cap S # {} => produces(c) \subseteq S

getTablesInScope(roots) ==
  {t \in Tables : \A S \in SUBSET Tables : Closed(S, roots) => t \in S}

ComponentsInScope ==
  [r \in Runs |-> LET scope == getTablesInScope(r.roots)
                  IN  {c \in Components : produces(c) \cap scope # {}} \cup r.roots]

\* toposort
\* Slip: the edges are forgotten.
ComesNext_Anytime(c) == TRUE

\* The components come after those that produce what they require.
ComesNext(c) == \A d \in todo : produces(d) \cap requires(c) = {}

hasModifiedDependency(m) == \E d \in m.dependents : d.table \in modified

hasNonincrementalDependency(m) == nonIncrementalDependents(m) # {}

\* With QUICK the first materialization without a change ends the component.
Reached(c, i) ==
  strategy = "QUICK" => \A j \in 1..i : hasModifiedDependency(c.materializations[j])

\* Slip: SLOW treats all alike.
Differences_Incremental(m) ==
  IF strategy = "VERIFY" THEN recomputeMaterialization(txid, m, tables)
  ELSE materialize(txid, m, tables, changes)

\* The change rows of one materialization.
Differences(m) ==
  IF strategy = "VERIFY" \/ (strategy = "SLOW" /\ hasNonincrementalDependency(m))
  THEN recomputeMaterialization(txid, m, tables)
  ELSE materialize(txid, m, tables, changes)

\* The tables of a component get these change rows, and applyChanges.
Apply(c, rows) ==
  /\ changes' = [t \in Tables |-> IF t \in produces(c) THEN changes[t] \cup rows[t] ELSE changes[t]]
  /\ tables' = [t \in Tables |-> IF t \in produces(c) THEN applyChanges(tables[t], changes'[t])
                                 ELSE tables[t]]
  /\ modified' = modified \cup {t \in produces(c) : changes'[t] # {}}

-----------------------------------------------------------------------------
Init ==
  /\ tables = [t \in Tables |-> [k \in Keys |-> NoRow]]
  /\ \A m \in Materializations : Fresh(m, tables)
  /\ changes = NoChanges
  /\ phase = "idle"
  /\ \E r \in Runs : strategy = r.strategy
  /\ inScope = {} /\ todo = {} /\ modified = {}
  /\ before = tables

\* Slip: the txid is not a new one.
Start_SameTxid ==
  /\ phase = "idle"
  /\ \E r \in Runs :
       /\ strategy' = r.strategy
       /\ inScope' = ComponentsInScope[r]
       /\ todo' = inScope'
  /\ phase' = "running"
  /\ modified' = {}
  /\ before' = tables
  /\ UNCHANGED <<tables, changes>>

\* executeRollbackable up to the first component
Start ==
  /\ phase = "idle"
  /\ \E r \in Runs :
       /\ strategy' = r.strategy
       /\ inScope' = ComponentsInScope[r]
       /\ todo' = inScope'
  /\ phase' = "running"
  /\ changes' = NoChanges /\ modified' = {}
  /\ before' = tables
  /\ UNCHANGED tables

\* Columns that others refer to do not change while the row is there.
KeepsReferences(t, new) ==
  \A m \in Materializations : \A d \in m.dependents : d.table = t =>
    \A j \in Keys : tables[t][j] # NoRow /\ new[j] # NoRow =>
      Reference(d, j, tables[t][j]) = Reference(d, j, new[j])

Import(c) ==
  /\ c \in Importers
  /\ \E source \in [c.produces -> UNION {Imported(t) : t \in c.produces}] :
       /\ \A t \in c.produces : source[t] \in Imported(t) /\ KeepsReferences(t, source[t])
       /\ Apply(c, [t \in c.produces |-> computeDifferences(txid, source[t], tables[t])])

\* fromMaterializations(...).execute
Process(c) ==
  /\ c \in Processors
  /\ LET rowsOf(t) ==
           LET i == CHOOSE j \in DOMAIN c.materializations : c.materializations[j].table = t
           IN  IF Reached(c, i) THEN Differences(c.materializations[i]) ELSE {}
     IN  Apply(c, [t \in produces(c) |-> rowsOf(t)])

ExecuteComponent ==
  /\ phase = "running"
  /\ \E c \in todo :
       /\ ComesNext(c)
       /\ Import(c) \/ Process(c)
       /\ todo' = todo \ {c}
  /\ UNCHANGED <<phase, runVars>>

\* Slip: only what the importers changed counts.
hasModified_OfImporters == \E i \in Importers : i.produces \cap modified # {}

hasModified == modified # {}

\* The end of executeRollbackable: without changes, back to the savepoint.
Finish ==
  /\ phase = "running"
  /\ todo = {}
  /\ phase' = "idle"
  /\ tables' = IF hasModified THEN tables ELSE before
  /\ UNCHANGED <<changes, runVars, todo, modified>>

\* A source cannot be read, a query fails, the process is killed: the
\* transaction is rolled back.
Fail ==
  /\ phase = "running"
  /\ phase' = "idle"
  /\ tables' = before
  /\ changes' = NoChanges /\ todo' = {} /\ modified' = {}
  /\ UNCHANGED runVars

Next == Start \/ ExecuteComponent \/ Finish \/ Fail

Spec == Init /\ [][Next]_vars

-----------------------------------------------------------------------------
TypeOK ==
  /\ \A t \in Tables : tables[t] \in ContentOf(t) /\ before[t] \in ContentOf(t)
  /\ phase \in {"idle", "running"}
  /\ strategy \in {r.strategy : r \in Runs}
  /\ inScope \subseteq Components /\ todo \subseteq inScope
  /\ phase = "idle" => todo = {}
  /\ modified = {t \in Tables : changes[t] # {}}

Ends == phase = "running" /\ todo = {}

\* Following the changes of its dependents is as good as computing it anew:
\* no run leaves a materialization behind that was up to date before, except
\* that QUICK does not look at changes of non-incremental dependencies.
KeepsFresh ==
  Ends => \A m \in Materializations :
            /\ Fresh(m, before)
            /\ strategy = "QUICK" => \A t \in nonIncrementalDependents(m) : changes[t] = {}
            => Fresh(m, tables)

\* The other strategies also repair everything that depends on their roots.
RepairsScope ==
  Ends /\ strategy # "QUICK" =>
    \A c \in inScope \cap Processors : \A m \in materializationsOf(c) : Fresh(m, tables)

\* The change tables tell the consumers of replication exactly what happened.
ChangesAreExact ==
  phase = "running" => \A t \in Tables :
    /\ applyChanges(before[t], changes[t]) = tables[t]
    /\ \A c, d \in changes[t] : c.key = d.key => c = d
    /\ \A c \in changes[t] : before[t][c.key] # tables[t][c.key]

\* A run is rolled back only if nothing is lost by it.
NothingIsLost == [][Finish => tables' = tables]_vars
==============================================================================
