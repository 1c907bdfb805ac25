-------------------------- MODULE Components_proofs --------------------------
(***************************************************************************)
(* Proofs about Components: following the changes of the dependents is as  *)
(* good as computing a materialization anew.                               *)
(***************************************************************************)
EXTENDS Components, SharedLemmas

-----------------------------------------------------------------------------
\* Materializations

\* The table with the rows of source for the dirty keys.
Renewed(dirty, source, table) == [k \in Keys |-> IF k \in dirty THEN source[k] ELSE table[k]]

\* The subset differences are those that lead to the renewed table.
LEMMA SubsetFits ==
  ASSUME NEW x, NEW S, NEW source \in [Keys -> S], NEW table \in [Keys -> S], NEW dirty
  PROVE  Fit(computeDifferencesSubset(x, source, dirty, table), x,
             Renewed(dirty, source, table), table)
<1> DEFINE D == computeDifferencesSubset(x, source, dirty, table)
           result == Renewed(dirty, source, table)
<1>1. Fit(D, x, Only(source, dirty), Only(table, dirty))
  BY DifferencesFit DEF computeDifferencesSubset
<1>2. \A k \in Keys : /\ Only(source, dirty)[k] = IF k \in dirty THEN source[k] ELSE NoRow
                      /\ Only(table, dirty)[k] = IF k \in dirty THEN table[k] ELSE NoRow
                      /\ result[k] = IF k \in dirty THEN source[k] ELSE table[k]
  BY DEF Only, Renewed
<1>3. \A c \in D : c.key \in Keys /\ c.key \in dirty
  BY <1>1, <1>2 DEF Fit
<1>4. \A k \in Keys : result[k] # table[k] => Only(source, dirty)[k] # Only(table, dirty)[k]
  BY <1>2
<1> HIDE DEF D, result
<1>5. Fit(D, x, result, table)
  BY <1>1, <1>2, <1>3, <1>4 DEF Fit
<1> QED BY <1>5 DEF D, result

\* The inputs of a materialization among well-typed tables.
LEMMA InputsType ==
  ASSUME NEW m \in Materializations, NEW tabs,
         \A t \in Tables : tabs[t] \in ContentOf(t)
  PROVE  /\ Inputs(m, tabs) \in Databases(m)
         /\ View(m, Inputs(m, tabs)) \in ContentOf(m.table)
         /\ m.table \in Tables /\ m.table \notin requiredTables(m)
         /\ requiredTables(m) \subseteq Tables
<1>1. /\ m.table \in Tables \ requiredTables(m) /\ requiredTables(m) \subseteq Tables
      /\ \A db \in Databases(m) : View(m, db) \in ContentOf(m.table)
  BY MaterializationAssumption
<1>2. \A t \in requiredTables(m) : tabs[t] \in ContentOf(t)
  BY <1>1
<1>3. Inputs(m, tabs) \in Databases(m)
  BY <1>2 DEF Inputs, Databases
<1> QED BY <1>1, <1>3

\* Every difference of a table is among these changes, and no reference moved.
Covers(d, D, old, new) ==
  \A j \in Keys : old[j] # new[j] =>
    \E c \in D : /\ c.key = j
                 /\ old[j] # NoRow => Reference(d, j, c.row) = Reference(d, j, old[j])
                 /\ new[j] # NoRow => Reference(d, j, c.row) = Reference(d, j, new[j])

\* A row that is not dirty is the same in both views.
LEMMA CleanRowsStay ==
  ASSUME NEW m \in Materializations, NEW old, NEW new, NEW changed,
         \A t \in Tables : old[t] \in ContentOf(t) /\ new[t] \in ContentOf(t),
         Fresh(m, old), new[m.table] = old[m.table],
         \A t \in nonIncrementalDependents(m) : new[t] = old[t],
         \A d \in m.dependents : Covers(d, changed[d.table], old[d.table], new[d.table]),
         NEW k \in Keys, k \notin computeDirty(m, new, changed)
  PROVE  View(m, Inputs(m, new))[k] = View(m, Inputs(m, old))[k]
<1> DEFINE oldView == View(m, Inputs(m, old))
           newView == View(m, Inputs(m, new))
<1>1. /\ Inputs(m, old) \in Databases(m) /\ Inputs(m, new) \in Databases(m)
  BY InputsType
<1>2. new[m.table] = oldView
  BY DEF Fresh
<1>3. /\ k \notin computeDirtyPart(m, oldView, changed)
      /\ k \notin computeDirtyPart(m, newView, changed)
  BY <1>2 DEF computeDirty
<1>4. \A t \in requiredTables(m) : Inputs(m, old)[t] = old[t] /\ Inputs(m, new)[t] = new[t]
  BY DEF Inputs
<1>5. \A d \in m.dependents : d.table \in requiredTables(m)
  BY DEF requiredTables, dependentTables
<1> HIDE DEF oldView, newView
<1>6. ASSUME NEW d \in m.dependents, NEW j \in Keys, old[d.table][j] # new[d.table][j]
      PROVE  /\ ~ Joins(d, k, oldView[k], j, old[d.table][j])
             /\ ~ Joins(d, k, oldView[k], j, new[d.table][j])
             /\ ~ Joins(d, k, newView[k], j, old[d.table][j])
             /\ ~ Joins(d, k, newView[k], j, new[d.table][j])
  <2>1. PICK c \in changed[d.table] :
          /\ c.key = j
          /\ old[d.table][j] # NoRow => Reference(d, j, c.row) = Reference(d, j, old[d.table][j])
          /\ new[d.table][j] # NoRow => Reference(d, j, c.row) = Reference(d, j, new[d.table][j])
    BY <1>6 DEF Covers
  <2>2. /\ oldView[k] # NoRow => Column(d, k, oldView[k]) # Reference(d, j, c.row)
        /\ newView[k] # NoRow => Column(d, k, newView[k]) # Reference(d, j, c.row)
    BY <1>3, <2>1 DEF computeDirtyPart, Present
  <2> QED BY <2>1, <2>2 DEF Joins
<1>7. \A t \in nonIncrementalDependents(m) : Inputs(m, old)[t] = Inputs(m, new)[t]
  BY <1>4 DEF requiredTables
<1>8. Unrelated(m, Inputs(m, old), Inputs(m, new), k)
  BY <1>4, <1>5, <1>6, <1>7 DEF Unrelated, oldView, newView
<1> QED BY <1>1, <1>8, MaterializationAssumption

\* materialize: a table that was up to date with old is up to date with new.
THEOREM IncrementalIsRecomputed ==
  ASSUME NEW m \in Materializations, NEW x, NEW old, NEW new, NEW changed,
         \A t \in Tables : old[t] \in ContentOf(t) /\ new[t] \in ContentOf(t),
         Fresh(m, old), new[m.table] = old[m.table],
         \A t \in nonIncrementalDependents(m) : new[t] = old[t],
         \A d \in m.dependents : Covers(d, changed[d.table], old[d.table], new[d.table])
  PROVE  /\ applyChanges(new[m.table], materialize(x, m, new, changed)) = View(m, Inputs(m, new))
         /\ Fit(materialize(x, m, new, changed), x, View(m, Inputs(m, new)), new[m.table])
<1> DEFINE view == View(m, Inputs(m, new))
           dirty == computeDirty(m, new, changed)
           table == new[m.table]
           D == computeDifferencesSubset(x, view, dirty, table)
<1>1. /\ view \in ContentOf(m.table) /\ table \in ContentOf(m.table)
  BY InputsType
<1>2. \A k \in Keys : k \notin dirty => view[k] = table[k]
  BY CleanRowsStay DEF Fresh
<1>3. view \in [Keys -> Rows(m.table) \cup {NoRow}] /\ table \in [Keys -> Rows(m.table) \cup {NoRow}]
  BY <1>1 DEF ContentOf
<1>4. /\ m.dependents # {} => materialize(x, m, new, changed) = D
      /\ m.dependents = {} => materialize(x, m, new, changed) = {} /\ dirty = {}
  BY DEF materialize, computeDirty, computeDirtyPart
<1>5. Renewed(dirty, view, table) = view
  BY <1>2, <1>3 DEF Renewed
<1>6. /\ Fit(D, x, view, table)
      /\ applyChanges(table, D) = view
  <2> HIDE DEF view, dirty, table
  <2>1. Fit(D, x, view, table)
    BY <1>3, <1>5, SubsetFits
  <2> HIDE DEF D
  <2> QED BY <2>1, <1>3, ChangesLeadToSource
<1>7. ASSUME dirty = {} PROVE Fit({}, x, view, table) /\ applyChanges(table, {}) = view
  <2> HIDE DEF view, dirty, table
  <2>1. view = table
    BY <1>2, <1>3, <1>7
  <2>2. Fit({}, x, table, table)
    BY DEF Fit
  <2>3. applyChanges(table, {}) = table
    BY <1>3, <2>2, ChangesLeadToSource
  <2> QED BY <2>1, <2>2, <2>3
<1> QED BY <1>4, <1>6, <1>7

\* recomputeMaterialization: the table becomes the view.
LEMMA RecomputedIsFresh ==
  ASSUME NEW m \in Materializations, NEW x, NEW new,
         \A t \in Tables : new[t] \in ContentOf(t)
  PROVE  /\ applyChanges(new[m.table], recomputeMaterialization(x, m, new)) = View(m, Inputs(m, new))
         /\ Fit(recomputeMaterialization(x, m, new), x, View(m, Inputs(m, new)), new[m.table])
<1> DEFINE view == View(m, Inputs(m, new))
           table == new[m.table]
           D == computeDifferences(x, view, table)
<1>1. /\ view \in [Keys -> Rows(m.table) \cup {NoRow}] /\ table \in [Keys -> Rows(m.table) \cup {NoRow}]
  BY InputsType DEF ContentOf
<1>2. recomputeMaterialization(x, m, new) = D
  BY DEF recomputeMaterialization
<1> HIDE DEF view, table
<1>3. Fit(D, x, view, table)
  BY DifferencesFit
<1> HIDE DEF D
<1>4. applyChanges(table, D) = view
  BY <1>1, <1>3, ChangesLeadToSource
<1> QED BY <1>2, <1>3, <1>4 DEF view, table

\* Whatever materialize finds, its changes fit what they make of the table.
LEMMA MaterializeFits ==
  ASSUME NEW m \in Materializations, NEW x, NEW new, NEW changed,
         \A t \in Tables : new[t] \in ContentOf(t)
  PROVE  \E result \in ContentOf(m.table) :
           /\ Fit(materialize(x, m, new, changed), x, result, new[m.table])
           /\ applyChanges(new[m.table], materialize(x, m, new, changed)) = result
<1> DEFINE view == View(m, Inputs(m, new))
           dirty == computeDirty(m, new, changed)
           table == new[m.table]
           D == computeDifferencesSubset(x, view, dirty, table)
           result == Renewed(dirty, view, table)
<1>1. /\ view \in [Keys -> Rows(m.table) \cup {NoRow}] /\ table \in [Keys -> Rows(m.table) \cup {NoRow}]
  BY InputsType DEF ContentOf
<1>2. materialize(x, m, new, changed) = IF m.dependents = {} THEN {} ELSE D
  BY DEF materialize
<1> HIDE DEF view, dirty, table
<1>3. Fit(D, x, result, table)
  BY <1>1, SubsetFits
<1>4. result \in [Keys -> Rows(m.table) \cup {NoRow}]
  BY <1>1 DEF Renewed
<1> HIDE DEF D, result
<1>5. applyChanges(table, D) = result
  BY <1>1, <1>3, <1>4, ChangesLeadToSource
<1>6. Fit({}, x, table, table)
  BY DEF Fit
<1>7. applyChanges(table, {}) = table
  BY <1>1, <1>6, ChangesLeadToSource
<1>8. result \in ContentOf(m.table) /\ table \in ContentOf(m.table)
  BY <1>1, <1>4 DEF ContentOf
<1> QED BY <1>2, <1>3, <1>5, <1>6, <1>7, <1>8 DEF table

-----------------------------------------------------------------------------
\* The scope of a run

\* getTablesInScope is closed itself.
LEMMA ScopeClosed ==
  ASSUME NEW roots \in SUBSET Components
  PROVE  /\ \A c \in roots : produces(c) \subseteq getTablesInScope(roots)
         /\ \A c \in Components : requires(c) \cap getTablesInScope(roots) # {}
              => produces(c) \subseteq getTablesInScope(roots)
<1>1. \A c \in Components : produces(c) \subseteq Tables /\ requires(c) \subseteq Tables
  BY ComponentsAssumption
<1>2. \A S \in SUBSET Tables : Closed(S, roots) => getTablesInScope(roots) \subseteq S
  BY DEF getTablesInScope
<1>3. \A c \in roots : produces(c) \subseteq getTablesInScope(roots)
  BY <1>1 DEF getTablesInScope, Closed
<1>4. ASSUME NEW c \in Components, requires(c) \cap getTablesInScope(roots) # {},
             NEW t \in produces(c), NEW S \in SUBSET Tables, Closed(S, roots)
      PROVE  t \in S
  BY <1>2, <1>4 DEF Closed
<1>5. \A c \in Components : requires(c) \cap getTablesInScope(roots) # {}
        => produces(c) \subseteq getTablesInScope(roots)
  BY <1>1, <1>4 DEF getTablesInScope
<1> QED BY <1>3, <1>5

\* A component in the scope has all its tables there.
LEMMA ScopeWhole ==
  ASSUME NEW roots \in SUBSET Components, NEW c \in Components,
         produces(c) \cap getTablesInScope(roots) # {}
  PROVE  produces(c) \subseteq getTablesInScope(roots)
<1> DEFINE scope == getTablesInScope(roots)
           S == {t \in scope : \E d \in Components : t \in produces(d) /\ produces(d) \subseteq scope}
<1>1. S \in SUBSET Tables
  BY DEF getTablesInScope
<1>2. UNION {produces(d) : d \in roots} \subseteq S
  BY ScopeClosed
<1>3. \A d \in Components : requires(d) \cap S # {} => produces(d) \subseteq S
  BY ScopeClosed
<1>4. Closed(S, roots)
  BY <1>2, <1>3 DEF Closed
<1>5. scope \subseteq S
  BY <1>1, <1>4 DEF getTablesInScope
<1>6. PICK t \in produces(c) : t \in S
  BY <1>5
<1>7. PICK d \in Components : t \in produces(d) /\ produces(d) \subseteq scope
  BY <1>6
<1>8. d = c
  BY <1>6, <1>7, ComponentsAssumption
<1> QED BY <1>7, <1>8

\* Every processor that requires a table of the run takes part in it.
ScopeIsClosed(scope) ==
  \A c \in scope, p \in Processors : produces(c) \cap requires(p) # {} => p \in scope

LEMMA RunsAreClosed ==
  ASSUME NEW r \in Runs
  PROVE  ComponentsInScope[r] \subseteq Components /\ ScopeIsClosed(ComponentsInScope[r])
<1> DEFINE scope == getTablesInScope(r.roots)
           run == ComponentsInScope[r]
<1>1. r.roots \in SUBSET Components
  BY ComponentsAssumption
<1>2. run = {c \in Components : produces(c) \cap scope # {}} \cup r.roots
  BY DEF ComponentsInScope
<1> HIDE DEF scope
<1>3. \A c \in run : c \in Components /\ produces(c) \subseteq scope
  BY <1>1, <1>2, ScopeClosed, ScopeWhole DEF scope
<1>4. ASSUME NEW c \in run, NEW p \in Processors, produces(c) \cap requires(p) # {}
      PROVE  p \in run
  <2>1. p \in Components /\ requires(p) \cap scope # {}
    BY <1>3, <1>4 DEF Components
  <2>2. produces(p) \subseteq scope
    BY <1>1, <2>1, ScopeClosed DEF scope
  <2>3. produces(p) # {}
    <3>1. p \notin Importers
      BY ComponentsAssumption
    <3>2. requires(p) # {}
      BY <1>4
    <3> QED BY <3>1, <3>2 DEF produces, requires
  <2> QED BY <1>2, <2>1, <2>2, <2>3
<1> QED BY <1>3, <1>4 DEF ScopeIsClosed

-----------------------------------------------------------------------------
\* The inductive invariant

\* Nothing that is still to come produces what a processor that is done, or
\* does not take part, requires.
InOrder == \A c \in todo, p \in Processors \ todo : produces(c) \cap requires(p) = {}

\* A component is executed once, and only it changes its tables.
TodoUnchanged == \A c \in todo : \A t \in produces(c) : changes[t] = {}

ChangesFit == \A t \in Tables : Fit(changes[t], txid, tables[t], before[t])

ReferenceKept(d) ==
  \A j \in Keys : before[d.table][j] # NoRow /\ tables[d.table][j] # NoRow =>
    Reference(d, j, before[d.table][j]) = Reference(d, j, tables[d.table][j])

ReferencesKept == \A m \in Materializations : \A d \in m.dependents : ReferenceKept(d)

\* What KeepsFresh says at the end holds for every processor but those to come.
StaysFresh(m) ==
  /\ Fresh(m, before)
  /\ strategy = "QUICK" => \A t \in nonIncrementalDependents(m) : changes[t] = {}
  => Fresh(m, tables)

FreshSoFar == \A p \in Processors \ todo : \A m \in materializationsOf(p) : StaysFresh(m)

RepairedSoFar ==
  strategy # "QUICK" =>
    \A p \in (inScope \ todo) \cap Processors : \A m \in materializationsOf(p) : Fresh(m, tables)

\* A materialization all of whose inputs are followed is up to date between
\* the runs: this is what SLOW relies on when it treats it incrementally.
FollowedAreFresh ==
  \A m \in Materializations : nonIncrementalDependents(m) = {} =>
    Fresh(m, IF phase = "idle" THEN tables ELSE before)

RunInv == InOrder /\ TodoUnchanged /\ ChangesFit /\ ReferencesKept /\ FreshSoFar /\ RepairedSoFar

AreFunctions ==
  tables = [t \in Tables |-> tables[t]] /\ before = [t \in Tables |-> before[t]]

IInv == TypeOK /\ AreFunctions /\ FollowedAreFresh /\ (phase = "running" => RunInv)

-----------------------------------------------------------------------------
\* One component

\* Tables that are typed, and the components.
LEMMA ComponentFacts ==
  /\ \A c \in Components : produces(c) \subseteq Tables /\ requires(c) \subseteq Tables
  /\ \A c \in Components : produces(c) \cap requires(c) = {}
  /\ \A c, d \in Components : c # d => produces(c) \cap produces(d) = {}
  /\ \A p \in Processors :
       /\ p \in Components /\ p \notin Importers
       /\ \A m \in materializationsOf(p) :
            /\ m \in Materializations /\ m.table \in produces(p)
            /\ requiredTables(m) \subseteq requires(p)
  /\ \A m \in Materializations : \E p \in Processors : m \in materializationsOf(p)
<1>1. \A p \in Processors : p \in Components /\ p \notin Importers
  BY ComponentsAssumption DEF Components
<1>2. \A p \in Processors : /\ produces(p) = {m.table : m \in materializationsOf(p)}
                            /\ requires(p) = UNION {requiredTables(m) : m \in materializationsOf(p)}
  BY <1>1 DEF produces, requires
<1>3. /\ \A c \in Components : produces(c) \subseteq Tables /\ requires(c) \subseteq Tables
      /\ \A c \in Components : produces(c) \cap requires(c) = {}
      /\ \A c, d \in Components : c # d => produces(c) \cap produces(d) = {}
      /\ Materializations = UNION {materializationsOf(p) : p \in Processors}
  BY ComponentsAssumption
<1> QED BY <1>1, <1>2, <1>3

\* The change rows of a table tell what became of it, and cover it.
LEMMA ChangesCover ==
  ASSUME TypeOK, ChangesFit, ReferencesKept, NEW m \in Materializations, NEW d \in m.dependents
  PROVE  Covers(d, changes[d.table], before[d.table], tables[d.table])
<1>1. d.table \in Tables
  <2>1. requiredTables(m) \subseteq Tables
    BY MaterializationAssumption
  <2> QED BY <2>1 DEF requiredTables, dependentTables
<1>2. Fit(changes[d.table], txid, tables[d.table], before[d.table])
  BY <1>1 DEF ChangesFit
<1>3. ReferenceKept(d)
  BY DEF ReferencesKept
<1>4. ASSUME NEW j \in Keys, before[d.table][j] # tables[d.table][j]
      PROVE  \E c \in changes[d.table] :
               /\ c.key = j
               /\ before[d.table][j] # NoRow =>
                    Reference(d, j, c.row) = Reference(d, j, before[d.table][j])
               /\ tables[d.table][j] # NoRow =>
                    Reference(d, j, c.row) = Reference(d, j, tables[d.table][j])
  <2>1. PICK c \in changes[d.table] : c.key = j
    BY <1>2, <1>4 DEF Fit
  <2>2. c.row = IF tables[d.table][j] = NoRow THEN before[d.table][j] ELSE tables[d.table][j]
    BY <1>2, <2>1 DEF Fit
  <2>3. before[d.table][j] # NoRow /\ tables[d.table][j] # NoRow =>
          Reference(d, j, before[d.table][j]) = Reference(d, j, tables[d.table][j])
    BY <1>3 DEF ReferenceKept
  <2> QED BY <2>1, <2>2, <2>3
<1> QED BY <1>4 DEF Covers

\* A table without change rows is what it was.
LEMMA UnchangedTable ==
  ASSUME TypeOK, ChangesFit, NEW t \in Tables, changes[t] = {}
  PROVE  tables[t] = before[t]
<1>1. /\ tables[t] \in [Keys -> Rows(t) \cup {NoRow}] /\ before[t] \in [Keys -> Rows(t) \cup {NoRow}]
  BY DEF TypeOK, ContentOf
<1>2. \A k \in Keys : tables[t][k] = before[t][k]
  BY DEF ChangesFit, Fit
<1> QED BY <1>1, <1>2

\* Only what a materialization reads and its own table matter.
LEMMA SameInputs ==
  ASSUME NEW m, NEW T1, NEW T2, \A t \in requiredTables(m) : T1[t] = T2[t]
  PROVE  Inputs(m, T1) = Inputs(m, T2)
BY DEF Inputs

\* What executing a processor does to the table of one materialization: its
\* change rows come from the differences, if the materialization is reached.
LEMMA ProcessRows ==
  ASSUME TypeOK, TodoUnchanged, ChangesFit, NEW c \in todo, c \in Processors, Process(c),
         NEW i \in DOMAIN c.materializations
  PROVE  LET m == c.materializations[i]
             rows == IF Reached(c, i) THEN Differences(m) ELSE {}
         IN  /\ m \in Materializations /\ m.table \in produces(c) /\ m.table \in Tables
             /\ tables[m.table] = before[m.table]
             /\ changes'[m.table] = rows
             /\ tables'[m.table] = applyChanges(tables[m.table], rows)
<1> DEFINE m == c.materializations[i]
           rowsOf(t) == LET k == CHOOSE j \in DOMAIN c.materializations : c.materializations[j].table = t
                        IN  IF Reached(c, k) THEN Differences(c.materializations[k]) ELSE {}
<1>1. c \in Components /\ m \in materializationsOf(c)
  BY ComponentFacts DEF materializationsOf
<1>2. m \in Materializations /\ m.table \in produces(c) /\ m.table \in Tables
  BY <1>1, ComponentFacts
<1>3. changes[m.table] = {}
  BY <1>2 DEF TodoUnchanged
<1>4. tables[m.table] = before[m.table]
  BY <1>2, <1>3, UnchangedTable
<1>5. (CHOOSE j \in DOMAIN c.materializations : c.materializations[j].table = m.table) = i
  <2>1. \A j \in DOMAIN c.materializations : c.materializations[j].table = m.table => j = i
    BY ComponentsAssumption
  <2> QED BY <2>1
<1>6. rowsOf(m.table) = IF Reached(c, i) THEN Differences(m) ELSE {}
  BY <1>5
<1>7. Apply(c, [t \in produces(c) |-> rowsOf(t)])
  BY DEF Process
<1> HIDE DEF rowsOf, m
<1>8. /\ changes'[m.table] = changes[m.table] \cup rowsOf(m.table)
      /\ tables'[m.table] = applyChanges(tables[m.table], changes'[m.table])
  BY <1>2, <1>7 DEF Apply
<1>9. changes'[m.table] = rowsOf(m.table)
  BY <1>3, <1>8
<1> QED BY <1>2, <1>4, <1>6, <1>8, <1>9 DEF m

\* The differences of a materialization fit, and they make it fresh, if they
\* are computed anew or it was fresh and only followed tables have changed.
LEMMA DifferencesRenew ==
  ASSUME TypeOK, ChangesFit, ReferencesKept, NEW m \in Materializations,
         tables[m.table] = before[m.table]
  PROVE  LET rows == Differences(m)
         IN  /\ \E result \in ContentOf(m.table) :
                  /\ Fit(rows, txid, result, tables[m.table])
                  /\ applyChanges(tables[m.table], rows) = result
             /\ \/ strategy = "VERIFY"
                \/ strategy = "SLOW" /\ nonIncrementalDependents(m) # {}
                \/ Fresh(m, before) /\ \A t \in nonIncrementalDependents(m) : changes[t] = {}
                => applyChanges(tables[m.table], rows) = View(m, Inputs(m, tables))
<1>1. \A t \in Tables : before[t] \in ContentOf(t) /\ tables[t] \in ContentOf(t)
  BY DEF TypeOK
<1>2. View(m, Inputs(m, tables)) \in ContentOf(m.table) /\ requiredTables(m) \subseteq Tables
  BY <1>1, InputsType
<1>3. CASE strategy = "VERIFY" \/ (strategy = "SLOW" /\ hasNonincrementalDependency(m))
  <2>1. Differences(m) = recomputeMaterialization(txid, m, tables)
    BY <1>3 DEF Differences
  <2>2. /\ applyChanges(tables[m.table], Differences(m)) = View(m, Inputs(m, tables))
        /\ Fit(Differences(m), txid, View(m, Inputs(m, tables)), tables[m.table])
    BY <1>1, <2>1, RecomputedIsFresh
  <2> QED BY <1>2, <2>2
<1>4. CASE ~ (strategy = "VERIFY" \/ (strategy = "SLOW" /\ hasNonincrementalDependency(m)))
  <2>1. Differences(m) = materialize(txid, m, tables, changes)
    BY <1>4 DEF Differences
  <2>2. \E result \in ContentOf(m.table) :
          /\ Fit(Differences(m), txid, result, tables[m.table])
          /\ applyChanges(tables[m.table], Differences(m)) = result
    BY <1>1, <2>1, MaterializeFits
  <2>3. ASSUME Fresh(m, before), \A t \in nonIncrementalDependents(m) : changes[t] = {}
        PROVE  applyChanges(tables[m.table], Differences(m)) = View(m, Inputs(m, tables))
    <3>1. \A t \in nonIncrementalDependents(m) : tables[t] = before[t]
      BY <1>2, <2>3, UnchangedTable DEF requiredTables
    <3>2. \A d \in m.dependents : Covers(d, changes[d.table], before[d.table], tables[d.table])
      BY ChangesCover
    <3> QED BY <1>1, <2>1, <2>3, <3>1, <3>2, IncrementalIsRecomputed
  <2>4. ~ (strategy = "VERIFY" \/ (strategy = "SLOW" /\ nonIncrementalDependents(m) # {}))
    BY <1>4 DEF hasNonincrementalDependency
  <2> QED BY <2>2, <2>3, <2>4
<1> QED BY <1>3, <1>4

\* A materialization that QUICK does not reach has no changed dependents.
LEMMA NotReached ==
  ASSUME TypeOK, ChangesFit, NEW c \in Processors, NEW i \in DOMAIN c.materializations,
         ~ Reached(c, i)
  PROVE  LET m == c.materializations[i]
         IN  /\ strategy = "QUICK"
             /\ \A t \in dependentTables(m) : tables[t] = before[t]
<1> DEFINE m == c.materializations[i]
<1>1. strategy = "QUICK" /\ \E j \in 1..i : ~ hasModifiedDependency(c.materializations[j])
  BY DEF Reached
<1>2. PICK j \in 1..i : ~ hasModifiedDependency(c.materializations[j])
  BY <1>1
<1>3. c.materializations \in Seq(Materializations)
  BY ComponentsAssumption
<1>4. j \in DOMAIN c.materializations
  BY <1>3
<1>5. dependentTables(m) = dependentTables(c.materializations[j])
  BY <1>4, ComponentsAssumption
<1>6. \A t \in dependentTables(m) : t \notin modified
  BY <1>2, <1>5 DEF hasModifiedDependency, dependentTables
<1>7. m \in Materializations
  BY <1>3
<1>8. dependentTables(m) \subseteq Tables
  <2>1. requiredTables(m) \subseteq Tables
    BY <1>7, MaterializationAssumption
  <2> QED BY <2>1 DEF requiredTables
<1>9. \A t \in dependentTables(m) : changes[t] = {}
  BY <1>6, <1>8 DEF TypeOK
<1> HIDE DEF m
<1>10. \A t \in dependentTables(m) : tables[t] = before[t]
  BY <1>8, <1>9, UnchangedTable
<1> QED BY <1>1, <1>10 DEF m

\* A component changes nothing but its tables.
LEMMA OnlyItsTables ==
  ASSUME TypeOK, NEW c \in Components, Import(c) \/ Process(c)
  PROVE  /\ \A t \in Tables \ produces(c) : tables'[t] = tables[t] /\ changes'[t] = changes[t]
         /\ modified' = {t \in Tables : changes'[t] # {}}
         /\ tables' = [t \in Tables |-> tables'[t]]
<1>1. ASSUME NEW rows, Apply(c, rows)
      PROVE  /\ \A t \in Tables \ produces(c) : tables'[t] = tables[t] /\ changes'[t] = changes[t]
             /\ modified' = {t \in Tables : changes'[t] # {}}
             /\ tables' = [t \in Tables |-> tables'[t]]
  <2>1. \A t \in Tables \ produces(c) : tables'[t] = tables[t] /\ changes'[t] = changes[t]
    BY <1>1 DEF Apply
  <2>2. \A t \in produces(c) : t \in Tables /\ (changes[t] # {} => changes'[t] # {})
    BY <1>1, ComponentFacts DEF Apply
  <2>3. modified' = modified \cup {t \in produces(c) : changes'[t] # {}}
    BY <1>1 DEF Apply
  <2>4. tables' = [t \in Tables |-> tables'[t]]
    BY <1>1 DEF Apply
  <2> QED BY <2>1, <2>2, <2>3, <2>4 DEF TypeOK
<1>2. CASE Import(c)
  <2>1. \E source : Apply(c, [t \in c.produces |-> computeDifferences(txid, source[t], tables[t])])
    BY <1>2 DEF Import
  <2> QED BY <1>1, <2>1
<1>3. CASE Process(c)
  <2>1. \E rows : Apply(c, rows)
    BY <1>3 DEF Process
  <2> QED BY <1>1, <2>1
<1> QED BY <1>2, <1>3

\* What became of a table that the component produces.
Produced(t) ==
  /\ tables'[t] \in ContentOf(t)
  /\ Fit(changes'[t], txid, tables'[t], before[t])
  /\ \A m \in Materializations : \A d \in m.dependents : d.table = t =>
       \A j \in Keys : before[t][j] # NoRow /\ tables'[t][j] # NoRow =>
         Reference(d, j, before[t][j]) = Reference(d, j, tables'[t][j])

LEMMA ImportProduces ==
  ASSUME TypeOK, TodoUnchanged, ChangesFit, NEW c \in todo, Import(c), NEW t \in produces(c)
  PROVE  Produced(t)
<1>1. c \in Importers /\ produces(c) = c.produces /\ c \in Components /\ t \in Tables
  <2>1. c \in Importers /\ c \in Components
    BY DEF Import, Components
  <2> QED BY <2>1, ComponentFacts DEF produces
<1>2. changes[t] = {}
  BY DEF TodoUnchanged
<1>3. tables[t] = before[t]
  BY <1>1, <1>2, UnchangedTable
<1>4. PICK source :
        /\ source[t] \in Imported(t) /\ KeepsReferences(t, source[t])
        /\ Apply(c, [u \in c.produces |-> computeDifferences(txid, source[u], tables[u])])
  BY <1>1 DEF Import
<1> DEFINE new == source[t]
           D == computeDifferences(txid, new, tables[t])
<1>5. changes'[t] = changes[t] \cup D /\ tables'[t] = applyChanges(tables[t], changes'[t])
  BY <1>1, <1>4 DEF Apply
<1>6. changes'[t] = D
  BY <1>2, <1>5
<1>7. /\ new \in [Keys -> Rows(t) \cup {NoRow}] /\ tables[t] \in [Keys -> Rows(t) \cup {NoRow}]
      /\ new \in ContentOf(t)
  BY <1>1, <1>4, ComponentsAssumption DEF TypeOK, ContentOf
<1> HIDE DEF new
<1>8. Fit(D, txid, new, tables[t])
  BY DifferencesFit
<1> HIDE DEF D
<1>9. tables'[t] = new
  BY <1>5, <1>6, <1>7, <1>8, ChangesLeadToSource
<1>10. KeepsReferences(t, new)
  BY <1>4 DEF new
<1> QED BY <1>3, <1>6, <1>7, <1>8, <1>9, <1>10 DEF Produced, KeepsReferences

LEMMA ProcessProduces ==
  ASSUME TypeOK, TodoUnchanged, ChangesFit, ReferencesKept,
         NEW c \in todo, c \in Processors, Process(c), NEW t \in produces(c)
  PROVE  Produced(t)
<1>1. PICK i \in DOMAIN c.materializations : c.materializations[i].table = t
  BY ComponentsAssumption DEF produces, materializationsOf
<1> DEFINE m == c.materializations[i]
           rows == IF Reached(c, i) THEN Differences(m) ELSE {}
<1>2. /\ m \in Materializations /\ m.table = t /\ t \in Tables
      /\ tables[t] = before[t]
      /\ changes'[t] = rows
      /\ tables'[t] = applyChanges(tables[t], rows)
  BY <1>1, ProcessRows
<1>3. tables[t] \in [Keys -> Rows(t) \cup {NoRow}] /\ tables[t] \in ContentOf(t)
  BY <1>2 DEF TypeOK, ContentOf
<1>4. \E result \in ContentOf(t) : /\ Fit(rows, txid, result, tables[t])
                                   /\ applyChanges(tables[t], rows) = result
  <2>1. CASE Reached(c, i)
    <3> HIDE DEF m
    <3> QED BY <1>2, <2>1, DifferencesRenew
  <2>2. CASE ~ Reached(c, i)
    <3>1. rows = {}
      BY <2>2
    <3>2. Fit({}, txid, tables[t], tables[t])
      BY DEF Fit
    <3>3. applyChanges(tables[t], {}) = tables[t]
      BY <1>3, <3>2, ChangesLeadToSource
    <3> QED BY <1>3, <3>1, <3>2, <3>3
  <2> QED BY <2>1, <2>2
<1>5. tables'[t] \in ContentOf(t) /\ Fit(changes'[t], txid, tables'[t], before[t])
  BY <1>2, <1>4
<1>6. ASSUME NEW n \in Materializations, NEW d \in n.dependents, d.table = t, NEW j \in Keys,
             before[t][j] # NoRow, tables'[t][j] # NoRow
      PROVE  Reference(d, j, before[t][j]) = Reference(d, j, tables'[t][j])
  <2>1. before[t][j] \in Rows(t) /\ tables'[t][j] \in Rows(t)
    BY <1>2, <1>3, <1>5, <1>6 DEF ContentOf
  <2>2. \A r1, r2 \in Rows(m.table) : Reference(d, j, r1) = Reference(d, j, r2)
    BY <1>2, <1>6, ComponentsAssumption
  <2> QED BY <1>2, <2>1, <2>2
<1> QED BY <1>5, <1>6 DEF Produced

\* A processor makes its materializations fresh, with the exception of QUICK.
LEMMA ProcessFreshens ==
  ASSUME TypeOK, FollowedAreFresh, phase = "running", RunInv,
         NEW c \in todo, c \in Processors, Process(c), NEW m \in materializationsOf(c)
  PROVE  /\ strategy # "QUICK" => tables'[m.table] = View(m, Inputs(m, tables))
         /\ Fresh(m, before) /\ (\A t \in nonIncrementalDependents(m) : changes[t] = {})
              => tables'[m.table] = View(m, Inputs(m, tables))
<1>1. PICK i \in DOMAIN c.materializations : c.materializations[i] = m
  BY DEF materializationsOf
<1>2. TodoUnchanged /\ ChangesFit /\ ReferencesKept
  BY DEF RunInv
<1>3. /\ m \in Materializations /\ m.table \in Tables
      /\ tables[m.table] = before[m.table]
      /\ tables'[m.table] = applyChanges(tables[m.table], IF Reached(c, i) THEN Differences(m) ELSE {})
  BY <1>1, <1>2, ProcessRows
<1>4. CASE Reached(c, i)
  <2>1. tables'[m.table] = applyChanges(tables[m.table], Differences(m))
    BY <1>3, <1>4
  <2>2. \/ strategy = "VERIFY"
        \/ strategy = "SLOW" /\ nonIncrementalDependents(m) # {}
        \/ Fresh(m, before) /\ \A t \in nonIncrementalDependents(m) : changes[t] = {}
        => tables'[m.table] = View(m, Inputs(m, tables))
    BY <1>2, <1>3, <2>1, DifferencesRenew
  <2>3. strategy \in {"QUICK", "SLOW", "VERIFY"}
    BY ComponentsAssumption DEF TypeOK
  <2>4. nonIncrementalDependents(m) = {} => Fresh(m, before)
    BY <1>3 DEF FollowedAreFresh
  <2> QED BY <2>2, <2>3, <2>4
<1>5. CASE ~ Reached(c, i)
  <2>1. strategy = "QUICK" /\ \A t \in dependentTables(m) : tables[t] = before[t]
    BY <1>1, <1>2, <1>5, NotReached
  <2>2. tables'[m.table] = applyChanges(tables[m.table], {})
    BY <1>3, <1>5
  <2>3. tables[m.table] \in [Keys -> Rows(m.table) \cup {NoRow}]
    BY <1>3 DEF TypeOK, ContentOf
  <2>4. Fit({}, txid, tables[m.table], tables[m.table])
    BY DEF Fit
  <2>5. tables'[m.table] = before[m.table]
    BY <1>3, <2>2, <2>3, <2>4, ChangesLeadToSource
  <2>6. ASSUME \A t \in nonIncrementalDependents(m) : changes[t] = {}
        PROVE  Inputs(m, tables) = Inputs(m, before)
    <3>1. \A t \in nonIncrementalDependents(m) : tables[t] = before[t]
      <4>1. requiredTables(m) \subseteq Tables
        BY <1>3, MaterializationAssumption
      <4> QED BY <1>2, <2>6, <4>1, UnchangedTable DEF requiredTables
    <3> QED BY <2>1, <3>1, SameInputs DEF requiredTables
  <2> QED BY <2>1, <2>5, <2>6 DEF Fresh
<1> QED BY <1>4, <1>5

-----------------------------------------------------------------------------
\* The invariant is inductive

LEMMA InitIInv == Init => IInv
<1> SUFFICES ASSUME Init PROVE IInv
  OBVIOUS
<1>1. \A t \in Tables : tables[t] \in ContentOf(t) /\ before[t] \in ContentOf(t)
  BY DEF Init, ContentOf
<1>2. \A t \in Tables : changes[t] = {}
  BY DEF Init, NoChanges
<1>3. TypeOK
  BY <1>1, <1>2 DEF Init, TypeOK
<1>4. FollowedAreFresh
  BY DEF Init, FollowedAreFresh
<1>5. AreFunctions
  BY DEF Init, AreFunctions
<1> QED BY <1>3, <1>4, <1>5 DEF Init, IInv

LEMMA StartIInv == IInv /\ Start => IInv'
<1> SUFFICES ASSUME IInv, Start PROVE IInv'
  OBVIOUS
<1>1. PICK r \in Runs : strategy' = r.strategy /\ inScope' = ComponentsInScope[r] /\ todo' = inScope'
  BY DEF Start
<1>2. phase = "idle" /\ phase' = "running" /\ tables' = tables /\ before' = tables
      /\ changes' = NoChanges /\ modified' = {}
  BY DEF Start
<1>3. inScope' \subseteq Components /\ ScopeIsClosed(inScope')
  BY <1>1, RunsAreClosed
<1>4. \A t \in Tables : changes'[t] = {} /\ tables'[t] = before'[t]
  BY <1>2 DEF NoChanges
<1>5. TypeOK'
  BY <1>1, <1>2, <1>3, <1>4 DEF IInv, TypeOK
<1>6. FollowedAreFresh'
  BY <1>2 DEF IInv, FollowedAreFresh, Fresh
<1>7. InOrder'
  BY <1>1, <1>3 DEF InOrder, ScopeIsClosed
<1>8. TodoUnchanged'
  BY <1>1, <1>3, <1>4, ComponentFacts DEF TodoUnchanged
<1>9. ChangesFit'
  BY <1>4 DEF ChangesFit, Fit
<1>10. ReferencesKept'
  BY <1>2 DEF ReferencesKept, ReferenceKept
<1>11. FreshSoFar'
  BY <1>2 DEF FreshSoFar, StaysFresh, Fresh
<1>12. RepairedSoFar'
  BY <1>1 DEF RepairedSoFar
<1>13. AreFunctions'
  BY <1>2 DEF IInv, AreFunctions
<1> QED BY <1>5, <1>6, <1>7, <1>8, <1>9, <1>10, <1>11, <1>12, <1>13 DEF IInv, RunInv

LEMMA ExecuteIInv == IInv /\ ExecuteComponent => IInv'
<1> SUFFICES ASSUME IInv, ExecuteComponent PROVE IInv'
  OBVIOUS
<1>1. PICK c \in todo : ComesNext(c) /\ (Import(c) \/ Process(c)) /\ todo' = todo \ {c}
  BY DEF ExecuteComponent
<1>2. phase = "running" /\ UNCHANGED <<phase, strategy, inScope, before>>
  BY DEF ExecuteComponent, runVars
<1>3. TypeOK /\ FollowedAreFresh /\ RunInv /\ InOrder /\ TodoUnchanged /\ ChangesFit /\ ReferencesKept
  BY <1>2 DEF IInv, RunInv
<1>4. c \in Components /\ todo \subseteq Components
  BY <1>3 DEF TypeOK
<1>5. /\ \A t \in Tables \ produces(c) : tables'[t] = tables[t] /\ changes'[t] = changes[t]
      /\ modified' = {t \in Tables : changes'[t] # {}}
      /\ tables' = [t \in Tables |-> tables'[t]]
  BY <1>1, <1>3, <1>4, OnlyItsTables
<1>6. \A t \in produces(c) : Produced(t)
  <2>1. CASE Import(c)
    BY <1>1, <1>3, <2>1, ImportProduces
  <2>2. CASE Process(c)
    <3>1. c \in Processors
      BY <2>2 DEF Process
    <3> QED BY <1>1, <1>3, <2>2, <3>1, ProcessProduces
  <2> QED BY <1>1, <2>1, <2>2
<1>7. \A t \in Tables : tables'[t] \in ContentOf(t)
  BY <1>3, <1>5, <1>6 DEF TypeOK, Produced
<1>8. TypeOK'
  BY <1>1, <1>2, <1>3, <1>5, <1>7 DEF TypeOK
<1>9. FollowedAreFresh'
  BY <1>2, <1>3 DEF FollowedAreFresh, Fresh, Inputs
<1>10. InOrder'
  BY <1>1, <1>3 DEF InOrder, ComesNext
<1>11. TodoUnchanged'
  <2> SUFFICES ASSUME NEW d \in todo', NEW t \in produces(d) PROVE changes'[t] = {}
    BY DEF TodoUnchanged
  <2>1. d \in todo /\ d # c /\ d \in Components
    BY <1>1, <1>4
  <2>2. t \in Tables \ produces(c)
    BY <1>4, <2>1, ComponentFacts
  <2> QED BY <1>3, <1>5, <2>1, <2>2 DEF TodoUnchanged
<1>12. ChangesFit'
  <2> SUFFICES ASSUME NEW t \in Tables PROVE Fit(changes'[t], txid, tables'[t], before[t])
    BY <1>2 DEF ChangesFit, txid
  <2>1. Fit(changes[t], txid, tables[t], before[t])
    BY <1>3 DEF ChangesFit
  <2> QED BY <1>5, <1>6, <2>1 DEF Produced
<1>13. ReferencesKept'
  <2> SUFFICES ASSUME NEW m \in Materializations, NEW d \in m.dependents, NEW j \in Keys,
                      before[d.table][j] # NoRow, tables'[d.table][j] # NoRow
               PROVE  Reference(d, j, before[d.table][j]) = Reference(d, j, tables'[d.table][j])
    BY <1>2 DEF ReferencesKept, ReferenceKept
  <2>1. d.table \in Tables
    <3>1. requiredTables(m) \subseteq Tables
      BY MaterializationAssumption
    <3> QED BY <3>1 DEF requiredTables, dependentTables
  <2>2. CASE d.table \in produces(c)
    BY <1>6, <2>2 DEF Produced
  <2>3. CASE d.table \notin produces(c)
    BY <1>3, <1>5, <2>1, <2>3 DEF ReferencesKept, ReferenceKept
  <2> QED BY <2>2, <2>3
\* A processor that was done before does not notice.
<1>14. ASSUME NEW p \in Processors \ todo, NEW m \in materializationsOf(p)
       PROVE  /\ tables'[m.table] = tables[m.table] /\ Inputs(m, tables') = Inputs(m, tables)
              /\ \A t \in nonIncrementalDependents(m) : changes'[t] = changes[t]
  <2>1. /\ p \in Components /\ p # c /\ m.table \in produces(p)
        /\ requiredTables(m) \subseteq requires(p) /\ requires(p) \subseteq Tables
        /\ produces(p) \subseteq Tables
    BY <1>1, <1>14, ComponentFacts
  <2>2. m.table \in Tables \ produces(c)
    BY <1>4, <2>1, ComponentFacts
  <2>3. produces(c) \cap requires(p) = {}
    BY <1>1, <1>3 DEF InOrder
  <2>4. \A t \in requiredTables(m) : t \in Tables \ produces(c)
    BY <2>1, <2>3
  <2>5. \A t \in requiredTables(m) : tables'[t] = tables[t] /\ changes'[t] = changes[t]
    BY <1>5, <2>4
  <2>6. Inputs(m, tables') = Inputs(m, tables)
    BY <2>5 DEF Inputs
  <2> QED BY <1>5, <2>2, <2>5, <2>6 DEF requiredTables
\* The processor that is executed.
<1>15. ASSUME c \in Processors, NEW m \in materializationsOf(c)
       PROVE  /\ Inputs(m, tables') = Inputs(m, tables)
              /\ \A t \in nonIncrementalDependents(m) : changes'[t] = changes[t]
              /\ strategy # "QUICK" => tables'[m.table] = View(m, Inputs(m, tables))
              /\ Fresh(m, before) /\ (\A t \in nonIncrementalDependents(m) : changes[t] = {})
                   => tables'[m.table] = View(m, Inputs(m, tables))
  <2>1. Process(c)
    BY <1>1, <1>15, ComponentFacts DEF Import
  <2>2. \A t \in requiredTables(m) : t \in Tables \ produces(c)
    BY <1>4, <1>15, ComponentFacts
  <2>3. \A t \in requiredTables(m) : tables'[t] = tables[t] /\ changes'[t] = changes[t]
    BY <1>5, <2>2
  <2>4. Inputs(m, tables') = Inputs(m, tables)
    BY <2>3 DEF Inputs
  <2>5. \A t \in nonIncrementalDependents(m) : changes'[t] = changes[t]
    BY <2>3 DEF requiredTables
  <2> QED BY <1>1, <1>2, <1>3, <1>15, <2>1, <2>4, <2>5, ProcessFreshens
<1>16. FreshSoFar'
  <2> SUFFICES ASSUME NEW p \in Processors \ todo', NEW m \in materializationsOf(p),
                      Fresh(m, before),
                      strategy = "QUICK" => \A t \in nonIncrementalDependents(m) : changes'[t] = {}
               PROVE  tables'[m.table] = View(m, Inputs(m, tables'))
    BY <1>2 DEF FreshSoFar, StaysFresh, Fresh, Inputs
  <2>1. CASE p = c
    BY <1>15, <2>1
  <2>2. CASE p # c
    <3>1. p \in Processors \ todo
      BY <1>1, <2>2
    <3>2. StaysFresh(m)
      BY <1>3, <3>1 DEF RunInv, FreshSoFar
    <3> QED BY <1>14, <3>1, <3>2 DEF StaysFresh, Fresh
  <2> QED BY <2>1, <2>2
<1>17. RepairedSoFar'
  <2> SUFFICES ASSUME strategy # "QUICK", NEW p \in (inScope \ todo') \cap Processors,
                      NEW m \in materializationsOf(p)
               PROVE  tables'[m.table] = View(m, Inputs(m, tables'))
    BY <1>2 DEF RepairedSoFar, Fresh, Inputs
  <2>1. CASE p = c
    BY <1>15, <2>1
  <2>2. CASE p # c
    <3>1. p \in Processors \ todo /\ p \in inScope \ todo
      BY <1>1, <2>2
    <3>2. Fresh(m, tables)
      BY <1>3, <3>1 DEF RunInv, RepairedSoFar
    <3> QED BY <1>14, <3>1, <3>2 DEF Fresh
  <2> QED BY <2>1, <2>2
<1>18. RunInv'
  BY <1>10, <1>11, <1>12, <1>13, <1>16, <1>17 DEF RunInv
<1>19. AreFunctions'
  BY <1>2, <1>5 DEF IInv, AreFunctions
<1> QED BY <1>8, <1>9, <1>18, <1>19 DEF IInv

LEMMA IInvImpliesKeepsFresh == IInv => KeepsFresh
<1> SUFFICES ASSUME IInv, Ends, NEW m \in Materializations PROVE StaysFresh(m)
  BY DEF KeepsFresh, StaysFresh
<1>1. FreshSoFar /\ todo = {}
  BY DEF Ends, IInv, RunInv
<1>2. PICK p \in Processors : m \in materializationsOf(p)
  BY ComponentFacts
<1> QED BY <1>1, <1>2 DEF FreshSoFar

LEMMA FinishIInv == IInv /\ Finish => IInv' /\ tables' = tables
<1> SUFFICES ASSUME IInv, Finish PROVE IInv' /\ tables' = tables
  OBVIOUS
<1>1. /\ phase = "running" /\ phase' = "idle" /\ todo = {}
      /\ UNCHANGED <<changes, strategy, inScope, before, todo, modified>>
      /\ tables' = IF hasModified THEN tables ELSE before
  BY DEF Finish, runVars
<1>2. TypeOK /\ ChangesFit /\ AreFunctions /\ Ends
  BY <1>1 DEF IInv, RunInv, Ends
<1>3. ASSUME modified = {} PROVE tables = before
  <2>1. \A t \in Tables : changes[t] = {}
    BY <1>2, <1>3 DEF TypeOK
  <2>2. \A t \in Tables : tables[t] = before[t]
    BY <1>2, <2>1, UnchangedTable
  <2>3. [t \in Tables |-> tables[t]] = [t \in Tables |-> before[t]]
    BY <2>2
  <2> QED BY <1>2, <2>3 DEF AreFunctions
<1>4. tables' = tables
  BY <1>1, <1>3 DEF hasModified
<1>5. \A m \in Materializations : nonIncrementalDependents(m) = {} => Fresh(m, tables)
  <2> SUFFICES ASSUME NEW m \in Materializations, nonIncrementalDependents(m) = {}
               PROVE  Fresh(m, tables)
    OBVIOUS
  <2>1. Fresh(m, before)
    BY <1>1 DEF IInv, FollowedAreFresh
  <2> QED BY <1>2, <2>1, IInvImpliesKeepsFresh DEF KeepsFresh
<1>6. FollowedAreFresh'
  BY <1>1, <1>4, <1>5 DEF FollowedAreFresh, Fresh
<1>7. TypeOK' /\ AreFunctions'
  BY <1>1, <1>2, <1>4 DEF TypeOK, AreFunctions
<1> QED BY <1>1, <1>4, <1>6, <1>7 DEF IInv

LEMMA FailIInv == IInv /\ Fail => IInv'
<1> SUFFICES ASSUME IInv, Fail PROVE IInv'
  OBVIOUS
<1>1. /\ phase = "running" /\ phase' = "idle" /\ tables' = before
      /\ changes' = NoChanges /\ todo' = {} /\ modified' = {}
      /\ UNCHANGED <<strategy, inScope, before>>
  BY DEF Fail, runVars
<1>2. TypeOK'
  BY <1>1 DEF IInv, TypeOK, NoChanges
<1>3. FollowedAreFresh' /\ AreFunctions'
  BY <1>1 DEF IInv, FollowedAreFresh, AreFunctions, Fresh
<1> QED BY <1>1, <1>2, <1>3 DEF IInv

LEMMA StutterIInv == IInv /\ UNCHANGED vars => IInv'
BY DEF IInv, TypeOK, AreFunctions, FollowedAreFresh, RunInv, InOrder, TodoUnchanged, ChangesFit,
       ReferencesKept, ReferenceKept, FreshSoFar, StaysFresh, RepairedSoFar, Fresh, Inputs,
       vars, runVars

THEOREM Inductive == Spec => []IInv
<1>1. IInv /\ [Next]_vars => IInv'
  BY StartIInv, ExecuteIInv, FinishIInv, FailIInv, StutterIInv DEF Next
<1> QED BY <1>1, InitIInv, PTL DEF Spec

-----------------------------------------------------------------------------
\* What the executor promises, for any tables, views, components and runs

\* Tables hold rows of their own, the run is one of Runs, and
\* context.changes has the tables with change rows.
THEOREM TypeCorrect == Spec => []TypeOK
<1>1. IInv => TypeOK
  BY DEF IInv
<1> QED BY <1>1, Inductive, PTL

\* No run leaves a materialization behind that was up to date before, except
\* for QUICK and the tables it does not follow (materialize, ComesNext).
THEOREM FreshnessKept == Spec => []KeepsFresh
BY Inductive, IInvImpliesKeepsFresh, PTL

\* Materializations without tables that are read and not followed are always
\* up to date, whatever runs there are.
THEOREM FollowedFreshness == Spec => []FollowedAreFresh
<1>1. IInv => FollowedAreFresh
  BY DEF IInv
<1> QED BY <1>1, Inductive, PTL

\* SLOW and VERIFY leave nothing out of date in their scope.
THEOREM ScopeRepaired == Spec => []RepairsScope
<1>1. IInv => RepairsScope
  BY DEF IInv, RunInv, RepairedSoFar, RepairsScope, Ends
<1> QED BY <1>1, Inductive, PTL

\* The change tables tell exactly what happened to the tables in the run.
THEOREM ExactChanges == Spec => []ChangesAreExact
<1>1. ASSUME IInv, phase = "running", NEW t \in Tables
      PROVE  /\ applyChanges(before[t], changes[t]) = tables[t]
             /\ \A c, d \in changes[t] : c.key = d.key => c = d
             /\ \A c \in changes[t] : before[t][c.key] # tables[t][c.key]
  <2>1. Fit(changes[t], txid, tables[t], before[t])
    BY <1>1 DEF IInv, RunInv, ChangesFit
  <2>2. /\ tables[t] \in [Keys -> Rows(t) \cup {NoRow}] /\ before[t] \in [Keys -> Rows(t) \cup {NoRow}]
    BY <1>1 DEF IInv, TypeOK, ContentOf
  <2>3. applyChanges(before[t], changes[t]) = tables[t]
    BY <2>1, <2>2, ChangesLeadToSource
  <2>4. \A c \in changes[t] : before[t][c.key] # tables[t][c.key]
    BY <2>1 DEF Fit
  <2> QED BY <2>1, <2>3, <2>4 DEF Fit
<1>2. IInv => ChangesAreExact
  BY <1>1 DEF ChangesAreExact
<1> QED BY <1>2, Inductive, PTL

\* A run without modifications is rolled back to what the tables already are.
THEOREM LosesNothing == Spec => NothingIsLost
<1>1. IInv /\ [Next]_vars => [Finish => tables' = tables]_vars
  BY FinishIInv
<1> QED BY <1>1, Inductive, PTL DEF Spec, NothingIsLost
==============================================================================
