SPECIFICATION Spec
CONSTANTS
  k1 = k1
  k2 = k2
  NULL = NULL
  Keys <- MCKeys
  NoRow = NULL
  Tables <- MCTables
  Materializations <- MCMaterializations
  Rows <- MCRows
  View <- MCView
  Column <- MCColumn
  Reference <- MCReference
  Importers <- MCImporters
  Processors <- MCProcessors
  Imported <- MCImported
  Runs <- MCRuns
INVARIANTS
  KeepsFresh
  RepairsScope
  ChangesAreExact
PROPERTIES
  NothingIsLost
