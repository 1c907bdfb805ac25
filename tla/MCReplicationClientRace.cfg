SPECIFICATION Spec
CONSTANTS
  adresse = adresse
  postnummer = postnummer
  k1 = k1
  p = p
  q = q
  h = h
  r1 = r1
  r2 = r2
  NoRow = NoRow
  Entities <- MCEntities
  Keys <- MCKeys
  Publics <- MCPublics
  Hiddens <- MCHiddens
  Position <- MCPosition
  References <- MCReferences
  TimedTables <- MCTimedTables
  MaxTxid = 2
  Runs <- MCTwoRuns
  ForceDownloads <- MCBoth
  Failures = FALSE
  MaxLocalTxid = 2
INVARIANTS
  CopyIsSnapshot
