SPECIFICATION FairSpec
CONSTANTS
  adresse = adresse
  postnummer = postnummer
  k1 = k1
  p = p
  q = q
  h = h
  r1 = r1
  r2 = r2
  NoRow = NoRow
  Entities <- MCEntities
  Keys <- MCKeys
  Publics <- MCPublics
  Hiddens <- MCHiddens
  Position <- MCPosition
  References <- MCReferences
  TimedTables <- MCTimedTables
  MaxTxid = 3
  Runs <- MCOneRun
  ForceDownloads <- MCBoth
  Failures = TRUE
  MaxLocalTxid = 2
INVARIANTS
  CopyIsSnapshot
  PrefixesConsistent
PROPERTIES
  RunsReachTheirTransaction
  LocalChangesFit
  RunsEnd
