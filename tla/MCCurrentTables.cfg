SPECIFICATION FairSpec
CONSTANTS
  a = a
  b = b
  i1 = i1
  i2 = i2
  daemon = daemon
  command = command
  NoRow = NoRow
  NotBegun = NotBegun
  Ids <- MCIds
  Importers <- MCImporters
  Polling <- MCPolling
  Registered <- MCRegistered
  Timelines <- MCTimelines
  MaxTime = 4
  Tolerance = 3
  MaxRowkey = 3
INVARIANTS
  CurrentIsValidNow
  HistoryIsMerged
PROPERTIES
  RowkeysAreKept
  EverythingTakesEffect
