SPECIFICATION ServerSpec
CONSTANTS
  e1 = e1
  k1 = k1
  k2 = k2
  p = p
  q = q
  h = h
  i = i
  NoRow = NoRow
  Entities <- MCEntities
  Keys <- MCKeys
  Publics <- MCPublics
  Hiddens <- MCHiddens
  Position <- MCPosition
  References = {}
  TimedTables <- MCTimedTables
  MaxTxid = 4
SYMMETRY Symmetry
INVARIANTS
  SnapshotIsCurrent
  EventsLeadToSnapshot
  SequenceNumbersExact
PROPERTIES
  PastStaysButTimes
