SPECIFICATION FairSpec
CONSTANTS
  husnummer = husnummer
  adresse = adresse
  k1 = k1
  Entities <- MCEntities
  Rowkeys <- MCRowkeys
  MaxEvents = 4
  MaxBatch = 2
  Options <- MCDaemons
INVARIANTS
  LocalIsPrefix
PROPERTIES
  MovesForward
  EventsAreImported
