CONSTANTS
  stream = stream
  autocomplete = autocomplete
  c1 = c1
  NoConnection = NoConnection
  Requests = {stream, autocomplete}
  Streaming = {stream}
  Connections = {c1}
  ConnectionSlots = 2
  QuerySlots = 1
  MaxRows = 5
  FetchSize = 2
  BufferSize = 1
  BatchSize = 1
  HighWaterMark = 1
  MaxQueries = 2
SPECIFICATION FairStreamSpec
INVARIANTS CleanInPool SlotsAreUsed
PROPERTIES ImplementsTransfer EveryRequestEnds
