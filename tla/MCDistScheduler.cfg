SPECIFICATION FairSpec
CONSTANTS
  t1 = t1
  t2 = t2
  t3 = t3
  v = v
  w = w
  a = a
  b = b
  TaskIds <- MCTaskIds
  Workers <- MCWorkers
  Sources <- MCSources
  WorkerOf <- MCWorkerOf
  SourceOf <- MCSourceOf
  Durations = {1}
  Slots = 1
  SlotsPerSource = 1
  PrioritySlots = 0
  InitialPriorityOffset = 1
INVARIANTS
  MasterAlive
  TasksAreTracked
  MessagesExpected
  RunningIsAccounted
PROPERTIES
  SlotsAreReleased
  EveryTaskAnswered
