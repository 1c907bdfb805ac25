SPECIFICATION Spec
CONSTANTS
  t1 = t1
  t2 = t2
  t3 = t3
  t4 = t4
  t5 = t5
  a = a
  b = b
  c = c
  TaskIds <- MCTaskIds
  Sources <- MCSources
  Durations <- MCDurations
  Slots = 3
  SlotsPerSource = 2
  PrioritySlots = 1
  InitialPriorityOffset = 2
SYMMETRY Symmetry
INVARIANTS
  PrioritiesAreSound
  ReservedSlots
  NoStall
PROPERTIES
  ChargesKept
  KeepsPromise
