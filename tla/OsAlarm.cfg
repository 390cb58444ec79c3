SPECIFICATION FairSpec
CONSTANTS
  AlarmCount = 3
  CounterCount = 1
  CounterOf <- SystemCounter
  TickRange = 8
  Increment = {0, 3}
  Ahead = {1}
  Cycle <- CyclesShort
  ErrorExt = TRUE
  Reset = FALSE
INVARIANTS
  QueueMatchesFlags
  AlarmsOnTime
PROPERTIES
  KeepsPromise
  TickEnds
