SPECIFICATION FairSpec
CONSTANTS
  AlarmCount = 2
  CounterCount = 1
  CounterOf <- SystemCounter
  TickRange = 8
  Increment = {0, 3}
  Ahead = {1}
  Cycle <- CyclesHalf
  ErrorExt = TRUE
  Reset = FALSE
PROPERTIES
  TickEnds
