SPECIFICATION FairSystemSpec
CONSTANTS
  TaskCount = 3
  ResCount = 0
  PrioCount = 2
  TaskPriority <- PrioritiesPair
  TaskLimit <- LimitMiddle
  TaskInternal <- NoInternal
  TaskAutostart <- AutostartLowest
  Ceiling <- NoCeiling
  AlarmTasks = {1, 2}
  MultipleActivation = TRUE
  ErrorExt = TRUE
  Liberties = {}
  AlarmCount = 2
  CounterCount = 1
  CounterOf <- SystemCounter
  TickRange = 6
  Increment = {2}
  Ahead = {1}
  Cycle <- CyclesSystem
  Reset = FALSE
  AlarmTask <- TasksOfAlarms
INVARIANTS
  NoAlarmOverdue
PROPERTIES
  ExpiredTaskIsReady
  SleepEnds
