SPECIFICATION FairFibersSpec
CONSTANTS
  TaskCount = 3
  ResCount = 0
  PrioCount = 2
  TaskPriority <- PrioritiesPair
  TaskLimit <- LimitMiddle
  TaskInternal <- NoInternal
  TaskAutostart <- AutostartLowest
  Ceiling <- NoCeiling
  AlarmTasks = {1, 2}
  MultipleActivation = TRUE
  ErrorExt = FALSE
  Liberties = {}
  FrameLimit = 2
INVARIANTS
  RunsLiveFiber
  NoFiberLost
  KernelNotReentered
  BeginsAtEntry
  TickNotStranded
PROPERTIES
  TickServed
