SPECIFICATION Spec
CONSTANTS
  TaskCount = 4
  ResCount = 2
  PrioCount = 3
  TaskPriority <- PrioritiesShared
  TaskLimit <- LimitMiddle
  TaskInternal <- NoInternal
  TaskAutostart <- AutostartLowest
  Ceiling <- CeilingsScheduler
  AlarmTasks = {1, 3}
  MultipleActivation = TRUE
  ErrorExt = FALSE
  Liberties = {"nesting"}
INVARIANTS
  MutualExclusion
