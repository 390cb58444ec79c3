SPECIFICATION FairPosixSpec
CONSTANTS
  TaskCount = 3
  ResCount = 2
  PrioCount = 3
  TaskPriority <- PrioritiesDistinct
  TaskLimit <- LimitMiddle
  TaskInternal <- InternalGroup
  TaskAutostart <- AutostartLowest
  Ceiling <- CeilingsScheduler
  AlarmTasks = {1, 2}
  MultipleActivation = TRUE
  ErrorExt = TRUE
  Liberties = {}
INVARIANTS
  RunsCurrent
  CanResume
  BeginsAtEntry
  ReadyConsistent
  RunningIsHighest
  ActivationMatchesState
PROPERTIES
  TickServed
  IdleEnds
