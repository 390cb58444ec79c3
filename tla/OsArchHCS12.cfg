SPECIFICATION HCS12Spec
CONSTANTS
  TaskCount = 4
  ResCount = 3
  PrioCount = 4
  TaskPriority <- PrioritiesDistinct
  TaskLimit <- LimitOne
  TaskInternal <- NoInternal
  TaskAutostart <- AutostartAll
  Ceiling <- CeilingsNested
  AlarmTasks = {1, 2, 3}
  MultipleActivation = FALSE
  ErrorExt = FALSE
  Liberties = {}
INVARIANTS
  RunsCurrent
  CallIsOwn
  CanResume
  BeginsAtEntry
  MutualExclusion
  SingleBlocking
  PriorityMatchesHeld
  RunningIsHighest
