------------------------------- MODULE OsKernel -------------------------------
(***************************************************************************)
(* The scheduler core of the OSEK kernel (src/src/Os.c): task states,      *)
(* ready lists, immediate-ceiling resources, internal resources, start-up, *)
(* the tick interrupt and shutdown.                                        *)
(*                                                                         *)
(* Every kernel service runs with interrupts masked, so one service is one *)
(* step.  The kernel's globals are one record, os, and each C procedure is *)
(* an operator from a value k of that record to the next one: procedures   *)
(* that call each other compose as functions do.  The loop that expires    *)
(* alarms is one step per expired alarm; no other step can happen between  *)
(* its iterations.                                                         *)
(***************************************************************************)
EXTENDS Integers, Sequences, FiniteSets

CONSTANTS
  TaskCount,          \* OS_TASK_COUNT
  ResCount,           \* OS_RES_COUNT
  PrioCount,          \* OS_PRIO_COUNT
  TaskPriority,       \* Os_TaskConfigs[].priority
  TaskLimit,          \* Os_TaskConfigs[].activation
  TaskInternal,       \* Os_TaskConfigs[].resource
  TaskAutostart,      \* Os_TaskConfigs[].autostart
  Ceiling,            \* Os_ResourceConfigs[].priority
  AlarmTasks,         \* the tasks that alarms activate
  MultipleActivation, \* TRUE: classes BCC2 and ECC2, FALSE: BCC1 and ECC1
  ErrorExt,           \* OS_ERROR_EXT_ENABLE
  Liberties           \* documented uses the code does not survive, see below

INVALID == 255        \* OS_INVALID_TASK, OS_INVALID_RESOURCE

Task == 0 .. TaskCount - 1
Res  == 0 .. ResCount - 1
Prio == 0 .. PrioCount - 1

\* What an application may do besides what every passing run lets it do:
\*   "nesting"         take a resource whose ceiling lies between its static
\*                     and its current priority, in a build without checks
\*   "shutdown"        call Os_Shutdown at a ceiling of OS_PRIO_COUNT
\*   "overactivation"  activate a task that is not suspended, in a BCC1 build
\*                     without checks
Liberty == {"nesting", "shutdown", "overactivation"}

\* The counts fit the 8-bit identifiers, with 255 kept for "none".
ASSUME CountsAssumption ==
  /\ TaskCount \in 1 .. 254
  /\ ResCount \in 0 .. 254
  /\ PrioCount \in 1 .. 127

\* The tables of Os_ConfigType.  A ceiling may be OS_PRIO_COUNT, above all tasks.
ASSUME ConfigAssumption ==
  /\ TaskPriority \in [Task -> Prio]
  /\ TaskLimit \in [Task -> 1 .. 255]
  /\ TaskInternal \in [Task -> Res \cup {INVALID}]
  /\ TaskAutostart \in [Task -> BOOLEAN]
  /\ Ceiling \in [Res -> 0 .. PrioCount]
  /\ AlarmTasks \subseteq Task

\* What Os_Init checks of every task that has an internal resource.
ASSUME InternalAssumption ==
  \A t \in Task : TaskInternal[t] # INVALID => TaskPriority[t] <= Ceiling[TaskInternal[t]]

ASSUME BuildAssumption ==
  /\ MultipleActivation \in BOOLEAN
  /\ ErrorExt \in BOOLEAN
  /\ Liberties \subseteq Liberty

VARIABLES
  os,        \* the kernel's globals, a record, see KernelType
  context,   \* Os_CallContext
  continue,  \* Os_Continue
  boot,      \* the loop of Os_Init: next task to autostart; then Os_Start; then up
  loop       \* which caller of Os_AlarmTick is in its loop: "none", "isr", "call"

vars == <<os, context, continue, boot, loop>>

TaskState == {"SUSPENDED", "READY", "READY_FIRST", "RUNNING"}

Status == {"E_OK", "E_OS_ACCESS", "E_OS_CALLEVEL", "E_OS_ID", "E_OS_LIMIT",
           "E_OS_NOFUNC", "E_OS_RESOURCE", "E_OS_STATE"}

\* held[t] is the list that Os_TaskControls[t].resource heads and
\* Os_ResourceControls[].next links, last taken first; owner is
\* Os_ResourceControls[].task; status is what the last service returned.
KernelType ==
  [state      : [Task -> TaskState],
   activation : [Task -> 0 .. 255],
   priority   : [Task -> -1 .. PrioCount],
   held       : [Task -> Seq(Res)],
   ready      : [Prio -> Seq(Task)],
   active     : Task \cup {INVALID},
   owner      : [Res -> Task \cup {INVALID}],
   status     : Status]

-------------------------------------------------------------------------------
(* Ready lists *)

\* A priority of OS_PRIO_COUNT, past the array, reaches no list.
PushHead(k, p, t) == [k EXCEPT !.ready[p] = <<t>> \o @]

PushTail(k, p, t) == [k EXCEPT !.ready[p] = Append(@, t)]

PopHead(k, p) == IF k.ready[p] = <<>> THEN k ELSE [k EXCEPT !.ready[p] = Tail(@)]

\* The head of the highest list above min, INVALID when those are all empty.
TaskPeek(k, min) ==
  LET above == {p \in Prio : p > min /\ k.ready[p] # <<>>}
  IN  IF above = {} THEN INVALID
      ELSE Head(k.ready[CHOOSE p \in above : \A q \in above : q <= p])

-------------------------------------------------------------------------------
(* State transitions *)

Running(k) == k.active \in Task /\ k.state[k.active] = "RUNNING"

Fail(k, error) == [k EXCEPT !.status = error]

Running_To_Suspended(k, t) ==
  IF ErrorExt /\ k.state[t] # "RUNNING" THEN k
  ELSE [k EXCEPT !.state[t] = "SUSPENDED", !.priority[t] = -1]

\* Mutants: the task goes to the list of its static priority; to the list's tail.
ReadyAtStaticPriority(k, t) ==
  [PushHead(k, TaskPriority[t], t) EXCEPT !.state[t] = "READY"]
ReadyAtTail(k, t) ==
  [PushTail(k, k.priority[t], t) EXCEPT !.state[t] = "READY"]

Running_To_Ready(k, t) ==
  IF ErrorExt /\ k.state[t] # "RUNNING" THEN k
  ELSE [PushHead(k, k.priority[t], t) EXCEPT !.state[t] = "READY"]

\* Mutant: an activated task overtakes the ones queued before it.
ActivatedToHead(k, t) ==
  [PushHead(k, TaskPriority[t], t) EXCEPT
     !.state[t] = "READY_FIRST", !.priority[t] = TaskPriority[t]]

Suspended_To_Ready(k, t) ==
  IF ErrorExt /\ k.state[t] # "SUSPENDED" THEN k
  ELSE [PushTail(k, TaskPriority[t], t) EXCEPT
          !.state[t] = "READY_FIRST", !.priority[t] = TaskPriority[t]]

Ready_To_Running(k, t) ==
  LET p      == k.priority[t]
      popped == PopHead(k, p)
  IN  IF ErrorExt /\ k.state[t] \notin {"READY", "READY_FIRST"} THEN k
      ELSE IF ErrorExt /\ (k.ready[p] = <<>> \/ Head(k.ready[p]) # t) THEN popped
      ELSE [popped EXCEPT !.state[t] = "RUNNING"]

-------------------------------------------------------------------------------
(* Os_Schedule_Internal *)

Preempted(k) == IF Running(k) THEN Running_To_Ready(k, k.active) ELSE k

\* Mutant: a task of equal priority preempts the running one.
ScheduleRoundRobin(k) ==
  LET task == TaskPeek(k, IF Running(k) THEN k.priority[k.active] - 1 ELSE -1)
  IN  IF task = INVALID THEN Fail(k, "E_OK")
      ELSE [Ready_To_Running(Preempted(k), task) EXCEPT !.active = task, !.status = "E_OK"]

Schedule_Internal(k) ==
  LET task == TaskPeek(k, IF Running(k) THEN k.priority[k.active] ELSE -1)
  IN  IF task = INVALID THEN Fail(k, "E_OK")
      ELSE [Ready_To_Running(Preempted(k), task) EXCEPT !.active = task, !.status = "E_OK"]

-------------------------------------------------------------------------------
(* Resources: the services act for the active task *)

\* A release gives back the priority of the resource taken before, if any.
PriorityBelow(t, stack) ==
  IF stack = <<>> THEN TaskPriority[t] ELSE Ceiling[Head(stack)]

GetError(k, r) ==
  IF ~ErrorExt THEN "E_OK"
  ELSE IF r \notin Res THEN "E_OS_ID"
  ELSE IF k.priority[k.active] > Ceiling[r] THEN "E_OS_ACCESS"
  ELSE IF k.owner[r] # INVALID THEN "E_OS_ACCESS"
  ELSE "E_OK"

\* Mutant: the ceiling is not applied.
GetWithoutCeiling(k, r) ==
  IF GetError(k, r) # "E_OK" THEN Fail(k, GetError(k, r))
  ELSE [k EXCEPT !.owner[r] = IF ErrorExt THEN k.active ELSE @,
                 !.held[k.active] = <<r>> \o @, !.status = "E_OK"]

GetResource_Internal(k, r) ==
  IF GetError(k, r) # "E_OK" THEN Fail(k, GetError(k, r))
  ELSE [k EXCEPT !.owner[r] = IF ErrorExt THEN k.active ELSE @,
                 !.held[k.active] = <<r>> \o @,
                 !.priority[k.active] = Ceiling[r],
                 !.status = "E_OK"]

ReleaseError(k, r) ==
  IF ~ErrorExt THEN "E_OK"
  ELSE IF r \notin Res THEN "E_OS_ID"
  ELSE IF k.held[k.active] = <<>> THEN "E_OS_NOFUNC"
  ELSE IF Head(k.held[k.active]) # r THEN "E_OS_NOFUNC"
  ELSE IF k.owner[r] # k.active THEN "E_OS_NOFUNC"
  ELSE "E_OK"

\* The effect of a release up to its call of Os_Schedule_Internal.
Unlocked(k, r) ==
  LET rest == Tail(k.held[k.active])
  IN  [k EXCEPT !.owner[r] = INVALID,
                !.held[k.active] = rest,
                !.priority[k.active] = PriorityBelow(k.active, rest)]

\* Mutants: no rescheduling; the static priority is restored at every release.
ReleaseWithoutSchedule(k, r) ==
  IF ReleaseError(k, r) # "E_OK" THEN Fail(k, ReleaseError(k, r)) ELSE Unlocked(k, r)
ReleaseToStaticPriority(k, r) ==
  IF ReleaseError(k, r) # "E_OK" THEN Fail(k, ReleaseError(k, r))
  ELSE Schedule_Internal([Unlocked(k, r) EXCEPT !.priority[k.active] = TaskPriority[k.active]])

ReleaseResource_Internal(k, r) ==
  IF ReleaseError(k, r) # "E_OK" THEN Fail(k, ReleaseError(k, r))
  ELSE Schedule_Internal(Unlocked(k, r))

InternalResource_Release(k) ==
  LET r == TaskInternal[k.active]
  IN  IF r # INVALID /\ k.held[k.active] # <<>> /\ Head(k.held[k.active]) = r
      THEN ReleaseResource_Internal(k, r)
      ELSE k

\* Its callers drop the status of the Get and return the service's own.
InternalResource_Get(k) ==
  LET r == TaskInternal[k.active]
  IN  IF r # INVALID /\ k.held[k.active] = <<>>
      THEN [GetResource_Internal(k, r) EXCEPT !.status = k.status]
      ELSE k

-------------------------------------------------------------------------------
(* Tasks *)

\* One more activation is allowed: the check BCC1 makes only with ErrorExt.
AtLimit(k, t) ==
  IF MultipleActivation THEN k.activation[t] >= TaskLimit[t] ELSE k.state[t] # "SUSPENDED"

\* The activation of t once it is known to be allowed.
Activated(k, t) ==
  IF ~MultipleActivation THEN Suspended_To_Ready(k, t)
  ELSE LET counted == [k EXCEPT !.activation[t] = @ + 1]
       IN  IF counted.activation[t] = 1 THEN Suspended_To_Ready(counted, t) ELSE counted

\* Mutant: the limit is off by one.
ActivateErrorOffByOne(k, t) ==
  IF ErrorExt /\ t \notin Task THEN "E_OS_ID"
  ELSE IF MultipleActivation /\ k.activation[t] > TaskLimit[t] THEN "E_OS_LIMIT"
  ELSE "E_OK"

ActivateError(k, t) ==
  IF ErrorExt /\ t \notin Task THEN "E_OS_ID"
  ELSE IF (MultipleActivation \/ ErrorExt) /\ AtLimit(k, t) THEN "E_OS_LIMIT"
  ELSE "E_OK"

ActivateTask_Internal(k, t) ==
  IF ActivateError(k, t) # "E_OK" THEN Fail(k, ActivateError(k, t))
  ELSE Schedule_Internal(Activated(k, t))

\* What TerminateTask and ChainTask check of their caller.
EndError(k) ==
  IF ~ErrorExt THEN "E_OK"
  ELSE IF ~Running(k) THEN "E_OS_STATE"
  ELSE IF context # "TASK" THEN "E_OS_CALLEVEL"
  ELSE IF k.held[k.active] # <<>> THEN "E_OS_RESOURCE"
  ELSE "E_OK"

\* The caller leaves, and queues again when more activations are counted.
\* Mutant: it is never queued again.
EndedForGood(k) == Running_To_Suspended(k, k.active)

Ended(k) ==
  LET t    == k.active
      gone == Running_To_Suspended(k, t)
      less == [gone EXCEPT !.activation[t] = @ - 1]
  IN  IF ~MultipleActivation THEN gone
      ELSE IF less.activation[t] > 0 THEN Suspended_To_Ready(less, t)
      ELSE less

TerminateTask_Internal(k) ==
  IF EndError(k) # "E_OK" THEN Fail(k, EndError(k))
  ELSE Schedule_Internal(Ended(k))

\* The limit is checked after the caller has left its running state, and in every build.
ChainTask_Internal(k, t) ==
  LET left == Ended(k)
  IN  IF EndError(k) # "E_OK" THEN Fail(k, EndError(k))
      ELSE IF ErrorExt /\ t \notin Task THEN Fail(k, "E_OS_ID")
      ELSE IF AtLimit(left, t) THEN Fail(left, "E_OS_LIMIT")
      ELSE Schedule_Internal(Activated(left, t))

-------------------------------------------------------------------------------
(* Os_Init and Os_Start *)

\* After Os_Init has cleared the tables, before it readies the autostarted tasks.
Init ==
  /\ os = [state      |-> [t \in Task |-> "SUSPENDED"],
           activation |-> [t \in Task |-> 0],
           priority   |-> [t \in Task |-> -1],
           held       |-> [t \in Task |-> <<>>],
           ready      |-> [p \in Prio |-> <<>>],
           active     |-> INVALID,
           owner      |-> [r \in Res |-> INVALID],
           status     |-> "E_OK"]
  /\ context = "NONE"
  /\ continue = TRUE
  /\ boot = 0
  /\ loop = "none"

\* One iteration of the autostart loop of Os_Init.
Autostart ==
  /\ boot < TaskCount
  /\ boot' = boot + 1
  /\ IF TaskAutostart[boot]
     THEN os' = Suspended_To_Ready(
                  IF MultipleActivation THEN [os EXCEPT !.activation[boot] = 1] ELSE os, boot)
     ELSE UNCHANGED os
  /\ UNCHANGED <<context, continue, loop>>

Start ==
  /\ boot = TaskCount
  /\ boot' = boot + 1
  /\ context' = "TASK"
  /\ os' = Schedule_Internal([os EXCEPT !.active = 0])
  /\ UNCHANGED <<continue, loop>>

Up == boot > TaskCount /\ loop = "none"

-------------------------------------------------------------------------------
(* System services: called by the running task *)

InternalRes == {TaskInternal[t] : t \in Task} \ {INVALID}

\* With ErrorExt a service is also tried with the first identifier past its table.
TaskArg == IF ErrorExt THEN 0 .. TaskCount ELSE Task
ResArg  == (IF ErrorExt THEN 0 .. ResCount ELSE Res) \ InternalRes

Calling == Up /\ Running(os)

\* Without ErrorExt the rules below are the application's to keep: the documentation
\* leaves the behaviour undefined when it does not.
MayEnd ==
  ~ErrorExt => os.held[os.active] \in {<<>>, <<TaskInternal[os.active]>>}

MayGet(r) ==
  ~ErrorExt =>
    /\ \A i \in DOMAIN os.held[os.active] : os.held[os.active][i] # r
    /\ IF "nesting" \in Liberties
       THEN TaskPriority[os.active] <= Ceiling[r]
       ELSE os.priority[os.active] <= Ceiling[r]

MayRelease(r) ==
  ~ErrorExt => os.held[os.active] # <<>> /\ Head(os.held[os.active]) = r

MayActivate(t) ==
  ~MultipleActivation /\ ~ErrorExt /\ "overactivation" \notin Liberties =>
    os.state[t] = "SUSPENDED"

MayShutdown == "shutdown" \notin Liberties => os.priority[os.active] < PrioCount

Service(k) == os' = k /\ UNCHANGED <<context, continue, boot, loop>>

Schedule ==
  /\ Calling
  /\ Service(InternalResource_Get(Schedule_Internal(InternalResource_Release(os))))

TerminateTask ==
  /\ Calling
  /\ MayEnd
  /\ Service(InternalResource_Get(TerminateTask_Internal(InternalResource_Release(os))))

ChainTask(t) ==
  /\ Calling
  /\ MayEnd
  /\ Service(InternalResource_Get(ChainTask_Internal(InternalResource_Release(os), t)))

ActivateTask(t) ==
  /\ Calling
  /\ MayActivate(t)
  /\ Service(ActivateTask_Internal(os, t))

GetResource(r) ==
  /\ Calling
  /\ MayGet(r)
  /\ Service(GetResource_Internal(os, r))

ReleaseResource(r) ==
  /\ Calling
  /\ MayRelease(r)
  /\ Service(ReleaseResource_Internal(os, r))

\* Os_Start leaves its loop once continue is FALSE; the interrupt stays enabled.
Shutdown ==
  /\ Calling
  /\ MayShutdown
  /\ os' = Fail(Preempted(os), "E_OK")
  /\ continue' = FALSE
  /\ UNCHANGED <<context, boot, loop>>

\* Os_IncrementCounter called by a task, up to its loop over expired alarms.
IncrementCounter ==
  /\ Calling
  /\ loop' = "call"
  /\ UNCHANGED <<os, context, continue, boot>>

IncrementReturn ==
  /\ loop = "call"
  /\ loop' = "none"
  /\ os' = Fail(os, "E_OK")
  /\ UNCHANGED <<context, continue, boot>>

-------------------------------------------------------------------------------
(* The tick interrupt *)

\* Os_Isr up to the loop over expired alarms.
IsrEnter ==
  /\ Up
  /\ context' = "ISR1"
  /\ loop' = "isr"
  /\ UNCHANGED <<os, continue, boot>>

\* One iteration of Os_AlarmTick whose alarm activates t.
Expire(t) ==
  /\ loop # "none"
  /\ MayActivate(t)
  /\ Service(ActivateTask_Internal(os, t))

\* Mutant: the interrupt reschedules only through the alarms it expires.
IsrExitWithoutSchedule ==
  /\ loop = "isr"
  /\ loop' = "none"
  /\ context' = "TASK"
  /\ UNCHANGED <<os, continue, boot>>

IsrExit ==
  /\ loop = "isr"
  /\ loop' = "none"
  /\ context' = "TASK"
  /\ os' = Schedule_Internal(os)
  /\ UNCHANGED <<continue, boot>>

-------------------------------------------------------------------------------
Next ==
  \/ Autostart \/ Start
  \/ Schedule \/ TerminateTask \/ Shutdown
  \/ \E t \in TaskArg : ChainTask(t) \/ ActivateTask(t)
  \/ \E r \in ResArg : GetResource(r) \/ ReleaseResource(r)
  \/ IncrementCounter \/ IncrementReturn
  \/ IsrEnter \/ IsrExit
  \/ \E t \in AlarmTasks : Expire(t)

Spec == Init /\ [][Next]_vars

\* Os_Init and Os_Start run without waiting for anything.  The hardware timer ticks
\* for as long as the system is up, and an interrupt that has entered returns.
Fairness ==
  /\ WF_vars(Autostart) /\ WF_vars(Start)
  /\ WF_vars(continue /\ IsrEnter)
  /\ WF_vars(IsrExit) /\ WF_vars(IncrementReturn)

FairSpec == Spec /\ Fairness

-------------------------------------------------------------------------------
(* Properties *)

Holds(t, r) == \E i \in DOMAIN os.held[t] : os.held[t][i] = r

InList(p, t) == \E i \in DOMAIN os.ready[p] : os.ready[p][i] = t

\* A task that has run since its last activation: it may hold resources, and its
\* stack is in use.
Started(t) == os.state[t] \in {"RUNNING", "READY"}

\* The globals keep their types; an activation count stays within its limit.
TypeOK ==
  /\ os \in KernelType
  /\ \A t \in Task : os.activation[t] <= TaskLimit[t]
  /\ context \in {"NONE", "TASK", "ISR1"}
  /\ continue \in BOOLEAN
  /\ boot \in 0 .. TaskCount + 1
  /\ loop \in {"none", "isr", "call"}

\* The ready lists and the task states agree: a task is ready exactly when it is in the
\* list of its current priority, once, and in no other list (Os_State_*, which must push
\* and pop by the same priority whatever resources changed in between).
ReadyConsistent ==
  /\ \A p \in Prio : \A i \in DOMAIN os.ready[p] :
       /\ os.state[os.ready[p][i]] \in {"READY", "READY_FIRST"}
       /\ os.priority[os.ready[p][i]] = p
       /\ \A j \in DOMAIN os.ready[p] : os.ready[p][i] = os.ready[p][j] => i = j
  /\ \A t \in Task : os.state[t] \in {"READY", "READY_FIRST"} =>
       os.priority[t] \in Prio /\ InList(os.priority[t], t)

\* Only the active task runs, and while it runs no ready task has a higher priority:
\* every service that readies a task or lowers a priority reschedules.
RunningIsHighest ==
  \A t \in Task : os.state[t] = "RUNNING" =>
    /\ t = os.active
    /\ \A p \in Prio : p > os.priority[t] => os.ready[p] = <<>>

\* No two tasks hold a resource at once.  Without OS_ERROR_EXT_ENABLE nothing records
\* the owner: only the ceilings keep Os_GetResource calls apart.
MutualExclusion ==
  \A r \in Res : \A t, u \in Task : Holds(t, r) /\ Holds(u, r) => t = u

\* A task that passes the priority check of Os_GetResource never meets a resource
\* another task holds: the check of the owner can only fail for the caller itself.
CeilingPreventsContention ==
  Running(os) =>
    \A r \in Res : \A t \in Task \ {os.active} :
      os.priority[os.active] <= Ceiling[r] => ~Holds(t, r)

\* Tasks preempt each other in a nested way: of two started tasks the later one was
\* activated at a static priority above the current priority of the other, so no two
\* tasks are ever part way through at one level (what a shared internal resource and
\* the ceilings rely on).
PreemptionNested ==
  \A t, u \in Task : Started(t) /\ Started(u) /\ t # u =>
    os.priority[t] < TaskPriority[u] \/ os.priority[u] < TaskPriority[t]

\* A preempted task is the next of its priority to run: it waits at the head of its
\* list, before every task that has not run yet (Os_State_Running_To_Ready).
PreemptedIsNext ==
  \A t \in Task : os.state[t] = "READY" =>
    \E p \in Prio : os.ready[p] # <<>> /\ Head(os.ready[p]) = t

\* The priority of a task is its static one or the ceiling of the resource it took last,
\* which is the highest it holds; a task that has not started holds none.
PriorityMatchesHeld ==
  \A t \in Task :
    /\ ~Started(t) => os.held[t] = <<>>
    /\ os.priority[t] = IF os.state[t] = "SUSPENDED" THEN -1 ELSE PriorityBelow(t, os.held[t])
    /\ \A i, j \in DOMAIN os.held[t] :
         i < j => Ceiling[os.held[t][i]] >= Ceiling[os.held[t][j]]

\* A task waits for at most one task of lower static priority: no second one holds a
\* resource whose ceiling reaches it (bounded priority inversion).
SingleBlocking ==
  \A t, u, v \in Task :
    LET Blocks(w) == /\ TaskPriority[w] < TaskPriority[t]
                     /\ \E r \in Res : Holds(w, r) /\ Ceiling[r] >= TaskPriority[t]
    IN  Blocks(u) /\ Blocks(v) => u = v

\* A task is suspended exactly while no activation of it is counted (classes with
\* multiple activation): no activation is forgotten, none is served twice.
ActivationMatchesState ==
  MultipleActivation =>
    \A t \in Task : os.state[t] = "SUSPENDED" <=> os.activation[t] = 0

\* Ready tasks of a priority start in the order of their activation: a task leaves a
\* list only when all before it left, and one that has not run yet enters behind all.
FifoStep ==
  \A p \in Prio :
    LET old == os.ready[p]
        new == os'.ready[p]
        Stays(t) == \E i \in DOMAIN new : new[i] = t
    IN  /\ \A i, j \in DOMAIN old : i < j /\ ~Stays(old[j]) => ~Stays(old[i])
        /\ \A i, j \in DOMAIN new :
             i < j /\ InList(p, new[j]) /\ ~InList(p, new[i]) => os'.state[new[i]] = "READY"

FifoOrder == [][FifoStep]_vars

\* A step ends only the task that runs before it: no other task is suspended or loses an
\* activation.
OnlyCallerEnds ==
  [][\A t \in Task :
       \/ os'.state[t] = "SUSPENDED" /\ os.state[t] # "SUSPENDED"
       \/ os'.activation[t] < os.activation[t]
       => Running(os) /\ t = os.active]_vars

\* While the system is up, a ready task does not leave the processor idle for ever: the
\* tick at the latest dispatches it.
IdleEnds ==
  (/\ continue /\ boot > TaskCount /\ ~Running(os)
   /\ \E t \in Task : os.state[t] \in {"READY", "READY_FIRST"})
  ~> (Running(os) \/ ~continue)

-------------------------------------------------------------------------------
(* The schedule that the globals stand for, see OsSchedSpec *)

\* The tasks of each list that wait to start: all but a preempted one at the head.
ToStart(k) ==
  [p \in Prio |-> IF k.ready[p] # <<>> /\ k.state[Head(k.ready[p])] = "READY"
                  THEN Tail(k.ready[p]) ELSE k.ready[p]]

StartedIn(k) == {t \in Task : k.state[t] \in {"RUNNING", "READY"}}

HeldIn(k) == [t \in Task |-> {k.held[t][i] : i \in DOMAIN k.held[t]}]

\* Classes with a single activation do not count.
ActivationsOf(k) ==
  [t \in Task |-> IF MultipleActivation THEN k.activation[t]
                  ELSE IF k.state[t] = "SUSPENDED" THEN 0 ELSE 1]

Sched == INSTANCE OsSchedSpec WITH
  Limit   <- [t \in Task |-> IF MultipleActivation THEN TaskLimit[t] ELSE 1],
  queue   <- ToStart(os),
  started <- StartedIn(os),
  held    <- HeldIn(os),
  count   <- ActivationsOf(os),
  running <- Running(os),
  up      <- boot > TaskCount

\* The kernel schedules as OsSchedSpec promises: each service and each tick starts, ends
\* and resumes the tasks that priorities, ceilings and the order of activation demand.
KeepsSchedule == Sched!Spec

-------------------------------------------------------------------------------
(* What the documentation and the tests say, and the code does not do *)

\* ChainTask returns to its caller when it fails: "In case of error the service returns
\* to the calling task".
FailedChainReturns ==
  [][\A u \in Task : ChainTask(u) /\ os'.status = "E_OS_LIMIT" =>
       os'.active = os.active /\ Running(os')]_vars

\* After Os_Shutdown no task runs again: the tests fail when a task goes on behind its
\* call of Os_Shutdown.
StaysDown ==
  [][~continue /\ ~Running(os) => ~Running(os')]_vars
===============================================================================
