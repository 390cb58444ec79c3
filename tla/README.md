# A verification of the OSEK kernel

TLA+ models of the OSEK kernel in `src/src/Os.c` and of the three ports that run it, the TLC
configurations that check them on small systems, and TLAPS proofs about the scheduler,
the alarms and the ports for systems of every size.

Paths such as `src/src/Os.c` are relative to the directory that holds both the repository
(`src/`) and this one (`tla/`).

## 1. The system

A single-processor real-time kernel: a static set of tasks with fixed priorities, preemptive
scheduling, resources with immediate ceilings, alarms driven by tick counters. The kernel is one
C file; a *port* provides the context switch, the timer and the masking of interrupts.

| Part | State | Operations | Modelled in |
|---|---|---|---|
| Scheduler | `Os_TaskControls[].state/.priority`, `Os_TaskReady[]`, `Os_ActiveTask`, `Os_Continue`, `Os_CallContext` | `Os_Init`, `Os_Start`, `Os_Schedule`, `Os_Isr`, `Os_Shutdown`, the `Os_State_*` transitions | `OsKernel`; the links of the lists: `OsReadyList` |
| Tasks | `Os_TaskControls[].activation` | `ActivateTask`, `TerminateTask`, `ChainTask` | `OsKernel` |
| Resources | `Os_TaskControls[].resource`, `Os_ResourceControls[].task/.next` | `GetResource`, `ReleaseResource`, the internal resource | `OsKernel` |
| Alarms, counters | `Os_CounterControls[].ticks/.queue`, `Os_AlarmTicks`, `Os_AlarmCycles`, `Os_AlarmQueued` | `SetRelAlarm`, `SetAbsAlarm`, `CancelAlarm`, `GetAlarm`, `IncrementCounter`, `Os_AlarmTick` | `OsAlarm`, `OsAlarmSpec`; with the kernel: `OsSystem` |
| System calls | `Os_SyscallParamType` on the caller's stack | `Os_Syscall_Internal` and the inline wrappers of `Os.h` | one action per case; the life of the record in `OsArchHCS12` |
| Error reporting, hooks | `Os_Error` | `OS_CHECK*`, `Os_PreTaskHook`, `Os_PostTaskHook`, `Os_ErrorHook` | the statuses only |
| Posix port | ucontexts and `run` flags, the signal mask, SIGALRM | `Os_Arch_Syscall`, `Os_Arch_Alarm`, `Os_Arch_PrepareState`, `Os_Arch_Start` | `OsArchPosix` |
| Fibers port | fibers, two threads, `Os_Arch_Interrupt_Mask/_Pending` | the same, `Os_Arch_TimerCallback`, `Os_Arch_Isr` | `OsArchFibers` |
| HCS12 port | stack pointers, `Os_Arch_Ctx_Prev`, parameters and result per context, the I bit | the same, `Os_Arch_Swi`, `Os_Arch_Isr` | `OsArchHCS12` |
| UMS port | - | unfinished | not modelled |
| Tests | - | programs and configuration tables | source of the bounds |

How they interact: the running task enters the kernel through `Os_Arch_Syscall`, the timer through
the port's handler and `Os_Isr`. Both mask interrupts, run a kernel procedure to its end, and then
switch to the context of whatever task `Os_GetTaskId` says is running, or to the "none" context
that waits in `Os_Start`. The alarm code calls `Os_ActivateTask_Internal`; that, the task services
and `ReleaseResource` call `Os_Schedule_Internal`.

What is hard in it:

* *Interleaving.* A tick may preempt a task between any two of its services, wherever it is in its
  critical sections. Nothing but priorities keeps two tasks apart: no service blocks.
* *Order.* A preempted task re-enters its list at the head, an activated one at the tail; lists are
  indexed by the priority a task has *now*, which its resources change.
* *Procedures that reschedule in the middle of a service.* `Os_ActiveTask` can change inside
  `Os_Syscall_Internal`, and the code after the change goes on reading it.
* *Partial failure.* `ChainTask` ends its caller before it checks its argument's limit.
* *Wrapping time* and a heap whose order decides whether an alarm is on time.
* *The ports.* A tick comes between any two instructions that have interrupts open, and may resume
  another task there; a context is rebuilt while its task's old stack is the one that executes; on
  Windows the tick is a second thread.
* *Builds.* Two classes of activation and `OS_ERROR_EXT_ENABLE` give four kernels; without the
  checks, misuse that the documentation forbids has no defined result.

What makes each part correct:

* Scheduler: lists and states agree; the running task is the highest ready one; tasks of a priority
  start in the order of activation; preemption nests; a ready task is not left waiting for ever.
* Tasks: a task is suspended exactly when no activation is left to serve; only the caller ends.
* Resources: mutual exclusion, no contention at all under the ceilings, single blocking, and a
  priority that always follows from what is held.
* Alarms: each expires at its tick and at each cycle; the queue holds each alarm at most once; a tick
  ends. With the kernel: the system never sleeps through an alarm.
* Ports: the context that runs is that of the running task, none is resumed that was not saved, none is
  saved over or freed while it is needed, a call reads its own result, a pending tick is served.

## 2. The modules

| Module | What it is |
|---|---|
| `OsKernel` | the scheduler, tasks, resources, start-up, tick and shutdown |
| `OsReadyList` | head, tail and links of the ready lists, and why sequences may stand for them |
| `OsSchedSpec` | the abstract specification of the scheduler: tasks that wait to start, that have started, and what they hold |
| `MCOsKernel`, `MCOsReadyList` | tables of tasks and resources for TLC |
| `OsAlarm` | counters, alarm services, the heap, one tick as a loop |
| `OsAlarmSpec` | the abstract specification of alarms: plain countdowns |
| `MCOsAlarm` | alarm tables for TLC |
| `OsSystem`, `MCOsSystem` | kernel and alarms composed |
| `OsArch` | what kernel and ports share: the context to leave and to resume, the stacks to prepare |
| `OsArchPosix`, `OsArchHCS12`, `OsArchFibers`, each with its `MC` module | the ports, each a composition with `OsKernel` |
| `OsLists` | lists without repetition: definitions and proved lemmas |
| `OsKernelProofs` | the invariant of `OsKernel`, the theorems that follow from it and those about its steps; lemmas the ports share |
| `OsAlarmProofs` | the theorems about `OsAlarm` and that it implements `OsAlarmSpec` |
| `OsRefinementProofs` | what is above and below the kernel: it implements `OsSchedSpec`, and the links of `OsReadyList` implement its lists |
| `OsArchPosixProofs`, `OsArchHCS12Proofs`, `OsArchFibersProofs` | the theorems about the ports |
| `OsSystemProofs` | the theorems about `OsSystem` |

### OsKernel

The kernel's globals are the fields of one record `os`, and each C procedure is an operator from a
record to the next: `Schedule_Internal(k)` is `Os_Schedule_Internal` run on the globals `k`. A
service is the composition the C code makes, as in

    TerminateTask == ... InternalResource_Get(TerminateTask_Internal(InternalResource_Release(os)))

so that every procedure reads the globals the one before it left, `Os_ActiveTask` included. One
service is one step, because the ports mask interrupts around `Os_Syscall_Internal` and around the
tick handler. Only the running task calls services: when a service leaves no task running, the port
switches to the "none" context and the caller does not go on.

| In the model | In the code |
|---|---|
| `os.ready[p]`, a sequence | `Os_TaskReady[p].head/.tail` and the links `Os_TaskControls[].next` |
| `os.held[t]`, last taken first | `Os_TaskControls[t].resource` and the links `Os_ResourceControls[].next` |
| `os.owner` | `Os_ResourceControls[].task`, written at a Get only with `OS_ERROR_EXT_ENABLE` |
| `boot` | where `Os_Init` and `Os_Start` are: next task to autostart, then `Os_Start`, then up |
| `loop` | whether `Os_AlarmTick` is in its loop, called by `Os_Isr` or by a task |
| `Expire(t)` | one iteration of that loop, for an alarm that activates `t` |
| `IsrEnter`, `IsrExit` | `Os_Isr` before and after the loop; `continue` is not read, as in the code |
| `ErrorExt` | whether `OS_CHECK_EXT` and `OS_CHECK_EXT_R` do anything |
| `MultipleActivation` | BCC2/ECC2 against BCC1/ECC1 |

Which alarms expire at a tick is left open here, any number of them in any order, over the tasks in
`AlarmTasks`: `OsAlarm` says when.

*What the application may do.* With `ErrorExt` a service is called at any time with any argument,
one invalid identifier included. Without it the guards `MayEnd`, `MayGet`, `MayRelease` and
`MayActivate` keep the rules whose violation the documentation leaves undefined: end with no resource
held, release in the reverse order, no resource twice, no activation of a task that is not suspended in
BCC1. `Liberties` switches three of these off one at a time:

* `"nesting"` takes resources as the comment of `GetResource` allows instead of in rising ceilings
  (run `nesting_std`);
* `"overactivation"` lets a BCC1 build without checks activate a task that is already in a list:
  it is then in it twice;
* `"shutdown"` calls `Os_Shutdown` at a ceiling of `OS_PRIO_COUNT`. The code then indexes
  `Os_TaskReady` one past its end; the model's record update has no such entry and drops the
  write, so no conclusion is drawn about such a call.

### OsSchedSpec

What an application may rely on, without the means the kernel uses: there are no task states, no current
priorities, no lists by current priority, no active task and no order between preempted tasks.
A state says which tasks of each static priority wait to start and in which order (`queue`), which have
started and not ended (`started`), which resources each holds (`held`) and how many of its activations are
not over (`count`). The rule is `Dispatch`: the first task of the highest queue *above* all that has
started, that is above the static priorities of the started tasks and the ceilings of what they hold,
starts; when there is none, nothing does. The task that runs is the one of the highest static priority that has
started. `Get` asks that the resource is free, so a step of the kernel in which GetResource succeeds
on a resource of another task is no step of `OsSchedSpec`.

`OsKernel` implements it (`KeepsSchedule`) under

| In `OsSchedSpec` | In `OsKernel` |
|---|---|
| `queue[p]` | `ToStart`: the ready list of `p` without the preempted task at its head, if there is one |
| `started` | `StartedIn`: the states RUNNING and READY |
| `held[t]` | `HeldIn`: the set of the resources in the stack `os.held[t]` |
| `count[t]`, `Limit[t]` | `ActivationsOf`: `os.activation[t]` and its limit with multiple activation; else 1 unless suspended, and 1 |
| `running`, `up` | whether the active task runs; whether `Os_Start` is over |

A preempted task sits in the list of the priority it has at that moment, which its resources raised, and
is not in `queue` at all: the mapping forgets where the kernel keeps it, and the refinement shows that
it is resumed at the right time all the same. That a chain which fails ends its caller and idles the
processor is what the code does (section 5), and `ChainFails` says so.

### OsAlarm and OsAlarmSpec

`queue[c]` is the array `Os_CounterControls[c].queue` without its length entry. `SinkPath` and
`RisePath` are the indexes the two loops over the heap visit, with the comparisons in the order of the
code; `Shifted` moves the entries along them. `TickLessThan` is `Os_TickLessThan` for a
`TickRange` of any even size: it is not strict, and it is true of two values exactly half the range
apart in both directions. The application does not set an alarm that is queued with an expiry tick of
0 (`Reset = FALSE`), because the code does not refuse it (section 5).

`OsAlarmSpec` says what the alarm services promise: `left[a]` counts down by one at each tick of
the counter of `a`, the tick is over when all that reached zero have expired, a cyclic alarm starts
again with its cycle. `OsAlarm` implements it under

    left[a] = IF queued[a] THEN Wrap(due[a] - ticks[CounterOf[a]]) ELSE Off

which is also what `GetAlarm` returns, so the refinement says that value is right.

### OsReadyList

A list is a record of head, tail and the links of all tasks, which the lists share, with the three
`Os_ReadyList*` functions as operators. `ListOf(ready, p)` is the list whose chain is the sequence
`ready[p]`, `Represents` says that a list and a sequence agree, `Becomes` that a step leaves one
list as given and tears no other. `LinksFollow` is then the refinement step for every operation at
every list the kernel reaches.

### OsSystem

A step is a step of `OsKernel` and one of `OsAlarm` together, or of one while the other rests:
`TickEnter` is `Os_Isr` up to the loop of `Os_AlarmTick`, `ExpireAlarm` one iteration of the loop, in
which the alarm at the head of the heap activates its task or, when it has none, nothing. This decides
what `OsKernel` left open, which alarms expire and when.

### The ports

A port extends `OsArch`, and through it `OsKernel`: each entry into the kernel is one step of
`OsKernel` conjoined with what the port does before and after it. The tasks whose stacks the kernel
had the port prepare on the way (`Os_State_Ready_To_Running`) are read off the states before and after
the step: `PreparedBetween`, and `PreparedByEnd` for the services that end a task, which may dispatch
the one they end. Code with the tick masked runs in one step up to the next point at which something
else may happen; the loop over expired alarms takes one step per alarm, in which the timer may fire.

| Port | In the model | In the code |
|---|---|---|
| all | `os`, `loop`, `boot` | the kernel |
| Posix | `cpu`, `at`, `blocked` | the stack that executes, the point in its code, SIGALRM in the signal mask |
| | `saved[c]` | `Os_Arch_CtxType.ctx`: which stack, at which point, with which mask |
| | `run`, `before` | `Os_Arch_CtxType.run`, the local `ctx_before` |
| | `mask[c]` | the mask a call on stack `c` got from `Os_Arch_SuspendInterrupts` |
| HCS12 | `sp`, `prev` | `Os_Arch_StateType.sp`, `Os_Arch_Ctx_Prev` |
| | `param`, `res` | the same fields: whose call they point to, or answer |
| Fibers | `current`, `alive`, `frames[h]` | the fiber of the main thread, the fibers that exist, the calls open on each |
| | `fiber`, `old` | `Os_Arch_State[].fiber`, `.fiber_old` |
| | `masked`, `pending` | `Os_Arch_Interrupt_Mask`, `Os_Arch_Interrupt_Pending` |
| | `timer` | the timer thread before and behind its exchange of the pending flag |

`entered` and `unsaved` are ghosts: nothing reads them but properties.

*What the models assume of the platforms.* Posix: a blocked signal is pending once, a pending one that
is unblocked is delivered before the code goes on, `makecontext` with the signal unblocked as the
port sets it up, `swapcontext` saves and resumes in one step because the signal is blocked. HCS12: the
I bit is set from reset until `Os_Arch_Start`; the trap stores the frame as an interrupt does; the
flag RTIF is cleared where the handler does, at its end. Both ports prepare the stack of a task that
ends and starts in one call while the code still executes on it: the code that goes on there is above
the frame that was written, and no code returns through it, so this is left out. Fibers:
`SuspendThread` returns with the thread suspended; the memory of a deleted fiber may be given to a new
one, and three names per task are enough for the two that exist at once and a third that would be
lost; deleting the fiber that runs ends its thread, which is why the port must not.

## 3. The runs

Run them in this directory: `tlc -config OsKernelExt.cfg MCOsKernel.tla`.

| Run | Asks | Result |
|---|---|---|
| `kernel_ext` | ECC2 with checks: lists and their links, priorities, nesting of preemption, activation counts, order of start and progress, with every service and argument; is every step one of `OsSchedSpec` | holds |
| `alarm` | does the heap, with wrapping ticks, implement the countdown, and does every tick end | holds |
| `system` | kernel and alarms as one: are all alarms that are due served before a task executes, and is the task of each active then; once all tasks have ended, does an alarm in use always start one again | holds |
| `posix` | ECC2 with checks, resources and an internal resource: are the contexts that calls and handler leave and resume those of the kernel's tasks, are ticks served, and do lists, priorities and counts hold with an internal resource | holds |
| `hcs12` | BCC1 without checks, three nested resources: frames, results of calls, `Os_Arch_Ctx_Prev`; do the ceilings alone give mutual exclusion and single blocking | holds |
| `fibers` | BCC2 with two threads: is no fiber freed that is needed, none lost, the kernel not re-entered, every pending tick served | holds |
| `terminate_other` | with an internal resource, does a service only ever end its caller | violated |
| `chain_limit` | does a ChainTask that fails return to its caller | violated |
| `nesting_std` | mutual exclusion, with resources nested in any documented order and no checks | violated |
| `alarm_late` | four alarms: is none late | violated |
| `alarm_rearm` | can an alarm not in use be set | violated |
| `alarm_endless` | does a tick end, for a cycle of half the range | violated |

The largest run is `system`, with some 670,000 states and a minute and a half.

### Bounds, and why they are enough

* *Four tasks, three priorities, two tasks sharing the middle one* (`kernel_ext`): a list with a
  preempted task, one behind it, one running above and one below is the richest situation the
  algorithm tells apart; the order of two in a list needs a shared priority. One of the two may be
  activated twice, so a counted activation outlives its task's end.
* *Two resources*, one of the ceiling of the middle tasks and `RES_SCHEDULER` with ceiling
  `OS_PRIO_COUNT`, as `test/Os_Test` has: the boundary past the last list. `hcs12` has *three
  resources and four priorities*, so that stacks of three ceilings are built and undone.
* *Alarms activate two or three of the tasks*, at any point: those above every critical section and
  those equal to the running one.
* *A tick range of 8 with three alarms*: counters wrap every eight ticks, alarms are set 0, 1 and 3
  ahead and cycle by 2, so entries on both sides of the wrap are in the queue together. Three entries
  are the largest heap on which the code is right: with four (`alarm_late`) it is not.
* *Three tasks, two alarms, a range of 6* (`system`): an alarm for each of two tasks above an
  autostarted one, one single and one cyclic with a cycle below half the range, both on the system
  counter: either may wake the system, also across the wrap, or both at one tick. There are no
  resources: they do not decide whether the system sleeps.
* *Three tasks* (`posix`, `fibers`): one that is left, one that is resumed, and a third that is
  activated and preempts in the same entry; one has two activations, so that it ends and is dispatched
  again inside one call. `fibers` has two tasks of one priority, so that the fiber of a task waits for
  its deletion while another one runs. `hcs12` has four, so that several calls wait for their results.
* *Frames* (`fibers`): with `FrameLimit = 2` the timer thread injects into a stack that has up to two
  calls open, so a tick interrupts a task, a call that returns, and the tick before it. The code has
  no such limit: with ticks fast enough the stack grows, which is listed as a hazard and not covered.
* Nothing else is bounded: activation counts are bounded by the limits of the configuration, ticks
  wrap, and stacks are bounded because a resource is taken once.

### Fairness

`kernel_ext` assumes that `Os_Init` and `Os_Start` go on (they wait for nothing), that the timer
interrupt comes again while the system is up (the ports start a periodic timer and never stop it) and
that a tick handler that was entered returns. `IdleEnds` rests on the tick alone. `alarm` and
`alarm_endless` assume that the loop of `Os_AlarmTick` goes on. `system` makes both assumptions.
`posix` derives the tick from the port: the interval timer fires for ever, a pending signal that is
not blocked is delivered, and the code between two steps of a task goes on; no action of the kernel
is assumed fair by itself once the system is up. `fibers` assumes that both threads go on and not that
the timer fires again: a pending tick is served even if it is the last one. It rests on no assumption
on the alarm loop of the handler but that it ends. `hcs12` checks safety only. Nothing is assumed of
the application anywhere: a task may run for ever, and may never call a service.

## 4. What is proved

### The scheduler

`OsKernelProofs` (`tlapm OsKernelProofs.tla`) proves of `Spec`, for every number of tasks, resources
and priorities, every table, both classes and both
values of `OS_ERROR_EXT_ENABLE`:

| Theorem | Property |
|---|---|
| `TypesCorrect` | `TypeOK` |
| `ReadyListsCorrect` | `ReadyConsistent` |
| `RunningTaskIsHighest` | `RunningIsHighest` |
| `PreemptionIsNested` | `PreemptionNested` |
| `PreemptedTaskIsNext` | `PreemptedIsNext` |
| `PriorityFollowsResources` | `PriorityMatchesHeld` |
| `ActivationsMatchStates` | `ActivationMatchesState` |
| `ResourcesExclude` | `MutualExclusion` |
| `CeilingsPreventContention` | `CeilingPreventsContention` |
| `BlockingIsSingle` | `SingleBlocking` |
| `TasksStartInOrder` | `FifoOrder` |
| `StepsEndOnlyTheCaller` | `OnlyCallerEnds` |

*Assumptions.* The four named assumptions on the constants in `OsKernel`, which say that the tables
have the types of `Os_ConfigType` and that the identifiers fit their 8 bits; and one of two on the
application, both with `Liberties` empty:

* `Orderly` allows internal resources, with one exception: a task that may be activated several times does
  not have an internal resource whose ceiling is above its static priority. Types, lists, `RunningIsHighest`, the two
  properties of preemption and the counts are proved under it. Without the exception the lists are
  wrong (`Os.c:972` in section 5).
* `Sound` allows none. `PriorityFollowsResources`, `ResourcesExclude`, `CeilingsPreventContention`,
  `BlockingIsSingle`, `TasksStartInOrder`, `StepsEndOnlyTheCaller` and `KernelKeepsSchedule` assume it.
  For most of these it is needed: on the table of `terminate_other` TLC finds `OnlyCallerEnds`,
  `FifoOrder`, `PriorityMatchesHeld` and `CeilingPreventsContention` violated. `MutualExclusion` and
  `SingleBlocking` hold on that table, and nothing more is known of them with internal resources.

That `Liberties` must be empty is shown by `nesting_std`.

*The argument.* None of the properties is inductive, and none holds inside a service, where a
priority has changed and the scheduler has not run. The invariant `IInv` therefore has two layers:

* `Core(k)` holds of the globals wherever a procedure calls `Os_Schedule_Internal`. Besides types,
  lists (`Lists`) and priorities it has the two facts that carry everything:
  `Nested`, of two started tasks one is at a priority below
  the *static* priority of the other; and `Heads`, a preempted task is at the head of its list. The
  two support each other: started tasks are at different priorities (`StartedApart`), so a task that
  is pushed in front of a list pushes no other preempted one back; and whoever is dispatched is
  either preempted, or its static priority is above that of every started task, because those would
  otherwise be in front of it (`DispatchCore`). Of priorities it says, with internal resources, that
  a task is at its static priority or holds something and is above it (`Raised`); that is all the lists
  need. Without internal resources it says that the priority is the ceiling of the resource taken
  last, and that the ceilings are sorted along each stack (`Strict`).
* `Highest(k)`, no list above the running task is filled, holds again when
  `Os_Schedule_Internal` returns (`ScheduleCore`), and `Counted(k)`, which relates activation
  counts and states, when a service returns.

A service that takes an internal resource does so for whatever task `Os_ActiveTask` names after it has
rescheduled, and that task may run, have ended, or wait for its next activation (`Settled`). In the first
case the priority of a running task rises, which `Highest` survives; in the second that of a task in no
list. Only in the third does a list depend on it, and there `Orderly` says the priority stays the
same (`InternalGetServed`).

There is a lemma for each procedure (`ReadyCore`, `SuspendCore`, `GetCore`, `UnlockedCore`,
`EndedCore`, `ActivatedCore`), one for each action (`...Inv`), and `NextInv` puts them together.
Mutual exclusion, freedom from contention and single blocking then follow from `Nested` and the
ceilings in a few lines each: a holder's current priority is at least the ceiling, its static priority
at most (`HolderBounds`), so two holders cannot be nested.

`TasksStartInOrder` and `StepsEndOnlyTheCaller` are about steps. Every service first appends tasks to lists, perhaps after its
caller has ended, and then lets `Os_Schedule_Internal` take one head or put the preempted task in front
(`Reordered`). In each of the three cases what was in the list keeps its order, because the list has no
repetition (`GrownOrdered`, `TakenOrdered`, `PushedOrdered`). `OnlyCallerEnds` is also the property
that `terminate_other` finds violated with an internal resource: the theorem says that nothing else
in an application that keeps the rules does.

### The alarms

`OsAlarmProofs` proves of `Spec` of `OsAlarm`, for any number of alarms and counters, any tables and any
even `TickRange`:

| Theorem | Property | Assumes |
|---|---|---|
| `FlagsMatchQueues` | `QueueMatchesFlags` | `~Reset` |
| `AlarmsAreOnTime` | `AlarmsOnTime` | `~Reset`, `AtMostThree`, `SetNear` |
| `AlarmsKeepPromise` | `KeepsPromise` | the same |

*Assumptions.* `AlarmAssumption` of `OsAlarm`: the tables have the types of `Os_AlarmConfigType`.
`~Reset`: the application does not set an alarm that is queued with an expiry tick of 0, which the code
does not refuse (section 5). `AtMostThree`: a counter drives at most three alarms. `SetNear`:
applications pass increments, cycles and starts less than half the range ahead, and no absolute start that
is the present tick. None can be dropped: with `Reset` the flags fail, with four alarms `alarm_late`, with a
cycle of half the range `alarm_endless` is the counterexample.

*The argument.*

* *The paths.* The way an alarm takes through the heap is a recursive function. That it has a value
  for every heap, and that the value is a path without repetition from the entry where the loop begins to
  one where it stops, is shown by taking the least number for which it fails (`LeastNatural`,
  `RiseExists`, `SinkExists`).
* *The heap as a set.* Moving entries along such a path permutes them (`ShiftedPermutes`), so
  `Os_AlarmAdd` adds exactly its alarm and `Removed`, the end of both `Os_AlarmPop` and CancelAlarm, takes
  off exactly the one at its index, for
  heaps of any size (`AddMembers`, `RemovedMembers`). With that `QInv` is inductive: the lists are
  without repetition and hold the alarms whose flags are set.
* *Time that wraps.* `Lead(d, t)` is how far tick `d` is ahead of `t`. Among ticks less than half the
  range ahead `Os_TickLessThan` orders by lead (`TickOrder`), and each tick of the counter takes one from
  every lead, so that order does not change as the counter goes on (`LeadShrinks`).
* *The heap as an order.* `Os_AlarmAdd` keeps it ordered at any size (`AddOrdered`);
  `Removed` does so for three alarms, where the entry that sinks never has to choose between two
  children (`RemoveOrdered`). Then the head is due first (`FirstIsEarliest`), and a loop that looks at
  heads only has served all that is due when it stops (`NoneReached`, `ServedAtItsTick`).
* `TInv` adds to `QInv` that every queued alarm is less than half the range ahead, and reached only in the
  loop (`Near`), that the heaps are in order (`Heaps`), and the bound on the cycles in use.
* *The refinement.* Under `left` as given in section 2 each action is the action of `OsAlarmSpec` of
  its name, or changes no countdown (`PromisedSteps`, `StepPromised`).

### Kernel and alarms together

`OsSystemProofs` shows of `SystemSpec`, where tasks and ticks drive the alarms and the alarms activate
tasks:

| Theorem | Property | Assumes |
|---|---|---|
| `SystemRunsAlarms` | implements `Spec` of `OsAlarm` | |
| `SystemRunsKernel` | implements `Spec` of `OsKernel` | `~Reset` |
| `TasksFindAlarmsServed` | `NoAlarmOverdue` | `~Reset`, `AtMostThree`, `SetNear` |
| `ExpiriesReachTheirTasks` | `ExpiredTaskIsReady` | `~Reset`, `Orderly` |

The second needs the invariant of the alarms: only because the head of a heap is an alarm of its table is
the task that the loop activates one of `AlarmTasks` (`ExpiredAlarm`). With the two, every theorem about
the scheduler and about the alarms holds of the system. `TasksFindAlarmsServed` adds that the kernel is in the
loop of `Os_AlarmTick` exactly while a counter is served (`LoopsAgree`). `ExpiriesReachTheirTasks` uses
both invariants: an activation that fails, whose status nobody looks at, finds the task at its
limit, and a task at its limit is active because activation counts and states agree (`Counted`).

### The schedule

`KernelKeepsSchedule` in `OsRefinementProofs` proves, under `Sound`, that `Spec` implements `OsSchedSpec`: initial
states map to initial states and every step, autostart, start-up, each service in each of its outcomes and
each part of a tick, to a step of the abstract scheduler or to none.

*The argument.*

* *When a priority is open.* `Dispatch` asks for a priority above all static priorities and ceilings of
  the started tasks, the kernel compares current priorities. By `Strict` the two are the same
  (`AbovePriorities`): the current priority of a task is its static one or a ceiling it holds, and not below
  any of these.
* *One dispatch.* `SchedulePromised`: from any `Core` state `Os_Schedule_Internal` makes the choice of
  `Dispatch`. When it pops a preempted task, no priority is open, since whatever waits is not above that
  task; when it pops one that has not started, that is the first of the highest open queue; when it leaves
  the running task alone, no queue is open above it.
* *The rest of a service* is stated on the four mapped values: what activating, ending, preempting and
  queueing a task does to them (`ReadiedView`, `PreemptedView`, `GoneView`, `EndedView`, `ActivatedView`). A task
  that is preempted goes back to the head of its list and so leaves `queue` as it is.
* There is one lemma for each action (`...Step`), which composes the two.
* `held` is a set in `OsSchedSpec` and a stack in the kernel. That releasing takes one resource off both
  needs that no stack has a resource twice, which is not part of `IInv`: without the checks it is a rule for
  the application, with them it follows from the owner that the kernel stores. `Owned` says so, and is
  an invariant on top of `IInv`.

### The links of the ready lists

`OsRefinementProofs` also proves `PushHeadCorrect`, `PushTailCorrect` and `PopHeadCorrect`: on any list
that represents a sequence without repetition each `Os_ReadyList*` function does what the sequence
operation says, for lists of any length, provided a task that is pushed is in no list; links of tasks
outside the list, other than the one pushed or popped, keep their value. `LinksFollowLists` is the
invariant `LinksFollow` of the kernel under `Orderly`: it uses `Invariance` for the one
fact the code relies on and never tests, that the lists are disjoint and without repetition (`Lists`
of `Core`). It is what allows sequences in `OsKernel`.

### The ports

For each port, on any number of tasks, with any tables, wherever the tick comes and (Fibers) however deep
ticks are injected into one another:

| Port | Theorem | Property |
|---|---|---|
| Posix | `CurrentRuns`, `PreemptedCanResume`, `ActivationsBeginAtEntry` | `RunsCurrent`, `CanResume`, `BeginsAtEntry` |
| HCS12 | `CurrentRuns`, `PreemptedCanResume`, `ActivationsBeginAtEntry`, `CallsAreOwn` | the same, `CallIsOwn` |
| Fibers | `LiveFiberRuns`, `FibersAreKept`, `KernelIsNotReentered`, `ActivationsBeginAtEntry`, `TicksAreNotStranded` | `RunsLiveFiber`, `NoFiberLost`, `KernelNotReentered`, `BeginsAtEntry`, `TickNotStranded` |

All of them assume `Orderly`, so internal resources are included. They rest on the kernel's invariant: `PosixRunsKernel`,
`HCS12RunsKernel` and `FibersRunKernel` show that a behaviour of the port is one of `Spec`, whence
`[]IInv` by `Invariance` of `OsKernelProofs`, and with it all theorems about the scheduler hold under
the port. From `IInv` the ports need that a task is prepared exactly when it becomes started
(`PreparedFollows`, `EndFollows`), and that no step of the loop over expired
alarms takes a started task back (`LoopKeepsStarted`).

*The arguments.* In each port the invariant says what is true of contexts that are asleep, and one lemma
about the switch (`SwitchInv`, `RestoreInv`) carries it through every entry.

* Posix: a saved context is on its own stack and waits in front of its entry exactly when its activation
  has not run (`Fit`); the `run` flag of the context that executes is set, so the switch skips the save
  exactly when the kernel prepared that context anew, and nothing is left unsaved. In the loop over
  alarms this needs that the task that was interrupted stays started: otherwise an alarm could have its
  context prepared, and the switch at the end of the handler would not save it.
* HCS12: a stored frame is one of its own stack at all times, up to date while another context runs, and
  for the running one in the loop over alarms (`Asleep`). A call whose frame was stored has its
  parameters; its result is there unless it is in that loop itself, where it is still to be written.
* Fibers: a fiber that does not run waits behind its switch, or in front of its entry function, so that the
  mask is closed wherever fibers change and only the top frame of the fiber that runs may be in the
  kernel (`Resumable`, `AtWork`). `Os_Arch_PrepareState` deletes the fiber that was put aside before and
  never the one that runs (`Existing`).

### Only model-checked

Liveness (`IdleEnds`, `TickEnds`, `TickServed`, `SleepEnds`), which is out of the prover's reach;
with internal resources, mutual
exclusion and single blocking (they hold on the instance described above), and everything about the
configurations that `Orderly` excepts.

## 5. Divergences found

Each is a run that TLC ends with a counterexample; `PROJECT.json` quotes the texts.

1. `Os.c:958` A task that holds its internal resource calls TerminateTask; the release dispatches
   another task, and `Os_TerminateTask_Internal` ends that one.
2. `Os.c:570` ChainTask ends its caller before it finds that the limit is reached; the processor idles
   until the next tick.
3. `Os.c:651` Without checks, taking a resource of a lower ceiling inside one of a higher ceiling lowers
   the priority: the outer section is no longer protected.
4. `Os.c:156` The heap swaps with the first child that is not later: with four alarms one can be late.
5. `Os.c:753` An alarm can be set only once: its expiry tick, never cleared, is read as "in use".
6. `Os.c:200` A cycle of half the range makes the loop of the tick interrupt endless.

Observed in the models and not run on their own:

* `Os.c:472` A tick after `Os_Shutdown` dispatches the caller again. `StaysDown` of `OsKernel` says it
  does not; it is false of `Spec` with the liberty `"shutdown"`.
* `Os.c:810` An alarm in use whose expiry tick is 0 is added to the queue again (with `Reset = TRUE`
  `QueueMatchesFlags` is violated): the same cause as 5.
* `Os.c:312` After a task with an internal resource ends and nothing else is ready, the resource is
  taken for the suspended task; the run `posix` reaches such states. A task dispatched by the tick has
  not got its internal resource, although the comment of `Os_TaskInternalResource_Get` says it "will
  make sure the task holds that resource".
* `Os.c:972` A task with two activations and an internal resource calls ChainTask, which fails with
  E_OS_LIMIT after the caller was put back in its ready list. `Os_TaskInternalResource_Get` then raises the
  priority of the task that waits, so its list is no longer the one of its priority, and
  `Os_State_Ready_To_Running` would pop another (the assertion `task2 == task` of `Os.c:390`). `ReadyConsistent` is
  violated with tasks 0 and 1 sharing an internal resource of ceiling 2 and `TaskLimit[1] = 2`.
  `Orderly` excludes this.
* `Os.c:642` GetResource with checks compares the *current* priority with the ceiling where the comment
  speaks of the statically assigned one.
* `Os.c:793-796` An absolute alarm whose start lies less than half the range behind the counter expires
  at the next tick, where the text says after the next overrun.

## 6. Not modelled

* `Os_Error` and the hooks: written on error paths and read by callbacks of the application only.
* `GetTaskState`, which changes nothing; `Os_Arch_Deinit`, which runs before the system starts, when
  there is nothing for it to free.
* Events, and tasks of the extended classes that wait: the code has no such service.
* The UMS port: its tick handler and the injection are inside `#if(0)`, the scheduler callback executes
  threads in the order of the completion list and never looks at the task the kernel chose, and
  `Os_Arch_Syscall` returns a variable nothing assigns. There is no behaviour to be faithful to.
* The bytes of stacks and frames, the assembly that stores and restores registers, and how deep a
  stack may become.
* Test programs and build files. The tables of the tests are where the bounds come from.

## 7. Plan

Done: the scheduler with its proofs, above it the abstract scheduler it implements and below it the
links of its lists; alarms refined to countdowns, with proofs; kernel and alarms as one system; three
ports with their proofs; internal resources in the invariant of the kernel and of the ports. What would come
next:

1. Mutual exclusion and single blocking with internal resources: what a task that runs at the ceiling of
   an internal resource may take, and which task holds it.
2. `OsSystem` against one abstract specification: the tasks of `OsSchedSpec` activated by the countdowns
   of `OsAlarmSpec`.
3. The alarms composed with a port, so that ticks lost by the timer of a port and alarms meet.
