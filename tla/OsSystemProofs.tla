---------------------------- MODULE OsSystemProofs ----------------------------
(***************************************************************************)
(* Proofs about OsSystem: what is proved of the kernel and of the alarms   *)
(* on their own holds of the two together.                                 *)
(***************************************************************************)
EXTENDS OsSystem, OsKernelProofs

AlarmProofs == INSTANCE OsAlarmProofs

-------------------------------------------------------------------------------
\* Alarms and AlarmProofs are one module under two names.
LEMMA SameAlarms ==
  /\ Alarms!Init = AlarmProofs!Init
  /\ Alarms!Next = AlarmProofs!Next
  /\ Alarms!AlarmTick = AlarmProofs!AlarmTick
  /\ Alarms!Alarm = AlarmProofs!Alarm
  /\ Alarms!QueueMatchesFlags = AlarmProofs!QueueMatchesFlags
  /\ Alarms!AlarmsOnTime = AlarmProofs!AlarmsOnTime
BY Zenon DEF
     Alarms!Alarm, Alarms!Counter, Alarms!Tick, Alarms!NONE, Alarms!Half, Alarms!Wrap,
      Alarms!TickLessThan, Alarms!Shifted, Alarms!RisePath, Alarms!SinkPath,
      Alarms!AlarmHeapify, Alarms!AlarmAdd, Alarms!Removed, Alarms!Init, Alarms!Calling,
      Alarms!Returns, Alarms!Started, Alarms!MaySet, Alarms!SetRelAlarm,
      Alarms!SetAbsAlarm, Alarms!Index, Alarms!CancelAlarm, Alarms!GetAlarm,
      Alarms!IncrementCounter, Alarms!Expired, Alarms!NextDue, Alarms!AlarmTick,
      Alarms!TickDone, Alarms!Next, Alarms!vars, Alarms!QueueMatchesFlags,
      Alarms!AlarmsOnTime,
      AlarmProofs!Alarm, AlarmProofs!Counter, AlarmProofs!Tick, AlarmProofs!NONE,
      AlarmProofs!Half, AlarmProofs!Wrap, AlarmProofs!TickLessThan, AlarmProofs!Shifted,
      AlarmProofs!RisePath, AlarmProofs!SinkPath, AlarmProofs!AlarmHeapify,
      AlarmProofs!AlarmAdd, AlarmProofs!Removed, AlarmProofs!Init, AlarmProofs!Calling,
      AlarmProofs!Returns, AlarmProofs!Started, AlarmProofs!MaySet,
      AlarmProofs!SetRelAlarm, AlarmProofs!SetAbsAlarm, AlarmProofs!Index,
      AlarmProofs!CancelAlarm, AlarmProofs!GetAlarm, AlarmProofs!IncrementCounter,
      AlarmProofs!Expired, AlarmProofs!NextDue, AlarmProofs!AlarmTick,
      AlarmProofs!TickDone, AlarmProofs!Next, AlarmProofs!vars,
      AlarmProofs!QueueMatchesFlags, AlarmProofs!AlarmsOnTime

\* The two assumptions on the tables of alarms are one.
LEMMA AlarmTables == AlarmProofs!AlarmAssumption
BY AlarmTableAssumption, Zenon
   DEF Alarms!AlarmAssumption, AlarmProofs!AlarmAssumption, Alarms!Alarm, AlarmProofs!Alarm,
       Alarms!Counter, AlarmProofs!Counter, Alarms!Tick, AlarmProofs!Tick

-------------------------------------------------------------------------------
(* The steps of the system *)

\* To the alarms, a step of the system is one of theirs or none.
LEMMA AlarmSteps == [SystemNext]_allVars => [Alarms!Next]_(Alarms!vars)
<1> SUFFICES ASSUME [SystemNext]_allVars PROVE [Alarms!Next]_(Alarms!vars)
  OBVIOUS
<1>1. ASSUME UNCHANGED alarmVars PROVE UNCHANGED Alarms!vars
  BY <1>1 DEF alarmVars, Alarms!vars
<1>2. CASE Boot \/ KernelService \/ UNCHANGED allVars
  BY <1>1, <1>2 DEF Boot, KernelService, allVars
<1>3. CASE AlarmStep
  <2>1. PICK a \in Alarms!Alarm :
          \/ \E n \in Cycle[a] :
               \/ \E increment \in Increment : Alarms!SetRelAlarm(a, increment, n)
               \/ \E ahead \in Ahead :
                    Alarms!SetAbsAlarm(a, Alarms!Wrap(ticks[CounterOf[a]] + ahead), n)
          \/ Alarms!CancelAlarm(a)
    BY <1>3, Zenon DEF AlarmStep
  <2>2. a \in 0 .. AlarmCount
    BY AlarmTableAssumption DEF Alarms!AlarmAssumption, Alarms!Alarm
  <2> QED
    BY <2>1, <2>2, Zenon DEF Alarms!Next
<1>4. CASE TickEnter
  <2>1. 0 \in 0 .. CounterCount
    BY AlarmTableAssumption DEF Alarms!AlarmAssumption
  <2> QED
    BY <1>4, <2>1, Zenon DEF TickEnter, Alarms!Next
<1>5. CASE CountEnter
  <2>1. PICK c \in Alarms!Counter : Alarms!IncrementCounter(c)
    BY <1>5 DEF CountEnter
  <2>2. c \in 0 .. CounterCount
    BY AlarmTableAssumption DEF Alarms!AlarmAssumption, Alarms!Counter
  <2> QED
    BY <2>1, <2>2, Zenon DEF Alarms!Next
<1>6. CASE ExpireAlarm \/ TickExit
  BY <1>6, Zenon DEF ExpireAlarm, TickExit, Alarms!Next
<1> QED
  BY <1>2, <1>3, <1>4, <1>5, <1>6 DEF SystemNext

\* The alarm that expires is in the table, so that its task is one of AlarmTasks.
LEMMA ExpiredAlarm ==
  ASSUME AlarmProofs!QInv, Alarms!AlarmTick, NEW a, a = Head(queue[ticking])
  PROVE  a \in Alarms!Alarm /\ AlarmTask[a] \in AlarmTasks \cup {INVALID}
<1>1. AlarmProofs!AlarmTick
  BY SameAlarms
<1>2. a \in AlarmProofs!Alarm
  BY <1>1, AlarmTables, AlarmProofs!HeadServed
<1>3. a \in Alarms!Alarm
  BY <1>2, SameAlarms
<1> QED
  BY <1>3, AlarmTaskAssumption

\* To the kernel, a step of the system is one of its own or none.
LEMMA TaskSteps == AlarmProofs!QInv /\ [SystemNext]_allVars => [Next]_vars
<1> SUFFICES ASSUME AlarmProofs!QInv, [SystemNext]_allVars PROVE [Next]_vars
  OBVIOUS
<1>1. CASE Boot
  BY <1>1 DEF Boot, Next
<1>2. CASE KernelService
  BY <1>2 DEF KernelService, Next
<1>3. CASE AlarmStep \/ UNCHANGED allVars
  BY <1>3 DEF AlarmStep, allVars
<1>4. CASE TickEnter \/ CountEnter \/ TickExit
  BY <1>4 DEF TickEnter, CountEnter, TickExit, Next
<1>5. CASE ExpireAlarm
  <2> DEFINE t == AlarmTask[Head(queue[ticking])]
  <2>1. t \in AlarmTasks \cup {INVALID}
    BY <1>5, ExpiredAlarm DEF ExpireAlarm
  <2>2. IF t = INVALID THEN UNCHANGED vars ELSE Expire(t)
    BY <1>5 DEF ExpireAlarm
  <2> HIDE DEF t
  <2> QED
    BY <2>1, <2>2 DEF Next
<1> QED
  BY <1>1, <1>2, <1>3, <1>4, <1>5 DEF SystemNext

-------------------------------------------------------------------------------
(* The theorems *)

\* Whatever the tasks do, the alarms in the system make the steps of OsAlarm.
THEOREM SystemRunsAlarms == SystemSpec => Alarms!Spec
<1>1. SystemInit => Alarms!Init
  BY DEF SystemInit
<1>2. [SystemNext]_allVars => [Alarms!Next]_(Alarms!vars)
  BY AlarmSteps
<1> QED
  BY <1>1, <1>2, PTL DEF SystemSpec, Alarms!Spec

LEMMA SystemQueues ==
  ASSUME ~Reset
  PROVE  SystemSpec => []AlarmProofs!QInv
<1>1. Alarms!Init => AlarmProofs!Init
  BY SameAlarms
<1>2. [Alarms!Next]_(Alarms!vars) => [AlarmProofs!Next]_(AlarmProofs!vars)
  BY SameAlarms DEF Alarms!vars, AlarmProofs!vars
<1>3. AlarmProofs!Spec => []AlarmProofs!QInv
  BY AlarmTables, AlarmProofs!QInvariance, PTL DEF AlarmProofs!AlarmAssumption
<1> QED
  BY <1>1, <1>2, <1>3, SystemRunsAlarms, PTL DEF Alarms!Spec, AlarmProofs!Spec

\* Whatever the alarms do, the kernel in the system makes the steps of OsKernel: the
\* loop of Os_AlarmTick activates tasks of the table only.
THEOREM SystemRunsKernel ==
  ASSUME ~Reset
  PROVE  SystemSpec => Spec
<1>1. SystemInit => Init
  BY DEF SystemInit
<1>2. AlarmProofs!QInv /\ [SystemNext]_allVars => [Next]_vars
  BY TaskSteps
<1> QED
  BY <1>1, <1>2, SystemQueues, PTL DEF SystemSpec, Spec

\* The kernel is in the loop of Os_AlarmTick exactly while a counter is being served.
LoopsAgree == loop = "none" <=> ticking = Alarms!NONE

LEMMA SystemLoops == SystemSpec => []LoopsAgree
<1>1. SystemInit => LoopsAgree
  BY DEF SystemInit, Init, Alarms!Init, LoopsAgree
<1>2. LoopsAgree /\ [SystemNext]_allVars => LoopsAgree'
  <2> SUFFICES ASSUME LoopsAgree, [SystemNext]_allVars PROVE LoopsAgree'
    OBVIOUS
  <2>1. CASE Boot \/ KernelService
    <3>1. loop' = loop
      BY <2>1 DEF Boot, Autostart, Start, KernelService, Schedule, TerminateTask, Shutdown,
           ChainTask, ActivateTask, GetResource, ReleaseResource, Service
    <3> QED
      BY <2>1, <3>1 DEF Boot, KernelService, alarmVars, LoopsAgree, Alarms!NONE
  <2>2. CASE AlarmStep
    <3>1. loop' = loop /\ ticking' = ticking
      BY <2>2 DEF AlarmStep, vars, Alarms!SetRelAlarm, Alarms!SetAbsAlarm, Alarms!CancelAlarm,
           Alarms!Returns, Alarms!Started
    <3> QED
      BY <3>1 DEF LoopsAgree, Alarms!NONE
  <2>3. CASE TickEnter \/ CountEnter
    <3>1. loop' \in {"isr", "call"}
      BY <2>3 DEF TickEnter, CountEnter, IsrEnter, IncrementCounter
    <3>2. \E c \in Alarms!Counter : Alarms!IncrementCounter(c)
      <4>1. 0 \in Alarms!Counter
        BY AlarmTableAssumption DEF Alarms!AlarmAssumption, Alarms!Counter
      <4> QED
        BY <2>3, <4>1 DEF TickEnter, CountEnter
    <3>3. ticking' \in Alarms!Counter
      BY <3>2 DEF Alarms!IncrementCounter
    <3> QED
      BY <3>1, <3>3 DEF LoopsAgree, Alarms!NONE, Alarms!Counter
  <2>4. CASE ExpireAlarm
    <3>1. loop' = loop /\ ticking' = ticking
      BY <2>4 DEF ExpireAlarm, Expire, Service, vars, Alarms!AlarmTick
    <3> QED
      BY <3>1 DEF LoopsAgree, Alarms!NONE
  <2>5. CASE TickExit
    <3>1. loop' = "none" /\ ticking' = Alarms!NONE
      BY <2>5 DEF TickExit, IsrExit, IncrementReturn, Alarms!TickDone, Alarms!NONE
    <3> QED
      BY <3>1 DEF LoopsAgree, Alarms!NONE
  <2>6. CASE UNCHANGED allVars
    BY <2>6 DEF allVars, vars, alarmVars, LoopsAgree, Alarms!NONE
  <2> QED
    BY <2>1, <2>2, <2>3, <2>4, <2>5, <2>6 DEF SystemNext
<1> QED
  BY <1>1, <1>2, PTL DEF SystemSpec

\* No task runs past an alarm, with at most three alarms to a counter that are set less
\* than half the range of the ticks ahead.
THEOREM TasksFindAlarmsServed ==
  ASSUME ~Reset, AlarmProofs!AtMostThree, AlarmProofs!SetNear
  PROVE  SystemSpec => []NoAlarmOverdue
<1>1. Alarms!Init => AlarmProofs!Init
  BY SameAlarms
<1>2. [Alarms!Next]_(Alarms!vars) => [AlarmProofs!Next]_(AlarmProofs!vars)
  BY SameAlarms DEF Alarms!vars, AlarmProofs!vars
<1>3. AlarmProofs!Spec => []AlarmProofs!AlarmsOnTime
  BY AlarmTables, AlarmProofs!AlarmsAreOnTime, PTL DEF AlarmProofs!AlarmAssumption
<1>4. AlarmProofs!AlarmsOnTime /\ LoopsAgree => NoAlarmOverdue
  BY SameAlarms DEF Alarms!AlarmsOnTime, LoopsAgree, NoAlarmOverdue
<1> QED
  BY <1>1, <1>2, <1>3, <1>4, SystemRunsAlarms, SystemLoops, PTL
     DEF Alarms!Spec, AlarmProofs!Spec

\* What is proved of the kernel holds of the system.
LEMMA SystemInvariance ==
  ASSUME Orderly, ~Reset
  PROVE  SystemSpec => []IInv
BY SystemRunsKernel, Invariance, PTL

\* What an activation by an alarm leaves.
LEMMA ExpireReadies ==
  ASSUME Orderly, IInv, NEW t \in Task, Expire(t)
  PROVE  os'.state[t] # "SUSPENDED"
<1>1. Core(os) /\ Counted(os) /\ os \in KernelType
  BY DEF IInv, KInv, Core
<1>2. os' = ActivateTask_Internal(os, t) /\ MayActivate(t)
  BY DEF Expire, Service
<1>3. CASE ActivateError(os, t) # "E_OK"
  <2>1. os'.state = os.state
    BY <1>1, <1>2, <1>3 DEF ActivateTask_Internal, Fail, KernelType
  <2>2. AtLimit(os, t)
    BY <1>3 DEF ActivateError
  <2>3. CASE MultipleActivation
    <3>1. os.activation[t] >= TaskLimit[t] /\ TaskLimit[t] \in 1 .. 255
      BY <2>2, <2>3, ConfigAssumption DEF AtLimit
    <3>2. os.activation[t] # 0
      BY <3>1
    <3> QED
      BY <1>1, <2>1, <2>3, <3>2 DEF Counted
  <2>4. CASE ~MultipleActivation
    BY <2>1, <2>2, <2>4 DEF AtLimit
  <2> QED
    BY <2>3, <2>4
<1>4. CASE ActivateError(os, t) = "E_OK"
  <2>1. os' = Schedule_Internal(Activated(os, t))
    BY <1>2, <1>4 DEF ActivateTask_Internal
  <2>2. ~AtLimit(os, t)
    BY <1>2, <1>4, BuildAssumption DEF ActivateError, AtLimit, MayActivate, Orderly
  <2>3. Core(Activated(os, t)) /\ Activated(os, t).state[t] # "SUSPENDED"
    BY <1>1, <2>2, ActivatedCore
  <2> QED
    BY <2>1, <2>3, ScheduleCore
<1> QED
  BY <1>3, <1>4

\* The task of an alarm that expires is not left suspended: an activation that fails finds
\* the task at its limit, and thus active.
THEOREM ExpiriesReachTheirTasks ==
  ASSUME Orderly, ~Reset
  PROVE  SystemSpec => ExpiredTaskIsReady
<1> DEFINE A == \A a \in Alarms!Alarm :
                  Alarms!AlarmTick /\ a = Head(queue[ticking]) /\ AlarmTask[a] # INVALID
                  => os'.state[AlarmTask[a]] # "SUSPENDED"
<1>1. IInv /\ AlarmProofs!QInv /\ LoopsAgree /\ [SystemNext]_allVars => [A]_allVars
  <2> SUFFICES ASSUME IInv, AlarmProofs!QInv, LoopsAgree, SystemNext,
                      NEW a \in Alarms!Alarm, Alarms!AlarmTick, a = Head(queue[ticking]),
                      AlarmTask[a] # INVALID
               PROVE  os'.state[AlarmTask[a]] # "SUSPENDED"
    OBVIOUS
  <2>1. AlarmTask[a] \in AlarmTasks /\ AlarmTask[a] \in Task
    BY ExpiredAlarm, ConfigAssumption
  <2>2. Expire(AlarmTask[a])
    <3>1. ticking # Alarms!NONE /\ loop # "none"
      BY DEF Alarms!AlarmTick, LoopsAgree
    <3>2. boot > TaskCount /\ boot \in Int /\ TaskCount \in Int
      BY <3>1, CountsAssumption DEF IInv
    <3>3. ~Boot
      BY <3>2 DEF Boot, Autostart, Start
    <3>4. ~KernelService /\ ~AlarmStep
      BY <3>1 DEF KernelService, Schedule, TerminateTask, Shutdown, ChainTask, ActivateTask,
           GetResource, ReleaseResource, AlarmStep, Calling, Up
    <3>5. ~TickEnter /\ ~CountEnter
      BY <3>1 DEF TickEnter, CountEnter, IsrEnter, IncrementCounter, Calling, Up
    <3>6. ~TickExit
      BY DEF TickExit, Alarms!TickDone, Alarms!AlarmTick
    <3>7. ExpireAlarm
      BY <3>3, <3>4, <3>5, <3>6 DEF SystemNext
    <3> QED
      BY <3>7 DEF ExpireAlarm
  <2> QED
    BY <2>1, <2>2, ExpireReadies
<1> QED
  BY <1>1, SystemInvariance, SystemQueues, SystemLoops, PTL DEF SystemSpec, ExpiredTaskIsReady
===============================================================================
