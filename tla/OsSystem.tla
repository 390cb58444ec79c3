------------------------------- MODULE OsSystem -------------------------------
(***************************************************************************)
(* The kernel of OsKernel together with the alarms and counters of         *)
(* OsAlarm: tasks set and cancel alarms, the tick interrupt and            *)
(* Os_IncrementCounter expire them, and each expired alarm activates its   *)
(* task.  A step is a step of both parts, or of one while the other rests. *)
(***************************************************************************)
EXTENDS OsKernel

CONSTANTS
  AlarmCount, CounterCount, CounterOf, TickRange, Increment, Ahead, Cycle, Reset,
  AlarmTask      \* Os_AlarmConfigs[].task

VARIABLES ticks, queue, due, cycle, queued, ticking, status

Alarms == INSTANCE OsAlarm

alarmVars == <<ticks, queue, due, cycle, queued, ticking, status>>
allVars   == <<vars, alarmVars>>

ASSUME AlarmTaskAssumption ==
  /\ AlarmTask \in [Alarms!Alarm -> Task \cup {INVALID}]
  /\ AlarmTasks = {AlarmTask[a] : a \in Alarms!Alarm} \ {INVALID}

ASSUME AlarmTableAssumption == Alarms!AlarmAssumption

-------------------------------------------------------------------------------
SystemInit == Init /\ Alarms!Init

Boot ==
  /\ Autostart \/ Start
  /\ UNCHANGED alarmVars

\* The services that know nothing of alarms.
KernelService ==
  /\ \/ Schedule \/ TerminateTask \/ Shutdown
     \/ \E t \in TaskArg : ChainTask(t) \/ ActivateTask(t)
     \/ \E r \in ResArg : GetResource(r) \/ ReleaseResource(r)
  /\ UNCHANGED alarmVars

\* The alarm services, which do not reschedule.
AlarmStep ==
  /\ Calling
  /\ \E a \in Alarms!Alarm :
       \/ \E n \in Cycle[a] :
            \/ \E increment \in Increment : Alarms!SetRelAlarm(a, increment, n)
            \/ \E ahead \in Ahead :
                 Alarms!SetAbsAlarm(a, Alarms!Wrap(ticks[CounterOf[a]] + ahead), n)
       \/ Alarms!CancelAlarm(a)
  /\ UNCHANGED vars

\* Os_Isr drives counter 0, a task any other.
TickEnter == IsrEnter /\ Alarms!IncrementCounter(0)

CountEnter ==
  /\ IncrementCounter
  /\ \E c \in Alarms!Counter : Alarms!IncrementCounter(c)

\* Mutant: the alarm leaves the queue without activating its task.
ExpireDropped ==
  /\ loop # "none"
  /\ Alarms!AlarmTick
  /\ UNCHANGED vars

\* One iteration of Os_AlarmTick; the status of the activation is dropped.
ExpireAlarm ==
  /\ loop # "none"
  /\ Alarms!AlarmTick
  /\ LET t == AlarmTask[Head(queue[ticking])]
     IN  IF t = INVALID THEN UNCHANGED vars ELSE Expire(t)

TickExit == Alarms!TickDone /\ (IsrExit \/ IncrementReturn)

SystemNext ==
  \/ Boot \/ KernelService \/ AlarmStep
  \/ TickEnter \/ CountEnter \/ ExpireAlarm \/ TickExit

SystemSpec == SystemInit /\ [][SystemNext]_allVars

\* The fairness of the kernel: start-up goes on, the timer ticks while the system is up,
\* and the loop over the expired alarms goes on.
SystemFairness ==
  /\ WF_allVars(Boot)
  /\ WF_allVars(continue /\ TickEnter)
  /\ WF_allVars(loop # "none" /\ (ExpireAlarm \/ TickExit))

FairSystemSpec == SystemSpec /\ SystemFairness

-------------------------------------------------------------------------------
(* Properties *)

\* No task runs past an alarm: whenever code of the application may execute, no queued
\* alarm is due, however Os_Isr and the calls of Os_IncrementCounter follow one another.
NoAlarmOverdue ==
  loop = "none" =>
    \A a \in Alarms!Alarm :
      queued[a] => ~Alarms!TickLessThan(due[a], ticks[CounterOf[a]])

\* No expiry is lost on the scheduler: when an alarm leaves the heap or is put back for
\* its next cycle, its task is ready or runs, though the status of the activation is
\* dropped and the task may be at its limit.
ExpiredTaskIsReady ==
  [][\A a \in Alarms!Alarm :
       Alarms!AlarmTick /\ a = Head(queue[ticking]) /\ AlarmTask[a] # INVALID
       => os'.state[AlarmTask[a]] # "SUSPENDED"]_allVars

\* The system never sleeps through an alarm: when no task runs and an alarm is on, some
\* task runs in the end, though only the tick interrupt still executes.
SleepEnds ==
  (/\ continue /\ boot > TaskCount /\ ~Running(os)
   /\ \E a \in Alarms!Alarm : queued[a] /\ AlarmTask[a] \in Task)
  ~> (Running(os) \/ ~continue)
===============================================================================
