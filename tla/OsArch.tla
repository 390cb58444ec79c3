-------------------------------- MODULE OsArch --------------------------------
(***************************************************************************)
(* What the kernel and its ports share: the context that a port asks for   *)
(* before and after each entry into the kernel, and the tasks whose stack  *)
(* the kernel lets the port prepare in between (src/src/Os.c:392).         *)
(* The ports are OsArchPosix, OsArchHCS12 and OsArchFibers.                *)
(***************************************************************************)
EXTENDS OsKernel

\* A context is a task's or, when no task runs, that of the caller of Os_Start.
None    == INVALID
Context == Task \cup {None}

\* Os_GetTaskId: an active task that does not run is no task.
Current(k) == IF Running(k) THEN k.active ELSE None

\* Os_State_Ready_To_Running lets the port prepare the stack of a task that starts,
\* also when the same step preempts it again before it ran.
PreparedBetween(k, next) ==
  {t \in Task : k.state[t] \in {"SUSPENDED", "READY_FIRST"} /\ next.state[t] \in {"RUNNING", "READY"}}

Prepared == PreparedBetween(os, os')

\* TerminateTask and ChainTask end whoever is active once the internal resource is
\* released: a task that is ended and dispatched again by the same call is prepared
\* for its new activation, though it was running before.
PreparedByEnd ==
  LET released == InternalResource_Release(os)
      gone     == released.active
  IN  PreparedBetween(os, released) \cup PreparedBetween(released, os')
      \cup {t \in {gone} : os'.status = "E_OK" /\ os'.state[t] \in {"RUNNING", "READY"}}

\* The services that end a task, and the others, as one step of the kernel.
EndingService  == TerminateTask \/ \E t \in TaskArg : ChainTask(t)

StayingService ==
  \/ Schedule \/ Shutdown
  \/ \E t \in TaskArg : ActivateTask(t)
  \/ \E r \in ResArg : GetResource(r) \/ ReleaseResource(r)

\* The kernel works in the alarm loop, in a call or in the interrupt.
ExpireAny == \E t \in AlarmTasks : Expire(t)
===============================================================================
