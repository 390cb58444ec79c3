------------------------------ MODULE OsArchPosix ------------------------------
(***************************************************************************)
(* The POSIX port (src/src/Os_Arch_Posix.c) under the kernel of OsKernel.  *)
(* Tasks are ucontexts on one thread, the tick is SIGALRM.  A call blocks  *)
(* the signal, runs the kernel, switches contexts and, once its own        *)
(* context is resumed, restores the mask; the handler does the same with   *)
(* the signal blocked by its delivery.  Blocked code runs in one step, up  *)
(* to the loop over expired alarms, in which the timer may fire.           *)
(***************************************************************************)
EXTENDS OsArch

VARIABLES
  cpu,      \* the context whose stack executes
  at,       \* where it executes, see below
  blocked,  \* SIGALRM is in the signal mask
  pending,  \* SIGALRM is pending; signals that arrive meanwhile are lost
  before,   \* ctx_before of the code that is in the alarm loop, else None
  run,      \* Os_Arch_CtxType.run
  saved,    \* Os_Arch_CtxType.ctx: the stack, point and mask that setcontext restores
  mask,     \* the mask that the call on this stack restores when it returns
  unsaved,  \* ghost: live contexts that were left without a save
  entered   \* ghost: tasks whose present activation began at the entry function

portVars == <<cpu, at, blocked, pending, before, run, saved, mask, unsaved, entered>>
allVars  == <<vars, portVars>>

\* "boot" until Os_Arch_Start, "user" in a task or in the loop of Os_Start, "kernel" in
\* the alarm loop; a context waits in its call, its handler or in Os_Arch_Start.
Stopped == {"entry", "call", "handler", "start"}

-------------------------------------------------------------------------------
(* Contexts *)

\* The context that makecontext leaves, with the signal unblocked.
Entry(t) == [stack |-> t, at |-> "entry", blocked |-> FALSE]

\* Os_Arch_PrepareState of the tasks in P, on the contexts and on their flags.
\* Mutant: a prepared context keeps its flag.
StillRun(P) == run

NotRun(P) == [c \in Context |-> c \notin P /\ run[c]]

Made(P) == [c \in Context |-> IF c \in P THEN Entry(c) ELSE saved[c]]

\* setcontext: execution goes on where c was saved among s, or in its entry function.
Resume(c, s) ==
  /\ cpu' = s[c].stack
  /\ at' = IF s[c].at = "entry" THEN "user" ELSE s[c].at
  /\ blocked' = s[c].blocked

\* The ghosts keep to contexts that are part way through.
Live(S) == {c \in S : c = None \/ os'.state[c] \in {"RUNNING", "READY"}}

\* The switch that ends each entry into the kernel from context from, whose code stopped
\* at point, after the kernel prepared the tasks in P: setcontext when the context to
\* leave was prepared anew, swapcontext when another one is to run.
\* Mutant: the flag of the resumed context is not set.
SwitchWithoutFlag(from, point, P) ==
  LET after  == Current(os')
      leaves == ~NotRun(P)[from]
      moves  == leaves \/ after # from
      kept   == IF moves /\ ~leaves
                THEN [Made(P) EXCEPT ![from] = [stack |-> cpu, at |-> point, blocked |-> TRUE]]
                ELSE Made(P)
  IN  /\ IF moves THEN Resume(after, kept) ELSE cpu' = cpu /\ at' = point /\ blocked' = TRUE
      /\ saved' = kept
      /\ run' = NotRun(P)
      /\ before' = None
      /\ unsaved' = Live((unsaved \cup {c \in {from} : leaves}) \ (P \cup {after}))
      /\ entered' = Live((entered \ P) \cup {c \in {after} : moves /\ kept[c].at = "entry"})

Switch(from, point, P) ==
  LET after  == Current(os')
      leaves == ~NotRun(P)[from]
      moves  == leaves \/ after # from
      kept   == IF moves /\ ~leaves
                THEN [Made(P) EXCEPT ![from] = [stack |-> cpu, at |-> point, blocked |-> TRUE]]
                ELSE Made(P)
  IN  /\ IF moves THEN Resume(after, kept) ELSE cpu' = cpu /\ at' = point /\ blocked' = TRUE
      /\ saved' = kept
      /\ run' = IF moves THEN [NotRun(P) EXCEPT ![after] = TRUE] ELSE NotRun(P)
      /\ before' = None
      /\ unsaved' = Live((unsaved \cup {c \in {from} : leaves}) \ (P \cup {after}))
      /\ entered' = Live((entered \ P) \cup {c \in {after} : moves /\ kept[c].at = "entry"})

-------------------------------------------------------------------------------
(* Start-up *)

\* Os_Arch_Init has run: contexts of tasks are made from its own, with the signal blocked.
PosixInit ==
  /\ Init
  /\ cpu = None /\ at = "boot" /\ blocked = TRUE /\ pending = FALSE /\ before = None
  /\ run = [c \in Context |-> c = None]
  /\ saved = [c \in Context |-> [stack |-> c, at |-> "start", blocked |-> TRUE]]
  /\ mask = [c \in Context |-> TRUE]
  /\ unsaved = {} /\ entered = {}

AutostartStep == Autostart /\ UNCHANGED portVars

\* Os_Start up to the switch in Os_Arch_Start: the flag of None is TRUE, so the test that
\* Os_Arch_Start leaves out would not matter.
StartStep ==
  /\ Start
  /\ Switch(None, "start", Prepared)
  /\ UNCHANGED <<pending, mask>>

-------------------------------------------------------------------------------
(* Calls and the handler *)

\* Blocked code is not interrupted, and a signal that is pending when the mask opens is
\* delivered before the code goes on.
Interruptible == at = "user" /\ ~blocked
UserRuns      == at = "user" /\ ~(pending /\ ~blocked)

Syscall ==
  /\ UserRuns
  /\ \/ EndingService /\ Switch(Current(os), "call", PreparedByEnd)
     \/ StayingService /\ Switch(Current(os), "call", Prepared)
  /\ mask' = [mask EXCEPT ![cpu] = blocked]
  /\ UNCHANGED pending

\* Os_IncrementCounter: the same call, with the alarm loop in several steps.
SyscallEnter ==
  /\ UserRuns
  /\ IncrementCounter
  /\ at' = "kernel" /\ blocked' = TRUE /\ before' = Current(os)
  /\ mask' = [mask EXCEPT ![cpu] = blocked]
  /\ UNCHANGED <<cpu, pending, run, saved, unsaved, entered>>

\* Os_Arch_Alarm.
Handle ==
  /\ Interruptible /\ pending
  /\ IsrEnter
  /\ pending' = FALSE
  /\ at' = "kernel" /\ blocked' = TRUE /\ before' = Current(os)
  /\ UNCHANGED <<cpu, run, saved, mask, unsaved, entered>>

\* An expired alarm activates a task, which may be dispatched and so prepared.
ExpireStep ==
  /\ at = "kernel"
  /\ ExpireAny
  /\ run' = NotRun(Prepared)
  /\ saved' = Made(Prepared)
  /\ unsaved' = unsaved \ Prepared
  /\ entered' = entered \ Prepared
  /\ UNCHANGED <<cpu, at, blocked, pending, before, mask>>

SyscallSwitch ==
  /\ at = "kernel"
  /\ IncrementReturn
  /\ Switch(before, "call", {})
  /\ UNCHANGED <<pending, mask>>

\* Mutant: the handler returns to the code it interrupted.
HandlerWithoutSwitch ==
  /\ at = "kernel"
  /\ IsrExit
  /\ at' = "handler" /\ before' = None
  /\ run' = NotRun(Prepared) /\ saved' = Made(Prepared)
  /\ UNCHANGED <<cpu, blocked, pending, mask, unsaved, entered>>

HandlerSwitch ==
  /\ at = "kernel"
  /\ IsrExit
  /\ Switch(before, "handler", Prepared)
  /\ UNCHANGED <<pending, mask>>

\* A context that runs again returns to its user: a call restores the mask it saved, the
\* handler the one it interrupted, Os_Arch_Start unblocks the signal.
\* Mutant: the call forgets Os_Arch_ResumeInterrupts.
ReturnBlocked ==
  /\ at \in Stopped
  /\ at' = "user"
  /\ blocked' = (at = "call")
  /\ mask' = [mask EXCEPT ![cpu] = TRUE]
  /\ UNCHANGED <<vars, cpu, pending, before, run, saved, unsaved, entered>>

Return ==
  /\ at \in Stopped
  /\ at' = "user"
  /\ blocked' = (at = "call" /\ mask[cpu])
  /\ mask' = [mask EXCEPT ![cpu] = TRUE]
  /\ UNCHANGED <<vars, cpu, pending, before, run, saved, unsaved, entered>>

\* The interval timer: a signal that is already pending is not counted twice.
Timer ==
  /\ pending' = TRUE
  /\ UNCHANGED <<vars, cpu, at, blocked, before, run, saved, mask, unsaved, entered>>

-------------------------------------------------------------------------------
PosixNext ==
  \/ AutostartStep \/ StartStep
  \/ Syscall \/ SyscallEnter \/ SyscallSwitch
  \/ Handle \/ HandlerSwitch \/ ExpireStep
  \/ Return \/ Timer

PosixSpec == PosixInit /\ [][PosixNext]_allVars

\* The code between two user steps runs on; the timer fires for ever; a pending signal
\* is delivered when it is not blocked.  Nothing is assumed of the tasks.
PosixFairness ==
  /\ WF_allVars(AutostartStep) /\ WF_allVars(StartStep)
  /\ WF_allVars(Return) /\ WF_allVars(SyscallSwitch) /\ WF_allVars(HandlerSwitch)
  /\ WF_allVars(Handle) /\ WF_allVars(Timer)

FairPosixSpec == PosixSpec /\ PosixFairness

-------------------------------------------------------------------------------
(* Properties *)

\* The code that runs is the code of the task the kernel takes for the running one, and
\* it runs with the tick enabled (Os_Arch_GetContext must give the context to leave
\* before the kernel ran and the one to resume after it).
RunsCurrent ==
  at = "user" => cpu = Current(os) /\ ~blocked

\* A task that was preempted can be resumed: its context was saved when it was left, on
\* its own stack, and was not replaced since (Os_Arch_Posix.c:157); and so can the loop
\* of Os_Start.
CanResume ==
  /\ \A t \in Task : os.state[t] = "READY" /\ cpu # t =>
       /\ t \notin unsaved
       /\ saved[t].stack = t
       /\ saved[t].at = "entry" <=> t \notin entered
  /\ at # "boot" /\ cpu # None => None \notin unsaved /\ saved[None].stack = None

\* An activation begins at the entry function of its task: no code of an activation that
\* ended runs on under the next one.
BeginsAtEntry ==
  at = "user" /\ cpu \in Task => cpu \in entered

\* A tick that is pending is handled.
TickServed == pending ~> ~pending
===============================================================================
