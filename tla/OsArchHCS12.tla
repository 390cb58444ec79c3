------------------------------ MODULE OsArchHCS12 ------------------------------
(***************************************************************************)
(* The HCS12 port (src/src/Os_Arch_HCS12.c) under the kernel of OsKernel.  *)
(* A call leaves a pointer to its parameters in the state of the current   *)
(* context, traps, and reads its result from there; trap and tick handler  *)
(* save the stack pointer in that state and load the one of the context    *)
(* the kernel chose.  Between the three parts of a call the tick may       *)
(* switch to other tasks, which call the kernel through the same pointer,  *)
(* Os_Arch_Ctx_Prev.                                                       *)
(***************************************************************************)
EXTENDS OsArch

VARIABLES
  cpu,      \* the context whose stack executes
  at,       \* where it executes, see below
  blocked,  \* the I bit of the condition code register
  pending,  \* the flag of the real time interrupt, RTIF
  prev,     \* Os_Arch_Ctx_Prev
  sp,       \* Os_Arch_StateType.sp: the frame that RESTORE and rti return to
  param,    \* Os_Arch_StateType.param: the context whose parameters it points to
  res,      \* Os_Arch_StateType.res: the context whose call it answers
  entered   \* ghost: tasks whose present activation began at the entry function

portVars == <<cpu, at, blocked, pending, prev, sp, param, res, entered>>
allVars  == <<vars, portVars>>

\* "boot" until Os_Arch_Start, "kernel" in the alarm loop, "param" behind the assignment
\* of the parameters, "result" and "start" behind the trap of a call and of Os_Arch_Start.
UserPoint == {"user", "param", "result", "start"}

\* The parameters of a call that returned, and a result that was read, are gone.
Nobody == -1

-------------------------------------------------------------------------------
(* Frames *)

\* The frame that Os_Arch_PrepareState builds has a clear condition code register.
Entry(t) == [stack |-> t, at |-> "entry", blocked |-> FALSE]

\* OS_ARCH_STORE: the frame of the executing stack, which returns to point.
Stored(point) == [sp EXCEPT ![prev] = [stack |-> cpu, at |-> point, blocked |-> blocked]]

\* Mutant: the stack of the task that makes the call is left alone.
MadeUnlessCurrent(s, P) == [c \in Context |-> IF c \in P \ {prev} THEN Entry(c) ELSE s[c]]

Made(s, P) == [c \in Context |-> IF c \in P THEN Entry(c) ELSE s[c]]

\* OS_ARCH_RESTORE and rti, with the frames s.
Restored(s) ==
  LET frame == s[prev']
  IN  /\ cpu' = frame.stack
      /\ at' = IF frame.at = "entry" THEN "user" ELSE frame.at
      /\ blocked' = frame.blocked

\* The tasks that are part way through and began at their entry, after the tasks in P
\* were prepared and the context prev' was restored from the frames s.
EnteredWith(s, P) ==
  {t \in Task : /\ os'.state[t] \in {"RUNNING", "READY"}
                /\ t \in entered \ P \/ (t = prev' /\ s[t].at = "entry")}

-------------------------------------------------------------------------------
(* Start-up *)

\* Os_Arch_Init has run; the I bit is set since reset.
HCS12Init ==
  /\ Init
  /\ cpu = None /\ at = "boot" /\ blocked = TRUE /\ pending = FALSE
  /\ prev = None
  /\ sp = [c \in Context |-> [stack |-> c, at |-> "start", blocked |-> TRUE]]
  /\ param = [c \in Context |-> Nobody] /\ res = [c \in Context |-> Nobody]
  /\ entered = {}

AutostartStep == Autostart /\ UNCHANGED portVars

\* Os_Start: the trap of Os_Arch_Start asks for service 0, which does nothing, and
\* switches to the task that was dispatched.
StartStep ==
  /\ Start
  /\ sp' = Made(Stored("start"), Prepared)
  /\ param' = [param EXCEPT ![prev] = cpu]
  /\ res' = [res EXCEPT ![prev] = cpu]
  /\ prev' = Current(os')
  /\ Restored(sp')
  /\ entered' = EnteredWith(sp', Prepared)
  /\ UNCHANGED pending

\* Os_Arch_Start enables interrupts once its context runs again.
Enable ==
  /\ at = "start"
  /\ at' = "user"
  /\ blocked' = FALSE
  /\ param' = [param EXCEPT ![prev] = Nobody]
  /\ res' = [res EXCEPT ![prev] = Nobody]
  /\ UNCHANGED <<vars, cpu, pending, prev, sp, entered>>

-------------------------------------------------------------------------------
(* Os_Arch_Syscall and Os_Arch_Swi *)

\* An interrupt that is not blocked comes before the next step of the code.
Interrupted == pending /\ ~blocked

SetParam ==
  /\ at = "user" /\ ~Interrupted /\ cpu \in Task
  /\ at' = "param"
  /\ param' = [param EXCEPT ![prev] = cpu]
  /\ UNCHANGED <<vars, cpu, blocked, pending, prev, sp, res, entered>>

\* The trap, for the services that take one step: store, serve, switch, restore.
\* Mutant: the result goes to the context that runs next.
TrapResultToNext(P) ==
  /\ sp' = Made(Stored("result"), P)
  /\ prev' = Current(os')
  /\ res' = [res EXCEPT ![prev'] = cpu]
  /\ Restored(sp')
  /\ entered' = EnteredWith(sp', P)
  /\ UNCHANGED <<pending, param>>

Trap(P) ==
  /\ sp' = Made(Stored("result"), P)
  /\ res' = [res EXCEPT ![prev] = cpu]
  /\ prev' = Current(os')
  /\ Restored(sp')
  /\ entered' = EnteredWith(sp', P)
  /\ UNCHANGED <<pending, param>>

Swi ==
  /\ at = "param" /\ ~Interrupted
  /\ \/ EndingService /\ Trap(PreparedByEnd)
     \/ StayingService /\ Trap(Prepared)

\* The trap of Os_IncrementCounter, up to the alarm loop.
SwiEnter ==
  /\ at = "param" /\ ~Interrupted
  /\ IncrementCounter
  /\ at' = "kernel" /\ blocked' = TRUE
  /\ sp' = Stored("result")
  /\ UNCHANGED <<cpu, pending, prev, param, res, entered>>

SwiExit ==
  /\ at = "kernel"
  /\ IncrementReturn
  /\ sp' = sp
  /\ res' = [res EXCEPT ![prev] = cpu]
  /\ prev' = Current(os')
  /\ Restored(sp)
  /\ entered' = EnteredWith(sp, {})
  /\ UNCHANGED <<pending, param>>

\* The call returns what its context's state holds.
Result ==
  /\ at = "result" /\ ~Interrupted
  /\ at' = "user"
  /\ param' = [param EXCEPT ![prev] = Nobody]
  /\ res' = [res EXCEPT ![prev] = Nobody]
  /\ UNCHANGED <<vars, cpu, blocked, pending, prev, sp, entered>>

-------------------------------------------------------------------------------
(* Os_Arch_Isr *)

\* Mutant: the handler does not store the frame it interrupts.
InterruptWithoutStore ==
  /\ at \in UserPoint /\ Interrupted
  /\ IsrEnter
  /\ at' = "kernel" /\ blocked' = TRUE
  /\ UNCHANGED <<cpu, pending, prev, sp, param, res, entered>>

Interrupt ==
  /\ at \in UserPoint /\ Interrupted
  /\ IsrEnter
  /\ at' = "kernel" /\ blocked' = TRUE
  /\ sp' = Stored(at)
  /\ UNCHANGED <<cpu, pending, prev, param, res, entered>>

ExpireStep ==
  /\ at = "kernel"
  /\ ExpireAny
  /\ sp' = Made(sp, Prepared)
  /\ entered' = entered \ Prepared
  /\ UNCHANGED <<cpu, at, blocked, pending, prev, param, res>>

\* The flag is cleared at the end: a tick that arrives inside the handler is lost.
\* Mutant: Os_Arch_Ctx_Prev is not updated.
InterruptExitStale ==
  /\ at = "kernel"
  /\ IsrExit
  /\ pending' = FALSE
  /\ sp' = Made(sp, Prepared)
  /\ prev' = prev
  /\ Restored(sp')
  /\ entered' = EnteredWith(sp', Prepared)
  /\ UNCHANGED <<param, res>>

InterruptExit ==
  /\ at = "kernel"
  /\ IsrExit
  /\ pending' = FALSE
  /\ sp' = Made(sp, Prepared)
  /\ prev' = Current(os')
  /\ Restored(sp')
  /\ entered' = EnteredWith(sp', Prepared)
  /\ UNCHANGED <<param, res>>

\* The real time interrupt raises its flag, again and again.
Timer ==
  /\ pending' = TRUE
  /\ UNCHANGED <<vars, cpu, at, blocked, prev, sp, param, res, entered>>

-------------------------------------------------------------------------------
HCS12Next ==
  \/ AutostartStep \/ StartStep \/ Enable
  \/ SetParam \/ Swi \/ SwiEnter \/ SwiExit \/ Result
  \/ Interrupt \/ InterruptExit \/ ExpireStep
  \/ Timer

HCS12Spec == HCS12Init /\ [][HCS12Next]_allVars

-------------------------------------------------------------------------------
(* Properties *)

\* Wherever user code runs, Os_Arch_Ctx_Prev and the kernel name its context: the next
\* trap or tick stores the frame where it will be looked for (Os_Arch_HCS12.c:113, 127).
RunsCurrent ==
  at \in UserPoint => prev = cpu /\ cpu = Current(os)

\* Between setting its parameters and reading its result a task may be preempted by
\* tasks that make calls of their own: the trap still finds its parameters and it
\* reads the result of its own call (Os_Arch_HCS12.c:137-139).
CallIsOwn ==
  /\ at = "param" => param[prev] = cpu
  /\ at = "result" => res[prev] = cpu

\* A task that was preempted can be resumed: its state holds a frame of its own stack,
\* the entry frame exactly when this activation has not run; and so does that of Os_Start.
CanResume ==
  /\ \A t \in Task : os.state[t] = "READY" /\ cpu # t =>
       sp[t].stack = t /\ (sp[t].at = "entry" <=> t \notin entered)
  /\ at # "boot" /\ cpu # None => sp[None].stack = None

\* An activation begins at the entry function of its task, also when ChainTask starts
\* the task that calls it and the frame is built on the stack in use.
BeginsAtEntry ==
  at \in UserPoint /\ cpu \in Task => cpu \in entered
===============================================================================
