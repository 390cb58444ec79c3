----------------------------- MODULE OsArchFibers -----------------------------
(***************************************************************************)
(* The Windows fibers port (src/src/Os_Arch_Fibers.c) under the kernel of  *)
(* OsKernel.  Tasks are fibers of the main thread; the tick is a callback  *)
(* on a timer thread, which sets the pending tick and, when the interrupt  *)
(* mask is open, suspends the main thread and injects a call of            *)
(* Os_Arch_Isr on whatever stack it executes.  The main thread looks for a *)
(* pending tick each time it opens the mask.                               *)
(*                                                                         *)
(* A fiber is a stack of frames.  A frame that has the mask closed runs to *)
(* its next point in one step: nothing is injected into it.                *)
(***************************************************************************)
EXTENDS OsArch, SequencesExt

CONSTANT FrameLimit   \* the timer thread waits while the stack that executes is deeper

ASSUME FrameAssumption == FrameLimit \in Nat \ {0}

VARIABLES
  current,  \* GetCurrentFiber of the main thread
  frames,   \* the stack of each fiber, the frame that executes last
  alive,    \* the fibers that exist
  fiber,    \* Os_Arch_State[].fiber
  old,      \* Os_Arch_State[].fiber_old
  masked,   \* Os_Arch_Interrupt_Mask
  pending,  \* Os_Arch_Interrupt_Pending
  timer,    \* the timer thread: "idle", or "set" behind the exchange of pending
  before,   \* ctx_before of the code that is in the alarm loop, else System
  entered   \* ghost: tasks whose present activation began at the entry function

portVars == <<current, frames, alive, fiber, old, masked, pending, timer, before, entered>>
allVars  == <<vars, portVars>>

\* Three fibers per task are enough for the two that exist at once and a lost one.
System == <<None, 0>>
Fiber  == {System} \cup (Task \X (0 .. 2))
Null   == <<-1, 0>>

\* "user": a task or the loop of Os_Start; "entry": Os_Arch_FiberStart; "serve": at the
\* call of Os_Arch_Isr; "kernel": in the alarm loop; "back": behind the switch of a call
\* or of Os_Arch_Isr; "start": the same in Os_Arch_Start; "open": in
\* Os_Arch_ResumeInterrupts behind the opening of the mask.

\* A frame keeps the mask that Os_Arch_SuspendInterrupts gave it.
At(point)      == [at |-> point, mask |-> FALSE]
Closed(point)  == [at |-> point, mask |-> masked]
Top            == Last(frames[current])
Push(frame)    == [frames EXCEPT ![current] = Append(@, frame)]
Replace(frame) == [frames EXCEPT ![current] = Append(Front(@), frame)]
Pop            == [frames EXCEPT ![current] = Front(@)]

-------------------------------------------------------------------------------
(* Os_Arch_PrepareState *)

\* Os_Arch_DeleteFiber spares the fiber that runs, and then keeps its handle.
\* Mutant: it does not.
DeletedAnyway(h) == Null

Deleted(h) == IF h = current THEN h ELSE Null

\* The fiber a new activation of t gets: the memory of a deleted one may be used again,
\* that of the stack in use is not.
NewFiber(t, live) == CHOOSE h \in ({t} \X (0 .. 2)) \ {current} : h \notin live

\* The fiber that waits for its deletion once t is prepared.
\* Mutant: the one that runs is not noted.
NotWaiting(t) == Deleted(old[t])

Waiting(t) == IF Deleted(fiber[t]) # Null THEN fiber[t] ELSE Deleted(old[t])

\* The fibers that exist once the tasks in P are prepared, without the new ones.
Spared(P) ==
  {h \in alive : h[1] \in P => h \in {Deleted(old[h[1]]), Deleted(fiber[h[1]])}}

\* Os_Arch_PrepareState of the tasks in P; the frames are s before it.
\* Mutant: a task whose fiber runs keeps it.
PrepareUnlessCurrent(P, s) ==
  LET made == [t \in P |-> IF fiber[t] = current THEN current ELSE NewFiber(t, Spared(P))]
  IN  /\ old' = [t \in Task |-> IF t \in P THEN Deleted(old[t]) ELSE old[t]]
      /\ fiber' = [t \in Task |-> IF t \in P THEN made[t] ELSE fiber[t]]
      /\ alive' = Spared(P) \cup {made[t] : t \in P}
      /\ frames' = [h \in Fiber |->
           IF h \in {made[t] : t \in P} \ {current} THEN <<At("user"), At("entry")>>
           ELSE IF h \in alive' THEN s[h] ELSE <<>>]

Prepare(P, s) ==
  LET made == [t \in P |-> NewFiber(t, Spared(P))]
  IN  /\ old' = [t \in Task |-> IF t \in P THEN Waiting(t) ELSE old[t]]
      /\ fiber' = [t \in Task |-> IF t \in P THEN made[t] ELSE fiber[t]]
      /\ alive' = Spared(P) \cup {made[t] : t \in P}
      /\ frames' = [h \in Fiber |->
           IF h \in {made[t] : t \in P} THEN <<At("user"), At("entry")>>
           ELSE IF h \in alive' THEN s[h] ELSE <<>>]

\* The ghost keeps to tasks that are part way through.
Live(S) == {t \in S : os'.state[t] \in {"RUNNING", "READY"}}

\* Os_Arch_GetCtx, before and after the kernel.
FiberOf(k, fibers) == IF Current(k) = None THEN System ELSE fibers[Current(k)]
Ctx == FiberOf(os, fiber)

\* The switch that ends an entry into the kernel from fiber from: the tasks in P were
\* prepared, and the frames were s.  A thread that deletes the fiber it runs on exits.
Switch(from, P, s) ==
  /\ Prepare(P, s)
  /\ current' = IF current \notin alive' THEN Null
                ELSE IF FiberOf(os', fiber') # from THEN FiberOf(os', fiber') ELSE current
  /\ masked' = TRUE
  /\ before' = System
  /\ entered' = Live(entered \ P)

-------------------------------------------------------------------------------
(* Start-up *)

\* Os_Arch_Init has run: the main thread is a fiber, the mask is closed.
FibersInit ==
  /\ Init
  /\ current = System /\ alive = {System}
  /\ frames = [h \in Fiber |-> IF h = System THEN <<At("boot")>> ELSE <<>>]
  /\ fiber = [t \in Task |-> Null] /\ old = [t \in Task |-> Null]
  /\ masked = TRUE /\ pending = FALSE /\ timer = "idle"
  /\ before = System /\ entered = {}

AutostartStep == Autostart /\ UNCHANGED portVars

\* Os_Start up to the switch of Os_Arch_Start.
StartStep ==
  /\ Start
  /\ Switch(System, Prepared, [frames EXCEPT ![System] = <<At("user"), At("start")>>])
  /\ UNCHANGED <<pending, timer>>

-------------------------------------------------------------------------------
(* Os_Arch_Syscall and Os_Arch_Isr *)

Syscall ==
  /\ Top.at = "user"
  /\ \/ EndingService /\ Switch(Ctx, PreparedByEnd, Push(Closed("back")))
     \/ StayingService /\ Switch(Ctx, Prepared, Push(Closed("back")))
  /\ UNCHANGED <<pending, timer>>

\* Os_IncrementCounter, up to the alarm loop.
SyscallEnter ==
  /\ Top.at = "user"
  /\ IncrementCounter
  /\ frames' = Push(Closed("kernel"))
  /\ masked' = TRUE /\ before' = Ctx
  /\ UNCHANGED <<current, alive, fiber, old, pending, timer, entered>>

\* Os_Arch_Isr, up to the alarm loop.
Serve ==
  /\ Top.at = "serve"
  /\ IsrEnter
  /\ frames' = Replace(Closed("kernel"))
  /\ masked' = TRUE /\ before' = Ctx
  /\ UNCHANGED <<current, alive, fiber, old, pending, timer, entered>>

ExpireStep ==
  /\ Top.at = "kernel"
  /\ ExpireAny
  /\ Prepare(Prepared, frames)
  /\ entered' = Live(entered \ Prepared)
  /\ UNCHANGED <<current, masked, pending, timer, before>>

KernelExit ==
  /\ Top.at = "kernel"
  /\ IncrementReturn \/ IsrExit
  /\ Switch(before, Prepared, Replace([Top EXCEPT !.at = "back"]))
  /\ UNCHANGED <<pending, timer>>

-------------------------------------------------------------------------------
(* The interrupt mask *)

\* Os_Arch_FiberStart frees the fiber of the activation before and opens the mask.
Enter ==
  /\ Top.at = "entry"
  /\ LET t    == current[1]
         gone == {old[t]} \ {Deleted(old[t])}
     IN  /\ alive' = alive \ gone
         /\ old' = [old EXCEPT ![t] = Deleted(@)]
         /\ frames' = [h \in Fiber |-> IF h \in gone THEN <<>> ELSE Replace(At("open"))[h]]
         /\ entered' = entered \cup {t}
  /\ masked' = FALSE
  /\ UNCHANGED <<vars, current, fiber, pending, timer, before>>

\* A frame that has its processor back gives the mask back; Os_Arch_Start opens it.
Open ==
  /\ Top.at \in {"back", "start"}
  /\ masked' = Top.mask
  /\ frames' = IF masked' THEN Pop ELSE Replace(At("open"))
  /\ UNCHANGED <<vars, current, alive, fiber, old, pending, timer, before, entered>>

\* Mutant: the frame returns at once.
ServeNothing ==
  /\ Top.at = "open"
  /\ frames' = Pop
  /\ UNCHANGED <<vars, current, alive, fiber, old, masked, pending, timer, before, entered>>

\* A tick that is pending behind the opening of the mask is served before the frame returns.
ServePending ==
  /\ Top.at = "open"
  /\ frames' = IF pending THEN Replace(At("serve")) ELSE Pop
  /\ pending' = FALSE
  /\ UNCHANGED <<vars, current, alive, fiber, old, masked, timer, before, entered>>

-------------------------------------------------------------------------------
(* Os_Arch_TimerCallback, on the timer thread *)

\* The first half; a tick that is still pending is not counted twice.
Timer ==
  /\ timer = "idle"
  /\ timer' = "set"
  /\ pending' = TRUE
  /\ UNCHANGED <<vars, current, frames, alive, fiber, old, masked, before, entered>>

\* The second half, with the main thread suspended.
\* Mutants: it does not read the mask; it leaves the tick to the main thread.
InjectAlways ==
  /\ timer = "set" /\ Len(frames[current]) <= FrameLimit
  /\ timer' = "idle"
  /\ frames' = IF pending THEN Push(At("serve")) ELSE frames
  /\ pending' = FALSE
  /\ UNCHANGED <<vars, current, alive, fiber, old, masked, before, entered>>

InjectNever ==
  /\ timer = "set" /\ Len(frames[current]) <= FrameLimit
  /\ timer' = "idle"
  /\ UNCHANGED <<vars, current, frames, pending, alive, fiber, old, masked, before, entered>>

Inject ==
  /\ timer = "set" /\ Len(frames[current]) <= FrameLimit
  /\ timer' = "idle"
  /\ IF masked THEN UNCHANGED <<frames, pending>>
     ELSE /\ frames' = IF pending THEN Push(At("serve")) ELSE frames
          /\ pending' = FALSE
  /\ UNCHANGED <<vars, current, alive, fiber, old, masked, before, entered>>

-------------------------------------------------------------------------------
FibersNext ==
  \/ AutostartStep \/ StartStep
  \/ Syscall \/ SyscallEnter \/ Serve \/ ExpireStep \/ KernelExit
  \/ Enter \/ Open \/ ServePending
  \/ Timer \/ Inject

FibersSpec == FibersInit /\ [][FibersNext]_allVars

\* Both threads go on; nothing is assumed of the tasks, and the timer need not fire.
FibersFairness ==
  /\ WF_allVars(AutostartStep) /\ WF_allVars(StartStep)
  /\ WF_allVars(Serve) /\ WF_allVars(KernelExit)
  /\ WF_allVars(Enter) /\ WF_allVars(Open) /\ WF_allVars(ServePending)
  /\ WF_allVars(Inject)

FairFibersSpec == FibersSpec /\ FibersFairness

-------------------------------------------------------------------------------
(* Properties *)

\* The fiber that runs exists, and user code and the kernel agree on it; so do the
\* fibers of all tasks that may be resumed (Os_Arch_Fibers.c:284: a fiber must not be
\* deleted by code that runs on it, nor be switched to once it was).
RunsLiveFiber ==
  /\ current \in alive
  /\ Top.at = "user" => current = Ctx
  /\ \A t \in Task : os.state[t] \in {"RUNNING", "READY"} => fiber[t] \in alive

\* No fiber is lost: each one that exists is the system's, a task's or waits for its
\* deletion, so a task has two at most.
NoFiberLost ==
  \A h \in alive \ {System} : h \in {fiber[h[1]], old[h[1]]}

\* The kernel is not entered again while it is in the alarm loop, on no stack.
KernelNotReentered ==
  \A h \in Fiber : \A i \in DOMAIN frames[h] :
    frames[h][i].at = "kernel" => masked /\ h = current /\ i = Len(frames[h])

\* An activation runs on its own fiber from the entry function of its task on.
BeginsAtEntry ==
  Top.at = "user" /\ current # System => current[1] \in entered

\* With an open mask a tick is pending only while one of the threads is about to look
\* for it: the mask opens before the main thread looks, and the timer thread sets the
\* tick before it reads the mask (Os_Arch_Fibers.c:137-144, 225-231).
TickNotStranded ==
  pending /\ ~masked => timer = "set" \/ Top.at = "open"

\* A tick that is pending is served, also when no other one follows.
TickServed == pending ~> ~pending
===============================================================================
