--------------------------- MODULE OsArchPosixProofs ---------------------------
(***************************************************************************)
(* On the POSIX port the code that runs is the code of the running task,   *)
(* with the tick enabled, and every context that was left can be resumed,  *)
(* for every number of tasks and wherever the signal comes.                *)
(***************************************************************************)
EXTENDS OsArchPosix, OsKernelProofs

Frame == [stack : Context, at : Stopped, blocked : BOOLEAN]

-------------------------------------------------------------------------------
(***************************************************************************)
(* The inductive invariant.  A saved context is on its own stack at all    *)
(* times, and the flag of the one that executes is set: the switch skips   *)
(* the save exactly when the kernel prepared that context anew.  So none   *)
(* is left unsaved, once no step of the alarm loop can prepare the context *)
(* it works on.                                                            *)
(***************************************************************************)
OwnFrames(s) ==
  /\ s \in [Context -> Frame]
  /\ \A c \in Context : s[c].stack = c /\ (s[c].at = "entry" => ~s[c].blocked)

Types ==
  /\ cpu \in Context
  /\ at \in Stopped \cup {"boot", "user", "kernel"}
  /\ blocked \in BOOLEAN
  /\ OwnFrames(saved)
  /\ mask \in [Context -> BOOLEAN]
  /\ run \in [Context -> BOOLEAN] /\ run[cpu]

\* A started task waits in front of its entry exactly when it has not run.
Fit == \A t \in Task \ {cpu} : Started(t) => (saved[t].at = "entry" <=> t \notin entered)

\* A call came from code that ran with the signal unblocked.
Masks ==
  /\ \A c \in Context \ {cpu} : saved[c].at = "call" => ~mask[c]
  /\ at = "call" \/ (at = "kernel" /\ loop = "call") => ~mask[cpu]

\* The task on the processor is part way through; but in the alarm loop, the kernel runs it.
Working ==
  /\ at # "boot" /\ cpu \in Task => Started(cpu) /\ cpu \in entered
  /\ at \in Stopped \cup {"user"} => cpu = Current(os)
  /\ at = "user" => ~blocked
  /\ at = "kernel" => before = cpu

PosixInv ==
  /\ Types /\ Fit /\ Masks /\ Working
  /\ unsaved = {}
  /\ boot <= TaskCount => at = "boot" /\ cpu = None

LEMMA Contexts == Task \subseteq Context /\ None \in Context /\ None \notin Task
BY CountsAssumption DEF Context, None, INVALID, Task

-------------------------------------------------------------------------------
(* The switch *)

LEMMA MadeFrames ==
  ASSUME Types, NEW P, P \subseteq Task
  PROVE  /\ OwnFrames(Made(P))
         /\ \A t \in P : Made(P)[t].at = "entry"
         /\ \A c \in Context \ P : Made(P)[c] = saved[c]
<1>1. \A t \in P : /\ Entry(t) \in Frame /\ Entry(t).stack = t
                   /\ Entry(t).at = "entry" /\ ~Entry(t).blocked
  BY Contexts DEF Entry, Frame, Stopped
<1>2. Made(P) = [c \in Context |-> IF c \in P THEN Entry(c) ELSE saved[c]]
  BY DEF Made
<1> QED
  BY <1>1, <1>2, Contexts DEF OwnFrames, Types

LEMMA SwitchInv ==
  ASSUME Types, Fit, unsaved = {},
         \A c \in Context \ {cpu} : saved[c].at = "call" => ~mask[c],
         cpu \in Task => cpu \in entered,
         NEW P, P \subseteq Task, Follows(P),
         NEW point \in Stopped \ {"entry"}, Switch(cpu, point, P),
         mask' \in [Context -> BOOLEAN],
         \A c \in Context \ {cpu} : mask'[c] = mask[c],
         point = "call" => ~mask'[cpu],
         ~(boot' <= TaskCount)
  PROVE  PosixInv'
<1> DEFINE after == Current(os')
           moves == cpu \in P \/ after # cpu
           f     == [stack |-> cpu, at |-> point, blocked |-> TRUE]
           kept  == saved'
<1>1. cpu \in Context /\ after \in Context /\ (after \in Task => os'.state[after] = "RUNNING")
  BY Contexts DEF Types, Current, Running
<1>2. /\ NotRun(P) \in [Context -> BOOLEAN]
      /\ NotRun(P)[cpu] <=> cpu \notin P
  BY <1>1 DEF NotRun, Types
<1>3. /\ IF moves THEN Resume(after, kept) ELSE cpu' = cpu /\ at' = point /\ blocked' = TRUE
      /\ kept = IF moves /\ cpu \notin P THEN [Made(P) EXCEPT ![cpu] = f] ELSE Made(P)
      /\ run' = IF moves THEN [NotRun(P) EXCEPT ![after] = TRUE] ELSE NotRun(P)
      /\ unsaved' = Live((unsaved \cup {c \in {cpu} : cpu \in P}) \ (P \cup {after}))
      /\ entered' = Live((entered \ P) \cup {c \in {after} : moves /\ kept[c].at = "entry"})
  BY <1>2 DEF Switch
<1>4. /\ OwnFrames(Made(P))
      /\ \A t \in P : Made(P)[t].at = "entry"
      /\ \A c \in Context \ P : Made(P)[c] = saved[c]
  BY MadeFrames
<1>5. f \in Frame /\ f.stack = cpu /\ f.at = point
  BY <1>1 DEF Frame
<1> HIDE DEF f
<1>6. /\ OwnFrames(kept)
      /\ \A t \in P : kept[t].at = "entry"
      /\ \A c \in Context \ P : c # cpu => kept[c] = saved[c]
      /\ moves /\ cpu \notin P => kept[cpu].at = point
  BY <1>1, <1>3, <1>4, <1>5, Contexts DEF OwnFrames
<1>7. unsaved' = {}
  BY <1>3 DEF Live
<1> HIDE DEF kept, after
<1>8. cpu' = after
  BY <1>1, <1>3, <1>6 DEF Resume, OwnFrames
<1>9. kept[after] \in Frame /\ (kept[after].at = "entry" => ~kept[after].blocked)
  BY <1>1, <1>6 DEF OwnFrames
<1>10. /\ at' \in Stopped \cup {"user"} /\ blocked' \in BOOLEAN
       /\ at' = "user" => ~blocked'
       /\ at' = "call" => IF moves THEN kept[after].at = "call" ELSE point = "call"
  BY <1>3, <1>9 DEF Resume, Frame, Stopped
<1>11. run' \in [Context -> BOOLEAN] /\ run'[after]
  BY <1>1, <1>2, <1>3
<1>12. Types'
  BY <1>1, <1>6, <1>8, <1>10, <1>11 DEF Types, kept
<1>13. Fit'
  <2> SUFFICES ASSUME NEW t \in Task, t # after, os'.state[t] \in {"RUNNING", "READY"}
               PROVE  kept[t].at = "entry" <=> t \notin entered'
    BY <1>8 DEF Fit, Started, kept
  <2>1. t \in entered' <=> t \in entered \ P
    BY <1>3 DEF Live
  <2>2. CASE t \in P
    BY <1>6, <2>1, <2>2
  <2>3. CASE t \notin P /\ t = cpu
    BY <1>6, <2>1, <2>3
  <2>4. CASE t \notin P /\ t # cpu
    <3>1. Started(t) /\ kept[t] = saved[t]
      BY <1>6, <2>4, Contexts DEF Follows
    <3> QED
      BY <2>1, <2>4, <3>1 DEF Fit
  <2> QED
    BY <2>2, <2>3, <2>4
<1>14. Masks'
  <2>1. ASSUME NEW c \in Context, moves \/ c # cpu, kept[c].at = "call" PROVE ~mask'[c]
    <3>1. c \notin P
      BY <1>6, <2>1
    <3> QED
      BY <1>6, <2>1, <3>1
  <2>2. \A c \in Context \ {after} : kept[c].at = "call" => ~mask'[c]
    BY <2>1
  <2>3. at' = "call" => ~mask'[after]
    BY <1>1, <1>10, <2>1
  <2>4. at' # "kernel"
    BY <1>10 DEF Stopped
  <2> QED
    BY <1>8, <2>2, <2>3, <2>4 DEF Masks, kept
<1>15. ASSUME after \in Task PROVE after \in entered'
  <2>1. after \in entered' <=> (after \in entered \ P \/ (moves /\ kept[after].at = "entry"))
    BY <1>1, <1>3, <1>15 DEF Live
  <2>2. CASE after \in P
    BY <1>6, <2>1, <2>2
  <2>3. CASE after \notin P /\ after = cpu
    BY <1>15, <2>1, <2>3
  <2>4. CASE after \notin P /\ after # cpu
    <3>1. Started(after) /\ kept[after] = saved[after]
      BY <1>1, <1>6, <1>15, <2>4 DEF Follows
    <3> QED
      BY <1>15, <2>1, <2>4, <3>1 DEF Fit
  <2> QED
    BY <2>2, <2>3, <2>4
<1>16. Working'
  <2>1. cpu' \in Task => Started(cpu)' /\ cpu' \in entered'
    BY <1>1, <1>8, <1>15 DEF Started
  <2>2. cpu' = Current(os')
    BY <1>8 DEF after
  <2>3. at' # "kernel"
    BY <1>10 DEF Stopped
  <2> QED
    BY <1>10, <2>1, <2>2, <2>3 DEF Working
<1> QED
  BY <1>7, <1>12, <1>13, <1>14, <1>16 DEF PosixInv

-------------------------------------------------------------------------------
(* Calls, the handler and start-up *)

\* User code is that of the running task, with the signal unblocked.
LEMMA UserContext ==
  ASSUME PosixInv, at = "user"
  PROVE  /\ Types /\ Fit /\ unsaved = {}
         /\ cpu = Current(os) /\ blocked = FALSE
         /\ cpu \in Task => cpu \in entered
         /\ \A c \in Context \ {cpu} : saved[c].at = "call" => ~mask[c]
         /\ mask \in [Context -> BOOLEAN] /\ cpu \in Context
BY DEF PosixInv, Working, Types, Masks

LEMMA SyscallInv == PosixInv /\ IInv /\ Syscall => PosixInv'
<1> SUFFICES ASSUME PosixInv, IInv, Syscall PROVE PosixInv'
  OBVIOUS
<1>1. /\ at = "user"
      /\ \/ EndingService /\ Switch(cpu, "call", PreparedByEnd)
         \/ StayingService /\ Switch(cpu, "call", Prepared)
      /\ mask' = [mask EXCEPT ![cpu] = blocked]
  BY UserContext DEF Syscall, UserRuns
<1>2. /\ mask' \in [Context -> BOOLEAN] /\ ~mask'[cpu]
      /\ \A c \in Context \ {cpu} : mask'[c] = mask[c]
  BY <1>1, UserContext
<1>3. boot > TaskCount /\ ~(boot' <= TaskCount) /\ Running(os)
  BY <1>1, StaysUp, KernelStates, CountsAssumption
<1>4. /\ Follows(Prepared) /\ Prepared \subseteq Task
      /\ Follows(PreparedByEnd) /\ PreparedByEnd \subseteq Task
  BY <1>3, PreparedFollows, EndFollows
<1>5. "call" \in Stopped \ {"entry"}
  BY DEF Stopped
<1> QED
  BY <1>1, <1>2, <1>3, <1>4, <1>5, UserContext, SwitchInv

LEMMA StartStepInv == PosixInv /\ IInv /\ StartStep => PosixInv'
<1> SUFFICES ASSUME PosixInv, IInv, StartStep PROVE PosixInv'
  OBVIOUS
<1>1. boot <= TaskCount /\ ~(boot' <= TaskCount)
  BY CountsAssumption DEF StartStep, Start
<1>2. /\ Types /\ Fit /\ unsaved = {} /\ cpu = None /\ mask \in [Context -> BOOLEAN]
      /\ \A c \in Context \ {cpu} : saved[c].at = "call" => ~mask[c]
  BY <1>1 DEF PosixInv, Types, Masks
<1>3. Switch(cpu, "start", Prepared) /\ mask' = mask
  BY <1>2 DEF StartStep
<1>4. "start" \in Stopped \ {"entry"}
  BY DEF Stopped
<1> QED
  BY <1>1, <1>2, <1>3, <1>4, PreparedFollows, Contexts, SwitchInv

\* A call or the handler up to its alarm loop.
LEMMA EnterKernelInv ==
  ASSUME PosixInv, at = "user", at' = "kernel", blocked' = TRUE, before' = Current(os),
         mask' \in [Context -> BOOLEAN],
         \A c \in Context \ {cpu} : mask'[c] = mask[c],
         loop' = "call" => ~mask'[cpu],
         UNCHANGED <<os, boot, cpu, run, saved, unsaved, entered>>
  PROVE  PosixInv'
<1>1. Types'
  BY DEF PosixInv, Types
<1>2. Fit' /\ Working'
  BY DEF PosixInv, Fit, Working, Started, Stopped
<1>3. Masks'
  BY DEF PosixInv, Masks
<1>4. ~(boot' <= TaskCount) /\ unsaved' = {}
  BY DEF PosixInv
<1> QED
  BY <1>1, <1>2, <1>3, <1>4 DEF PosixInv

LEMMA EnterInv == PosixInv /\ (SyscallEnter \/ Handle) => PosixInv'
<1> SUFFICES ASSUME PosixInv, SyscallEnter \/ Handle PROVE PosixInv'
  OBVIOUS
<1>1. /\ at = "user" /\ at' = "kernel" /\ blocked' = TRUE /\ before' = Current(os)
      /\ UNCHANGED <<os, boot, cpu, run, saved, unsaved, entered>>
  BY DEF SyscallEnter, Handle, UserRuns, Interruptible, IncrementCounter, IsrEnter
<1>2. CASE SyscallEnter
  <2>1. mask' = [mask EXCEPT ![cpu] = blocked]
    BY <1>2 DEF SyscallEnter
  <2>2. /\ mask' \in [Context -> BOOLEAN] /\ ~mask'[cpu]
        /\ \A c \in Context \ {cpu} : mask'[c] = mask[c]
    BY <1>1, <2>1, UserContext
  <2> QED
    BY <1>1, <2>2, EnterKernelInv
<1>3. CASE Handle
  <2>1. mask' = mask /\ loop' = "isr"
    BY <1>3 DEF Handle, IsrEnter
  <2> QED
    BY <1>1, <2>1, UserContext, EnterKernelInv
<1> QED
  BY <1>2, <1>3

\* The context that the kernel works on in the alarm loop.
LEMMA KernelContext ==
  ASSUME PosixInv, IInv, at = "kernel"
  PROVE  /\ Types /\ Fit /\ Masks /\ unsaved = {} /\ before = cpu /\ cpu \in Context
         /\ cpu \in Task => Started(cpu) /\ cpu \in entered
         /\ mask \in [Context -> BOOLEAN] /\ saved \in [Context -> Frame]
         /\ \A c \in Context \ {cpu} : saved[c].at = "call" => ~mask[c]
         /\ loop = "call" => ~mask[cpu]
         /\ Follows(Prepared) /\ Prepared \subseteq Task
BY PreparedFollows DEF PosixInv, Working, Types, OwnFrames, Masks

LEMMA HandlerSwitchInv == PosixInv /\ IInv /\ HandlerSwitch => PosixInv'
<1> SUFFICES ASSUME PosixInv, IInv, HandlerSwitch PROVE PosixInv'
  OBVIOUS
<1>1. at = "kernel" /\ IsrExit /\ mask' = mask
  BY DEF HandlerSwitch
<1>2. Switch(cpu, "handler", Prepared)
  BY <1>1, KernelContext DEF HandlerSwitch
<1>3. ~(boot' <= TaskCount)
  BY <1>1, StaysUp, KernelStates, CountsAssumption
<1>4. "handler" \in Stopped \ {"entry"}
  BY DEF Stopped
<1> QED
  BY <1>1, <1>2, <1>3, <1>4, KernelContext, SwitchInv

\* Os_IncrementCounter prepares nobody at its end.
LEMMA SyscallSwitchInv == PosixInv /\ IInv /\ SyscallSwitch => PosixInv'
<1> SUFFICES ASSUME PosixInv, IInv, SyscallSwitch PROVE PosixInv'
  OBVIOUS
<1>1. at = "kernel" /\ IncrementReturn /\ mask' = mask /\ loop = "call"
  BY DEF SyscallSwitch, IncrementReturn
<1>2. Switch(cpu, "call", {})
  BY <1>1, KernelContext DEF SyscallSwitch
<1>3. ~(boot' <= TaskCount)
  BY <1>1, StaysUp, KernelStates, CountsAssumption
<1>4. "call" \in Stopped \ {"entry"}
  BY DEF Stopped
<1>5. Follows({})
  <2>1. os' = Fail(os, "E_OK") /\ os \in KernelType
    BY <1>1 DEF IncrementReturn, IInv, KInv, Core
  <2>2. os'.state = os.state
    BY <2>1 DEF Fail, KernelType
  <2> QED
    BY <2>2 DEF Follows, Started
<1> QED
  BY <1>1, <1>2, <1>3, <1>4, <1>5, KernelContext, SwitchInv

LEMMA ExpireStepInv == Orderly /\ PosixInv /\ IInv /\ ExpireStep => PosixInv'
<1> SUFFICES ASSUME Orderly, PosixInv, IInv, ExpireStep PROVE PosixInv'
  OBVIOUS
<1>1. /\ at = "kernel" /\ ExpireAny
      /\ run' = NotRun(Prepared) /\ saved' = Made(Prepared)
      /\ unsaved' = unsaved \ Prepared /\ entered' = entered \ Prepared
      /\ UNCHANGED <<cpu, at, blocked, pending, before, mask>>
  BY DEF ExpireStep
<1>2. boot' = boot /\ loop' = loop
  BY <1>1 DEF ExpireAny, Expire, Service
<1>3. cpu \in Task => os'.state[cpu] \in {"RUNNING", "READY"} /\ cpu \notin Prepared
  BY <1>1, KernelContext, LoopKeepsStarted DEF Prepared, PreparedBetween, Started
<1>4. cpu \notin Prepared
  BY <1>1, <1>3, KernelContext
<1>5. /\ OwnFrames(saved')
      /\ \A t \in Prepared : saved'[t].at = "entry"
      /\ \A c \in Context \ Prepared : saved'[c] = saved[c]
  BY <1>1, KernelContext, MadeFrames
<1>6. Types'
  BY <1>1, <1>4, <1>5, KernelContext DEF Types, NotRun
<1>7. Fit'
  <2> SUFFICES ASSUME NEW t \in Task \ {cpu}, os'.state[t] \in {"RUNNING", "READY"}
               PROVE  saved'[t].at = "entry" <=> t \notin entered'
    BY <1>1 DEF Fit, Started
  <2>1. CASE t \in Prepared
    BY <1>1, <1>5, <2>1
  <2>2. CASE t \notin Prepared
    <3>1. Started(t) /\ saved'[t] = saved[t]
      BY <1>1, <1>5, <2>2, KernelContext, Contexts DEF Follows
    <3> QED
      BY <1>1, <2>2, <3>1, KernelContext DEF Fit
  <2> QED
    BY <2>1, <2>2
<1>8. Masks'
  <2>1. ASSUME NEW c \in Context \ {cpu}, saved'[c].at = "call" PROVE ~mask[c]
    <3>1. c \notin Prepared
      BY <1>5, <2>1
    <3> QED
      BY <1>1, <1>5, <2>1, <3>1, KernelContext
  <2> QED
    BY <1>1, <1>2, <2>1, KernelContext DEF Masks
<1>9. Working'
  BY <1>1, <1>3, KernelContext DEF Working, Started, Stopped
<1> QED
  BY <1>1, <1>2, <1>6, <1>7, <1>8, <1>9, KernelContext DEF PosixInv

LEMMA ReturnInv == PosixInv /\ Return => PosixInv'
<1> SUFFICES ASSUME PosixInv, Return PROVE PosixInv'
  OBVIOUS
<1>1. /\ at \in Stopped /\ at' = "user"
      /\ blocked' = (at = "call" /\ mask[cpu]) /\ mask' = [mask EXCEPT ![cpu] = TRUE]
      /\ UNCHANGED <<os, boot, loop, cpu, before, run, saved, unsaved, entered>>
  BY DEF Return, vars
<1>2. Types /\ cpu \in Context /\ mask \in [Context -> BOOLEAN]
  BY DEF PosixInv, Types
<1>3. blocked' = FALSE
  BY <1>1, <1>2 DEF PosixInv, Masks
<1>4. /\ mask' \in [Context -> BOOLEAN]
      /\ \A c \in Context \ {cpu} : mask'[c] = mask[c]
  BY <1>1, <1>2
<1>5. Types' /\ Fit' /\ Masks'
  BY <1>1, <1>3, <1>4 DEF PosixInv, Types, Fit, Started, Masks
<1>6. Working'
  BY <1>1, <1>3 DEF PosixInv, Working, Started, Stopped
<1>7. ~(boot' <= TaskCount) /\ unsaved' = {}
  BY <1>1 DEF PosixInv, Stopped
<1> QED
  BY <1>5, <1>6, <1>7 DEF PosixInv

\* The timer, and steps that change nothing.
LEMMA RestInv == PosixInv /\ (Timer \/ UNCHANGED allVars) => PosixInv'
<1> SUFFICES ASSUME PosixInv, Timer \/ UNCHANGED allVars PROVE PosixInv'
  OBVIOUS
<1>1. UNCHANGED <<vars, cpu, at, blocked, before, run, saved, mask, unsaved, entered>>
  BY DEF Timer, allVars, portVars
<1> QED
  BY <1>1 DEF PosixInv, Types, Fit, Masks, Working, Current, Running, Started, vars

LEMMA PosixInitInv == PosixInit => PosixInv
<1> SUFFICES ASSUME PosixInit PROVE PosixInv
  OBVIOUS
<1>1. /\ cpu = None /\ at = "boot" /\ blocked = TRUE /\ unsaved = {}
      /\ run = [c \in Context |-> c = None]
      /\ saved = [c \in Context |-> [stack |-> c, at |-> "start", blocked |-> TRUE]]
      /\ mask = [c \in Context |-> TRUE]
  BY DEF PosixInit
<1>2. \A t \in Task : os.state[t] = "SUSPENDED"
  BY DEF PosixInit, Init
<1>3. OwnFrames(saved) /\ \A c \in Context : saved[c].at = "start"
  BY <1>1 DEF OwnFrames, Frame, Stopped
<1>4. Types
  BY <1>1, <1>3, Contexts DEF Types
<1> QED
  BY <1>1, <1>2, <1>3, <1>4 DEF PosixInv, Fit, Started, Masks, Working, Stopped

LEMMA AutostartStepInv == PosixInv /\ IInv /\ IInv' /\ AutostartStep => PosixInv'
<1> SUFFICES ASSUME PosixInv, IInv, IInv', AutostartStep PROVE PosixInv'
  OBVIOUS
<1>1. Autostart /\ UNCHANGED portVars
  BY DEF AutostartStep
<1>2. boot <= TaskCount /\ boot' <= TaskCount
  BY <1>1, CountsAssumption DEF IInv, Autostart
<1>3. \A t \in Task : os'.state[t] \in {"SUSPENDED", "READY_FIRST"}
  BY <1>2 DEF IInv, Booting
<1>4. at = "boot" /\ cpu = None
  BY <1>2 DEF PosixInv
<1>5. Fit'
  BY <1>3 DEF Fit, Started
<1>6. Types' /\ Masks' /\ Working'
  BY <1>1, <1>4 DEF PosixInv, Types, Masks, Working, Stopped, portVars
<1> QED
  BY <1>1, <1>4, <1>5, <1>6 DEF PosixInv, portVars

-------------------------------------------------------------------------------
(* The theorems *)

\* Whatever the port does, the kernel in it makes the steps of OsKernel.
THEOREM PosixRunsKernel == PosixSpec => Spec
<1>1. PosixInit => Init
  BY DEF PosixInit
<1>2. [PosixNext]_allVars => [Next]_vars
  <2> SUFFICES ASSUME [PosixNext]_allVars PROVE [Next]_vars
    OBVIOUS
  <2>1. CASE Syscall \/ ExpireStep
    BY <2>1, KernelSteps DEF Syscall, ExpireStep
  <2>2. CASE AutostartStep \/ StartStep \/ SyscallEnter \/ SyscallSwitch \/ Handle \/ HandlerSwitch
    BY <2>2 DEF AutostartStep, StartStep, SyscallEnter, SyscallSwitch, Handle, HandlerSwitch, Next
  <2>3. CASE Return \/ Timer
    BY <2>3 DEF Return, Timer
  <2>4. CASE UNCHANGED allVars
    BY <2>4 DEF allVars
  <2> QED
    BY <2>1, <2>2, <2>3, <2>4 DEF PosixNext
<1> QED
  BY <1>1, <1>2, PTL DEF PosixSpec, Spec

LEMMA PosixNextInv ==
  Orderly /\ PosixInv /\ IInv /\ IInv' /\ [PosixNext]_allVars => PosixInv'
BY AutostartStepInv, StartStepInv, SyscallInv, EnterInv, SyscallSwitchInv, HandlerSwitchInv,
   ExpireStepInv, ReturnInv, RestInv DEF PosixNext

LEMMA PosixInvariance ==
  ASSUME Orderly
  PROVE  PosixSpec => []PosixInv
<1>1. PosixInit => PosixInv
  BY PosixInitInv
<1>2. PosixInv /\ IInv /\ IInv' /\ [PosixNext]_allVars => PosixInv'
  BY PosixNextInv
<1>3. PosixSpec => []IInv
  BY PosixRunsKernel, Invariance, PTL
<1> QED
  BY <1>1, <1>2, <1>3, PTL DEF PosixSpec

\* User code is that of the running task, and the tick can interrupt it.
THEOREM CurrentRuns ==
  ASSUME Orderly
  PROVE  PosixSpec => []RunsCurrent
<1>1. PosixInv => RunsCurrent
  BY DEF PosixInv, Working, RunsCurrent
<1> QED
  BY <1>1, PosixInvariance, PTL

\* No live context is ever left without a save, and a preempted one is resumed on its own
\* stack, in front of its entry exactly while its activation has not run.
THEOREM PreemptedCanResume ==
  ASSUME Orderly
  PROVE  PosixSpec => []CanResume
<1>1. ASSUME PosixInv PROVE CanResume
  <2>1. unsaved = {} /\ \A c \in Context : saved[c].stack = c
    BY <1>1 DEF PosixInv, Types, OwnFrames
  <2>2. \A t \in Task : os.state[t] = "READY" /\ cpu # t =>
          (saved[t].at = "entry" <=> t \notin entered)
    BY <1>1 DEF PosixInv, Fit, Started
  <2> QED
    BY <2>1, <2>2, Contexts DEF CanResume
<1> QED
  BY <1>1, PosixInvariance, PTL

\* An activation runs from the entry function of its task on.
THEOREM ActivationsBeginAtEntry ==
  ASSUME Orderly
  PROVE  PosixSpec => []BeginsAtEntry
<1>1. PosixInv => BeginsAtEntry
  BY DEF PosixInv, Working, BeginsAtEntry
<1> QED
  BY <1>1, PosixInvariance, PTL
===============================================================================
