--------------------------- MODULE OsArchHCS12Proofs ---------------------------
(***************************************************************************)
(* On the HCS12 port the code that runs is the code of the running task,   *)
(* preempted tasks can be resumed and calls read their own results, for    *)
(* every number of tasks and wherever the tick comes.                      *)
(***************************************************************************)
EXTENDS OsArchHCS12, OsKernelProofs

Point == UserPoint \cup {"entry"}
Frame == [stack : Context, at : Point, blocked : BOOLEAN]
Owner == Context \cup {Nobody}

-------------------------------------------------------------------------------
(***************************************************************************)
(* The inductive invariant.  The frame in the state of a context is that   *)
(* of its own stack at all times, even when it is out of date; it is up to *)
(* date while another context runs, and for the running one in the alarm   *)
(* loop.  There, in a call, the result is still to be written.             *)
(***************************************************************************)
OwnFrames(s) == s \in [Context -> Frame] /\ \A c \in Context : s[c].stack = c

Types ==
  /\ cpu \in Context
  /\ at \in UserPoint \cup {"boot", "kernel"}
  /\ blocked \in BOOLEAN
  /\ prev = cpu
  /\ OwnFrames(sp)
  /\ param \in [Context -> Owner]
  /\ res \in [Context -> Owner]

\* The contexts whose frames are up to date.
Asleep == IF at = "kernel" THEN Context ELSE Context \ {cpu}

\* A started task waits in front of its entry exactly when it has not run.
Fit == \A t \in Asleep \cap Task : Started(t) => (sp[t].at = "entry" <=> t \notin entered)

\* A context that waits inside a call finds its parameters, and its result.
CallsKept ==
  \A c \in Asleep :
    /\ sp[c].at = "param" => param[c] = c
    /\ sp[c].at = "result" /\ (c # cpu \/ loop = "isr") => res[c] = c

CallOfCpu ==
  /\ at = "param" => param[cpu] = cpu
  /\ at = "result" => res[cpu] = cpu

Chosen == at \in UserPoint => cpu = Current(os) /\ (cpu \in Task => cpu \in entered)

HCS12Inv ==
  /\ Types /\ Fit /\ CallsKept /\ CallOfCpu /\ Chosen
  /\ boot <= TaskCount => at = "boot" /\ cpu = None

LEMMA Contexts == Task \subseteq Context /\ None \in Context /\ None \notin Task
BY CountsAssumption DEF Context, None, INVALID, Task

\* OS_ARCH_RESTORE from frames s that are up to date, after the tasks in P were prepared.
LEMMA RestoreInv ==
  ASSUME NEW s, OwnFrames(s), NEW P, P \subseteq Task,
         \A t \in Task : os'.state[t] \in {"RUNNING", "READY"} =>
           (s[t].at = "entry" <=> t \notin entered \ P),
         sp' = s, prev' = Current(os'), Restored(s), entered' = EnteredWith(s, P),
         param' \in [Context -> Owner], res' \in [Context -> Owner],
         \A c \in Context : /\ s[c].at = "param" => param'[c] = c
                            /\ s[c].at = "result" => res'[c] = c,
         ~(boot' <= TaskCount)
  PROVE  HCS12Inv'
<1>1. prev' \in Context /\ (prev' \in Task => os'.state[prev'] = "RUNNING")
  BY Contexts DEF Current, Running
<1>2. s[prev'] \in Frame /\ s[prev'].stack = prev'
  BY <1>1 DEF OwnFrames
<1>3. /\ cpu' = prev' /\ blocked' = s[prev'].blocked
      /\ at' = IF s[prev'].at = "entry" THEN "user" ELSE s[prev'].at
  BY <1>2 DEF Restored
<1>4. at' \in UserPoint /\ blocked' \in BOOLEAN
  BY <1>2, <1>3 DEF Frame, Point, UserPoint
<1>5. at' # "kernel" /\ Asleep' = Context \ {cpu'}
  BY <1>4 DEF UserPoint, Asleep
<1>6. Types'
  BY <1>1, <1>3, <1>4 DEF Types
<1>7. Fit'
  BY <1>3, <1>5 DEF Fit, EnteredWith, Started
<1>8. CallsKept' /\ CallOfCpu'
  BY <1>1, <1>3, <1>5 DEF CallsKept, CallOfCpu
<1>9. Chosen'
  <2>1. cpu' = Current(os')
    BY <1>3
  <2>2. ASSUME cpu' \in Task PROVE cpu' \in entered'
    BY <1>1, <1>3, <2>2 DEF EnteredWith
  <2> QED
    BY <2>1, <2>2 DEF Chosen
<1> QED
  BY <1>6, <1>7, <1>8, <1>9 DEF HCS12Inv

-------------------------------------------------------------------------------
(* Frames *)

LEMMA StoredFrames ==
  ASSUME Types, NEW point \in UserPoint
  PROVE  /\ OwnFrames(Stored(point))
         /\ Stored(point)[cpu].at = point
         /\ \A c \in Context \ {cpu} : Stored(point)[c] = sp[c]
<1> DEFINE f == [stack |-> cpu, at |-> point, blocked |-> blocked]
<1>1. f \in Frame /\ f.stack = cpu /\ f.at = point
  BY DEF Types, Frame, Point
<1>2. Stored(point) = [sp EXCEPT ![cpu] = f]
  BY DEF Stored, Types
<1> HIDE DEF f
<1> QED
  BY <1>1, <1>2 DEF OwnFrames, Types

LEMMA MadeFrames ==
  ASSUME NEW s, OwnFrames(s), NEW P, P \subseteq Task
  PROVE  /\ OwnFrames(Made(s, P))
         /\ \A t \in P : Made(s, P)[t].at = "entry"
         /\ \A c \in Context \ P : Made(s, P)[c] = s[c]
<1>1. \A t \in P : Entry(t) \in Frame /\ Entry(t).stack = t /\ Entry(t).at = "entry"
  BY Contexts DEF Entry, Frame, Point
<1>2. Made(s, P) = [c \in Context |-> IF c \in P THEN Entry(c) ELSE s[c]]
  BY DEF Made
<1> QED
  BY <1>1, <1>2, Contexts DEF OwnFrames

\* A trap that is served in one step.
LEMMA TrapInv ==
  ASSUME HCS12Inv, NEW P, P \subseteq Task, Follows(P), Trap(P),
         at = "param", ~(boot' <= TaskCount)
  PROVE  HCS12Inv'
<1> DEFINE s == Made(Stored("result"), P)
<1>1. Types /\ cpu \in Context
  BY DEF HCS12Inv, Types
<1>2. /\ OwnFrames(Stored("result")) /\ Stored("result")[cpu].at = "result"
      /\ \A c \in Context \ {cpu} : Stored("result")[c] = sp[c]
  BY <1>1, StoredFrames DEF UserPoint
<1>3. /\ OwnFrames(s)
      /\ \A t \in P : s[t].at = "entry"
      /\ \A c \in Context \ P : s[c] = Stored("result")[c]
  BY <1>2, MadeFrames
<1>4. /\ sp' = s /\ prev' = Current(os') /\ Restored(s) /\ entered' = EnteredWith(s, P)
      /\ res' = [res EXCEPT ![cpu] = cpu] /\ param' = param
  BY <1>1 DEF Trap, Types
<1> HIDE DEF s
<1>5. ASSUME NEW t \in Task, os'.state[t] \in {"RUNNING", "READY"}
      PROVE  s[t].at = "entry" <=> t \notin entered \ P
  <2>1. CASE t \in P
    BY <1>3, <2>1
  <2>2. CASE t \notin P /\ t = cpu
    BY <1>2, <1>3, <2>2, Contexts DEF HCS12Inv, Chosen, UserPoint
  <2>3. CASE t \notin P /\ t # cpu
    <3>1. Started(t) /\ s[t] = sp[t] /\ t \in Asleep
      BY <1>2, <1>3, <1>5, <2>3, Contexts DEF Follows, Asleep
    <3> QED
      BY <2>3, <3>1 DEF HCS12Inv, Fit
  <2> QED
    BY <2>1, <2>2, <2>3
<1>6. res' \in [Context -> Owner] /\ param' \in [Context -> Owner]
  BY <1>1, <1>4 DEF Types, Owner
<1>7. ASSUME NEW c \in Context
      PROVE  /\ s[c].at = "param" => param'[c] = c
             /\ s[c].at = "result" => res'[c] = c
  <2>1. CASE c \in P
    BY <1>3, <2>1
  <2>2. CASE c \notin P /\ c = cpu
    BY <1>1, <1>2, <1>3, <1>4, <2>2 DEF Types
  <2>3. CASE c \notin P /\ c # cpu
    <3>1. s[c] = sp[c] /\ c \in Asleep /\ res'[c] = res[c] /\ param'[c] = param[c]
      BY <1>1, <1>2, <1>3, <1>4, <2>3 DEF Asleep, Types
    <3> QED
      BY <2>3, <3>1 DEF HCS12Inv, CallsKept
  <2> QED
    BY <2>1, <2>2, <2>3
<1> QED
  BY <1>3, <1>4, <1>5, <1>6, <1>7, RestoreInv

LEMMA SwiInv == HCS12Inv /\ IInv /\ Swi => HCS12Inv'
<1> SUFFICES ASSUME HCS12Inv, IInv, Swi PROVE HCS12Inv'
  OBVIOUS
<1>1. /\ at = "param"
      /\ \/ EndingService /\ Trap(PreparedByEnd)
         \/ StayingService /\ Trap(Prepared)
  BY DEF Swi
<1>2. boot > TaskCount /\ ~(boot' <= TaskCount) /\ Running(os)
  BY <1>1, StaysUp, KernelStates, CountsAssumption
<1>3. /\ Follows(Prepared) /\ Prepared \subseteq Task
      /\ Follows(PreparedByEnd) /\ PreparedByEnd \subseteq Task
  BY <1>2, PreparedFollows, EndFollows
<1> QED
  BY <1>1, <1>2, <1>3, TrapInv

LEMMA StartStepInv == HCS12Inv /\ IInv /\ StartStep => HCS12Inv'
<1> SUFFICES ASSUME HCS12Inv, IInv, StartStep PROVE HCS12Inv'
  OBVIOUS
<1> DEFINE s == Made(Stored("start"), Prepared)
<1>1. boot <= TaskCount /\ ~(boot' <= TaskCount)
  BY CountsAssumption DEF StartStep, Start
<1>2. Types /\ cpu = None /\ at = "boot" /\ prev = None
  BY <1>1 DEF HCS12Inv, Types
<1>3. Follows(Prepared) /\ Prepared \subseteq Task
  BY PreparedFollows
<1>4. /\ OwnFrames(Stored("start")) /\ Stored("start")[None].at = "start"
      /\ \A c \in Context \ {None} : Stored("start")[c] = sp[c]
  BY <1>2, StoredFrames DEF UserPoint
<1>5. /\ OwnFrames(s)
      /\ \A t \in Prepared : s[t].at = "entry"
      /\ \A c \in Context \ Prepared : s[c] = Stored("start")[c]
  BY <1>3, <1>4, MadeFrames
<1>6. /\ sp' = s /\ prev' = Current(os') /\ Restored(s) /\ entered' = EnteredWith(s, Prepared)
      /\ res' = [res EXCEPT ![None] = None] /\ param' = [param EXCEPT ![None] = None]
  BY <1>2 DEF StartStep
<1> HIDE DEF s
<1>7. \A c \in Context \ {None} : c \in Asleep
  BY <1>2 DEF Asleep
<1>8. ASSUME NEW t \in Task, os'.state[t] \in {"RUNNING", "READY"}
      PROVE  s[t].at = "entry" <=> t \notin entered \ Prepared
  <2>1. CASE t \in Prepared
    BY <1>5, <2>1
  <2>2. CASE t \notin Prepared
    <3>1. Started(t) /\ s[t] = sp[t] /\ t \in Asleep
      BY <1>3, <1>4, <1>5, <1>7, <1>8, <2>2, Contexts DEF Follows
    <3> QED
      BY <2>2, <3>1 DEF HCS12Inv, Fit
  <2> QED
    BY <2>1, <2>2
<1>9. /\ res' \in [Context -> Owner] /\ param' \in [Context -> Owner]
      /\ \A c \in Context \ {None} : res'[c] = res[c] /\ param'[c] = param[c]
      /\ res'[None] = None /\ param'[None] = None
  BY <1>2, <1>6, Contexts DEF Types, Owner
<1>10. ASSUME NEW c \in Context
       PROVE  /\ s[c].at = "param" => param'[c] = c
              /\ s[c].at = "result" => res'[c] = c
  <2>1. CASE c \in Prepared
    BY <1>5, <2>1
  <2>2. CASE c = None
    BY <1>9, <2>2
  <2>3. CASE c \notin Prepared /\ c # None
    <3>1. s[c] = sp[c] /\ c \in Asleep
      BY <1>4, <1>5, <1>7, <2>3
    <3> QED
      BY <1>2, <1>9, <2>3, <3>1 DEF HCS12Inv, CallsKept
  <2> QED
    BY <2>1, <2>2, <2>3
<1> QED
  BY <1>1, <1>3, <1>5, <1>6, <1>8, <1>9, <1>10, RestoreInv

-------------------------------------------------------------------------------
(* The alarm loop *)

\* A step into the loop: the frame of the running context is stored.
LEMMA EnterKernelInv ==
  ASSUME HCS12Inv, NEW point \in UserPoint,
         at \in UserPoint, at' = "kernel", blocked' = TRUE, sp' = Stored(point),
         (point = "result" /\ loop' = "call") \/ (point = at /\ loop' = "isr"),
         UNCHANGED <<os, boot, cpu, prev, param, res, entered>>
  PROVE  HCS12Inv'
<1>1. Types /\ cpu \in Context
  BY DEF HCS12Inv, Types
<1>2. /\ OwnFrames(sp') /\ sp'[cpu].at = point
      /\ \A c \in Context \ {cpu} : sp'[c] = sp[c]
  BY <1>1, StoredFrames
<1>3. Types'
  BY <1>1, <1>2 DEF Types
<1>4. Asleep' = Context /\ \A c \in Context \ {cpu} : c \in Asleep
  BY DEF Asleep, UserPoint
<1>5. Fit'
  <2>1. ASSUME NEW t \in Task, Started(t) PROVE sp'[t].at = "entry" <=> t \notin entered
    <3>1. CASE t = cpu
      BY <1>2, <3>1 DEF HCS12Inv, Chosen, UserPoint
    <3>2. CASE t # cpu
      BY <1>2, <1>4, <2>1, <3>2, Contexts DEF HCS12Inv, Fit
    <3> QED
      BY <3>1, <3>2
  <2> QED
    BY <2>1 DEF Fit, Started
<1>6. CallsKept'
  <2>1. ASSUME NEW c \in Context
        PROVE  /\ sp'[c].at = "param" => param[c] = c
               /\ sp'[c].at = "result" /\ (c # cpu \/ loop' = "isr") => res[c] = c
    <3>1. CASE c = cpu
      BY <1>2, <3>1 DEF HCS12Inv, CallOfCpu
    <3>2. CASE c # cpu
      BY <1>2, <1>4, <3>2 DEF HCS12Inv, CallsKept
    <3> QED
      BY <3>1, <3>2
  <2> QED
    BY <1>4, <2>1 DEF CallsKept
<1>7. CallOfCpu' /\ Chosen'
  BY DEF CallOfCpu, Chosen, UserPoint
<1>8. ~(boot <= TaskCount)
  BY DEF HCS12Inv, UserPoint
<1> QED
  BY <1>3, <1>5, <1>6, <1>7, <1>8 DEF HCS12Inv

LEMMA SwiEnterInv == HCS12Inv /\ IInv /\ SwiEnter => HCS12Inv'
<1> SUFFICES ASSUME HCS12Inv, IInv, SwiEnter PROVE HCS12Inv'
  OBVIOUS
<1>1. os' = os /\ boot' = boot /\ loop' = "call"
  BY DEF SwiEnter, IncrementCounter
<1>2. /\ at = "param" /\ at' = "kernel" /\ blocked' = TRUE /\ sp' = Stored("result")
      /\ UNCHANGED <<cpu, prev, param, res, entered>>
  BY DEF SwiEnter
<1>3. "result" \in UserPoint /\ at \in UserPoint
  BY <1>2 DEF UserPoint
<1> QED
  BY <1>1, <1>2, <1>3, EnterKernelInv

LEMMA InterruptInv == HCS12Inv /\ IInv /\ Interrupt => HCS12Inv'
<1> SUFFICES ASSUME HCS12Inv, IInv, Interrupt PROVE HCS12Inv'
  OBVIOUS
<1>1. os' = os /\ boot' = boot /\ loop' = "isr"
  BY DEF Interrupt, IsrEnter
<1> QED
  BY <1>1, EnterKernelInv DEF Interrupt

\* In the loop and behind it: the frames once the tasks in P were prepared.
LEMMA MadeInLoop ==
  ASSUME HCS12Inv, at = "kernel", NEW P, P \subseteq Task, Follows(P)
  PROVE  /\ OwnFrames(Made(sp, P))
         /\ \A t \in Task : os'.state[t] \in {"RUNNING", "READY"} =>
              (Made(sp, P)[t].at = "entry" <=> t \notin entered \ P)
         /\ \A c \in Context :
              /\ Made(sp, P)[c].at = "param" => param[c] = c
              /\ Made(sp, P)[c].at = "result" /\ (c # cpu \/ loop = "isr") => res[c] = c
<1> DEFINE s == Made(sp, P)
<1>1. /\ OwnFrames(s)
      /\ \A t \in P : s[t].at = "entry"
      /\ \A c \in Context \ P : s[c] = sp[c]
  BY MadeFrames DEF HCS12Inv, Types
<1>2. Asleep = Context
  BY DEF Asleep
<1> HIDE DEF s
<1>3. ASSUME NEW t \in Task, os'.state[t] \in {"RUNNING", "READY"}
      PROVE  s[t].at = "entry" <=> t \notin entered \ P
  <2>1. CASE t \in P
    BY <1>1, <2>1
  <2>2. CASE t \notin P
    <3>1. Started(t) /\ s[t] = sp[t]
      BY <1>1, <1>3, <2>2, Contexts DEF Follows
    <3> QED
      BY <1>2, <2>2, <3>1, Contexts DEF HCS12Inv, Fit
  <2> QED
    BY <2>1, <2>2
<1>4. ASSUME NEW c \in Context
      PROVE  /\ s[c].at = "param" => param[c] = c
             /\ s[c].at = "result" /\ (c # cpu \/ loop = "isr") => res[c] = c
  <2>1. CASE c \in P
    BY <1>1, <2>1
  <2>2. CASE c \notin P
    BY <1>1, <1>2, <2>2 DEF HCS12Inv, CallsKept
  <2> QED
    BY <2>1, <2>2
<1> QED
  BY <1>1, <1>3, <1>4 DEF s

LEMMA ExpireStepInv == HCS12Inv /\ IInv /\ ExpireStep => HCS12Inv'
<1> SUFFICES ASSUME HCS12Inv, IInv, ExpireStep PROVE HCS12Inv'
  OBVIOUS
<1>1. /\ at = "kernel" /\ sp' = Made(sp, Prepared) /\ entered' = entered \ Prepared
      /\ UNCHANGED <<cpu, at, blocked, pending, prev, param, res>>
  BY DEF ExpireStep
<1>2. boot' = boot /\ loop' = loop
  BY DEF ExpireStep, ExpireAny, Expire, Service
<1>3. Follows(Prepared) /\ Prepared \subseteq Task
  BY PreparedFollows
<1>4. /\ OwnFrames(sp')
      /\ \A t \in Task : os'.state[t] \in {"RUNNING", "READY"} =>
           (sp'[t].at = "entry" <=> t \notin entered')
      /\ \A c \in Context :
           /\ sp'[c].at = "param" => param[c] = c
           /\ sp'[c].at = "result" /\ (c # cpu \/ loop = "isr") => res[c] = c
  BY <1>1, <1>3, MadeInLoop
<1>5. Types'
  BY <1>1, <1>4 DEF HCS12Inv, Types
<1>6. Fit'
  BY <1>4 DEF Fit, Started
<1>7. CallsKept'
  BY <1>1, <1>2, <1>4 DEF CallsKept, Asleep
<1>8. CallOfCpu' /\ Chosen'
  BY <1>1 DEF CallOfCpu, Chosen, UserPoint
<1> QED
  BY <1>1, <1>2, <1>5, <1>6, <1>7, <1>8 DEF HCS12Inv

LEMMA InterruptExitInv == HCS12Inv /\ IInv /\ InterruptExit => HCS12Inv'
<1> SUFFICES ASSUME HCS12Inv, IInv, InterruptExit PROVE HCS12Inv'
  OBVIOUS
<1>1. /\ at = "kernel" /\ IsrExit
      /\ sp' = Made(sp, Prepared) /\ prev' = Current(os') /\ Restored(sp')
      /\ entered' = EnteredWith(sp', Prepared) /\ param' = param /\ res' = res
  BY DEF InterruptExit
<1>2. loop = "isr" /\ ~(boot' <= TaskCount)
  BY <1>1, StaysUp, KernelStates, CountsAssumption DEF IsrExit
<1>3. Follows(Prepared) /\ Prepared \subseteq Task
  BY PreparedFollows
<1>4. /\ OwnFrames(sp')
      /\ \A t \in Task : os'.state[t] \in {"RUNNING", "READY"} =>
           (sp'[t].at = "entry" <=> t \notin entered \ Prepared)
      /\ \A c \in Context :
           /\ sp'[c].at = "param" => param'[c] = c
           /\ sp'[c].at = "result" => res'[c] = c
  BY <1>1, <1>2, <1>3, MadeInLoop
<1>5. param' \in [Context -> Owner] /\ res' \in [Context -> Owner]
  BY <1>1 DEF HCS12Inv, Types
<1> QED
  BY <1>1, <1>2, <1>3, <1>4, <1>5, RestoreInv

\* A call that came out of the loop writes its result at last.
LEMMA SwiExitInv == HCS12Inv /\ IInv /\ SwiExit => HCS12Inv'
<1> SUFFICES ASSUME HCS12Inv, IInv, SwiExit PROVE HCS12Inv'
  OBVIOUS
<1>1. Types /\ cpu \in Context
  BY DEF HCS12Inv, Types
<1>2. /\ at = "kernel" /\ IncrementReturn
      /\ sp' = sp /\ prev' = Current(os') /\ Restored(sp)
      /\ entered' = EnteredWith(sp, {}) /\ param' = param /\ res' = [res EXCEPT ![cpu] = cpu]
  BY <1>1 DEF SwiExit, Types
<1>3. ~(boot' <= TaskCount)
  BY <1>2, StaysUp, KernelStates, CountsAssumption
<1>4. \A t \in Task : os'.state[t] \in {"RUNNING", "READY"} => Started(t)
  <2>1. os' = Fail(os, "E_OK") /\ os \in KernelType
    BY <1>2 DEF IncrementReturn, IInv, KInv, Core
  <2>2. os'.state = os.state
    BY <2>1 DEF Fail, KernelType
  <2> QED
    BY <2>2 DEF Started
<1>5. OwnFrames(sp) /\ Asleep = Context
  BY <1>1, <1>2 DEF Types, Asleep
<1>6. ASSUME NEW t \in Task, os'.state[t] \in {"RUNNING", "READY"}
      PROVE  sp[t].at = "entry" <=> t \notin entered \ {}
  BY <1>4, <1>5, <1>6, Contexts DEF HCS12Inv, Fit
<1>7. res' \in [Context -> Owner] /\ param' \in [Context -> Owner]
  BY <1>1, <1>2 DEF Types, Owner
<1>8. ASSUME NEW c \in Context
      PROVE  /\ sp[c].at = "param" => param'[c] = c
             /\ sp[c].at = "result" => res'[c] = c
  <2>1. CASE c = cpu
    BY <1>1, <1>2, <1>5, <2>1 DEF Types, HCS12Inv, CallsKept
  <2>2. CASE c # cpu
    BY <1>1, <1>2, <1>5, <2>2 DEF Types, HCS12Inv, CallsKept
  <2> QED
    BY <2>1, <2>2
<1> QED
  BY <1>2, <1>3, <1>5, <1>6, <1>7, <1>8, RestoreInv

-------------------------------------------------------------------------------
(* Calls and start-up *)

\* A step of the running code that leaves its frame and the other contexts alone.
LEMMA PointInv ==
  ASSUME HCS12Inv, at \in UserPoint, at' \in UserPoint, blocked' \in BOOLEAN,
         UNCHANGED <<os, boot, cpu, prev, sp, entered>>,
         param' \in [Context -> Owner], res' \in [Context -> Owner],
         \A c \in Context \ {cpu} : param'[c] = param[c] /\ res'[c] = res[c],
         CallOfCpu'
  PROVE  HCS12Inv'
<1>1. Asleep = Context \ {cpu} /\ Asleep' = Context \ {cpu}
  BY DEF Asleep, UserPoint
<1>2. Types' /\ Fit'
  BY <1>1 DEF HCS12Inv, Types, Fit, Started
<1>3. CallsKept'
  BY <1>1 DEF HCS12Inv, CallsKept
<1>4. Chosen'
  BY DEF HCS12Inv, Chosen
<1>5. ~(boot' <= TaskCount)
  BY DEF HCS12Inv, UserPoint
<1> QED
  BY <1>2, <1>3, <1>4, <1>5 DEF HCS12Inv

LEMMA CallInv == HCS12Inv /\ (Enable \/ SetParam \/ Result) => HCS12Inv'
<1> SUFFICES ASSUME HCS12Inv, Enable \/ SetParam \/ Result PROVE HCS12Inv'
  OBVIOUS
<1>1. /\ cpu \in Context /\ prev = cpu /\ blocked \in BOOLEAN
      /\ param \in [Context -> Owner] /\ res \in [Context -> Owner]
      /\ cpu \in Owner /\ Nobody \in Owner
  BY DEF HCS12Inv, Types, Owner
<1>2. CASE Enable \/ Result
  <2>1. /\ at \in UserPoint /\ at' = "user" /\ blocked' \in BOOLEAN
        /\ param' = [param EXCEPT ![cpu] = Nobody] /\ res' = [res EXCEPT ![cpu] = Nobody]
        /\ UNCHANGED <<os, boot, cpu, prev, sp, entered>>
    BY <1>1, <1>2 DEF Enable, Result, UserPoint, vars
  <2>2. /\ param' \in [Context -> Owner] /\ res' \in [Context -> Owner]
        /\ \A c \in Context \ {cpu} : param'[c] = param[c] /\ res'[c] = res[c]
    BY <1>1, <2>1
  <2>3. CallOfCpu' /\ at' \in UserPoint
    BY <2>1 DEF CallOfCpu, UserPoint
  <2> QED
    BY <2>1, <2>2, <2>3, PointInv
<1>3. CASE SetParam
  <2>1. /\ at \in UserPoint /\ at' = "param" /\ blocked' \in BOOLEAN
        /\ param' = [param EXCEPT ![cpu] = cpu] /\ res' = res
        /\ UNCHANGED <<os, boot, cpu, prev, sp, entered>>
    BY <1>1, <1>3 DEF SetParam, UserPoint, vars
  <2>2. /\ param' \in [Context -> Owner] /\ res' \in [Context -> Owner]
        /\ \A c \in Context \ {cpu} : param'[c] = param[c] /\ res'[c] = res[c]
        /\ param'[cpu] = cpu
    BY <1>1, <2>1
  <2>3. CallOfCpu' /\ at' \in UserPoint
    BY <2>1, <2>2 DEF CallOfCpu, UserPoint
  <2> QED
    BY <2>1, <2>2, <2>3, PointInv
<1> QED
  BY <1>2, <1>3

\* The timer, and steps that change nothing.
LEMMA RestInv == HCS12Inv /\ (Timer \/ UNCHANGED allVars) => HCS12Inv'
<1> SUFFICES ASSUME HCS12Inv, Timer \/ UNCHANGED allVars PROVE HCS12Inv'
  OBVIOUS
<1>1. UNCHANGED <<vars, cpu, at, blocked, prev, sp, param, res, entered>>
  BY DEF Timer, allVars, portVars
<1> QED
  BY <1>1 DEF HCS12Inv, Types, Asleep, Fit, CallsKept, CallOfCpu, Chosen, Started, vars

LEMMA HCS12InitInv == HCS12Init => HCS12Inv
<1> SUFFICES ASSUME HCS12Init PROVE HCS12Inv
  OBVIOUS
<1>1. /\ cpu = None /\ at = "boot" /\ blocked = TRUE /\ prev = None
      /\ sp = [c \in Context |-> [stack |-> c, at |-> "start", blocked |-> TRUE]]
      /\ param = [c \in Context |-> Nobody] /\ res = [c \in Context |-> Nobody]
  BY DEF HCS12Init
<1>2. \A t \in Task : os.state[t] = "SUSPENDED"
  BY DEF HCS12Init, Init
<1>3. OwnFrames(sp) /\ \A c \in Context : sp[c].at = "start"
  BY <1>1 DEF OwnFrames, Frame, Point, UserPoint
<1>4. Types
  BY <1>1, <1>3, Contexts DEF Types, Owner
<1>5. Fit
  BY <1>2 DEF Fit, Started
<1>6. CallsKept
  BY <1>3 DEF CallsKept, Asleep
<1> QED
  BY <1>1, <1>4, <1>5, <1>6 DEF HCS12Inv, CallOfCpu, Chosen, UserPoint

LEMMA AutostartStepInv == HCS12Inv /\ IInv /\ IInv' /\ AutostartStep => HCS12Inv'
<1> SUFFICES ASSUME HCS12Inv, IInv, IInv', AutostartStep PROVE HCS12Inv'
  OBVIOUS
<1>1. Autostart /\ UNCHANGED portVars
  BY DEF AutostartStep
<1>2. boot <= TaskCount /\ boot' <= TaskCount
  BY <1>1, CountsAssumption DEF IInv, Autostart
<1>3. \A t \in Task : os'.state[t] \in {"SUSPENDED", "READY_FIRST"}
  BY <1>2 DEF IInv, Booting
<1>4. at = "boot"
  BY <1>2 DEF HCS12Inv
<1>5. Fit'
  BY <1>3 DEF Fit, Started
<1>6. CallsKept'
  BY <1>1, <1>4 DEF HCS12Inv, CallsKept, Asleep, portVars, Autostart
<1> QED
  BY <1>1, <1>2, <1>4, <1>5, <1>6
  DEF HCS12Inv, Types, CallOfCpu, Chosen, UserPoint, portVars

-------------------------------------------------------------------------------
(* The theorems *)

\* Whatever the port does, the kernel in it makes the steps of OsKernel.
THEOREM HCS12RunsKernel == HCS12Spec => Spec
<1>1. HCS12Init => Init
  BY DEF HCS12Init
<1>2. [HCS12Next]_allVars => [Next]_vars
  <2> SUFFICES ASSUME [HCS12Next]_allVars PROVE [Next]_vars
    OBVIOUS
  <2>1. CASE Swi \/ ExpireStep
    BY <2>1, KernelSteps DEF Swi, ExpireStep
  <2>2. CASE AutostartStep \/ StartStep \/ SwiEnter \/ SwiExit \/ Interrupt \/ InterruptExit
    BY <2>2 DEF AutostartStep, StartStep, SwiEnter, SwiExit, Interrupt, InterruptExit, Next
  <2>3. CASE Enable \/ SetParam \/ Result \/ Timer
    BY <2>3 DEF Enable, SetParam, Result, Timer
  <2>4. CASE UNCHANGED allVars
    BY <2>4 DEF allVars
  <2> QED
    BY <2>1, <2>2, <2>3, <2>4 DEF HCS12Next
<1> QED
  BY <1>1, <1>2, PTL DEF HCS12Spec, Spec

LEMMA HCS12NextInv ==
  Orderly /\ HCS12Inv /\ IInv /\ IInv' /\ [HCS12Next]_allVars => HCS12Inv'
BY AutostartStepInv, StartStepInv, CallInv, SwiInv, SwiEnterInv, SwiExitInv, InterruptInv,
   InterruptExitInv, ExpireStepInv, RestInv DEF HCS12Next

LEMMA HCS12Invariance ==
  ASSUME Orderly
  PROVE  HCS12Spec => []HCS12Inv
<1>1. HCS12Init => HCS12Inv
  BY HCS12InitInv
<1>2. HCS12Inv /\ IInv /\ IInv' /\ [HCS12Next]_allVars => HCS12Inv'
  BY HCS12NextInv
<1>3. HCS12Spec => []IInv
  BY HCS12RunsKernel, Invariance, PTL
<1> QED
  BY <1>1, <1>2, <1>3, PTL DEF HCS12Spec

\* Wherever user code runs, Os_Arch_Ctx_Prev and the kernel name its context.
THEOREM CurrentRuns ==
  ASSUME Orderly
  PROVE  HCS12Spec => []RunsCurrent
<1>1. HCS12Inv => RunsCurrent
  BY DEF HCS12Inv, Types, Chosen, RunsCurrent
<1> QED
  BY <1>1, HCS12Invariance, PTL

\* A trap finds the parameters of its own call, and a call reads its own result, whatever
\* ran in between.
THEOREM CallsAreOwn ==
  ASSUME Orderly
  PROVE  HCS12Spec => []CallIsOwn
<1>1. HCS12Inv => CallIsOwn
  BY DEF HCS12Inv, Types, CallOfCpu, CallIsOwn
<1> QED
  BY <1>1, HCS12Invariance, PTL

\* The state of a preempted task holds a frame of its own stack, that of its entry
\* exactly while its activation has not run.
THEOREM PreemptedCanResume ==
  ASSUME Orderly
  PROVE  HCS12Spec => []CanResume
<1>1. ASSUME HCS12Inv PROVE CanResume
  <2>1. \A c \in Context : sp[c].stack = c
    BY <1>1 DEF HCS12Inv, Types, OwnFrames
  <2>2. ASSUME NEW t \in Task, os.state[t] = "READY", cpu # t
        PROVE  sp[t].stack = t /\ (sp[t].at = "entry" <=> t \notin entered)
    <3>1. t \in Asleep /\ Started(t)
      BY <2>2, Contexts DEF Asleep, Started
    <3> QED
      BY <1>1, <2>1, <3>1, Contexts DEF HCS12Inv, Fit
  <2> QED
    BY <2>1, <2>2, Contexts DEF CanResume
<1> QED
  BY <1>1, HCS12Invariance, PTL

\* An activation runs from the entry function of its task on.
THEOREM ActivationsBeginAtEntry ==
  ASSUME Orderly
  PROVE  HCS12Spec => []BeginsAtEntry
<1>1. HCS12Inv => BeginsAtEntry
  BY DEF HCS12Inv, Chosen, BeginsAtEntry
<1> QED
  BY <1>1, HCS12Invariance, PTL
===============================================================================
