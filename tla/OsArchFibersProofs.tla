-------------------------- MODULE OsArchFibersProofs --------------------------
(***************************************************************************)
(* The fibers port keeps the fibers it needs, loses none, does not enter   *)
(* the kernel twice and strands no tick, for every number of tasks and     *)
(* whatever the two threads do.                                            *)
(***************************************************************************)
EXTENDS OsArchFibers, OsKernelProofs

\* The system's fiber is no task's, and no fiber is the null handle.
LEMMA Fibers ==
  /\ System \in Fiber /\ System[1] = None /\ None \notin Task /\ System # Null
  /\ \A h \in Fiber \ {System} : h[1] \in Task
  /\ \A h \in Fiber : h # Null
  /\ \A t \in Task : t \in Int
BY CountsAssumption DEF Fiber, System, Null, Task, None, INVALID

-------------------------------------------------------------------------------
(* Stacks of frames *)

Point == {"boot", "user", "entry", "serve", "kernel", "back", "start", "open"}
Frame == [at : Point, mask : BOOLEAN]

\* A stack begins in user code or in the start-up, and only its last frame may be in the
\* kernel or in front of its entry function.
Stack(s) ==
  /\ s \in Seq(Frame)
  /\ s # <<>>
  /\ s[1].at \in {"user", "boot"}
  /\ \A i \in 1 .. Len(s) : s[i].at \in {"kernel", "entry"} => i = Len(s)

LEMMA StackParts ==
  ASSUME NEW s, Stack(s)
  PROVE  /\ s \in Seq(Frame) /\ Len(s) \in Nat /\ Len(s) >= 1
         /\ \A i \in 1 .. Len(s) : s[i] \in Frame
         /\ Last(s) \in Frame /\ Last(s) = s[Len(s)]
         /\ Last(s).at \notin {"user", "boot"} => Len(s) > 1
<1>1. s \in Seq(Frame) /\ Len(s) \in Nat /\ Len(s) >= 1
  BY EmptySeq, LenProperties DEF Stack
<1>2. \A i \in 1 .. Len(s) : s[i] \in Frame
  BY <1>1, ElementOfSeq
<1>3. Len(s) \in 1 .. Len(s)
  BY <1>1
<1>4. Last(s) = s[Len(s)]
  BY DEF Last
<1> QED
  BY <1>1, <1>2, <1>3, <1>4 DEF Stack

\* A call on top of code that may make one.
LEMMA PushStack ==
  ASSUME NEW s, Stack(s), Last(s).at \notin {"kernel", "entry"}, NEW f \in Frame
  PROVE  Stack(Append(s, f)) /\ Last(Append(s, f)) = f
<1> DEFINE n == Append(s, f)
<1>1. /\ n \in Seq(Frame) /\ n # <<>> /\ Len(n) = Len(s) + 1
      /\ \A i \in 1 .. Len(s) : n[i] = s[i]
      /\ n[Len(s) + 1] = f
  BY StackParts, AppendProperties
<1>2. Last(n) = n[Len(n)]
  BY DEF Last
<1> HIDE DEF n
<1>3. n[1] = s[1] /\ Len(s) \in Nat
  BY <1>1, StackParts
<1>4. ASSUME NEW i \in 1 .. Len(n), n[i].at \in {"kernel", "entry"} PROVE i = Len(n)
  BY <1>1, <1>4, StackParts DEF Stack
<1>5. Stack(n) /\ Last(n) = f
  BY <1>1, <1>2, <1>3, <1>4 DEF Stack
<1> QED
  BY <1>5 DEF n

\* The frame on top goes on to another point, or returns.
LEMMA FrontStack ==
  ASSUME NEW s, Stack(s), Last(s).at \notin {"user", "boot"}
  PROVE  Stack(Front(s)) /\ Last(Front(s)).at \notin {"kernel", "entry"}
<1> DEFINE n == Front(s)
<1>1. s \in Seq(Frame) /\ Len(s) \in Nat /\ Len(s) > 1 /\ \A i \in 1 .. Len(s) : s[i] \in Frame
  BY StackParts
<1>2. /\ n \in Seq(Frame) /\ Len(n) = Len(s) - 1
      /\ \A i \in 1 .. Len(s) - 1 : n[i] = s[i]
  <2>1. n = SubSeq(s, 1, Len(s) - 1)
    BY DEF Front
  <2>2. \A i \in 1 .. Len(s) - 1 : s[i] \in Frame
    BY <1>1
  <2> QED
    BY <1>1, <2>1, <2>2, SubSeqProperties
<1>3. Last(n) = n[Len(n)]
  BY DEF Last
<1> HIDE DEF n
<1>4. n # <<>> /\ n[1] = s[1] /\ Len(n) \in 1 .. Len(s) - 1
  BY <1>1, <1>2, EmptySeq
<1>5. \A i \in 1 .. Len(n) : n[i].at \notin {"kernel", "entry"}
  BY <1>1, <1>2 DEF Stack
<1>6. Stack(n) /\ Last(n).at \notin {"kernel", "entry"}
  BY <1>2, <1>3, <1>4, <1>5 DEF Stack
<1> QED
  BY <1>6 DEF n

LEMMA ReplaceStack ==
  ASSUME NEW s, Stack(s), Last(s).at \notin {"user", "boot"}, NEW f \in Frame
  PROVE  Stack(Append(Front(s), f)) /\ Last(Append(Front(s), f)) = f
BY FrontStack, PushStack

\* The stack of a new fiber.
LEMMA EntryStack ==
  LET s == <<At("user"), At("entry")>>
  IN  s \in Seq(Frame) /\ Stack(s) /\ Last(s) = At("entry") /\ Last(s).at = "entry"
<1> DEFINE s == <<At("user"), At("entry")>>
<1>1. At("user") \in Frame /\ At("entry") \in Frame
  BY DEF At, Frame, Point
<1>2. s \in Seq(Frame) /\ Len(s) = 2 /\ s[1] = At("user") /\ s[2] = At("entry") /\ s # <<>>
  <2>1. s \in Seq(Frame)
    BY <1>1
  <2>2. Len(s) = 2 /\ s[1] = At("user") /\ s[2] = At("entry")
    OBVIOUS
  <2> QED
    BY <2>1, <2>2, EmptySeq
<1>3. s[1].at = "user" /\ s[2].at = "entry"
  BY <1>2 DEF At
<1>4. Last(s) = s[2]
  BY <1>2 DEF Last
<1> HIDE DEF s
<1>5. s \in Seq(Frame) /\ Stack(s) /\ Last(s) = At("entry") /\ Last(s).at = "entry"
  BY <1>2, <1>3, <1>4 DEF Stack
<1> QED
  BY <1>5 DEF s

-------------------------------------------------------------------------------
(* Os_Arch_PrepareState *)

Owned ==
  /\ fiber \in [Task -> Fiber \cup {Null}]
  /\ old \in [Task -> Fiber \cup {Null}]
  /\ \A t \in Task : /\ fiber[t] # Null => fiber[t][1] = t
                     /\ old[t] # Null => old[t][1] = t

\* Which fibers exist: the one that runs, that of the system, and no forgotten one.
Existing ==
  /\ current \in alive
  /\ System \in alive
  /\ alive \subseteq Fiber
  /\ Owned
  /\ NoFiberLost

\* Only the fiber that runs is spared, of the fibers of a task that is prepared.
LEMMA SparedFibers ==
  ASSUME Existing, NEW P, P \subseteq Task
  PROVE  /\ Spared(P) \subseteq alive
         /\ current \in Spared(P)
         /\ System \in Spared(P)
         /\ \A h \in alive : h[1] \notin P => h \in Spared(P)
         /\ \A h \in Spared(P) : h[1] \in P => h = current
<1>1. Spared(P) \subseteq alive /\ \A h \in alive : h[1] \notin P => h \in Spared(P)
  BY DEF Spared
<1>2. System \in Spared(P)
  BY <1>1, Fibers DEF Existing
<1>3. current \in Spared(P)
  <2>1. CASE current[1] \in P
    <3>1. current \in alive \ {System} /\ current # Null
      BY <2>1, Fibers DEF Existing
    <3>2. current = fiber[current[1]] \/ current = old[current[1]]
      BY <3>1 DEF Existing, NoFiberLost
    <3> QED
      BY <2>1, <3>1, <3>2 DEF Spared, Deleted
  <2>2. CASE current[1] \notin P
    BY <1>1, <2>2 DEF Existing
  <2> QED
    BY <2>1, <2>2
<1>4. ASSUME NEW h \in Spared(P), h[1] \in P PROVE h = current
  <2>1. h # Null
    BY <1>1, Fibers DEF Existing
  <2>2. h \in {Deleted(old[h[1]]), Deleted(fiber[h[1]])}
    BY <1>4 DEF Spared
  <2> QED
    BY <2>1, <2>2 DEF Deleted
<1> QED
  BY <1>1, <1>2, <1>3, <1>4

\* There is a name for the new fiber.
LEMMA NewFibers ==
  ASSUME Existing, NEW P, P \subseteq Task, NEW t \in P
  PROVE  /\ NewFiber(t, Spared(P)) \in Fiber \ {System}
         /\ NewFiber(t, Spared(P))[1] = t
         /\ NewFiber(t, Spared(P)) # current
         /\ NewFiber(t, Spared(P)) \notin Spared(P)
<1> DEFINE S == ({t} \X (0 .. 2)) \ {current}
           Q == {h \in S : h \notin Spared(P)}
<1>1. <<t, 0>> \in {t} \X (0 .. 2) /\ <<t, 1>> \in {t} \X (0 .. 2) /\ <<t, 0>> # <<t, 1>>
  OBVIOUS
<1>2. PICK h \in S : TRUE
  BY <1>1
<1>3. \A g \in S : g \in Fiber \ {System} /\ g[1] = t /\ g # current
  <2>1. \A g \in S : g \in Task \X (0 .. 2) /\ g[1] = t
    OBVIOUS
  <2> QED
    BY <2>1, Fibers DEF Fiber
<1>4. \A g \in S : g \notin Spared(P)
  BY <1>3, SparedFibers
<1>5. NewFiber(t, Spared(P)) = CHOOSE g \in S : g \notin Spared(P)
  BY DEF NewFiber
<1> HIDE DEF S
<1>6. NewFiber(t, Spared(P)) \in S
  BY <1>2, <1>4, <1>5
<1> QED
  BY <1>3, <1>4, <1>6

\* What the preparation of some tasks leaves: the frames are s before it, or those of a
\* new fiber.
LEMMA PrepareExisting ==
  ASSUME Existing, NEW P, P \subseteq Task, NEW s, Prepare(P, s)
  PROVE  /\ alive' \subseteq Fiber
         /\ current \in alive'
         /\ System \in alive'
         /\ Owned'
         /\ NoFiberLost'
         /\ \A t \in P : fiber'[t] \in alive' \ {current, System}
         /\ \A t \in Task \ P : fiber'[t] = fiber[t] /\ (fiber[t] \in alive => fiber[t] \in alive')
<1> DEFINE made(t) == NewFiber(t, Spared(P))
<1>1. /\ old' = [t \in Task |-> IF t \in P THEN Waiting(t) ELSE old[t]]
      /\ fiber' = [t \in Task |-> IF t \in P THEN made(t) ELSE fiber[t]]
      /\ alive' = Spared(P) \cup {made(t) : t \in P}
  BY DEF Prepare
<1>2. /\ Spared(P) \subseteq alive
      /\ current \in Spared(P)
      /\ System \in Spared(P)
      /\ \A h \in alive : h[1] \notin P => h \in Spared(P)
      /\ \A h \in Spared(P) : h[1] \in P => h = current
  BY SparedFibers
<1>3. \A t \in P : /\ made(t) \in Fiber \ {System} /\ made(t)[1] = t
                   /\ made(t) # current /\ made(t) \notin Spared(P)
  BY NewFibers
<1> HIDE DEF made
<1>4. alive' \subseteq Fiber /\ current \in alive' /\ System \in alive'
  BY <1>1, <1>2, <1>3 DEF Existing
<1>5. \A t \in P : fiber'[t] = made(t) /\ fiber'[t] \in alive' \ {current, System} /\ old'[t] = Waiting(t)
  BY <1>1, <1>3
<1>6. ASSUME NEW t \in Task \ P
      PROVE  fiber'[t] = fiber[t] /\ old'[t] = old[t] /\ (fiber[t] \in alive => fiber[t] \in alive')
  <2>1. fiber'[t] = fiber[t] /\ old'[t] = old[t]
    BY <1>1
  <2>2. ASSUME fiber[t] \in alive PROVE fiber[t] \in alive'
    <3>1. fiber[t][1] = t
      BY <2>2, Fibers DEF Existing, Owned
    <3> QED
      BY <1>1, <1>2, <2>2, <3>1
  <2> QED
    BY <2>1, <2>2
<1>7. \A t \in P : Waiting(t) \in {Null, fiber[t], old[t]}
  BY DEF Waiting, Deleted
<1>8. Owned'
  <2>1. fiber' \in [Task -> Fiber \cup {Null}]
    BY <1>1, <1>3 DEF Existing, Owned
  <2>2. old' \in [Task -> Fiber \cup {Null}]
    BY <1>1, <1>7 DEF Existing, Owned
  <2>3. \A t \in Task : fiber'[t] # Null => fiber'[t][1] = t
    BY <1>3, <1>5, <1>6 DEF Existing, Owned
  <2>4. \A t \in Task : old'[t] # Null => old'[t][1] = t
    BY <1>5, <1>6, <1>7 DEF Existing, Owned
  <2> QED
    BY <2>1, <2>2, <2>3, <2>4 DEF Owned
<1>9. ASSUME NEW h \in alive', h # System PROVE h \in {fiber'[h[1]], old'[h[1]]}
  <2>1. h[1] \in Task
    BY <1>4, <1>9, Fibers
  <2>2. CASE h \in Spared(P) /\ h[1] \in P
    <3>1. h = current /\ h # Null
      BY <1>2, <1>4, <2>2, Fibers
    <3>2. h \in {Deleted(old[h[1]]), Deleted(fiber[h[1]])}
      BY <2>2 DEF Spared
    <3>3. h = Waiting(h[1])
      BY <3>1, <3>2 DEF Waiting, Deleted
    <3> QED
      BY <1>5, <2>2, <3>3
  <2>3. CASE h \in Spared(P) /\ h[1] \notin P
    <3>1. h \in {fiber[h[1]], old[h[1]]}
      BY <1>2, <1>9, <2>3 DEF Existing, NoFiberLost
    <3> QED
      BY <1>6, <2>1, <2>3, <3>1
  <2>4. CASE h \notin Spared(P)
    <3>1. PICK t \in P : h = made(t)
      BY <1>1, <2>4
    <3> QED
      BY <1>3, <1>5, <3>1
  <2> QED
    BY <2>2, <2>3, <2>4
<1>10. NoFiberLost'
  BY <1>9 DEF NoFiberLost
<1> QED
  BY <1>4, <1>5, <1>6, <1>8, <1>10

LEMMA PrepareFrames ==
  ASSUME Existing, NEW P, P \subseteq Task, NEW s \in [Fiber -> Seq(Frame)], Prepare(P, s)
  PROVE  /\ frames' \in [Fiber -> Seq(Frame)]
         /\ \A t \in P : frames'[fiber'[t]] = <<At("user"), At("entry")>>
         /\ \A h \in alive' :
              \/ h \in alive /\ frames'[h] = s[h]
              \/ h \notin {current, System} /\ frames'[h] = <<At("user"), At("entry")>>
         /\ frames'[current] = s[current]
         /\ \A h \in alive' : h[1] \notin P => h \in alive /\ frames'[h] = s[h]
         /\ \A h \in Fiber \ alive' : frames'[h] = <<>>
<1> DEFINE made(t) == NewFiber(t, Spared(P))
           first   == <<At("user"), At("entry")>>
<1>1. /\ fiber' = [t \in Task |-> IF t \in P THEN made(t) ELSE fiber[t]]
      /\ alive' = Spared(P) \cup {made(t) : t \in P}
      /\ frames' = [h \in Fiber |-> IF h \in {made(t) : t \in P} THEN first
                                    ELSE IF h \in alive' THEN s[h] ELSE <<>>]
  BY DEF Prepare
<1>2. Spared(P) \subseteq alive /\ current \in Spared(P)
  BY SparedFibers
<1>3. \A t \in P : /\ made(t) \in Fiber \ {System} /\ made(t)[1] = t
                   /\ made(t) # current /\ made(t) \notin Spared(P)
  BY NewFibers
<1>4. first \in Seq(Frame) /\ <<>> \in Seq(Frame)
  BY EntryStack, EmptySeq
<1>5. alive' \subseteq Fiber
  BY PrepareExisting
<1> HIDE DEF made, first
<1>6. frames' \in [Fiber -> Seq(Frame)]
  BY <1>1, <1>4
<1>7. \A t \in P : frames'[fiber'[t]] = first
  BY <1>1, <1>3
<1>8. ASSUME NEW h \in Spared(P) PROVE h \in alive /\ frames'[h] = s[h]
  <2>1. h \notin {made(t) : t \in P}
    BY <1>3, <1>8
  <2> QED
    BY <1>1, <1>2, <1>5, <1>8, <2>1
<1>9. ASSUME NEW h \in alive', h \notin Spared(P)
      PROVE  h \notin {current, System} /\ frames'[h] = first /\ h[1] \in P
  BY <1>1, <1>3, <1>9
<1>10. \A h \in Fiber \ alive' : frames'[h] = <<>>
  BY <1>1
<1> QED
  BY <1>2, <1>6, <1>7, <1>8, <1>9, <1>10 DEF first

-------------------------------------------------------------------------------
(***************************************************************************)
(* The inductive invariant.  A fiber that does not run waits behind a      *)
(* switch or in front of its entry function, so whatever the kernel        *)
(* chooses, the code that runs next has the mask closed and belongs to the *)
(* task of the kernel; in the alarm loop, where the kernel may choose      *)
(* another task before the switch, before still names the fiber in use.    *)
(***************************************************************************)
Resumable == \A t \in Task : Started(t) => fiber[t] \in alive

Stacks ==
  /\ frames \in [Fiber -> Seq(Frame)]
  /\ \A h \in alive : Stack(frames[h])
  /\ \A h \in alive \ {current} : Last(frames[h]).at \in {"back", "start", "entry"}
  /\ Last(frames[System]).at # "entry"
  /\ \A h \in Fiber \ alive : frames[h] = <<>>

AtWork ==
  /\ Top.at \in {"kernel", "entry"} => masked
  /\ Top.at = "kernel" => before = current
  /\ Top.at # "kernel" => current = Ctx

Booted == boot <= TaskCount => current = System /\ Top.at = "boot" /\ masked

\* A started activation that has not entered its task is in front of the entry.
Entering == \A t \in Task : Started(t) /\ t \notin entered => Last(frames[fiber[t]]).at = "entry"

FibersInv ==
  /\ masked \in BOOLEAN
  /\ Existing /\ Resumable /\ Stacks /\ AtWork /\ Booted /\ Entering
  /\ TickNotStranded

\* Facts about the frame that executes.
LEMMA TopParts ==
  ASSUME FibersInv
  PROVE  /\ current \in Fiber /\ frames[current] \in Seq(Frame) /\ Stack(frames[current])
         /\ Top = Last(frames[current]) /\ Top \in Frame
         /\ Top.at = "entry" => current # System
         /\ Top.at # "boot" => ~(boot <= TaskCount)
<1>1. current \in Fiber /\ Stack(frames[current]) /\ frames[current] \in Seq(Frame)
  BY DEF FibersInv, Existing, Stacks
<1>2. Top = Last(frames[current]) /\ Top \in Frame
  BY <1>1, StackParts DEF Top
<1> QED
  BY <1>1, <1>2 DEF FibersInv, Stacks, Booted

\* A step that changes only the stack of the fiber that runs, to n, and the two flags.
LEMMA FrameInv ==
  ASSUME FibersInv, NEW n, Stack(n),
         UNCHANGED <<os, boot, current, alive, fiber, old, entered>>,
         frames' = [frames EXCEPT ![current] = n],
         masked' \in BOOLEAN,
         Top.at \notin {"entry", "kernel"},
         Top.at = "boot" => ~(boot <= TaskCount),
         Last(n).at # "entry",
         Last(n).at = "kernel" => masked' /\ before' = current,
         pending' /\ ~masked' => timer' = "set" \/ Last(n).at = "open"
  PROVE  FibersInv'
<1>1. /\ current' = current /\ alive' = alive /\ fiber' = fiber /\ old' = old
      /\ entered' = entered /\ os' = os /\ boot' = boot
  OBVIOUS
<1>2. /\ frames \in [Fiber -> Seq(Frame)] /\ current \in Fiber /\ n \in Seq(Frame)
      /\ alive \subseteq Fiber /\ System \in Fiber
  BY Fibers DEF FibersInv, Stacks, Existing, Stack
<1>3. /\ frames' \in [Fiber -> Seq(Frame)] /\ frames'[current] = n
      /\ \A h \in Fiber \ {current} : frames'[h] = frames[h]
  BY <1>2
<1>4. Top' = Last(n)
  BY <1>1, <1>3 DEF Top
<1>5. Stacks'
  <2>1. \A h \in alive' : Stack(frames'[h])
    BY <1>1, <1>2, <1>3 DEF FibersInv, Stacks
  <2>2. \A h \in alive' \ {current'} : Last(frames'[h]).at \in {"back", "start", "entry"}
    BY <1>1, <1>2, <1>3 DEF FibersInv, Stacks
  <2>3. Last(frames'[System]).at # "entry"
    BY <1>2, <1>3 DEF FibersInv, Stacks
  <2>4. \A h \in Fiber \ alive' : frames'[h] = <<>>
    BY <1>1, <1>3 DEF FibersInv, Stacks, Existing
  <2> QED
    BY <1>3, <2>1, <2>2, <2>3, <2>4 DEF Stacks
<1>6. AtWork'
  BY <1>1, <1>4 DEF FibersInv, AtWork, Ctx
<1>7. Entering'
  <2>1. ASSUME NEW t \in Task, Started(t), t \notin entered
        PROVE  Last(frames'[fiber[t]]).at = "entry"
    <3>1. Last(frames[fiber[t]]).at = "entry" /\ fiber[t] \in Fiber
      BY <2>1 DEF FibersInv, Entering, Resumable, Existing
    <3>2. fiber[t] # current
      BY <3>1 DEF Top
    <3> QED
      BY <1>3, <3>1, <3>2
  <2> QED
    BY <1>1, <2>1 DEF Entering, Started
<1>8. Booted'
  BY <1>1 DEF FibersInv, Booted
<1>9. Existing' /\ Resumable'
  BY <1>1 DEF FibersInv, Existing, Owned, NoFiberLost, Resumable, Started
<1>10. TickNotStranded'
  BY <1>4 DEF TickNotStranded
<1> QED
  BY <1>5, <1>6, <1>7, <1>8, <1>9, <1>10 DEF FibersInv

-------------------------------------------------------------------------------
(* Entries into the kernel *)

\* What a preparation does to tasks and stacks, with or without a switch.
LEMMA PrepareInv ==
  ASSUME FibersInv, NEW P, P \subseteq Task, NEW s \in [Fiber -> Seq(Frame)], Prepare(P, s),
         \A h \in Fiber \ {current} : s[h] = frames[h],
         Stack(s[current]), Last(s[current]).at # "entry",
         Top.at # "entry",
         entered' = Live(entered \ P),
         Follows(P)
  PROVE  /\ Resumable' /\ Entering'
         /\ frames' \in [Fiber -> Seq(Frame)]
         /\ \A h \in alive' : Stack(frames'[h])
         /\ \A h \in alive' \ {current} : Last(frames'[h]).at \in {"back", "start", "entry"}
         /\ Last(frames'[System]).at # "entry"
         /\ \A h \in Fiber \ alive' : frames'[h] = <<>>
<1> DEFINE first == <<At("user"), At("entry")>>
<1>1. Existing
  BY DEF FibersInv
<1>2. /\ alive' \subseteq Fiber /\ current \in alive' /\ System \in alive'
      /\ \A t \in P : fiber'[t] \in alive' \ {current, System}
      /\ \A t \in Task \ P : fiber'[t] = fiber[t] /\ (fiber[t] \in alive => fiber[t] \in alive')
  BY <1>1, PrepareExisting
<1>3. /\ frames' \in [Fiber -> Seq(Frame)]
      /\ \A t \in P : frames'[fiber'[t]] = first
      /\ \A h \in alive' :
           \/ h \in alive /\ frames'[h] = s[h]
           \/ h \notin {current, System} /\ frames'[h] = first
      /\ frames'[current] = s[current]
      /\ \A h \in alive' : h[1] \notin P => h \in alive /\ frames'[h] = s[h]
      /\ \A h \in Fiber \ alive' : frames'[h] = <<>>
  BY <1>1, PrepareFrames
<1>4. Stack(first) /\ Last(first).at = "entry"
  BY EntryStack
<1> HIDE DEF first
<1>5. \A h \in alive : Stack(s[h])
  BY <1>1 DEF FibersInv, Stacks, Existing
<1>6. \A h \in alive' : Stack(frames'[h])
  BY <1>3, <1>4, <1>5
<1>7. \A h \in alive' \ {current} : Last(frames'[h]).at \in {"back", "start", "entry"}
  BY <1>2, <1>3, <1>4 DEF FibersInv, Stacks
<1>8. Last(frames'[System]).at # "entry"
  <2>1. frames'[System] = s[System]
    BY <1>2, <1>3
  <2> QED
    BY <2>1, Fibers DEF FibersInv, Stacks
<1>9. Resumable'
  BY <1>2 DEF Resumable, Started, Follows, FibersInv
<1>10. Entering'
  <2>1. ASSUME NEW t \in Task, os'.state[t] \in {"RUNNING", "READY"}, t \notin entered'
        PROVE  Last(frames'[fiber'[t]]).at = "entry"
    <3>1. CASE t \in P
      BY <1>3, <1>4, <3>1
    <3>2. CASE t \notin P
      <4>1. Started(t) /\ t \notin entered
        BY <2>1, <3>2 DEF Follows, Live
      <4>2. Last(frames[fiber[t]]).at = "entry" /\ fiber[t] \in alive
        BY <4>1 DEF FibersInv, Entering, Resumable
      <4>3. fiber[t] # current
        BY <4>2 DEF Top
      <4>4. fiber'[t] = fiber[t] /\ fiber[t] \in alive' /\ fiber[t] \in Fiber
        BY <1>1, <1>2, <3>2, <4>2 DEF Existing
      <4>5. fiber[t][1] = t
        BY <4>4, Fibers DEF FibersInv, Existing, Owned
      <4>6. frames'[fiber[t]] = frames[fiber[t]]
        BY <1>3, <3>2, <4>3, <4>4, <4>5
      <4> QED
        BY <4>2, <4>4, <4>6
    <3> QED
      BY <3>1, <3>2
  <2> QED
    BY <2>1 DEF Entering, Started
<1> QED
  BY <1>1, <1>3, <1>6, <1>7, <1>8, <1>9, <1>10

\* The switch that ends an entry from the fiber that runs.
LEMMA SwitchInv ==
  ASSUME FibersInv, IInv', NEW P, P \subseteq Task, NEW s \in [Fiber -> Seq(Frame)],
         Switch(current, P, s),
         \A h \in Fiber \ {current} : s[h] = frames[h],
         Stack(s[current]), Last(s[current]).at \in {"back", "start"},
         Top.at # "entry",
         Follows(P),
         boot' > TaskCount
  PROVE  FibersInv'
<1>1. /\ Prepare(P, s)
      /\ current' = IF current \notin alive' THEN Null
                    ELSE IF FiberOf(os', fiber') # current THEN FiberOf(os', fiber') ELSE current
      /\ masked' = TRUE
      /\ entered' = Live(entered \ P)
  BY DEF Switch
<1>2. Existing
  BY DEF FibersInv
<1>3. /\ alive' \subseteq Fiber /\ current \in alive' /\ System \in alive'
      /\ Owned' /\ NoFiberLost'
  BY <1>1, <1>2, PrepareExisting
<1>4. /\ Resumable' /\ Entering'
      /\ frames' \in [Fiber -> Seq(Frame)]
      /\ \A h \in alive' : Stack(frames'[h])
      /\ \A h \in alive' \ {current} : Last(frames'[h]).at \in {"back", "start", "entry"}
      /\ Last(frames'[System]).at # "entry"
      /\ \A h \in Fiber \ alive' : frames'[h] = <<>>
  BY <1>1, PrepareInv
<1>5. frames'[current] = s[current]
  BY <1>1, <1>2, PrepareFrames
<1>6. \A h \in alive' : Last(frames'[h]).at \in {"back", "start", "entry"}
  BY <1>4, <1>5
<1>7. current' = Ctx'
  BY <1>1, <1>3 DEF Ctx
<1>8. current' \in alive'
  <2>1. CASE Current(os') = None
    BY <1>3, <1>7, <2>1 DEF Ctx, FiberOf
  <2>2. CASE Current(os') # None
    <3>1. Current(os') \in Task /\ os'.state[Current(os')] = "RUNNING"
      BY <2>2 DEF Current, Running
    <3>2. fiber'[Current(os')] \in alive'
      BY <1>4, <3>1 DEF Resumable, Started
    <3> QED
      BY <1>7, <2>2, <3>2 DEF Ctx, FiberOf
  <2> QED
    BY <2>1, <2>2
<1>9. Top' = Last(frames'[current'])
  BY DEF Top
<1>10. Top'.at \in {"back", "start", "entry"}
  BY <1>6, <1>8, <1>9
<1>11. AtWork' /\ TickNotStranded'
  BY <1>1, <1>7, <1>10 DEF AtWork, TickNotStranded
<1>12. Booted'
  BY CountsAssumption DEF Booted, IInv
<1>13. Stacks'
  BY <1>4, <1>6 DEF Stacks
<1>14. Existing'
  BY <1>3, <1>8 DEF Existing
<1> QED
  BY <1>1, <1>4, <1>11, <1>12, <1>13, <1>14 DEF FibersInv

\* A preparation in the alarm loop.
LEMMA ExpireStepInv == FibersInv /\ IInv /\ ExpireStep => FibersInv'
<1> SUFFICES ASSUME FibersInv, IInv, ExpireStep PROVE FibersInv'
  OBVIOUS
<1>1. /\ Top.at = "kernel" /\ Prepare(Prepared, frames) /\ entered' = Live(entered \ Prepared)
      /\ current' = current /\ masked' = masked /\ pending' = pending
      /\ timer' = timer /\ before' = before
  BY DEF ExpireStep
<1>2. boot' = boot
  BY DEF ExpireStep, ExpireAny, Expire, Service
<1>3. Follows(Prepared) /\ Prepared \subseteq Task
  BY PreparedFollows
<1>4. /\ Existing /\ frames \in [Fiber -> Seq(Frame)]
      /\ Stack(frames[current]) /\ Last(frames[current]).at = "kernel"
  BY <1>1, TopParts DEF FibersInv, Stacks, Top
<1>5. /\ alive' \subseteq Fiber /\ current \in alive' /\ System \in alive'
      /\ Owned' /\ NoFiberLost'
  BY <1>1, <1>3, <1>4, PrepareExisting
<1>6. /\ Resumable' /\ Entering'
      /\ frames' \in [Fiber -> Seq(Frame)]
      /\ \A h \in alive' : Stack(frames'[h])
      /\ \A h \in alive' \ {current} : Last(frames'[h]).at \in {"back", "start", "entry"}
      /\ Last(frames'[System]).at # "entry"
      /\ \A h \in Fiber \ alive' : frames'[h] = <<>>
  BY <1>1, <1>3, <1>4, PrepareInv
<1>7. frames'[current] = frames[current]
  BY <1>1, <1>3, <1>4, PrepareFrames
<1>8. Top' = Top
  BY <1>1, <1>7 DEF Top
<1>9. AtWork' /\ Booted' /\ TickNotStranded'
  BY <1>1, <1>2, <1>8 DEF AtWork, Booted, TickNotStranded, FibersInv
<1>10. Stacks' /\ Existing'
  BY <1>1, <1>5, <1>6 DEF Stacks, Existing
<1> QED
  BY <1>1, <1>6, <1>9, <1>10 DEF FibersInv

\* The other points at which a step leaves the kernel of a task or of the system alone.
LEMMA Frames ==
  ASSUME FibersInv, NEW point \in Point
  PROVE  At(point) \in Frame /\ Closed(point) \in Frame
         /\ At(point).at = point /\ Closed(point).at = point
BY DEF FibersInv, At, Closed, Frame

LEMMA StartStepInv == FibersInv /\ IInv /\ IInv' /\ StartStep => FibersInv'
<1> SUFFICES ASSUME FibersInv, IInv, IInv', StartStep PROVE FibersInv'
  OBVIOUS
<1> DEFINE n == <<At("user"), At("start")>>
           s == [frames EXCEPT ![System] = n]
<1>1. Start /\ Switch(System, Prepared, s)
  BY DEF StartStep
<1>2. boot = TaskCount /\ boot' = boot + 1
  BY <1>1 DEF Start
<1>3. boot <= TaskCount /\ boot' > TaskCount
  BY <1>2, CountsAssumption
<1>4. current = System /\ Top.at = "boot"
  BY <1>3 DEF FibersInv, Booted
<1>5. n \in Seq(Frame) /\ Stack(n) /\ Last(n).at = "start"
  <2>1. At("user") \in Frame /\ At("start") \in Frame
    BY DEF At, Frame, Point
  <2>2. n \in Seq(Frame)
    BY <2>1
  <2>3. Len(n) = 2 /\ n[1].at = "user" /\ n[2].at = "start"
    BY DEF At
  <2>4. Last(n) = n[2] /\ n # <<>>
    BY <2>3, EmptySeq DEF Last
  <2> HIDE DEF n
  <2> QED
    BY <2>2, <2>3, <2>4 DEF Stack
<1> HIDE DEF n
<1>6. /\ s \in [Fiber -> Seq(Frame)] /\ s[System] = n
      /\ \A h \in Fiber \ {System} : s[h] = frames[h]
  BY <1>5, Fibers DEF FibersInv, Stacks
<1> HIDE DEF s
<1>7. Follows(Prepared) /\ Prepared \subseteq Task
  BY PreparedFollows
<1> QED
  BY <1>1, <1>3, <1>4, <1>5, <1>6, <1>7, SwitchInv

LEMMA SyscallInv == FibersInv /\ IInv /\ IInv' /\ Syscall => FibersInv'
<1> SUFFICES ASSUME FibersInv, IInv, IInv', Syscall PROVE FibersInv'
  OBVIOUS
<1> DEFINE n == Append(frames[current], Closed("back"))
           s == [frames EXCEPT ![current] = n]
<1>1. Top.at = "user"
  BY DEF Syscall
<1>2. /\ current \in Fiber /\ Stack(frames[current]) /\ Top = Last(frames[current])
      /\ frames \in [Fiber -> Seq(Frame)] /\ current = Ctx
  BY <1>1, TopParts DEF FibersInv, Stacks, AtWork
<1>3. Closed("back") \in Frame /\ Closed("back").at = "back"
  BY Frames DEF Point
<1>4. Stack(n) /\ Last(n) = Closed("back")
  BY <1>1, <1>2, <1>3, PushStack
<1>5. Push(Closed("back")) = s
  BY DEF Push
<1>6. \/ EndingService /\ Switch(current, PreparedByEnd, s)
      \/ StayingService /\ Switch(current, Prepared, s)
  BY <1>2, <1>5 DEF Syscall
<1>7. boot > TaskCount /\ boot' > TaskCount /\ Running(os)
  BY <1>6, StaysUp
<1> HIDE DEF n
<1>8. /\ s \in [Fiber -> Seq(Frame)] /\ s[current] = n
      /\ \A h \in Fiber \ {current} : s[h] = frames[h]
  BY <1>2, <1>4 DEF Stack
<1> HIDE DEF s
<1>9. /\ Follows(Prepared) /\ Prepared \subseteq Task
      /\ Follows(PreparedByEnd) /\ PreparedByEnd \subseteq Task
  BY <1>7, PreparedFollows, EndFollows
<1>10. Stack(s[current]) /\ Last(s[current]).at \in {"back", "start"} /\ Top.at # "entry"
  BY <1>1, <1>3, <1>4, <1>8
<1>11. CASE EndingService /\ Switch(current, PreparedByEnd, s)
  BY <1>7, <1>8, <1>9, <1>10, <1>11, SwitchInv
<1>12. CASE StayingService /\ Switch(current, Prepared, s)
  BY <1>7, <1>8, <1>9, <1>10, <1>12, SwitchInv
<1> QED
  BY <1>6, <1>11, <1>12

LEMMA KernelExitInv == FibersInv /\ IInv /\ IInv' /\ KernelExit => FibersInv'
<1> SUFFICES ASSUME FibersInv, IInv, IInv', KernelExit PROVE FibersInv'
  OBVIOUS
<1> DEFINE f == [Top EXCEPT !.at = "back"]
           n == Append(Front(frames[current]), f)
           s == [frames EXCEPT ![current] = n]
<1>1. Top.at = "kernel"
  BY DEF KernelExit
<1>2. /\ current \in Fiber /\ Stack(frames[current]) /\ Top = Last(frames[current]) /\ Top \in Frame
      /\ frames \in [Fiber -> Seq(Frame)] /\ before = current
  BY <1>1, TopParts DEF FibersInv, Stacks, AtWork
<1>3. f \in Frame /\ f.at = "back"
  BY <1>2 DEF Frame, Point
<1>4. Stack(n) /\ Last(n) = f
  BY <1>1, <1>2, <1>3, ReplaceStack
<1>5. Replace(f) = s
  BY DEF Replace
<1>6. (IncrementReturn \/ IsrExit) /\ Switch(current, Prepared, s)
  BY <1>2, <1>5 DEF KernelExit
<1>7. boot' > TaskCount
  BY <1>6, StaysUp
<1> HIDE DEF n, f
<1>8. /\ s \in [Fiber -> Seq(Frame)] /\ s[current] = n
      /\ \A h \in Fiber \ {current} : s[h] = frames[h]
  BY <1>2, <1>4 DEF Stack
<1> HIDE DEF s
<1>9. Follows(Prepared) /\ Prepared \subseteq Task
  BY PreparedFollows
<1> QED
  BY <1>1, <1>3, <1>4, <1>6, <1>7, <1>8, <1>9, SwitchInv

\* A task or the system enters the alarm loop.
LEMMA SyscallEnterInv == FibersInv /\ IInv /\ SyscallEnter => FibersInv'
<1> SUFFICES ASSUME FibersInv, IInv, SyscallEnter PROVE FibersInv'
  OBVIOUS
<1> DEFINE n == Append(frames[current], Closed("kernel"))
<1>1. /\ Top.at = "user" /\ IncrementCounter /\ frames' = [frames EXCEPT ![current] = n]
      /\ masked' = TRUE /\ before' = Ctx
      /\ UNCHANGED <<current, alive, fiber, old, pending, timer, entered>>
  BY DEF SyscallEnter, Push
<1>2. boot' = boot /\ os' = os
  BY <1>1, StaysUp
<1>3. Closed("kernel") \in Frame /\ Closed("kernel").at = "kernel"
  BY Frames DEF Point
<1>4. Stack(n) /\ Last(n) = Closed("kernel")
  BY <1>1, <1>3, TopParts, PushStack
<1>5. before' = current
  BY <1>1 DEF FibersInv, AtWork
<1> HIDE DEF n
<1> QED
  BY <1>1, <1>2, <1>3, <1>4, <1>5, FrameInv

LEMMA ServeInv == FibersInv /\ IInv /\ Serve => FibersInv'
<1> SUFFICES ASSUME FibersInv, IInv, Serve PROVE FibersInv'
  OBVIOUS
<1> DEFINE n == Append(Front(frames[current]), Closed("kernel"))
<1>1. /\ Top.at = "serve" /\ IsrEnter /\ frames' = [frames EXCEPT ![current] = n]
      /\ masked' = TRUE /\ before' = Ctx
      /\ UNCHANGED <<current, alive, fiber, old, pending, timer, entered>>
  BY DEF Serve, Replace
<1>2. boot' = boot /\ os' = os
  BY <1>1, StaysUp
<1>3. Closed("kernel") \in Frame /\ Closed("kernel").at = "kernel"
  BY Frames DEF Point
<1>4. Stack(n) /\ Last(n) = Closed("kernel")
  BY <1>1, <1>3, TopParts, ReplaceStack
<1>5. before' = current
  BY <1>1 DEF FibersInv, AtWork
<1> HIDE DEF n
<1> QED
  BY <1>1, <1>2, <1>3, <1>4, <1>5, FrameInv

-------------------------------------------------------------------------------
(* The mask and the two threads *)

LEMMA OpenInv == FibersInv /\ Open => FibersInv'
<1> SUFFICES ASSUME FibersInv, Open PROVE FibersInv'
  OBVIOUS
<1> DEFINE up == Front(frames[current])
           on == Append(Front(frames[current]), At("open"))
<1>1. /\ Top.at \in {"back", "start"} /\ masked' = Top.mask
      /\ frames' = [frames EXCEPT ![current] = IF masked' THEN up ELSE on]
      /\ UNCHANGED <<os, boot, current, alive, fiber, old, pending, timer, before, entered>>
  BY DEF Open, Pop, Replace, vars
<1>2. At("open") \in Frame /\ At("open").at = "open" /\ masked' \in BOOLEAN
  BY <1>1, Frames, TopParts DEF Point, Frame
<1>3. Stack(up) /\ Last(up).at \notin {"kernel", "entry"} /\ Stack(on) /\ Last(on) = At("open")
  BY <1>1, <1>2, TopParts, FrontStack, ReplaceStack
<1> HIDE DEF up, on
<1>4. CASE masked'
  BY <1>1, <1>2, <1>3, <1>4, FrameInv
<1>5. CASE ~masked'
  BY <1>1, <1>2, <1>3, <1>5, FrameInv
<1> QED
  BY <1>4, <1>5

LEMMA ServePendingInv == FibersInv /\ ServePending => FibersInv'
<1> SUFFICES ASSUME FibersInv, ServePending PROVE FibersInv'
  OBVIOUS
<1> DEFINE up == Front(frames[current])
           on == Append(Front(frames[current]), At("serve"))
<1>1. /\ Top.at = "open" /\ pending' = FALSE
      /\ frames' = [frames EXCEPT ![current] = IF pending THEN on ELSE up]
      /\ UNCHANGED <<os, boot, current, alive, fiber, old, masked, timer, before, entered>>
  BY DEF ServePending, Pop, Replace, vars
<1>2. At("serve") \in Frame /\ At("serve").at = "serve" /\ masked' \in BOOLEAN
  BY <1>1, Frames DEF Point, FibersInv
<1>3. Stack(up) /\ Last(up).at \notin {"kernel", "entry"} /\ Stack(on) /\ Last(on) = At("serve")
  BY <1>1, <1>2, TopParts, FrontStack, ReplaceStack
<1> HIDE DEF up, on
<1>4. CASE pending
  BY <1>1, <1>2, <1>3, <1>4, FrameInv
<1>5. CASE ~pending
  BY <1>1, <1>2, <1>3, <1>5, FrameInv
<1> QED
  BY <1>4, <1>5

\* A step of the timer thread that pushes nothing.
LEMMA FlagsInv ==
  ASSUME FibersInv,
         UNCHANGED <<os, boot, current, frames, alive, fiber, old, masked, before, entered>>,
         pending' /\ ~masked' => timer' = "set" \/ Top.at = "open"
  PROVE  FibersInv'
<1>1. Top' = Top /\ Ctx' = Ctx
  BY DEF Top, Ctx
<1> QED
  BY <1>1 DEF FibersInv, Existing, Owned, NoFiberLost, Resumable, Stacks, AtWork, Booted,
              Entering, TickNotStranded, Started

LEMMA TimerInv == FibersInv /\ Timer => FibersInv'
BY FlagsInv DEF Timer, vars

LEMMA InjectInv == FibersInv /\ Inject => FibersInv'
<1> SUFFICES ASSUME FibersInv, Inject PROVE FibersInv'
  OBVIOUS
<1> DEFINE n == Append(frames[current], At("serve"))
<1>1. UNCHANGED <<os, boot, current, alive, fiber, old, masked, before, entered>>
  BY DEF Inject, vars
<1>2. CASE masked \/ ~pending
  <2>1. frames' = frames /\ (pending' /\ ~masked' => FALSE)
    BY <1>1, <1>2 DEF Inject
  <2> QED
    BY <1>1, <2>1, FlagsInv
<1>3. CASE ~masked /\ pending /\ Top.at # "kernel"
  <2>1. frames' = [frames EXCEPT ![current] = n] /\ pending' = FALSE
    BY <1>3 DEF Inject, Push
  <2>2. Top.at \notin {"kernel", "entry"} /\ ~(boot <= TaskCount)
    BY <1>3 DEF FibersInv, AtWork, Booted
  <2>3. At("serve") \in Frame /\ At("serve").at = "serve" /\ masked' \in BOOLEAN
    BY <1>1, Frames DEF Point, FibersInv
  <2>4. Stack(n) /\ Last(n) = At("serve")
    BY <2>2, <2>3, TopParts, PushStack
  <2> HIDE DEF n
  <2> QED
    BY <1>1, <2>1, <2>2, <2>3, <2>4, FrameInv
<1> QED
  BY <1>2, <1>3 DEF FibersInv, AtWork

\* A task is entered on the fiber that was made for it, and the one before is freed.
LEMMA EnterInv == FibersInv /\ Enter => FibersInv'
<1> SUFFICES ASSUME FibersInv, Enter PROVE FibersInv'
  OBVIOUS
<1> DEFINE t    == current[1]
           gone == {old[t]} \ {Deleted(old[t])}
           n    == Append(Front(frames[current]), At("open"))
<1>1. /\ Top.at = "entry"
      /\ alive' = alive \ gone
      /\ old' = [old EXCEPT ![t] = Deleted(old[t])]
      /\ frames' = [h \in Fiber |-> IF h \in gone THEN <<>> ELSE [frames EXCEPT ![current] = n][h]]
      /\ entered' = entered \cup {t}
      /\ masked' = FALSE
      /\ os' = os /\ boot' = boot /\ current' = current /\ fiber' = fiber
      /\ pending' = pending /\ timer' = timer /\ before' = before
  BY DEF Enter, Replace, vars
<1>2. current \in Fiber \ {System} /\ current # Null /\ t \in Task /\ current = Ctx
  BY <1>1, TopParts, Fibers DEF FibersInv, AtWork
<1>3. fiber[t] = current
  <2>1. Current(os) \in Task /\ current = fiber[Current(os)]
    BY <1>2 DEF Ctx, FiberOf, Current, Running
  <2>2. current[1] = Current(os)
    BY <1>2, <2>1 DEF FibersInv, Existing, Owned
  <2> QED
    BY <2>1, <2>2
<1>4. \A h \in gone : h = old[t] /\ h # current
  BY DEF Deleted
<1>5. \A h \in Fiber : h \in gone => h[1] = t /\ h # System
  <2>1. \A h \in Fiber : h \in gone => h[1] = t
    BY <1>2, <1>4, Fibers DEF FibersInv, Existing, Owned
  <2> QED
    BY <1>2, <2>1, Fibers
<1>6. ASSUME NEW u \in Task, fiber[u] \in alive PROVE fiber[u] \in Fiber /\ fiber[u] \notin gone
  <2>1. fiber[u] \in Fiber /\ fiber[u][1] = u
    BY <1>6, Fibers DEF FibersInv, Existing, Owned
  <2> QED
    BY <1>3, <1>4, <1>5, <2>1
<1>7. old'[t] = Deleted(old[t]) /\ \A u \in Task \ {t} : old'[u] = old[u]
  BY <1>1, <1>2 DEF FibersInv, Existing, Owned
<1>8. Deleted(old[t]) \in {Null, old[t]}
  BY DEF Deleted
<1>9. Existing'
  <2>1. current' \in alive' /\ System \in alive' /\ alive' \subseteq Fiber
    BY <1>1, <1>4, <1>5, Fibers DEF FibersInv, Existing
  <2>2. Owned'
    <3>1. old' \in [Task -> Fiber \cup {Null}]
      BY <1>1, <1>2, <1>8 DEF FibersInv, Existing, Owned
    <3>2. \A u \in Task : old'[u] # Null => old'[u][1] = u
      BY <1>2, <1>7, <1>8 DEF FibersInv, Existing, Owned
    <3> QED
      BY <1>1, <3>1, <3>2 DEF FibersInv, Existing, Owned
  <2>3. ASSUME NEW h \in alive', h # System PROVE h \in {fiber'[h[1]], old'[h[1]]}
    <3>1. h \in alive /\ h \notin gone /\ h[1] \in Task /\ h \in {fiber[h[1]], old[h[1]]}
      BY <1>1, <2>1, <2>3, Fibers DEF FibersInv, Existing, NoFiberLost
    <3> QED
      BY <1>1, <1>7, <3>1
  <2> QED
    BY <2>1, <2>2, <2>3 DEF Existing, NoFiberLost
<1>10. Stack(n) /\ Last(n).at = "open"
  <2>1. At("open") \in Frame /\ At("open").at = "open"
    BY Frames DEF Point
  <2> QED
    BY <1>1, <2>1, TopParts, ReplaceStack
<1>11. frames \in [Fiber -> Seq(Frame)]
  BY DEF FibersInv, Stacks
<1> HIDE DEF n
<1>12. /\ frames' \in [Fiber -> Seq(Frame)]
       /\ frames'[current] = n
       /\ \A h \in Fiber \ {current} : h \notin gone => frames'[h] = frames[h]
       /\ \A h \in Fiber : h \in gone => frames'[h] = <<>>
  <2>1. <<>> \in Seq(Frame) /\ n \in Seq(Frame)
    BY <1>10, EmptySeq DEF Stack
  <2> DEFINE s == [frames EXCEPT ![current] = n]
  <2>2. /\ s \in [Fiber -> Seq(Frame)] /\ s[current] = n
        /\ \A h \in Fiber \ {current} : s[h] = frames[h]
    BY <1>2, <1>11, <2>1
  <2>3. frames' = [h \in Fiber |-> IF h \in gone THEN <<>> ELSE s[h]]
    BY <1>1
  <2> HIDE DEF s, gone
  <2> QED
    BY <1>2, <1>4, <2>1, <2>2, <2>3
<1>13. Top' = Last(n)
  BY <1>1, <1>12 DEF Top
<1> HIDE DEF gone, t
<1>14. Stacks'
  <2>1. \A h \in alive' : h \in alive /\ h \in Fiber /\ h \notin gone
    BY <1>1 DEF FibersInv, Existing
  <2>2. \A h \in alive' : Stack(frames'[h])
    BY <1>10, <1>12, <2>1 DEF FibersInv, Stacks
  <2>3. \A h \in alive' \ {current'} : Last(frames'[h]).at \in {"back", "start", "entry"}
    BY <1>1, <1>12, <2>1 DEF FibersInv, Stacks
  <2>4. Last(frames'[System]).at # "entry"
    BY <1>2, <1>5, <1>12, Fibers DEF FibersInv, Stacks
  <2>5. \A h \in Fiber \ alive' : frames'[h] = <<>>
    BY <1>1, <1>9, <1>12 DEF FibersInv, Stacks, Existing
  <2> QED
    BY <1>12, <2>2, <2>3, <2>4, <2>5 DEF Stacks
<1>15. Resumable'
  BY <1>1, <1>6 DEF FibersInv, Resumable, Started
<1>16. Entering'
  <2>1. ASSUME NEW u \in Task, Started(u), u \notin entered'
        PROVE  Last(frames'[fiber[u]]).at = "entry"
    <3>1. u # t /\ fiber[u] \in alive /\ Last(frames[fiber[u]]).at = "entry"
      BY <1>1, <2>1 DEF FibersInv, Entering, Resumable
    <3>2. fiber[u] \in Fiber /\ fiber[u] \notin gone /\ fiber[u] # current
      <4>1. fiber[u] \in Fiber /\ fiber[u] \notin gone
        BY <1>6, <3>1
      <4>2. fiber[u][1] = u
        BY <4>1, Fibers DEF FibersInv, Existing, Owned
      <4> QED
        BY <3>1, <4>1, <4>2 DEF t
    <3> QED
      BY <1>12, <3>1, <3>2
  <2> QED
    BY <1>1, <2>1 DEF Entering, Started
<1>17. AtWork' /\ TickNotStranded'
  BY <1>1, <1>2, <1>10, <1>13 DEF AtWork, TickNotStranded, Ctx
<1>18. Booted'
  BY <1>1 DEF FibersInv, Booted
<1> QED
  BY <1>1, <1>9, <1>14, <1>15, <1>16, <1>17, <1>18 DEF FibersInv

-------------------------------------------------------------------------------
(* Start-up *)

LEMMA FibersInitInv == FibersInit => FibersInv
<1> SUFFICES ASSUME FibersInit PROVE FibersInv
  OBVIOUS
<1> DEFINE n == <<At("boot")>>
<1>1. /\ current = System /\ alive = {System} /\ masked = TRUE /\ pending = FALSE
      /\ frames = [h \in Fiber |-> IF h = System THEN n ELSE <<>>]
      /\ fiber = [t \in Task |-> Null] /\ old = [t \in Task |-> Null]
  BY DEF FibersInit
<1>2. (\A t \in Task : os.state[t] = "SUSPENDED") /\ os.active = INVALID
  BY DEF FibersInit, Init
<1>3. n \in Seq(Frame) /\ Stack(n) /\ Last(n).at = "boot"
  <2>1. At("boot") \in Frame /\ At("boot").at = "boot"
    BY DEF At, Frame, Point
  <2>2. n \in Seq(Frame) /\ Len(n) = 1 /\ n[1] = At("boot")
    BY <2>1
  <2>3. n # <<>> /\ Last(n) = n[1]
    BY <2>2, EmptySeq DEF Last
  <2> HIDE DEF n
  <2> QED
    BY <2>1, <2>2, <2>3 DEF Stack
<1> HIDE DEF n
<1>4. frames[System] = n /\ Top.at = "boot"
  BY <1>1, <1>3, Fibers DEF Top
<1>5. Stacks
  <2>1. <<>> \in Seq(Frame)
    BY EmptySeq
  <2> QED
    BY <1>1, <1>3, <1>4, <2>1 DEF Stacks
<1>6. Existing
  BY <1>1, Fibers DEF Existing, Owned, NoFiberLost
<1>7. Resumable /\ Entering
  BY <1>2 DEF Resumable, Entering, Started
<1>8. AtWork
  <2>1. Ctx = System
    BY <1>2, Fibers DEF Ctx, FiberOf, Current, Running, None
  <2> QED
    BY <1>1, <1>4, <2>1 DEF AtWork
<1> QED
  BY <1>1, <1>4, <1>5, <1>6, <1>7, <1>8 DEF FibersInv, Booted, TickNotStranded

LEMMA AutostartStepInv == FibersInv /\ IInv /\ IInv' /\ AutostartStep => FibersInv'
<1> SUFFICES ASSUME FibersInv, IInv, IInv', AutostartStep PROVE FibersInv'
  OBVIOUS
<1>1. Autostart /\ UNCHANGED portVars
  BY DEF AutostartStep
<1>2. boot <= TaskCount /\ boot' <= TaskCount
  BY <1>1, CountsAssumption DEF IInv, Autostart
<1>3. /\ \A t \in Task : os.state[t] \in {"SUSPENDED", "READY_FIRST"}
      /\ \A t \in Task : os'.state[t] \in {"SUSPENDED", "READY_FIRST"}
  BY <1>2 DEF IInv, Booting
<1>4. Ctx' = Ctx
  BY <1>1, <1>3 DEF Ctx, FiberOf, Current, Running, portVars
<1>5. Top' = Top
  BY <1>1 DEF Top, portVars
<1>6. Resumable' /\ Entering'
  BY <1>3 DEF Resumable, Entering, Started
<1> QED
  BY <1>1, <1>2, <1>4, <1>5, <1>6
  DEF FibersInv, Existing, Owned, NoFiberLost, Stacks, AtWork, Booted, TickNotStranded, portVars

-------------------------------------------------------------------------------
(* The theorems *)

\* Whatever the port does, the kernel in it makes the steps of OsKernel.
THEOREM FibersRunKernel == FibersSpec => Spec
<1>1. FibersInit => Init
  BY DEF FibersInit
<1>2. [FibersNext]_allVars => [Next]_vars
  <2> SUFFICES ASSUME [FibersNext]_allVars PROVE [Next]_vars
    OBVIOUS
  <2>1. CASE Syscall
    BY <2>1, KernelSteps DEF Syscall
  <2>2. CASE ExpireStep
    BY <2>2, KernelSteps DEF ExpireStep
  <2>3. CASE AutostartStep \/ StartStep \/ SyscallEnter \/ Serve \/ KernelExit
    BY <2>3 DEF AutostartStep, StartStep, SyscallEnter, Serve, KernelExit, Next
  <2>4. CASE Enter \/ Open \/ ServePending \/ Timer \/ Inject
    BY <2>4 DEF Enter, Open, ServePending, Timer, Inject
  <2>5. CASE UNCHANGED allVars
    BY <2>5 DEF allVars
  <2> QED
    BY <2>1, <2>2, <2>3, <2>4, <2>5 DEF FibersNext
<1> QED
  BY <1>1, <1>2, PTL DEF FibersSpec, Spec

LEMMA FibersNextInv ==
  Orderly /\ FibersInv /\ IInv /\ IInv' /\ [FibersNext]_allVars => FibersInv'
<1> SUFFICES ASSUME Orderly, FibersInv, IInv, IInv', [FibersNext]_allVars PROVE FibersInv'
  OBVIOUS
<1>1. CASE UNCHANGED allVars
  <2>1. Top' = Top /\ Ctx' = Ctx
    BY <1>1 DEF Top, Ctx, allVars, portVars, vars
  <2> QED
    BY <1>1, <2>1 DEF FibersInv, Existing, Owned, NoFiberLost, Resumable, Stacks, AtWork, Booted,
                      Entering, TickNotStranded, Started, allVars, portVars, vars
<1> QED
  BY <1>1, AutostartStepInv, StartStepInv, SyscallInv, SyscallEnterInv, ServeInv, ExpireStepInv,
     KernelExitInv, EnterInv, OpenInv, ServePendingInv, TimerInv, InjectInv DEF FibersNext

LEMMA FibersInvariance ==
  ASSUME Orderly
  PROVE  FibersSpec => []FibersInv
<1>1. FibersInit => FibersInv
  BY FibersInitInv
<1>2. FibersInv /\ IInv /\ IInv' /\ [FibersNext]_allVars => FibersInv'
  BY FibersNextInv
<1>3. FibersSpec => []IInv
  BY FibersRunKernel, Invariance, PTL
<1> QED
  BY <1>1, <1>2, <1>3, PTL DEF FibersSpec

\* The fiber that runs exists and is that of the task the kernel runs, and no task that
\* may be resumed has lost its fiber to Os_Arch_PrepareState or Os_Arch_FiberStart.
THEOREM LiveFiberRuns ==
  ASSUME Orderly
  PROVE  FibersSpec => []RunsLiveFiber
<1>1. FibersInv => RunsLiveFiber
  BY DEF FibersInv, Existing, Resumable, AtWork, Started, RunsLiveFiber
<1> QED
  BY <1>1, FibersInvariance, PTL

\* Every fiber that exists is in use or waits for its deletion: however often tasks end
\* and start, there are at most two for each.
THEOREM FibersAreKept ==
  ASSUME Orderly
  PROVE  FibersSpec => []NoFiberLost
<1>1. FibersInv => NoFiberLost
  BY DEF FibersInv, Existing
<1> QED
  BY <1>1, FibersInvariance, PTL

\* No tick is injected into the kernel, on whatever stack it was entered, at any depth.
THEOREM KernelIsNotReentered ==
  ASSUME Orderly
  PROVE  FibersSpec => []KernelNotReentered
<1>1. ASSUME FibersInv PROVE KernelNotReentered
  <2>1. ASSUME NEW h \in Fiber, NEW i \in DOMAIN frames[h], frames[h][i].at = "kernel"
        PROVE  masked /\ h = current /\ i = Len(frames[h])
    <3>1. h \in alive
      <4>1. CASE h \notin alive
        <5>1. frames[h] = <<>>
          BY <1>1, <4>1 DEF FibersInv, Stacks
        <5> QED
          BY <2>1, <5>1
      <4> QED
        BY <4>1
    <3>2. Stack(frames[h])
      BY <1>1, <3>1 DEF FibersInv, Stacks
    <3>3. i \in 1 .. Len(frames[h])
      BY <3>2, LenProperties DEF Stack
    <3>4. i = Len(frames[h])
      BY <2>1, <3>2, <3>3 DEF Stack
    <3>5. Last(frames[h]).at = "kernel"
      BY <2>1, <3>4 DEF Last
    <3>6. h = current
      BY <1>1, <3>1, <3>5 DEF FibersInv, Stacks
    <3> QED
      BY <1>1, <3>4, <3>5, <3>6 DEF FibersInv, AtWork, Top
  <2> QED
    BY <2>1 DEF KernelNotReentered
<1> QED
  BY <1>1, FibersInvariance, PTL

\* An activation runs from the entry function of its task on, on its own fiber: no code of
\* an activation that ended goes on under the next one.
THEOREM ActivationsBeginAtEntry ==
  ASSUME Orderly
  PROVE  FibersSpec => []BeginsAtEntry
<1>1. ASSUME FibersInv, Top.at = "user", current # System PROVE current[1] \in entered
  <2>1. current = Ctx /\ Top = Last(frames[current])
    BY <1>1 DEF FibersInv, AtWork, Top
  <2>2. /\ Current(os) \in Task /\ Started(Current(os)) /\ current = fiber[Current(os)]
    BY <1>1, <2>1 DEF Ctx, FiberOf, Current, Running, Started
  <2>3. current \in Fiber
    BY <1>1, TopParts
  <2>4. current[1] = Current(os)
    BY <1>1, <2>2, <2>3, Fibers DEF FibersInv, Existing, Owned
  <2> QED
    BY <1>1, <2>1, <2>2, <2>4 DEF FibersInv, Entering
<1>2. FibersInv => BeginsAtEntry
  BY <1>1 DEF BeginsAtEntry
<1> QED
  BY <1>2, FibersInvariance, PTL

\* A tick that is pending while the mask is open is about to be looked for by one of the
\* two threads, in whatever order they read and write the two flags.
THEOREM TicksAreNotStranded ==
  ASSUME Orderly
  PROVE  FibersSpec => []TickNotStranded
<1>1. FibersInv => TickNotStranded
  BY DEF FibersInv
<1> QED
  BY <1>1, FibersInvariance, PTL
===============================================================================
