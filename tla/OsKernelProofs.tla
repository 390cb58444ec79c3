---------------------------- MODULE OsKernelProofs ----------------------------
(***************************************************************************)
(* Proofs about OsKernel, for every table of tasks and resources, every    *)
(* conformance class and both values of OS_ERROR_EXT_ENABLE; and what the  *)
(* proofs about the ports share, in terms of OsArch.                       *)
(***************************************************************************)
EXTENDS OsArch, OsLists, WellFoundedInduction

-------------------------------------------------------------------------------
(* Priorities *)

\* A nonempty set of priorities has a highest one: the search of Os_TaskPeek finds it.
LEMMA HighestPriority ==
  ASSUME NEW S \in SUBSET Prio, S # {}
  PROVE  \E p \in S : \A q \in S : q <= p
<1> DEFINE Below == {n \in Nat : \E p \in S : n = PrioCount - p}
<1>1. Below \subseteq Nat
  OBVIOUS
<1>2. Below # {}
  <2>1. PICK p \in S : TRUE
    OBVIOUS
  <2>2. PrioCount - p \in Nat
    BY CountsAssumption DEF Prio
  <2> QED
    BY <2>1, <2>2
<1> DEFINE R == OpToRel(<, Nat)
<1>w. IsWellFoundedOn(R, Nat)
  BY NatLessThanWellFounded, Zenon
<1>r. \A m, n \in Nat : m < n => <<m, n>> \in R
  BY DEF OpToRel
<1>3. PICK n \in Below : \A m \in Below : ~(<<m, n>> \in R)
  <2> HIDE DEF Below, R
  <2> QED BY <1>1, <1>2, <1>w, WFMin
<1>4. PICK p \in S : n = PrioCount - p
  <2> HIDE DEF R
  <2> QED BY <1>3
<1>5. ASSUME NEW q \in S PROVE q <= p
  <2>1. PrioCount - q \in Below
    BY CountsAssumption DEF Prio
  <2>2. ~(PrioCount - q < n)
    <3> HIDE DEF R
    <3> QED BY <1>3, <1>r, <1>1, <2>1
  <2> QED
    BY <1>4, <2>2, CountsAssumption DEF Prio
<1> QED
  BY <1>4, <1>5

-------------------------------------------------------------------------------
(***************************************************************************)
(* The inductive invariant, on a value k of the kernel's globals.  Core    *)
(* holds wherever a procedure calls Os_Schedule_Internal; Highest holds    *)
(* again when that returns.  Nested and Heads carry the argument: started  *)
(* tasks are separated by their priorities, so a preempted task is alone   *)
(* at the head of its list, and whoever is dispatched next is either it or *)
(* a task whose static priority is above that of all started ones.         *)
(***************************************************************************)
Waits(k, t) == k.state[t] \in {"READY", "READY_FIRST"}

HasStarted(k, t) == k.state[t] \in {"RUNNING", "READY"}

\* A list holds, once, the waiting tasks of its priority.
Lists(k) ==
  /\ \A p \in Prio : Distinct(k.ready[p])
  /\ \A p \in Prio, t \in Task :
       t \in Members(k.ready[p]) <=> Waits(k, t) /\ k.priority[t] = p
  /\ \A t \in Task : Waits(k, t) => k.priority[t] \in Prio

\* A task is at its static priority, or above it while it holds a resource.
Raised(k) ==
  \A t \in Task :
    /\ \A i \in 1 .. Len(k.held[t]) : TaskPriority[t] <= Ceiling[k.held[t][i]]
    /\ k.state[t] # "SUSPENDED" => TaskPriority[t] <= k.priority[t]
    /\ \/ k.state[t] = "READY_FIRST"
       \/ k.state[t] # "SUSPENDED" /\ k.held[t] = <<>>
       => k.priority[t] = TaskPriority[t]

\* More is known when no internal resource is taken on behalf of a task: the priority
\* follows from the resources held, and only a task that has started holds any.
Idling(k) ==
  \A t \in Task :
    /\ ~HasStarted(k, t) => k.held[t] = <<>>
    /\ k.state[t] = "SUSPENDED" => k.priority[t] = -1
    /\ k.state[t] # "SUSPENDED" => k.priority[t] = PriorityBelow(t, k.held[t])

\* The ceilings a task holds reach its static priority and grow with each resource.
Sorted(t, stack) ==
  /\ \A i \in 1 .. Len(stack) : TaskPriority[t] <= Ceiling[stack[i]]
  /\ \A i, j \in 1 .. Len(stack) : i < j => Ceiling[stack[j]] <= Ceiling[stack[i]]

Ceilings(k) == \A t \in Task : Sorted(t, k.held[t])

NoInternal == \A t \in Task : TaskInternal[t] = INVALID

Strict(k) == NoInternal => Idling(k) /\ Ceilings(k)

Nested(k) ==
  \A t, u \in Task : HasStarted(k, t) /\ HasStarted(k, u) /\ t # u =>
    k.priority[t] < TaskPriority[u] \/ k.priority[u] < TaskPriority[t]

Heads(k) ==
  \A t \in Task : k.state[t] = "READY" =>
    k.ready[k.priority[t]] # <<>> /\ Head(k.ready[k.priority[t]]) = t

OneRunning(k) ==
  \A t \in Task : k.state[t] = "RUNNING" => t = k.active

Core(k) ==
  /\ k \in KernelType
  /\ Lists(k)
  /\ Raised(k)
  /\ Strict(k)
  /\ Nested(k)
  /\ Heads(k)
  /\ OneRunning(k)

Highest(k) ==
  \A t \in Task : k.state[t] = "RUNNING" =>
    \A p \in Prio : p > k.priority[t] => k.ready[p] = <<>>

\* The types of the parts of the kernel's globals.
LEMMA KernelParts ==
  ASSUME NEW k \in KernelType
  PROVE  /\ k.state \in [Task -> TaskState]
         /\ k.activation \in [Task -> 0 .. 255]
         /\ k.priority \in [Task -> -1 .. PrioCount]
         /\ k.held \in [Task -> Seq(Res)]
         /\ k.ready \in [Prio -> Seq(Task)]
         /\ k.active \in Task \cup {INVALID}
         /\ k.owner \in [Res -> Task \cup {INVALID}]
         /\ k.status \in Status
BY DEF KernelType

LEMMA MakeKernel ==
  ASSUME NEW st \in [Task -> TaskState], NEW a \in [Task -> 0 .. 255],
         NEW pr \in [Task -> -1 .. PrioCount], NEW h \in [Task -> Seq(Res)],
         NEW l \in [Prio -> Seq(Task)], NEW ac \in Task \cup {INVALID},
         NEW ow \in [Res -> Task \cup {INVALID}], NEW e \in Status
  PROVE  [state |-> st, activation |-> a, priority |-> pr, held |-> h,
          ready |-> l, active |-> ac, owner |-> ow, status |-> e] \in KernelType
BY DEF KernelType

LEMMA Numbers ==
  /\ Prio \subseteq Int
  /\ \A t \in Task : TaskPriority[t] \in Prio /\ TaskPriority[t] \in Int
  /\ \A r \in Res : Ceiling[r] \in 0 .. PrioCount /\ Ceiling[r] \in Int
  /\ INVALID \notin Task
  /\ PrioCount \in Nat
  /\ \A p \in Prio : p >= 0 /\ p < PrioCount
BY CountsAssumption, ConfigAssumption DEF Prio, Task, INVALID

LEMMA PrioOrder ==
  /\ \A p, q \in Prio : p < q \/ p = q \/ p > q
  /\ \A p, q \in Prio : p > q <=> q < p
  /\ \A p, q, r \in Prio : p < q /\ q < r => p < r
BY CountsAssumption DEF Prio

\* A started task is at its static priority or above, one that is to start exactly there.
LEMMA PriorityBounds ==
  ASSUME NEW k, Core(k), NEW t \in Task, k.state[t] # "SUSPENDED"
  PROVE  /\ k.priority[t] \in Int
         /\ TaskPriority[t] \in Int
         /\ TaskPriority[t] <= k.priority[t]
         /\ ~HasStarted(k, t) => k.priority[t] = TaskPriority[t]
<1>1. k.priority[t] \in Int /\ TaskPriority[t] \in Int /\ k.state[t] \in TaskState
  BY Numbers, KernelParts DEF Core
<1> QED
  BY <1>1 DEF Core, Raised, HasStarted, TaskState

\* The ceilings a task holds reach its static priority and, without internal resources,
\* not beyond its current one.
LEMMA CeilingBounds ==
  ASSUME NEW k, Core(k), NoInternal, NEW t \in Task, k.state[t] # "SUSPENDED"
  PROVE  \A i \in 1 .. Len(k.held[t]) :
           /\ k.held[t][i] \in Res
           /\ TaskPriority[t] <= Ceiling[k.held[t][i]]
           /\ Ceiling[k.held[t][i]] <= k.priority[t]
<1>1. k.held[t] \in Seq(Res)
  BY KernelParts DEF Core
<1>2. k.priority[t] = PriorityBelow(t, k.held[t]) /\ Sorted(t, k.held[t])
  BY DEF Core, Strict, Idling, Ceilings
<1>3. CASE k.held[t] = <<>>
  <2>1. Len(k.held[t]) = 0
    BY <1>3, EmptySeq
  <2> QED
    BY <2>1
<1>4. CASE k.held[t] # <<>>
  <2>1. Len(k.held[t]) \in Nat /\ Len(k.held[t]) >= 1 /\ Head(k.held[t]) = k.held[t][1]
    BY <1>1, <1>4, EmptySeq
  <2>2. \A i \in 1 .. Len(k.held[t]) : k.held[t][i] \in Res /\ Ceiling[k.held[t][i]] \in Int
    BY <1>1, ElementOfSeq, Numbers
  <2>3. k.priority[t] = Ceiling[k.held[t][1]]
    BY <1>2, <1>4, <2>1 DEF PriorityBelow
  <2> QED
    BY <1>2, <2>1, <2>2, <2>3 DEF Sorted
<1> QED
  BY <1>3, <1>4

\* Two started tasks are at different priorities.
LEMMA StartedApart ==
  ASSUME NEW k, Core(k), NEW t \in Task, NEW u \in Task, t # u,
         HasStarted(k, t), HasStarted(k, u)
  PROVE  k.priority[t] # k.priority[u]
<1>1. k.state[t] # "SUSPENDED" /\ k.state[u] # "SUSPENDED"
  BY DEF HasStarted
<1>2. k.priority[t] < TaskPriority[u] \/ k.priority[u] < TaskPriority[t]
  BY DEF Core, Nested
<1> QED
  BY <1>1, <1>2, PriorityBounds

-------------------------------------------------------------------------------
(* Os_State_Running_To_Ready *)

\* The active task goes back to the head of the list of its priority.
LEMMA PreemptFields ==
  ASSUME NEW k \in KernelType, Running(k), k.priority[k.active] \in Prio,
         NEW k2, k2 = Running_To_Ready(k, k.active)
  PROVE  /\ k2.state[k.active] = "READY"
         /\ \A u \in Task : u # k.active => k2.state[u] = k.state[u]
         /\ k2.ready[k.priority[k.active]] = <<k.active>> \o k.ready[k.priority[k.active]]
         /\ \A q \in Prio : q # k.priority[k.active] => k2.ready[q] = k.ready[q]
<1> DEFINE t == k.active
           p == k.priority[t]
<1>1. t \in Task /\ k.state[t] = "RUNNING" /\ p \in Prio
  BY DEF Running
<1>2. /\ k2.state = [k.state EXCEPT ![t] = "READY"]
      /\ k2.ready = [k.ready EXCEPT ![p] = <<t>> \o k.ready[p]]
  BY <1>1 DEF Running_To_Ready, PushHead, KernelType
<1> QED
  BY <1>1, <1>2, KernelParts, ZenonT(60)

\* The active task, pushed at the head of the list of its priority, is alone there among
\* the started ones; no task runs then.
LEMMA PreemptCore ==
  ASSUME NEW k, Core(k), Running(k), k.priority[k.active] \in Prio,
         NEW k2, k2 = Running_To_Ready(k, k.active)
  PROVE  /\ Core(k2)
         /\ \A u \in Task : k2.state[u] # "RUNNING"
         /\ \A u \in Task : k2.state[u] = "SUSPENDED" <=> k.state[u] = "SUSPENDED"
         /\ \A q \in Prio : q > k.priority[k.active] => k2.ready[q] = k.ready[q]
         /\ k2.active = k.active /\ k2.activation = k.activation /\ k2.held = k.held
         /\ k2.priority = k.priority
<1> DEFINE t == k.active
           p == k.priority[t]
<1>1. t \in Task /\ k.state[t] = "RUNNING" /\ p \in Prio /\ k \in KernelType
  BY DEF Running, Core
<1>2. /\ k2.state = [k.state EXCEPT ![t] = "READY"]
      /\ k2.ready = [k.ready EXCEPT ![p] = <<t>> \o k.ready[p]]
      /\ k2.priority = k.priority /\ k2.held = k.held
      /\ k2.active = k.active /\ k2.activation = k.activation
  BY <1>1 DEF Running_To_Ready, PushHead, KernelType
<1>3. k.ready[p] \in Seq(Task)
  BY <1>1, KernelParts
<1>4. k2 \in KernelType
  <2>1. <<t>> \o k.ready[p] \in Seq(Task)
    BY <1>1, <1>3, PushFront
  <2>2. k2.state \in [Task -> TaskState] /\ k2.ready \in [Prio -> Seq(Task)]
    BY <1>1, <1>2, <2>1, KernelParts DEF TaskState
  <2>3. k2 = [k EXCEPT !.state = k2.state, !.ready = k2.ready]
    BY <1>1 DEF Running_To_Ready, PushHead, KernelType
  <2> QED
    BY <1>1, <2>2, <2>3, ZenonT(60) DEF KernelType
<1>5. /\ k2.ready[p] = <<t>> \o k.ready[p]
      /\ \A q \in Prio : q # p => k2.ready[q] = k.ready[q]
  BY <1>1, <1>2, KernelParts, ZenonT(60)
<1>6. /\ k2.state[t] = "READY"
      /\ \A u \in Task : u # t => k2.state[u] = k.state[u]
  BY <1>1, <1>2, KernelParts
<1> HIDE DEF t, p
<1>7. /\ Members(k2.ready[p]) = Members(k.ready[p]) \cup {t}
      /\ Distinct(k2.ready[p]) /\ k2.ready[p] # <<>> /\ Head(k2.ready[p]) = t
  <2>1. t \notin Members(k.ready[p]) /\ Distinct(k.ready[p])
    BY <1>1 DEF Core, Lists, Waits
  <2> QED
    BY <1>1, <1>3, <1>5, <2>1, PushFront
<1>8. Lists(k2)
  <2>1. \A q \in Prio : Distinct(k2.ready[q])
    BY <1>5, <1>7 DEF Core, Lists
  <2>2. ASSUME NEW q \in Prio, NEW u \in Task
        PROVE  u \in Members(k2.ready[q]) <=> Waits(k2, u) /\ k2.priority[u] = q
    <3>1. u \in Members(k.ready[q]) <=> Waits(k, u) /\ k.priority[u] = q
      BY DEF Core, Lists
    <3>2. k2.priority[u] = k.priority[u]
      BY <1>2
    <3>3. CASE u = t
      <4>1. k2.priority[u] = p /\ Waits(k2, u) /\ ~Waits(k, u)
        BY <1>1, <1>6, <3>2, <3>3 DEF Waits, p
      <4> QED
        BY <1>5, <1>7, <3>1, <3>3, <4>1
    <3>4. CASE u # t
      <4>1. Waits(k2, u) <=> Waits(k, u)
        BY <1>6, <3>4 DEF Waits
      <4>2. u \in Members(k2.ready[q]) <=> u \in Members(k.ready[q])
        BY <1>5, <1>7, <3>4
      <4> QED
        BY <3>1, <3>2, <4>1, <4>2
    <3> QED
      BY <3>3, <3>4
  <2>3. ASSUME NEW u \in Task, Waits(k2, u)
        PROVE  k2.priority[u] \in Prio
    BY <1>1, <1>2, <1>6, <2>3 DEF Core, Lists, Waits, p
  <2> QED
    BY <2>1, <2>2, <2>3 DEF Lists
<1>9. \A u \in Task : HasStarted(k2, u) <=> HasStarted(k, u)
  BY <1>1, <1>6 DEF HasStarted
<1>10. \A u \in Task : k2.state[u] = "SUSPENDED" <=> k.state[u] = "SUSPENDED"
  BY <1>1, <1>6
<1>11. Raised(k2) /\ Strict(k2) /\ Nested(k2)
  <2>1. \A u \in Task : k2.state[u] = "READY_FIRST" => k.state[u] = "READY_FIRST"
    BY <1>6
  <2>2. Raised(k2)
    BY <1>2, <1>10, <2>1 DEF Core, Raised
  <2> QED
    BY <1>2, <1>9, <1>10, <2>2 DEF Core, Strict, Idling, Ceilings, Nested
<1>12. Heads(k2)
  <2> SUFFICES ASSUME NEW u \in Task, k2.state[u] = "READY", u # t
               PROVE  k2.ready[k2.priority[u]] # <<>> /\ Head(k2.ready[k2.priority[u]]) = u
    BY <1>2, <1>7 DEF Heads, p
  <2>1. k.state[u] = "READY"
    BY <1>6
  <2>2. /\ k.priority[u] \in Prio
        /\ k.ready[k.priority[u]] # <<>> /\ Head(k.ready[k.priority[u]]) = u
    BY <2>1 DEF Core, Heads, Lists, Waits
  <2>3. k.priority[u] # p
    BY <1>1, <2>1, StartedApart DEF HasStarted, p
  <2> QED
    BY <1>2, <1>5, <2>2, <2>3
<1>13. \A u \in Task : k2.state[u] # "RUNNING"
  BY <1>1, <1>6 DEF Core, OneRunning, t
<1>14. \A q \in Prio : q > p => k2.ready[q] = k.ready[q]
  BY <1>1, <1>5, Numbers
<1> QED
  BY <1>2, <1>4, <1>8, <1>10, <1>11, <1>12, <1>13, <1>14 DEF Core, OneRunning, p, t

-------------------------------------------------------------------------------
(* Os_State_Ready_To_Running and Os_Schedule_Internal *)

\* The second half of Os_Schedule_Internal: t is dispatched.
Dispatched(k, t) == [Ready_To_Running(k, t) EXCEPT !.active = t, !.status = "E_OK"]

\* Dispatching the head of a list.
LEMMA DispatchFields ==
  ASSUME NEW k \in KernelType, NEW p \in Prio, k.ready[p] # <<>>,
         NEW t \in Task, t = Head(k.ready[p]), Waits(k, t), k.priority[t] = p,
         NEW k2, k2 = Dispatched(k, t)
  PROVE  /\ k2 \in KernelType
         /\ k2.priority = k.priority /\ k2.held = k.held
         /\ k2.active = t /\ k2.activation = k.activation
         /\ k2.state[t] = "RUNNING"
         /\ \A u \in Task : u # t => k2.state[u] = k.state[u]
         /\ k2.ready[p] = Tail(k.ready[p])
         /\ \A q \in Prio : q # p => k2.ready[q] = k.ready[q]
<1> DEFINE s == [k.state EXCEPT ![t] = "RUNNING"]
           l == [k.ready EXCEPT ![p] = Tail(k.ready[p])]
<1>1. Ready_To_Running(k, t) = [k EXCEPT !.state = s, !.ready = l]
  <2>1. Ready_To_Running(k, t) = [PopHead(k, p) EXCEPT !.state[t] = "RUNNING"]
    BY Zenon DEF Ready_To_Running, Waits
  <2>2. PopHead(k, p) = [k EXCEPT !.ready[p] = Tail(@)]
    BY Zenon DEF PopHead
  <2> QED
    BY <2>1, <2>2 DEF KernelType
<1>2. s \in [Task -> TaskState] /\ l \in [Prio -> Seq(Task)]
  <2>1. k.state \in [Task -> TaskState] /\ k.ready \in [Prio -> Seq(Task)]
    BY KernelParts
  <2>2. Tail(k.ready[p]) \in Seq(Task)
    BY <2>1, PopFront
  <2> QED
    BY <2>1, <2>2 DEF TaskState
<1>3. "E_OK" \in Status
  BY DEF Status
<1>4. /\ s[t] = "RUNNING" /\ \A u \in Task : u # t => s[u] = k.state[u]
      /\ l[p] = Tail(k.ready[p]) /\ \A q \in Prio : q # p => l[q] = k.ready[q]
  <2>1. k.state \in [Task -> TaskState] /\ k.ready \in [Prio -> Seq(Task)]
    BY KernelParts
  <2> QED
    BY <2>1
<1> HIDE DEF s, l
<1>5. k2 = [k EXCEPT !.state = s, !.ready = l, !.active = t, !.status = "E_OK"]
  <2> DEFINE d == Ready_To_Running(k, t)
  <2>1. k2 = [d EXCEPT !.active = t, !.status = "E_OK"]
    BY Zenon DEF Dispatched
  <2>2. d = [k EXCEPT !.state = s, !.ready = l]
    BY <1>1
  <2> HIDE DEF d
  <2> QED
    BY <2>1, <2>2 DEF KernelType
<1>6. k2 \in KernelType
  <2>1. k2 = [state |-> s, activation |-> k.activation, priority |-> k.priority,
              held |-> k.held, ready |-> l, active |-> t, owner |-> k.owner, status |-> "E_OK"]
    BY <1>5 DEF KernelType
  <2> QED
    <3>1. /\ k.activation \in [Task -> 0 .. 255] /\ k.priority \in [Task -> -1 .. PrioCount]
          /\ k.held \in [Task -> Seq(Res)] /\ k.owner \in [Res -> Task \cup {INVALID}]
          /\ t \in Task \cup {INVALID}
      BY KernelParts, ZenonT(60)
    <3>2. [state |-> s, activation |-> k.activation, priority |-> k.priority,
           held |-> k.held, ready |-> l, active |-> t, owner |-> k.owner,
           status |-> "E_OK"] \in KernelType
      BY <1>2, <1>3, <3>1, MakeKernel, ZenonT(60)
    <3> QED
      BY <2>1, <3>2, Zenon
<1>7. /\ k2.state = s /\ k2.ready = l /\ k2.active = t
      /\ k2.priority = k.priority /\ k2.held = k.held /\ k2.activation = k.activation
  BY <1>5 DEF KernelType
<1> QED
  BY <1>6, <1>7, <1>4, Zenon

\* The dispatched task runs and leaves the head of its list.
LEMMA DispatchMoves ==
  ASSUME NEW k, Core(k), NEW p \in Prio, k.ready[p] # <<>>,
         NEW t, t = Head(k.ready[p]),
         NEW k2, k2 = Dispatched(k, t)
  PROVE  /\ k2.state[t] = "RUNNING"
         /\ \A u \in Task : u # t => k2.state[u] = k.state[u]
         /\ k2.ready[p] = Tail(k.ready[p])
         /\ \A q \in Prio : q # p => k2.ready[q] = k.ready[q]
<1>1. k \in KernelType /\ k.ready[p] \in Seq(Task)
  BY KernelParts DEF Core
<1>2. t \in Members(k.ready[p]) /\ t \in Task
  BY <1>1, MembersOf
<1>3. Waits(k, t) /\ k.priority[t] = p
  BY <1>2 DEF Core, Lists
<1> QED
  BY <1>1, <1>2, <1>3, DispatchFields

\* While no task runs, the head of the highest list that is not empty is dispatched.
LEMMA DispatchCore ==
  ASSUME NEW k, Core(k), \A u \in Task : k.state[u] # "RUNNING",
         NEW p \in Prio, k.ready[p] # <<>>,
         \A q \in Prio : q > p => k.ready[q] = <<>>,
         NEW t, t = Head(k.ready[p]),
         NEW k2, k2 = Dispatched(k, t)
  PROVE  /\ Core(k2) /\ Highest(k2)
         /\ \A u \in Task : k2.state[u] = "SUSPENDED" <=> k.state[u] = "SUSPENDED"
         /\ k2.active \in Task
         /\ k2.activation = k.activation /\ k2.held = k.held /\ k2.priority = k.priority
<1>1. k \in KernelType /\ k.ready[p] \in Seq(Task)
  BY KernelParts DEF Core
<1>2. t \in Members(k.ready[p]) /\ t \in Task
  BY <1>1, MembersOf
<1>3. Waits(k, t) /\ k.priority[t] = p
  BY <1>2 DEF Core, Lists
<1>4. /\ k2 \in KernelType
      /\ k2.priority = k.priority /\ k2.held = k.held
      /\ k2.active = t /\ k2.activation = k.activation
  BY <1>1, <1>2, <1>3, DispatchFields
<1>6. /\ k2.ready[p] = Tail(k.ready[p]) /\ Tail(k.ready[p]) \in Seq(Task)
      /\ \A q \in Prio : q # p => k2.ready[q] = k.ready[q]
      /\ k2.state[t] = "RUNNING"
      /\ \A u \in Task : u # t => k2.state[u] = k.state[u]
  <2>1. Tail(k.ready[p]) \in Seq(Task)
    BY <1>1, PopFront
  <2> QED
    BY <2>1, DispatchMoves
<1>8. /\ Members(k.ready[p]) = Members(k2.ready[p]) \cup {t}
      /\ Distinct(k2.ready[p]) /\ t \notin Members(k2.ready[p])
  BY <1>1, <1>6, PopFront DEF Core, Lists
<1>9. Lists(k2)
  <2>1. \A q \in Prio : Distinct(k2.ready[q])
    BY <1>6, <1>8 DEF Core, Lists
  <2>2. ASSUME NEW q \in Prio, NEW u \in Task
        PROVE  u \in Members(k2.ready[q]) <=> Waits(k2, u) /\ k2.priority[u] = q
    <3>1. u \in Members(k.ready[q]) <=> Waits(k, u) /\ k.priority[u] = q
      BY DEF Core, Lists
    <3>2. k2.priority[u] = k.priority[u]
      BY <1>4
    <3>3. CASE u = t
      <4>1. ~Waits(k2, u)
        BY <1>6, <3>3 DEF Waits
      <4> QED
        BY <1>3, <1>6, <1>8, <3>1, <3>3, <4>1
    <3>4. CASE u # t
      <4>1. Waits(k2, u) <=> Waits(k, u)
        BY <1>6, <3>4 DEF Waits
      <4>2. u \in Members(k2.ready[q]) <=> u \in Members(k.ready[q])
        BY <1>6, <1>8, <3>4
      <4> QED
        BY <3>1, <3>2, <4>1, <4>2
    <3> QED
      BY <3>3, <3>4
  <2>3. ASSUME NEW u \in Task, Waits(k2, u)
        PROVE  k2.priority[u] \in Prio
    BY <1>4, <1>6, <2>3 DEF Core, Lists, Waits
  <2> QED
    BY <2>1, <2>2, <2>3 DEF Lists
<1>10. Raised(k2) /\ Strict(k2)
  <2>1. \A u \in Task : ~HasStarted(k2, u) => ~HasStarted(k, u)
    BY <1>6 DEF HasStarted
  <2>2. \A u \in Task : k2.state[u] = "SUSPENDED" <=> k.state[u] = "SUSPENDED"
    BY <1>2, <1>3, <1>6 DEF Waits
  <2>3. \A u \in Task : k2.state[u] = "READY_FIRST" => k.state[u] = "READY_FIRST"
    BY <1>6
  <2>4. Raised(k2)
    BY <1>4, <2>2, <2>3 DEF Core, Raised
  <2>5. Strict(k2)
    BY <1>4, <2>1, <2>2, ZenonT(60) DEF Core, Strict, Idling, Ceilings
  <2> QED
    BY <2>4, <2>5
<1>11. \A u \in Task : u # t /\ k.state[u] = "READY" =>
         (k.priority[u] \in Prio /\ k.priority[u] < p) \/ k.state[t] = "READY"
  <2> SUFFICES ASSUME NEW u \in Task, u # t, k.state[u] = "READY", k.state[t] # "READY"
               PROVE  k.priority[u] \in Prio /\ k.priority[u] < p
    OBVIOUS
  <2>1. /\ k.priority[u] \in Prio
        /\ k.ready[k.priority[u]] # <<>> /\ Head(k.ready[k.priority[u]]) = u
    BY DEF Core, Heads, Lists, Waits
  <2>2. k.priority[u] # p
    BY <2>1
  <2>3. ~(k.priority[u] > p)
    BY <2>1
  <2> QED
    BY <2>1, <2>2, <2>3, PrioOrder
<1>12. Nested(k2)
  <2> SUFFICES ASSUME NEW u \in Task, u # t, HasStarted(k2, u)
               PROVE  k.priority[t] < TaskPriority[u] \/ k.priority[u] < TaskPriority[t]
    BY <1>4, <1>2, <1>6, ZenonT(60) DEF Core, Nested, HasStarted
  <2>1. k.state[u] = "READY"
    BY <1>6 DEF HasStarted
  <2>2. CASE k.state[t] = "READY"
    BY <1>2, <2>1, <2>2 DEF Core, Nested, HasStarted
  <2>3. CASE k.state[t] # "READY"
    <3>1. k.priority[t] = TaskPriority[t]
      BY <1>2, <1>3, <2>3, PriorityBounds DEF HasStarted, Waits
    <3> QED
      BY <1>3, <1>11, <2>1, <2>3, <3>1
  <2> QED
    BY <2>2, <2>3
<1>13. Heads(k2)
  <2> SUFFICES ASSUME NEW u \in Task, k2.state[u] = "READY"
               PROVE  k2.ready[k2.priority[u]] # <<>> /\ Head(k2.ready[k2.priority[u]]) = u
    BY DEF Heads
  <2>1. u # t /\ k.state[u] = "READY"
    BY <1>6
  <2>2. /\ k.priority[u] \in Prio
        /\ k.ready[k.priority[u]] # <<>> /\ Head(k.ready[k.priority[u]]) = u
    BY <2>1 DEF Core, Heads, Lists, Waits
  <2>3. k.priority[u] # p
    BY <2>1, <2>2
  <2> QED
    BY <1>4, <1>6, <2>2, <2>3, ZenonT(60)
<1>14. OneRunning(k2)
  BY <1>4, <1>6 DEF OneRunning
<1>15. Highest(k2)
  <2> SUFFICES ASSUME NEW u \in Task, k2.state[u] = "RUNNING", NEW q \in Prio, q > k2.priority[u]
               PROVE  k2.ready[q] = <<>>
    BY DEF Highest
  <2>1. u = t
    BY <1>6
  <2>2. q > p
    BY <1>3, <1>4, <2>1
  <2>3. q # p
    BY <2>2, PrioOrder
  <2> QED
    BY <1>6, <2>2, <2>3
<1>16. \A u \in Task : k2.state[u] = "SUSPENDED" <=> k.state[u] = "SUSPENDED"
  BY <1>2, <1>3, <1>6 DEF Waits
<1> QED
  BY <1>2, <1>4, <1>6, <1>9, <1>10, <1>12, <1>13, <1>14, <1>15, <1>16 DEF Core

\* Os_TaskPeek finds nothing, or the head of the highest list.
LEMMA Peek ==
  ASSUME NEW k \in KernelType, NEW min \in Int
  PROVE  \/ /\ TaskPeek(k, min) = INVALID
            /\ \A q \in Prio : q > min => k.ready[q] = <<>>
         \/ /\ TaskPeek(k, min) \in Task
            /\ \E p \in Prio : /\ p > min
                               /\ k.ready[p] # <<>>
                               /\ TaskPeek(k, min) = Head(k.ready[p])
                               /\ \A q \in Prio : q > p => k.ready[q] = <<>>
<1> DEFINE above == {p \in Prio : p > min /\ k.ready[p] # <<>>}
<1>1. CASE above = {}
  BY <1>1 DEF TaskPeek
<1>2. CASE above # {}
  <2> DEFINE p == CHOOSE p \in above : \A q \in above : q <= p
  <2>1. p \in above /\ \A q \in above : q <= p
    BY <1>2, HighestPriority
  <2>2. TaskPeek(k, min) = Head(k.ready[p])
    BY <1>2 DEF TaskPeek
  <2> HIDE DEF p
  <2>3. p \in Prio /\ k.ready[p] # <<>> /\ p > min
    BY <2>1
  <2>4. ASSUME NEW q \in Prio, q > p PROVE k.ready[q] = <<>>
    <3>1. q \notin above
      BY <2>1, <2>3, <2>4, Numbers
    <3>2. q > min
      BY <2>3, <2>4, Numbers
    <3> QED
      BY <3>1, <3>2
  <2>5. Head(k.ready[p]) \in Task
    BY <2>3, KernelParts, MembersOf
  <2> QED
    BY <2>2, <2>3, <2>4, <2>5
<1> QED
  BY <1>1, <1>2

\* What Os_Schedule_Internal does to a list: nothing, it takes its head to run, or it puts
\* the task it preempts in front.
Rescheduled(k, k2) ==
  \A q \in Prio :
    \/ k2.ready[q] = k.ready[q]
    \/ k.ready[q] # <<>> /\ k2.ready[q] = Tail(k.ready[q])
    \/ /\ k2.ready[q] = <<k.active>> \o k.ready[q]
       /\ k.active \in Task /\ k2.state[k.active] = "READY"

\* After Os_Schedule_Internal the running task is the highest.
LEMMA ScheduleCore ==
  ASSUME NEW k, Core(k),
         NEW k2, k2 = Schedule_Internal(k)
  PROVE  /\ Core(k2) /\ Highest(k2)
         /\ \A u \in Task : k2.state[u] = "SUSPENDED" <=> k.state[u] = "SUSPENDED"
         /\ k2.active \in Task \/ k2.active = k.active
         /\ k2.activation = k.activation /\ k2.held = k.held /\ k2.priority = k.priority
         /\ Rescheduled(k, k2)
         /\ \A u \in Task : HasStarted(k, u) => HasStarted(k2, u)
         /\ \/ Running(k2)
            \/ /\ ~Running(k) /\ k2.state = k.state /\ k2.active = k.active
               /\ \A p \in Prio : k.ready[p] = <<>>
<1>1. k \in KernelType
  BY DEF Core
<1> DEFINE min == IF Running(k) THEN k.priority[k.active] ELSE -1
           task == TaskPeek(k, min)
<1>2. min \in Int /\ min >= -1
  BY <1>1, KernelParts, Numbers DEF Running
<1>3. CASE task = INVALID
  <2>1. \A q \in Prio : q > min => k.ready[q] = <<>>
    BY <1>1, <1>2, <1>3, Peek, Numbers
  <2>2. k2 = [k EXCEPT !.status = "E_OK"]
    BY <1>3 DEF Schedule_Internal, Fail
  <2>3. k2 \in KernelType
    BY <1>1, <2>2, ZenonT(60) DEF KernelType, Status
  <2>4. /\ k2.state = k.state /\ k2.activation = k.activation /\ k2.priority = k.priority
        /\ k2.held = k.held /\ k2.ready = k.ready /\ k2.active = k.active
    BY <1>1, <2>2 DEF KernelType
  <2>5. Core(k2)
    BY <2>3, <2>4 DEF Core, Lists, Waits, Raised, Strict, Idling, HasStarted, Ceilings, Nested,
                         Heads, OneRunning
  <2>6. Highest(k2)
    <3> SUFFICES ASSUME NEW t \in Task, k.state[t] = "RUNNING"
                 PROVE  \A p \in Prio : p > k.priority[t] => k.ready[p] = <<>>
      BY <2>4 DEF Highest
    <3>1. t = k.active /\ Running(k)
      BY DEF Core, OneRunning, Running
    <3> QED
      BY <2>1, <3>1
  <2>7. Running(k2) \/ (~Running(k) /\ \A p \in Prio : k.ready[p] = <<>>)
    <3>1. Running(k) => Running(k2)
      BY <2>4 DEF Running
    <3>2. ~Running(k) => \A p \in Prio : k.ready[p] = <<>>
      BY <2>1, Numbers
    <3> QED
      BY <3>1, <3>2
  <2> QED
    BY <2>4, <2>5, <2>6, <2>7 DEF Rescheduled, HasStarted
<1>4. CASE task # INVALID
  <2>1. PICK p \in Prio : /\ p > min
                          /\ k.ready[p] # <<>>
                          /\ task = Head(k.ready[p])
                          /\ \A q \in Prio : q > p => k.ready[q] = <<>>
    BY <1>1, <1>2, <1>4, Peek
  <2> DEFINE m == Preempted(k)
  <2>2. k2 = Dispatched(m, task)
    BY <1>4, Zenon DEF Schedule_Internal, Dispatched
  <2> HIDE DEF task
  <2>5. task \in Task
    BY <1>1, <2>1, KernelParts, MembersOf
  <2>6. k2.active = task
    BY <2>2 DEF Dispatched
  <2>3. CASE Running(k)
    <3>1. k.priority[k.active] < p /\ k.priority[k.active] \in Prio
      <4>1. k.active \in Task /\ k.state[k.active] # "SUSPENDED"
        BY <2>3 DEF Running
      <4>2. TaskPriority[k.active] <= k.priority[k.active] /\ k.priority[k.active] \in Int
        BY <4>1, PriorityBounds
      <4> QED
        BY <2>1, <2>3, <4>1, <4>2, Numbers DEF Prio
    <3>2. m = Running_To_Ready(k, k.active)
      BY <2>3, Zenon DEF Preempted
    <3> HIDE DEF m
    <3>3. /\ Core(m)
          /\ \A u \in Task : m.state[u] # "RUNNING"
          /\ \A u \in Task : m.state[u] = "SUSPENDED" <=> k.state[u] = "SUSPENDED"
          /\ \A q \in Prio : q > k.priority[k.active] => m.ready[q] = k.ready[q]
          /\ m.active = k.active /\ m.activation = k.activation /\ m.held = k.held
          /\ m.priority = k.priority
      BY <2>3, <3>1, <3>2, PreemptCore
    <3>5. /\ m.state[k.active] = "READY"
          /\ \A u \in Task : u # k.active => m.state[u] = k.state[u]
          /\ m.ready[k.priority[k.active]] = <<k.active>> \o k.ready[k.priority[k.active]]
          /\ \A q \in Prio : q # k.priority[k.active] => m.ready[q] = k.ready[q]
      BY <1>1, <2>3, <3>1, <3>2, PreemptFields
    <3>4. m.ready[p] = k.ready[p] /\ \A q \in Prio : q > p => m.ready[q] = <<>>
      <4>1. \A q \in Prio : q > p => q > k.priority[k.active]
        BY <3>1, PrioOrder
      <4>2. p > k.priority[k.active]
        BY <3>1, PrioOrder
      <4> QED
        BY <2>1, <3>3, <4>1, <4>2
    <3>6. m.ready[p] # <<>> /\ task = Head(m.ready[p])
      BY <2>1, <3>4
    <3>7. /\ k2.state[task] = "RUNNING"
          /\ \A u \in Task : u # task => k2.state[u] = m.state[u]
          /\ k2.ready[p] = Tail(m.ready[p])
          /\ \A q \in Prio : q # p => k2.ready[q] = m.ready[q]
      <4>1. Core(m)
        BY <3>3
      <4> QED
        BY <2>2, <3>6, <4>1, DispatchMoves
    <3>8. k.active \in Task /\ task # k.active
      <4>1. task \in Members(k.ready[p]) /\ task \in Task
        BY <1>1, <2>1, KernelParts, MembersOf
      <4>2. Waits(k, task)
        BY <4>1 DEF Core, Lists
      <4> QED
        BY <2>3, <4>2 DEF Running, Waits
    <3>9. k2.state[k.active] = "READY"
      BY <3>5, <3>7, <3>8
    <3>10. Rescheduled(k, k2)
      <4> SUFFICES ASSUME NEW q \in Prio
                   PROVE  \/ k2.ready[q] = k.ready[q]
                          \/ k.ready[q] # <<>> /\ k2.ready[q] = Tail(k.ready[q])
                          \/ k2.ready[q] = <<k.active>> \o k.ready[q]
        BY <3>8, <3>9 DEF Rescheduled
      <4>1. CASE q = p
        BY <2>1, <3>4, <3>7, <4>1
      <4>2. CASE q # p
        BY <3>5, <3>7, <4>2, ZenonT(60)
      <4> QED
        BY <4>1, <4>2
    <3>11. \A u \in Task : HasStarted(k, u) => HasStarted(k2, u)
      <4> SUFFICES ASSUME NEW u \in Task, HasStarted(k, u)
                   PROVE  k2.state[u] \in {"RUNNING", "READY"}
        BY DEF HasStarted
      <4>1. m.state[u] \in {"RUNNING", "READY"}
        BY <3>5 DEF HasStarted
      <4> QED
        BY <3>7, <4>1
    <3>12. /\ Core(k2) /\ Highest(k2)
           /\ \A u \in Task : k2.state[u] = "SUSPENDED" <=> m.state[u] = "SUSPENDED"
           /\ k2.active \in Task
           /\ k2.activation = m.activation /\ k2.held = m.held /\ k2.priority = m.priority
      <4>1. Core(m) /\ \A u \in Task : m.state[u] # "RUNNING"
        BY <3>3
      <4> QED
        BY <2>2, <3>4, <3>6, <4>1, DispatchCore
    <3>13. Running(k2)
      BY <2>5, <2>6, <3>7 DEF Running
    <3> QED
      BY <3>3, <3>10, <3>11, <3>12, <3>13
  <2>4. CASE ~Running(k)
    <3>1. m = k
      BY <2>4 DEF Preempted
    <3>2. \A u \in Task : k.state[u] # "RUNNING"
      BY <2>4 DEF Core, OneRunning, Running
    <3>3. /\ k2.state[task] = "RUNNING"
          /\ \A u \in Task : u # task => k2.state[u] = k.state[u]
          /\ k2.ready[p] = Tail(k.ready[p])
          /\ \A q \in Prio : q # p => k2.ready[q] = k.ready[q]
      BY <2>1, <2>2, <3>1, DispatchMoves
    <3>4. Rescheduled(k, k2)
      BY <2>1, <3>3 DEF Rescheduled
    <3>5. \A u \in Task : HasStarted(k, u) => HasStarted(k2, u)
      BY <3>3 DEF HasStarted
    <3>6. Running(k2)
      BY <2>5, <2>6, <3>3 DEF Running
    <3> QED
      BY <2>1, <2>2, <3>1, <3>2, <3>4, <3>5, <3>6, DispatchCore
  <2> QED
    BY <2>3, <2>4
<1> QED
  BY <1>3, <1>4

-------------------------------------------------------------------------------
(* Os_State_Suspended_To_Ready and Os_State_Running_To_Suspended *)

\* A suspended task enters the list of its static priority behind all others.
LEMMA ReadyFields ==
  ASSUME NEW k \in KernelType, NEW t \in Task, k.state[t] = "SUSPENDED",
         NEW k2, k2 = Suspended_To_Ready(k, t)
  PROVE  /\ k2 \in KernelType
         /\ k2.state = [k.state EXCEPT ![t] = "READY_FIRST"]
         /\ k2.priority = [k.priority EXCEPT ![t] = TaskPriority[t]]
         /\ k2.ready = [k.ready EXCEPT ![TaskPriority[t]] = Append(k.ready[TaskPriority[t]], t)]
         /\ k2.held = k.held /\ k2.active = k.active /\ k2.activation = k.activation
<1> DEFINE p  == TaskPriority[t]
           s  == [k.state EXCEPT ![t] = "READY_FIRST"]
           pr == [k.priority EXCEPT ![t] = p]
           l  == [k.ready EXCEPT ![p] = Append(k.ready[p], t)]
<1>1. p \in Prio
  BY Numbers
<1>2. s \in [Task -> TaskState] /\ pr \in [Task -> -1 .. PrioCount] /\ l \in [Prio -> Seq(Task)]
  <2>1. /\ k.state \in [Task -> TaskState] /\ k.ready \in [Prio -> Seq(Task)]
        /\ k.priority \in [Task -> -1 .. PrioCount]
    BY KernelParts
  <2>2. Append(k.ready[p], t) \in Seq(Task)
    BY <1>1, <2>1, PushBack
  <2>3. p \in -1 .. PrioCount
    BY <1>1, Numbers
  <2> QED
    BY <2>1, <2>2, <2>3 DEF TaskState
<1>3. k2 = [PushTail(k, p, t) EXCEPT !.state[t] = "READY_FIRST", !.priority[t] = p]
  BY Zenon DEF Suspended_To_Ready
<1> HIDE DEF p
<1>4. PushTail(k, p, t) = [k EXCEPT !.ready = l]
  BY DEF PushTail, KernelType
<1>5. k2 = [k EXCEPT !.state = s, !.priority = pr, !.ready = l]
  BY <1>3, <1>4 DEF KernelType
<1> HIDE DEF s, pr, l
<1>6. k2 = [state |-> s, activation |-> k.activation, priority |-> pr, held |-> k.held,
            ready |-> l, active |-> k.active, owner |-> k.owner, status |-> k.status]
  BY <1>5 DEF KernelType
<1>7. k2 \in KernelType
  BY <1>2, <1>6, KernelParts DEF KernelType
<1> QED
  BY <1>6, <1>7 DEF s, pr, l, p

\* The tasks that wait keep their places, and others enter behind them.
Begins(l, n) == Len(l) <= Len(n) /\ \A i \in 1 .. Len(l) : n[i] = l[i]

Grows(k, k2) == \A q \in Prio : Begins(k.ready[q], k2.ready[q])

\* A list left alone grows, and what grows twice grows.
LEMMA GrowsOn ==
  ASSUME NEW k \in KernelType, NEW k2 \in KernelType
  PROVE  /\ k2.ready = k.ready => Grows(k, k2)
         /\ \A j \in KernelType : Grows(j, k) /\ Grows(k, k2) => Grows(j, k2)
<1>1. \A j \in KernelType, q \in Prio : Len(j.ready[q]) \in Nat
  BY KernelParts, LenProperties
<1>2. k2.ready = k.ready => Grows(k, k2)
  BY <1>1 DEF Grows, Begins
<1>3. ASSUME NEW j \in KernelType, Grows(j, k), Grows(k, k2) PROVE Grows(j, k2)
  <2> SUFFICES ASSUME NEW q \in Prio PROVE Begins(j.ready[q], k2.ready[q])
    BY DEF Grows
  <2>1. Begins(j.ready[q], k.ready[q]) /\ Begins(k.ready[q], k2.ready[q])
    BY <1>3 DEF Grows
  <2> QED
    BY <1>1, <2>1, SMTT(60) DEF Begins
<1> QED
  BY <1>2, <1>3

LEMMA ReadyCore ==
  ASSUME NEW k, Core(k), NEW t \in Task, k.state[t] = "SUSPENDED",
         NEW k2, k2 = Suspended_To_Ready(k, t)
  PROVE  /\ Core(k2)
         /\ k2.state[t] = "READY_FIRST"
         /\ \A u \in Task : u # t => k2.state[u] = k.state[u]
         /\ k2.held = k.held /\ k2.active = k.active /\ k2.activation = k.activation
         /\ Grows(k, k2)
<1> DEFINE p == TaskPriority[t]
<1>1. k \in KernelType /\ p \in Prio /\ k.ready[p] \in Seq(Task)
  BY KernelParts, Numbers DEF Core
<1>2. /\ k2 \in KernelType
      /\ k2.state = [k.state EXCEPT ![t] = "READY_FIRST"]
      /\ k2.priority = [k.priority EXCEPT ![t] = p]
      /\ k2.ready = [k.ready EXCEPT ![p] = Append(k.ready[p], t)]
      /\ k2.held = k.held /\ k2.active = k.active /\ k2.activation = k.activation
  BY <1>1, ReadyFields
<1>3. /\ k2.state[t] = "READY_FIRST" /\ k2.priority[t] = p
      /\ \A u \in Task : u # t => k2.state[u] = k.state[u] /\ k2.priority[u] = k.priority[u]
      /\ k2.ready[p] = Append(k.ready[p], t)
      /\ \A q \in Prio : q # p => k2.ready[q] = k.ready[q]
  <2>1. /\ k.state \in [Task -> TaskState] /\ k.ready \in [Prio -> Seq(Task)]
        /\ k.priority \in [Task -> -1 .. PrioCount]
    BY <1>1, KernelParts
  <2> HIDE DEF p
  <2> QED
    BY <1>1, <1>2, <2>1
<1> HIDE DEF p
<1>4. \A q \in Prio : t \notin Members(k.ready[q])
  BY DEF Core, Lists, Waits
<1>5. /\ Members(k2.ready[p]) = Members(k.ready[p]) \cup {t}
      /\ Distinct(k2.ready[p]) /\ k2.ready[p] # <<>>
      /\ k.ready[p] # <<>> => Head(k2.ready[p]) = Head(k.ready[p])
  BY <1>1, <1>3, <1>4, PushBack DEF Core, Lists
<1>6. Lists(k2)
  <2>1. \A q \in Prio : Distinct(k2.ready[q])
    BY <1>3, <1>5 DEF Core, Lists
  <2>2. ASSUME NEW q \in Prio, NEW u \in Task
        PROVE  u \in Members(k2.ready[q]) <=> Waits(k2, u) /\ k2.priority[u] = q
    <3>1. CASE u = t
      BY <1>3, <1>4, <1>5, <3>1 DEF Waits
    <3>2. CASE u # t
      <4>1. u \in Members(k2.ready[q]) <=> u \in Members(k.ready[q])
        <5>1. CASE q = p
          BY <1>5, <3>2, <5>1
        <5>2. CASE q # p
          BY <1>3, <5>2
        <5> QED
          BY <5>1, <5>2
      <4>2. Waits(k2, u) /\ k2.priority[u] = q <=> Waits(k, u) /\ k.priority[u] = q
        BY <1>3, <3>2 DEF Waits
      <4> QED
        BY <4>1, <4>2 DEF Core, Lists
    <3> QED
      BY <3>1, <3>2
  <2>3. ASSUME NEW u \in Task, Waits(k2, u)
        PROVE  k2.priority[u] \in Prio
    BY <1>1, <1>3, <2>3 DEF Core, Lists, Waits
  <2> QED
    BY <2>1, <2>2, <2>3 DEF Lists
<1>7. NoInternal => k.held[t] = <<>>
  BY DEF Core, Strict, Idling, HasStarted
<1>8. \A u \in Task : HasStarted(k2, u) <=> HasStarted(k, u)
  BY <1>3 DEF HasStarted
<1>9. ASSUME NoInternal PROVE Idling(k2)
  <2> SUFFICES ASSUME NEW u \in Task
               PROVE  /\ ~HasStarted(k2, u) => k2.held[u] = <<>>
                      /\ k2.state[u] = "SUSPENDED" => k2.priority[u] = -1
                      /\ k2.state[u] # "SUSPENDED" => k2.priority[u] = PriorityBelow(u, k2.held[u])
    BY DEF Idling
  <2>1. CASE u = t
    BY <1>2, <1>3, <1>7, <1>9, <2>1 DEF PriorityBelow, p
  <2>2. CASE u # t
    BY <1>2, <1>3, <1>8, <1>9, <2>2 DEF Core, Strict, Idling
  <2> QED
    BY <2>1, <2>2
<1>10. Raised(k2) /\ Strict(k2)
  <2>1. Raised(k2)
    <3>1. p \in Int /\ p <= p
      BY <1>1, Numbers
    <3> QED
      BY <1>2, <1>3, <3>1 DEF Core, Raised, p
  <2>2. Strict(k2)
    BY <1>2, <1>9 DEF Core, Strict, Ceilings
  <2> QED
    BY <2>1, <2>2
<1>11. Nested(k2)
  BY <1>3, <1>8 DEF Core, Nested, HasStarted
<1>12. Heads(k2)
  <2> SUFFICES ASSUME NEW u \in Task, k2.state[u] = "READY"
               PROVE  k2.ready[k2.priority[u]] # <<>> /\ Head(k2.ready[k2.priority[u]]) = u
    BY DEF Heads
  <2>1. u # t /\ k.state[u] = "READY"
    BY <1>3
  <2>2. /\ k.priority[u] \in Prio
        /\ k.ready[k.priority[u]] # <<>> /\ Head(k.ready[k.priority[u]]) = u
    BY <2>1 DEF Core, Heads, Lists, Waits
  <2> QED
    BY <1>3, <1>5, <2>1, <2>2
<1>13. OneRunning(k2)
  BY <1>2, <1>3 DEF Core, OneRunning
<1>14. Grows(k, k2)
  <2>1. Begins(k.ready[p], k2.ready[p])
    BY <1>1, <1>3, AppendProperties DEF Begins
  <2>2. \A q \in Prio : Len(k.ready[q]) \in Nat
    BY <1>1, KernelParts, LenProperties
  <2> QED
    BY <1>3, <2>1, <2>2 DEF Grows, Begins
<1> QED
  BY <1>2, <1>14, <1>3, <1>6, <1>10, <1>11, <1>12, <1>13 DEF Core

\* The running task leaves; without internal resources it holds nothing any more.
LEMMA SuspendCore ==
  ASSUME NEW k, Core(k), Running(k), NoInternal => k.held[k.active] = <<>>,
         NEW k2, k2 = Running_To_Suspended(k, k.active)
  PROVE  /\ Core(k2)
         /\ k2.state[k.active] = "SUSPENDED"
         /\ \A u \in Task : u # k.active => k2.state[u] = k.state[u]
         /\ \A u \in Task : k2.state[u] # "RUNNING"
         /\ k2.held = k.held /\ k2.active = k.active /\ k2.activation = k.activation
         /\ k2.ready = k.ready
<1> DEFINE t == k.active
           s == [k.state EXCEPT ![t] = "SUSPENDED"]
           pr == [k.priority EXCEPT ![t] = -1]
<1>1. t \in Task /\ k.state[t] = "RUNNING" /\ k \in KernelType
  BY DEF Running, Core
<1>2. /\ k.state \in [Task -> TaskState] /\ k.priority \in [Task -> -1 .. PrioCount]
  BY <1>1, KernelParts
<1>3. s \in [Task -> TaskState] /\ pr \in [Task -> -1 .. PrioCount]
  <2>1. -1 \in -1 .. PrioCount
    BY Numbers
  <2>2. "SUSPENDED" \in TaskState
    BY DEF TaskState
  <2> HIDE DEF t
  <2> QED
    BY <1>2, <2>1, <2>2
<1>4. k2 = [k EXCEPT !.state[t] = "SUSPENDED", !.priority[t] = -1]
  BY <1>1, Zenon DEF Running_To_Suspended
<1>5. k2 = [state |-> s, activation |-> k.activation, priority |-> pr, held |-> k.held,
            ready |-> k.ready, active |-> k.active, owner |-> k.owner, status |-> k.status]
  <2> HIDE DEF t
  <2> QED
    BY <1>1, <1>4 DEF KernelType
<1>6. /\ k2.state[t] = "SUSPENDED" /\ k2.priority[t] = -1
      /\ \A u \in Task : u # t => k2.state[u] = k.state[u] /\ k2.priority[u] = k.priority[u]
  <2>1. k2.state = s /\ k2.priority = pr
    BY <1>5
  <2> HIDE DEF t
  <2> QED
    BY <1>1, <1>2, <2>1
<1> HIDE DEF s, pr
<1>7. k2 \in KernelType
  BY <1>1, <1>3, <1>5, KernelParts DEF KernelType
<1>8. /\ k2.held = k.held /\ k2.active = t /\ k2.activation = k.activation
      /\ k2.ready = k.ready
  BY <1>5
<1> HIDE DEF t
<1>9. Lists(k2)
  <2>1. \A q \in Prio : t \notin Members(k.ready[q])
    BY <1>1 DEF Core, Lists, Waits
  <2> QED
    BY <1>1, <1>6, <1>8, <2>1 DEF Core, Lists, Waits
<1>10. \A u \in Task : HasStarted(k2, u) <=> HasStarted(k, u) /\ u # t
  BY <1>6 DEF HasStarted
<1>11. Raised(k2)
  BY <1>6, <1>8 DEF Core, Raised
<1>12. Strict(k2)
  BY <1>6, <1>8, <1>10 DEF Core, Strict, Idling, Ceilings, t
<1>13. Nested(k2)
  BY <1>6, <1>10 DEF Core, Nested
<1>14. Heads(k2)
  BY <1>6, <1>8 DEF Core, Heads
<1>15. \A u \in Task : k2.state[u] # "RUNNING"
  BY <1>1, <1>6 DEF Core, OneRunning, t
<1> QED
  BY <1>6, <1>7, <1>8, <1>9, <1>11, <1>12, <1>13, <1>14, <1>15 DEF Core, OneRunning, t

-------------------------------------------------------------------------------
(* Activation counts *)

\* What the scheduler reads does not depend on the counts, the owners and the status.
SameSchedule(k, k2) ==
  /\ k2.state = k.state /\ k2.priority = k.priority /\ k2.held = k.held
  /\ k2.ready = k.ready /\ k2.active = k.active

LEMMA SameCore ==
  ASSUME NEW k, NEW k2 \in KernelType, SameSchedule(k, k2)
  PROVE  /\ Core(k) => Core(k2)
         /\ Highest(k) => Highest(k2)
BY DEF SameSchedule, Core, Highest, Lists, Waits, Raised, Strict, Idling, HasStarted, Ceilings,
       Nested, Heads, OneRunning

\* No count is above its limit, and a task is suspended exactly when it counts none.
Counted(k) ==
  \A t \in Task :
    /\ k.activation[t] <= TaskLimit[t]
    /\ MultipleActivation => (k.state[t] = "SUSPENDED" <=> k.activation[t] = 0)

WithCount(k, t, n) == [k EXCEPT !.activation[t] = n]

LEMMA Recount ==
  ASSUME NEW k \in KernelType, NEW t \in Task, NEW n \in 0 .. 255
  PROVE  /\ WithCount(k, t, n) \in KernelType /\ SameSchedule(k, WithCount(k, t, n))
         /\ WithCount(k, t, n).activation[t] = n
         /\ \A u \in Task : u # t => WithCount(k, t, n).activation[u] = k.activation[u]
<1> SUFFICES ASSUME NEW k2, k2 = WithCount(k, t, n)
             PROVE  /\ k2 \in KernelType /\ SameSchedule(k, k2)
                    /\ k2.activation[t] = n
                    /\ \A u \in Task : u # t => k2.activation[u] = k.activation[u]
  OBVIOUS
<1> DEFINE a == [k.activation EXCEPT ![t] = n]
<1>1. a \in [Task -> 0 .. 255]
  BY KernelParts
<1>2. a[t] = n /\ \A u \in Task : u # t => a[u] = k.activation[u]
  BY KernelParts
<1>3. k2 = [state |-> k.state, activation |-> a, priority |-> k.priority, held |-> k.held,
            ready |-> k.ready, active |-> k.active, owner |-> k.owner, status |-> k.status]
  BY DEF KernelType, WithCount
<1> HIDE DEF a
<1>4. k2 \in KernelType
  <2>1. /\ k.state \in [Task -> TaskState] /\ k.priority \in [Task -> -1 .. PrioCount]
        /\ k.held \in [Task -> Seq(Res)] /\ k.ready \in [Prio -> Seq(Task)]
        /\ k.active \in Task \cup {INVALID} /\ k.owner \in [Res -> Task \cup {INVALID}]
        /\ k.status \in Status
    BY KernelParts
  <2> DEFINE st == k.state
             pr == k.priority
             h == k.held
             l == k.ready
             ac == k.active
             ow == k.owner
             e == k.status
  <2> HIDE DEF st, pr, h, l, ac, ow, e
  <2>2. k2 = [state |-> st, activation |-> a, priority |-> pr, held |-> h,
              ready |-> l, active |-> ac, owner |-> ow, status |-> e]
    BY <1>3 DEF st, pr, h, l, ac, ow, e
  <2> QED
    BY <1>1, <2>1, <2>2 DEF KernelType, st, pr, h, l, ac, ow, e
<1>5. SameSchedule(k, k2) /\ k2.activation = a
  BY <1>3 DEF SameSchedule
<1> QED
  BY <1>2, <1>4, <1>5

\* The active task runs, it has ended, or it is queued again for another activation.
Settled(k) ==
  \/ Running(k)
  \/ k.state[k.active] = "SUSPENDED"
  \/ k.state[k.active] = "READY_FIRST" /\ MultipleActivation /\ TaskLimit[k.active] > 1

\* The running task ends one of its activations, and queues again when others are counted.
LEMMA EndedCore ==
  ASSUME NEW k, Core(k), Counted(k), Running(k), NoInternal => k.held[k.active] = <<>>,
         NEW k2, k2 = Ended(k)
  PROVE  /\ Core(k2) /\ Counted(k2) /\ Highest(k2)
         /\ k2.active = k.active /\ k2.held = k.held
         /\ Grows(k, k2) /\ Settled(k2)
         /\ \A u \in Task : u # k.active => /\ k2.state[u] = k.state[u]
                                          /\ k2.activation[u] = k.activation[u]
<1> DEFINE t    == k.active
           gone == Running_To_Suspended(k, t)
           n    == k.activation[t] - 1
           less == WithCount(gone, t, n)
<1>1. t \in Task /\ k.state[t] = "RUNNING" /\ k \in KernelType
  BY DEF Running, Core
<1>2. /\ Core(gone) /\ gone.state[t] = "SUSPENDED"
      /\ \A u \in Task : u # t => gone.state[u] = k.state[u]
      /\ \A u \in Task : gone.state[u] # "RUNNING"
      /\ gone.held = k.held /\ gone.active = t /\ gone.activation = k.activation
      /\ gone.ready = k.ready /\ gone \in KernelType
  <2> HIDE DEF gone
  <2>1. gone = Running_To_Suspended(k, k.active)
    BY DEF gone
  <2> QED
    BY <2>1, SuspendCore DEF Core
<1>3. CASE ~MultipleActivation
  <2>1. k2 = gone
    BY <1>3 DEF Ended
  <2> HIDE DEF gone, t
  <2>2. Settled(k2)
    BY <1>2, <2>1 DEF Settled
  <2> QED
    BY <1>1, <1>2, <1>3, <2>1, <2>2, GrowsOn DEF Counted, Highest, t
<1>4. CASE MultipleActivation
  <2>1. k2 = IF less.activation[t] > 0 THEN Suspended_To_Ready(less, t) ELSE less
    <3>1. gone.activation[t] = k.activation[t]
      BY <1>2
    <3> QED
      BY <1>4, <3>1, Zenon DEF Ended, WithCount
  <2>2. n \in 0 .. 254 /\ n <= TaskLimit[t] /\ 0 <= TaskLimit[t] /\ (n > 0 => TaskLimit[t] > 1)
    <3> DEFINE c == k.activation[t]
               l == TaskLimit[t]
    <3>1. c \in 0 .. 255 /\ c # 0 /\ l \in 1 .. 255
      BY <1>1, <1>4, KernelParts, ConfigAssumption, ZenonT(60) DEF Counted
    <3>2. c <= l
      BY <1>1 DEF Counted
    <3> HIDE DEF c, l
    <3>3. c - 1 \in 0 .. 254 /\ c - 1 <= l /\ 0 <= l /\ (c - 1 > 0 => l > 1)
      BY <3>1, <3>2
    <3> QED
      BY <3>3 DEF c, l
  <2> HIDE DEF gone, n, t
  <2>3. /\ less \in KernelType /\ SameSchedule(gone, less)
        /\ less.activation[t] = n
        /\ \A u \in Task : u # t => less.activation[u] = k.activation[u]
    <3>1. gone \in KernelType /\ n \in 0 .. 255
      BY <1>2, <2>2 DEF Core
    <3>2. \A g \in KernelType, c \in 0 .. 255 :
            /\ WithCount(g, t, c) \in KernelType /\ SameSchedule(g, WithCount(g, t, c))
            /\ WithCount(g, t, c).activation[t] = c
            /\ \A u \in Task : u # t => WithCount(g, t, c).activation[u] = g.activation[u]
      BY <1>1, Recount
    <3>3. /\ less \in KernelType /\ SameSchedule(gone, less)
          /\ less.activation[t] = n
          /\ \A u \in Task : u # t => less.activation[u] = gone.activation[u]
      BY <3>1, <3>2, Zenon
    <3>4. gone.activation = k.activation
      BY <1>2
    <3> QED
      BY <3>3, <3>4
  <2> HIDE DEF less
  <2>4. /\ Core(less) /\ less.state = gone.state /\ less.held = k.held /\ less.active = t
        /\ less.ready = k.ready
    BY <1>2, <2>3, SameCore DEF SameSchedule
  <2>5. CASE n > 0
    <3>1. k2 = Suspended_To_Ready(less, t)
      BY <2>1, <2>3, <2>5
    <3>2. /\ Core(k2) /\ k2.state[t] = "READY_FIRST"
          /\ \A u \in Task : u # t => k2.state[u] = less.state[u]
          /\ k2.held = less.held /\ k2.active = less.active /\ k2.activation = less.activation
          /\ Grows(less, k2) /\ k2 \in KernelType
      BY <1>1, <1>2, <2>4, <3>1, ReadyCore DEF Core
    <3>3. \A u \in Task : k2.state[u] # "RUNNING"
      BY <1>2, <2>4, <3>2
    <3>4. Counted(k2)
      <4> SUFFICES ASSUME NEW u \in Task
                   PROVE  /\ k2.activation[u] <= TaskLimit[u]
                          /\ k2.state[u] = "SUSPENDED" <=> k2.activation[u] = 0
        BY DEF Counted
      <4>1. CASE u = t
        <5>1. k2.activation[u] = n
          BY <2>3, <3>2, <4>1
        <5> QED
          BY <2>2, <2>5, <3>2, <4>1, <5>1
      <4>2. CASE u # t
        BY <1>2, <1>4, <2>3, <2>4, <3>2, <4>2 DEF Counted
      <4> QED
        BY <4>1, <4>2
    <3>5. Grows(k, k2)
      BY <1>1, <2>3, <2>4, <3>2, GrowsOn
    <3>6. \A u \in Task : u # t => k2.state[u] = k.state[u] /\ k2.activation[u] = k.activation[u]
      BY <1>2, <2>3, <2>4, <3>2
    <3>7. Settled(k2)
      <4>1. k2.state[t] = "READY_FIRST" /\ k2.active = t /\ TaskLimit[t] > 1
        BY <2>2, <2>4, <2>5, <3>2
      <4> QED
        BY <1>4, <4>1 DEF Settled
    <3> QED
      BY <2>4, <3>2, <3>3, <3>4, <3>5, <3>6, <3>7 DEF Highest, t
  <2>6. CASE ~(n > 0)
    <3>1. k2 = less /\ n = 0
      <4>1. n = 0
        BY <2>2, <2>6
      <4>2. ~(less.activation[t] > 0)
        BY <2>3, <2>6, Zenon
      <4> QED
        BY <2>1, <4>1, <4>2, Zenon
    <3>2. Counted(k2)
      <4> SUFFICES ASSUME NEW u \in Task
                   PROVE  /\ k2.activation[u] <= TaskLimit[u]
                          /\ k2.state[u] = "SUSPENDED" <=> k2.activation[u] = 0
        BY DEF Counted
      <4>1. CASE u = t
        <5>1. k2.activation[u] = 0
          BY <2>3, <3>1, <4>1
        <5> QED
          BY <1>2, <2>2, <2>4, <3>1, <4>1, <5>1
      <4>2. CASE u # t
        BY <1>2, <1>4, <2>3, <2>4, <3>1, <4>2 DEF Counted
      <4> QED
        BY <4>1, <4>2
    <3>3. Grows(k, k2)
      BY <1>1, <2>3, <2>4, <3>1, GrowsOn
    <3>4. Settled(k2)
      BY <1>2, <2>4, <3>1 DEF Settled
    <3> QED
      BY <1>2, <2>3, <2>4, <3>1, <3>2, <3>3, <3>4 DEF Highest, t
  <2> QED
    BY <2>5, <2>6
<1> QED
  BY <1>3, <1>4

\* An activation that is allowed is counted; the first one readies the task.
LEMMA ActivatedCore ==
  ASSUME NEW k, Core(k), Counted(k), NEW t \in Task, ~AtLimit(k, t),
         NEW k2, k2 = Activated(k, t)
  PROVE  /\ Core(k2) /\ Counted(k2) /\ k2.active = k.active /\ k2.held = k.held
         /\ Grows(k, k2)
         /\ k2.state[t] # "SUSPENDED"
         /\ \A u \in Task : /\ k.state[u] # "SUSPENDED" => k2.state[u] = k.state[u]
                            /\ k2.activation[u] >= k.activation[u]
<1>0. k \in KernelType
  BY DEF Core
<1>1. k \in KernelType /\ \A u \in Task : k.activation[u] \in Int
  <2>1. \A u \in Task : k.activation[u] \in 0 .. 255
    BY <1>0, KernelParts
  <2> QED
    BY <1>0, <2>1
<1>2. CASE ~MultipleActivation
  <2>1. k2 = Suspended_To_Ready(k, t) /\ k.state[t] = "SUSPENDED"
    BY <1>2 DEF Activated, AtLimit
  <2>2. /\ Core(k2)
        /\ k2.held = k.held /\ k2.active = k.active /\ k2.activation = k.activation
        /\ k2.state[t] = "READY_FIRST"
        /\ Grows(k, k2) /\ \A u \in Task : u # t => k2.state[u] = k.state[u]
    BY <2>1, ReadyCore
  <2> QED
    BY <1>1, <1>2, <2>1, <2>2 DEF Counted
<1>3. CASE MultipleActivation
  <2> DEFINE n == k.activation[t] + 1
             counted == WithCount(k, t, n)
  <2>1. k2 = IF counted.activation[t] = 1 THEN Suspended_To_Ready(counted, t) ELSE counted
    BY <1>3, Zenon DEF Activated, WithCount
  <2> HIDE DEF counted
  <2>2. n \in 1 .. 255 /\ n <= TaskLimit[t]
    <3> DEFINE c == k.activation[t]
               l == TaskLimit[t]
    <3>1. c \in 0 .. 255 /\ l \in 1 .. 255
      BY <1>1, KernelParts, ConfigAssumption
    <3>2. ~(c >= l)
      BY <1>3 DEF AtLimit
    <3> HIDE DEF c, l
    <3>3. c + 1 \in 1 .. 255 /\ c + 1 <= l
      BY <3>1, <3>2
    <3> QED
      BY <3>3 DEF c, l
  <2>3. n = 1 <=> k.state[t] = "SUSPENDED"
    <3>1. k.activation[t] \in 0 .. 255
      BY <1>1, KernelParts
    <3>2. k.state[t] = "SUSPENDED" <=> k.activation[t] = 0
      BY <1>3 DEF Counted
    <3> QED
      BY <3>1, <3>2
  <2> HIDE DEF n
  <2>4. /\ counted \in KernelType /\ SameSchedule(k, counted)
        /\ counted.activation[t] = n
        /\ \A u \in Task : u # t => counted.activation[u] = k.activation[u]
    <3>1. n \in 0 .. 255
      BY <2>2
    <3>2. counted = WithCount(k, t, n)
      BY Zenon DEF counted
    <3> QED
      BY <1>1, <3>1, <3>2, Recount, ZenonT(60)
  <2>5. /\ Core(counted) /\ counted.state = k.state /\ counted.held = k.held
        /\ counted.active = k.active /\ counted.ready = k.ready
    BY <2>4, SameCore DEF SameSchedule
  <2>c. \A u \in Task : counted.activation[u] >= k.activation[u]
    <3>1. n >= k.activation[t]
      BY <1>1 DEF n
    <3> QED
      BY <1>1, <2>4, <3>1
  <2>6. CASE n = 1
    <3>1. k2 = Suspended_To_Ready(counted, t)
      BY <2>1, <2>4, <2>6
    <3>2. /\ Core(k2) /\ k2.state[t] = "READY_FIRST"
          /\ \A u \in Task : u # t => k2.state[u] = k.state[u]
          /\ k2.held = k.held /\ k2.active = k.active /\ k2.activation = counted.activation
          /\ Grows(counted, k2) /\ k2 \in KernelType
      BY <2>3, <2>5, <2>6, <3>1, ReadyCore DEF Core
    <3>3. Counted(k2)
      <4> SUFFICES ASSUME NEW u \in Task
                   PROVE  /\ k2.activation[u] <= TaskLimit[u]
                          /\ k2.state[u] = "SUSPENDED" <=> k2.activation[u] = 0
        BY DEF Counted
      <4>1. CASE u = t
        <5>1. k2.activation[u] = n
          BY <2>4, <3>2, <4>1
        <5> QED
          BY <2>2, <2>6, <3>2, <4>1, <5>1
      <4>2. CASE u # t
        BY <1>3, <2>4, <3>2, <4>2 DEF Counted
      <4> QED
        BY <4>1, <4>2
    <3>4. Grows(k, k2)
      BY <1>1, <2>4, <2>5, <3>2, GrowsOn
    <3>5. \A u \in Task : /\ k.state[u] # "SUSPENDED" => k2.state[u] = k.state[u]
                          /\ k2.activation[u] >= k.activation[u]
      BY <2>3, <2>5, <2>6, <2>c, <3>2
    <3> QED
      BY <2>5, <3>2, <3>3, <3>4, <3>5
  <2>7. CASE n # 1
    <3>1. k2 = counted
      BY <2>1, <2>4, <2>7
    <3>2. Counted(k2)
      <4> SUFFICES ASSUME NEW u \in Task
                   PROVE  /\ k2.activation[u] <= TaskLimit[u]
                          /\ k2.state[u] = "SUSPENDED" <=> k2.activation[u] = 0
        BY DEF Counted
      <4>1. CASE u = t
        <5>1. k2.activation[u] = n
          BY <2>4, <3>1, <4>1
        <5> QED
          BY <2>2, <2>3, <2>5, <2>7, <3>1, <4>1, <5>1
      <4>2. CASE u # t
        BY <1>3, <2>4, <2>5, <3>1, <4>2 DEF Counted
      <4> QED
        BY <4>1, <4>2
    <3>3. Grows(k, k2)
      BY <1>1, <2>4, <2>5, <3>1, GrowsOn
    <3> QED
      BY <2>3, <2>5, <2>7, <2>c, <3>1, <3>2, <3>3
  <2> QED
    BY <2>6, <2>7
<1> QED
  BY <1>2, <1>3

-------------------------------------------------------------------------------
(* Os_GetResource_Internal and Os_ReleaseResource_Internal *)

\* A stack of resources grows by one whose ceiling the task's priority does not exceed.
LEMMA SortedPush ==
  ASSUME NEW t \in Task, NEW stack \in Seq(Res), Sorted(t, stack), NEW r \in Res,
         TaskPriority[t] <= Ceiling[r],
         \A i \in 1 .. Len(stack) : Ceiling[stack[i]] <= Ceiling[r]
  PROVE  Sorted(t, <<r>> \o stack)
<1> DEFINE n == <<r>> \o stack
<1>1. /\ Len(n) = Len(stack) + 1 /\ n[1] = r
      /\ \A i \in 1 .. Len(stack) + 1 : i # 1 => i - 1 \in 1 .. Len(stack) /\ n[i] = stack[i - 1]
  BY PushFront
<1>2. Len(stack) \in Nat
  BY LenProperties
<1> HIDE DEF n
<1>3. ASSUME NEW i \in 1 .. Len(n) PROVE TaskPriority[t] <= Ceiling[n[i]]
  BY <1>1 DEF Sorted
<1>4. ASSUME NEW i \in 1 .. Len(n), NEW j \in 1 .. Len(n), i < j
      PROVE  Ceiling[n[j]] <= Ceiling[n[i]]
  <2>1. j # 1 /\ j - 1 \in 1 .. Len(stack) /\ n[j] = stack[j - 1]
    BY <1>1, <1>2, <1>4
  <2>2. CASE i = 1
    BY <1>1, <2>1, <2>2
  <2>3. CASE i # 1
    <3>1. i - 1 \in 1 .. Len(stack) /\ n[i] = stack[i - 1] /\ i - 1 < j - 1
      BY <1>1, <1>2, <1>4, <2>3
    <3> QED
      BY <2>1, <3>1 DEF Sorted
  <2> QED
    BY <2>2, <2>3
<1> QED
  BY <1>3, <1>4 DEF Sorted, n

LEMMA SortedPop ==
  ASSUME NEW t \in Task, NEW stack \in Seq(Res), stack # <<>>, Sorted(t, stack)
  PROVE  Sorted(t, Tail(stack))
<1> DEFINE n == Tail(stack)
<1>1. \A i \in 1 .. Len(n) : i + 1 \in 1 .. Len(stack) /\ n[i] = stack[i + 1]
  BY PopFront
<1>2. Len(n) \in Nat
  BY PopFront, LenProperties
<1> HIDE DEF n
<1>3. \A i \in 1 .. Len(n) : TaskPriority[t] <= Ceiling[n[i]]
  BY <1>1 DEF Sorted
<1>4. ASSUME NEW i \in 1 .. Len(n), NEW j \in 1 .. Len(n), i < j
      PROVE  Ceiling[n[j]] <= Ceiling[n[i]]
  <2>1. i + 1 < j + 1
    BY <1>2, <1>4
  <2> QED
    BY <1>1, <2>1 DEF Sorted
<1> QED
  BY <1>3, <1>4 DEF Sorted, n

\* The parts of the kernel's globals that a Get or a Release changes.
Levels == -1 .. PrioCount

Relocked(k, t, r, o, h, p, e) ==
  [k EXCEPT !.owner[r] = o, !.held[t] = h, !.priority[t] = p, !.status = e]

Relockable(k, t, r, o, h, p, e) ==
  /\ k \in KernelType /\ t \in Task /\ r \in Res
  /\ o \in Task \cup {INVALID} /\ h \in Seq(Res) /\ p \in Levels /\ e \in Status

LEMMA ResourceFields ==
  ASSUME NEW k, NEW t, NEW r, NEW o, NEW h, NEW p, NEW e,
         Relockable(k, t, r, o, h, p, e),
         NEW k2, k2 = Relocked(k, t, r, o, h, p, e)
  PROVE  /\ k2 \in KernelType
         /\ k2.state = k.state /\ k2.activation = k.activation /\ k2.ready = k.ready
         /\ k2.active = k.active
         /\ k2.held[t] = h /\ k2.priority[t] = p
         /\ \A u \in Task : u # t => k2.held[u] = k.held[u] /\ k2.priority[u] = k.priority[u]
<1> USE DEF Relockable
<1> DEFINE ow == [k.owner EXCEPT ![r] = o]
           hs == [k.held EXCEPT ![t] = h]
           pr == [k.priority EXCEPT ![t] = p]
<1>1. /\ ow \in [Res -> Task \cup {INVALID}] /\ hs \in [Task -> Seq(Res)]
      /\ pr \in [Task -> -1 .. PrioCount]
  BY KernelParts DEF Levels
<1>2. /\ hs[t] = h /\ pr[t] = p
      /\ \A u \in Task : u # t => hs[u] = k.held[u] /\ pr[u] = k.priority[u]
  BY KernelParts
<1>3. k2 = [k EXCEPT !.owner = ow, !.held = hs, !.priority = pr, !.status = e]
  BY DEF KernelType, Relocked
<1> HIDE DEF ow, hs, pr
<1>4. k2 = [state |-> k.state, activation |-> k.activation, priority |-> pr, held |-> hs,
            ready |-> k.ready, active |-> k.active, owner |-> ow, status |-> e]
  BY <1>3 DEF KernelType
<1>5. k2 \in KernelType
  <2>1. /\ k.state \in [Task -> TaskState] /\ k.activation \in [Task -> 0 .. 255]
        /\ k.ready \in [Prio -> Seq(Task)] /\ k.active \in Task \cup {INVALID}
    BY KernelParts
  <2>2. [state |-> k.state, activation |-> k.activation, priority |-> pr, held |-> hs,
         ready |-> k.ready, active |-> k.active, owner |-> ow, status |-> e] \in KernelType
    BY <1>1, <2>1, MakeKernel, Zenon
  <2> QED
    BY <1>4, <2>2, Zenon
<1> QED
  BY <1>2, <1>4, <1>5

\* When the running task is the highest the others that have started are below its
\* static priority: its own may change without meeting them.
LEMMA OthersBelow ==
  ASSUME NEW k, Core(k), Highest(k), Running(k), NEW u \in Task, u # k.active, HasStarted(k, u)
  PROVE  k.priority[u] < TaskPriority[k.active]
<1> DEFINE t == k.active
<1>1. t \in Task /\ k.state[t] = "RUNNING"
  BY DEF Running
<1> HIDE DEF t
<1>2. k.state[u] = "READY"
  BY DEF Core, OneRunning, HasStarted
<1>3. k.priority[u] \in Prio /\ k.ready[k.priority[u]] # <<>>
  BY <1>2 DEF Core, Lists, Heads, Waits
<1>4. ~(k.priority[u] > k.priority[t])
  BY <1>1, <1>3 DEF Highest
<1>5. k.priority[t] < TaskPriority[u] \/ k.priority[u] < TaskPriority[t]
  BY <1>1, <1>2 DEF Core, Nested, HasStarted, t
<1>6. /\ TaskPriority[u] <= k.priority[u] /\ k.priority[u] \in Int /\ TaskPriority[u] \in Int
      /\ k.priority[t] \in Int
  BY <1>1, <1>2, PriorityBounds
<1> QED
  BY <1>4, <1>5, <1>6 DEF t

\* A started task may hold h while its priority is p.
Allowed(t, h, p) ==
  /\ \A i \in 1 .. Len(h) : TaskPriority[t] <= Ceiling[h[i]]
  /\ TaskPriority[t] <= p
  /\ h = <<>> => p = TaskPriority[t]
  /\ NoInternal => p = PriorityBelow(t, h) /\ Sorted(t, h)

\* A running task that is the highest has its resources and its priority set.
LEMMA RelockCore ==
  ASSUME NEW k, Core(k), Highest(k), Running(k),
         NEW r, NEW o, NEW h, NEW p, NEW e, Relockable(k, k.active, r, o, h, p, e),
         Allowed(k.active, h, p),
         NEW k2, k2 = Relocked(k, k.active, r, o, h, p, e)
  PROVE  /\ Core(k2)
         /\ k.priority[k.active] <= p => Highest(k2)
         /\ k2.active = k.active /\ k2.state = k.state /\ k2.activation = k.activation
         /\ k2.ready = k.ready
<1> DEFINE t == k.active
<1>1. t \in Task /\ k.state[t] = "RUNNING" /\ k \in KernelType
  BY DEF Running, Core
<1> HIDE DEF t
<1>2. /\ k2 \in KernelType
      /\ k2.state = k.state /\ k2.activation = k.activation /\ k2.ready = k.ready
      /\ k2.active = k.active
      /\ k2.held[t] = h /\ k2.priority[t] = p
      /\ \A u \in Task : u # t => k2.held[u] = k.held[u] /\ k2.priority[u] = k.priority[u]
  BY ResourceFields DEF t
<1>3. Lists(k2)
  <2>1. ~Waits(k, t)
    BY <1>1 DEF Waits
  <2> QED
    BY <1>2, <2>1 DEF Core, Lists, Waits
<1>4. Raised(k2)
  <2> SUFFICES ASSUME NEW u \in Task
               PROVE  /\ \A i \in 1 .. Len(k2.held[u]) : TaskPriority[u] <= Ceiling[k2.held[u][i]]
                      /\ k2.state[u] # "SUSPENDED" => TaskPriority[u] <= k2.priority[u]
                      /\ \/ k2.state[u] = "READY_FIRST"
                         \/ k2.state[u] # "SUSPENDED" /\ k2.held[u] = <<>>
                         => k2.priority[u] = TaskPriority[u]
    BY DEF Raised
  <2>1. CASE u = t
    BY <1>1, <1>2, <2>1 DEF t, Allowed
  <2>2. CASE u # t
    BY <1>2, <2>2 DEF Core, Raised
  <2> QED
    BY <2>1, <2>2
<1>5. Strict(k2)
  BY <1>1, <1>2 DEF Core, Strict, Idling, Ceilings, HasStarted, Allowed, t
<1>6. Nested(k2)
  <2>1. \A u \in Task : u # t /\ HasStarted(k, u) => k.priority[u] < TaskPriority[t]
    BY OthersBelow DEF t
  <2> QED
    BY <1>2, <2>1 DEF Core, Nested, HasStarted
<1>7. Heads(k2)
  BY <1>1, <1>2 DEF Core, Heads
<1>8. OneRunning(k2)
  BY <1>2 DEF Core, OneRunning
<1>9. ASSUME k.priority[t] <= p PROVE Highest(k2)
  <2> SUFFICES ASSUME NEW u \in Task, k.state[u] = "RUNNING", NEW q \in Prio, q > k2.priority[u]
               PROVE  k.ready[q] = <<>>
    BY <1>2 DEF Highest
  <2>1. u = t
    BY DEF Core, OneRunning, t
  <2>2. k.priority[t] \in Int /\ p \in Int /\ q \in Int
    BY <1>1, PriorityBounds, Numbers DEF Relockable, Levels
  <2>3. q > k.priority[t]
    BY <1>2, <1>9, <2>1, <2>2
  <2> QED
    BY <1>1, <2>3 DEF Highest
<1> QED
  BY <1>2, <1>3, <1>4, <1>5, <1>6, <1>7, <1>8, <1>9 DEF Core, t

\* What a Get writes, but for the status.
Taken(k, r) ==
  Relocked(k, k.active, r, IF ErrorExt THEN k.active ELSE k.owner[r],
           <<r>> \o k.held[k.active], Ceiling[r], "E_OK")

LEMMA TakenFields ==
  ASSUME NEW k \in KernelType, k.active \in Task, NEW r \in Res
  PROVE  /\ Relockable(k, k.active, r, IF ErrorExt THEN k.active ELSE k.owner[r],
                       <<r>> \o k.held[k.active], Ceiling[r], "E_OK")
         /\ GetError(k, r) = "E_OK" => GetResource_Internal(k, r) = Taken(k, r)
<1> DEFINE t == k.active
           h == <<r>> \o k.held[t]
           o == IF ErrorExt THEN t ELSE k.owner[r]
<1>1. GetError(k, r) = "E_OK" => GetResource_Internal(k, r) = Taken(k, r)
  BY Zenon DEF GetResource_Internal, Taken, Relocked
<1>2. o \in Task \cup {INVALID}
  BY KernelParts
<1>3. h \in Seq(Res)
  <2>1. k.held[t] \in Seq(Res)
    BY KernelParts
  <2> QED
    BY <2>1, PushFront
<1>4. Ceiling[r] \in Levels /\ "E_OK" \in Status
  BY Numbers DEF Levels, Status
<1>5. Relockable(k, t, r, o, h, Ceiling[r], "E_OK")
  <2> HIDE DEF h, o
  <2> QED
    BY <1>2, <1>3, <1>4 DEF Relockable, t
<1> QED
  BY <1>1, <1>5

\* The elements of a stack with one more on top.
LEMMA StackTop ==
  ASSUME NEW t \in Task, NEW stack \in Seq(Res), NEW r \in Res, TaskPriority[t] <= Ceiling[r],
         \A i \in 1 .. Len(stack) : TaskPriority[t] <= Ceiling[stack[i]]
  PROVE  /\ \A i \in 1 .. Len(<<r>> \o stack) : TaskPriority[t] <= Ceiling[(<<r>> \o stack)[i]]
         /\ <<r>> \o stack # <<>> /\ Head(<<r>> \o stack) = r
<1> DEFINE n == <<r>> \o stack
<1>1. /\ Len(n) = Len(stack) + 1 /\ n[1] = r /\ n # <<>> /\ Head(n) = r
      /\ \A i \in 1 .. Len(stack) + 1 : i # 1 => i - 1 \in 1 .. Len(stack) /\ n[i] = stack[i - 1]
  BY PushFront
<1> HIDE DEF n
<1>2. \A i \in 1 .. Len(n) : TaskPriority[t] <= Ceiling[n[i]]
  BY <1>1
<1> QED
  BY <1>1, <1>2 DEF n

\* The running task, which is the highest, takes a resource of a ceiling it may reach.
LEMMA TakenCore ==
  ASSUME NEW k, Core(k), Highest(k), Running(k), NEW r \in Res,
         k.priority[k.active] <= Ceiling[r],
         NEW k2, k2 = Taken(k, r)
  PROVE  /\ Core(k2) /\ Highest(k2)
         /\ k2.active = k.active /\ k2.state = k.state /\ k2.activation = k.activation
         /\ k2.ready = k.ready
<1> DEFINE t == k.active
           h == <<r>> \o k.held[t]
           o == IF ErrorExt THEN t ELSE k.owner[r]
<1>1. t \in Task /\ k.state[t] = "RUNNING" /\ k \in KernelType /\ k.held[t] \in Seq(Res)
  BY KernelParts DEF Running, Core
<1>2. /\ k2 = Relocked(k, t, r, o, h, Ceiling[r], "E_OK")
      /\ Relockable(k, t, r, o, h, Ceiling[r], "E_OK")
  BY <1>1, TakenFields DEF Taken
<1>3. TaskPriority[t] <= Ceiling[r]
  <2>1. k.priority[t] \in Int /\ TaskPriority[t] \in Int /\ TaskPriority[t] <= k.priority[t]
    BY <1>1, PriorityBounds
  <2>2. Ceiling[r] \in Int
    BY Numbers
  <2> QED
    BY <2>1, <2>2
<1>4. \A i \in 1 .. Len(k.held[t]) : TaskPriority[t] <= Ceiling[k.held[t][i]]
  BY <1>1 DEF Core, Raised
<1>5. /\ \A i \in 1 .. Len(h) : TaskPriority[t] <= Ceiling[h[i]]
      /\ h # <<>> /\ Head(h) = r
  BY <1>1, <1>3, <1>4, StackTop
<1>6. ASSUME NoInternal PROVE Ceiling[r] = PriorityBelow(t, h) /\ Sorted(t, h)
  <2>1. \A i \in 1 .. Len(k.held[t]) : Ceiling[k.held[t][i]] <= Ceiling[r]
    <3> TAKE i \in 1 .. Len(k.held[t])
    <3>1. Ceiling[k.held[t][i]] <= k.priority[t] /\ k.held[t][i] \in Res /\ k.priority[t] \in Int
      BY <1>1, <1>6, CeilingBounds, PriorityBounds
    <3> QED
      BY <3>1, Numbers
  <2>2. Sorted(t, k.held[t])
    BY <1>1, <1>6 DEF Core, Strict, Ceilings
  <2>3. Sorted(t, h)
    BY <1>1, <1>3, <2>1, <2>2, SortedPush
  <2> HIDE DEF h
  <2> QED
    BY <1>5, <2>3 DEF PriorityBelow
<1> HIDE DEF h, o, t
<1>7. Allowed(t, h, Ceiling[r])
  BY <1>3, <1>5, <1>6 DEF Allowed
<1> DEFINE p == Ceiling[r]
<1>8. Relockable(k, k.active, r, o, h, p, "E_OK") /\ k2 = Relocked(k, k.active, r, o, h, p, "E_OK")
  BY <1>2 DEF t
<1>9. Allowed(k.active, h, p) /\ k.priority[k.active] <= p
  BY <1>7 DEF t
<1> HIDE DEF p
<1> QED
  BY <1>8, <1>9, RelockCore

LEMMA GetCore ==
  ASSUME NEW k, Core(k), Highest(k), Running(k), NEW r \in Res,
         k.priority[k.active] <= Ceiling[r], GetError(k, r) = "E_OK",
         NEW k2, k2 = GetResource_Internal(k, r)
  PROVE  /\ Core(k2) /\ Highest(k2)
         /\ k2.active = k.active /\ k2.state = k.state /\ k2.activation = k.activation
         /\ k2.ready = k.ready
<1>1. k \in KernelType /\ k.active \in Task
  BY DEF Core, Running
<1>2. k2 = Taken(k, r)
  BY <1>1, TakenFields
<1> QED
  BY <1>2, TakenCore

\* The running task, which is the highest, gives back the resource it took last, before
\* it reschedules.
LEMMA UnlockedCore ==
  ASSUME NEW k, Core(k), Highest(k), Running(k), NEW r \in Res, k.held[k.active] # <<>>,
         NEW k2, k2 = Unlocked(k, r)
  PROVE  /\ Core(k2)
         /\ k2.active = k.active /\ k2.state = k.state /\ k2.activation = k.activation
         /\ k2.ready = k.ready
<1> DEFINE t == k.active
           h == Tail(k.held[t])
           p == PriorityBelow(t, h)
<1>1. /\ t \in Task /\ k.state[t] = "RUNNING" /\ k \in KernelType /\ k.held[t] \in Seq(Res)
      /\ k.held[t] # <<>> /\ k.status \in Status
  BY KernelParts DEF Running, Core
<1>2. k2 = Relocked(k, t, r, INVALID, h, p, k.status)
  <2>1. k2 = [k EXCEPT !.owner[r] = INVALID, !.held[t] = h, !.priority[t] = p]
    BY Zenon DEF Unlocked
  <2> HIDE DEF t, h, p
  <2> QED
    BY <1>1, <2>1 DEF Relocked, KernelType
<1> HIDE DEF p
<1>3. /\ h \in Seq(Res)
      /\ \A i \in 1 .. Len(h) : h[i] \in Res /\ TaskPriority[t] <= Ceiling[h[i]]
      /\ NoInternal => Sorted(t, h)
  <2>1. /\ h \in Seq(Res)
        /\ \A i \in 1 .. Len(h) : i + 1 \in 1 .. Len(k.held[t]) /\ h[i] = k.held[t][i + 1]
    BY <1>1, PopFront
  <2>2. \A i \in 1 .. Len(k.held[t]) : TaskPriority[t] <= Ceiling[k.held[t][i]]
    BY <1>1 DEF Core, Raised
  <2>3. NoInternal => Sorted(t, h)
    BY <1>1, SortedPop DEF Core, Strict, Ceilings
  <2> HIDE DEF h
  <2>4. \A i \in 1 .. Len(h) : h[i] \in Res
    BY <2>1, ElementOfSeq
  <2> QED
    BY <2>1, <2>2, <2>3, <2>4
<1> HIDE DEF h
<1>4. p \in Levels /\ TaskPriority[t] <= p /\ (h = <<>> => p = TaskPriority[t])
  <2>1. CASE h = <<>>
    <3>1. p = TaskPriority[t]
      BY <2>1 DEF p, PriorityBelow
    <3>2. TaskPriority[t] \in Levels /\ TaskPriority[t] <= TaskPriority[t]
      BY <1>1, Numbers DEF Levels
    <3> QED
      BY <3>1, <3>2
  <2>2. CASE h # <<>>
    <3>1. p = Ceiling[Head(h)]
      BY <2>2 DEF p, PriorityBelow
    <3>2. 1 \in 1 .. Len(h) /\ Head(h) = h[1]
      BY <1>3, <2>2, EmptySeq
    <3>3. Head(h) \in Res /\ TaskPriority[t] <= Ceiling[Head(h)]
      BY <1>3, <3>2
    <3> QED
      BY <2>2, <3>1, <3>3, Numbers DEF Levels
  <2> QED
    BY <2>1, <2>2
<1>5. Relockable(k, t, r, INVALID, h, p, k.status)
  BY <1>1, <1>3, <1>4 DEF Relockable
<1>6. NoInternal => p = PriorityBelow(t, h) /\ Sorted(t, h)
  BY <1>3 DEF p
<1>7. Allowed(t, h, p)
  BY <1>3, <1>4, <1>6 DEF Allowed
<1> DEFINE o == INVALID
           e == k.status
<1>8. Relockable(k, k.active, r, o, h, p, e) /\ k2 = Relocked(k, k.active, r, o, h, p, e)
  BY <1>2, <1>5 DEF t
<1>9. Allowed(k.active, h, p)
  BY <1>7 DEF t
<1> HIDE DEF t, o, e
<1> QED
  BY <1>8, <1>9, RelockCore

-------------------------------------------------------------------------------
(* The services, on a value of the kernel's globals *)

\* What holds of the globals between two steps.
KInv(k) == Core(k) /\ Highest(k) /\ Counted(k)

\* The globals after a service: the invariant holds and some task is the active one.
Served(k) == KInv(k) /\ k.active \in Task

LEMMA FailFields ==
  ASSUME NEW k \in KernelType, NEW e \in Status
  PROVE  /\ Fail(k, e) \in KernelType
         /\ SameSchedule(k, Fail(k, e)) /\ Fail(k, e).activation = k.activation
<1> SUFFICES ASSUME NEW k2, k2 = Fail(k, e)
             PROVE  /\ k2 \in KernelType /\ SameSchedule(k, k2) /\ k2.activation = k.activation
  OBVIOUS
<1>1. k2 = [k EXCEPT !.status = e]
  BY DEF Fail
<1>2. k2 = [state |-> k.state, activation |-> k.activation, priority |-> k.priority,
            held |-> k.held, ready |-> k.ready, active |-> k.active, owner |-> k.owner,
            status |-> e]
  BY <1>1 DEF KernelType
<1>3. k2 \in KernelType
  <2>1. /\ k.state \in [Task -> TaskState] /\ k.activation \in [Task -> 0 .. 255]
        /\ k.priority \in [Task -> -1 .. PrioCount] /\ k.held \in [Task -> Seq(Res)]
        /\ k.ready \in [Prio -> Seq(Task)] /\ k.active \in Task \cup {INVALID}
        /\ k.owner \in [Res -> Task \cup {INVALID}]
    BY KernelParts, ZenonT(60)
  <2>2. [state |-> k.state, activation |-> k.activation, priority |-> k.priority,
         held |-> k.held, ready |-> k.ready, active |-> k.active, owner |-> k.owner,
         status |-> e] \in KernelType
    BY <2>1, MakeKernel, Zenon
  <2> QED
    BY <1>2, <2>2, Zenon
<1> QED
  BY <1>2, <1>3 DEF SameSchedule

LEMMA FailServed ==
  ASSUME NEW k, Served(k), NEW e \in Status
  PROVE  /\ Served(Fail(k, e))
         /\ Running(k) => Running(Fail(k, e))
         /\ Settled(k) => Settled(Fail(k, e))
<1>1. k \in KernelType
  BY DEF Served, KInv, Core
<1>2. /\ Fail(k, e) \in KernelType
      /\ SameSchedule(k, Fail(k, e)) /\ Fail(k, e).activation = k.activation
  BY <1>1, FailFields
<1>3. Core(Fail(k, e)) /\ Highest(Fail(k, e))
  BY <1>2, SameCore DEF Served, KInv
<1>4. Counted(Fail(k, e)) /\ Fail(k, e).active \in Task
  BY <1>2 DEF Served, KInv, Counted, SameSchedule
<1>5. Running(k) => Running(Fail(k, e))
  BY <1>2 DEF Running, SameSchedule
<1>6. Settled(k) => Settled(Fail(k, e))
  BY <1>2, <1>5 DEF Settled, SameSchedule
<1> QED
  BY <1>3, <1>4, <1>5, <1>6 DEF Served, KInv

\* When no task is dispatched none waits: the active one has ended.
LEMMA ScheduleServed ==
  ASSUME NEW k, Core(k), Counted(k), k.active \in Task
  PROVE  /\ Served(Schedule_Internal(k))
         /\ Running(k) => Running(Schedule_Internal(k))
         /\ Settled(Schedule_Internal(k))
<1> DEFINE k2 == Schedule_Internal(k)
<1>1. /\ Core(k2) /\ Highest(k2)
      /\ \A u \in Task : k2.state[u] = "SUSPENDED" <=> k.state[u] = "SUSPENDED"
      /\ k2.active \in Task \/ k2.active = k.active
      /\ k2.activation = k.activation
      /\ \/ Running(k2)
         \/ /\ ~Running(k) /\ k2.state = k.state /\ k2.active = k.active
            /\ \A p \in Prio : k.ready[p] = <<>>
  <2> HIDE DEF k2
  <2>1. k2 = Schedule_Internal(k)
    BY DEF k2
  <2> QED
    BY <2>1, ScheduleCore
<1> HIDE DEF k2
<1>2. Counted(k2) /\ k2.active \in Task
  BY <1>1 DEF Counted
<1>3. Settled(k2)
  <2>1. CASE Running(k2)
    BY <2>1 DEF Settled
  <2>2. CASE ~Running(k2)
    <3>1. ~Waits(k, k.active)
      <4> SUFFICES ASSUME Waits(k, k.active) PROVE FALSE
        OBVIOUS
      <4>1. /\ k.priority[k.active] \in Prio
            /\ k.active \in Members(k.ready[k.priority[k.active]])
        BY DEF Core, Lists
      <4>2. k.ready[k.priority[k.active]] = <<>>
        BY <1>1, <2>2, <4>1
      <4> QED
        BY <4>1, <4>2, EmptySeq DEF Members
    <3>2. k.state[k.active] \in TaskState
      BY KernelParts DEF Core
    <3>3. k.state[k.active] = "SUSPENDED"
      BY <1>1, <2>2, <3>1, <3>2 DEF TaskState, Waits, Running
    <3> QED
      BY <1>1, <2>2, <3>3 DEF Settled
  <2> QED
    BY <2>1, <2>2
<1>4. Running(k) => Running(k2)
  BY <1>1
<1> QED
  BY <1>1, <1>2, <1>3, <1>4 DEF Served, KInv, k2

LEMMA ActivateServed ==
  ASSUME NEW k, Served(k), NEW t, ErrorExt \/ t \in Task,
         ~MultipleActivation /\ ~ErrorExt => k.state[t] = "SUSPENDED"
  PROVE  Served(ActivateTask_Internal(k, t))
<1>1. CASE ActivateError(k, t) # "E_OK"
  <2>1. ActivateTask_Internal(k, t) = Fail(k, ActivateError(k, t))
    BY <1>1 DEF ActivateTask_Internal
  <2>2. ActivateError(k, t) \in Status
    BY DEF ActivateError, Status
  <2> QED
    BY <2>1, <2>2, FailServed
<1>2. CASE ActivateError(k, t) = "E_OK"
  <2> DEFINE a == Activated(k, t)
  <2>1. t \in Task /\ ~AtLimit(k, t)
    BY <1>2, BuildAssumption DEF ActivateError, AtLimit
  <2>2. ActivateTask_Internal(k, t) = Schedule_Internal(a)
    BY <1>2, Zenon DEF ActivateTask_Internal
  <2>3. a = Activated(k, t)
    OBVIOUS
  <2> HIDE DEF a
  <2>4. Core(a) /\ Counted(a) /\ a.active = k.active
    BY <2>1, <2>3, ActivatedCore DEF Served, KInv
  <2> QED
    BY <2>2, <2>4, ScheduleServed DEF Served
<1> QED
  BY <1>1, <1>2

\* The rules that the documentation gives the caller of TerminateTask and ChainTask.
LEMMA TerminateServed ==
  ASSUME NEW k, Served(k), Running(k), NoInternal /\ ~ErrorExt => k.held[k.active] = <<>>
  PROVE  Served(TerminateTask_Internal(k)) /\ Settled(TerminateTask_Internal(k))
<1>1. CASE EndError(k) # "E_OK"
  <2>1. TerminateTask_Internal(k) = Fail(k, EndError(k))
    BY <1>1 DEF TerminateTask_Internal
  <2>2. EndError(k) \in Status
    BY DEF EndError, Status
  <2> QED
    BY <2>1, <2>2, FailServed DEF Settled
<1>2. CASE EndError(k) = "E_OK"
  <2> DEFINE a == Ended(k)
  <2>1. NoInternal => k.held[k.active] = <<>>
    BY <1>2, BuildAssumption DEF EndError
  <2>2. TerminateTask_Internal(k) = Schedule_Internal(a)
    BY <1>2, Zenon DEF TerminateTask_Internal
  <2>3. a = Ended(k)
    OBVIOUS
  <2> HIDE DEF a
  <2>4. Core(a) /\ Counted(a) /\ a.active = k.active
    BY <2>1, <2>3, EndedCore DEF Served, KInv
  <2> QED
    BY <2>2, <2>4, ScheduleServed DEF Served
<1> QED
  BY <1>1, <1>2

LEMMA ChainServed ==
  ASSUME NEW k, Served(k), Running(k), NoInternal /\ ~ErrorExt => k.held[k.active] = <<>>,
         NEW t, ErrorExt \/ t \in Task
  PROVE  Served(ChainTask_Internal(k, t)) /\ Settled(ChainTask_Internal(k, t))
<1>1. CASE EndError(k) # "E_OK"
  <2>1. ChainTask_Internal(k, t) = Fail(k, EndError(k))
    BY <1>1 DEF ChainTask_Internal
  <2>2. EndError(k) \in Status
    BY DEF EndError, Status
  <2> QED
    BY <2>1, <2>2, FailServed DEF Settled
<1>2. CASE EndError(k) = "E_OK"
  <2> DEFINE a == Ended(k)
             b == Activated(a, t)
  <2>1. NoInternal => k.held[k.active] = <<>>
    BY <1>2, BuildAssumption DEF EndError
  <2>2. a = Ended(k) /\ b = Activated(a, t)
    OBVIOUS
  <2>3. ChainTask_Internal(k, t) = IF ErrorExt /\ t \notin Task THEN Fail(k, "E_OS_ID")
                                   ELSE IF AtLimit(a, t) THEN Fail(a, "E_OS_LIMIT")
                                   ELSE Schedule_Internal(b)
    BY <1>2, Zenon DEF ChainTask_Internal
  <2> HIDE DEF a, b
  <2>4. Core(a) /\ Counted(a) /\ Highest(a) /\ a.active = k.active /\ Settled(a)
    BY <2>1, <2>2, EndedCore DEF Served, KInv
  <2>5. CASE ErrorExt /\ t \notin Task
    BY <2>3, <2>5, FailServed DEF Status, Settled
  <2>6. CASE t \in Task /\ AtLimit(a, t)
    <3>1. Served(a) /\ Settled(a)
      BY <2>4 DEF Served, KInv
    <3>2. "E_OS_LIMIT" \in Status
      BY DEF Status
    <3> QED
      BY <2>3, <2>6, <3>1, <3>2, FailServed
  <2>7. CASE t \in Task /\ ~AtLimit(a, t)
    <3>1. Core(b) /\ Counted(b) /\ b.active = a.active
      BY <2>2, <2>4, <2>7, ActivatedCore
    <3>2. Served(Schedule_Internal(b)) /\ Settled(Schedule_Internal(b))
      BY <2>4, <3>1, ScheduleServed DEF Served
    <3> QED
      BY <2>3, <2>7, <3>2
  <2> QED
    BY <2>5, <2>6, <2>7
<1> QED
  BY <1>1, <1>2

LEMMA GetServed ==
  ASSUME NEW k, Served(k), Running(k), NEW r, ErrorExt \/ r \in Res,
         ~ErrorExt => k.priority[k.active] <= Ceiling[r]
  PROVE  Served(GetResource_Internal(k, r))
<1>1. CASE GetError(k, r) # "E_OK"
  <2>1. GetResource_Internal(k, r) = Fail(k, GetError(k, r))
    BY <1>1 DEF GetResource_Internal
  <2>2. GetError(k, r) \in Status
    BY DEF GetError, Status
  <2> QED
    BY <2>1, <2>2, FailServed
<1>2. CASE GetError(k, r) = "E_OK"
  <2> DEFINE a == GetResource_Internal(k, r)
  <2>1. r \in Res
    BY <1>2, BuildAssumption DEF GetError
  <2>2. k.priority[k.active] <= Ceiling[r]
    <3>1. CASE ErrorExt
      <4>1. ~(k.priority[k.active] > Ceiling[r])
        BY <1>2, <2>1, <3>1 DEF GetError
      <4>2. k.priority[k.active] \in Int
        BY PriorityBounds DEF Served, KInv, Running
      <4> QED
        BY <2>1, <4>1, <4>2, Numbers
    <3> QED
      BY <3>1, BuildAssumption
  <2>3. a = GetResource_Internal(k, r)
    OBVIOUS
  <2> HIDE DEF a
  <2>4. /\ Core(a) /\ Highest(a)
        /\ a.active = k.active /\ a.state = k.state /\ a.activation = k.activation
    BY <1>2, <2>1, <2>2, <2>3, GetCore DEF Served, KInv
  <2>5. Served(a)
    BY <2>4 DEF Served, KInv, Counted
  <2> QED
    BY <2>3, <2>5
<1> QED
  BY <1>1, <1>2

LEMMA ReleaseServed ==
  ASSUME NEW k, Served(k), Running(k), NEW r, ErrorExt \/ r \in Res,
         ~ErrorExt => k.held[k.active] # <<>>
  PROVE  Served(ReleaseResource_Internal(k, r)) /\ Running(ReleaseResource_Internal(k, r))
<1>1. CASE ReleaseError(k, r) # "E_OK"
  <2>1. ReleaseResource_Internal(k, r) = Fail(k, ReleaseError(k, r))
    BY <1>1 DEF ReleaseResource_Internal
  <2>2. ReleaseError(k, r) \in Status
    BY DEF ReleaseError, Status
  <2> QED
    BY <2>1, <2>2, FailServed
<1>2. CASE ReleaseError(k, r) = "E_OK"
  <2> DEFINE a == Unlocked(k, r)
  <2>1. r \in Res /\ k.held[k.active] # <<>>
    BY <1>2, BuildAssumption DEF ReleaseError
  <2>2. a = Unlocked(k, r)
    OBVIOUS
  <2>3. ReleaseResource_Internal(k, r) = Schedule_Internal(a)
    BY <1>2, Zenon DEF ReleaseResource_Internal
  <2> HIDE DEF a
  <2>4. Core(a) /\ a.active = k.active /\ a.state = k.state /\ a.activation = k.activation
    BY <2>1, <2>2, UnlockedCore DEF Served, KInv
  <2>5. Counted(a) /\ Running(a)
    BY <2>4 DEF Served, KInv, Counted, Running
  <2> QED
    BY <2>3, <2>4, <2>5, ScheduleServed DEF Served
<1> QED
  BY <1>1, <1>2

\* The internal resource of the running task is released, and some task runs then.
LEMMA InternalReleaseServed ==
  ASSUME NEW k, Served(k), Running(k)
  PROVE  Served(InternalResource_Release(k)) /\ Running(InternalResource_Release(k))
<1> DEFINE r == TaskInternal[k.active]
<1>1. InternalResource_Release(k) =
        IF r # INVALID /\ k.held[k.active] # <<>> /\ Head(k.held[k.active]) = r
                                    THEN ReleaseResource_Internal(k, r) ELSE k
  BY DEF InternalResource_Release
<1>2. r # INVALID => r \in Res
  BY ConfigAssumption DEF Served
<1>3. CASE r # INVALID /\ k.held[k.active] # <<>> /\ Head(k.held[k.active]) = r
  <2>1. Served(ReleaseResource_Internal(k, r)) /\ Running(ReleaseResource_Internal(k, r))
    BY <1>2, <1>3, ReleaseServed
  <2> QED
    BY <1>1, <1>3, <2>1
<1>4. CASE ~(r # INVALID /\ k.held[k.active] # <<>> /\ Head(k.held[k.active]) = r)
  BY <1>1, <1>4
<1> QED
  BY <1>3, <1>4

\* A task that has not started is given a resource: that is harmless while it is
\* suspended, or when the resource does not raise it.
LEMMA IdleTakenCore ==
  ASSUME NEW k, Core(k), k.active \in Task, ~HasStarted(k, k.active), NEW r \in Res,
         ~NoInternal, TaskPriority[k.active] <= Ceiling[r],
         k.state[k.active] # "SUSPENDED" => Ceiling[r] = TaskPriority[k.active],
         NEW k2, k2 = Taken(k, r)
  PROVE  /\ Core(k2) /\ (Highest(k) => Highest(k2))
         /\ k2.active = k.active /\ k2.state = k.state /\ k2.activation = k.activation
         /\ k2.ready = k.ready
<1> DEFINE t == k.active
           h == <<r>> \o k.held[t]
           o == IF ErrorExt THEN t ELSE k.owner[r]
<1>1. k \in KernelType /\ k.held[t] \in Seq(Res)
  BY KernelParts DEF Core
<1>2. /\ k2 = Relocked(k, t, r, o, h, Ceiling[r], "E_OK")
      /\ Relockable(k, t, r, o, h, Ceiling[r], "E_OK")
  BY <1>1, TakenFields DEF Taken
<1>3. \A i \in 1 .. Len(h) : TaskPriority[t] <= Ceiling[h[i]]
  <2>1. \A i \in 1 .. Len(k.held[t]) : TaskPriority[t] <= Ceiling[k.held[t][i]]
    BY DEF Core, Raised
  <2> QED
    BY <1>1, <2>1, StackTop
<1> HIDE DEF h, o
<1>4. /\ k2 \in KernelType
      /\ k2.state = k.state /\ k2.activation = k.activation /\ k2.ready = k.ready
      /\ k2.active = k.active
      /\ k2.held[t] = h /\ k2.priority[t] = Ceiling[r]
      /\ \A u \in Task : u # t => k2.held[u] = k.held[u] /\ k2.priority[u] = k.priority[u]
  BY <1>2, ResourceFields
<1>5. t \in Task /\ ~HasStarted(k, t) /\ k.state[t] \in TaskState
  BY <1>1, KernelParts
<1>6. k.state[t] # "SUSPENDED" => k2.priority[t] = k.priority[t] /\ k2.priority[t] = TaskPriority[t]
  BY <1>4, <1>5, PriorityBounds
<1> HIDE DEF t
<1>7. Lists(k2)
  <2>1. \A u \in Task : Waits(k, u) => k2.priority[u] = k.priority[u]
    BY <1>4, <1>6 DEF Waits
  <2>2. \A u \in Task : Waits(k2, u) <=> Waits(k, u)
    BY <1>4 DEF Waits
  <2> QED
    BY <1>4, <2>1, <2>2, ZenonT(60) DEF Core, Lists
<1>8. Raised(k2)
  <2> SUFFICES ASSUME NEW u \in Task
               PROVE  /\ \A i \in 1 .. Len(k2.held[u]) : TaskPriority[u] <= Ceiling[k2.held[u][i]]
                      /\ k2.state[u] # "SUSPENDED" => TaskPriority[u] <= k2.priority[u]
                      /\ \/ k2.state[u] = "READY_FIRST"
                         \/ k2.state[u] # "SUSPENDED" /\ k2.held[u] = <<>>
                         => k2.priority[u] = TaskPriority[u]
    BY DEF Raised
  <2>1. CASE u = t
    <3>1. TaskPriority[u] \in Int /\ TaskPriority[u] <= TaskPriority[u]
      BY Numbers
    <3> QED
      BY <1>3, <1>4, <1>6, <2>1, <3>1
  <2>2. CASE u # t
    BY <1>4, <2>2 DEF Core, Raised
  <2> QED
    BY <2>1, <2>2
<1>9. Nested(k2) /\ Heads(k2) /\ OneRunning(k2)
  <2>1. \A u \in Task : HasStarted(k2, u) => HasStarted(k, u) /\ k2.priority[u] = k.priority[u]
    BY <1>4, <1>5 DEF HasStarted
  <2> QED
    BY <1>4, <2>1 DEF Core, Nested, Heads, OneRunning, HasStarted
<1>10. Highest(k) => Highest(k2)
  <2>1. \A u \in Task : k2.state[u] = "RUNNING" =>
                          k.state[u] = "RUNNING" /\ k2.priority[u] = k.priority[u]
    BY <1>4, <1>5 DEF HasStarted
  <2> QED
    BY <1>4, <2>1 DEF Highest
<1> QED
  BY <1>4, <1>7, <1>8, <1>9, <1>10 DEF Core, Strict

-------------------------------------------------------------------------------
(***************************************************************************)
(* The specification.  The theorems are about applications that keep the   *)
(* documented rules.  What is said of resources and of the order of steps  *)
(* holds of those without internal resources (Sound); the rest also of     *)
(* those with internal resources (Orderly), but for one combination: a     *)
(* task with several activations whose internal resource raises it.  When  *)
(* its ChainTask fails it is back in its ready list, and is raised there.  *)
(***************************************************************************)
Sound == NoInternal /\ Liberties = {}

Orderly ==
  /\ Liberties = {}
  /\ \A t \in Task :
       \/ TaskInternal[t] = INVALID
       \/ ~MultipleActivation \/ TaskLimit[t] = 1
       \/ Ceiling[TaskInternal[t]] = TaskPriority[t]

LEMMA SoundIsOrderly == Sound => Orderly
BY DEF Sound, NoInternal, Orderly

\* Os_TaskInternalResource_Get, for a task that runs, has ended or is queued again.
LEMMA InternalGetServed ==
  ASSUME Orderly, NEW k, Served(k), Settled(k)
  PROVE  Served(InternalResource_Get(k))
<1> DEFINE t == k.active
           r == TaskInternal[t]
           g == GetResource_Internal(k, r)
<1>1. t \in Task /\ Core(k) /\ Highest(k) /\ Counted(k) /\ k \in KernelType
  BY DEF Served, KInv, Core
<1>2. InternalResource_Get(k) = IF r # INVALID /\ k.held[t] = <<>> THEN Fail(g, k.status) ELSE k
  BY DEF InternalResource_Get, Fail
<1>3. CASE ~(r # INVALID /\ k.held[t] = <<>>)
  BY <1>2, <1>3
<1>4. CASE r # INVALID /\ k.held[t] = <<>>
  <2>1. r \in Res /\ TaskPriority[t] <= Ceiling[r] /\ ~NoInternal
    BY <1>1, <1>4, ConfigAssumption, InternalAssumption DEF NoInternal
  <2>2. k.status \in Status
    BY <1>1, KernelParts
  <2>3. Served(g)
    <3>1. CASE GetError(k, r) # "E_OK"
      <4>1. g = Fail(k, GetError(k, r))
        BY <3>1 DEF GetResource_Internal
      <4>2. GetError(k, r) \in Status
        BY DEF GetError, Status
      <4> QED
        BY <4>1, <4>2, FailServed
    <3>2. CASE GetError(k, r) = "E_OK"
      <4>1. g = Taken(k, r)
        BY <1>1, <2>1, <3>2, TakenFields
      <4> HIDE DEF g, r
      <4>2. /\ Core(g) /\ Highest(g)
            /\ g.active = k.active /\ g.state = k.state /\ g.activation = k.activation
        <5>1. CASE Running(k)
          <6>1. k.priority[t] = TaskPriority[t]
            BY <1>1, <1>4, <5>1 DEF Core, Raised, Running
          <6> QED
            BY <1>1, <2>1, <4>1, <5>1, <6>1, TakenCore
        <5>2. CASE ~Running(k)
          <6>1. /\ ~HasStarted(k, t)
                /\ (k.state[t] # "SUSPENDED" => MultipleActivation /\ TaskLimit[t] > 1)
            BY <1>1, <5>2 DEF Settled, HasStarted, Running
          <6>2. k.state[t] # "SUSPENDED" => Ceiling[r] = TaskPriority[t]
            <7>1. TaskLimit[t] > 1 => TaskLimit[t] # 1
              BY <1>1, ConfigAssumption
            <7> QED
              BY <1>1, <1>4, <6>1, <7>1 DEF Orderly, r
          <6> QED
            BY <1>1, <2>1, <4>1, <6>1, <6>2, IdleTakenCore
        <5> QED
          BY <5>1, <5>2
      <4> QED
        BY <1>1, <4>2 DEF Served, KInv, Counted
    <3> QED
      BY <3>1, <3>2
  <2> HIDE DEF g
  <2>4. Served(Fail(g, k.status))
    BY <2>2, <2>3, FailServed
  <2> QED
    BY <1>2, <1>4, <2>4
<1> QED
  BY <1>3, <1>4

\* Until Os_Start nothing has run, and the tasks still to come are suspended.
Booting ==
  boot <= TaskCount =>
    /\ \A t \in Task : os.state[t] \in {"SUSPENDED", "READY_FIRST"}
    /\ \A t \in Task : t >= boot => os.state[t] = "SUSPENDED"

IInv ==
  /\ KInv(os)
  /\ context \in {"NONE", "TASK", "ISR1"}
  /\ continue \in BOOLEAN
  /\ boot \in 0 .. TaskCount + 1
  /\ loop \in {"none", "isr", "call"}
  /\ Booting
  /\ boot > TaskCount => os.active \in Task
  /\ loop # "none" => boot > TaskCount

LEMMA InitInv == Init => IInv
<1> SUFFICES ASSUME Init PROVE IInv
  OBVIOUS
<1> DEFINE k == os
<1>1. /\ k.state = [t \in Task |-> "SUSPENDED"] /\ k.activation = [t \in Task |-> 0]
      /\ k.priority = [t \in Task |-> -1] /\ k.held = [t \in Task |-> <<>>]
      /\ k.ready = [p \in Prio |-> <<>>] /\ k.active = INVALID
      /\ k = [state |-> [t \in Task |-> "SUSPENDED"], activation |-> [t \in Task |-> 0],
              priority |-> [t \in Task |-> -1], held |-> [t \in Task |-> <<>>],
              ready |-> [p \in Prio |-> <<>>], active |-> INVALID,
              owner |-> [r \in Res |-> INVALID], status |-> "E_OK"]
  BY DEF Init
<1>2. /\ [t \in Task |-> "SUSPENDED"] \in [Task -> TaskState]
      /\ [t \in Task |-> 0] \in [Task -> 0 .. 255]
      /\ [t \in Task |-> -1] \in [Task -> -1 .. PrioCount]
      /\ [t \in Task |-> <<>>] \in [Task -> Seq(Res)]
      /\ [p \in Prio |-> <<>>] \in [Prio -> Seq(Task)]
      /\ [r \in Res |-> INVALID] \in [Res -> Task \cup {INVALID}]
  BY Numbers, EmptySeq DEF TaskState
<1>3. k \in KernelType
  BY <1>1, <1>2 DEF KernelType, Status
<1>4. Len(<<>>) = 0 /\ Members(<<>>) = {} /\ Distinct(<<>>)
  BY EmptySeq DEF Members, Distinct
<1> HIDE DEF k
<1>5. /\ \A t \in Task : k.state[t] = "SUSPENDED" /\ k.priority[t] = -1 /\ k.activation[t] = 0
      /\ \A t \in Task : k.held[t] = <<>>
      /\ \A p \in Prio : k.ready[p] = <<>>
  BY <1>1
<1>6. Lists(k) /\ Idling(k) /\ Nested(k) /\ Heads(k) /\ OneRunning(k) /\ Highest(k)
  BY <1>4, <1>5 DEF Lists, Waits, Idling, HasStarted, Nested, Heads, OneRunning, Highest
<1>7. Raised(k) /\ Strict(k)
  <2>1. Ceilings(k)
    BY <1>4, <1>5 DEF Ceilings, Sorted
  <2>2. Raised(k)
    BY <1>4, <1>5 DEF Raised
  <2> QED
    BY <1>6, <2>1, <2>2 DEF Strict
<1>8. Counted(k)
  <2>1. \A t \in Task : 0 <= TaskLimit[t]
    BY ConfigAssumption
  <2> QED
    BY <1>5, <2>1 DEF Counted
<1>9. KInv(os)
  BY <1>3, <1>6, <1>7, <1>8 DEF KInv, Core, k
<1> QED
  BY <1>5, <1>9, CountsAssumption DEF Init, IInv, Booting, k

\* One step of the autostart loop.
LEMMA AutostartInv == IInv /\ Autostart => IInv'
<1> SUFFICES ASSUME IInv, Autostart PROVE IInv'
  OBVIOUS
<1>1. /\ boot \in 0 .. TaskCount - 1 /\ boot' = boot + 1 /\ boot \in Task
      /\ boot + 1 \in 0 .. TaskCount + 1 /\ ~(boot + 1 > TaskCount) /\ ~(boot > TaskCount)
      /\ context' = context /\ continue' = continue /\ loop' = loop
  BY CountsAssumption DEF IInv, Autostart, Task
<1>2. /\ Core(os) /\ Counted(os) /\ os.state[boot] = "SUSPENDED" /\ os \in KernelType
      /\ \A t \in Task : os.state[t] \in {"SUSPENDED", "READY_FIRST"}
      /\ \A t \in Task : t >= boot => os.state[t] = "SUSPENDED"
  BY <1>1, CountsAssumption DEF IInv, KInv, Core, Booting
<1>3. /\ Core(os') /\ Counted(os')
      /\ \A t \in Task : os'.state[t] \in {"SUSPENDED", "READY_FIRST"}
      /\ \A t \in Task : t # boot => os'.state[t] = os.state[t]
  <2>1. CASE ~TaskAutostart[boot]
    BY <1>2, <2>1 DEF Autostart
  <2>2. CASE TaskAutostart[boot]
    <3> DEFINE a == IF MultipleActivation THEN WithCount(os, boot, 1) ELSE os
    <3>1. os' = Suspended_To_Ready(a, boot)
      BY <2>2, Zenon DEF Autostart, WithCount
    <3>2. /\ a \in KernelType /\ SameSchedule(os, a)
          /\ \A t \in Task : t # boot => a.activation[t] = os.activation[t]
          /\ MultipleActivation => a.activation[boot] = 1
          /\ ~MultipleActivation => a.activation[boot] = os.activation[boot]
      <4>1. CASE MultipleActivation
        <5>1. \A n \in 0 .. 255 :
                /\ WithCount(os, boot, n) \in KernelType /\ SameSchedule(os, WithCount(os, boot, n))
                /\ WithCount(os, boot, n).activation[boot] = n
                /\ \A t \in Task : t # boot =>
                     WithCount(os, boot, n).activation[t] = os.activation[t]
          BY <1>1, <1>2, Recount
        <5>2. 1 \in 0 .. 255
          OBVIOUS
        <5> QED
          BY <4>1, <5>1, <5>2, Zenon
      <4>2. CASE ~MultipleActivation
        BY <1>2, <4>2 DEF SameSchedule
      <4> QED
        BY <4>1, <4>2
    <3> HIDE DEF a
    <3>3. Core(a) /\ a.state = os.state
      BY <1>2, <3>2, SameCore DEF SameSchedule
    <3>4. /\ Core(os') /\ os'.state[boot] = "READY_FIRST"
          /\ \A t \in Task : t # boot => os'.state[t] = os.state[t]
          /\ os'.activation = a.activation
      BY <1>1, <1>2, <3>1, <3>3, ReadyCore
    <3>5. Counted(os')
      <4> SUFFICES ASSUME NEW t \in Task
                   PROVE  /\ os'.activation[t] <= TaskLimit[t]
                          /\ MultipleActivation =>
                               (os'.state[t] = "SUSPENDED" <=> os'.activation[t] = 0)
        BY DEF Counted
      <4>1. CASE t = boot /\ MultipleActivation
        <5>1. os'.activation[t] = 1 /\ os'.state[t] = "READY_FIRST"
          BY <3>2, <3>4, <4>1
        <5>2. 1 <= TaskLimit[t]
          BY ConfigAssumption
        <5> QED
          BY <5>1, <5>2
      <4>2. CASE t # boot \/ ~MultipleActivation
        <5>1. os'.activation[t] = a.activation[t] /\ a.activation[t] = os.activation[t]
          BY <3>2, <3>4, <4>2
        <5> QED
          BY <1>2, <3>4, <4>2, <5>1 DEF Counted
      <4> QED
        BY <4>1, <4>2
    <3> QED
      BY <1>2, <3>4, <3>5
  <2> QED
    BY <2>1, <2>2
<1>4. Highest(os')
  BY <1>3 DEF Highest
<1>5. Booting'
  <2>1. ASSUME NEW t \in Task, t >= boot + 1 PROVE os'.state[t] = "SUSPENDED"
    <3>1. t # boot /\ t >= boot
      BY <1>1, <2>1 DEF Task
    <3> QED
      BY <1>2, <1>3, <3>1
  <2> QED
    BY <1>1, <1>3, <2>1 DEF Booting
<1> QED
  BY <1>1, <1>3, <1>4, <1>5, CountsAssumption DEF IInv, KInv

\* Once up, a step that leaves boot alone preserves the invariant when the globals do.
LEMMA UpInv ==
  ASSUME IInv, boot > TaskCount, boot' = boot, Served(os'),
         context' \in {"NONE", "TASK", "ISR1"}, continue' \in BOOLEAN,
         loop' \in {"none", "isr", "call"}
  PROVE  IInv'
<1>1. Booting'
  BY CountsAssumption DEF Booting, IInv
<1> QED
  BY <1>1 DEF IInv, Served

\* When Os_Start makes task 0 the active one no task has run.
LEMMA StartCore ==
  ASSUME IInv, boot = TaskCount, NEW k, k = [os EXCEPT !.active = 0]
  PROVE  /\ Core(k) /\ Counted(k) /\ k.active \in Task
         /\ k.state = os.state /\ k.ready = os.ready /\ k.activation = os.activation
<1>1. 0 \in Task /\ os \in KernelType /\ Core(os) /\ Counted(os)
  BY CountsAssumption DEF Task, IInv, KInv, Core
<1>2. \A t \in Task : os.state[t] # "RUNNING" /\ os.state[t] # "READY"
  BY CountsAssumption DEF IInv, Booting
<1>3. /\ k \in KernelType /\ k.state = os.state /\ k.priority = os.priority
      /\ k.held = os.held /\ k.ready = os.ready /\ k.activation = os.activation /\ k.active = 0
  BY <1>1, ZenonT(60) DEF KernelType
<1>4. Lists(k) /\ Raised(k) /\ Strict(k)
  BY <1>1, <1>3 DEF Core, Lists, Waits, Raised, Strict, Idling, HasStarted, Ceilings
<1>5. Nested(k) /\ Heads(k) /\ OneRunning(k)
  BY <1>2, <1>3 DEF Nested, Heads, OneRunning, HasStarted
<1>6. Counted(k)
  BY <1>1, <1>3 DEF Counted
<1> QED
  BY <1>1, <1>3, <1>4, <1>5, <1>6 DEF Core

LEMMA StartInv == IInv /\ Start => IInv'
<1> SUFFICES ASSUME IInv, Start PROVE IInv'
  OBVIOUS
<1> DEFINE k == [os EXCEPT !.active = 0]
<1>1. boot = TaskCount /\ boot' = TaskCount + 1 /\ context' = "TASK" /\ UNCHANGED <<continue, loop>>
  BY DEF Start
<1>2. os' = Schedule_Internal(k)
  BY Zenon DEF Start
<1>3. Core(k) /\ Counted(k) /\ k.active \in Task
  BY <1>1, StartCore
<1> HIDE DEF k
<1>4. Served(os')
  BY <1>2, <1>3, ScheduleServed
<1>5. Booting'
  BY <1>1, CountsAssumption DEF Booting
<1> QED
  BY <1>1, <1>4, <1>5, CountsAssumption DEF IInv, Served

\* Without internal resources the two helpers do nothing.
LEMMA NoInternalResource ==
  ASSUME NoInternal, NEW k, k.active \in Task
  PROVE  InternalResource_Release(k) = k /\ InternalResource_Get(k) = k
BY DEF NoInternal, InternalResource_Release, InternalResource_Get

\* Nothing is named by an identifier past the end of its table but with ErrorExt.
LEMMA Arguments ==
  /\ \A t \in TaskArg : ErrorExt \/ t \in Task
  /\ \A r \in ResArg : ErrorExt \/ r \in Res
BY DEF TaskArg, ResArg

\* The caller of TerminateTask or ChainTask holds nothing when nothing checks it.
LEMMA EndsEmpty ==
  ASSUME NoInternal, Core(os), os.active \in Task, MayEnd, ~ErrorExt
  PROVE  os.held[os.active] = <<>>
<1>1. os.held[os.active] \in {<<>>, <<INVALID>>}
  BY DEF MayEnd, NoInternal
<1>2. os.held[os.active] \in Seq(Res)
  BY KernelParts DEF Core
<1>3. <<INVALID>> \notin Seq(Res)
  <2> SUFFICES ASSUME <<INVALID>> \in Seq(Res) PROVE FALSE
    OBVIOUS
  <2>1. 1 \in 1 .. Len(<<INVALID>>) /\ <<INVALID>>[1] = INVALID
    OBVIOUS
  <2>2. INVALID \in Res
    BY <2>1, ElementOfSeq
  <2> QED
    BY <2>2, CountsAssumption DEF Res, INVALID
<1> QED
  BY <1>1, <1>2, <1>3

LEMMA CallingServed ==
  ASSUME IInv, Calling
  PROVE  /\ Served(os) /\ Running(os) /\ boot > TaskCount /\ loop = "none"
         /\ context \in {"NONE", "TASK", "ISR1"} /\ continue \in BOOLEAN
BY DEF IInv, Calling, Up, Served

\* A service that leaves its caller's globals valid preserves the invariant.
LEMMA ServiceInv ==
  ASSUME IInv, boot > TaskCount, NEW k, Served(k), Service(k)
  PROVE  IInv'
<1>1. Served(os') /\ UNCHANGED <<context, continue, boot, loop>>
  BY DEF Service
<1> QED
  BY <1>1, UpInv DEF IInv

LEMMA ScheduleInv == Orderly /\ IInv /\ Schedule => IInv'
<1> SUFFICES ASSUME Orderly, IInv, Schedule PROVE IInv'
  OBVIOUS
<1>1. Served(os) /\ Running(os) /\ boot > TaskCount
  BY CallingServed DEF Schedule
<1> DEFINE k1 == InternalResource_Release(os)
           k2 == Schedule_Internal(k1)
           k3 == InternalResource_Get(k2)
<1>2. Service(k3)
  BY DEF Schedule
<1>3. Served(k1) /\ Running(k1)
  BY <1>1, InternalReleaseServed
<1> HIDE DEF k1
<1>4. Served(k2) /\ Settled(k2)
  BY <1>3, ScheduleServed DEF Served, KInv
<1> HIDE DEF k2
<1>5. Served(k3)
  BY <1>4, InternalGetServed
<1> QED
  BY <1>1, <1>2, <1>5, ServiceInv

LEMMA TerminateTaskInv == Orderly /\ IInv /\ TerminateTask => IInv'
<1> SUFFICES ASSUME Orderly, IInv, TerminateTask PROVE IInv'
  OBVIOUS
<1>1. Served(os) /\ Running(os) /\ boot > TaskCount
  BY CallingServed DEF TerminateTask
<1> DEFINE k1 == InternalResource_Release(os)
           k2 == TerminateTask_Internal(k1)
           k3 == InternalResource_Get(k2)
<1>2. Service(k3)
  BY DEF TerminateTask
<1>3. Served(k1) /\ Running(k1)
  BY <1>1, InternalReleaseServed
<1>4. NoInternal /\ ~ErrorExt => k1.held[k1.active] = <<>>
  BY <1>1, EndsEmpty, NoInternalResource DEF TerminateTask, Served, KInv
<1> HIDE DEF k1
<1>5. Served(k2) /\ Settled(k2)
  BY <1>3, <1>4, TerminateServed
<1> HIDE DEF k2
<1>6. Served(k3)
  BY <1>5, InternalGetServed
<1> QED
  BY <1>1, <1>2, <1>6, ServiceInv

LEMMA ChainTaskInv ==
  ASSUME Orderly, IInv, NEW t \in TaskArg, ChainTask(t)
  PROVE  IInv'
<1>1. Served(os) /\ Running(os) /\ boot > TaskCount
  BY CallingServed DEF ChainTask
<1> DEFINE k1 == InternalResource_Release(os)
           k2 == ChainTask_Internal(k1, t)
           k3 == InternalResource_Get(k2)
<1>2. Service(k3)
  BY DEF ChainTask
<1>3. Served(k1) /\ Running(k1)
  BY <1>1, InternalReleaseServed
<1>4. NoInternal /\ ~ErrorExt => k1.held[k1.active] = <<>>
  BY <1>1, EndsEmpty, NoInternalResource DEF ChainTask, Served, KInv
<1> HIDE DEF k1
<1>5. Served(k2) /\ Settled(k2)
  BY <1>3, <1>4, Arguments, ChainServed
<1> HIDE DEF k2
<1>6. Served(k3)
  BY <1>5, InternalGetServed
<1> QED
  BY <1>1, <1>2, <1>6, ServiceInv

LEMMA ActivateTaskInv ==
  ASSUME Orderly, IInv, NEW t \in TaskArg, ActivateTask(t)
  PROVE  IInv'
<1>1. Served(os) /\ boot > TaskCount /\ MayActivate(t) /\ Service(ActivateTask_Internal(os, t))
  BY CallingServed DEF ActivateTask
<1>2. ~MultipleActivation /\ ~ErrorExt => os.state[t] = "SUSPENDED"
  BY <1>1 DEF MayActivate, Orderly
<1>3. Served(ActivateTask_Internal(os, t))
  BY <1>1, <1>2, Arguments, ActivateServed
<1> QED
  BY <1>1, <1>3, ServiceInv

LEMMA ExpireInv ==
  ASSUME Orderly, IInv, NEW t \in AlarmTasks, Expire(t)
  PROVE  IInv'
<1>1. Served(os) /\ boot > TaskCount /\ MayActivate(t) /\ Service(ActivateTask_Internal(os, t))
  BY DEF Expire, IInv, Served
<1>2. ~MultipleActivation /\ ~ErrorExt => os.state[t] = "SUSPENDED"
  BY <1>1 DEF MayActivate, Orderly
<1>3. t \in Task
  BY ConfigAssumption
<1>4. Served(ActivateTask_Internal(os, t))
  BY <1>1, <1>2, <1>3, ActivateServed
<1> QED
  BY <1>1, <1>4, ServiceInv

LEMMA GetResourceInv ==
  ASSUME Orderly, IInv, NEW r \in ResArg, GetResource(r)
  PROVE  IInv'
<1>1. /\ Served(os) /\ Running(os) /\ boot > TaskCount /\ MayGet(r)
      /\ Service(GetResource_Internal(os, r))
  BY CallingServed DEF GetResource
<1>2. ~ErrorExt => os.priority[os.active] <= Ceiling[r]
  BY <1>1 DEF MayGet, Orderly
<1>3. Served(GetResource_Internal(os, r))
  BY <1>1, <1>2, Arguments, GetServed
<1> QED
  BY <1>1, <1>3, ServiceInv

LEMMA ReleaseResourceInv ==
  ASSUME IInv, NEW r \in ResArg, ReleaseResource(r)
  PROVE  IInv'
<1>1. /\ Served(os) /\ Running(os) /\ boot > TaskCount /\ MayRelease(r)
      /\ Service(ReleaseResource_Internal(os, r))
  BY CallingServed DEF ReleaseResource
<1>2. ~ErrorExt => os.held[os.active] # <<>>
  BY <1>1 DEF MayRelease
<1>3. Served(ReleaseResource_Internal(os, r))
  BY <1>1, <1>2, Arguments, ReleaseServed
<1> QED
  BY <1>1, <1>3, ServiceInv

\* The caller of Os_Shutdown goes back to its list: its priority is below OS_PRIO_COUNT.
LEMMA CallerInList ==
  ASSUME Orderly, Served(os), Running(os), MayShutdown
  PROVE  os.priority[os.active] \in Prio
<1>1. os.priority[os.active] < PrioCount
  BY DEF MayShutdown, Orderly
<1>2. os.active \in Task /\ os.state[os.active] # "SUSPENDED" /\ Core(os)
  BY DEF Running, Served, KInv
<1>3. os.priority[os.active] \in Int /\ TaskPriority[os.active] <= os.priority[os.active]
  BY <1>2, PriorityBounds
<1>4. TaskPriority[os.active] >= 0 /\ TaskPriority[os.active] \in Int
  BY <1>2, Numbers
<1> QED
  BY <1>1, <1>3, <1>4, CountsAssumption DEF Prio

LEMMA ShutdownInv == Orderly /\ IInv /\ Shutdown => IInv'
<1> SUFFICES ASSUME Orderly, IInv, Shutdown PROVE IInv'
  OBVIOUS
<1>1. /\ Served(os) /\ Running(os) /\ boot > TaskCount /\ MayShutdown
      /\ os' = Fail(Preempted(os), "E_OK")
      /\ continue' = FALSE /\ UNCHANGED <<context, boot, loop>>
  BY CallingServed DEF Shutdown
<1> DEFINE k == Preempted(os)
<1>2. k = Running_To_Ready(os, os.active)
  BY <1>1, Zenon DEF Preempted
<1>3. os.priority[os.active] \in Prio
  BY <1>1, CallerInList
<1> HIDE DEF k
<1>4. /\ Core(k)
      /\ \A u \in Task : k.state[u] # "RUNNING"
      /\ \A u \in Task : k.state[u] = "SUSPENDED" <=> os.state[u] = "SUSPENDED"
      /\ k.active = os.active /\ k.activation = os.activation
  BY <1>1, <1>2, <1>3, PreemptCore DEF Served, KInv
<1>5. Served(k)
  BY <1>1, <1>4 DEF Served, KInv, Highest, Counted
<1>6. Served(os')
  BY <1>1, <1>5, FailServed DEF Status, k
<1> QED
  BY <1>1, <1>6, UpInv DEF IInv

LEMMA OtherInv == IInv /\ (IncrementCounter \/ IncrementReturn \/ IsrEnter \/ IsrExit) => IInv'
<1> SUFFICES ASSUME IInv, IncrementCounter \/ IncrementReturn \/ IsrEnter \/ IsrExit
             PROVE  IInv'
  OBVIOUS
<1>1. CASE IncrementCounter
  <2>1. Served(os) /\ boot > TaskCount
    BY <1>1, CallingServed DEF IncrementCounter
  <2> QED
    BY <1>1, <2>1, UpInv DEF IncrementCounter, IInv
<1>2. CASE IncrementReturn
  <2>1. boot > TaskCount /\ Served(os)
    BY <1>2 DEF IncrementReturn, IInv, Served
  <2>2. Served(Fail(os, "E_OK"))
    BY <2>1, FailServed DEF Status
  <2> QED
    BY <1>2, <2>1, <2>2, UpInv DEF IncrementReturn, IInv
<1>3. CASE IsrEnter
  <2>1. boot > TaskCount /\ Served(os)
    BY <1>3 DEF IsrEnter, Up, IInv, Served
  <2> QED
    BY <1>3, <2>1, UpInv DEF IsrEnter, IInv
<1>4. CASE IsrExit
  <2>1. boot > TaskCount /\ Served(os)
    BY <1>4 DEF IsrExit, IInv, Served
  <2>2. Served(Schedule_Internal(os))
    BY <2>1, ScheduleServed DEF Served, KInv
  <2> QED
    BY <1>4, <2>1, <2>2, UpInv DEF IsrExit, IInv
<1> QED
  BY <1>1, <1>2, <1>3, <1>4

\* Every step preserves the invariant.
LEMMA NextInv == Orderly /\ IInv /\ [Next]_vars => IInv'
<1> SUFFICES ASSUME Orderly, IInv, [Next]_vars PROVE IInv'
  OBVIOUS
<1>1. CASE Autostart
  BY <1>1, AutostartInv
<1>2. CASE Start
  BY <1>2, StartInv
<1>3. CASE Schedule
  BY <1>3, ScheduleInv
<1>4. CASE TerminateTask
  BY <1>4, TerminateTaskInv
<1>5. CASE Shutdown
  BY <1>5, ShutdownInv
<1>6. ASSUME NEW t \in TaskArg, ChainTask(t) \/ ActivateTask(t) PROVE IInv'
  BY <1>6, ChainTaskInv, ActivateTaskInv
<1>7. ASSUME NEW r \in ResArg, GetResource(r) \/ ReleaseResource(r) PROVE IInv'
  BY <1>7, GetResourceInv, ReleaseResourceInv
<1>8. CASE IncrementCounter \/ IncrementReturn \/ IsrEnter \/ IsrExit
  BY <1>8, OtherInv
<1>9. ASSUME NEW t \in AlarmTasks, Expire(t) PROVE IInv'
  BY <1>9, ExpireInv
<1>10. CASE UNCHANGED vars
  BY <1>10 DEF vars, IInv, Booting
<1> QED
  BY <1>1, <1>2, <1>3, <1>4, <1>5, <1>6, <1>7, <1>8, <1>9, <1>10 DEF Next

LEMMA Invariance ==
  ASSUME Orderly
  PROVE  Spec => []IInv
<1>1. Init => IInv
  BY InitInv
<1>2. IInv /\ [Next]_vars => IInv'
  BY NextInv
<1> QED
  BY <1>1, <1>2, PTL DEF Spec

-------------------------------------------------------------------------------
(* The theorems *)

\* In an orderly application every global keeps its type, and no task is ever activated
\* more often than its limit allows.
THEOREM TypesCorrect ==
  ASSUME Orderly
  PROVE  Spec => []TypeOK
<1>1. IInv => TypeOK
  BY DEF IInv, KInv, Core, Counted, TypeOK
<1> QED
  BY <1>1, Invariance, PTL

\* Ready lists and task states agree: each ready task is once in the list of its
\* current priority and nowhere else, and nothing else is in a list.
THEOREM ReadyListsCorrect ==
  ASSUME Orderly
  PROVE  Spec => []ReadyConsistent
<1>1. ASSUME IInv PROVE ReadyConsistent
  <2>1. Lists(os) /\ os \in KernelType
    BY <1>1 DEF IInv, KInv, Core
  <2>2. ASSUME NEW p \in Prio
        PROVE  os.ready[p] \in Seq(Task) /\ DOMAIN os.ready[p] = 1 .. Len(os.ready[p])
    BY <2>1, KernelParts, LenProperties
  <2>3. ASSUME NEW p \in Prio, NEW i \in DOMAIN os.ready[p]
        PROVE  /\ os.state[os.ready[p][i]] \in {"READY", "READY_FIRST"}
               /\ os.priority[os.ready[p][i]] = p
               /\ \A j \in DOMAIN os.ready[p] : os.ready[p][i] = os.ready[p][j] => i = j
    <3>1. os.ready[p][i] \in Members(os.ready[p]) /\ os.ready[p][i] \in Task
      BY <2>2, ElementOfSeq DEF Members
    <3> QED
      BY <2>1, <2>2, <3>1 DEF Lists, Waits, Distinct
  <2>4. ASSUME NEW t \in Task, Waits(os, t)
        PROVE  os.priority[t] \in Prio /\ InList(os.priority[t], t)
    <3>1. os.priority[t] \in Prio /\ t \in Members(os.ready[os.priority[t]])
      BY <2>1, <2>4 DEF Lists
    <3> QED
      BY <2>2, <3>1 DEF InList, Members
  <2> QED
    BY <2>3, <2>4 DEF ReadyConsistent, Waits
<1> QED
  BY <1>1, Invariance, PTL

\* Only the active task runs, and no ready task is above it, after every service and
\* every tick.
THEOREM RunningTaskIsHighest ==
  ASSUME Orderly
  PROVE  Spec => []RunningIsHighest
<1>1. IInv => RunningIsHighest
  BY DEF IInv, KInv, Core, OneRunning, Highest, RunningIsHighest
<1> QED
  BY <1>1, Invariance, PTL

\* Preemption nests: two tasks that are part way through are at separate levels.
THEOREM PreemptionIsNested ==
  ASSUME Orderly
  PROVE  Spec => []PreemptionNested
<1>1. IInv => PreemptionNested
  BY DEF IInv, KInv, Core, Nested, HasStarted, PreemptionNested, Started
<1> QED
  BY <1>1, Invariance, PTL

\* A preempted task waits at the head of its list, so it is resumed before any task of
\* its priority starts.
THEOREM PreemptedTaskIsNext ==
  ASSUME Orderly
  PROVE  Spec => []PreemptedIsNext
<1>1. IInv => PreemptedIsNext
  BY DEF IInv, KInv, Core, Lists, Waits, Heads, PreemptedIsNext
<1> QED
  BY <1>1, Invariance, PTL

\* The priority of a task follows from the resources it holds, through every nesting of
\* GetResource and ReleaseResource.
THEOREM PriorityFollowsResources ==
  ASSUME Sound
  PROVE  Spec => []PriorityMatchesHeld
<1>1. ASSUME IInv, NEW t \in Task
      PROVE  /\ ~Started(t) => os.held[t] = <<>>
             /\ os.priority[t] = IF os.state[t] = "SUSPENDED" THEN -1
                                 ELSE PriorityBelow(t, os.held[t])
             /\ \A i, j \in DOMAIN os.held[t] :
                  i < j => Ceiling[os.held[t][i]] >= Ceiling[os.held[t][j]]
  <2>1. Idling(os) /\ Ceilings(os) /\ os \in KernelType
    BY <1>1 DEF IInv, KInv, Core, Strict, Sound
  <2>2. os.held[t] \in Seq(Res) /\ DOMAIN os.held[t] = 1 .. Len(os.held[t])
    BY <2>1, KernelParts, LenProperties
  <2>3. \A i \in DOMAIN os.held[t] : Ceiling[os.held[t][i]] \in Int
    BY <2>2, ElementOfSeq, Numbers
  <2>4. \A i, j \in DOMAIN os.held[t] :
          i < j => Ceiling[os.held[t][i]] >= Ceiling[os.held[t][j]]
    BY <2>1, <2>2, <2>3 DEF Ceilings, Sorted
  <2> QED
    BY <2>1, <2>4 DEF Idling, HasStarted, Started
<1>2. IInv => PriorityMatchesHeld
  BY <1>1 DEF PriorityMatchesHeld
<1> QED
  BY <1>2, SoundIsOrderly, Invariance, PTL

\* With multiple activation a task is suspended exactly while none of its activations
\* is left to serve.
THEOREM ActivationsMatchStates ==
  ASSUME Orderly
  PROVE  Spec => []ActivationMatchesState
<1>1. IInv => ActivationMatchesState
  BY DEF IInv, KInv, Counted, ActivationMatchesState
<1> QED
  BY <1>1, Invariance, PTL

-------------------------------------------------------------------------------
(* What the ceilings guarantee *)

\* A holder of a resource has started, and the ceiling lies between its static and its
\* current priority.
LEMMA HolderBounds ==
  ASSUME Sound, IInv, NEW t \in Task, NEW r \in Res, Holds(t, r)
  PROVE  /\ HasStarted(os, t)
         /\ os.priority[t] \in Int /\ TaskPriority[t] \in Int /\ Ceiling[r] \in Int
         /\ TaskPriority[t] <= Ceiling[r] /\ Ceiling[r] <= os.priority[t]
<1>1. Core(os) /\ os \in KernelType
  BY DEF IInv, KInv, Core
<1>2. os.held[t] \in Seq(Res) /\ DOMAIN os.held[t] = 1 .. Len(os.held[t])
  BY <1>1, KernelParts, LenProperties
<1>3. PICK i \in 1 .. Len(os.held[t]) : os.held[t][i] = r
  BY <1>2 DEF Holds
<1>4. os.held[t] # <<>>
  BY <1>2, <1>3, EmptySeq
<1>5. HasStarted(os, t)
  BY <1>1, <1>4 DEF Core, Strict, Idling, Sound
<1>6. os.state[t] # "SUSPENDED"
  BY <1>5 DEF HasStarted
<1> QED
  BY <1>1, <1>3, <1>5, <1>6, PriorityBounds, CeilingBounds, Numbers DEF Sound

\* Nested, for two tasks that have started.
LEMMA Apart ==
  ASSUME IInv, NEW t \in Task, NEW u \in Task, t # u, HasStarted(os, t), HasStarted(os, u)
  PROVE  os.priority[t] < TaskPriority[u] \/ os.priority[u] < TaskPriority[t]
BY DEF IInv, KInv, Core, Nested

\* The ceilings alone exclude: no two tasks ever hold one resource, whatever the build
\* checks.
THEOREM ResourcesExclude ==
  ASSUME Sound
  PROVE  Spec => []MutualExclusion
<1>1. ASSUME IInv, NEW r \in Res, NEW t \in Task, NEW u \in Task, Holds(t, r), Holds(u, r), t # u
      PROVE  FALSE
  BY <1>1, HolderBounds, Apart
<1>2. IInv => MutualExclusion
  BY <1>1 DEF MutualExclusion
<1> QED
  BY <1>2, SoundIsOrderly, Invariance, PTL

\* A running task whose priority is within the ceiling of a resource finds it free or
\* holds it itself.
THEOREM CeilingsPreventContention ==
  ASSUME Sound
  PROVE  Spec => []CeilingPreventsContention
<1>1. ASSUME IInv, Running(os), NEW r \in Res, NEW t \in Task \ {os.active},
             os.priority[os.active] <= Ceiling[r], Holds(t, r)
      PROVE  FALSE
  <2> DEFINE a == os.active
  <2>1. a \in Task /\ os.state[a] = "RUNNING" /\ HasStarted(os, a)
    BY <1>1 DEF Running, HasStarted
  <2>2. /\ HasStarted(os, t)
        /\ os.priority[t] \in Int /\ TaskPriority[t] \in Int /\ Ceiling[r] \in Int
        /\ TaskPriority[t] <= Ceiling[r] /\ Ceiling[r] <= os.priority[t]
    BY <1>1, HolderBounds
  <2>3. Core(os) /\ Highest(os)
    BY <1>1 DEF IInv, KInv
  <2>4. /\ os.priority[a] \in Int /\ TaskPriority[a] \in Int
        /\ TaskPriority[a] <= os.priority[a]
    BY <2>1, <2>3, PriorityBounds
  <2>5. os.priority[a] < TaskPriority[t] \/ os.priority[t] < TaskPriority[a]
    BY <1>1, <2>1, <2>2, Apart
  <2>6. CASE os.priority[t] < TaskPriority[a]
    BY <1>1, <2>2, <2>4, <2>6
  <2>7. CASE os.priority[a] < TaskPriority[t]
    <3>1. os.priority[a] < os.priority[t]
      BY <2>2, <2>4, <2>7
    <3>2. os.state[t] = "READY"
      BY <1>1, <2>2, <2>3 DEF HasStarted, Core, OneRunning
    <3>3. os.priority[t] \in Prio /\ os.ready[os.priority[t]] # <<>>
      BY <2>3, <3>2 DEF Core, Lists, Waits, Heads
    <3> QED
      BY <2>1, <2>2, <2>3, <2>4, <3>1, <3>3 DEF Highest
  <2> QED
    BY <2>5, <2>6, <2>7
<1>2. IInv => CeilingPreventsContention
  BY <1>1 DEF CeilingPreventsContention
<1> QED
  BY <1>2, SoundIsOrderly, Invariance, PTL

\* Priority inversion is bounded: at most one task of lower static priority holds
\* resources whose ceilings reach a given task.
THEOREM BlockingIsSingle ==
  ASSUME Sound
  PROVE  Spec => []SingleBlocking
<1>1. ASSUME IInv, NEW t \in Task, NEW u \in Task, NEW v \in Task,
             TaskPriority[u] < TaskPriority[t], TaskPriority[v] < TaskPriority[t],
             NEW r \in Res, Holds(u, r), Ceiling[r] >= TaskPriority[t],
             NEW s \in Res, Holds(v, s), Ceiling[s] >= TaskPriority[t], u # v
      PROVE  FALSE
  <2>1. TaskPriority[t] \in Int
    BY Numbers
  <2>2. /\ HasStarted(os, u) /\ os.priority[u] \in Int /\ TaskPriority[u] \in Int
        /\ Ceiling[r] \in Int /\ Ceiling[r] <= os.priority[u]
    BY <1>1, HolderBounds
  <2>3. /\ HasStarted(os, v) /\ os.priority[v] \in Int /\ TaskPriority[v] \in Int
        /\ Ceiling[s] \in Int /\ Ceiling[s] <= os.priority[v]
    BY <1>1, HolderBounds
  <2>4. os.priority[u] < TaskPriority[v] \/ os.priority[v] < TaskPriority[u]
    BY <1>1, <2>2, <2>3, Apart
  <2> QED
    BY <1>1, <2>1, <2>2, <2>3, <2>4
<1>2. IInv => SingleBlocking
  BY <1>1 DEF SingleBlocking
<1> QED
  BY <1>2, SoundIsOrderly, Invariance, PTL

-------------------------------------------------------------------------------
(***************************************************************************)
(* What a step of the scheduler may never do: let a task overtake another  *)
(* in a ready list, or end a task that does not run.                       *)
(*                                                                         *)
(* Every step puts tasks at the end of the lists, as the invariant knows   *)
(* them, and then lets Os_Schedule_Internal take a head or put the         *)
(* preempted task in front.                                                *)
(***************************************************************************)

(* One list *)

Stays(t, l) == \E i \in 1 .. Len(l) : l[i] = t

\* The two conjuncts of FifoStep for a list that was old and is new.
Ordered(old, new, readied) ==
  /\ \A i, j \in 1 .. Len(old) : i < j /\ ~Stays(old[j], new) => ~Stays(old[i], new)
  /\ \A i, j \in 1 .. Len(new) :
       i < j /\ Stays(new[j], old) /\ ~Stays(new[i], old) => new[i] \in readied

\* Where a list begins with another, what it shares with it are the first elements.
LEMMA SharedFirst ==
  ASSUME NEW old \in Seq(Task), NEW l \in Seq(Task), Begins(old, l), Distinct(l),
         NEW j \in 1 .. Len(l), Stays(l[j], old)
  PROVE  j \in 1 .. Len(old) /\ \A i \in 1 .. j : Stays(l[i], old)
<1>1. Len(old) \in Nat /\ Len(l) \in Nat /\ Len(old) <= Len(l)
  BY LenProperties DEF Begins
<1>2. PICK m \in 1 .. Len(old) : old[m] = l[j]
  BY DEF Stays
<1>3. m \in 1 .. Len(l) /\ l[m] = old[m]
  BY <1>1, <1>2 DEF Begins
<1>4. m = j
  BY <1>2, <1>3 DEF Distinct
<1>5. \A i \in 1 .. j : i \in 1 .. Len(old) /\ old[i] = l[i]
  BY <1>1, <1>2, <1>4 DEF Begins
<1> QED
  BY <1>2, <1>4, <1>5 DEF Stays

\* A list that only grew.
LEMMA GrownOrdered ==
  ASSUME NEW old \in Seq(Task), NEW l \in Seq(Task), Begins(old, l), Distinct(l), NEW R
  PROVE  Ordered(old, l, R)
<1>1. Len(old) \in Nat /\ Len(l) \in Nat /\ Len(old) <= Len(l)
  BY LenProperties DEF Begins
<1>2. \A j \in 1 .. Len(old) : Stays(old[j], l)
  BY <1>1 DEF Stays, Begins
<1>3. ASSUME NEW i \in 1 .. Len(l), NEW j \in 1 .. Len(l), i < j, Stays(l[j], old)
      PROVE  Stays(l[i], old)
  <2>1. i \in 1 .. j
    BY <1>1, <1>3
  <2> QED
    BY <1>3, <2>1, SharedFirst
<1> QED
  BY <1>2, <1>3 DEF Ordered

\* A list that grew and lost its head.
LEMMA TakenOrdered ==
  ASSUME NEW old \in Seq(Task), NEW l \in Seq(Task), Begins(old, l), Distinct(l), l # <<>>,
         NEW R
  PROVE  Ordered(old, Tail(l), R)
<1> DEFINE n == Tail(l)
<1>1. Len(old) \in Nat /\ Len(l) \in Nat /\ Len(old) <= Len(l) /\ Len(l) >= 1
  BY LenProperties, EmptySeq DEF Begins
<1>2. /\ Len(n) = Len(l) - 1
      /\ \A i \in 1 .. Len(l) - 1 : i + 1 \in 1 .. Len(l) /\ n[i] = l[i + 1]
  BY <1>1, HeadTailProperties
<1> HIDE DEF n
<1>3. ASSUME NEW i \in 1 .. Len(old), NEW j \in 1 .. Len(old), i < j PROVE Stays(old[j], n)
  <2>1. j - 1 \in 1 .. Len(l) - 1 /\ j \in 1 .. Len(old)
    BY <1>1, <1>3
  <2>2. n[j - 1] = l[j] /\ l[j] = old[j]
    BY <1>1, <1>2, <2>1 DEF Begins
  <2> QED
    BY <1>2, <2>1, <2>2 DEF Stays
<1>4. ASSUME NEW i \in 1 .. Len(n), NEW j \in 1 .. Len(n), i < j, Stays(n[j], old)
      PROVE  Stays(n[i], old)
  <2>1. /\ i + 1 \in 1 .. j + 1 /\ j + 1 \in 1 .. Len(l)
        /\ n[i] = l[i + 1] /\ n[j] = l[j + 1]
    BY <1>1, <1>2, <1>4
  <2> QED
    BY <1>4, <2>1, SharedFirst
<1> QED
  BY <1>3, <1>4 DEF Ordered, n

\* A list that grew and got the preempted task in front.
LEMMA PushedOrdered ==
  ASSUME NEW old \in Seq(Task), NEW l \in Seq(Task), Begins(old, l), Distinct(l),
         NEW a \in Task, NEW R, a \in R
  PROVE  Ordered(old, <<a>> \o l, R)
<1> DEFINE n == <<a>> \o l
<1>1. Len(old) \in Nat /\ Len(l) \in Nat /\ Len(old) <= Len(l)
  BY LenProperties DEF Begins
<1>2. /\ Len(n) = Len(l) + 1 /\ n[1] = a
      /\ \A i \in 1 .. Len(l) + 1 : i # 1 => i - 1 \in 1 .. Len(l) /\ n[i] = l[i - 1]
  BY PushFront
<1> HIDE DEF n
<1>3. ASSUME NEW j \in 1 .. Len(old) PROVE Stays(old[j], n)
  <2>1. j + 1 \in 1 .. Len(l) + 1 /\ j + 1 # 1 /\ (j + 1) - 1 = j
    BY <1>1
  <2>2. n[j + 1] = l[j] /\ l[j] = old[j]
    BY <1>2, <2>1 DEF Begins
  <2> QED
    BY <1>2, <2>1, <2>2 DEF Stays
<1>4. ASSUME NEW i \in 1 .. Len(n), NEW j \in 1 .. Len(n), i < j, i # 1, Stays(n[j], old)
      PROVE  Stays(n[i], old)
  <2>1. /\ i - 1 \in 1 .. j - 1 /\ j - 1 \in 1 .. Len(l)
        /\ n[i] = l[i - 1] /\ n[j] = l[j - 1]
    BY <1>1, <1>2, <1>4
  <2> QED
    BY <1>4, <2>1, SharedFirst
<1> QED
  BY <1>2, <1>3, <1>4 DEF Ordered, n

-------------------------------------------------------------------------------
(* One step, on values of the kernel's globals *)

\* The lists grow, and then at most one Os_Schedule_Internal changes them.
Reordered(k, k2) ==
  \E j \in KernelType : Lists(j) /\ Grows(k, j) /\ Rescheduled(j, k2)

\* FifoStep, for two values of the globals.
Fifo(k, k2) ==
  \A q \in Prio :
    Ordered(k.ready[q], k2.ready[q], {t \in Task : k2.state[t] = "READY"})

LEMMA ReorderedFifo ==
  ASSUME NEW k \in KernelType, NEW k2 \in KernelType, Reordered(k, k2)
  PROVE  Fifo(k, k2)
<1>1. PICK j \in KernelType : Lists(j) /\ Grows(k, j) /\ Rescheduled(j, k2)
  BY DEF Reordered
<1> SUFFICES ASSUME NEW q \in Prio
             PROVE  Ordered(k.ready[q], k2.ready[q], {t \in Task : k2.state[t] = "READY"})
  BY DEF Fifo
<1> DEFINE R == {t \in Task : k2.state[t] = "READY"}
           old == k.ready[q]
           l == j.ready[q]
<1>2. old \in Seq(Task) /\ l \in Seq(Task) /\ Begins(old, l) /\ Distinct(l)
  BY <1>1, KernelParts DEF Grows, Lists
<1>3. \/ k2.ready[q] = l
      \/ l # <<>> /\ k2.ready[q] = Tail(l)
      \/ k2.ready[q] = <<j.active>> \o l /\ j.active \in Task /\ j.active \in R
  BY <1>1 DEF Rescheduled
<1> HIDE DEF old, l, R
<1>4. CASE k2.ready[q] = l
  BY <1>2, <1>4, GrownOrdered DEF old, R
<1>5. CASE l # <<>> /\ k2.ready[q] = Tail(l)
  BY <1>2, <1>5, TakenOrdered DEF old, R
<1>6. CASE k2.ready[q] = <<j.active>> \o l /\ j.active \in Task /\ j.active \in R
  BY <1>2, <1>6, PushedOrdered DEF old, R
<1> QED
  BY <1>3, <1>4, <1>5, <1>6

\* No task but the running one is suspended or loses an activation.
EndsOnlyRunning(k, k2) ==
  \A t \in Task :
    \/ k2.state[t] = "SUSPENDED" /\ k.state[t] # "SUSPENDED"
    \/ k2.activation[t] < k.activation[t]
    => Running(k) /\ t = k.active

Moves(k, k2) == Reordered(k, k2) /\ EndsOnlyRunning(k, k2)

\* Counts, apart from the records they come from.
LEMMA Ascending ==
  ASSUME NEW a \in 0 .. 255
  PROVE  /\ ~(a < a) /\ a >= a
         /\ \A b, c \in 0 .. 255 : c >= b /\ c < a => b < a
<1>1. a \in Int
  OBVIOUS
<1>2. ~(a < a) /\ a >= a
  BY <1>1
<1>3. ASSUME NEW b \in 0 .. 255, NEW c \in 0 .. 255, c >= b, c < a PROVE b < a
  BY <1>1, <1>3
<1> QED
  BY <1>2, <1>3

\* A value with the same lists, states and activations is no move.
LEMMA SameMoves ==
  ASSUME NEW k, Core(k), NEW k2 \in KernelType,
         k2.ready = k.ready, k2.state = k.state, k2.activation = k.activation
  PROVE  Moves(k, k2)
<1>1. k \in KernelType /\ Lists(k)
  BY DEF Core
<1>2. Grows(k, k) /\ Rescheduled(k, k2)
  BY <1>1, GrowsOn DEF Rescheduled
<1>3. \A t \in Task : ~(k.activation[t] < k.activation[t])
  <2>1. \A t \in Task : k.activation[t] \in 0 .. 255
    BY <1>1, KernelParts
  <2> QED
    BY <2>1
<1> QED
  BY <1>1, <1>2, <1>3 DEF Moves, Reordered, EndsOnlyRunning

LEMMA FailMoves ==
  ASSUME NEW k, Core(k), NEW j, Core(j), Grows(k, j), EndsOnlyRunning(k, j), NEW e \in Status
  PROVE  Moves(k, Fail(j, e))
<1> DEFINE k2 == Fail(j, e)
<1>1. j \in KernelType /\ Lists(j)
  BY DEF Core
<1>2. SameSchedule(j, k2) /\ k2.activation = j.activation
  BY <1>1, FailFields
<1> HIDE DEF k2
<1>3. Rescheduled(j, k2)
  BY <1>2 DEF Rescheduled, SameSchedule
<1>4. EndsOnlyRunning(k, k2)
  BY <1>2 DEF EndsOnlyRunning, SameSchedule
<1> QED
  BY <1>1, <1>3, <1>4 DEF Moves, Reordered, k2

\* A procedure that ends in Os_Schedule_Internal.
LEMMA ScheduleMoves ==
  ASSUME NEW k, Core(k), NEW j, Core(j), Grows(k, j), EndsOnlyRunning(k, j)
  PROVE  Moves(k, Schedule_Internal(j))
<1> DEFINE k2 == Schedule_Internal(j)
<1>1. k2 = Schedule_Internal(j)
  OBVIOUS
<1> HIDE DEF k2
<1>2. /\ \A u \in Task : k2.state[u] = "SUSPENDED" <=> j.state[u] = "SUSPENDED"
      /\ k2.activation = j.activation
      /\ Rescheduled(j, k2)
  BY <1>1, ScheduleCore
<1>3. EndsOnlyRunning(k, k2)
  BY <1>2 DEF EndsOnlyRunning
<1>4. j \in KernelType /\ Lists(j)
  BY DEF Core
<1> QED
  BY <1>2, <1>3, <1>4 DEF Moves, Reordered, k2

\* Nothing grew and nothing ended, to begin with.
LEMMA StandingStill ==
  ASSUME NEW k, Core(k)
  PROVE  Grows(k, k) /\ EndsOnlyRunning(k, k)
<1>1. k \in KernelType
  BY DEF Core
<1>2. \A t \in Task : k.activation[t] \in 0 .. 255
  BY <1>1, KernelParts
<1> QED
  BY <1>1, <1>2, GrowsOn DEF EndsOnlyRunning

\* An activation on the way, after the caller may have ended.
LEMMA ActivatedMoves ==
  ASSUME NEW k, Core(k), NEW j, Core(j), Counted(j), Grows(k, j), EndsOnlyRunning(k, j),
         NEW t \in Task, ~AtLimit(j, t),
         NEW k2, k2 = Activated(j, t)
  PROVE  Core(k2) /\ Grows(k, k2) /\ EndsOnlyRunning(k, k2)
<1>1. /\ Core(k2) /\ Grows(j, k2)
      /\ \A u \in Task : /\ j.state[u] # "SUSPENDED" => k2.state[u] = j.state[u]
                         /\ k2.activation[u] >= j.activation[u]
  BY ActivatedCore
<1>2. k \in KernelType /\ j \in KernelType /\ k2 \in KernelType
  BY <1>1 DEF Core
<1>3. Grows(k, k2)
  BY <1>1, <1>2, GrowsOn
<1>4. ASSUME NEW u \in Task,
             \/ k2.state[u] = "SUSPENDED" /\ k.state[u] # "SUSPENDED"
             \/ k2.activation[u] < k.activation[u]
      PROVE  Running(k) /\ u = k.active
  <2>1. CASE k2.state[u] = "SUSPENDED" /\ k.state[u] # "SUSPENDED"
    <3>1. j.state[u] = "SUSPENDED"
      BY <1>1, <2>1
    <3> QED
      BY <2>1, <3>1 DEF EndsOnlyRunning
  <2>2. CASE k2.activation[u] < k.activation[u]
    <3>1. /\ k.activation[u] \in 0 .. 255 /\ j.activation[u] \in 0 .. 255
          /\ k2.activation[u] \in 0 .. 255
      BY <1>2, KernelParts
    <3>2. k2.activation[u] >= j.activation[u]
      BY <1>1
    <3>3. j.activation[u] < k.activation[u]
      BY <2>2, <3>1, <3>2, Ascending
    <3> QED
      BY <3>3 DEF EndsOnlyRunning
  <2> QED
    BY <1>4, <2>1, <2>2
<1> QED
  BY <1>1, <1>3, <1>4 DEF EndsOnlyRunning

\* The end of the running task on the way.
LEMMA EndedMoves ==
  ASSUME NEW k, Core(k), Counted(k), Running(k), NoInternal => k.held[k.active] = <<>>,
         NEW k2, k2 = Ended(k)
  PROVE  Core(k2) /\ Counted(k2) /\ Grows(k, k2) /\ EndsOnlyRunning(k, k2)
<1>1. /\ Core(k2) /\ Counted(k2) /\ Grows(k, k2)
      /\ \A u \in Task : u # k.active => /\ k2.state[u] = k.state[u]
                                       /\ k2.activation[u] = k.activation[u]
  BY EndedCore
<1>2. \A t \in Task : k.activation[t] \in 0 .. 255
  BY KernelParts DEF Core
<1>3. EndsOnlyRunning(k, k2)
  <2> SUFFICES ASSUME NEW t \in Task, t # k.active
               PROVE  /\ k2.state[t] = k.state[t]
                      /\ ~(k2.activation[t] < k.activation[t])
    BY DEF EndsOnlyRunning
  <2>1. k2.state[t] = k.state[t] /\ k2.activation[t] = k.activation[t]
    BY <1>1
  <2>2. k.activation[t] \in 0 .. 255
    BY <1>2
  <2> QED
    BY <2>1, <2>2, Ascending
<1> QED
  BY <1>1, <1>3

-------------------------------------------------------------------------------
(* The services *)

LEMMA ActivateMoves ==
  ASSUME NEW k, Served(k), NEW t, ErrorExt \/ t \in Task,
         ~MultipleActivation /\ ~ErrorExt => k.state[t] = "SUSPENDED"
  PROVE  Moves(k, ActivateTask_Internal(k, t))
<1>1. Core(k) /\ Counted(k) /\ Grows(k, k) /\ EndsOnlyRunning(k, k)
  BY StandingStill DEF Served, KInv
<1>2. CASE ActivateError(k, t) # "E_OK"
  <2>1. ActivateTask_Internal(k, t) = Fail(k, ActivateError(k, t))
    BY <1>2 DEF ActivateTask_Internal
  <2>2. ActivateError(k, t) \in Status
    BY DEF ActivateError, Status
  <2> QED
    BY <1>1, <2>1, <2>2, FailMoves
<1>3. CASE ActivateError(k, t) = "E_OK"
  <2> DEFINE a == Activated(k, t)
  <2>1. t \in Task /\ ~AtLimit(k, t)
    BY <1>3, BuildAssumption DEF ActivateError, AtLimit
  <2>2. ActivateTask_Internal(k, t) = Schedule_Internal(a)
    BY <1>3, Zenon DEF ActivateTask_Internal
  <2>3. a = Activated(k, t)
    OBVIOUS
  <2> HIDE DEF a
  <2>4. Core(a) /\ Grows(k, a) /\ EndsOnlyRunning(k, a)
    BY <1>1, <2>1, <2>3, ActivatedMoves
  <2> QED
    BY <1>1, <2>2, <2>4, ScheduleMoves
<1> QED
  BY <1>2, <1>3

LEMMA TerminateMoves ==
  ASSUME NEW k, Served(k), Running(k), ~ErrorExt => k.held[k.active] = <<>>
  PROVE  Moves(k, TerminateTask_Internal(k))
<1>1. Core(k) /\ Counted(k) /\ Grows(k, k) /\ EndsOnlyRunning(k, k)
  BY StandingStill DEF Served, KInv
<1>2. CASE EndError(k) # "E_OK"
  <2>1. TerminateTask_Internal(k) = Fail(k, EndError(k))
    BY <1>2 DEF TerminateTask_Internal
  <2>2. EndError(k) \in Status
    BY DEF EndError, Status
  <2> QED
    BY <1>1, <2>1, <2>2, FailMoves
<1>3. CASE EndError(k) = "E_OK"
  <2> DEFINE a == Ended(k)
  <2>1. k.held[k.active] = <<>>
    BY <1>3, BuildAssumption DEF EndError
  <2>2. TerminateTask_Internal(k) = Schedule_Internal(a)
    BY <1>3, Zenon DEF TerminateTask_Internal
  <2>3. a = Ended(k)
    OBVIOUS
  <2> HIDE DEF a
  <2>4. Core(a) /\ Grows(k, a) /\ EndsOnlyRunning(k, a)
    BY <1>1, <2>1, <2>3, EndedMoves
  <2> QED
    BY <1>1, <2>2, <2>4, ScheduleMoves
<1> QED
  BY <1>2, <1>3

LEMMA ChainMoves ==
  ASSUME NEW k, Served(k), Running(k), ~ErrorExt => k.held[k.active] = <<>>,
         NEW t, ErrorExt \/ t \in Task
  PROVE  Moves(k, ChainTask_Internal(k, t))
<1>1. Core(k) /\ Counted(k) /\ Grows(k, k) /\ EndsOnlyRunning(k, k)
  BY StandingStill DEF Served, KInv
<1>2. CASE EndError(k) # "E_OK"
  <2>1. ChainTask_Internal(k, t) = Fail(k, EndError(k))
    BY <1>2 DEF ChainTask_Internal
  <2>2. EndError(k) \in Status
    BY DEF EndError, Status
  <2> QED
    BY <1>1, <2>1, <2>2, FailMoves
<1>3. CASE EndError(k) = "E_OK"
  <2> DEFINE a == Ended(k)
             b == Activated(a, t)
  <2>1. k.held[k.active] = <<>>
    BY <1>3, BuildAssumption DEF EndError
  <2>2. a = Ended(k) /\ b = Activated(a, t)
    OBVIOUS
  <2>3. ChainTask_Internal(k, t) = IF ErrorExt /\ t \notin Task THEN Fail(k, "E_OS_ID")
                                   ELSE IF AtLimit(a, t) THEN Fail(a, "E_OS_LIMIT")
                                   ELSE Schedule_Internal(b)
    BY <1>3, Zenon DEF ChainTask_Internal
  <2> HIDE DEF a, b
  <2>4. Core(a) /\ Counted(a) /\ Grows(k, a) /\ EndsOnlyRunning(k, a)
    BY <1>1, <2>1, <2>2, EndedMoves
  <2>5. CASE ErrorExt /\ t \notin Task
    BY <1>1, <2>3, <2>5, FailMoves DEF Status
  <2>6. CASE t \in Task /\ AtLimit(a, t)
    BY <1>1, <2>3, <2>4, <2>6, FailMoves DEF Status
  <2>7. CASE t \in Task /\ ~AtLimit(a, t)
    <3>1. Core(b) /\ Grows(k, b) /\ EndsOnlyRunning(k, b)
      BY <1>1, <2>2, <2>4, <2>7, ActivatedMoves
    <3>2. Moves(k, Schedule_Internal(b))
      BY <1>1, <3>1, ScheduleMoves
    <3> QED
      BY <2>3, <2>7, <3>2
  <2> QED
    BY <2>5, <2>6, <2>7
<1> QED
  BY <1>2, <1>3

LEMMA GetMoves ==
  ASSUME NEW k, Served(k), Running(k), NEW r, ErrorExt \/ r \in Res,
         ~ErrorExt => k.priority[k.active] <= Ceiling[r]
  PROVE  Moves(k, GetResource_Internal(k, r))
<1>1. Core(k) /\ Highest(k) /\ Grows(k, k) /\ EndsOnlyRunning(k, k)
  BY StandingStill DEF Served, KInv
<1>2. CASE GetError(k, r) # "E_OK"
  <2>1. GetResource_Internal(k, r) = Fail(k, GetError(k, r))
    BY <1>2 DEF GetResource_Internal
  <2>2. GetError(k, r) \in Status
    BY DEF GetError, Status
  <2> QED
    BY <1>1, <2>1, <2>2, FailMoves
<1>3. CASE GetError(k, r) = "E_OK"
  <2> DEFINE a == GetResource_Internal(k, r)
  <2>1. r \in Res
    BY <1>3, BuildAssumption DEF GetError
  <2>2. k.priority[k.active] <= Ceiling[r]
    <3>1. CASE ErrorExt
      <4>1. ~(k.priority[k.active] > Ceiling[r])
        BY <1>3, <2>1, <3>1 DEF GetError
      <4>2. k.priority[k.active] \in Int
        BY PriorityBounds DEF Served, KInv, Running
      <4> QED
        BY <2>1, <4>1, <4>2, Numbers
    <3> QED
      BY <3>1, BuildAssumption
  <2>3. a = GetResource_Internal(k, r)
    OBVIOUS
  <2> HIDE DEF a
  <2>4. /\ Core(a)
        /\ a.state = k.state /\ a.activation = k.activation /\ a.ready = k.ready
    BY <1>1, <1>3, <2>1, <2>2, <2>3, GetCore
  <2>5. Moves(k, a)
    BY <1>1, <2>4, SameMoves DEF Core
  <2> QED
    BY <2>3, <2>5
<1> QED
  BY <1>2, <1>3

LEMMA ReleaseMoves ==
  ASSUME NEW k, Served(k), Running(k), NEW r, ErrorExt \/ r \in Res,
         ~ErrorExt => k.held[k.active] # <<>>
  PROVE  Moves(k, ReleaseResource_Internal(k, r))
<1>1. Core(k) /\ Highest(k) /\ Grows(k, k) /\ EndsOnlyRunning(k, k)
  BY StandingStill DEF Served, KInv
<1>2. CASE ReleaseError(k, r) # "E_OK"
  <2>1. ReleaseResource_Internal(k, r) = Fail(k, ReleaseError(k, r))
    BY <1>2 DEF ReleaseResource_Internal
  <2>2. ReleaseError(k, r) \in Status
    BY DEF ReleaseError, Status
  <2> QED
    BY <1>1, <2>1, <2>2, FailMoves
<1>3. CASE ReleaseError(k, r) = "E_OK"
  <2> DEFINE a == Unlocked(k, r)
  <2>1. r \in Res /\ k.held[k.active] # <<>>
    BY <1>3, BuildAssumption DEF ReleaseError
  <2>2. a = Unlocked(k, r)
    OBVIOUS
  <2>3. ReleaseResource_Internal(k, r) = Schedule_Internal(a)
    BY <1>3, Zenon DEF ReleaseResource_Internal
  <2> HIDE DEF a
  <2>4. /\ Core(a)
        /\ a.state = k.state /\ a.activation = k.activation /\ a.ready = k.ready
    BY <1>1, <2>1, <2>2, UnlockedCore
  <2>5. Grows(k, a) /\ EndsOnlyRunning(k, a)
    <3>1. k \in KernelType /\ a \in KernelType
      BY <1>1, <2>4 DEF Core
    <3>2. Grows(k, a)
      BY <2>4, <3>1, GrowsOn
    <3> QED
      BY <1>1, <2>4, <3>2 DEF EndsOnlyRunning
  <2> QED
    BY <1>1, <2>3, <2>4, <2>5, ScheduleMoves
<1> QED
  BY <1>2, <1>3

-------------------------------------------------------------------------------
(* The actions *)

LEMMA AutostartMoves == IInv /\ Autostart => Moves(os, os')
<1> SUFFICES ASSUME IInv, Autostart PROVE Moves(os, os')
  OBVIOUS
<1>1. Core(os) /\ os \in KernelType /\ boot \in Task /\ os.state[boot] = "SUSPENDED"
  BY CountsAssumption DEF IInv, KInv, Core, Booting, Autostart, Task
<1>2. CASE ~TaskAutostart[boot]
  <2>1. os' = os
    BY <1>2 DEF Autostart
  <2> QED
    BY <1>1, <2>1, SameMoves
<1>3. CASE TaskAutostart[boot]
  <2> DEFINE a == IF MultipleActivation THEN WithCount(os, boot, 1) ELSE os
  <2>1. os' = Suspended_To_Ready(a, boot)
    BY <1>3, Zenon DEF Autostart, WithCount
  <2>2. Core(a) /\ a.state = os.state /\ a.ready = os.ready
    <3>1. CASE MultipleActivation
      <4>1. \A n \in 0 .. 255 :
              WithCount(os, boot, n) \in KernelType /\ SameSchedule(os, WithCount(os, boot, n))
        BY <1>1, Recount
      <4>2. 1 \in 0 .. 255
        OBVIOUS
      <4>3. a = WithCount(os, boot, 1)
        BY <3>1
      <4> HIDE DEF a
      <4>4. a \in KernelType /\ SameSchedule(os, a)
        BY <4>1, <4>2, <4>3, Zenon
      <4> QED
        BY <1>1, <4>4, SameCore DEF SameSchedule
    <3>2. CASE ~MultipleActivation
      BY <1>1, <3>2
    <3> QED
      BY <3>1, <3>2
  <2>3. \A t \in Task : a.activation[t] >= os.activation[t]
    <3>1. CASE MultipleActivation
      <4>1. /\ WithCount(os, boot, 1).activation[boot] = 1
            /\ \A t \in Task : t # boot =>
                 WithCount(os, boot, 1).activation[t] = os.activation[t]
        <5>1. \A n \in 0 .. 255 :
                /\ WithCount(os, boot, n).activation[boot] = n
                /\ \A t \in Task : t # boot =>
                     WithCount(os, boot, n).activation[t] = os.activation[t]
          BY <1>1, Recount, ZenonT(60)
        <5>2. 1 \in 0 .. 255
          OBVIOUS
        <5> QED
          BY <5>1, <5>2, Zenon
      <4>2. os.activation[boot] = 0
        BY <1>1, <3>1 DEF IInv, KInv, Counted
      <4>3. \A t \in Task : os.activation[t] \in 0 .. 255
        BY <1>1, KernelParts
      <4>4. a = WithCount(os, boot, 1)
        BY <3>1
      <4> HIDE DEF a
      <4>5. SUFFICES ASSUME NEW t \in Task PROVE a.activation[t] >= os.activation[t]
        OBVIOUS
      <4>6. CASE t = boot
        <5>1. a.activation[t] = 1 /\ os.activation[t] = 0
          BY <4>1, <4>2, <4>4, <4>6
        <5> QED
          BY <5>1
      <4>7. CASE t # boot
        <5>1. a.activation[t] = os.activation[t] /\ os.activation[t] \in 0 .. 255
          BY <4>1, <4>3, <4>4, <4>7
        <5> QED
          BY <5>1, Ascending
      <4> QED
        BY <4>6, <4>7
    <3>2. CASE ~MultipleActivation
      <4>1. \A t \in Task : os.activation[t] \in 0 .. 255
        BY <1>1, KernelParts
      <4> QED
        BY <3>2, <4>1
    <3> QED
      BY <3>1, <3>2
  <2> HIDE DEF a
  <2>4. /\ Core(os') /\ os'.state[boot] = "READY_FIRST" /\ Grows(a, os')
        /\ \A t \in Task : t # boot => os'.state[t] = os.state[t]
        /\ os'.activation = a.activation
    BY <1>1, <2>1, <2>2, ReadyCore
  <2>5. Grows(os, os') /\ Lists(os') /\ os' \in KernelType
    BY <2>2, <2>4 DEF Grows, Core
  <2>6. Rescheduled(os', os')
    BY DEF Rescheduled
  <2>7. EndsOnlyRunning(os, os')
    <3> SUFFICES ASSUME NEW t \in Task
                 PROVE  /\ os'.state[t] = "SUSPENDED" => os.state[t] = "SUSPENDED"
                        /\ ~(os'.activation[t] < os.activation[t])
      BY DEF EndsOnlyRunning
    <3>1. os'.state[t] = "SUSPENDED" => os.state[t] = "SUSPENDED"
      BY <2>4
    <3>2. os'.activation[t] >= os.activation[t]
      BY <2>3, <2>4
    <3>3. os'.activation[t] \in 0 .. 255 /\ os.activation[t] \in 0 .. 255
      BY <1>1, <2>5, KernelParts
    <3> QED
      BY <3>1, <3>2, <3>3, Ascending
  <2> QED
    BY <2>5, <2>6, <2>7 DEF Moves, Reordered
<1> QED
  BY <1>2, <1>3

LEMMA StartMoves == IInv /\ Start => Moves(os, os')
<1> SUFFICES ASSUME IInv, Start PROVE Moves(os, os')
  OBVIOUS
<1> DEFINE k == [os EXCEPT !.active = 0]
<1>1. Core(os) /\ os \in KernelType /\ boot = TaskCount
  BY DEF IInv, KInv, Core, Start
<1>2. os' = Schedule_Internal(k)
  BY Zenon DEF Start
<1>3. Core(k) /\ k.state = os.state /\ k.ready = os.ready /\ k.activation = os.activation
  BY <1>1, StartCore
<1> HIDE DEF k
<1>4. Grows(os, k)
  BY <1>1, <1>3, GrowsOn DEF Core
<1>5. EndsOnlyRunning(os, k)
  BY <1>1, <1>3, StandingStill DEF EndsOnlyRunning
<1> QED
  BY <1>1, <1>2, <1>3, <1>4, <1>5, ScheduleMoves

LEMMA ShutdownMoves == Sound /\ IInv /\ Shutdown => Moves(os, os')
<1> SUFFICES ASSUME Sound, IInv, Shutdown PROVE Moves(os, os')
  OBVIOUS
<1>1. Served(os) /\ Running(os) /\ Core(os) /\ os \in KernelType
  BY CallingServed DEF Shutdown, Served, KInv, Core
<1> DEFINE k == Preempted(os)
<1>2. os' = Fail(k, "E_OK")
  BY DEF Shutdown
<1>3. k = Running_To_Ready(os, os.active)
  BY <1>1, Zenon DEF Preempted
<1>4. os.priority[os.active] \in Prio
  BY <1>1, SoundIsOrderly, CallerInList DEF Shutdown
<1> HIDE DEF k
<1>5. /\ Core(k)
      /\ \A u \in Task : k.state[u] = "SUSPENDED" <=> os.state[u] = "SUSPENDED"
      /\ k.activation = os.activation
  BY <1>1, <1>3, <1>4, PreemptCore
<1>6. /\ k.state[os.active] = "READY"
      /\ k.ready[os.priority[os.active]] = <<os.active>> \o os.ready[os.priority[os.active]]
      /\ \A q \in Prio : q # os.priority[os.active] => k.ready[q] = os.ready[q]
  BY <1>1, <1>3, <1>4, PreemptFields
<1>7. SameSchedule(k, os') /\ os'.activation = k.activation
  BY <1>2, <1>5, FailFields DEF Core, Status
<1>8. Rescheduled(os, os')
  <2>1. os'.state = k.state /\ os'.ready = k.ready /\ os.active \in Task
    BY <1>1, <1>7 DEF SameSchedule, Running
  <2> QED
    BY <1>6, <2>1 DEF Rescheduled
<1>9. Grows(os, os) /\ Lists(os)
  BY <1>1, StandingStill DEF Core
<1>10. EndsOnlyRunning(os, os')
  BY <1>1, <1>5, <1>7, StandingStill DEF EndsOnlyRunning, SameSchedule
<1> QED
  BY <1>1, <1>8, <1>9, <1>10 DEF Moves, Reordered

\* The services whose callers' rules the invariant's proof has established.
LEMMA ScheduleServiceMoves == Sound /\ IInv /\ Schedule => Moves(os, os')
<1> SUFFICES ASSUME Sound, IInv, Schedule PROVE Moves(os, os')
  OBVIOUS
<1>1. Served(os) /\ Core(os)
  BY CallingServed DEF Schedule, Served, KInv
<1> DEFINE k == Schedule_Internal(os)
<1>2. k.active \in Task
  BY <1>1, ScheduleServed DEF Served, KInv
<1>3. os' = InternalResource_Get(Schedule_Internal(InternalResource_Release(os)))
  BY DEF Schedule, Service
<1>4. InternalResource_Release(os) = os /\ InternalResource_Get(k) = k
  BY <1>1, <1>2, NoInternalResource DEF Served, Sound
<1>5. os' = k
  BY <1>3, <1>4, Zenon
<1>6. Moves(os, k)
  BY <1>1, StandingStill, ScheduleMoves
<1> QED
  BY <1>5, <1>6

LEMMA TerminateTaskMoves == Sound /\ IInv /\ TerminateTask => Moves(os, os')
<1> SUFFICES ASSUME Sound, IInv, TerminateTask PROVE Moves(os, os')
  OBVIOUS
<1>1. Served(os) /\ Running(os)
  BY CallingServed DEF TerminateTask
<1> DEFINE k == TerminateTask_Internal(os)
<1>2. ~ErrorExt => os.held[os.active] = <<>>
  BY <1>1, EndsEmpty DEF TerminateTask, Served, KInv, Sound
<1>3. k.active \in Task
  BY <1>1, <1>2, TerminateServed DEF Served
<1>4. os' = InternalResource_Get(TerminateTask_Internal(InternalResource_Release(os)))
  BY DEF TerminateTask, Service
<1>5. InternalResource_Release(os) = os /\ InternalResource_Get(k) = k
  BY <1>1, <1>3, NoInternalResource DEF Served, Sound
<1>6. os' = k
  BY <1>4, <1>5, Zenon
<1>7. Moves(os, k)
  BY <1>1, <1>2, TerminateMoves
<1> QED
  BY <1>6, <1>7

LEMMA ChainTaskMoves ==
  ASSUME Sound, IInv, NEW t \in TaskArg, ChainTask(t)
  PROVE  Moves(os, os')
<1>1. Served(os) /\ Running(os)
  BY CallingServed DEF ChainTask
<1> DEFINE k == ChainTask_Internal(os, t)
<1>2. ~ErrorExt => os.held[os.active] = <<>>
  BY <1>1, EndsEmpty DEF ChainTask, Served, KInv, Sound
<1>3. k.active \in Task
  BY <1>1, <1>2, Arguments, ChainServed DEF Served
<1>4. os' = InternalResource_Get(ChainTask_Internal(InternalResource_Release(os), t))
  BY DEF ChainTask, Service
<1>5. InternalResource_Release(os) = os /\ InternalResource_Get(k) = k
  BY <1>1, <1>3, NoInternalResource DEF Served, Sound
<1>6. os' = k
  BY <1>4, <1>5, Zenon
<1>7. Moves(os, k)
  BY <1>1, <1>2, Arguments, ChainMoves
<1> QED
  BY <1>6, <1>7

LEMMA ActivationMoves ==
  ASSUME Sound, IInv, boot > TaskCount, NEW t, ErrorExt \/ t \in Task,
         MayActivate(t), Service(ActivateTask_Internal(os, t))
  PROVE  Moves(os, os')
<1>1. Served(os) /\ os' = ActivateTask_Internal(os, t)
  BY DEF IInv, Served, Service
<1>2. ~MultipleActivation /\ ~ErrorExt => os.state[t] = "SUSPENDED"
  BY DEF MayActivate, Sound
<1> QED
  BY <1>1, <1>2, ActivateMoves

LEMMA ResourceMoves ==
  ASSUME Sound, IInv, NEW r \in ResArg, GetResource(r) \/ ReleaseResource(r)
  PROVE  Moves(os, os')
<1>1. Served(os) /\ Running(os) /\ (ErrorExt \/ r \in Res)
  BY CallingServed, Arguments DEF GetResource, ReleaseResource
<1>2. CASE GetResource(r)
  <2>1. os' = GetResource_Internal(os, r) /\ (~ErrorExt => os.priority[os.active] <= Ceiling[r])
    BY <1>2 DEF GetResource, MayGet, Sound, Service
  <2> QED
    BY <1>1, <2>1, GetMoves
<1>3. CASE ReleaseResource(r)
  <2>1. os' = ReleaseResource_Internal(os, r) /\ (~ErrorExt => os.held[os.active] # <<>>)
    BY <1>3 DEF ReleaseResource, MayRelease, Service
  <2> QED
    BY <1>1, <2>1, ReleaseMoves
<1> QED
  BY <1>2, <1>3

\* The steps around the alarms and the interrupt.
LEMMA OtherMoves ==
  IInv /\ (IncrementCounter \/ IncrementReturn \/ IsrEnter \/ IsrExit) => Moves(os, os')
<1> SUFFICES ASSUME IInv, IncrementCounter \/ IncrementReturn \/ IsrEnter \/ IsrExit
             PROVE  Moves(os, os')
  OBVIOUS
<1>1. Core(os) /\ os \in KernelType /\ Grows(os, os) /\ EndsOnlyRunning(os, os)
  BY StandingStill DEF IInv, KInv, Core
<1>2. CASE IncrementCounter \/ IsrEnter
  <2>1. os' = os
    BY <1>2 DEF IncrementCounter, IsrEnter
  <2> QED
    BY <1>1, <2>1, SameMoves
<1>3. CASE IncrementReturn
  <2>1. os' = Fail(os, "E_OK")
    BY <1>3 DEF IncrementReturn
  <2> QED
    BY <1>1, <2>1, FailMoves DEF Status
<1>4. CASE IsrExit
  <2>1. os' = Schedule_Internal(os)
    BY <1>4 DEF IsrExit
  <2> QED
    BY <1>1, <2>1, ScheduleMoves
<1> QED
  BY <1>2, <1>3, <1>4

LEMMA NextMoves == Sound /\ IInv /\ [Next]_vars => Moves(os, os') /\ os \in KernelType
<1> SUFFICES ASSUME Sound, IInv, [Next]_vars PROVE Moves(os, os')
  BY DEF IInv, KInv, Core
<1>1. CASE Autostart
  BY <1>1, AutostartMoves
<1>2. CASE Start
  BY <1>2, StartMoves
<1>3. CASE Schedule
  BY <1>3, ScheduleServiceMoves
<1>4. CASE TerminateTask
  BY <1>4, TerminateTaskMoves
<1>5. CASE Shutdown
  BY <1>5, ShutdownMoves
<1>6. ASSUME NEW t \in TaskArg, ChainTask(t) PROVE Moves(os, os')
  BY <1>6, ChainTaskMoves
<1>7. ASSUME NEW t \in TaskArg, ActivateTask(t) PROVE Moves(os, os')
  <2>1. boot > TaskCount /\ MayActivate(t) /\ Service(ActivateTask_Internal(os, t))
    BY <1>7 DEF ActivateTask, Calling, Up
  <2> QED
    BY <2>1, Arguments, ActivationMoves
<1>8. ASSUME NEW r \in ResArg, GetResource(r) \/ ReleaseResource(r) PROVE Moves(os, os')
  BY <1>8, ResourceMoves
<1>9. CASE IncrementCounter \/ IncrementReturn \/ IsrEnter \/ IsrExit
  BY <1>9, OtherMoves
<1>10. ASSUME NEW t \in AlarmTasks, Expire(t) PROVE Moves(os, os')
  <2>1. /\ boot > TaskCount /\ MayActivate(t) /\ Service(ActivateTask_Internal(os, t))
        /\ t \in Task
    BY <1>10, ConfigAssumption DEF Expire, IInv
  <2> QED
    BY <2>1, ActivationMoves
<1>11. CASE UNCHANGED vars
  <2>1. os' = os /\ Core(os) /\ os \in KernelType
    BY <1>11 DEF vars, IInv, KInv, Core
  <2> QED
    BY <2>1, SameMoves
<1> QED
  BY <1>1, <1>2, <1>3, <1>4, <1>5, <1>6, <1>7, <1>8, <1>9, <1>10, <1>11 DEF Next

-------------------------------------------------------------------------------
(* The theorems *)

LEMMA FifoIsFifoStep ==
  ASSUME os \in KernelType, os' \in KernelType, Fifo(os, os')
  PROVE  FifoStep
<1> SUFFICES ASSUME NEW p \in Prio
             PROVE  LET old == os.ready[p]
                        new == os'.ready[p]
                        In(t) == \E i \in DOMAIN new : new[i] = t
                    IN  /\ \A i, j \in DOMAIN old : i < j /\ ~In(old[j]) => ~In(old[i])
                        /\ \A i, j \in DOMAIN new :
                             i < j /\ InList(p, new[j]) /\ ~InList(p, new[i])
                               => os'.state[new[i]] = "READY"
  BY DEF FifoStep
<1>1. /\ os.ready[p] \in Seq(Task) /\ os'.ready[p] \in Seq(Task)
      /\ DOMAIN os.ready[p] = 1 .. Len(os.ready[p])
      /\ DOMAIN os'.ready[p] = 1 .. Len(os'.ready[p])
  BY KernelParts
<1>2. Ordered(os.ready[p], os'.ready[p], {t \in Task : os'.state[t] = "READY"})
  BY DEF Fifo
<1> QED
  BY <1>1, <1>2 DEF Ordered, Stays, InList

\* Without internal resources the ready tasks of a priority start in the order of their
\* activation: no step of any service or of the interrupt lets one overtake another, and
\* only a preempted task goes in front (the lists of Os_State_* for every configuration).
THEOREM TasksStartInOrder ==
  ASSUME Sound
  PROVE  Spec => FifoOrder
<1>1. IInv /\ IInv' /\ [Next]_vars => [FifoStep]_vars
  <2> SUFFICES ASSUME IInv, IInv', [Next]_vars PROVE FifoStep
    OBVIOUS
  <2>1. os \in KernelType /\ os' \in KernelType /\ Moves(os, os')
    BY NextMoves DEF IInv, KInv, Core
  <2> QED
    BY <2>1, ReorderedFifo, FifoIsFifoStep DEF Moves
<1> QED
  BY <1>1, SoundIsOrderly, Invariance, PTL DEF Spec, FifoOrder

\* Without internal resources a step suspends no task but its caller, and takes back no
\* activation of another: TerminateTask and ChainTask end the task that calls them, for
\* every configuration that keeps the documented rules.
THEOREM StepsEndOnlyTheCaller ==
  ASSUME Sound
  PROVE  Spec => OnlyCallerEnds
<1> DEFINE A == \A t \in Task :
                  \/ os'.state[t] = "SUSPENDED" /\ os.state[t] # "SUSPENDED"
                  \/ os'.activation[t] < os.activation[t]
                  => Running(os) /\ t = os.active
<1>1. IInv /\ [Next]_vars => [A]_vars
  BY NextMoves DEF Moves, EndsOnlyRunning
<1>2. OnlyCallerEnds <=> [][A]_vars
  BY DEF OnlyCallerEnds
<1> HIDE DEF A
<1> QED
  BY <1>1, <1>2, SoundIsOrderly, Invariance, PTL DEF Spec

-------------------------------------------------------------------------------
(***************************************************************************)
(* For the ports: which tasks an entry into the kernel leaves part way     *)
(* through, and where the system is after it.                              *)
(***************************************************************************)

\* A task that is part way through was so before, or was prepared.
Follows(P) ==
  \A t \in Task : os'.state[t] \in {"RUNNING", "READY"} => Started(t) \/ t \in P

\* The invariants of the kernel that matter to the port.
LEMMA KernelStates ==
  ASSUME IInv
  PROVE  /\ os.state \in [Task -> TaskState]
         /\ os.active \in Task \cup {INVALID}
         /\ boot \in Int
         /\ boot > TaskCount => os.active \in Task
BY KernelParts DEF IInv, KInv, Core

LEMMA PreparedFollows ==
  ASSUME IInv
  PROVE  Follows(Prepared) /\ Prepared \subseteq Task
<1>1. \A t \in Task : Started(t) \/ os.state[t] \in {"SUSPENDED", "READY_FIRST"}
  BY KernelStates DEF Started, TaskState
<1> QED
  BY <1>1 DEF Follows, Prepared, PreparedBetween

LEMMA EndFollows ==
  ASSUME IInv, boot > TaskCount, Running(os)
  PROVE  Follows(PreparedByEnd) /\ PreparedByEnd \subseteq Task
<1> DEFINE k == InternalResource_Release(os)
<1>1. Served(k)
  BY InternalReleaseServed DEF IInv, Served
<1> HIDE DEF k
<1>2. k.active \in Task /\ k.state \in [Task -> TaskState]
  BY <1>1, KernelParts DEF Served, KInv, Core
<1>3. PreparedByEnd \subseteq Task
  BY <1>2 DEF PreparedByEnd, PreparedBetween, k
<1>4. \A t \in Task : Started(t) \/ os.state[t] \in {"SUSPENDED", "READY_FIRST"}
  BY KernelStates DEF Started, TaskState
<1>5. Follows(PreparedByEnd)
  <2> SUFFICES ASSUME NEW t \in Task, os'.state[t] \in {"RUNNING", "READY"}, ~Started(t)
               PROVE  t \in PreparedBetween(os, k) \/ t \in PreparedBetween(k, os')
    BY DEF Follows, PreparedByEnd, k
  <2>1. k.state[t] \in TaskState
    BY <1>2
  <2> QED
    BY <1>4, <2>1 DEF PreparedBetween, TaskState
<1> QED
  BY <1>3, <1>5

\* The steps of the kernel that end an entry leave the system up.
LEMMA StaysUp ==
  ASSUME IInv
  PROVE  /\ EndingService \/ StayingService => boot > TaskCount /\ boot' = boot /\ Running(os)
         /\ IncrementReturn \/ IsrExit => boot > TaskCount /\ boot' = boot
         /\ IncrementCounter \/ IsrEnter => boot > TaskCount /\ boot' = boot /\ os' = os
<1>1. loop # "none" => boot > TaskCount
  BY DEF IInv
<1>2. EndingService => boot > TaskCount /\ boot' = boot /\ Running(os)
  BY DEF EndingService, TerminateTask, ChainTask, Calling, Up, Service
<1>3. StayingService => boot > TaskCount /\ boot' = boot /\ Running(os)
  BY DEF StayingService, Schedule, Shutdown, ActivateTask, GetResource, ReleaseResource,
         Calling, Up, Service
<1> QED
  BY <1>1, <1>2, <1>3 DEF IncrementReturn, IsrExit, IncrementCounter, IsrEnter, Calling, Up

\* A service or an expired alarm is a step of the kernel.
LEMMA KernelSteps ==
  /\ EndingService \/ StayingService => Next
  /\ ExpireAny => Next
<1>1. EndingService => Next
  BY DEF EndingService, Next
<1>2. StayingService => Next
  BY DEF StayingService, Next
<1>3. ExpireAny => Next
  BY DEF ExpireAny, Next
<1> QED
  BY <1>1, <1>2, <1>3

-------------------------------------------------------------------------------
(* No step of the alarm loop takes a task back in front of its entry *)

LEMMA LoopKeepsStarted ==
  ASSUME Orderly, IInv, ExpireAny \/ IsrExit \/ IncrementReturn, NEW t \in Task, Started(t)
  PROVE  os'.state[t] \in {"RUNNING", "READY"}
<1>1. Core(os) /\ Counted(os) /\ os \in KernelType /\ HasStarted(os, t)
  BY DEF IInv, KInv, Core, Started, HasStarted
<1> SUFFICES HasStarted(os', t)
  BY DEF HasStarted
<1>2. ASSUME NEW e PROVE HasStarted(Fail(os, e), t)
  BY <1>1 DEF Fail, KernelType, HasStarted
<1>3. CASE IncrementReturn
  BY <1>2, <1>3 DEF IncrementReturn
<1>4. CASE IsrExit
  BY <1>1, <1>4, ScheduleCore DEF IsrExit
<1>5. ASSUME NEW u \in AlarmTasks, Expire(u) PROVE HasStarted(os', t)
  <2>1. os' = ActivateTask_Internal(os, u) /\ MayActivate(u) /\ u \in Task
    BY <1>5, ConfigAssumption DEF Expire, Service
  <2>2. CASE ActivateError(os, u) # "E_OK"
    BY <1>2, <2>1, <2>2 DEF ActivateTask_Internal
  <2>3. CASE ActivateError(os, u) = "E_OK"
    <3>1. os' = Schedule_Internal(Activated(os, u))
      BY <2>1, <2>3 DEF ActivateTask_Internal
    <3>2. ~AtLimit(os, u)
      BY <2>1, <2>3, BuildAssumption DEF ActivateError, AtLimit, MayActivate, Orderly
    <3>3. Core(Activated(os, u)) /\ HasStarted(Activated(os, u), t)
      BY <1>1, <2>1, <3>2, ActivatedCore DEF HasStarted
    <3> QED
      BY <3>1, <3>3, ScheduleCore
  <2> QED
    BY <2>2, <2>3
<1> QED
  BY <1>3, <1>4, <1>5 DEF ExpireAny
===============================================================================
