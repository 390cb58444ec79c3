------------------------------ MODULE OsSchedSpec ------------------------------
(***************************************************************************)
(* What the scheduler promises, without task states, current priorities or *)
(* ready lists by current priority: priority scheduling with the ceilings  *)
(* of resources, preemptive, in the order of activation.  A task starts    *)
(* only at a priority above all that the started tasks have or hold, so    *)
(* started tasks nest, the last one runs, and none ever waits for a        *)
(* resource.                                                               *)
(***************************************************************************)
EXTENDS Integers, Sequences

CONSTANTS Task, Res, Prio,
          TaskPriority,  \* the static priority of each task
          Limit,         \* how often a task may be activated at a time
          Ceiling        \* the ceiling of each resource

VARIABLES
  queue,    \* for each static priority, its tasks that wait to start, first activated first
  started,  \* the tasks that started and have not ended
  held,     \* the resources that each task holds
  count,    \* how many activations of each task are not over
  running,  \* whether the processor executes a task
  up        \* whether the system has started

vars == <<queue, started, held, count, running, up>>

\* The task that runs is the one of the highest priority that has started.
Runs(t) == running /\ t \in started /\ \A u \in started : TaskPriority[u] <= TaskPriority[t]

\* A priority above every started task of s and above the ceilings of what they hold.
Above(p, s, h) == \A t \in s : TaskPriority[t] < p /\ \A r \in h[t] : Ceiling[r] < p

Enqueue(q, t) == [p \in Prio |-> IF p = TaskPriority[t] THEN Append(q[p], t) ELSE q[p]]

\* The first task of the highest queue that is above all that has started starts, if there
\* is one; the processor then runs.
Dispatch(q, s, h) ==
  LET open == {p \in Prio : q[p] # <<>> /\ Above(p, s, h)}
  IN  /\ \/ open = {} /\ queue' = q /\ started' = s
         \/ \E p \in open : /\ \A o \in open : o <= p
                            /\ queue' = [q EXCEPT ![p] = Tail(@)]
                            /\ started' = s \cup {Head(q[p])}
      /\ running' <=> started' # {}

Init ==
  /\ queue = [p \in Prio |-> <<>>]
  /\ started = {}
  /\ held = [t \in Task |-> {}]
  /\ count = [t \in Task |-> 0]
  /\ running = FALSE
  /\ up = FALSE

Autostart(t) ==
  /\ ~up /\ count[t] = 0
  /\ count' = [count EXCEPT ![t] = 1]
  /\ queue' = Enqueue(queue, t)
  /\ UNCHANGED <<started, held, running, up>>

Start ==
  /\ ~up /\ up' = TRUE
  /\ Dispatch(queue, started, held)
  /\ UNCHANGED <<held, count>>

\* A service or an interrupt that changes nothing else.
Reschedule ==
  /\ up
  /\ Dispatch(queue, started, held)
  /\ UNCHANGED <<held, count, up>>

\* One more activation of t, given the counts and queues before it.
Counted(c, t) == [c EXCEPT ![t] = @ + 1]
Queued(q, c, t) == IF c[t] = 0 THEN Enqueue(q, t) ELSE q

Activate(t) ==
  /\ up /\ count[t] < Limit[t]
  /\ count' = Counted(count, t)
  /\ Dispatch(Queued(queue, count, t), started, held)
  /\ UNCHANGED <<held, up>>

\* The running task t ends, holding nothing; it queues again when activations are left.
MayEnd(t) == Runs(t) /\ held[t] = {}
Left(t) == [count EXCEPT ![t] = @ - 1]
Behind(t) == IF count[t] > 1 THEN Enqueue(queue, t) ELSE queue

Terminate(t) ==
  /\ MayEnd(t)
  /\ count' = Left(t)
  /\ Dispatch(Behind(t), started \ {t}, held)
  /\ UNCHANGED <<held, up>>

Chain(t, u) ==
  /\ MayEnd(t)
  /\ Left(t)[u] < Limit[u]
  /\ count' = Counted(Left(t), u)
  /\ Dispatch(Queued(Behind(t), Left(t), u), started \ {t}, held)
  /\ UNCHANGED <<held, up>>

\* A chain that fails ends its caller all the same, and nothing is dispatched.
ChainFails(t, u) ==
  /\ MayEnd(t)
  /\ Left(t)[u] >= Limit[u]
  /\ count' = Left(t)
  /\ queue' = Behind(t)
  /\ started' = started \ {t}
  /\ running' = FALSE
  /\ UNCHANGED <<held, up>>

\* A resource that a task may take is free.
Get(t, r) ==
  /\ Runs(t)
  /\ TaskPriority[t] <= Ceiling[r]
  /\ \A u \in Task : r \notin held[u]
  /\ held' = [held EXCEPT ![t] = @ \cup {r}]
  /\ UNCHANGED <<queue, started, count, running, up>>

Release(t, r) ==
  /\ Runs(t) /\ r \in held[t]
  /\ held' = [held EXCEPT ![t] = @ \ {r}]
  /\ Dispatch(queue, started, [held EXCEPT ![t] = @ \ {r}])
  /\ UNCHANGED <<count, up>>

\* Nothing runs any more; an interrupt may still reschedule.
Shutdown ==
  /\ running /\ running' = FALSE
  /\ UNCHANGED <<queue, started, held, count, up>>

Next ==
  \/ Start \/ Reschedule \/ Shutdown
  \/ \E t \in Task : Autostart(t) \/ Activate(t) \/ Terminate(t)
  \/ \E t, u \in Task : Chain(t, u) \/ ChainFails(t, u)
  \/ \E t \in Task, r \in Res : Get(t, r) \/ Release(t, r)

Spec == Init /\ [][Next]_vars
===============================================================================
