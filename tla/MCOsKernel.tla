------------------------------ MODULE MCOsKernel ------------------------------
(***************************************************************************)
(* Small configurations of OsKernel for TLC.                               *)
(***************************************************************************)
EXTENDS OsKernel, TLC

\* Four tasks: two share the middle priority, or each has its own.
PrioritiesShared   == 0 :> 0 @@ 1 :> 1 @@ 2 :> 1 @@ 3 :> 2
\* The tasks above the lowest share one priority.
PrioritiesPair     == [t \in Task |-> IF t = 0 THEN 0 ELSE 1]
PrioritiesDistinct == [t \in Task |-> t]

LimitOne           == [t \in Task |-> 1]
LimitMiddle        == [t \in Task |-> IF t = 1 THEN 2 ELSE 1]

AutostartLowest    == [t \in Task |-> t = 0]
AutostartAll       == [t \in Task |-> TRUE]

\* Resource 0 is shared by tasks 0 and 1 or 2, resource 1 is RES_SCHEDULER: its
\* ceiling is OS_PRIO_COUNT, as in test/Os_Test.
CeilingsScheduler  == 0 :> 1 @@ 1 :> PrioCount
\* A third resource between the two, for stacks of three.
CeilingsNested     == 0 :> 1 @@ 1 :> 2 @@ 2 :> PrioCount

\* One resource, shared by all tasks.
CeilingOne         == 0 :> 1

NoCeiling          == <<>>

NoInternal         == [t \in Task |-> INVALID]
\* Tasks 0 and 1 form a group that shares internal resource 0; the last task preempts it.
InternalGroup      == [t \in Task |-> IF t <= 1 THEN 0 ELSE INVALID]
===============================================================================
