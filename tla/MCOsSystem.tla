------------------------------ MODULE MCOsSystem ------------------------------
(***************************************************************************)
(* A small instance of OsSystem for TLC: two alarms on the system counter. *)
(***************************************************************************)
EXTENDS OsSystem, MCOsKernel

SystemCounter == [a \in 0 .. AlarmCount - 1 |-> 0]
\* Alarm 0 is a single one, alarm 1 is cyclic.
CyclesSystem  == [a \in 0 .. AlarmCount - 1 |-> IF a = 0 THEN {0} ELSE {2}]
\* Each alarm has its task, above the lowest one.
TasksOfAlarms == [a \in 0 .. AlarmCount - 1 |-> a + 1]
===============================================================================
