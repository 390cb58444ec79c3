------------------------------- MODULE MCOsAlarm -------------------------------
(***************************************************************************)
(* Small configurations of OsAlarm for TLC: one counter, as in every       *)
(* configuration of the repository, of 3 or 4 bits instead of 16.          *)
(***************************************************************************)
EXTENDS OsAlarm

\* Alarm 0 is a single one, the others are cyclic.
CyclesShort   == [a \in Alarm |-> IF a = 0 THEN {0} ELSE {2}]
\* Half the range of the ticks.
CyclesHalf    == [a \in Alarm |-> {0, 4}]
SystemCounter == [a \in Alarm |-> 0]
===============================================================================
