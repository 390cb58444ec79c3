------------------------------ MODULE OsAlarmSpec ------------------------------
(***************************************************************************)
(* What the alarm services promise, without counters, wrapping ticks or a  *)
(* queue: each alarm that is on counts down to its expiry, one less at     *)
(* each tick of its counter; a tick is over when every alarm that reached  *)
(* zero has expired, and a cyclic one is logged on again with its cycle.   *)
(***************************************************************************)
EXTENDS Integers

CONSTANTS Alarm, Counter,
          CounterOf,   \* the counter that drives each alarm
          Delay,       \* the relative values an alarm may be set with, above 0
          Cycle        \* the cycles, 0 for a single expiry

Off  == -1
Idle == -1

VARIABLES
  left,    \* ticks left until each alarm expires, or Off
  cycle,   \* its cycle
  ticking  \* the counter whose expired alarms are being served, or Idle

vars == <<left, cycle, ticking>>

Init ==
  /\ left = [a \in Alarm |-> Off]
  /\ cycle = [a \in Alarm |-> 0]
  /\ ticking = Idle

Set(a, n, c) ==
  /\ ticking = Idle
  /\ left[a] = Off
  /\ left' = [left EXCEPT ![a] = n]
  /\ cycle' = [cycle EXCEPT ![a] = c]
  /\ UNCHANGED ticking

Cancel(a) ==
  /\ ticking = Idle
  /\ left[a] # Off
  /\ left' = [left EXCEPT ![a] = Off]
  /\ UNCHANGED <<cycle, ticking>>

Tick(c) ==
  /\ ticking = Idle
  /\ ticking' = c
  /\ left' = [a \in Alarm |->
                IF CounterOf[a] = c /\ left[a] # Off THEN left[a] - 1 ELSE left[a]]
  /\ UNCHANGED cycle

Expire(a) ==
  /\ ticking = CounterOf[a]
  /\ left[a] = 0
  /\ left' = [left EXCEPT ![a] = IF cycle[a] = 0 THEN Off ELSE cycle[a]]
  /\ UNCHANGED <<cycle, ticking>>

TickDone ==
  /\ ticking # Idle
  /\ \A a \in Alarm : CounterOf[a] = ticking => left[a] # 0
  /\ ticking' = Idle
  /\ UNCHANGED <<left, cycle>>

Next ==
  \/ \E a \in Alarm : (\E n \in Delay, c \in Cycle : Set(a, n, c)) \/ Cancel(a) \/ Expire(a)
  \/ \E c \in Counter : Tick(c)
  \/ TickDone

Spec == Init /\ [][Next]_vars
===============================================================================
