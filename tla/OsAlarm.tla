-------------------------------- MODULE OsAlarm --------------------------------
(***************************************************************************)
(* Counters and alarms of the OSEK kernel (src/src/Os.c): tick counters    *)
(* that wrap, and for each a queue of alarms kept as a binary heap by the  *)
(* tick at which they expire.                                              *)
(*                                                                         *)
(* The array Os_CounterControlType.queue, whose entry 0 is the number of   *)
(* alarms in it, is a sequence.  A service is one step; the loop of        *)
(* Os_AlarmTick is one step per expired alarm.  The task an alarm          *)
(* activates is not part of this module.                                   *)
(***************************************************************************)
EXTENDS Integers, Sequences

CONSTANTS
  AlarmCount,   \* OS_ALARM_COUNT
  CounterCount, \* OS_COUNTER_COUNT
  CounterOf,    \* Os_AlarmConfigs[].counter
  TickRange,    \* the number of values of Os_TickType, 2^16 in the code
  Increment,    \* the values applications pass as increment, 0 included
  Ahead,        \* how far ahead of the counter they set absolute alarms
  Cycle,        \* the values they pass as cycle, for each alarm
  ErrorExt,     \* OS_ERROR_EXT_ENABLE
  Reset         \* TRUE: alarms may be set while queued with an expiry tick of 0

Alarm   == 0 .. AlarmCount - 1
Counter == 0 .. CounterCount - 1
Tick    == 0 .. TickRange - 1
Half    == TickRange \div 2
NONE    == -1

ASSUME AlarmAssumption ==
  /\ AlarmCount \in 1 .. 254
  /\ CounterCount \in 1 .. 254
  /\ CounterOf \in [Alarm -> Counter]
  /\ TickRange \in Nat \ {0} /\ TickRange % 2 = 0
  /\ Increment \subseteq Tick
  /\ Ahead \subseteq Tick
  /\ Cycle \in [Alarm -> SUBSET Tick]
  /\ ErrorExt \in BOOLEAN
  /\ Reset \in BOOLEAN

VARIABLES
  ticks,   \* Os_CounterControls[].ticks
  queue,   \* Os_CounterControls[].queue
  due,     \* Os_AlarmTicks
  cycle,   \* Os_AlarmCycles
  queued,  \* Os_AlarmQueued
  ticking, \* the counter whose Os_AlarmTick is in its loop, or NONE
  status   \* what the last service returned

vars == <<ticks, queue, due, cycle, queued, ticking, status>>

Status == {"E_OK", "E_OS_ID", "E_OS_VALUE", "E_OS_STATE", "E_OS_NOFUNC"}

-------------------------------------------------------------------------------
(* The heap *)

Wrap(n) == n % TickRange

\* Mutant: the values are compared as if they did not wrap.
TickLessThanUnwrapped(lh, rh) == lh <= rh

TickLessThan(lh, rh) == ~(Wrap(rh - lh) > Half)

\* q after alarm a moved along the indexes of path: each entry on it takes the entry
\* of the next one, and the last takes a.
Shifted(q, path, a) ==
  [i \in DOMAIN q |->
     IF i = path[Len(path)] THEN a
     ELSE IF \E n \in DOMAIN path : path[n] = i
     THEN q[path[(CHOOSE n \in DOMAIN path : path[n] = i) + 1]]
     ELSE q[i]]

\* The indexes through which the alarm at index i sinks below earlier children: it
\* takes the first child that is not later, whether or not the other one is earlier.
SinkPath(q, i, d) ==
  LET before(c, a) == c <= Len(q) /\ TickLessThan(d[q[c]], d[a])
      path[j \in 1 .. Len(q)] ==
        IF before(2 * j, q[i]) THEN <<j>> \o path[2 * j]
        ELSE IF before(2 * j + 1, q[i]) THEN <<j>> \o path[2 * j + 1]
        ELSE <<j>>
  IN  path[i]

AlarmHeapify(q, i, d) == Shifted(q, SinkPath(q, i, d), q[i])

\* The indexes through which an alarm due at t rises from i.
RisePath(q, i, t, d) ==
  LET path[j \in 1 .. i] ==
        IF j > 1 /\ TickLessThan(t, d[q[j \div 2]])
        THEN <<j>> \o path[j \div 2] ELSE <<j>>
  IN  path[i]

\* Mutant: the alarm is added behind all others.
AddedLast(q, a, d) == Append(q, a)

AlarmAdd(q, a, d) ==
  LET room == Append(q, a)
  IN  Shifted(room, RisePath(room, Len(room), d[a], d), a)

\* Mutant: the last entry is dropped, whichever was to go.
LastRemoved(q, i, d) == SubSeq(q, 1, Len(q) - 1)

\* The queue without its entry i, which the last entry replaces.
Removed(q, i, d) ==
  LET short == SubSeq(q, 1, Len(q) - 1)
  IN  IF i = Len(q) THEN short
      ELSE AlarmHeapify([short EXCEPT ![i] = q[Len(q)]], i, d)

-------------------------------------------------------------------------------
Init ==
  /\ ticks = [c \in Counter |-> 0]
  /\ queue = [c \in Counter |-> <<>>]
  /\ due = [a \in Alarm |-> 0]
  /\ cycle = [a \in Alarm |-> 0]
  /\ queued = [a \in Alarm |-> FALSE]
  /\ ticking = NONE
  /\ status = "E_OK"

Calling == ticking = NONE

Returns(s) ==
  /\ status' = s
  /\ UNCHANGED <<ticks, queue, due, cycle, queued, ticking>>

\* Both Set services: alarm a expires at tick t, then every n ticks.
Started(a, t, n) ==
  LET c == CounterOf[a]
  IN  /\ cycle' = [cycle EXCEPT ![a] = n]
      /\ due' = [due EXCEPT ![a] = t]
      /\ queue' = [queue EXCEPT ![c] = AlarmAdd(@, a, due')]
      /\ queued' = [queued EXCEPT ![a] = TRUE]
      /\ status' = "E_OK"
      /\ UNCHANGED <<ticks, ticking>>

\* With Reset FALSE the application does not rely on E_OS_STATE in the one case the
\* check of the expiry tick misses.
MaySet(a) == Reset \/ ~(queued[a] /\ due[a] = 0)

SetRelAlarm(a, increment, n) ==
  /\ Calling
  /\ IF a \notin Alarm THEN ErrorExt /\ Returns("E_OS_ID")
     ELSE IF increment = 0 THEN Returns("E_OS_VALUE")
     ELSE IF due[a] # 0 THEN Returns("E_OS_STATE")
     ELSE MaySet(a) /\ Started(a, Wrap(ticks[CounterOf[a]] + increment), n)

SetAbsAlarm(a, start, n) ==
  /\ Calling
  /\ IF a \notin Alarm THEN ErrorExt /\ Returns("E_OS_ID")
     ELSE IF due[a] # 0 THEN Returns("E_OS_STATE")
     ELSE MaySet(a) /\ Started(a, start, n)

Index(a) == CHOOSE i \in DOMAIN queue[CounterOf[a]] : queue[CounterOf[a]][i] = a

CancelAlarm(a) ==
  /\ Calling
  /\ IF a \notin Alarm THEN ErrorExt /\ Returns("E_OS_ID")
     ELSE IF ~queued[a] THEN Returns("E_OS_NOFUNC")
     ELSE /\ queue' = [queue EXCEPT ![CounterOf[a]] = Removed(@, Index(a), due)]
          /\ queued' = [queued EXCEPT ![a] = FALSE]
          /\ status' = "E_OK"
          /\ UNCHANGED <<ticks, due, cycle, ticking>>

\* What Os_GetAlarm stores for a queued alarm.
Remaining(a) == Wrap(due[a] - ticks[CounterOf[a]])

GetAlarm(a) ==
  /\ Calling
  /\ IF a \notin Alarm THEN ErrorExt /\ Returns("E_OS_ID")
     ELSE Returns(IF queued[a] THEN "E_OK" ELSE "E_OS_NOFUNC")

-------------------------------------------------------------------------------
(* Os_IncrementCounter_Internal, called by Os_Isr and by tasks *)

IncrementCounter(c) ==
  /\ Calling
  /\ IF c \notin Counter THEN ErrorExt /\ Returns("E_OS_VALUE")
     ELSE /\ ticks' = [ticks EXCEPT ![c] = Wrap(@ + 1)]
          /\ ticking' = c
          /\ UNCHANGED <<queue, due, cycle, queued, status>>

Expired(c) ==
  /\ queue[c] # <<>>
  /\ TickLessThan(due[Head(queue[c])], ticks[CounterOf[Head(queue[c])]])

\* Mutant: a cyclic alarm is queued again for the tick that served it.
NextDueUnchanged(a) == due[a]

NextDue(a) == Wrap(due[a] + cycle[a])

\* One iteration: the alarm is popped, its task activated, and it is added again if cyclic.
AlarmTick ==
  /\ ticking # NONE
  /\ Expired(ticking)
  /\ LET a    == Head(queue[ticking])
         rest == Removed(queue[ticking], 1, due)
     IN  IF cycle[a] = 0
         THEN /\ queue' = [queue EXCEPT ![ticking] = rest]
              /\ queued' = [queued EXCEPT ![a] = FALSE]
              /\ UNCHANGED due
         ELSE /\ due' = [due EXCEPT ![a] = NextDue(a)]
              /\ queue' = [queue EXCEPT ![ticking] = AlarmAdd(rest, a, due')]
              /\ queued' = [queued EXCEPT ![a] = TRUE]
  /\ UNCHANGED <<ticks, cycle, ticking, status>>

\* Mutant: the loop ends after any iteration.
TickDoneEarly ==
  /\ ticking # NONE
  /\ ticking' = NONE
  /\ status' = "E_OK"
  /\ UNCHANGED <<ticks, queue, due, cycle, queued>>

TickDone ==
  /\ ticking # NONE
  /\ ~Expired(ticking)
  /\ ticking' = NONE
  /\ status' = "E_OK"
  /\ UNCHANGED <<ticks, queue, due, cycle, queued>>

-------------------------------------------------------------------------------
Next ==
  \/ \E a \in Alarm : \E n \in Cycle[a] :
       \/ \E increment \in Increment : SetRelAlarm(a, increment, n)
       \/ \E ahead \in Ahead : SetAbsAlarm(a, Wrap(ticks[CounterOf[a]] + ahead), n)
  \/ SetRelAlarm(AlarmCount, 1, 0) \/ SetAbsAlarm(AlarmCount, 1, 0)
  \/ \E a \in 0 .. AlarmCount : CancelAlarm(a) \/ GetAlarm(a)
  \/ \E c \in 0 .. CounterCount : IncrementCounter(c)
  \/ AlarmTick
  \/ TickDone

Spec == Init /\ [][Next]_vars

\* The loop of Os_AlarmTick runs without waiting for anything.
FairSpec == Spec /\ WF_vars(AlarmTick) /\ WF_vars(TickDone)

-------------------------------------------------------------------------------
(* Properties *)

\* The flag of an alarm and the queue agree: a queued alarm is in the queue of its
\* counter exactly once, any other one in none (a queue with a duplicate outgrows its
\* array).
QueueMatchesFlags ==
  \A c \in Counter :
    /\ \A i, j \in DOMAIN queue[c] : queue[c][i] = queue[c][j] => i = j
    /\ \A a \in Alarm :
         (queued[a] /\ CounterOf[a] = c) <=> \E i \in DOMAIN queue[c] : queue[c][i] = a

\* No alarm is late: when a tick is over, no queued alarm is due (Os_AlarmTick looks
\* only at the first entry of the heap).
AlarmsOnTime ==
  ticking = NONE =>
    \A a \in Alarm : queued[a] => ~TickLessThan(due[a], ticks[CounterOf[a]])

\* The alarms keep the promise of OsAlarmSpec: each expires exactly at its tick, and at
\* each of its cycles, whatever the others do and however often the counter wraps.
Promise == INSTANCE OsAlarmSpec WITH
  left    <- [a \in Alarm |-> IF queued[a] THEN Remaining(a) ELSE NONE],
  Delay   <- (Increment \cup Ahead) \ {0},
  Cycle   <- UNION {Cycle[a] : a \in Alarm}

KeepsPromise == Promise!Spec

\* The loop over the expired alarms ends, at every tick.
TickEnds == \A c \in Counter : ticking = c ~> ticking = NONE

\* An alarm that is not in use can be set: E_OS_STATE means "Alarm <AlarmID> is already
\* in use".
FreeAlarmCanBeSet ==
  [][\A a \in Alarm, increment \in Increment : \A n \in Cycle[a] :
       SetRelAlarm(a, increment, n) /\ status' = "E_OS_STATE" => queued[a]]_vars
===============================================================================
