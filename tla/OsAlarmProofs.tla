----------------------------- MODULE OsAlarmProofs -----------------------------
(***************************************************************************)
(* Proofs about OsAlarm, for every table of alarms and every width of the  *)
(* ticks.                                                                  *)
(***************************************************************************)
EXTENDS OsAlarm, OsLists, WellFoundedInduction

-------------------------------------------------------------------------------
(* Ticks *)

\* The range of the ticks has a middle.
LEMMA Halves == TickRange \in Nat /\ Half \in Nat /\ TickRange = 2 * Half /\ Half >= 1
BY AlarmAssumption DEF Half

\* A wrapped value is a tick.
LEMMA WrapIsTick == \A n \in Int : Wrap(n) \in Tick
BY Halves DEF Wrap, Tick

\* Wrapping, as long as the value is at most one range away.
LEMMA WrapValues ==
  ASSUME NEW n \in Int, -TickRange <= n, n < 2 * TickRange
  PROVE  Wrap(n) = IF n < 0 THEN n + TickRange
                   ELSE IF n >= TickRange THEN n - TickRange ELSE n
BY Halves DEF Wrap

\* The relation that the theorems on wrapped values speak of: how far ahead a tick is.
Lead(d, t) == Wrap(d - t)

LEMMA LeadValue ==
  ASSUME NEW d \in Tick, NEW t \in Tick
  PROVE  /\ Lead(d, t) = IF d < t THEN d - t + TickRange ELSE d - t
         /\ Lead(d, t) \in Tick
<1>1. d - t \in Int /\ -TickRange <= d - t /\ d - t < TickRange
  BY Halves DEF Tick
<1> QED
  BY <1>1, WrapValues, Halves DEF Lead, Tick

\* Among ticks less than half the range ahead of t, Os_TickLessThan is the order of
\* their leads: it includes equality.
LEMMA TickOrder ==
  ASSUME NEW t \in Tick, NEW x \in Tick, NEW y \in Tick,
         Lead(x, t) < Half, Lead(y, t) < Half
  PROVE  TickLessThan(x, y) <=> Lead(x, t) <= Lead(y, t)
<1>1. Wrap(y - x) = IF y < x THEN y - x + TickRange ELSE y - x
  BY LeadValue DEF Lead
<1>2. /\ Lead(x, t) = IF x < t THEN x - t + TickRange ELSE x - t
      /\ Lead(y, t) = IF y < t THEN y - t + TickRange ELSE y - t
  BY LeadValue
<1> QED
  BY <1>1, <1>2, Halves DEF TickLessThan, Tick

\* So such a tick is served at t exactly when it is t.
LEMMA TickReached ==
  ASSUME NEW t \in Tick, NEW x \in Tick, Lead(x, t) < Half
  PROVE  TickLessThan(x, t) <=> Lead(x, t) = 0
<1>1. Lead(t, t) = 0
  BY LeadValue DEF Tick
<1>2. Lead(x, t) \in Nat
  BY LeadValue, Halves DEF Tick
<1> QED
  BY <1>1, <1>2, TickOrder, Halves

\* A tick of the counter brings every tick that was still ahead one closer.
LEMMA LeadShrinks ==
  ASSUME NEW t \in Tick, NEW x \in Tick, Lead(x, t) > 0
  PROVE  Wrap(t + 1) \in Tick /\ Lead(x, Wrap(t + 1)) = Lead(x, t) - 1
<1>1. Wrap(t + 1) = IF t + 1 >= TickRange THEN t + 1 - TickRange ELSE t + 1
  BY WrapValues, Halves DEF Tick
<1>2. Wrap(t + 1) \in Tick
  BY <1>1, Halves DEF Tick
<1>3. Lead(x, Wrap(t + 1)) = IF x < Wrap(t + 1) THEN x - Wrap(t + 1) + TickRange
                             ELSE x - Wrap(t + 1)
  BY <1>2, LeadValue
<1>4. Lead(x, t) = IF x < t THEN x - t + TickRange ELSE x - t
  BY LeadValue
<1> QED
  BY <1>1, <1>2, <1>3, <1>4, Halves DEF Tick

\* A tick set n ahead of another one is n ahead of it.
LEMMA LeadOfSum ==
  ASSUME NEW t \in Tick, NEW n \in Tick
  PROVE  Wrap(t + n) \in Tick /\ Lead(Wrap(t + n), t) = n
<1>1. Wrap(t + n) = IF t + n >= TickRange THEN t + n - TickRange ELSE t + n
  BY WrapValues, Halves DEF Tick
<1>2. Wrap(t + n) \in Tick
  BY <1>1, Halves DEF Tick
<1>3. Lead(Wrap(t + n), t) = IF Wrap(t + n) < t THEN Wrap(t + n) - t + TickRange
                             ELSE Wrap(t + n) - t
  BY <1>2, LeadValue
<1> QED
  BY <1>1, <1>2, <1>3, Halves DEF Tick

-------------------------------------------------------------------------------
(***************************************************************************)
(* The paths through the heap.  The loops of Os_AlarmAdd and               *)
(* Os_AlarmHeapify are recursive functions in OsAlarm: each has a value    *)
(* for every heap, and it is a path without repetition from the entry the  *)
(* loop begins at.                                                         *)
(***************************************************************************)

\* A set of naturals has a least one.
LEMMA LeastNatural ==
  ASSUME NEW T \in SUBSET Nat, T # {}
  PROVE  \E n \in T : \A m \in T : n <= m
<1> DEFINE R == OpToRel(<, Nat)
<1>1. IsWellFoundedOn(R, Nat)
  BY NatLessThanWellFounded, Zenon
<1>2. \A m, n \in Nat : m < n => <<m, n>> \in R
  BY DEF OpToRel
<1> HIDE DEF R
<1>3. PICK n \in T : \A m \in T : ~(<<m, n>> \in R)
  BY <1>1, WFMin
<1>4. \A m \in T : m \in Nat /\ n \in Nat /\ ~(m < n)
  BY <1>2, <1>3
<1> QED
  BY <1>4

\* The body of the loop of Os_AlarmAdd at index j, f being the paths of the others.
RiseStep(q, t, d, f, j) ==
  IF j > 1 /\ TickLessThan(t, d[q[j \div 2]]) THEN <<j>> \o f[j \div 2] ELSE <<j>>

Rises(n, q, t, d, f) == f = [j \in 1 .. n |-> RiseStep(q, t, d, f, j)]

LEMMA RiseExists ==
  ASSUME NEW q, NEW t, NEW d
  PROVE  \A n \in Nat : \E f : Rises(n, q, t, d, f)
<1> DEFINE T == {n \in Nat : ~ \E f : Rises(n, q, t, d, f)}
<1> SUFFICES ASSUME T # {} PROVE FALSE
  OBVIOUS
<1>1. PICK n \in T : \A m \in T : n <= m
  <2>1. T \in SUBSET Nat
    OBVIOUS
  <2> HIDE DEF T
  <2> QED
    BY <2>1, LeastNatural
<1>2. n \in Nat /\ ~ \E f : Rises(n, q, t, d, f)
  OBVIOUS
<1>3. CASE n = 0
  <2> DEFINE f == [j \in 1 .. 0 |-> 0]
  <2>1. f = [j \in 1 .. 0 |-> RiseStep(q, t, d, f, j)]
    <3>1. 1 .. 0 = {}
      OBVIOUS
    <3> QED
      BY <3>1
  <2> QED
    BY <1>2, <1>3, <2>1 DEF Rises
<1>4. CASE n # 0
  <2>1. n - 1 \in Nat /\ n - 1 \notin T
    BY <1>1, <1>2, <1>4
  <2>2. PICK g : Rises(n - 1, q, t, d, g)
    BY <2>1
  <2> DEFINE f == [j \in 1 .. n |-> RiseStep(q, t, d, g, j)]
  <2>3. \A j \in 1 .. n - 1 : f[j] = g[j]
    BY <1>2, <2>2 DEF Rises
  <2>4. \A j \in 1 .. n : j > 1 => j \div 2 \in 1 .. n - 1
    BY <1>2
  <2> HIDE DEF f, T
  <2>5. \A j \in 1 .. n : RiseStep(q, t, d, f, j) = RiseStep(q, t, d, g, j)
    BY <2>3, <2>4 DEF RiseStep
  <2>6. f = [j \in 1 .. n |-> RiseStep(q, t, d, f, j)]
    BY <2>5 DEF f
  <2> QED
    BY <1>2, <2>6 DEF Rises
<1> QED
  BY <1>3, <1>4

\* The body of the loop of Os_AlarmHeapify, which sinks alarm a through q.
SinkStep(q, a, d, f, j) ==
  IF 2 * j <= Len(q) /\ TickLessThan(d[q[2 * j]], d[a]) THEN <<j>> \o f[2 * j]
  ELSE IF 2 * j + 1 <= Len(q) /\ TickLessThan(d[q[2 * j + 1]], d[a])
  THEN <<j>> \o f[2 * j + 1]
  ELSE <<j>>

Sinks(m, q, a, d, f) == f = [j \in m .. Len(q) |-> SinkStep(q, a, d, f, j)]

LEMMA SinkExists ==
  ASSUME NEW q, Len(q) \in Nat, NEW a, NEW d
  PROVE  \E f : Sinks(1, q, a, d, f)
<1> DEFINE N == Len(q)
           T == {n \in Nat : n <= N /\ ~ \E f : Sinks(N + 1 - n, q, a, d, f)}
<1> SUFFICES ASSUME T # {} PROVE FALSE
  BY SMT
<1>1. PICK n \in T : \A m \in T : n <= m
  <2>1. T \in SUBSET Nat
    OBVIOUS
  <2> HIDE DEF T
  <2> QED
    BY <2>1, LeastNatural
<1>2. n \in Nat /\ n <= N /\ ~ \E f : Sinks(N + 1 - n, q, a, d, f)
  OBVIOUS
<1>3. CASE n = 0
  <2> DEFINE f == [j \in N + 1 .. N |-> 0]
  <2>1. f = [j \in N + 1 .. N |-> SinkStep(q, a, d, f, j)]
    <3>1. N + 1 .. N = {}
      OBVIOUS
    <3> QED
      BY <3>1
  <2>2. N + 1 - n = N + 1
    BY <1>3
  <2> QED
    BY <1>2, <2>1, <2>2 DEF Sinks
<1>4. CASE n # 0
  <2> DEFINE m == N + 1 - n
  <2>1. n - 1 \in Nat /\ n - 1 \notin T /\ n - 1 <= N /\ N + 1 - (n - 1) = m + 1
    BY <1>1, <1>2, <1>4
  <2>2. PICK g : Sinks(m + 1, q, a, d, g)
    BY <2>1
  <2>m. m \in Nat /\ m >= 1
    BY <1>2
  <2> HIDE DEF m
  <2> DEFINE f == [j \in m .. N |-> SinkStep(q, a, d, g, j)]
  <2>3. \A j \in m + 1 .. N : f[j] = g[j]
    BY <2>2, <2>m DEF Sinks
  <2>4. \A j \in m .. N : /\ 2 * j <= N => 2 * j \in m + 1 .. N
                          /\ 2 * j + 1 <= N => 2 * j + 1 \in m + 1 .. N
    BY <2>m
  <2> HIDE DEF f, T
  <2>5. \A j \in m .. N : SinkStep(q, a, d, f, j) = SinkStep(q, a, d, g, j)
    BY <2>3, <2>4 DEF SinkStep
  <2>6. f = [j \in m .. N |-> SinkStep(q, a, d, f, j)]
    BY <2>5 DEF f
  <2> QED
    BY <1>2, <2>6 DEF Sinks, m
<1> QED
  BY <1>3, <1>4

\* The two operators of OsAlarm are values of these functions.
LEMMA RiseUnfolds ==
  ASSUME NEW q, NEW i \in Nat, NEW t, NEW d
  PROVE  \E f : Rises(i, q, t, d, f) /\ RisePath(q, i, t, d) = f[i]
<1> DEFINE f == CHOOSE g : Rises(i, q, t, d, g)
<1>1. Rises(i, q, t, d, f)
  BY RiseExists, Zenon
<1>2. RisePath(q, i, t, d) = f[i]
  BY DEF RisePath, Rises, RiseStep
<1> QED
  BY <1>1, <1>2

LEMMA SinkUnfolds ==
  ASSUME NEW q, Len(q) \in Nat, NEW i, NEW d
  PROVE  \E f : Sinks(1, q, q[i], d, f) /\ SinkPath(q, i, d) = f[i]
<1> DEFINE f == CHOOSE g : Sinks(1, q, q[i], d, g)
<1>1. Sinks(1, q, q[i], d, f)
  BY SinkExists, Zenon
<1>2. SinkPath(q, i, d) = f[i]
  BY DEF SinkPath, Sinks, SinkStep
<1> QED
  BY <1>1, <1>2

\* A path through the indexes of S that begins at j and comes back nowhere.
IsPath(p, j, S) == p \in Seq(S) /\ p # <<>> /\ p[1] = j /\ Distinct(p)

LEMMA PathExtends ==
  ASSUME NEW S, NEW j \in S, NEW T, T \subseteq S, j \notin T, NEW p, NEW i, IsPath(p, i, T)
  PROVE  IsPath(<<j>> \o p, j, S)
<1>1. p \in Seq(S) /\ Members(p) \subseteq T
  BY SeqMonotonic, MembersOf DEF IsPath
<1>2. Distinct(p) /\ j \notin Members(p)
  BY <1>1 DEF IsPath
<1> QED
  BY <1>1, <1>2, PushFront DEF IsPath

LEMMA PathEnds ==
  ASSUME NEW S, NEW j \in S
  PROVE  IsPath(<<j>>, j, S)
BY DEF IsPath, Distinct

LEMMA RiseIsPath ==
  ASSUME NEW q, NEW n \in Nat, NEW t, NEW d, NEW f, Rises(n, q, t, d, f)
  PROVE  \A j \in 1 .. n : IsPath(f[j], j, 1 .. j)
<1> DEFINE T == {j \in 1 .. n : ~IsPath(f[j], j, 1 .. j)}
<1> SUFFICES ASSUME T # {} PROVE FALSE
  OBVIOUS
<1>1. PICK j \in T : \A m \in T : j <= m
  <2>1. T \in SUBSET Nat
    OBVIOUS
  <2> HIDE DEF T
  <2> QED
    BY <2>1, LeastNatural
<1>2. j \in 1 .. n /\ j \in 1 .. j /\ f[j] = RiseStep(q, t, d, f, j)
  BY DEF Rises
<1>3. CASE f[j] = <<j>>
  BY <1>2, <1>3, PathEnds
<1>4. CASE j > 1 /\ f[j] = <<j>> \o f[j \div 2]
  <2> DEFINE i == j \div 2
  <2>1. i \in 1 .. n /\ i < j
    BY <1>2, <1>4
  <2>2. IsPath(f[i], i, 1 .. i)
    BY <1>1, <1>2, <2>1
  <2>3. 1 .. i \subseteq 1 .. j /\ j \notin 1 .. i
    BY <1>2, <2>1
  <2> HIDE DEF i, T
  <2>4. IsPath(<<j>> \o f[i], j, 1 .. j)
    BY <1>2, <2>2, <2>3, PathExtends
  <2> QED
    BY <1>1, <1>4, <2>4 DEF i, T
<1> QED
  BY <1>2, <1>3, <1>4 DEF RiseStep

LEMMA SinkIsPath ==
  ASSUME NEW q, Len(q) \in Nat, NEW a, NEW d, NEW f, Sinks(1, q, a, d, f)
  PROVE  \A j \in 1 .. Len(q) : IsPath(f[j], j, j .. Len(q))
<1> DEFINE N == Len(q)
           T == {n \in 0 .. N - 1 : ~IsPath(f[N - n], N - n, N - n .. N)}
<1> SUFFICES ASSUME T # {} PROVE FALSE
  <2>1. \A j \in 1 .. N : N - j \in 0 .. N - 1 /\ N - (N - j) = j
    OBVIOUS
  <2>2. \A j \in 1 .. N : N - j \notin T => IsPath(f[j], j, j .. N)
    BY <2>1
  <2> HIDE DEF T
  <2> QED
    BY <2>2
<1>1. PICK n \in T : \A m \in T : n <= m
  <2>1. T \in SUBSET Nat
    OBVIOUS
  <2> HIDE DEF T
  <2> QED
    BY <2>1, LeastNatural
<1> DEFINE j == N - n
<1>2. n \in 0 .. N - 1 /\ ~IsPath(f[j], j, j .. N)
  OBVIOUS
<1>3. j \in 1 .. N /\ j \in j .. N /\ f[j] = SinkStep(q, a, d, f, j)
  BY <1>2 DEF Sinks
<1>4. ASSUME NEW i \in j + 1 .. N PROVE IsPath(f[i], i, i .. N)
  <2>1. N - i \in 0 .. N - 1 /\ N - i < n /\ N - (N - i) = i
    BY <1>2, <1>3
  <2>2. N - i \notin T
    <3>1. n \in Int /\ ~(n <= N - i)
      BY <1>2, <2>1
    <3> HIDE DEF T
    <3> QED
      BY <1>1, <3>1
  <2> QED
    BY <2>1, <2>2
<1> HIDE DEF T, j
<1>5. CASE f[j] = <<j>>
  BY <1>2, <1>3, <1>5, PathEnds
<1>6. ASSUME NEW i \in j + 1 .. N, f[j] = <<j>> \o f[i] PROVE FALSE
  <2>1. i .. N \subseteq j .. N /\ j \notin i .. N
    BY <1>3
  <2>2. IsPath(<<j>> \o f[i], j, j .. N)
    BY <1>3, <1>4, <2>1, PathExtends
  <2> QED
    BY <1>2, <1>6, <2>2
<1>7. /\ 2 * j <= N => 2 * j \in j + 1 .. N
      /\ 2 * j + 1 <= N => 2 * j + 1 \in j + 1 .. N
  BY <1>3
<1> QED
  BY <1>3, <1>5, <1>6, <1>7 DEF SinkStep

-------------------------------------------------------------------------------
(* What an addition and a removal do to the members of a heap *)

\* The entries after a shift: each index of the path has the entry of the next one.
Entries(q, p, e, r) ==
  /\ \A n \in 1 .. Len(p) : r[p[n]] = IF n = Len(p) THEN e ELSE q[p[n + 1]]
  /\ \A i \in 1 .. Len(q) : (\A n \in 1 .. Len(p) : p[n] # i) => r[i] = q[i]

LEMMA ShiftedEntries ==
  ASSUME NEW S, NEW q \in Seq(S), NEW p, NEW b, IsPath(p, b, 1 .. Len(q)),
         NEW e \in S, NEW r, r = Shifted(q, p, e)
  PROVE  r \in Seq(S) /\ Len(r) = Len(q) /\ Entries(q, p, e, r)
<1> DEFINE N == Len(q)
           L == Len(p)
           P == 1 .. L
           entry(i) == IF i = p[L] THEN e
                       ELSE IF \E n \in P : p[n] = i
                       THEN q[p[(CHOOSE n \in P : p[n] = i) + 1]] ELSE q[i]
<1>1. /\ N \in Nat /\ DOMAIN q = 1 .. N /\ \A i \in 1 .. N : q[i] \in S
      /\ L \in Nat /\ L >= 1 /\ DOMAIN p = P
      /\ \A n \in P : p[n] \in 1 .. N
  <2>1. p \in Seq(1 .. N) /\ p # <<>>
    BY DEF IsPath
  <2> QED
    BY <2>1, LenProperties, EmptySeq, ElementOfSeq
<1>2. \A n, m \in P : p[n] = p[m] => n = m
  BY DEF IsPath, Distinct
<1>3. r = [i \in 1 .. N |-> entry(i)]
  BY <1>1 DEF Shifted
<1> HIDE DEF N, L
<1>4. ASSUME NEW n \in P PROVE entry(p[n]) = IF n = L THEN e ELSE q[p[n + 1]]
  <2>1. CASE n = L
    BY <2>1
  <2>2. CASE n # L
    <3>1. p[n] # p[L]
      BY <1>1, <1>2, <2>2
    <3>2. (CHOOSE m \in P : p[m] = p[n]) = n
      BY <1>2
    <3>3. entry(p[n]) = q[p[(CHOOSE m \in P : p[m] = p[n]) + 1]]
      BY <3>1
    <3> QED
      BY <2>2, <3>2, <3>3, Zenon
  <2> QED
    BY <2>1, <2>2
<1>5. ASSUME NEW i \in 1 .. N, \A n \in P : p[n] # i PROVE entry(i) = q[i]
  BY <1>1, <1>5
<1>6. \A i \in 1 .. N : entry(i) \in S
  <2> SUFFICES ASSUME NEW i \in 1 .. N PROVE entry(i) \in S
    OBVIOUS
  <2>1. CASE \A n \in P : p[n] # i
    BY <1>1, <1>5, <2>1
  <2>2. ASSUME NEW n \in P, p[n] = i PROVE entry(i) \in S
    <3> HIDE DEF entry
    <3>1. n # L => n + 1 \in P
      BY <1>1
    <3> QED
      BY <1>1, <1>4, <2>2, <3>1
  <2> QED
    BY <2>1, <2>2
<1> HIDE DEF entry
<1>7. r \in Seq(S) /\ Len(r) = N /\ \A i \in 1 .. N : r[i] = entry(i)
  <2>1. r \in [1 .. N -> S]
    BY <1>3, <1>6
  <2> QED
    BY <1>1, <1>3, <2>1
<1> QED
  BY <1>1, <1>4, <1>5, <1>7 DEF N, L, Entries

\* Moving the entries along a path permutes the heap, when the one that is put at the
\* end of the path is the one that was at its beginning.
LEMMA ShiftedPermutes ==
  ASSUME NEW S, NEW q \in Seq(S), NEW p, NEW b, IsPath(p, b, 1 .. Len(q)),
         NEW r, r = Shifted(q, p, q[b])
  PROVE  /\ r \in Seq(S) /\ Len(r) = Len(q)
         /\ Members(r) = Members(q)
         /\ Distinct(q) => Distinct(r)
<1> DEFINE N == Len(q)
           L == Len(p)
           P == 1 .. L
           On(i) == \E n \in P : p[n] = i
           next(n) == IF n = L THEN 1 ELSE n + 1
<1>1. /\ L \in Nat /\ L >= 1 /\ \A n \in P : p[n] \in 1 .. N
      /\ b \in 1 .. N /\ q[b] \in S /\ p[1] = b
  <2>1. p \in Seq(1 .. N) /\ p # <<>> /\ p[1] = b
    BY DEF IsPath
  <2>2. L \in Nat /\ L >= 1 /\ \A n \in P : p[n] \in 1 .. N
    BY <2>1, LenProperties, EmptySeq, ElementOfSeq
  <2>3. b \in 1 .. N
    BY <2>1, <2>2
  <2> QED
    BY <2>1, <2>2, <2>3, ElementOfSeq
<1>2. \A n, m \in P : p[n] = p[m] => n = m
  BY DEF IsPath, Distinct
<1>3. /\ r \in Seq(S) /\ Len(r) = N
      /\ \A n \in P : r[p[n]] = IF n = L THEN q[b] ELSE q[p[n + 1]]
      /\ \A i \in 1 .. N : ~On(i) => r[i] = q[i]
  <2> DEFINE e == q[b]
  <2>2. e \in S /\ r = Shifted(q, p, e)
    BY <1>1
  <2> HIDE DEF e
  <2>1. r \in Seq(S) /\ Len(r) = N /\ Entries(q, p, e, r)
    BY <2>2, ShiftedEntries
  <2> QED
    BY <2>1 DEF Entries, e
<1>4. /\ Members(q) = {q[i] : i \in 1 .. N} /\ Members(r) = {r[i] : i \in 1 .. N}
      /\ Distinct(q) <=> \A i, j \in 1 .. N : q[i] = q[j] => i = j
      /\ Distinct(r) <=> \A i, j \in 1 .. N : r[i] = r[j] => i = j
  BY <1>3 DEF Members, Distinct
<1> HIDE DEF N, L
<1>5. \A n \in P : next(n) \in P /\ r[p[n]] = q[p[next(n)]]
  BY <1>1, <1>3
<1>6. \A n, m \in P : next(n) = next(m) => n = m
  BY <1>1
<1>7. \A m \in P : \E n \in P : next(n) = m
  <2> SUFFICES ASSUME NEW m \in P PROVE \E n \in P : next(n) = m
    OBVIOUS
  <2>1. CASE m = 1
    <3>1. L \in P /\ next(L) = m
      BY <1>1, <2>1
    <3> QED
      BY <3>1
  <2>2. CASE m # 1
    <3>1. m - 1 \in P /\ next(m - 1) = m
      BY <1>1, <2>2
    <3> QED
      BY <3>1
  <2> QED
    BY <2>1, <2>2
<1> HIDE DEF next
<1>8. Members(r) = Members(q)
  <2>1. ASSUME NEW i \in 1 .. N PROVE r[i] \in Members(q)
    <3>1. CASE ~On(i)
      BY <1>3, <1>4, <3>1
    <3>2. ASSUME NEW n \in P, p[n] = i PROVE r[i] \in Members(q)
      <4>1. r[i] = q[p[next(n)]] /\ p[next(n)] \in 1 .. N
        BY <1>1, <1>5, <3>2
      <4> QED
        BY <1>4, <4>1
    <3> QED
      BY <3>1, <3>2
  <2>2. ASSUME NEW i \in 1 .. N PROVE q[i] \in Members(r)
    <3>1. CASE ~On(i)
      BY <1>3, <1>4, <3>1
    <3>2. ASSUME NEW m \in P, p[m] = i PROVE q[i] \in Members(r)
      <4>1. PICK n \in P : next(n) = m
        BY <1>7
      <4>2. p[n] \in 1 .. N /\ r[p[n]] = q[i]
        BY <1>1, <1>5, <3>2, <4>1
      <4> QED
        BY <1>4, <4>2
    <3> QED
      BY <3>1, <3>2
  <2> QED
    BY <1>4, <2>1, <2>2
<1>9. ASSUME Distinct(q) PROVE Distinct(r)
  <2> SUFFICES ASSUME NEW i \in 1 .. N, NEW j \in 1 .. N, r[i] = r[j] PROVE i = j
    BY <1>4
  <2>1. CASE ~On(i) /\ ~On(j)
    BY <1>3, <1>4, <1>9, <2>1
  <2>2. ASSUME NEW n \in P, p[n] = i, NEW m \in P, p[m] = j PROVE i = j
    <3>1. p[next(n)] = p[next(m)]
      <4>1. /\ q[p[next(n)]] = q[p[next(m)]]
            /\ p[next(n)] \in 1 .. N /\ p[next(m)] \in 1 .. N
        BY <1>1, <1>5, <2>2
      <4> QED
        BY <1>4, <1>9, <4>1
    <3> QED
      BY <1>2, <1>5, <1>6, <2>2, <3>1
  <2>3. ASSUME NEW k \in 1 .. N, NEW l \in 1 .. N, r[k] = r[l],
               NEW n \in P, p[n] = k, ~On(l)
        PROVE  FALSE
    <3>1. p[next(n)] = l
      <4>1. q[p[next(n)]] = q[l] /\ p[next(n)] \in 1 .. N
        BY <1>1, <1>3, <1>5, <2>3
      <4> QED
        BY <1>4, <1>9, <4>1
    <3> QED
      BY <1>5, <2>3, <3>1
  <2> QED
    BY <2>1, <2>2, <2>3
<1> QED
  BY <1>3, <1>8, <1>9 DEF N

\* Os_AlarmAdd adds its alarm.
LEMMA AddMembers ==
  ASSUME NEW S, NEW q \in Seq(S), NEW a \in S, NEW d, NEW r, r = AlarmAdd(q, a, d)
  PROVE  /\ r \in Seq(S) /\ Len(r) = Len(q) + 1
         /\ Members(r) = Members(q) \cup {a}
         /\ Distinct(q) /\ a \notin Members(q) => Distinct(r)
<1> DEFINE room == Append(q, a)
           n == Len(room)
           p == RisePath(room, n, d[a], d)
<1>1. /\ room \in Seq(S) /\ n = Len(q) + 1 /\ n \in Nat /\ n >= 1 /\ room[n] = a
      /\ Members(room) = Members(q) \cup {a}
      /\ Distinct(q) /\ a \notin Members(q) => Distinct(room)
  <2>1. Len(q) \in Nat
    BY LenProperties
  <2> QED
    BY <2>1, AppendProperties, PushBack
<1>2. r = Shifted(room, p, a)
  BY DEF AlarmAdd
<1> HIDE DEF room
<1>3. IsPath(p, n, 1 .. n)
  <2>1. PICK f : Rises(n, room, d[a], d, f) /\ p = f[n]
    BY <1>1, RiseUnfolds
  <2>2. n \in 1 .. n
    BY <1>1
  <2> HIDE DEF n, p
  <2>3. \A j \in 1 .. n : IsPath(f[j], j, 1 .. j)
    BY <1>1, <2>1, RiseIsPath
  <2> QED
    BY <2>1, <2>2, <2>3
<1> HIDE DEF p
<1> QED
  BY <1>1, <1>2, <1>3, ShiftedPermutes

\* The sinking of Os_AlarmHeapify keeps the members.
LEMMA HeapifyMembers ==
  ASSUME NEW S, NEW q \in Seq(S), NEW i \in 1 .. Len(q), NEW d,
         NEW r, r = AlarmHeapify(q, i, d)
  PROVE  /\ r \in Seq(S) /\ Len(r) = Len(q)
         /\ Members(r) = Members(q)
         /\ Distinct(q) => Distinct(r)
<1> DEFINE p == SinkPath(q, i, d)
<1>1. Len(q) \in Nat
  BY LenProperties
<1>2. r = Shifted(q, p, q[i])
  BY DEF AlarmHeapify
<1>3. IsPath(p, i, 1 .. Len(q))
  <2>1. PICK f : Sinks(1, q, q[i], d, f) /\ p = f[i]
    BY <1>1, SinkUnfolds
  <2>2. IsPath(p, i, i .. Len(q))
    BY <1>1, <2>1, SinkIsPath
  <2>3. i .. Len(q) \subseteq 1 .. Len(q)
    BY <1>1
  <2> HIDE DEF p
  <2> QED
    BY <2>2, <2>3, SeqMonotonic DEF IsPath
<1> HIDE DEF p
<1> QED
  BY <1>2, <1>3, ShiftedPermutes

\* The heap without its entry i, before the entry that took its place sinks.
Closed(q, i) ==
  LET short == SubSeq(q, 1, Len(q) - 1)
  IN  IF i = Len(q) THEN short ELSE [short EXCEPT ![i] = q[Len(q)]]

LEMMA ClosedEntries ==
  ASSUME NEW S, NEW q \in Seq(S), NEW i \in 1 .. Len(q), NEW r, r = Closed(q, i)
  PROVE  /\ r \in Seq(S) /\ Len(r) = Len(q) - 1
         /\ \A j \in 1 .. Len(q) - 1 : r[j] = IF j = i THEN q[Len(q)] ELSE q[j]
<1> DEFINE n == Len(q)
           short == SubSeq(q, 1, n - 1)
<1>1. n \in Nat /\ n >= 1 /\ n \in 1 .. n /\ \A j \in 1 .. n : q[j] \in S
  <2>1. n \in Nat
    BY LenProperties
  <2> QED
    BY <2>1, ElementOfSeq
<1>2. short \in Seq(S) /\ Len(short) = n - 1 /\ \A j \in 1 .. n - 1 : short[j] = q[j]
  <2>1. \A j \in 1 .. n - 1 : q[j] \in S
    BY <1>1
  <2>2. /\ short \in Seq(S)
        /\ Len(short) = IF 1 <= n - 1 THEN n - 1 - 1 + 1 ELSE 0
        /\ \A j \in 1 .. n - 1 - 1 + 1 : short[j] = q[1 + j - 1]
    <3> HIDE DEF n
    <3> QED
      BY <1>1, <2>1, SubSeqProperties
  <2> HIDE DEF short, n
  <2> QED
    BY <1>1, <2>2
<1>3. r = IF i = n THEN short ELSE [short EXCEPT ![i] = q[n]]
  BY DEF Closed
<1> HIDE DEF short, n
<1>4. CASE i = n
  BY <1>1, <1>2, <1>3, <1>4 DEF n
<1>5. CASE i # n
  <2>1. i \in 1 .. n - 1 /\ i \in 1 .. Len(short)
    BY <1>1, <1>2, <1>5 DEF n
  <2>2. /\ r \in Seq(S) /\ Len(r) = Len(short)
        /\ \A j \in 1 .. Len(short) : r[j] = IF j = i THEN q[n] ELSE short[j]
    BY <1>1, <1>2, <1>3, <1>5, <2>1, ExceptSeq
  <2> QED
    BY <1>2, <2>2 DEF n
<1> QED
  BY <1>4, <1>5

LEMMA RemovedIsHeapified ==
  ASSUME NEW q, NEW i, NEW d
  PROVE  Removed(q, i, d) = IF i = Len(q) THEN Closed(q, i)
                            ELSE AlarmHeapify(Closed(q, i), i, d)
BY DEF Removed, Closed

\* Os_AlarmCancel and the pop of Os_AlarmTick remove their alarm and no other.
LEMMA RemovedMembers ==
  ASSUME NEW S, NEW q \in Seq(S), Distinct(q), NEW i \in 1 .. Len(q), NEW d,
         NEW r, r = Removed(q, i, d)
  PROVE  /\ r \in Seq(S) /\ Len(r) = Len(q) - 1
         /\ Members(r) = Members(q) \ {q[i]}
         /\ Distinct(r)
<1> DEFINE n == Len(q)
           c == Closed(q, i)
<1>1. n \in Nat /\ n \in 1 .. n
  <2>1. n \in Nat
    BY LenProperties
  <2> QED
    BY <2>1
<1>2. c \in Seq(S) /\ Len(c) = n - 1
  BY ClosedEntries
<1>3. \A j \in 1 .. n - 1 : c[j] = IF j = i THEN q[n] ELSE q[j]
  BY ClosedEntries
<1>4. /\ Members(q) = {q[j] : j \in 1 .. n}
      /\ \A j, k \in 1 .. n : q[j] = q[k] => j = k
      /\ i \in 1 .. n
      /\ Members(c) = {c[j] : j \in 1 .. n - 1}
      /\ Distinct(c) <=> \A j, k \in 1 .. n - 1 : c[j] = c[k] => j = k
  BY <1>2 DEF Members, Distinct
<1> HIDE DEF n, c
<1>5. Distinct(c)
  <2> SUFFICES ASSUME NEW j \in 1 .. n - 1, NEW k \in 1 .. n - 1, c[j] = c[k] PROVE j = k
    BY <1>4
  <2>1. j \in 1 .. n /\ k \in 1 .. n /\ j # n /\ k # n
    BY <1>1
  <2> QED
    BY <1>1, <1>3, <1>4, <2>1
<1>6. Members(c) = Members(q) \ {q[i]}
  <2>1. ASSUME NEW j \in 1 .. n - 1 PROVE c[j] \in Members(q) \ {q[i]}
    <3>1. j \in 1 .. n /\ j # n
      BY <1>1
    <3>2. CASE j = i
      <4>1. c[j] = q[n] /\ q[n] # q[i]
        BY <1>1, <1>3, <1>4, <3>1, <3>2
      <4> QED
        BY <1>1, <1>4, <4>1
    <3>3. CASE j # i
      <4>1. c[j] = q[j] /\ q[j] # q[i]
        BY <1>3, <1>4, <3>1, <3>3
      <4> QED
        BY <1>4, <3>1, <4>1
    <3> QED
      BY <3>2, <3>3
  <2>2. ASSUME NEW j \in 1 .. n, q[j] # q[i] PROVE q[j] \in Members(c)
    <3>1. CASE j # n
      <4>1. j \in 1 .. n - 1 /\ c[j] = q[j]
        BY <1>1, <1>3, <2>2, <3>1
      <4> QED
        BY <1>4, <4>1
    <3>2. CASE j = n
      <4>1. i \in 1 .. n - 1 /\ c[i] = q[j]
        BY <1>1, <1>3, <1>4, <2>2, <3>2
      <4> QED
        BY <1>4, <4>1
    <3> QED
      BY <3>1, <3>2
  <2>3. Members(c) \subseteq Members(q) \ {q[i]}
    BY <1>4, <2>1
  <2>4. ASSUME NEW e \in Members(q) \ {q[i]} PROVE e \in Members(c)
    <3>1. PICK j \in 1 .. n : e = q[j]
      BY <1>4
    <3> QED
      BY <2>2, <3>1
  <2> QED
    BY <2>3, <2>4
<1>7. CASE i = n
  <2>1. r = c
    BY <1>7, RemovedIsHeapified DEF n, c
  <2> QED
    BY <1>2, <1>5, <1>6, <2>1 DEF n
<1>8. CASE i # n
  <2>1. r = AlarmHeapify(c, i, d)
    BY <1>8, RemovedIsHeapified DEF n, c
  <2>2. i \in 1 .. Len(c)
    BY <1>1, <1>2, <1>4, <1>8
  <2> QED
    BY <1>2, <1>5, <1>6, <2>1, <2>2, HeapifyMembers DEF n
<1> QED
  BY <1>7, <1>8

-------------------------------------------------------------------------------
(***************************************************************************)
(* The order of the heap.  The counter is at t and every alarm of the heap *)
(* is less than half the range ahead of it: no parent is later than its    *)
(* children.                                                               *)
(***************************************************************************)
Ordered(q, d, t) ==
  \A j \in 2 .. Len(q) : Lead(d[q[j \div 2]], t) <= Lead(d[q[j]], t)

AllNear(q, d, t) == \A i \in 1 .. Len(q) : Lead(d[q[i]], t) < Half

\* The path of an alarm due at t goes from each index to its parent, as long as the parent
\* is not earlier.
RiseShape(p, q, t, d) ==
  /\ \A k \in 1 .. Len(p) - 1 :
       p[k] > 1 /\ p[k + 1] = p[k] \div 2 /\ TickLessThan(t, d[q[p[k + 1]]])
  /\ p[Len(p)] > 1 => ~TickLessThan(t, d[q[p[Len(p)] \div 2]])
  /\ \A k \in 1 .. Len(p) : p[k] >= p[Len(p)]

LEMMA RiseHasShape ==
  ASSUME NEW q, NEW n \in Nat, NEW t, NEW d, NEW f, Rises(n, q, t, d, f)
  PROVE  \A j \in 1 .. n : RiseShape(f[j], q, t, d)
<1> DEFINE T == {j \in 1 .. n : ~RiseShape(f[j], q, t, d)}
<1> SUFFICES ASSUME T # {} PROVE FALSE
  OBVIOUS
<1>1. PICK j \in T : \A m \in T : j <= m
  <2>1. T \in SUBSET Nat
    OBVIOUS
  <2> HIDE DEF T
  <2> QED
    BY <2>1, LeastNatural
<1>2. j \in 1 .. n /\ f[j] = RiseStep(q, t, d, f, j)
  BY DEF Rises
<1>3. CASE ~(j > 1 /\ TickLessThan(t, d[q[j \div 2]]))
  <2> DEFINE p == <<j>>
  <2>1. f[j] = p
    BY <1>2, <1>3 DEF RiseStep
  <2>2. Len(p) = 1 /\ p[1] = j
    OBVIOUS
  <2> HIDE DEF p
  <2>3. RiseShape(p, q, t, d)
    BY <1>2, <1>3, <2>2 DEF RiseShape
  <2> QED
    BY <1>1, <2>1, <2>3
<1>4. CASE j > 1 /\ TickLessThan(t, d[q[j \div 2]])
  <2> DEFINE i == j \div 2
             o == f[i]
             p == <<j>> \o o
  <2>1. f[j] = p
    BY <1>2, <1>4 DEF RiseStep
  <2>2. i \in 1 .. n /\ i < j /\ i \in Nat
    BY <1>2, <1>4
  <2>3. RiseShape(o, q, t, d)
    BY <1>1, <1>2, <2>2
  <2>4. IsPath(o, i, 1 .. i)
    BY <2>2, RiseIsPath
  <2> HIDE DEF i, T
  <2>5. o \in Seq(1 .. n) /\ j \in 1 .. n /\ o[1] = i /\ Len(o) \in Nat /\ Len(o) >= 1
    <3>1. 1 .. i \subseteq 1 .. n
      BY <2>2
    <3>2. o \in Seq(1 .. n)
      BY <2>4, <3>1, SeqMonotonic DEF IsPath
    <3> QED
      BY <1>2, <2>4, <3>2, EmptySeq DEF IsPath
  <2>6. /\ Len(p) = Len(o) + 1 /\ p[1] = j
        /\ \A k \in 1 .. Len(o) + 1 : k # 1 => k - 1 \in 1 .. Len(o) /\ p[k] = o[k - 1]
    BY <2>5, PushFront
  <2>7. \A k \in 1 .. Len(o) : o[k] \in 1 .. n
    BY <2>5, ElementOfSeq
  <2> DEFINE l == Len(o)
  <2>8. l \in Nat /\ l >= 1 /\ p[l + 1] = o[l]
    BY <2>5, <2>6
  <2> HIDE DEF o, p
  <2>9. \A k \in 1 .. l : p[k] > 1 /\ p[k + 1] = p[k] \div 2 /\ TickLessThan(t, d[q[p[k + 1]]])
    <3> SUFFICES ASSUME NEW k \in 1 .. l
                 PROVE  p[k] > 1 /\ p[k + 1] = p[k] \div 2 /\ TickLessThan(t, d[q[p[k + 1]]])
      OBVIOUS
    <3>1. k + 1 \in 1 .. l + 1 /\ k + 1 # 1 /\ k + 1 - 1 = k
      BY <2>8
    <3>2. p[k + 1] = o[k]
      BY <2>6, <3>1
    <3>3. CASE k = 1
      BY <1>4, <2>5, <2>6, <3>2, <3>3 DEF i
    <3>4. CASE k # 1
      <4>1. k - 1 \in 1 .. l - 1 /\ k - 1 + 1 = k /\ p[k] = o[k - 1]
        BY <2>6, <2>8, <3>4
      <4> QED
        BY <2>3, <3>2, <4>1 DEF RiseShape
    <3> QED
      BY <3>3, <3>4
  <2>10. \A k \in 1 .. l + 1 : p[k] >= o[l]
    <3>1. \A k \in 1 .. l : o[k] >= o[l]
      BY <2>3 DEF RiseShape
    <3>2. j >= o[l]
      <4>1. o[1] >= o[l]
        BY <2>8, <3>1
      <4>2. o[l] \in Int
        BY <2>7, <2>8
      <4> QED
        BY <1>2, <2>2, <2>5, <4>1, <4>2
    <3> QED
      BY <2>6, <3>1, <3>2
  <2>11. RiseShape(p, q, t, d)
    <3>1. Len(p) = l + 1 /\ l + 1 - 1 = l
      BY <2>6, <2>8
    <3>2. o[l] > 1 => ~TickLessThan(t, d[q[o[l] \div 2]])
      BY <2>3 DEF RiseShape
    <3> HIDE DEF l
    <3> QED
      BY <2>8, <2>9, <2>10, <3>1, <3>2 DEF RiseShape
  <2> QED
    BY <1>1, <2>1, <2>11 DEF T
<1> QED
  BY <1>3, <1>4

\* Os_AlarmAdd keeps the order of a heap of any size.
LEMMA AddOrdered ==
  ASSUME NEW d \in [Alarm -> Tick], NEW t \in Tick, NEW q \in Seq(Alarm), NEW a \in Alarm,
         AllNear(q, d, t), Lead(d[a], t) < Half, Ordered(q, d, t),
         NEW r, r = AlarmAdd(q, a, d)
  PROVE  Ordered(r, d, t)
<1> DEFINE room == Append(q, a)
           n == Len(room)
           p == RisePath(room, n, d[a], d)
           L == Len(p)
           la == Lead(d[a], t)
           lead(i) == Lead(d[room[i]], t)
           new(i) == Lead(d[r[i]], t)
<1>1. /\ room \in Seq(Alarm) /\ n \in Nat /\ n >= 1 /\ n = Len(q) + 1 /\ room[n] = a
      /\ \A i \in 1 .. n - 1 : room[i] = q[i]
      /\ \A i \in 1 .. n : room[i] \in Alarm
  <2>1. Len(q) \in Nat
    BY LenProperties
  <2>2. room \in Seq(Alarm)
    BY AppendProperties
  <2> QED
    BY <2>1, <2>2, AppendProperties, ElementOfSeq
<1>2. r = Shifted(room, p, a)
  BY DEF AlarmAdd
<1>3. IsPath(p, n, 1 .. n) /\ RiseShape(p, room, d[a], d)
  <2> HIDE DEF room
  <2>1. PICK f : Rises(n, room, d[a], d, f) /\ p = f[n]
    BY <1>1, RiseUnfolds
  <2>2. n \in 1 .. n
    BY <1>1
  <2> HIDE DEF n, p
  <2>3. \A j \in 1 .. n : IsPath(f[j], j, 1 .. j) /\ RiseShape(f[j], room, d[a], d)
    BY <1>1, <2>1, RiseIsPath, RiseHasShape
  <2> QED
    BY <2>1, <2>2, <2>3
<1>4. Len(r) = n /\ Entries(room, p, a, r)
  <2> HIDE DEF room, p
  <2> QED
    BY <1>1, <1>2, <1>3, ShiftedEntries
<1>5. /\ L \in Nat /\ L >= 1 /\ p[1] = n /\ \A k \in 1 .. L : p[k] \in 1 .. n
  <2>1. p \in Seq(1 .. n) /\ p # <<>> /\ p[1] = n
    BY <1>3 DEF IsPath
  <2> HIDE DEF n, p
  <2>2. L \in Nat /\ L >= 1
    BY <2>1, EmptySeq
  <2>3. \A k \in 1 .. L : p[k] \in 1 .. n
    BY <2>1, ElementOfSeq
  <2> QED
    BY <2>1, <2>2, <2>3
<1>6. la \in Nat /\ la < Half /\ \A i \in 1 .. n : lead(i) \in Nat /\ lead(i) < Half
  <2>1. \A x \in Alarm : d[x] \in Tick
    OBVIOUS
  <2>2. \A x \in Alarm : Lead(d[x], t) \in Nat
    <3>1. \A x \in Alarm : Lead(d[x], t) \in Tick
      BY <2>1, LeadValue
    <3> QED
      BY <3>1, Halves DEF Tick
  <2>3. \A i \in 1 .. n - 1 : lead(i) < Half
    BY <1>1 DEF AllNear
  <2>4. lead(n) = la
    BY <1>1
  <2> HIDE DEF room, n
  <2> QED
    BY <1>1, <2>2, <2>3, <2>4
<1>7. \A i \in 1 .. n : TickLessThan(d[a], d[room[i]]) <=> la <= lead(i)
  <2>1. \A i \in 1 .. n : d[room[i]] \in Tick
    BY <1>1
  <2> HIDE DEF room, n
  <2> QED
    BY <1>6, <2>1, TickOrder
<1>8. \A j \in 2 .. n - 1 : lead(j \div 2) <= lead(j)
  <2>1. ASSUME NEW j \in 2 .. n - 1 PROVE lead(j \div 2) <= lead(j)
    <3>1. j \in 2 .. Len(q) /\ room[j] = q[j] /\ room[j \div 2] = q[j \div 2]
      BY <1>1
    <3> QED
      BY <3>1 DEF Ordered
  <2> QED
    BY <2>1
<1> HIDE DEF room, p, L, lead, new, la, n
\* Below the end of the path an index has the alarm of its parent, which is not earlier.
<1>9. \A k \in 1 .. L - 1 : /\ p[k] > 1 /\ p[k + 1] = p[k] \div 2
                            /\ new(p[k]) = lead(p[k + 1]) /\ la <= lead(p[k + 1])
  <2> SUFFICES ASSUME NEW k \in 1 .. L - 1
               PROVE  /\ p[k] > 1 /\ p[k + 1] = p[k] \div 2
                      /\ new(p[k]) = lead(p[k + 1]) /\ la <= lead(p[k + 1])
    OBVIOUS
  <2>1. p[k] > 1 /\ p[k + 1] = p[k] \div 2 /\ TickLessThan(d[a], d[room[p[k + 1]]])
    BY <1>3 DEF RiseShape, L
  <2>2. k \in 1 .. L /\ k # L /\ p[k + 1] \in 1 .. n
    BY <1>5
  <2>3. r[p[k]] = room[p[k + 1]]
    BY <1>4, <2>2 DEF Entries, L
  <2> QED
    BY <1>7, <2>1, <2>2, <2>3 DEF new, lead
\* Its end has the new alarm, and a parent that is earlier.
<1>10. new(p[L]) = la /\ (p[L] > 1 => lead(p[L] \div 2) <= la)
  <2>1. L \in 1 .. L /\ p[L] \in 1 .. n
    BY <1>5
  <2>2. r[p[L]] = a
    BY <1>4, <2>1 DEF Entries, L
  <2>3. p[L] > 1 => ~TickLessThan(d[a], d[room[p[L] \div 2]])
    BY <1>3 DEF RiseShape, L
  <2>4. p[L] > 1 => p[L] \div 2 \in 1 .. n
    BY <2>1, <1>1
  <2>5. p[L] > 1 => lead(p[L] \div 2) <= la
    BY <1>6, <1>7, <2>3, <2>4
  <2> QED
    BY <2>2, <2>5 DEF new, la
<1>11. \A i \in 1 .. n : (\A k \in 1 .. L : p[k] # i) => new(i) = lead(i)
  BY <1>4 DEF Entries, L, n, new, lead
<1>12. \A k \in 1 .. L : p[k] >= p[L]
  BY <1>3 DEF RiseShape, L
<1>13. ASSUME NEW j \in 2 .. n PROVE new(j \div 2) <= new(j)
  <2> DEFINE i == j \div 2
  <2>1. i \in 1 .. n - 1 /\ i < j
    BY <1>1
  <2> SUFFICES new(i) <= new(j)
    OBVIOUS
  <2> HIDE DEF i
  <2>2. ASSUME NEW k \in 1 .. L, p[k] = i PROVE la <= lead(i) /\ new(i) <= lead(i)
    <3>1. k # 1
      BY <1>1, <1>5, <2>1, <2>2
    <3>2. k - 1 \in 1 .. L - 1 /\ k - 1 + 1 = k
      BY <1>5, <3>1
    <3>3. la <= lead(i)
      BY <1>9, <2>2, <3>2
    <3>4. CASE k = L
      BY <1>10, <2>2, <3>3, <3>4
    <3>5. CASE k # L
      <4>1. /\ k \in 1 .. L - 1 /\ i > 1 /\ i \in 2 .. n - 1
            /\ p[k + 1] = i \div 2 /\ new(i) = lead(p[k + 1])
        BY <1>1, <1>5, <1>9, <2>1, <2>2, <3>5
      <4> QED
        BY <1>8, <3>3, <4>1
    <3> QED
      BY <3>4, <3>5
  <2>3. new(i) <= lead(i)
    <3>1. CASE \E k \in 1 .. L : p[k] = i
      BY <2>2, <3>1
    <3>2. CASE \A k \in 1 .. L : p[k] # i
      <4>1. i \in 1 .. n
        BY <1>1, <2>1
      <4>2. new(i) = lead(i) /\ lead(i) \in Nat
        BY <1>6, <1>11, <3>2, <4>1
      <4> QED
        BY <4>2
    <3> QED
      BY <3>1, <3>2
  <2>4. ASSUME NEW k \in 1 .. L - 1, p[k] = j PROVE new(i) <= new(j)
    <3>1. p[k + 1] = i /\ new(j) = lead(i)
      BY <1>9, <2>4 DEF i
    <3> QED
      BY <2>3, <3>1
  <2>5. CASE p[L] = j
    <3>1. \A k \in 1 .. L : p[k] # i
      BY <1>5, <1>12, <2>1, <2>5
    <3>2. new(i) = lead(i)
      BY <1>1, <1>11, <2>1, <3>1
    <3> QED
      BY <1>10, <2>5, <3>2 DEF i
  <2>6. CASE \A k \in 1 .. L : p[k] # j
    <3>1. new(j) = lead(j)
      BY <1>11, <1>1, <2>6
    <3>2. j # n
      BY <1>5, <2>6
    <3>3. lead(i) <= lead(j)
      BY <1>1, <1>8, <3>2 DEF i
    <3>4. lead(i) \in Nat /\ lead(j) \in Nat
      BY <1>1, <1>6, <2>1
    <3>5. new(i) \in Int
      <4>1. CASE \E k \in 1 .. L : p[k] = i
        <5>1. PICK k \in 1 .. L : p[k] = i
          BY <4>1
        <5>2. k # L => k \in 1 .. L - 1 /\ p[k + 1] \in 1 .. n
          BY <1>5
        <5> QED
          BY <1>6, <1>9, <1>10, <5>1, <5>2
      <4>2. CASE \A k \in 1 .. L : p[k] # i
        <5>1. i \in 1 .. n
          BY <1>1, <2>1
        <5>2. new(i) = lead(i)
          BY <1>11, <4>2, <5>1
        <5> QED
          BY <3>4, <5>2
      <4> QED
        BY <4>1, <4>2
    <3>6. new(i) <= lead(i) /\ lead(i) <= new(j) /\ new(j) \in Int
      BY <2>3, <3>1, <3>3, <3>4
    <3> HIDE DEF lead, new
    <3> QED
      BY <3>4, <3>5, <3>6
  <2>7. ASSUME NEW k \in 1 .. L, p[k] = j PROVE new(i) <= new(j)
    <3>1. k = L \/ k \in 1 .. L - 1
      BY <1>5
    <3> QED
      BY <2>4, <2>5, <2>7, <3>1
  <2> QED
    BY <2>6, <2>7
<1> QED
  BY <1>4, <1>13 DEF Ordered, new, n

\* The first alarm of an ordered heap is the earliest.
LEMMA FirstIsEarliest ==
  ASSUME NEW d \in [Alarm -> Tick], NEW t \in Tick, NEW q \in Seq(Alarm), Ordered(q, d, t)
  PROVE  \A i \in 1 .. Len(q) : Lead(d[q[1]], t) <= Lead(d[q[i]], t)
<1> DEFINE N == Len(q)
           lead(i) == Lead(d[q[i]], t)
           T == {i \in 1 .. N : ~(lead(1) <= lead(i))}
<1> SUFFICES ASSUME T # {} PROVE FALSE
  OBVIOUS
<1>1. PICK i \in T : \A m \in T : i <= m
  <2>1. T \in SUBSET Nat
    OBVIOUS
  <2> HIDE DEF T
  <2> QED
    BY <2>1, LeastNatural
<1>2. i \in 1 .. N /\ ~(lead(1) <= lead(i))
  OBVIOUS
<1>3. N \in Nat /\ \A k \in 1 .. N : lead(k) \in Nat
  <2>1. \A k \in 1 .. N : q[k] \in Alarm
    BY ElementOfSeq
  <2>2. \A x \in Alarm : Lead(d[x], t) \in Tick
    BY LeadValue
  <2>3. \A x \in Tick : x \in Nat
    BY Halves DEF Tick
  <2>4. N \in Nat
    BY LenProperties
  <2> HIDE DEF N
  <2> QED
    BY <2>1, <2>2, <2>3, <2>4
<1>4. \A j \in 2 .. N : lead(j \div 2) <= lead(j)
  BY DEF Ordered
<1> HIDE DEF lead, N
<1>5. i # 1
  BY <1>2, <1>3
<1> DEFINE k == i \div 2
<1>6. i \in 2 .. N /\ k \in 1 .. N /\ k < i
  BY <1>2, <1>3, <1>5
<1>7. lead(k) <= lead(i)
  BY <1>4, <1>6
<1> HIDE DEF k
<1>8. k \notin T
  <2>1. ~(i <= k) /\ i \in Int
    BY <1>6
  <2> HIDE DEF T
  <2> QED
    BY <1>1, <2>1
<1>9. lead(1) <= lead(k)
  BY <1>6, <1>8
<1>10. lead(1) \in Nat /\ lead(k) \in Nat /\ lead(i) \in Nat
  BY <1>3, <1>6
<1> QED
  BY <1>2, <1>7, <1>9, <1>10

\* Removing an alarm from a heap of at most three keeps its order: an alarm that sinks
\* never chooses between two children.
LEMMA RemoveOrdered ==
  ASSUME NEW d \in [Alarm -> Tick], NEW t \in Tick, NEW q \in Seq(Alarm), Len(q) <= 3,
         AllNear(q, d, t), Ordered(q, d, t), NEW i \in 1 .. Len(q),
         NEW r, r = Removed(q, i, d)
  PROVE  Ordered(r, d, t)
<1> DEFINE n == Len(q)
           c == Closed(q, i)
<1>1. n \in Nat /\ n <= 3 /\ \A j \in 1 .. n : q[j] \in Alarm
  BY LenProperties, ElementOfSeq
<1>2. /\ c \in Seq(Alarm) /\ Len(c) = n - 1
      /\ \A j \in 1 .. n - 1 : c[j] = IF j = i THEN q[n] ELSE q[j]
  BY ClosedEntries
<1>3. r = IF i = n THEN c ELSE AlarmHeapify(c, i, d)
  BY RemovedIsHeapified
<1>4. \A j \in 2 .. n : Lead(d[q[1]], t) <= Lead(d[q[j]], t)
  BY <1>1, FirstIsEarliest
<1>5. Len(r) = n - 1
  <2>1. i # n => i \in 1 .. Len(c)
    BY <1>1, <1>2
  <2> HIDE DEF c
  <2> QED
    BY <1>2, <1>3, <2>1, HeapifyMembers
<1>6. \A j, k \in 1 .. n : TickLessThan(d[q[j]], d[q[k]]) <=> Lead(d[q[j]], t) <= Lead(d[q[k]], t)
  <2>1. \A j \in 1 .. n : d[q[j]] \in Tick /\ Lead(d[q[j]], t) < Half
    BY <1>1 DEF AllNear
  <2> QED
    BY <2>1, TickOrder
<1>7. \A j \in 1 .. n : Lead(d[q[j]], t) \in Nat
  <2>1. \A j \in 1 .. n : d[q[j]] \in Tick
    BY <1>1
  <2>2. \A j \in 1 .. n : Lead(d[q[j]], t) \in Tick
    BY <2>1, LeadValue
  <2> QED
    BY <2>2, Halves DEF Tick
<1> HIDE DEF n, c
<1>8. CASE n # 3
  BY <1>1, <1>5, <1>8 DEF Ordered
<1>9. CASE n = 3
  <2>1. i \in 1 .. 3 /\ Len(c) = 2 /\ Len(r) = 2
    BY <1>2, <1>5, <1>9 DEF n
  <2>2. Lead(d[r[1]], t) <= Lead(d[r[2]], t) => Ordered(r, d, t)
    <3>1. \A j \in 2 .. 2 : j = 2 /\ 2 \div 2 = 1
      OBVIOUS
    <3> QED
      BY <2>1, <3>1 DEF Ordered
  <2>3. CASE i = 3
    <3>1. r[1] = q[1] /\ r[2] = q[2]
      BY <1>2, <1>3, <1>9, <2>3
    <3> QED
      BY <1>4, <1>9, <2>2, <3>1
  <2> DEFINE p == SinkPath(c, i, d)
  <2>4. CASE i # 3
    <3>1. PICK f : Sinks(1, c, c[i], d, f) /\ p = f[i]
      BY <2>1, SinkUnfolds
    <3>2. p = SinkStep(c, c[i], d, f, i) /\ f[2] = SinkStep(c, c[i], d, f, 2)
      BY <2>1, <2>4, <3>1 DEF Sinks
    <3>3. f[2] = <<2>>
      BY <2>1, <3>2 DEF SinkStep
    <3>4. i \in 1 .. Len(c) /\ c[i] \in Alarm
      <4>1. i \in 1 .. Len(c)
        BY <2>1, <2>4
      <4> QED
        BY <1>2, <4>1, ElementOfSeq
    <3>5. IsPath(p, i, 1 .. Len(c)) /\ r = Shifted(c, p, c[i])
      <4>1. IsPath(p, i, i .. Len(c))
        <5> HIDE DEF p
        <5>1. Len(c) \in Nat
          BY <2>1
        <5>2. \A j \in 1 .. Len(c) : IsPath(f[j], j, j .. Len(c))
          BY <3>1, <5>1, SinkIsPath, Zenon
        <5> QED
          BY <3>1, <3>4, <5>2
      <4>2. i .. Len(c) \subseteq 1 .. Len(c)
        BY <2>1
      <4>3. r = Shifted(c, p, c[i])
        BY <1>3, <1>9, <2>4 DEF AlarmHeapify
      <4> HIDE DEF p
      <4> QED
        BY <4>1, <4>2, <4>3, SeqMonotonic DEF IsPath
    <3> HIDE DEF p
    <3>6. Entries(c, p, c[i], r)
      <4> DEFINE e == c[i]
      <4>1. e \in Alarm /\ r = Shifted(c, p, e)
        BY <3>4, <3>5
      <4> HIDE DEF e
      <4>2. Entries(c, p, e, r)
        BY <1>2, <3>5, <4>1, ShiftedEntries
      <4> QED
        BY <4>2 DEF e
    <3>7. CASE i = 2
      <4>1. p = <<2>>
        BY <2>1, <3>2, <3>7 DEF SinkStep
      <4>2. Len(p) = 1 /\ p[1] = 2
        BY <4>1
      <4>3. r[2] = c[2] /\ r[1] = c[1]
        BY <2>1, <3>6, <3>7, <4>2 DEF Entries
      <4>4. r[2] = q[3] /\ r[1] = q[1]
        BY <1>2, <1>9, <3>7, <4>3
      <4> QED
        BY <1>4, <1>9, <2>2, <4>4
    <3>8. CASE i = 1
      <4>1. c[1] = q[3] /\ c[2] = q[2]
        BY <1>2, <1>9, <3>8
      <4>2. CASE TickLessThan(d[c[2]], d[c[1]])
        <5>1. p = <<1>> \o <<2>>
          <6>1. p = SinkStep(c, c[1], d, f, 1)
            BY <3>2, <3>8
          <6>2. 2 * 1 = 2 /\ 2 <= Len(c)
            BY <2>1
          <6>3. SinkStep(c, c[1], d, f, 1) = <<1>> \o f[2]
            BY <4>2, <6>2, Zenon DEF SinkStep
          <6> QED
            BY <3>3, <6>1, <6>3
        <5>2. Len(p) = 2 /\ p[1] = 1 /\ p[2] = 2
          BY <5>1
        <5>3. r[1] = c[2] /\ r[2] = c[1]
          BY <2>1, <3>6, <3>8, <5>2 DEF Entries
        <5> QED
          BY <1>6, <1>9, <2>2, <4>1, <4>2, <5>3
      <4>3. CASE ~TickLessThan(d[c[2]], d[c[1]])
        <5>1. p = <<1>>
          <6>1. p = SinkStep(c, c[1], d, f, 1)
            BY <3>2, <3>8
          <6>2. 2 * 1 = 2 /\ ~(2 * 1 + 1 <= Len(c))
            BY <2>1
          <6>3. SinkStep(c, c[1], d, f, 1) = <<1>>
            BY <4>3, <6>2, Zenon DEF SinkStep
          <6> QED
            BY <6>1, <6>3
        <5>2. Len(p) = 1 /\ p[1] = 1
          BY <5>1
        <5>3. r[1] = c[1] /\ r[2] = c[2]
          BY <2>1, <3>6, <3>8, <5>2 DEF Entries
        <5>4. ~(Lead(d[q[2]], t) <= Lead(d[q[3]], t))
          BY <1>6, <1>9, <4>1, <4>3
        <5> QED
          BY <1>7, <1>9, <2>2, <4>1, <5>3, <5>4
      <4> QED
        BY <4>2, <4>3
    <3> QED
      BY <2>1, <2>4, <3>7, <3>8
  <2> QED
    BY <2>3, <2>4
<1> QED
  BY <1>8, <1>9

-------------------------------------------------------------------------------
(* The flags and the queues *)

AlarmTypes ==
  /\ ticks \in [Counter -> Tick]
  /\ queue \in [Counter -> Seq(Alarm)]
  /\ due \in [Alarm -> Tick]
  /\ cycle \in [Alarm -> Tick]
  /\ queued \in [Alarm -> BOOLEAN]
  /\ ticking \in Counter \cup {NONE}
  /\ status \in Status

Queues ==
  \A c \in Counter :
    /\ Distinct(queue[c])
    /\ \A a \in Alarm : a \in Members(queue[c]) <=> queued[a] /\ CounterOf[a] = c

QInv == AlarmTypes /\ Queues

\* The values of the parameters have the types of the tables.
LEMMA Parameters ==
  /\ CounterOf \in [Alarm -> Counter]
  /\ \A a \in Alarm : Cycle[a] \subseteq Tick
  /\ Increment \subseteq Tick /\ Ahead \subseteq Tick
  /\ 0 \in Tick /\ NONE \notin Counter /\ AlarmCount \notin Alarm
BY AlarmAssumption, Halves DEF Tick, NONE, Counter, Alarm

\* What a step may be.  An alarm that is not refused is in no queue, as long as the
\* application does not set a queued one again.
Sets(a, k, n) ==
  /\ Calling /\ ~queued[a]
  /\ Started(a, Wrap(ticks[CounterOf[a]] + k), n)

LEMMA NextCases ==
  ASSUME ~Reset, QInv, Next
  PROVE  \/ \E a \in Alarm : \E n \in Cycle[a] :
               \E k \in (Increment \ {0}) \cup Ahead : Sets(a, k, n)
         \/ \E a \in Alarm : queued[a] /\ CancelAlarm(a)
         \/ \E c \in Counter : IncrementCounter(c)
         \/ AlarmTick
         \/ TickDone
         \/ \E s \in Status : Returns(s)
<1>1. ASSUME NEW a \in Alarm, NEW n \in Cycle[a], NEW k \in Increment, SetRelAlarm(a, k, n)
      PROVE  (Sets(a, k, n) /\ k # 0) \/ \E s \in Status : Returns(s)
  BY <1>1, Zenon DEF SetRelAlarm, Sets, MaySet, Status
<1>2. ASSUME NEW a \in Alarm, NEW n \in Cycle[a], NEW k \in Ahead,
             SetAbsAlarm(a, Wrap(ticks[CounterOf[a]] + k), n)
      PROVE  Sets(a, k, n) \/ \E s \in Status : Returns(s)
  BY <1>2, Zenon DEF SetAbsAlarm, Sets, MaySet, Status
<1>3. ASSUME SetRelAlarm(AlarmCount, 1, 0) \/ SetAbsAlarm(AlarmCount, 1, 0)
      PROVE  \E s \in Status : Returns(s)
  BY <1>3, Parameters DEF SetRelAlarm, SetAbsAlarm, Status
<1>4. ASSUME NEW a, CancelAlarm(a)
      PROVE  (a \in Alarm /\ queued[a]) \/ \E s \in Status : Returns(s)
  BY <1>4 DEF CancelAlarm, Status
<1>5. ASSUME NEW a, GetAlarm(a)
      PROVE  \E s \in Status : Returns(s)
  BY <1>5 DEF GetAlarm, Status
<1>6. ASSUME NEW c, IncrementCounter(c)
      PROVE  c \in Counter \/ \E s \in Status : Returns(s)
  BY <1>6 DEF IncrementCounter, Status
<1> QED
  BY <1>1, <1>2, <1>3, <1>4, <1>5, <1>6, Zenon DEF Next

\* Each kind of step keeps flags and queues in agreement.
LEMMA SetQueues ==
  ASSUME QInv, NEW a \in Alarm, NEW n \in Cycle[a], NEW k \in Tick, Sets(a, k, n)
  PROVE  QInv'
<1> DEFINE c == CounterOf[a]
           t == Wrap(ticks[c] + k)
           q == AlarmAdd(queue[c], a, due')
<1>1. c \in Counter /\ queue[c] \in Seq(Alarm) /\ ticks[c] \in Tick
  BY Parameters DEF QInv, AlarmTypes
<1>2. t \in Tick /\ n \in Tick
  <2>1. t \in Tick
    BY <1>1, LeadOfSum
  <2> QED
    BY <2>1, Parameters
<1>3. a \notin Members(queue[c]) /\ Distinct(queue[c])
  BY <1>1 DEF Sets, QInv, Queues
<1>4. q \in Seq(Alarm) /\ Members(q) = Members(queue[c]) \cup {a} /\ Distinct(q)
  BY <1>1, <1>3, AddMembers
<1>5. /\ cycle' = [cycle EXCEPT ![a] = n] /\ due' = [due EXCEPT ![a] = t]
      /\ queue' = [queue EXCEPT ![c] = q] /\ queued' = [queued EXCEPT ![a] = TRUE]
      /\ status' = "E_OK" /\ ticks' = ticks /\ ticking' = ticking
  BY Zenon DEF Sets, Started
<1> HIDE DEF q, t, c
<1>6. AlarmTypes'
  BY <1>1, <1>2, <1>4, <1>5 DEF QInv, AlarmTypes, Status
<1>7. Queues'
  <2>1. queue'[c] = q /\ \A b \in Counter : b # c => queue'[b] = queue[b]
    BY <1>1, <1>5 DEF QInv, AlarmTypes
  <2>2. queued'[a] /\ \A b \in Alarm : b # a => queued'[b] = queued[b]
    BY <1>5 DEF QInv, AlarmTypes
  <2>3. CounterOf[a] = c
    BY DEF c
  <2> QED
    BY <1>1, <1>4, <2>1, <2>2, <2>3 DEF QInv, Queues
<1> QED
  BY <1>6, <1>7 DEF QInv

\* The index that Os_AlarmCancel looks for.
LEMMA IndexFound ==
  ASSUME QInv, NEW a \in Alarm, queued[a]
  PROVE  /\ CounterOf[a] \in Counter
         /\ queue[CounterOf[a]] \in Seq(Alarm) /\ Distinct(queue[CounterOf[a]])
         /\ Index(a) \in 1 .. Len(queue[CounterOf[a]])
         /\ queue[CounterOf[a]][Index(a)] = a
<1> DEFINE q == queue[CounterOf[a]]
<1>1. CounterOf[a] \in Counter /\ q \in Seq(Alarm) /\ Distinct(q) /\ a \in Members(q)
  BY Parameters DEF QInv, AlarmTypes, Queues
<1> HIDE DEF q
<1>2. DOMAIN q = 1 .. Len(q)
  BY <1>1, LenProperties
<1>3. \E i \in DOMAIN q : q[i] = a
  BY <1>1, <1>2 DEF Members
<1>4. Index(a) = CHOOSE i \in DOMAIN q : q[i] = a
  BY DEF Index, q
<1>5. Index(a) \in 1 .. Len(q) /\ q[Index(a)] = a
  BY <1>2, <1>3, <1>4
<1> QED
  BY <1>1, <1>5 DEF q

LEMMA CancelQueues ==
  ASSUME QInv, NEW a \in Alarm, queued[a], CancelAlarm(a)
  PROVE  QInv'
<1> DEFINE c == CounterOf[a]
           q == Removed(queue[c], Index(a), due)
<1>1. /\ c \in Counter /\ queue[c] \in Seq(Alarm) /\ Distinct(queue[c])
      /\ Index(a) \in 1 .. Len(queue[c]) /\ queue[c][Index(a)] = a
  BY IndexFound
<1>2. q \in Seq(Alarm) /\ Members(q) = Members(queue[c]) \ {a} /\ Distinct(q)
  BY <1>1, RemovedMembers
<1>3. /\ queue' = [queue EXCEPT ![c] = q] /\ queued' = [queued EXCEPT ![a] = FALSE]
      /\ status' = "E_OK" /\ ticks' = ticks /\ due' = due /\ cycle' = cycle
      /\ ticking' = ticking
  BY DEF CancelAlarm
<1>c. CounterOf[a] = c
  OBVIOUS
<1> HIDE DEF q, c
<1>4. AlarmTypes'
  BY <1>1, <1>2, <1>3 DEF QInv, AlarmTypes, Status
<1>5. Queues'
  <2>1. queue'[c] = q /\ \A b \in Counter : b # c => queue'[b] = queue[b]
    BY <1>1, <1>3 DEF QInv, AlarmTypes
  <2>2. ~queued'[a] /\ \A b \in Alarm : b # a => queued'[b] = queued[b]
    BY <1>3 DEF QInv, AlarmTypes
  <2> QED
    BY <1>1, <1>2, <1>c, <2>1, <2>2 DEF QInv, Queues
<1> QED
  BY <1>4, <1>5 DEF QInv

\* The alarm that an iteration of Os_AlarmTick serves.
LEMMA HeadServed ==
  ASSUME QInv, AlarmTick, NEW c, c = ticking, NEW a, a = Head(queue[c])
  PROVE  /\ c \in Counter /\ a \in Alarm /\ queued[a] /\ CounterOf[a] = c
         /\ queue[c] \in Seq(Alarm) /\ Distinct(queue[c])
         /\ 1 \in 1 .. Len(queue[c]) /\ queue[c][1] = a
         /\ TickLessThan(due[a], ticks[c])
<1>1. c \in Counter /\ queue[c] # <<>> /\ TickLessThan(due[a], ticks[CounterOf[a]])
  BY DEF AlarmTick, Expired, QInv, AlarmTypes
<1>2. queue[c] \in Seq(Alarm) /\ Distinct(queue[c])
  BY <1>1 DEF QInv, AlarmTypes, Queues
<1>3. a \in Members(queue[c]) /\ a = queue[c][1] /\ Len(queue[c]) >= 1 /\ a \in Alarm
  BY <1>1, <1>2, MembersOf
<1>4. 1 \in 1 .. Len(queue[c])
  BY <1>2, <1>3, LenProperties
<1>5. queued[a] /\ CounterOf[a] = c
  BY <1>1, <1>3 DEF QInv, Queues
<1> QED
  BY <1>1, <1>2, <1>3, <1>4, <1>5

LEMMA TickQueues ==
  ASSUME QInv, AlarmTick
  PROVE  QInv'
<1> DEFINE c == ticking
           a == Head(queue[c])
           rest == Removed(queue[c], 1, due)
           again == AlarmAdd(rest, a, due')
<1>1. /\ c \in Counter /\ a \in Alarm /\ queued[a] /\ CounterOf[a] = c
      /\ queue[c] \in Seq(Alarm) /\ Distinct(queue[c])
      /\ 1 \in 1 .. Len(queue[c]) /\ queue[c][1] = a
  BY HeadServed
<1>2. /\ ticks' = ticks /\ cycle' = cycle /\ ticking' = ticking /\ status' = status
      /\ \/ /\ queue' = [queue EXCEPT ![c] = rest] /\ queued' = [queued EXCEPT ![a] = FALSE]
            /\ due' = due
         \/ /\ due' = [due EXCEPT ![a] = NextDue(a)] /\ queue' = [queue EXCEPT ![c] = again]
            /\ queued' = [queued EXCEPT ![a] = TRUE]
  BY Zenon DEF AlarmTick
<1>3. rest \in Seq(Alarm) /\ Members(rest) = Members(queue[c]) \ {a} /\ Distinct(rest)
  <2> HIDE DEF a
  <2> QED
    BY <1>1, RemovedMembers
<1> HIDE DEF rest
<1>4. again \in Seq(Alarm) /\ Members(again) = Members(rest) \cup {a} /\ Distinct(again)
  <2> HIDE DEF a
  <2> QED
    BY <1>1, <1>3, AddMembers
<1> HIDE DEF a, again
<1>5. NextDue(a) \in Tick
  <2>1. due[a] \in Tick /\ cycle[a] \in Tick
    BY <1>1 DEF QInv, AlarmTypes
  <2> QED
    BY <2>1, LeadOfSum DEF NextDue
<1>6. CASE queue' = [queue EXCEPT ![c] = rest] /\ queued' = [queued EXCEPT ![a] = FALSE]
           /\ due' = due
  <2>1. AlarmTypes'
    BY <1>1, <1>2, <1>3, <1>6 DEF QInv, AlarmTypes
  <2>2. queue'[c] = rest /\ \A b \in Counter : b # c => queue'[b] = queue[b]
    BY <1>1, <1>6 DEF QInv, AlarmTypes
  <2>3. ~queued'[a] /\ \A b \in Alarm : b # a => queued'[b] = queued[b]
    BY <1>6, <1>1 DEF QInv, AlarmTypes
  <2> HIDE DEF c
  <2>4. Queues'
    BY <1>1, <1>3, <2>2, <2>3 DEF QInv, Queues
  <2> QED
    BY <2>1, <2>4 DEF QInv
<1>7. CASE /\ due' = [due EXCEPT ![a] = NextDue(a)] /\ queue' = [queue EXCEPT ![c] = again]
           /\ queued' = [queued EXCEPT ![a] = TRUE]
  <2>1. AlarmTypes'
    BY <1>1, <1>2, <1>4, <1>5, <1>7 DEF QInv, AlarmTypes
  <2>2. queue'[c] = again /\ \A b \in Counter : b # c => queue'[b] = queue[b]
    BY <1>1, <1>7 DEF QInv, AlarmTypes
  <2>3. queued'[a] /\ \A b \in Alarm : b # a => queued'[b] = queued[b]
    BY <1>7, <1>1 DEF QInv, AlarmTypes
  <2> HIDE DEF c
  <2>4. Queues'
    BY <1>1, <1>3, <1>4, <2>2, <2>3 DEF QInv, Queues
  <2> QED
    BY <2>1, <2>4 DEF QInv
<1> QED
  BY <1>2, <1>6, <1>7

LEMMA QInvInit == Init => QInv
<1> SUFFICES ASSUME Init PROVE QInv
  OBVIOUS
<1>1. AlarmTypes
  BY Parameters, EmptySeq DEF Init, AlarmTypes, Status
<1>2. Queues
  <2>1. \A c \in Counter : queue[c] = <<>>
    BY DEF Init
  <2>2. Members(<<>>) = {} /\ Distinct(<<>>)
    BY DEF Members, Distinct
  <2>3. \A a \in Alarm : ~queued[a]
    BY DEF Init
  <2> QED
    BY <2>1, <2>2, <2>3 DEF Queues
<1> QED
  BY <1>1, <1>2 DEF QInv

LEMMA QInvNext ==
  ASSUME ~Reset, QInv, [Next]_vars
  PROVE  QInv'
<1>1. CASE UNCHANGED vars
  BY <1>1 DEF vars, QInv, AlarmTypes, Queues
<1>2. ASSUME NEW c \in Counter, IncrementCounter(c) PROVE QInv'
  <2>1. /\ ticks' = [ticks EXCEPT ![c] = Wrap(ticks[c] + 1)] /\ ticking' = c
        /\ queue' = queue /\ due' = due /\ cycle' = cycle /\ queued' = queued
        /\ status' = status
    BY <1>2 DEF IncrementCounter
  <2>2. Wrap(ticks[c] + 1) \in Tick
    <3>1. ticks[c] + 1 \in Int
      BY Halves DEF QInv, AlarmTypes, Tick
    <3> QED
      BY <3>1, WrapIsTick
  <2> QED
    BY <2>1, <2>2 DEF QInv, AlarmTypes, Queues
<1>3. CASE TickDone
  BY <1>3 DEF TickDone, QInv, AlarmTypes, Queues, Status
<1>4. ASSUME NEW s \in Status, Returns(s) PROVE QInv'
  BY <1>4 DEF Returns, QInv, AlarmTypes, Queues
<1>5. \A k \in (Increment \ {0}) \cup Ahead : k \in Tick
  BY Parameters
<1>6. CASE Next
  BY <1>2, <1>3, <1>4, <1>5, <1>6, NextCases, SetQueues, CancelQueues, TickQueues
<1> QED
  BY <1>1, <1>6

LEMMA QInvariance ==
  ASSUME ~Reset
  PROVE  Spec => []QInv
<1>1. Init => QInv
  BY QInvInit
<1>2. QInv /\ [Next]_vars => QInv'
  BY QInvNext
<1> QED
  BY <1>1, <1>2, PTL DEF Spec

\* The flags of the alarms and the queues of the counters agree, whatever is set, cancelled
\* and served: Os_AlarmAdd and Os_AlarmHeapify move entries and lose or copy none, for
\* heaps of any size, also where they put them in the wrong order.
THEOREM FlagsMatchQueues ==
  ASSUME ~Reset
  PROVE  Spec => []QueueMatchesFlags
<1>1. QInv => QueueMatchesFlags
  <2> SUFFICES ASSUME QInv, NEW c \in Counter
               PROVE  /\ \A i, j \in DOMAIN queue[c] : queue[c][i] = queue[c][j] => i = j
                      /\ \A a \in Alarm : (queued[a] /\ CounterOf[a] = c) <=>
                                           \E i \in DOMAIN queue[c] : queue[c][i] = a
    BY DEF QueueMatchesFlags
  <2>1. DOMAIN queue[c] = 1 .. Len(queue[c])
    BY LenProperties DEF QInv, AlarmTypes
  <2> QED
    BY <2>1 DEF QInv, Queues, Distinct, Members
<1> QED
  BY <1>1, QInvariance, PTL

-------------------------------------------------------------------------------
(* The alarms are on time *)

\* At most three alarms are driven by a counter.  The bound is the largest one: the heap
\* of four alarms can be left in disorder by Os_AlarmHeapify, and an alarm is then late.
AtMostThree ==
  \A s \in [1 .. 4 -> Alarm] :
    (\A i, j \in 1 .. 4 : CounterOf[s[i]] = CounterOf[s[j]])
      => \E i, j \in 1 .. 4 : i # j /\ s[i] = s[j]

\* The values that alarms are set with are ahead of the counter and less than half the
\* range of the ticks, beyond which Os_TickLessThan takes them for the past.
SetNear ==
  /\ Increment \subseteq 0 .. Half - 1
  /\ Ahead \subseteq 1 .. Half - 1
  /\ \A a \in Alarm : Cycle[a] \subseteq 0 .. Half - 1

\* A queued alarm is less than half the range ahead, and reached only while its counter
\* is served.
Near ==
  \A a \in Alarm : queued[a] =>
    /\ Lead(due[a], ticks[CounterOf[a]]) < Half
    /\ CounterOf[a] # ticking => Lead(due[a], ticks[CounterOf[a]]) > 0

Heaps == \A c \in Counter : Ordered(queue[c], due, ticks[c])

Timely == Near /\ Heaps /\ \A a \in Alarm : cycle[a] < Half

TInv == QInv /\ Timely

LEMMA AtMostThreeQueued ==
  ASSUME AtMostThree, QInv, NEW c \in Counter
  PROVE  Len(queue[c]) <= 3
<1> SUFFICES ASSUME ~(Len(queue[c]) <= 3) PROVE FALSE
  OBVIOUS
<1> DEFINE q == queue[c]
           s == [i \in 1 .. 4 |-> q[i]]
<1>1. q \in Seq(Alarm) /\ Len(q) \in Nat /\ Distinct(q)
  BY LenProperties DEF QInv, AlarmTypes, Queues
<1>2. \A i \in 1 .. 4 : i \in 1 .. Len(q)
  BY <1>1
<1>3. \A i \in 1 .. 4 : q[i] \in Alarm /\ CounterOf[q[i]] = c
  <2>1. \A i \in 1 .. 4 : q[i] \in Alarm /\ q[i] \in Members(q)
    BY <1>1, <1>2, ElementOfSeq DEF Members
  <2> QED
    BY <2>1 DEF QInv, Queues
<1> HIDE DEF q
<1>4. \E i, j \in 1 .. 4 : i # j /\ s[i] = s[j]
  <2>1. s \in [1 .. 4 -> Alarm] /\ \A i \in 1 .. 4 : CounterOf[s[i]] = c
    BY <1>3
  <2> HIDE DEF s
  <2> QED
    BY <2>1 DEF AtMostThree
<1> QED
  BY <1>1, <1>2, <1>4 DEF Distinct

\* The queue of a counter, of which all members are near.
LEMMA QueueTimely ==
  ASSUME TInv, NEW c \in Counter
  PROVE  /\ queue[c] \in Seq(Alarm) /\ ticks[c] \in Tick /\ due \in [Alarm -> Tick]
         /\ AllNear(queue[c], due, ticks[c]) /\ Ordered(queue[c], due, ticks[c])
<1>1. queue[c] \in Seq(Alarm) /\ ticks[c] \in Tick /\ due \in [Alarm -> Tick]
  BY DEF TInv, QInv, AlarmTypes
<1>2. \A i \in 1 .. Len(queue[c]) :
         /\ queue[c][i] \in Alarm /\ queued[queue[c][i]] /\ CounterOf[queue[c][i]] = c
  <2>1. \A i \in 1 .. Len(queue[c]) : queue[c][i] \in Alarm /\ queue[c][i] \in Members(queue[c])
    BY <1>1, ElementOfSeq DEF Members
  <2> QED
    BY <2>1 DEF TInv, QInv, Queues
<1> QED
  BY <1>1, <1>2 DEF TInv, Timely, Near, Heaps, AllNear

\* Order and nearness are about the expiry ticks of the alarms in the queue only.
LEMMA SameTicks ==
  ASSUME NEW q \in Seq(Alarm), NEW d, NEW e, NEW t,
         \A a \in Members(q) : d[a] = e[a]
  PROVE  /\ Ordered(q, d, t) => Ordered(q, e, t)
         /\ AllNear(q, d, t) => AllNear(q, e, t)
<1>1. \A i \in 1 .. Len(q) : d[q[i]] = e[q[i]]
  BY DEF Members
<1>2. \A j \in 2 .. Len(q) : j \in 1 .. Len(q) /\ j \div 2 \in 1 .. Len(q)
  BY LenProperties
<1> QED
  BY <1>1, <1>2 DEF Ordered, AllNear

LEMMA SetTimely ==
  ASSUME SetNear, TInv, NEW a \in Alarm, NEW n \in Cycle[a],
         NEW k \in (Increment \ {0}) \cup Ahead, Sets(a, k, n)
  PROVE  Timely'
<1> DEFINE c == CounterOf[a]
           t == Wrap(ticks[c] + k)
           q == AlarmAdd(queue[c], a, due')
<1>1. c \in Counter /\ CounterOf \in [Alarm -> Counter] /\ CounterOf[a] = c
  BY Parameters
<1>2. /\ queue[c] \in Seq(Alarm) /\ ticks[c] \in Tick /\ due \in [Alarm -> Tick]
      /\ AllNear(queue[c], due, ticks[c]) /\ Ordered(queue[c], due, ticks[c])
  BY <1>1, QueueTimely
<1>3. k \in Tick /\ 0 < k /\ k < Half /\ n < Half
  BY Halves DEF SetNear, Tick
<1>4. t \in Tick /\ Lead(t, ticks[c]) = k
  BY <1>2, <1>3, LeadOfSum
<1>5. /\ cycle' = [cycle EXCEPT ![a] = n] /\ due' = [due EXCEPT ![a] = t]
      /\ queue' = [queue EXCEPT ![c] = q] /\ queued' = [queued EXCEPT ![a] = TRUE]
      /\ ticks' = ticks /\ ticking' = ticking /\ ticking = NONE /\ ~queued[a]
  BY Zenon DEF Sets, Started, Calling
<1> HIDE DEF t, q, c
<1>6. due' \in [Alarm -> Tick] /\ due'[a] = t /\ \A b \in Alarm : b # a => due'[b] = due[b]
  BY <1>2, <1>4, <1>5
<1>7. queued'[a] /\ \A b \in Alarm : b # a => queued'[b] = queued[b]
  BY <1>5 DEF TInv, QInv, AlarmTypes
<1>8. \A b \in Alarm : cycle'[b] < Half
  BY <1>3, <1>5 DEF TInv, Timely, QInv, AlarmTypes
<1>9. Near'
  <2> SUFFICES ASSUME NEW b \in Alarm, queued'[b]
               PROVE  /\ Lead(due'[b], ticks[CounterOf[b]]) < Half
                      /\ Lead(due'[b], ticks[CounterOf[b]]) > 0
    BY <1>5 DEF Near
  <2>1. CASE b = a
    BY <1>1, <1>3, <1>4, <1>6, <2>1
  <2>2. CASE b # a
    <3>1. CounterOf[b] # ticking
      BY <1>1, <1>5, Parameters
    <3> QED
      BY <1>6, <1>7, <2>2, <3>1 DEF TInv, Timely, Near
  <2> QED
    BY <2>1, <2>2
\* The expiry tick of a changed, which no queue holds.
<1>10. ASSUME NEW b \in Counter
       PROVE  /\ Ordered(queue[b], due', ticks[b])
              /\ AllNear(queue[b], due', ticks[b])
  <2>1. /\ queue[b] \in Seq(Alarm)
        /\ AllNear(queue[b], due, ticks[b]) /\ Ordered(queue[b], due, ticks[b])
    BY QueueTimely
  <2>2. a \notin Members(queue[b]) /\ Members(queue[b]) \subseteq Alarm
    BY <1>5, <2>1, MembersOf DEF TInv, QInv, Queues
  <2>3. \A x \in Members(queue[b]) : due[x] = due'[x]
    BY <1>6, <2>2
  <2> QED
    BY <2>1, <2>3, SameTicks
<1>11. Heaps'
  <2> SUFFICES ASSUME NEW b \in Counter PROVE Ordered(queue'[b], due', ticks[b])
    BY <1>5 DEF Heaps
  <2>1. CASE b = c
    <3>1. Ordered(q, due', ticks[c])
      <4>1. Lead(due'[a], ticks[c]) < Half
        BY <1>3, <1>4, <1>6
      <4>2. Ordered(queue[c], due', ticks[c]) /\ AllNear(queue[c], due', ticks[c])
        BY <1>1, <1>10
      <4> QED
        BY <1>2, <1>6, <4>1, <4>2, AddOrdered DEF q
    <3>2. queue'[c] = q
      BY <1>1, <1>5 DEF TInv, QInv, AlarmTypes
    <3> QED
      BY <2>1, <3>1, <3>2
  <2>2. CASE b # c
    <3>1. queue'[b] = queue[b]
      BY <1>1, <1>5, <2>2 DEF TInv, QInv, AlarmTypes
    <3> QED
      BY <1>10, <3>1
  <2> QED
    BY <2>1, <2>2
<1> QED
  BY <1>8, <1>9, <1>11 DEF Timely

LEMMA CancelTimely ==
  ASSUME AtMostThree, TInv, NEW a \in Alarm, queued[a], CancelAlarm(a)
  PROVE  Timely'
<1> DEFINE c == CounterOf[a]
           q == Removed(queue[c], Index(a), due)
<1>1. c \in Counter /\ Index(a) \in 1 .. Len(queue[c])
  BY IndexFound DEF TInv
<1>2. /\ queue[c] \in Seq(Alarm) /\ ticks[c] \in Tick /\ due \in [Alarm -> Tick]
      /\ AllNear(queue[c], due, ticks[c]) /\ Ordered(queue[c], due, ticks[c])
  BY <1>1, QueueTimely
<1>3. Len(queue[c]) <= 3
  BY <1>1, AtMostThreeQueued DEF TInv
<1>4. Ordered(q, due, ticks[c])
  <2> HIDE DEF c
  <2> QED
    BY <1>1, <1>2, <1>3, RemoveOrdered
<1>5. /\ queue' = [queue EXCEPT ![c] = q] /\ queued' = [queued EXCEPT ![a] = FALSE]
      /\ ticks' = ticks /\ due' = due /\ cycle' = cycle /\ ticking' = ticking
  BY DEF CancelAlarm
<1> HIDE DEF q, c
<1>6. queue'[c] = q /\ \A b \in Counter : b # c => queue'[b] = queue[b]
  BY <1>1, <1>5 DEF TInv, QInv, AlarmTypes
<1>7. \A b \in Alarm : queued'[b] => queued[b]
  BY <1>5 DEF TInv, QInv, AlarmTypes
<1>8. Near'
  BY <1>5, <1>7 DEF TInv, Timely, Near
<1>9. Heaps'
  BY <1>4, <1>5, <1>6 DEF TInv, Timely, Heaps
<1> QED
  BY <1>5, <1>8, <1>9 DEF TInv, Timely

LEMMA IncrementTimely ==
  ASSUME TInv, NEW c \in Counter, IncrementCounter(c)
  PROVE  Timely'
<1>1. /\ ticks' = [ticks EXCEPT ![c] = Wrap(ticks[c] + 1)] /\ ticking' = c /\ ticking = NONE
      /\ queue' = queue /\ due' = due /\ cycle' = cycle /\ queued' = queued
  BY DEF IncrementCounter, Calling
<1>2. ticks'[c] = Wrap(ticks[c] + 1) /\ \A b \in Counter : b # c => ticks'[b] = ticks[b]
  BY <1>1 DEF TInv, QInv, AlarmTypes
\* Every queued alarm of the counter comes one tick nearer.
<1>3. ASSUME NEW a \in Alarm, queued[a], CounterOf[a] = c
      PROVE  /\ Lead(due[a], ticks[c]) \in Nat /\ Lead(due[a], ticks[c]) < Half
             /\ Lead(due[a], ticks'[c]) = Lead(due[a], ticks[c]) - 1
  <2>1. due[a] \in Tick /\ ticks[c] \in Tick
    BY DEF TInv, QInv, AlarmTypes
  <2>2. Lead(due[a], ticks[c]) < Half /\ Lead(due[a], ticks[c]) > 0
    BY <1>1, <1>3, Parameters DEF TInv, Timely, Near
  <2>3. Lead(due[a], ticks[c]) \in Tick
    BY <2>1, LeadValue
  <2>4. Lead(due[a], ticks[c]) \in Nat
    BY <2>3, Halves DEF Tick
  <2> QED
    BY <1>2, <2>1, <2>2, <2>4, LeadShrinks
<1>4. Near'
  <2> SUFFICES ASSUME NEW a \in Alarm, queued[a]
               PROVE  /\ Lead(due[a], ticks'[CounterOf[a]]) < Half
                      /\ CounterOf[a] # c => Lead(due[a], ticks'[CounterOf[a]]) > 0
    BY <1>1 DEF Near
  <2>1. CASE CounterOf[a] = c
    BY <1>3, <2>1, Halves
  <2>2. CASE CounterOf[a] # c
    <3>1. CounterOf[a] \in Counter /\ CounterOf[a] # ticking
      BY <1>1, Parameters
    <3>2. ticks'[CounterOf[a]] = ticks[CounterOf[a]]
      BY <1>2, <2>2, <3>1
    <3> QED
      BY <3>1, <3>2 DEF TInv, Timely, Near
  <2> QED
    BY <2>1, <2>2
<1>5. Heaps'
  <2> SUFFICES ASSUME NEW b \in Counter PROVE Ordered(queue[b], due, ticks'[b])
    BY <1>1 DEF Heaps
  <2>1. Ordered(queue[b], due, ticks[b]) /\ queue[b] \in Seq(Alarm)
    BY QueueTimely
  <2>2. CASE b # c
    BY <1>2, <2>1, <2>2
  <2>3. CASE b = c
    <3> DEFINE q == queue[b]
    <3>1. \A i \in 1 .. Len(q) : q[i] \in Alarm /\ queued[q[i]] /\ CounterOf[q[i]] = c
      <4>1. \A i \in 1 .. Len(q) : q[i] \in Alarm /\ q[i] \in Members(q)
        BY <2>1, ElementOfSeq DEF Members
      <4> QED
        BY <2>3, <4>1 DEF TInv, QInv, Queues
    <3>2. Ordered(q, due, ticks[c]) /\ Len(q) \in Nat
      BY <2>1, <2>3, LenProperties
    <3> HIDE DEF q
    <3>3. \A i \in 1 .. Len(q) : /\ Lead(due[q[i]], ticks[c]) \in Nat
                                 /\ Lead(due[q[i]], ticks'[c]) = Lead(due[q[i]], ticks[c]) - 1
      BY <1>3, <3>1
    <3>4. ASSUME NEW j \in 2 .. Len(q)
          PROVE  Lead(due[q[j \div 2]], ticks'[c]) <= Lead(due[q[j]], ticks'[c])
      <4>1. j \in 1 .. Len(q) /\ j \div 2 \in 1 .. Len(q)
        BY <3>2
      <4>2. Lead(due[q[j \div 2]], ticks[c]) <= Lead(due[q[j]], ticks[c])
        BY <3>2 DEF Ordered
      <4> QED
        BY <3>3, <4>1, <4>2
    <3> QED
      BY <2>3, <3>4 DEF Ordered, q
  <2> QED
    BY <2>2, <2>3
<1> QED
  BY <1>1, <1>4, <1>5 DEF TInv, Timely

\* An alarm is served at its very tick, and again one cycle later.
LEMMA ServedAtItsTick ==
  ASSUME TInv, AlarmTick, NEW c, c = ticking, NEW a, a = Head(queue[c])
  PROVE  /\ Lead(due[a], ticks[c]) = 0 /\ due[a] = ticks[c]
         /\ NextDue(a) \in Tick /\ Lead(NextDue(a), ticks[c]) = cycle[a]
<1>1. /\ c \in Counter /\ a \in Alarm /\ queued[a] /\ CounterOf[a] = c
      /\ TickLessThan(due[a], ticks[c])
  BY HeadServed DEF TInv
<1>2. due[a] \in Tick /\ ticks[c] \in Tick /\ cycle[a] \in Tick
  BY <1>1 DEF TInv, QInv, AlarmTypes
<1>3. Lead(due[a], ticks[c]) < Half
  BY <1>1 DEF TInv, Timely, Near
<1>4. Lead(due[a], ticks[c]) = 0
  BY <1>1, <1>2, <1>3, TickReached
<1>5. due[a] = ticks[c]
  <2>1. 0 = IF due[a] < ticks[c] THEN due[a] - ticks[c] + TickRange ELSE due[a] - ticks[c]
    BY <1>2, <1>4, LeadValue
  <2> QED
    BY <1>2, <2>1, Halves DEF Tick
<1>6. NextDue(a) \in Tick /\ Lead(NextDue(a), ticks[c]) = cycle[a]
  BY <1>2, <1>5, LeadOfSum DEF NextDue
<1> QED
  BY <1>4, <1>5, <1>6

LEMMA TickTimely ==
  ASSUME AtMostThree, TInv, AlarmTick
  PROVE  Timely'
<1> DEFINE c == ticking
           a == Head(queue[c])
           rest == Removed(queue[c], 1, due)
           again == AlarmAdd(rest, a, due')
<1>1. /\ c \in Counter /\ a \in Alarm /\ queued[a] /\ CounterOf[a] = c
      /\ Distinct(queue[c]) /\ 1 \in 1 .. Len(queue[c]) /\ queue[c][1] = a
  BY HeadServed DEF TInv
<1>2. /\ queue[c] \in Seq(Alarm) /\ ticks[c] \in Tick /\ due \in [Alarm -> Tick]
      /\ AllNear(queue[c], due, ticks[c]) /\ Ordered(queue[c], due, ticks[c])
  BY <1>1, QueueTimely
<1>3. Len(queue[c]) <= 3
  BY <1>1, AtMostThreeQueued DEF TInv
<1>4. NextDue(a) \in Tick /\ Lead(NextDue(a), ticks[c]) = cycle[a] /\ cycle[a] < Half
  <2>1. NextDue(a) \in Tick /\ Lead(NextDue(a), ticks[c]) = cycle[a]
    BY ServedAtItsTick
  <2> HIDE DEF a
  <2> QED
    BY <1>1, <2>1 DEF TInv, Timely
<1>5. /\ ticks' = ticks /\ cycle' = cycle /\ ticking' = ticking
      /\ \/ /\ queue' = [queue EXCEPT ![c] = rest] /\ queued' = [queued EXCEPT ![a] = FALSE]
            /\ due' = due
         \/ /\ due' = [due EXCEPT ![a] = NextDue(a)] /\ queue' = [queue EXCEPT ![c] = again]
            /\ queued' = [queued EXCEPT ![a] = TRUE]
  BY Zenon DEF AlarmTick
<1>6. /\ rest \in Seq(Alarm) /\ Members(rest) = Members(queue[c]) \ {a}
  <2> HIDE DEF a
  <2> QED
    BY <1>1, <1>2, RemovedMembers
<1>7. Ordered(rest, due, ticks[c])
  <2> HIDE DEF c
  <2> QED
    BY <1>1, <1>2, <1>3, RemoveOrdered
<1>8. AllNear(rest, due, ticks[c])
  <2>1. \A b \in Members(queue[c]) : Lead(due[b], ticks[c]) < Half
    BY <1>2 DEF AllNear, Members
  <2> HIDE DEF a, c, rest
  <2> QED
    BY <1>6, <2>1 DEF AllNear, Members
<1> HIDE DEF rest, a
<1>9. \A b \in Counter : b # c => queue'[b] = queue[b]
  BY <1>1, <1>5 DEF TInv, QInv, AlarmTypes
<1>10. \A b \in Alarm : b # a => queued'[b] = queued[b] /\ due'[b] = due[b]
  BY <1>1, <1>2, <1>5 DEF TInv, QInv, AlarmTypes
\* The queues of the other counters do not hold a.
<1>11. ASSUME NEW b \in Counter, b # c PROVE Ordered(queue[b], due', ticks[b])
  <2>1. queue[b] \in Seq(Alarm) /\ Ordered(queue[b], due, ticks[b])
    BY QueueTimely
  <2>2. a \notin Members(queue[b]) /\ Members(queue[b]) \subseteq Alarm
    BY <1>1, <1>11, <2>1, MembersOf DEF TInv, QInv, Queues
  <2>3. \A x \in Members(queue[b]) : due[x] = due'[x]
    BY <1>10, <2>2
  <2> QED
    BY <2>1, <2>3, SameTicks
<1>12. CASE queue' = [queue EXCEPT ![c] = rest] /\ queued' = [queued EXCEPT ![a] = FALSE]
            /\ due' = due
  <2>1. queue'[c] = rest /\ ~queued'[a]
    BY <1>1, <1>12 DEF TInv, QInv, AlarmTypes
  <2>2. Near'
    BY <1>5, <1>10, <1>12, <2>1 DEF TInv, Timely, Near
  <2>3. Heaps'
    BY <1>5, <1>7, <1>9, <1>11, <1>12, <2>1 DEF Heaps
  <2> QED
    BY <1>5, <2>2, <2>3 DEF TInv, Timely
<1>13. CASE /\ due' = [due EXCEPT ![a] = NextDue(a)] /\ queue' = [queue EXCEPT ![c] = again]
            /\ queued' = [queued EXCEPT ![a] = TRUE]
  <2>1. due' \in [Alarm -> Tick] /\ due'[a] = NextDue(a) /\ queue'[c] = again
    BY <1>1, <1>2, <1>4, <1>13 DEF TInv, QInv, AlarmTypes
  <2>2. Near'
    <3> SUFFICES ASSUME NEW b \in Alarm, queued'[b]
                 PROVE  /\ Lead(due'[b], ticks[CounterOf[b]]) < Half
                        /\ CounterOf[b] # ticking => Lead(due'[b], ticks[CounterOf[b]]) > 0
      BY <1>5 DEF Near
    <3>1. CASE b = a
      BY <1>1, <1>4, <2>1, <3>1
    <3>2. CASE b # a
      BY <1>10, <3>2 DEF TInv, Timely, Near
    <3> QED
      BY <3>1, <3>2
  <2>3. Ordered(again, due', ticks[c])
    <3>1. Ordered(rest, due', ticks[c]) /\ AllNear(rest, due', ticks[c])
      <4>1. a \notin Members(rest) /\ Members(rest) \subseteq Alarm
        BY <1>6, MembersOf
      <4>2. \A x \in Members(rest) : due[x] = due'[x]
        BY <1>10, <4>1
      <4> QED
        BY <1>6, <1>7, <1>8, <4>2, SameTicks
    <3>2. Lead(due'[a], ticks[c]) < Half
      BY <1>4, <2>1
    <3> HIDE DEF c
    <3> QED
      BY <1>1, <1>2, <1>6, <2>1, <3>1, <3>2, AddOrdered
  <2>4. Heaps'
    BY <1>5, <1>9, <1>11, <2>1, <2>3 DEF Heaps
  <2> QED
    BY <1>5, <2>2, <2>4 DEF TInv, Timely
<1> QED
  BY <1>5, <1>12, <1>13

\* A tick is over when the first alarm of the queue is not reached: then none is.
LEMMA NoneReached ==
  ASSUME TInv, NEW c \in Counter, ~Expired(c), NEW a \in Alarm, queued[a], CounterOf[a] = c
  PROVE  Lead(due[a], ticks[c]) > 0
<1> DEFINE q == queue[c]
           t == ticks[c]
<1>1. /\ q \in Seq(Alarm) /\ t \in Tick /\ due \in [Alarm -> Tick]
      /\ AllNear(q, due, t) /\ Ordered(q, due, t)
  BY QueueTimely
<1>2. a \in Members(q)
  BY DEF TInv, QInv, Queues
<1>3. PICK i \in 1 .. Len(q) : q[i] = a
  BY <1>2 DEF Members
<1>4. q # <<>> /\ Head(q) = q[1] /\ q[1] \in Members(q) /\ q[1] \in Alarm /\ Len(q) >= 1
  BY <1>1, <1>2, MembersOf
<1>5. CounterOf[q[1]] = c
  BY <1>4 DEF TInv, QInv, Queues
<1>6. ~TickLessThan(due[q[1]], t)
  BY <1>4, <1>5 DEF Expired
<1>7. 1 \in 1 .. Len(q)
  BY <1>1, <1>4, LenProperties
<1> HIDE DEF q, t
<1>8. due[q[1]] \in Tick /\ Lead(due[q[1]], t) < Half
  BY <1>1, <1>4, <1>7 DEF AllNear
<1>9. Lead(due[q[1]], t) # 0
  BY <1>1, <1>6, <1>8, TickReached
<1>10. Lead(due[q[1]], t) <= Lead(due[a], t)
  BY <1>1, <1>3, FirstIsEarliest
<1>11. Lead(due[q[1]], t) \in Tick /\ Lead(due[a], t) \in Tick
  BY <1>1, <1>8, LeadValue
<1>12. Lead(due[q[1]], t) \in Nat /\ Lead(due[a], t) \in Nat
  BY <1>11, Halves DEF Tick
<1>13. Lead(due[a], t) > 0
  BY <1>9, <1>10, <1>12
<1> QED
  BY <1>13 DEF t

LEMMA DoneTimely ==
  ASSUME TInv, TickDone
  PROVE  Timely'
<1>1. /\ ticking \in Counter /\ ~Expired(ticking) /\ ticking' = NONE
      /\ ticks' = ticks /\ queue' = queue /\ due' = due /\ cycle' = cycle /\ queued' = queued
  BY DEF TickDone, TInv, QInv, AlarmTypes
<1>2. Near'
  <2> SUFFICES ASSUME NEW a \in Alarm, queued[a]
               PROVE  /\ Lead(due[a], ticks[CounterOf[a]]) < Half
                      /\ Lead(due[a], ticks[CounterOf[a]]) > 0
    BY <1>1 DEF Near
  <2>1. CASE CounterOf[a] = ticking
    BY <1>1, <2>1, NoneReached DEF TInv, Timely, Near
  <2>2. CASE CounterOf[a] # ticking
    BY <2>2 DEF TInv, Timely, Near
  <2> QED
    BY <2>1, <2>2
<1> QED
  BY <1>1, <1>2 DEF TInv, Timely, Heaps

LEMMA TInvInit == Init => TInv
<1> SUFFICES ASSUME Init PROVE TInv
  OBVIOUS
<1>1. QInv
  BY QInvInit
<1>2. Near /\ \A a \in Alarm : cycle[a] < Half
  BY Halves DEF Init, Near
<1>3. Heaps
  <2>1. \A c \in Counter : queue[c] = <<>>
    BY DEF Init
  <2> QED
    BY <2>1 DEF Heaps, Ordered
<1> QED
  BY <1>1, <1>2, <1>3 DEF TInv, Timely

LEMMA TInvNext ==
  ASSUME ~Reset, AtMostThree, SetNear, TInv, [Next]_vars
  PROVE  TInv'
<1>1. QInv'
  BY QInvNext DEF TInv
<1>2. UNCHANGED <<ticks, queue, due, cycle, queued, ticking>> => Timely'
  BY DEF TInv, Timely, Near, Heaps
<1>3. CASE UNCHANGED vars
  BY <1>1, <1>2, <1>3 DEF vars, TInv
<1>4. \A s : Returns(s) => Timely'
  BY <1>2 DEF Returns
<1>5. CASE Next
  <2>1. Timely'
    BY <1>4, <1>5, NextCases, SetTimely, CancelTimely, IncrementTimely, TickTimely, DoneTimely
       DEF TInv
  <2> QED
    BY <1>1, <2>1 DEF TInv
<1> QED
  BY <1>3, <1>5

LEMMA TInvariance ==
  ASSUME ~Reset, AtMostThree, SetNear
  PROVE  Spec => []TInv
<1>1. Init => TInv
  BY TInvInit
<1>2. TInv /\ [Next]_vars => TInv'
  BY TInvNext
<1> QED
  BY <1>1, <1>2, PTL DEF Spec

\* No alarm is late when a tick is over, for any number of counters with at most three
\* alarms each, ticks of any width and any values set less than half their range ahead.
THEOREM AlarmsAreOnTime ==
  ASSUME ~Reset, AtMostThree, SetNear
  PROVE  Spec => []AlarmsOnTime
<1>1. TInv => AlarmsOnTime
  <2> SUFFICES ASSUME TInv, ticking = NONE, NEW a \in Alarm, queued[a]
               PROVE  ~TickLessThan(due[a], ticks[CounterOf[a]])
    BY DEF AlarmsOnTime
  <2> DEFINE t == ticks[CounterOf[a]]
  <2>1. CounterOf[a] \in Counter /\ CounterOf[a] # ticking
    BY Parameters
  <2>2. due[a] \in Tick /\ t \in Tick
    BY <2>1 DEF TInv, QInv, AlarmTypes
  <2>3. Lead(due[a], t) < Half /\ Lead(due[a], t) > 0
    BY <2>1 DEF TInv, Timely, Near
  <2> HIDE DEF t
  <2>4. ~TickLessThan(due[a], t)
    BY <2>2, <2>3, TickReached
  <2> QED
    BY <2>4 DEF t
<1> QED
  BY <1>1, TInvariance, PTL

-------------------------------------------------------------------------------
(* The alarms keep the promise of OsAlarmSpec *)

\* The ticks left until each alarm expires: the refinement mapping of Promise.
Left == [a \in Alarm |-> IF queued[a] THEN Remaining(a) ELSE NONE]

LEMMA LeftValues ==
  ASSUME NEW a \in Alarm
  PROVE  /\ Left[a] = IF queued[a] THEN Lead(due[a], ticks[CounterOf[a]]) ELSE NONE
         /\ Left'[a] = IF queued'[a] THEN Lead(due'[a], ticks'[CounterOf[a]]) ELSE NONE
BY DEF Left, Remaining, Lead

\* The steps of the promise, in terms of the mapping.
LEMMA PromisedSteps ==
  /\ Promise!Init <=> /\ Left = [a \in Alarm |-> NONE]
                      /\ cycle = [a \in Alarm |-> 0]
                      /\ ticking = NONE
  /\ \A a, n, k : Promise!Set(a, n, k) <=>
       /\ ticking = NONE /\ Left[a] = NONE
       /\ Left' = [Left EXCEPT ![a] = n] /\ cycle' = [cycle EXCEPT ![a] = k]
       /\ ticking' = ticking
  /\ \A a : Promise!Cancel(a) <=>
       /\ ticking = NONE /\ Left[a] # NONE
       /\ Left' = [Left EXCEPT ![a] = NONE] /\ cycle' = cycle /\ ticking' = ticking
  /\ \A c : Promise!Tick(c) <=>
       /\ ticking = NONE /\ ticking' = c
       /\ Left' = [a \in Alarm |-> IF CounterOf[a] = c /\ Left[a] # NONE
                                   THEN Left[a] - 1 ELSE Left[a]]
       /\ cycle' = cycle
  /\ \A a : Promise!Expire(a) <=>
       /\ ticking = CounterOf[a] /\ Left[a] = 0
       /\ Left' = [Left EXCEPT ![a] = IF cycle[a] = 0 THEN NONE ELSE cycle[a]]
       /\ cycle' = cycle /\ ticking' = ticking
  /\ Promise!TickDone <=>
       /\ ticking # NONE
       /\ \A a \in Alarm : CounterOf[a] = ticking => Left[a] # 0
       /\ ticking' = NONE /\ Left' = Left /\ cycle' = cycle
  /\ UNCHANGED Promise!vars <=> Left' = Left /\ cycle' = cycle /\ ticking' = ticking
<1> USE DEF Left, NONE, Promise!Idle, Promise!Off
<1>1. Promise!Init <=> /\ Left = [a \in Alarm |-> NONE]
                       /\ cycle = [a \in Alarm |-> 0]
                       /\ ticking = NONE
  BY DEF Promise!Init
<1>2. \A a, n, k : Promise!Set(a, n, k) <=>
        /\ ticking = NONE /\ Left[a] = NONE
        /\ Left' = [Left EXCEPT ![a] = n] /\ cycle' = [cycle EXCEPT ![a] = k]
        /\ ticking' = ticking
  BY Zenon DEF Promise!Set
<1>3. \A a : Promise!Cancel(a) <=>
        /\ ticking = NONE /\ Left[a] # NONE
        /\ Left' = [Left EXCEPT ![a] = NONE] /\ cycle' = cycle /\ ticking' = ticking
  BY Zenon DEF Promise!Cancel
<1>4. \A c : Promise!Tick(c) <=>
        /\ ticking = NONE /\ ticking' = c
        /\ Left' = [a \in Alarm |-> IF CounterOf[a] = c /\ Left[a] # NONE
                                    THEN Left[a] - 1 ELSE Left[a]]
        /\ cycle' = cycle
  BY Zenon DEF Promise!Tick
<1>5. \A a : Promise!Expire(a) <=>
        /\ ticking = CounterOf[a] /\ Left[a] = 0
        /\ Left' = [Left EXCEPT ![a] = IF cycle[a] = 0 THEN NONE ELSE cycle[a]]
        /\ cycle' = cycle /\ ticking' = ticking
  BY Zenon DEF Promise!Expire
<1>6. Promise!TickDone <=>
        /\ ticking # NONE
        /\ \A a \in Alarm : CounterOf[a] = ticking => Left[a] # 0
        /\ ticking' = NONE /\ Left' = Left /\ cycle' = cycle
  BY Zenon DEF Promise!TickDone
<1>7. UNCHANGED Promise!vars <=> Left' = Left /\ cycle' = cycle /\ ticking' = ticking
  BY Zenon DEF Promise!vars
<1> QED
  BY <1>1, <1>2, <1>3, <1>4, <1>5, <1>6, <1>7, Zenon

\* What is left of an alarm that a step does not touch stays.
LEMMA LeftStays ==
  ASSUME NEW a \in Alarm, queued'[a] = queued[a],
         queued[a] => due'[a] = due[a] /\ ticks'[CounterOf[a]] = ticks[CounterOf[a]]
  PROVE  Left'[a] = Left[a]
BY LeftValues

\* Left is a function on the alarms in every state.
LEMMA LeftIsFunction ==
  /\ Left = [a \in Alarm |-> Left[a]]
  /\ Left' = [a \in Alarm |-> Left'[a]]
BY DEF Left

LEMMA SetPromised ==
  ASSUME QInv, NEW a \in Alarm, NEW n \in Cycle[a], NEW k \in Tick, Sets(a, k, n)
  PROVE  Promise!Set(a, k, n)
<1> DEFINE c == CounterOf[a]
           t == Wrap(ticks[c] + k)
<1>1. c \in Counter /\ ticks[c] \in Tick
  BY Parameters DEF QInv, AlarmTypes
<1>2. Lead(t, ticks[c]) = k /\ t \in Tick
  BY <1>1, LeadOfSum
<1>3. /\ cycle' = [cycle EXCEPT ![a] = n] /\ due' = [due EXCEPT ![a] = t]
      /\ queued' = [queued EXCEPT ![a] = TRUE]
      /\ ticks' = ticks /\ ticking' = ticking /\ ticking = NONE /\ ~queued[a]
  BY Zenon DEF Sets, Started, Calling
<1> HIDE DEF t
<1>4. due'[a] = t /\ queued'[a]
  BY <1>3 DEF QInv, AlarmTypes
<1>5. Left[a] = NONE /\ Left'[a] = k
  BY <1>2, <1>3, <1>4, LeftValues
<1>6. ASSUME NEW b \in Alarm, b # a PROVE Left'[b] = Left[b]
  <2>1. queued'[b] = queued[b] /\ due'[b] = due[b]
    BY <1>3, <1>6 DEF QInv, AlarmTypes
  <2> QED
    BY <1>3, <2>1, LeftStays
<1>7. Left' = [Left EXCEPT ![a] = k]
  BY <1>5, <1>6, LeftIsFunction
<1> QED
  BY <1>3, <1>5, <1>7, PromisedSteps

LEMMA CancelPromised ==
  ASSUME TInv, NEW a \in Alarm, queued[a], CancelAlarm(a)
  PROVE  Promise!Cancel(a)
<1>1. /\ queued' = [queued EXCEPT ![a] = FALSE] /\ ticking = NONE
      /\ ticks' = ticks /\ due' = due /\ cycle' = cycle /\ ticking' = ticking
  BY DEF CancelAlarm, Calling
<1>2. ~queued'[a]
  BY <1>1 DEF TInv, QInv, AlarmTypes
<1>3. Left'[a] = NONE
  BY <1>2, LeftValues
<1>4. Left[a] # NONE
  <2>1. due[a] \in Tick /\ ticks[CounterOf[a]] \in Tick
    BY Parameters DEF TInv, QInv, AlarmTypes
  <2>2. Left[a] \in Tick
    BY <2>1, LeadValue, LeftValues
  <2> QED
    BY <2>2, Halves DEF Tick, NONE
<1>5. ASSUME NEW b \in Alarm, b # a PROVE Left'[b] = Left[b]
  <2>1. queued'[b] = queued[b]
    BY <1>1, <1>5 DEF TInv, QInv, AlarmTypes
  <2> QED
    BY <1>1, <2>1, LeftStays
<1>6. Left' = [Left EXCEPT ![a] = NONE]
  BY <1>3, <1>5, LeftIsFunction
<1> QED
  BY <1>1, <1>4, <1>6, PromisedSteps

\* What is left of a queued alarm of the counter was above 0, and shrinks by one.
LEMMA IncrementPromised ==
  ASSUME TInv, NEW c \in Counter, IncrementCounter(c)
  PROVE  Promise!Tick(c)
<1>1. /\ ticks' = [ticks EXCEPT ![c] = Wrap(ticks[c] + 1)] /\ ticking' = c /\ ticking = NONE
      /\ due' = due /\ cycle' = cycle /\ queued' = queued
  BY DEF IncrementCounter, Calling
<1>2. ticks'[c] = Wrap(ticks[c] + 1) /\ \A b \in Counter : b # c => ticks'[b] = ticks[b]
  BY <1>1 DEF TInv, QInv, AlarmTypes
<1>3. ASSUME NEW a \in Alarm
      PROVE  Left'[a] = IF CounterOf[a] = c /\ Left[a] # NONE THEN Left[a] - 1 ELSE Left[a]
  <2>1. CASE CounterOf[a] = c /\ queued[a]
    <3>1. due[a] \in Tick /\ ticks[c] \in Tick /\ queued'[a] /\ due'[a] = due[a]
      BY <1>1, <2>1 DEF TInv, QInv, AlarmTypes
    <3>2. Lead(due[a], ticks[c]) > 0
      BY <1>1, <2>1, Parameters DEF TInv, Timely, Near
    <3>3. Lead(due[a], ticks'[c]) = Lead(due[a], ticks[c]) - 1
      BY <1>2, <3>1, <3>2, LeadShrinks
    <3>4. Left[a] = Lead(due[a], ticks[c]) /\ Left'[a] = Lead(due[a], ticks'[c])
      BY <2>1, <3>1, LeftValues
    <3>5. Left[a] # NONE
      BY <3>2, <3>4 DEF NONE
    <3> QED
      BY <2>1, <3>3, <3>4, <3>5
  <2>2. CASE ~queued[a]
    BY <1>1, <2>2, LeftValues
  <2>3. CASE CounterOf[a] # c
    <3>1. ticks'[CounterOf[a]] = ticks[CounterOf[a]]
      BY <1>2, <2>3, Parameters
    <3> QED
      BY <1>1, <2>3, <3>1, LeftStays
  <2> QED
    BY <2>1, <2>2, <2>3
<1>4. Left' = [a \in Alarm |-> IF CounterOf[a] = c /\ Left[a] # NONE
                               THEN Left[a] - 1 ELSE Left[a]]
  BY <1>3, LeftIsFunction
<1> QED
  BY <1>1, <1>4, PromisedSteps

LEMMA TickPromised ==
  ASSUME TInv, AlarmTick
  PROVE  \E a \in Alarm : Promise!Expire(a)
<1> DEFINE c == ticking
<1>0. PICK a \in Alarm : a = Head(queue[c])
  BY HeadServed DEF TInv
<1>1. c \in Counter /\ queued[a] /\ CounterOf[a] = c
  BY <1>0, HeadServed DEF TInv
<1>2. Lead(due[a], ticks[c]) = 0 /\ NextDue(a) \in Tick /\ Lead(NextDue(a), ticks[c]) = cycle[a]
  BY <1>0, ServedAtItsTick
<1>3. /\ ticks' = ticks /\ cycle' = cycle /\ ticking' = ticking
      /\ \/ /\ cycle[a] = 0 /\ queued' = [queued EXCEPT ![a] = FALSE]
            /\ due' = due
         \/ /\ cycle[a] # 0 /\ due' = [due EXCEPT ![a] = NextDue(a)]
            /\ queued' = [queued EXCEPT ![a] = TRUE]
  BY <1>0, Zenon DEF AlarmTick
<1>4. Left[a] = 0
  BY <1>1, <1>2, LeftValues
<1>5. Left'[a] = IF cycle[a] = 0 THEN NONE ELSE cycle[a]
  <2>1. CASE cycle[a] = 0 /\ queued' = [queued EXCEPT ![a] = FALSE]
    <3>1. ~queued'[a]
      BY <1>1, <2>1 DEF TInv, QInv, AlarmTypes
    <3> QED
      BY <1>1, <2>1, <3>1, LeftValues
  <2>2. CASE /\ cycle[a] # 0 /\ due' = [due EXCEPT ![a] = NextDue(a)]
             /\ queued' = [queued EXCEPT ![a] = TRUE]
    <3>1. queued'[a] /\ due'[a] = NextDue(a)
      BY <1>1, <2>2 DEF TInv, QInv, AlarmTypes
    <3> QED
      BY <1>1, <1>2, <1>3, <2>2, <3>1, LeftValues
  <2> QED
    BY <1>3, <2>1, <2>2
<1>6. ASSUME NEW b \in Alarm, b # a PROVE Left'[b] = Left[b]
  <2>1. queued'[b] = queued[b] /\ due'[b] = due[b]
    BY <1>1, <1>3, <1>6 DEF TInv, QInv, AlarmTypes
  <2> QED
    BY <1>3, <2>1, LeftStays
<1>7. Left' = [Left EXCEPT ![a] = IF cycle[a] = 0 THEN NONE ELSE cycle[a]]
  BY <1>1, <1>5, <1>6, LeftIsFunction
<1>8. Promise!Expire(a)
  BY <1>1, <1>3, <1>4, <1>7, PromisedSteps
<1> QED
  BY <1>8

LEMMA DonePromised ==
  ASSUME TInv, TickDone
  PROVE  Promise!TickDone
<1>1. /\ ticking \in Counter /\ ticking # NONE /\ ~Expired(ticking) /\ ticking' = NONE
      /\ ticks' = ticks /\ due' = due /\ cycle' = cycle /\ queued' = queued
  BY DEF TickDone, TInv, QInv, AlarmTypes
<1>2. ASSUME NEW a \in Alarm, CounterOf[a] = ticking PROVE Left[a] # 0
  <2>1. CASE queued[a]
    <3>1. Lead(due[a], ticks[ticking]) > 0
      BY <1>1, <1>2, <2>1, NoneReached
    <3> QED
      BY <1>2, <2>1, <3>1, LeftValues
  <2>2. CASE ~queued[a]
    BY <2>2, LeftValues DEF NONE
  <2> QED
    BY <2>1, <2>2
<1>3. Left' = Left
  <2>1. \A a \in Alarm : Left'[a] = Left[a]
    BY <1>1, LeftStays
  <2> QED
    BY <2>1, LeftIsFunction
<1> QED
  BY <1>1, <1>2, <1>3, PromisedSteps

LEMMA StepPromised ==
  ASSUME ~Reset, SetNear, TInv, [Next]_vars
  PROVE  [Promise!Next]_(Promise!vars)
<1>1. UNCHANGED <<ticks, due, cycle, queued, ticking>> => UNCHANGED Promise!vars
  <2> SUFFICES ASSUME UNCHANGED <<ticks, due, cycle, queued, ticking>>
               PROVE  UNCHANGED Promise!vars
    OBVIOUS
  <2>1. \A a \in Alarm : Left'[a] = Left[a]
    BY LeftStays
  <2>2. Left' = Left
    BY <2>1, LeftIsFunction
  <2> QED
    BY <2>2, PromisedSteps
<1>2. CASE UNCHANGED vars
  BY <1>1, <1>2 DEF vars
<1>3. ASSUME NEW s \in Status, Returns(s) PROVE UNCHANGED Promise!vars
  BY <1>1, <1>3 DEF Returns
<1>4. ASSUME NEW a \in Alarm, NEW n \in Cycle[a], NEW k \in (Increment \ {0}) \cup Ahead,
             Sets(a, k, n)
      PROVE  Promise!Next
  <2>1. k \in Tick /\ k # 0
    <3>1. k \in 1 .. Half - 1
      BY Halves DEF SetNear
    <3> QED
      BY <3>1, Halves DEF Tick
  <2>2. Promise!Set(a, k, n)
    BY <1>4, <2>1, SetPromised DEF TInv
  <2>3. k \in (Increment \cup Ahead) \ {0} /\ n \in UNION {Cycle[b] : b \in Alarm}
    BY <2>1
  <2> QED
    BY <2>2, <2>3, Zenon DEF Promise!Next
<1>5. ASSUME NEW a \in Alarm, queued[a], CancelAlarm(a) PROVE Promise!Next
  <2>1. Promise!Cancel(a)
    BY <1>5, CancelPromised
  <2> QED
    BY <2>1, Zenon DEF Promise!Next
<1>6. ASSUME NEW c \in Counter, IncrementCounter(c) PROVE Promise!Next
  <2>1. Promise!Tick(c)
    BY <1>6, IncrementPromised
  <2> QED
    BY <2>1, Zenon DEF Promise!Next
<1>7. CASE AlarmTick
  <2>1. PICK a \in Alarm : Promise!Expire(a)
    BY <1>7, TickPromised
  <2> QED
    BY <2>1, Zenon DEF Promise!Next
<1>8. CASE TickDone
  <2>1. Promise!TickDone
    BY <1>8, DonePromised
  <2> QED
    BY <2>1, Zenon DEF Promise!Next
<1>9. CASE Next
  <2>1. QInv
    BY DEF TInv
  <2> QED
    BY <1>3, <1>4, <1>5, <1>6, <1>7, <1>8, <1>9, <2>1, NextCases, Zenon
<1> QED
  BY <1>2, <1>9

\* The alarms keep their promise, under the same conditions: an alarm expires exactly at
\* its tick and at each of its cycles, wherever the counter wraps and whichever place of
\* the heap it has, and no tick ends before every alarm that reached it was served.
THEOREM AlarmsKeepPromise ==
  ASSUME ~Reset, AtMostThree, SetNear
  PROVE  Spec => KeepsPromise
<1>1. Init => Promise!Init
  <2> SUFFICES ASSUME Init PROVE Promise!Init
    OBVIOUS
  <2>1. \A a \in Alarm : Left[a] = NONE
    BY LeftValues DEF Init
  <2>2. Left = [a \in Alarm |-> NONE]
    BY <2>1, LeftIsFunction
  <2>3. cycle = [a \in Alarm |-> 0] /\ ticking = NONE
    BY DEF Init
  <2> QED
    BY <2>2, <2>3, PromisedSteps
<1>2. TInv /\ [Next]_vars => [Promise!Next]_(Promise!vars)
  BY StepPromised
<1> QED
  BY <1>1, <1>2, TInvariance, PTL DEF Spec, KeepsPromise, Promise!Spec
===============================================================================
