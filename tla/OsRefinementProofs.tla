------------------------- MODULE OsRefinementProofs -------------------------
(***************************************************************************)
(* What stands above the kernel and below it.  Below, the link code of the *)
(* ready lists is right for every list, and so on every list the kernel    *)
(* reaches.  Above, the kernel implements OsSchedSpec, for every table of  *)
(* tasks and resources without internal ones, every conformance class and  *)
(* both values of OS_ERROR_EXT_ENABLE.                                     *)
(***************************************************************************)
EXTENDS OsReadyList, OsKernelProofs

-------------------------------------------------------------------------------
(* The links of the ready lists *)

\* The invalid index is no task.
LEMMA InvalidIsNoTask == INVALID \notin Task
BY CountsAssumption DEF Task, INVALID

\* The entries of a list, and when it has none.
LEMMA Entries ==
  ASSUME NEW s \in Seq(Task)
  PROVE  /\ Len(s) \in Nat
         /\ s = <<>> <=> Len(s) = 0
         /\ \A i \in 1 .. Len(s) : s[i] \in Task /\ s[i] \in Members(s) /\ s[i] # INVALID
<1>1. Len(s) \in Nat /\ (s = <<>> <=> Len(s) = 0)
  BY EmptySeq, LenProperties
<1>2. \A i \in 1 .. Len(s) : s[i] \in Task
  BY ElementOfSeq
<1> QED
  BY <1>1, <1>2, InvalidIsNoTask DEF Members

\* The parts of a list.
LEMMA ListParts ==
  ASSUME NEW l \in ReadyListType
  PROVE  l.head \in Link /\ l.tail \in Link /\ l.next \in [Task -> Link]
BY DEF ReadyListType

\* A list that represents a sequence has no tail, and no head, exactly when that is empty.
LEMMA Ends ==
  ASSUME NEW l, NEW s \in Seq(Task), Represents(l, s)
  PROVE  /\ l.tail = INVALID <=> s = <<>>
         /\ l.head = INVALID <=> s = <<>>
         /\ s # <<>> => l.head = s[1] /\ l.tail = s[Len(s)] /\ Len(s) >= 1
<1>1. CASE s = <<>>
  BY <1>1 DEF Represents
<1>2. CASE s # <<>>
  <2>1. Len(s) \in Nat /\ Len(s) >= 1
    BY <1>2, Entries
  <2>2. 1 \in 1 .. Len(s) /\ Len(s) \in 1 .. Len(s)
    BY <2>1
  <2>3. s[1] # INVALID /\ s[Len(s)] # INVALID
    BY <2>2, Entries
  <2> QED
    BY <1>2, <2>1, <2>3 DEF Represents
<1> QED
  BY <1>1, <1>2

\* A chain whose links are the same is a chain still.
LEMMA ChainFrame ==
  ASSUME NEW next, NEW other, NEW s \in Seq(Task), Chained(next, s),
         \A t \in Members(s) : other[t] = next[t]
  PROVE  Chained(other, s)
BY Entries DEF Chained

\* What each procedure does to the links: one or two of them change.
LEMMA LinksOfPushHead ==
  ASSUME NEW l \in ReadyListType, NEW t \in Task
  PROVE  /\ ReadyListPushHead(l, t).next[t] = l.head
         /\ \A u \in Task \ {t} : ReadyListPushHead(l, t).next[u] = l.next[u]
BY ListParts DEF ReadyListPushHead

LEMMA LinksOfPushTail ==
  ASSUME NEW l \in ReadyListType, NEW t \in Task
  PROVE  /\ l.head # INVALID => \A u \in Task : u = l.tail => ReadyListPushTail(l, t).next[u] = t
         /\ l.head = INVALID \/ t # l.tail => ReadyListPushTail(l, t).next[t] = INVALID
         /\ \A u \in Task \ {t} :
              l.head = INVALID \/ u # l.tail => ReadyListPushTail(l, t).next[u] = l.next[u]
BY DEF ReadyListPushTail

LEMMA LinksOfPopHead ==
  ASSUME NEW l \in ReadyListType, l.tail # INVALID
  PROVE  /\ ReadyListPopHead(l).head = l.next[l.head]
         /\ ReadyListPopHead(l).tail = IF l.tail = l.head THEN INVALID ELSE l.tail
         /\ \A u \in Task : u # l.head => ReadyListPopHead(l).next[u] = l.next[u]
BY ListParts DEF ReadyListPopHead

-------------------------------------------------------------------------------
(* The three procedures, on every list *)

\* Os_ReadyListPushHead puts a task in front of all others.
THEOREM PushHeadCorrect ==
  ASSUME NEW l \in ReadyListType, NEW s \in Seq(Task), NEW t \in Task,
         Represents(l, s), t \notin Members(s)
  PROVE  Represents(ReadyListPushHead(l, t), <<t>> \o s)
<1> DEFINE n == <<t>> \o s
           m == ReadyListPushHead(l, t)
<1>1. /\ n # <<>> /\ Len(n) = Len(s) + 1 /\ n[1] = t
      /\ \A i \in 1 .. Len(s) + 1 : i # 1 => i - 1 \in 1 .. Len(s) /\ n[i] = s[i - 1]
  BY PushFront
<1>2. Len(s) \in Nat /\ (s = <<>> <=> Len(s) = 0)
  BY Entries
<1>3. m.head = t /\ m.tail = IF l.tail = INVALID THEN t ELSE l.tail
  BY DEF ReadyListPushHead
<1>m. /\ m.next[t] = l.head
      /\ \A u \in Task \ {t} : m.next[u] = l.next[u]
  BY LinksOfPushHead
<1> HIDE DEF n, m
<1>4. m.tail = n[Len(n)]
  <2>1. CASE s = <<>>
    <3>1. l.tail = INVALID
      BY <2>1, Ends
    <3>2. Len(n) = 1
      BY <1>1, <1>2, <2>1
    <3> QED
      BY <1>1, <1>3, <3>1, <3>2
  <2>2. CASE s # <<>>
    <3>1. m.tail = s[Len(s)]
      BY <1>3, <2>2, Ends
    <3>2. n[Len(s) + 1] = s[Len(s)]
      BY <1>1, <1>2, <2>2
    <3> QED
      BY <1>1, <3>1, <3>2
  <2> QED
    BY <2>1, <2>2
<1>5. ASSUME NEW i \in 1 .. Len(n)
      PROVE  m.next[n[i]] = IF i = Len(n) THEN INVALID ELSE n[i + 1]
  <2>1. CASE i = 1
    <3>1. m.next[n[i]] = l.head
      BY <1>1, <2>1, <1>m
    <3>2. CASE s = <<>>
      <4>1. Len(n) = 1
        BY <1>1, <1>2, <3>2
      <4>2. l.head = INVALID
        BY <3>2, Ends
      <4> QED
        BY <2>1, <3>1, <4>1, <4>2
    <3>3. CASE s # <<>>
      <4>1. Len(n) # 1 /\ n[2] = s[1]
        BY <1>1, <1>2, <3>3
      <4> QED
        BY <2>1, <3>1, <3>3, <4>1, Ends
    <3> QED
      BY <3>2, <3>3
  <2>2. CASE i # 1
    <3>1. i - 1 \in 1 .. Len(s) /\ n[i] = s[i - 1]
      BY <1>1, <2>2
    <3>2. s[i - 1] \in Task \ {t}
      BY <3>1, Entries
    <3>3. m.next[n[i]] = l.next[s[i - 1]]
      BY <3>1, <3>2, <1>m
    <3>4. l.next[s[i - 1]] = IF i - 1 = Len(s) THEN INVALID ELSE s[i - 1 + 1]
      BY <3>1 DEF Represents, Chained
    <3>5. i # Len(n) => n[i + 1] = s[i]
      BY <1>1, <1>2, <3>1
    <3> QED
      BY <1>1, <1>2, <3>3, <3>4, <3>5
  <2> QED
    BY <2>1, <2>2
<1>6. Represents(m, n)
  BY <1>1, <1>3, <1>4, <1>5 DEF Represents, Chained
<1> QED
  BY <1>6 DEF n, m

\* Os_ReadyListPushTail puts a task behind all others.
THEOREM PushTailCorrect ==
  ASSUME NEW l \in ReadyListType, NEW s \in Seq(Task), NEW t \in Task,
         Represents(l, s), Distinct(s), t \notin Members(s)
  PROVE  Represents(ReadyListPushTail(l, t), Append(s, t))
<1> DEFINE n == Append(s, t)
           m == ReadyListPushTail(l, t)
<1>1. /\ n # <<>> /\ Len(n) = Len(s) + 1 /\ n[Len(s) + 1] = t
      /\ \A i \in 1 .. Len(s) : n[i] = s[i]
  BY AppendProperties
<1>2. Len(s) \in Nat /\ (s = <<>> <=> Len(s) = 0)
  BY Entries
<1>3. m.head = (IF l.head = INVALID THEN t ELSE l.head) /\ m.tail = t
  BY DEF ReadyListPushTail
<1>m. /\ l.head # INVALID => \A u \in Task : u = l.tail => m.next[u] = t
      /\ l.head = INVALID \/ t # l.tail => m.next[t] = INVALID
      /\ \A u \in Task \ {t} : l.head = INVALID \/ u # l.tail => m.next[u] = l.next[u]
  BY LinksOfPushTail
<1> HIDE DEF n, m
<1>4. m.head = n[1]
  <2>1. CASE s = <<>>
    <3>1. l.head = INVALID
      BY <2>1, Ends
    <3>2. Len(s) + 1 = 1
      BY <1>2, <2>1
    <3> QED
      BY <1>1, <1>3, <3>1, <3>2
  <2>2. CASE s # <<>>
    <3>1. m.head = s[1] /\ 1 \in 1 .. Len(s)
      BY <1>2, <1>3, <2>2, Ends
    <3> QED
      BY <1>1, <3>1
  <2> QED
    BY <2>1, <2>2
<1>5. ASSUME NEW i \in 1 .. Len(n)
      PROVE  m.next[n[i]] = IF i = Len(n) THEN INVALID ELSE n[i + 1]
  <2>1. CASE i = Len(n)
    <3>1. n[i] = t
      BY <1>1, <2>1
    <3>2. l.head = INVALID \/ t # l.tail
      <4>1. CASE s = <<>>
        BY <4>1, Ends
      <4>2. CASE s # <<>>
        <5>1. Len(s) \in 1 .. Len(s)
          BY <1>2, <4>2
        <5> QED
          BY <4>2, <5>1, Ends, Entries
      <4> QED
        BY <4>1, <4>2
    <3> QED
      BY <2>1, <3>1, <3>2, <1>m
  <2>2. CASE i # Len(n)
    <3>1. i \in 1 .. Len(s) /\ n[i] = s[i] /\ s # <<>>
      BY <1>1, <1>2, <2>2
    <3>2. s[i] \in Task \ {t}
      BY <3>1, Entries
    <3>3. l.head # INVALID /\ l.tail = s[Len(s)]
      BY <3>1, Ends
    <3>4. CASE i = Len(s)
      <4>1. m.next[s[i]] = t
        BY <3>2, <3>3, <3>4, <1>m
      <4> QED
        BY <1>1, <2>2, <3>1, <3>4, <4>1
    <3>5. CASE i # Len(s)
      <4>1. s[i] # l.tail
        <5>1. Len(s) \in 1 .. Len(s)
          BY <1>2, <3>1
        <5> QED
          BY <3>1, <3>3, <3>5, <5>1 DEF Distinct
      <4>2. m.next[s[i]] = l.next[s[i]]
        BY <3>2, <4>1, <1>m
      <4>3. l.next[s[i]] = s[i + 1]
        BY <3>1, <3>5 DEF Represents, Chained
      <4>4. n[i + 1] = s[i + 1]
        BY <1>1, <1>2, <3>1, <3>5
      <4> QED
        BY <2>2, <3>1, <4>2, <4>3, <4>4
    <3> QED
      BY <3>4, <3>5
  <2> QED
    BY <2>1, <2>2
<1>6. Represents(m, n)
  BY <1>1, <1>3, <1>4, <1>5 DEF Represents, Chained
<1> QED
  BY <1>6 DEF n, m

\* Os_ReadyListPopHead takes off the first task.
THEOREM PopHeadCorrect ==
  ASSUME NEW l \in ReadyListType, NEW s \in Seq(Task),
         Represents(l, s), Distinct(s), s # <<>>
  PROVE  l.head = Head(s) /\ Represents(ReadyListPopHead(l), Tail(s))
<1> DEFINE n == Tail(s)
           m == ReadyListPopHead(l)
<1>1. Len(s) \in Nat /\ Len(s) >= 1 /\ 1 \in 1 .. Len(s) /\ Len(s) \in 1 .. Len(s)
  BY Entries
<1>2. l.head = s[1] /\ l.tail = s[Len(s)] /\ l.tail # INVALID
  BY Ends
<1>3. Head(s) = s[1]
  BY MembersOf
<1>4. /\ n \in Seq(Task) /\ Len(n) = Len(s) - 1
      /\ \A i \in 1 .. Len(n) : n[i] = s[i + 1]
  BY HeadTailProperties
<1>5. /\ m.head = l.next[l.head]
      /\ m.tail = IF l.tail = l.head THEN INVALID ELSE l.tail
      /\ \A u \in Task : u # l.head => m.next[u] = l.next[u]
  BY <1>2, LinksOfPopHead
<1> HIDE DEF n, m
<1>6. n = <<>> <=> Len(s) = 1
  BY <1>1, <1>4, Entries
<1>7. m.head = IF n = <<>> THEN INVALID ELSE n[1]
  <2>1. l.next[s[1]] = IF 1 = Len(s) THEN INVALID ELSE s[1 + 1]
    BY <1>1 DEF Represents, Chained
  <2>2. n # <<>> => n[1] = s[2]
    BY <1>1, <1>4, <1>6
  <2> QED
    BY <1>2, <1>6, <1>5, <2>1, <2>2
<1>8. m.tail = IF n = <<>> THEN INVALID ELSE n[Len(n)]
  <2>1. l.tail = l.head <=> Len(s) = 1
    BY <1>1, <1>2 DEF Distinct
  <2>2. n # <<>> => n[Len(n)] = s[Len(s)]
    BY <1>1, <1>4, <1>6
  <2> QED
    BY <1>2, <1>6, <1>5, <2>1, <2>2
<1>9. ASSUME NEW i \in 1 .. Len(n)
      PROVE  m.next[n[i]] = IF i = Len(n) THEN INVALID ELSE n[i + 1]
  <2>1. i + 1 \in 1 .. Len(s) /\ n[i] = s[i + 1] /\ i + 1 # 1
    BY <1>1, <1>4
  <2>2. s[i + 1] \in Task /\ s[i + 1] # s[1]
    BY <1>1, <2>1, Entries DEF Distinct
  <2>3. m.next[n[i]] = l.next[s[i + 1]]
    BY <1>2, <1>5, <2>1, <2>2
  <2>4. l.next[s[i + 1]] = IF i + 1 = Len(s) THEN INVALID ELSE s[(i + 1) + 1]
    BY <2>1 DEF Represents, Chained
  <2>5. i # Len(n) => n[i + 1] = s[(i + 1) + 1]
    BY <1>1, <1>4
  <2> QED
    BY <1>1, <1>4, <2>3, <2>4, <2>5
<1>10. Represents(m, n)
  BY <1>7, <1>8, <1>9 DEF Represents, Chained
<1> QED
  BY <1>2, <1>3, <1>10 DEF n, m

-------------------------------------------------------------------------------
(* The lists the kernel reaches *)

\* Lists without repetition and without a common task.
Separate(ready) ==
  /\ ready \in [Prio -> Seq(Task)]
  /\ \A p \in Prio : Distinct(ready[p])
  /\ \A p, q \in Prio : \A t \in Task :
       t \in Members(ready[p]) /\ t \in Members(ready[q]) => p = q

\* The one place of a task, and what is behind it.
LEMMA BehindOne ==
  ASSUME NEW ready, Separate(ready), NEW p \in Prio, NEW i \in 1 .. Len(ready[p])
  PROVE  Behind(ready, ready[p][i]) = IF i = Len(ready[p]) THEN {} ELSE {ready[p][i + 1]}
<1> DEFINE t == ready[p][i]
<1>1. \A q \in Prio : ready[q] \in Seq(Task) /\ Len(ready[q]) \in Nat
  BY LenProperties DEF Separate
<1>2. ASSUME NEW q \in Prio, NEW j \in 1 .. Len(ready[q]) - 1, ready[q][j] = t
      PROVE  q = p /\ j = i
  <2>1. j \in 1 .. Len(ready[q])
    BY <1>1
  <2>2. t \in Members(ready[q]) /\ t \in Members(ready[p]) /\ t \in Task
    BY <1>1, <1>2, <2>1, Entries
  <2>3. q = p
    BY <2>2 DEF Separate
  <2> QED
    BY <1>2, <2>1, <2>3 DEF Separate, Distinct
<1>3. CASE i = Len(ready[p])
  <2>1. i \notin 1 .. Len(ready[p]) - 1
    BY <1>1, <1>3
  <2> QED
    BY <1>2, <1>3, <2>1 DEF Behind
<1>4. CASE i # Len(ready[p])
  <2>1. i \in 1 .. Len(ready[p]) - 1 /\ i + 1 \in 1 .. Len(ready[p])
    BY <1>1, <1>4
  <2>2. ready[p][i + 1] \in Task
    BY <1>1, <2>1, Entries
  <2>3. ready[p][i + 1] \in Behind(ready, t)
    BY <2>1, <2>2 DEF Behind
  <2>4. ASSUME NEW u \in Behind(ready, t) PROVE u = ready[p][i + 1]
    BY <1>2 DEF Behind
  <2> QED
    BY <1>4, <2>3, <2>4
<1> QED
  BY <1>3, <1>4

\* The links keep their type and make every list a chain.
LEMMA LinksChain ==
  ASSUME NEW ready, Separate(ready), NEW p \in Prio
  PROVE  /\ ListOf(ready, p) \in ReadyListType
         /\ ListOf(ready, p).next = LinksOf(ready)
         /\ Represents(ListOf(ready, p), ready[p])
<1> DEFINE s == ready[p]
<1>1. s \in Seq(Task) /\ Len(s) \in Nat /\ (s = <<>> <=> Len(s) = 0)
  BY Entries DEF Separate
<1>2. LinksOf(ready) \in [Task -> Link]
  <2>1. ASSUME NEW t \in Task, Behind(ready, t) # {}
        PROVE  (CHOOSE u \in Behind(ready, t) : TRUE) \in Task
    BY <2>1 DEF Behind
  <2> QED
    BY <2>1 DEF LinksOf, Link
<1>3. Chained(LinksOf(ready), s)
  <2> SUFFICES ASSUME NEW i \in 1 .. Len(s)
               PROVE  LinksOf(ready)[s[i]] = IF i = Len(s) THEN INVALID ELSE s[i + 1]
    BY DEF Chained
  <2>1. s[i] \in Task
    BY <1>1, Entries
  <2>2. Behind(ready, s[i]) = IF i = Len(s) THEN {} ELSE {s[i + 1]}
    BY BehindOne, ZenonT(60)
  <2>3. LinksOf(ready)[s[i]] = IF Behind(ready, s[i]) = {} THEN INVALID
                               ELSE CHOOSE u \in Behind(ready, s[i]) : TRUE
    BY <2>1 DEF LinksOf
  <2> QED
    BY <2>2, <2>3
<1>4. s # <<>> => s[1] \in Task /\ s[Len(s)] \in Task
  <2> SUFFICES ASSUME s # <<>> PROVE s[1] \in Task /\ s[Len(s)] \in Task
    OBVIOUS
  <2>1. 1 \in 1 .. Len(s) /\ Len(s) \in 1 .. Len(s)
    BY <1>1
  <2> QED
    BY <1>1, <2>1, Entries
<1> QED
  BY <1>2, <1>3, <1>4 DEF ListOf, ReadyListType, Represents, Link

\* What happens to one list leaves the chains of the others alone.
LEMMA OthersStay ==
  ASSUME NEW next, NEW ready, Separate(ready), NEW p \in Prio,
         \A t \in Task :
           (\E q \in Prio \ {p} : t \in Members(ready[q])) => next[t] = LinksOf(ready)[t]
  PROVE  \A q \in Prio \ {p} : Chained(next, ready[q])
<1> SUFFICES ASSUME NEW q \in Prio \ {p} PROVE Chained(next, ready[q])
  OBVIOUS
<1>1. ready[q] \in Seq(Task) /\ Members(ready[q]) \subseteq Task
  BY MembersOf DEF Separate
<1>2. Chained(LinksOf(ready), ready[q])
  BY LinksChain DEF Represents
<1>3. \A t \in Members(ready[q]) : next[t] = LinksOf(ready)[t]
  BY <1>1
<1> QED
  BY <1>1, <1>2, <1>3, ChainFrame

\* In an orderly application the links do, on every list the kernel
\* reaches, what its sequences say.
THEOREM LinksFollowLists ==
  ASSUME Orderly
  PROVE  Spec => []LinksFollow
<1>1. ASSUME IInv PROVE LinksFollow
  <2>1. Lists(os) /\ os.ready \in [Prio -> Seq(Task)]
    BY <1>1, KernelParts DEF IInv, KInv, Core
  <2>2. Separate(os.ready)
    BY <2>1 DEF Lists, Separate
  <2> SUFFICES ASSUME NEW p \in Prio
               PROVE  LET l == ListOf(os.ready, p)
                          s == os.ready[p]
                      IN  /\ Represents(l, s)
                          /\ s # <<>> =>
                               l.head = Head(s) /\ Becomes(ReadyListPopHead(l), p, Tail(s))
                          /\ \A t \in Task : (\A q \in Prio : ~InList(q, t)) =>
                               /\ Becomes(ReadyListPushHead(l, t), p, <<t>> \o s)
                               /\ Becomes(ReadyListPushTail(l, t), p, Append(s, t))
    BY DEF LinksFollow
  <2> DEFINE l == ListOf(os.ready, p)
             s == os.ready[p]
  <2>3. /\ l \in ReadyListType /\ l.next = LinksOf(os.ready) /\ Represents(l, s)
        /\ s \in Seq(Task) /\ Distinct(s)
    BY <2>2, LinksChain DEF Separate
  <2>4. \A q \in Prio \ {p} : \A t \in Task : t \in Members(os.ready[q]) => t \notin Members(s)
    BY <2>2 DEF Separate
  <2> HIDE DEF l
  <2>5. ASSUME s # <<>>
        PROVE  l.head = Head(s) /\ Becomes(ReadyListPopHead(l), p, Tail(s))
    <3>1. l.head = Head(s) /\ Represents(ReadyListPopHead(l), Tail(s))
      BY <2>3, <2>5, PopHeadCorrect
    <3>2. l.tail # INVALID /\ l.head \in Members(s)
      BY <2>3, <2>5, <3>1, Ends, MembersOf
    <3>3. \A t \in Task : t # l.head => ReadyListPopHead(l).next[t] = LinksOf(os.ready)[t]
      BY <2>3, <3>2, LinksOfPopHead
    <3>4. \A q \in Prio \ {p} : Chained(ReadyListPopHead(l).next, os.ready[q])
      BY <2>2, <2>4, <3>2, <3>3, OthersStay
    <3> QED
      BY <3>1, <3>4 DEF Becomes
  <2>6. ASSUME NEW t \in Task, \A q \in Prio : ~InList(q, t)
        PROVE  /\ Becomes(ReadyListPushHead(l, t), p, <<t>> \o s)
               /\ Becomes(ReadyListPushTail(l, t), p, Append(s, t))
    <3>1. \A q \in Prio : t \notin Members(os.ready[q])
      BY <2>1, <2>6, LenProperties DEF InList, Members
    <3>2. /\ Represents(ReadyListPushHead(l, t), <<t>> \o s)
          /\ Represents(ReadyListPushTail(l, t), Append(s, t))
      BY <2>3, <3>1, PushHeadCorrect, PushTailCorrect
    <3>3. \A u \in Task : u # t => ReadyListPushHead(l, t).next[u] = LinksOf(os.ready)[u]
      BY <2>3, LinksOfPushHead
    <3>4. \A q \in Prio \ {p} : Chained(ReadyListPushHead(l, t).next, os.ready[q])
      BY <2>2, <3>1, <3>3, OthersStay
    <3>5. ASSUME NEW u \in Task, u # t, u \notin Members(s)
          PROVE  ReadyListPushTail(l, t).next[u] = LinksOf(os.ready)[u]
      <4>1. l.head = INVALID \/ u # l.tail
        <5>1. CASE s = <<>>
          BY <2>3, <5>1, Ends
        <5>2. CASE s # <<>>
          <6>1. l.tail = s[Len(s)] /\ Len(s) \in 1 .. Len(s)
            BY <2>3, <5>2, Ends, Entries
          <6> QED
            BY <2>3, <3>5, <6>1, Entries
        <5> QED
          BY <5>1, <5>2
      <4> QED
        BY <2>3, <3>5, <4>1, LinksOfPushTail
    <3>6. \A q \in Prio \ {p} : Chained(ReadyListPushTail(l, t).next, os.ready[q])
      BY <2>2, <2>4, <3>1, <3>5, OthersStay
    <3> QED
      BY <3>2, <3>4, <3>6 DEF Becomes
  <2> QED
    BY <2>3, <2>5, <2>6 DEF l
<1> QED
  BY <1>1, Invariance, PTL

-------------------------------------------------------------------------------
(* The schedule: what a procedure does to the globals is stated first on the four values *)
(* they stand for, ToStart, StartedIn, HeldIn and ActivationsOf. *)

(* The values that the globals stand for *)

\* A preempted task waits at priority p.
Occupied(k, p) == \E t \in Task : k.state[t] = "READY" /\ k.priority[t] = p

\* It heads its list, and what waits to start is the rest.
LEMMA ToStartOf ==
  ASSUME NEW k, Core(k), NEW p \in Prio
  PROVE  /\ Occupied(k, p) => k.ready[p] # <<>> /\ ToStart(k)[p] = Tail(k.ready[p])
         /\ ~Occupied(k, p) => ToStart(k)[p] = k.ready[p]
         /\ ToStart(k)[p] # <<>> => k.ready[p] # <<>>
         /\ ToStart(k)[p] \in Seq(Task)
<1>1. k \in KernelType /\ k.ready[p] \in Seq(Task)
  BY KernelParts DEF Core
<1>2. ASSUME Occupied(k, p)
      PROVE  k.ready[p] # <<>> /\ k.state[Head(k.ready[p])] = "READY"
  BY <1>2 DEF Occupied, Core, Heads
<1>3. ASSUME k.ready[p] # <<>>, k.state[Head(k.ready[p])] = "READY"
      PROVE  Occupied(k, p)
  <2>1. Head(k.ready[p]) \in Members(k.ready[p]) /\ Head(k.ready[p]) \in Task
    BY <1>1, <1>3, MembersOf
  <2> QED
    BY <1>3, <2>1 DEF Occupied, Core, Lists
<1>4. ToStart(k)[p] = IF Occupied(k, p) THEN Tail(k.ready[p]) ELSE k.ready[p]
  BY <1>2, <1>3 DEF ToStart
<1>5. k.ready[p] # <<>> => Tail(k.ready[p]) \in Seq(Task)
  BY <1>1, PopFront
<1> QED
  BY <1>1, <1>2, <1>4, <1>5

LEMMA ToStartDomain ==
  ASSUME NEW k
  PROVE  ToStart(k) = [p \in Prio |-> ToStart(k)[p]]
BY DEF ToStart

\* A priority is above all that started tasks have and hold when it is above their current
\* priorities.
LEMMA AbovePriorities ==
  ASSUME NoInternal, NEW k, Core(k), NEW p \in Prio
  PROVE  Sched!Above(p, StartedIn(k), HeldIn(k)) <=>
           \A t \in Task : HasStarted(k, t) => k.priority[t] < p
<1>1. k \in KernelType /\ p \in Int
  BY Numbers DEF Core
<1>2. ASSUME NEW t \in Task, HasStarted(k, t)
      PROVE  /\ TaskPriority[t] \in Int /\ k.priority[t] \in Int /\ TaskPriority[t] <= k.priority[t]
             /\ \A r \in HeldIn(k)[t] : Ceiling[r] \in Int /\ Ceiling[r] <= k.priority[t]
             /\ \/ k.priority[t] = TaskPriority[t]
                \/ \E r \in HeldIn(k)[t] : k.priority[t] = Ceiling[r]
  <2>1. k.state[t] # "SUSPENDED"
    BY <1>2 DEF HasStarted
  <2>2. /\ k.held[t] \in Seq(Res) /\ DOMAIN k.held[t] = 1 .. Len(k.held[t])
        /\ HeldIn(k)[t] = {k.held[t][i] : i \in 1 .. Len(k.held[t])}
    BY <1>1, KernelParts DEF HeldIn
  <2>3. \A i \in 1 .. Len(k.held[t]) : /\ k.held[t][i] \in Res
                                       /\ Ceiling[k.held[t][i]] <= k.priority[t]
    BY <2>1, CeilingBounds
  <2>4. k.priority[t] = PriorityBelow(t, k.held[t])
    BY <2>1 DEF Core, Strict, Idling
  <2>5. k.held[t] # <<>> => Head(k.held[t]) \in HeldIn(k)[t]
    <3>1. k.held[t] # <<>> => Head(k.held[t]) = k.held[t][1] /\ 1 \in 1 .. Len(k.held[t])
      BY <2>2, EmptySeq
    <3> QED
      BY <2>2, <3>1
  <2> QED
    BY <2>1, <2>2, <2>3, <2>4, <2>5, PriorityBounds, Numbers DEF PriorityBelow
<1>3. \A t \in Task : t \in StartedIn(k) <=> HasStarted(k, t)
  BY DEF StartedIn, HasStarted
<1>4. StartedIn(k) \subseteq Task
  BY DEF StartedIn
<1>5. ASSUME \A t \in Task : HasStarted(k, t) => k.priority[t] < p,
             NEW t \in StartedIn(k)
      PROVE  TaskPriority[t] < p /\ \A r \in HeldIn(k)[t] : Ceiling[r] < p
  <2>1. t \in Task /\ HasStarted(k, t) /\ k.priority[t] < p
    BY <1>3, <1>4, <1>5
  <2> QED
    BY <1>1, <1>2, <2>1
<1>6. ASSUME Sched!Above(p, StartedIn(k), HeldIn(k)), NEW t \in Task, HasStarted(k, t)
      PROVE  k.priority[t] < p
  <2>1. TaskPriority[t] < p /\ \A r \in HeldIn(k)[t] : Ceiling[r] < p
    BY <1>3, <1>6 DEF Sched!Above
  <2> QED
    BY <1>2, <1>6, <2>1
<1> QED
  BY <1>5, <1>6 DEF Sched!Above

-------------------------------------------------------------------------------
(* Os_Schedule_Internal *)

Open(k) == {p \in Prio : ToStart(k)[p] # <<>> /\ Sched!Above(p, StartedIn(k), HeldIn(k))}

\* Dispatch of OsSchedSpec, for two values of the globals.
Dispatches(k, k2) ==
  /\ \/ Open(k) = {} /\ ToStart(k2) = ToStart(k) /\ StartedIn(k2) = StartedIn(k)
     \/ \E p \in Open(k) :
          /\ \A o \in Open(k) : o <= p
          /\ ToStart(k2) = [ToStart(k) EXCEPT ![p] = Tail(ToStart(k)[p])]
          /\ StartedIn(k2) = StartedIn(k) \cup {Head(ToStart(k)[p])}
  /\ Running(k2) <=> StartedIn(k2) # {}

\* Nothing is dispatched when no list above the running task is filled.
LEMMA NothingOpen ==
  ASSUME NoInternal, NEW k, Core(k), Highest(k),
         ~Running(k) => \A p \in Prio : k.ready[p] = <<>>
  PROVE  Open(k) = {} /\ (Running(k) <=> StartedIn(k) # {})
<1>1. ASSUME NEW p \in Open(k) PROVE FALSE
  <2>1. p \in Prio /\ k.ready[p] # <<>> /\ Sched!Above(p, StartedIn(k), HeldIn(k))
    BY <1>1, ToStartOf DEF Open
  <2>2. Running(k)
    BY <2>1
  <2>3. k.active \in Task /\ k.state[k.active] = "RUNNING" /\ HasStarted(k, k.active)
    BY <2>2 DEF Running, HasStarted
  <2>4. k.priority[k.active] < p
    BY <2>1, <2>3, AbovePriorities
  <2>5. k.priority[k.active] \in Int /\ p \in Int
    BY <2>1, <2>3, PriorityBounds, Numbers
  <2> QED
    BY <2>1, <2>3, <2>4, <2>5 DEF Highest
<1>2. Running(k) => StartedIn(k) # {}
  BY DEF Running, StartedIn
<1>3. ASSUME ~Running(k), NEW t \in StartedIn(k) PROVE FALSE
  <2>1. t \in Task /\ k.state[t] \in {"RUNNING", "READY"}
    BY <1>3 DEF StartedIn
  <2>2. k.state[t] = "READY"
    BY <1>3, <2>1 DEF Core, OneRunning, Running
  <2>3. k.ready[k.priority[t]] # <<>> /\ k.priority[t] \in Prio
    BY <2>1, <2>2 DEF Core, Heads, Lists, Waits
  <2> QED
    BY <1>3, <2>3
<1> QED
  BY <1>1, <1>2, <1>3

\* What dispatching t from list p changes in the states and in the lists: the running task
\* goes in front of its list, and the head of the highest list leaves it to run.
Swapped(k, k2, p, t) ==
  /\ p \in Prio /\ t \in Task /\ k.ready[p] # <<>> /\ t = Head(k.ready[p])
  /\ \A q \in Prio : q > p => k.ready[q] = <<>>
  /\ Running(k) => k.priority[k.active] \in Prio /\ k.priority[k.active] < p
  /\ Running(k2) /\ k2.active = t
  /\ k2.state[t] = "RUNNING"
  /\ Running(k) => k.active # t /\ k2.state[k.active] = "READY"
  /\ \A u \in Task : u # t /\ (Running(k) => u # k.active) => k2.state[u] = k.state[u]
  /\ k2.ready[p] = Tail(k.ready[p])
  /\ \A q \in Prio : q # p =>
       k2.ready[q] = IF Running(k) /\ q = k.priority[k.active]
                     THEN <<k.active>> \o k.ready[q] ELSE k.ready[q]

LEMMA ScheduleFields ==
  ASSUME NEW k, Core(k), NEW k2, k2 = Schedule_Internal(k)
  PROVE  \/ /\ k2.state = k.state /\ k2.ready = k.ready /\ k2.active = k.active
            /\ ~Running(k) => \A p \in Prio : k.ready[p] = <<>>
         \/ \E p \in Prio, t \in Task : Swapped(k, k2, p, t)
<1>1. k \in KernelType
  BY DEF Core
<1> DEFINE min == IF Running(k) THEN k.priority[k.active] ELSE -1
           task == TaskPeek(k, min)
<1>2. min \in Int /\ min >= -1
  BY <1>1, KernelParts, Numbers DEF Running
<1>3. CASE task = INVALID
  <2>1. \A q \in Prio : q > min => k.ready[q] = <<>>
    BY <1>1, <1>2, <1>3, Peek, Numbers
  <2>2. k2 = [k EXCEPT !.status = "E_OK"]
    BY <1>3 DEF Schedule_Internal, Fail
  <2>3. k2.state = k.state /\ k2.ready = k.ready /\ k2.active = k.active
    BY <1>1, <2>2 DEF KernelType
  <2>4. ~Running(k) => \A p \in Prio : k.ready[p] = <<>>
    BY <2>1, Numbers
  <2> QED
    BY <2>3, <2>4
<1>4. CASE task # INVALID
  <2>1. PICK p \in Prio : /\ p > min
                          /\ k.ready[p] # <<>>
                          /\ task = Head(k.ready[p])
                          /\ \A q \in Prio : q > p => k.ready[q] = <<>>
    BY <1>1, <1>2, <1>4, Peek
  <2> DEFINE m == Preempted(k)
  <2>2. k2 = Dispatched(m, task)
    BY <1>4, Zenon DEF Schedule_Internal, Dispatched
  <2> HIDE DEF task
  <2>3. task \in Members(k.ready[p]) /\ task \in Task
    BY <1>1, <2>1, KernelParts, MembersOf
  <2>4. k2.active = task
    BY <2>2 DEF Dispatched
  <2>5. CASE Running(k)
    <3>1. k.priority[k.active] < p /\ k.priority[k.active] \in Prio
      <4>1. k.active \in Task /\ k.state[k.active] # "SUSPENDED"
        BY <2>5 DEF Running
      <4>2. TaskPriority[k.active] <= k.priority[k.active] /\ k.priority[k.active] \in Int
        BY <4>1, PriorityBounds
      <4> QED
        BY <2>1, <2>5, <4>1, <4>2, Numbers DEF Prio
    <3>2. m = Running_To_Ready(k, k.active)
      BY <2>5, Zenon DEF Preempted
    <3> HIDE DEF m
    <3>3. Core(m)
      BY <2>5, <3>1, <3>2, PreemptCore
    <3>4. /\ m.state[k.active] = "READY"
          /\ \A u \in Task : u # k.active => m.state[u] = k.state[u]
          /\ m.ready[k.priority[k.active]] = <<k.active>> \o k.ready[k.priority[k.active]]
          /\ \A q \in Prio : q # k.priority[k.active] => m.ready[q] = k.ready[q]
      BY <1>1, <2>5, <3>1, <3>2, PreemptFields, SMTT(30)
    <3>5. p # k.priority[k.active]
      BY <3>1, PrioOrder, Numbers
    <3>6. m.ready[p] = k.ready[p]
      BY <3>4, <3>5
    <3>7. /\ k2.state[task] = "RUNNING"
          /\ \A u \in Task : u # task => k2.state[u] = m.state[u]
          /\ k2.ready[p] = Tail(m.ready[p])
          /\ \A q \in Prio : q # p => k2.ready[q] = m.ready[q]
      BY <2>1, <2>2, <3>3, <3>6, DispatchMoves, SMTT(30)
    <3>8. k.active \in Task /\ task # k.active
      BY <2>3, <2>5 DEF Core, Lists, Running, Waits
    <3>9. k2.state[k.active] = "READY"
      BY <3>4, <3>7, <3>8, SMTT(30)
    <3>10. \A u \in Task : u # task /\ u # k.active => k2.state[u] = k.state[u]
      BY <3>4, <3>7
    <3>11. \A q \in Prio : q # p =>
             k2.ready[q] = IF q = k.priority[k.active] THEN <<k.active>> \o k.ready[q]
                           ELSE k.ready[q]
      BY <3>4, <3>7, ZenonT(60)
    <3>12. Running(k2)
      BY <2>3, <2>4, <3>7 DEF Running
    <3> QED
      BY <2>1, <2>3, <2>4, <2>5, <3>1, <3>6, <3>7, <3>8, <3>9, <3>10, <3>11, <3>12 DEF Swapped
  <2>6. CASE ~Running(k)
    <3>1. m = k
      BY <2>6 DEF Preempted
    <3>2. /\ k2.state[task] = "RUNNING"
          /\ \A u \in Task : u # task => k2.state[u] = k.state[u]
          /\ k2.ready[p] = Tail(k.ready[p])
          /\ \A q \in Prio : q # p => k2.ready[q] = k.ready[q]
      BY <2>1, <2>2, <3>1, DispatchMoves
    <3>3. Running(k2)
      BY <2>3, <2>4, <3>2 DEF Running
    <3> QED
      BY <2>1, <2>3, <2>4, <2>6, <3>2, <3>3 DEF Swapped
  <2> QED
    BY <2>5, <2>6
<1> QED
  BY <1>3, <1>4

\* The first element leaves a list it was pushed to.
LEMMA TailOfPush ==
  ASSUME NEW l \in Seq(Task), NEW a \in Task
  PROVE  Tail(<<a>> \o l) = l
<1>1. /\ <<a>> \o l \in Seq(Task) /\ <<a>> \o l # <<>> /\ Len(<<a>> \o l) = Len(l) + 1
      /\ \A i \in 1 .. Len(l) + 1 :
           i # 1 => i - 1 \in 1 .. Len(l) /\ (<<a>> \o l)[i] = l[i - 1]
  BY PushFront
<1> DEFINE n == <<a>> \o l
<1> HIDE DEF n
<1>2. /\ Tail(n) \in Seq(Task)
      /\ \A i \in 1 .. Len(Tail(n)) : Tail(n)[i] = n[i + 1]
  BY <1>1, PopFront DEF n
<1>3. Len(Tail(n)) = Len(l) /\ Len(l) \in Nat
  BY <1>1, HeadTailProperties, LenProperties DEF n
<1>4. ASSUME NEW i \in 1 .. Len(l) PROVE Tail(n)[i] = l[i]
  <2>1. i + 1 \in 1 .. Len(l) + 1 /\ i + 1 # 1 /\ (i + 1) - 1 = i
    BY <1>3
  <2>2. n[i + 1] = l[(i + 1) - 1]
    BY <1>1, <2>1 DEF n
  <2> QED
    BY <1>2, <1>3, <2>1, <2>2
<1> QED
  BY <1>2, <1>3, <1>4, SeqEqual DEF n

\* What waits to start in the other lists stays, and no preempted task is left in its list.
LEMMA SwappedLists ==
  ASSUME NEW k, Core(k), NEW k2, Core(k2), k2.priority = k.priority,
         NEW p \in Prio, NEW t \in Task, Swapped(k, k2, p, t)
  PROVE  /\ \A q \in Prio : q # p => ToStart(k2)[q] = ToStart(k)[q]
         /\ ToStart(k2)[p] = Tail(k.ready[p])
         /\ k.priority[t] = p /\ Waits(k, t)
<1>1. k \in KernelType /\ k2 \in KernelType /\ k.ready[p] \in Seq(Task)
  BY KernelParts DEF Core
<1>2. k.priority[t] = p /\ Waits(k, t)
  <2>1. t \in Members(k.ready[p])
    BY <1>1, MembersOf DEF Swapped
  <2> QED
    BY <2>1 DEF Core, Lists
<1>3. ASSUME NEW u \in Task, k2.state[u] = "READY", ~(Running(k) /\ u = k.active)
      PROVE  k.state[u] = "READY" /\ u # t
  BY <1>3 DEF Swapped
<1>4. ASSUME NEW u \in Task, k.state[u] = "READY", u # t
      PROVE  k2.state[u] = "READY" /\ ~(Running(k) /\ u = k.active)
  BY <1>4 DEF Swapped, Running
<1>5. ASSUME NEW u \in Task, k.state[u] = "READY", k.priority[u] = p
      PROVE  u = t
  BY <1>5 DEF Core, Heads, Swapped
<1>6. ~Occupied(k2, p)
  <2>1. ASSUME NEW u \in Task, k2.state[u] = "READY", k2.priority[u] = p
        PROVE  FALSE
    <3>1. CASE Running(k) /\ u = k.active
      BY <2>1, <3>1, Numbers DEF Swapped
    <3>2. CASE ~(Running(k) /\ u = k.active)
      BY <1>3, <1>5, <2>1, <3>2
    <3> QED
      BY <3>1, <3>2
  <2> QED
    BY <2>1 DEF Occupied
<1>7. ToStart(k2)[p] = Tail(k.ready[p])
  BY <1>6, ToStartOf DEF Swapped
<1>8. ASSUME NEW q \in Prio, q # p
      PROVE  ToStart(k2)[q] = ToStart(k)[q]
  <2>1. CASE Running(k) /\ q = k.priority[k.active]
    <3>1. k.active \in Task /\ HasStarted(k, k.active) /\ k.state[k.active] # "READY"
      BY <2>1 DEF Running, HasStarted
    <3>2. ~Occupied(k, q)
      <4>1. ASSUME NEW u \in Task, k.state[u] = "READY", k.priority[u] = q PROVE FALSE
        <5>1. HasStarted(k, u) /\ u # k.active
          BY <3>1, <4>1 DEF HasStarted
        <5> QED
          BY <2>1, <3>1, <4>1, <5>1, StartedApart
      <4> QED
        BY <4>1 DEF Occupied
    <3>3. Occupied(k2, q)
      BY <2>1, <3>1 DEF Occupied, Swapped
    <3>4. k2.ready[q] = <<k.active>> \o k.ready[q]
      BY <1>8, <2>1 DEF Swapped
    <3>5. k.ready[q] \in Seq(Task)
      BY <1>1, KernelParts
    <3>6. Tail(<<k.active>> \o k.ready[q]) = k.ready[q]
      BY <3>1, <3>5, TailOfPush
    <3> QED
      BY <3>2, <3>3, <3>4, <3>6, ToStartOf
  <2>2. CASE ~(Running(k) /\ q = k.priority[k.active])
    <3>1. k2.ready[q] = k.ready[q]
      BY <1>8, <2>2 DEF Swapped
    <3>2. ASSUME Occupied(k2, q) PROVE Occupied(k, q)
      <4>1. PICK u \in Task : k2.state[u] = "READY" /\ k2.priority[u] = q
        BY <3>2 DEF Occupied
      <4>2. k.state[u] = "READY" /\ k.priority[u] = q
        BY <1>3, <2>2, <4>1
      <4> QED
        BY <4>2 DEF Occupied
    <3>3. ASSUME Occupied(k, q) PROVE Occupied(k2, q)
      <4>1. PICK u \in Task : k.state[u] = "READY" /\ k.priority[u] = q
        BY <3>3 DEF Occupied
      <4>2. u # t
        BY <1>2, <1>8, <4>1
      <4>3. k2.state[u] = "READY" /\ k2.priority[u] = q
        BY <1>4, <4>1, <4>2
      <4> QED
        BY <4>3 DEF Occupied
    <3> QED
      BY <3>1, <3>2, <3>3, ToStartOf
  <2> QED
    BY <2>1, <2>2
<1> QED
  BY <1>2, <1>7, <1>8

LEMMA SwappedStarted ==
  ASSUME NEW k, NEW k2, NEW p, NEW t, Swapped(k, k2, p, t)
  PROVE  StartedIn(k2) = StartedIn(k) \cup {t}
<1>1. t \in Task /\ t \in StartedIn(k2)
  BY DEF Swapped, StartedIn
<1>2. ASSUME NEW u \in Task, u # t PROVE u \in StartedIn(k2) <=> u \in StartedIn(k)
  BY <1>2 DEF Swapped, StartedIn, Running
<1>3. StartedIn(k) \subseteq Task /\ StartedIn(k2) \subseteq Task
  BY DEF StartedIn
<1> QED
  BY <1>1, <1>2, <1>3

\* Os_Schedule_Internal dispatches as promised: a task starts when its list is above all
\* that has started, and otherwise the last one preempted goes on.
LEMMA SchedulePromised ==
  ASSUME NoInternal, NEW k, Core(k), NEW k2, k2 = Schedule_Internal(k)
  PROVE  /\ Dispatches(k, k2)
         /\ HeldIn(k2) = HeldIn(k) /\ ActivationsOf(k2) = ActivationsOf(k)
<1>1. /\ Core(k2) /\ Highest(k2)
      /\ \A u \in Task : k2.state[u] = "SUSPENDED" <=> k.state[u] = "SUSPENDED"
      /\ k2.activation = k.activation /\ k2.held = k.held /\ k2.priority = k.priority
  BY ScheduleCore
<1>2. HeldIn(k2) = HeldIn(k) /\ ActivationsOf(k2) = ActivationsOf(k)
  BY <1>1 DEF HeldIn, ActivationsOf
<1>3. CASE /\ k2.state = k.state /\ k2.ready = k.ready /\ k2.active = k.active
           /\ ~Running(k) => \A p \in Prio : k.ready[p] = <<>>
  <2>1. Highest(k)
    BY <1>1, <1>3 DEF Highest
  <2>2. Open(k) = {} /\ (Running(k) <=> StartedIn(k) # {})
    BY <1>3, <2>1, NothingOpen
  <2>3. /\ ToStart(k2) = ToStart(k) /\ StartedIn(k2) = StartedIn(k)
        /\ Running(k2) <=> Running(k)
    BY <1>3 DEF ToStart, StartedIn, Running
  <2> QED
    BY <1>2, <2>2, <2>3 DEF Dispatches
<1>4. ASSUME NEW p \in Prio, NEW t \in Task, Swapped(k, k2, p, t)
      PROVE  Dispatches(k, k2)
  <2>1. /\ \A q \in Prio : q # p => ToStart(k2)[q] = ToStart(k)[q]
        /\ ToStart(k2)[p] = Tail(k.ready[p])
        /\ k.priority[t] = p /\ Waits(k, t)
    BY <1>1, <1>4, SwappedLists
  <2>2. StartedIn(k2) = StartedIn(k) \cup {t}
    BY <1>4, SwappedStarted
  <2>3. Running(k2) <=> StartedIn(k2) # {}
    BY <1>4, <2>2 DEF Swapped
  <2>4. \A o \in Open(k) : o \in Prio /\ o <= p
    <3>1. ASSUME NEW o \in Open(k) PROVE o \in Prio /\ o <= p
      <4>1. o \in Prio /\ k.ready[o] # <<>>
        BY ToStartOf DEF Open
      <4> QED
        BY <1>4, <4>1, PrioOrder, Numbers DEF Swapped
    <3> QED
      BY <3>1
  <2>5. CASE k.state[t] = "READY"
    <3>1. t \in StartedIn(k) /\ HasStarted(k, t)
      BY <2>5 DEF StartedIn, HasStarted
    <3>2. ASSUME NEW o \in Open(k) PROVE FALSE
      <4>1. o \in Prio /\ Sched!Above(o, StartedIn(k), HeldIn(k)) /\ o <= p
        BY <2>4 DEF Open
      <4>2. k.priority[t] < o
        BY <3>1, <4>1, AbovePriorities
      <4> QED
        BY <2>1, <4>1, <4>2, Numbers
    <3>3. Occupied(k, p)
      BY <2>1, <2>5 DEF Occupied
    <3>4. ToStart(k2)[p] = ToStart(k)[p]
      BY <2>1, <3>3, ToStartOf
    <3>5. \A q \in Prio : ToStart(k2)[q] = ToStart(k)[q]
      BY <2>1, <3>4
    <3>6. ToStart(k2) = ToStart(k)
      BY <3>5, ToStartDomain
    <3> QED
      BY <2>2, <2>3, <3>1, <3>2, <3>6 DEF Dispatches
  <2>6. CASE k.state[t] = "READY_FIRST"
    <3>1. ~Occupied(k, p)
      BY <1>4, <2>6 DEF Occupied, Core, Heads, Swapped
    <3>2. ToStart(k)[p] = k.ready[p] /\ ToStart(k)[p] # <<>>
      BY <1>4, <3>1, ToStartOf DEF Swapped
    <3>3. ASSUME NEW u \in Task, HasStarted(k, u) PROVE k.priority[u] < p
      <4>1. CASE k.state[u] = "RUNNING"
        BY <1>4, <4>1 DEF Swapped, Core, OneRunning, Running
      <4>2. CASE k.state[u] = "READY"
        <5>1. k.priority[u] \in Prio /\ k.ready[k.priority[u]] # <<>> /\ k.priority[u] # p
          BY <3>1, <4>2 DEF Core, Lists, Waits, Heads, Occupied
        <5> QED
          BY <1>4, <5>1, PrioOrder DEF Swapped
      <4> QED
        BY <3>3, <4>1, <4>2 DEF HasStarted
    <3>4. Sched!Above(p, StartedIn(k), HeldIn(k))
      BY <3>3, AbovePriorities
    <3>5. p \in Open(k)
      BY <3>2, <3>4 DEF Open
    <3>6. t = Head(ToStart(k)[p])
      BY <1>4, <3>2 DEF Swapped
    <3>7. ToStart(k2) = [ToStart(k) EXCEPT ![p] = Tail(ToStart(k)[p])]
      BY <2>1, <3>2, ToStartDomain, Zenon
    <3> QED
      BY <2>2, <2>3, <2>4, <3>5, <3>6, <3>7 DEF Dispatches
  <2> QED
    BY <2>1, <2>5, <2>6 DEF Waits
<1> QED
  BY <1>2, <1>3, <1>4, ScheduleFields

-------------------------------------------------------------------------------
(* What the other procedures do to the schedule *)

\* The schedule follows from these fields.
LEMMA SameView ==
  ASSUME NEW k, NEW k2
  PROVE  /\ k2.state = k.state /\ k2.ready = k.ready =>
              ToStart(k2) = ToStart(k) /\ StartedIn(k2) = StartedIn(k)
         /\ k2.held = k.held => HeldIn(k2) = HeldIn(k)
         /\ k2.state = k.state /\ k2.activation = k.activation =>
              ActivationsOf(k2) = ActivationsOf(k)
         /\ k2.state = k.state /\ k2.active = k.active => Running(k2) = Running(k)
BY SMTT(30) DEF ToStart, StartedIn, HeldIn, ActivationsOf, Running

LEMMA TailOfAppend ==
  ASSUME NEW l \in Seq(Task), l # <<>>, NEW a \in Task
  PROVE  Tail(Append(l, a)) = Append(Tail(l), a)
<1>1. /\ Append(l, a) \in Seq(Task) /\ Len(Append(l, a)) = Len(l) + 1
      /\ \A i \in 1 .. Len(l) : Append(l, a)[i] = l[i]
      /\ Append(l, a)[Len(l) + 1] = a
  BY AppendProperties
<1>2. /\ Tail(l) \in Seq(Task) /\ Len(Tail(l)) = Len(l) - 1 /\ Len(l) \in Nat /\ Len(l) # 0
      /\ \A i \in 1 .. Len(l) - 1 : Tail(l)[i] = l[i + 1]
  BY HeadTailProperties, LenProperties, PopFront, EmptySeq
<1> DEFINE n == Append(l, a)
           s == Tail(l)
<1>3. n # <<>>
  BY PushBack
<1>4. /\ Append(s, a) \in Seq(Task) /\ Len(Append(s, a)) = Len(l)
      /\ \A i \in 1 .. Len(l) - 1 : Append(s, a)[i] = s[i]
      /\ Append(s, a)[Len(l)] = a
  <2> HIDE DEF s
  <2>1. /\ Append(s, a) \in Seq(Task) /\ Len(Append(s, a)) = Len(s) + 1
        /\ \A i \in 1 .. Len(s) : Append(s, a)[i] = s[i]
        /\ Append(s, a)[Len(s) + 1] = a
    BY <1>2, AppendProperties DEF s
  <2>2. Len(s) = Len(l) - 1 /\ Len(s) + 1 = Len(l)
    BY <1>2 DEF s
  <2> QED
    BY <2>1, <2>2
<1>5. /\ Tail(n) \in Seq(Task) /\ Len(Tail(n)) = Len(l)
      /\ \A i \in 1 .. Len(l) : Tail(n)[i] = n[i + 1]
  <2> HIDE DEF n
  <2>1. n \in Seq(Task) /\ Len(n) = Len(l) + 1
    BY <1>1 DEF n
  <2>2. Tail(n) \in Seq(Task) /\ Len(Tail(n)) = Len(n) - 1
    BY <1>3, <2>1, HeadTailProperties, PopFront
  <2>3. \A i \in 1 .. Len(Tail(n)) : Tail(n)[i] = n[i + 1]
    BY <1>3, <2>1, PopFront
  <2> QED
    BY <1>2, <2>1, <2>2, <2>3
<1>6. ASSUME NEW i \in 1 .. Len(l) PROVE Tail(n)[i] = Append(s, a)[i]
  <2>1. CASE i = Len(l)
    BY <1>1, <1>4, <1>5, <2>1
  <2>2. CASE i # Len(l)
    <3>0. Len(l) \in Nat
      BY <1>2
    <3>1. i \in 1 .. Len(l) - 1 /\ i + 1 \in 1 .. Len(l)
      BY <2>2, <3>0
    <3>2. Tail(n)[i] = n[i + 1]
      BY <1>5
    <3>3. n[i + 1] = l[i + 1]
      BY <1>1, <3>1
    <3>4. Append(s, a)[i] = s[i] /\ s[i] = l[i + 1]
      BY <1>2, <1>4, <3>1
    <3> QED
      BY <3>2, <3>3, <3>4
  <2> QED
    BY <2>1, <2>2
<1> HIDE DEF n, s
<1> QED
  BY <1>4, <1>5, <1>6, SeqEqual DEF n, s

\* Os_State_Suspended_To_Ready: the task is the last of its queue.
LEMMA ReadiedView ==
  ASSUME NEW k, Core(k), NEW t \in Task, k.state[t] = "SUSPENDED",
         NEW k2, k2 = Suspended_To_Ready(k, t)
  PROVE  /\ ToStart(k2) = Sched!Enqueue(ToStart(k), t)
         /\ StartedIn(k2) = StartedIn(k)
         /\ Running(k2) <=> Running(k)
<1>1. k \in KernelType /\ TaskPriority[t] \in Prio
  BY Numbers DEF Core
<1>2. /\ k2.state = [k.state EXCEPT ![t] = "READY_FIRST"]
      /\ k2.priority = [k.priority EXCEPT ![t] = TaskPriority[t]]
      /\ k2.ready = [k.ready EXCEPT ![TaskPriority[t]] = Append(k.ready[TaskPriority[t]], t)]
      /\ k2.active = k.active
  BY <1>1, ReadyFields
<1>3. /\ k2.state[t] = "READY_FIRST"
      /\ \A u \in Task : u # t => k2.state[u] = k.state[u] /\ k2.priority[u] = k.priority[u]
      /\ k2.ready[TaskPriority[t]] = Append(k.ready[TaskPriority[t]], t)
      /\ \A q \in Prio : q # TaskPriority[t] => k2.ready[q] = k.ready[q]
  BY <1>1, <1>2, KernelParts
<1>4. Core(k2)
  BY ReadyCore
<1>5. StartedIn(k2) = StartedIn(k) /\ (Running(k2) <=> Running(k))
  BY <1>2, <1>3 DEF StartedIn, Running
<1>6. ASSUME NEW q \in Prio PROVE Occupied(k2, q) <=> Occupied(k, q)
  BY <1>3 DEF Occupied
<1>7. ASSUME NEW q \in Prio
      PROVE  ToStart(k2)[q] = IF q = TaskPriority[t] THEN Append(ToStart(k)[q], t)
                              ELSE ToStart(k)[q]
  <2>1. CASE q # TaskPriority[t]
    BY <1>3, <1>4, <1>6, <2>1, ToStartOf
  <2>2. CASE q = TaskPriority[t]
    <3>1. k2.ready[q] = Append(k.ready[q], t) /\ k.ready[q] \in Seq(Task)
      BY <1>1, <1>3, <2>2, KernelParts
    <3>2. CASE Occupied(k, q)
      <4>1. /\ k.ready[q] # <<>> /\ ToStart(k)[q] = Tail(k.ready[q])
            /\ ToStart(k2)[q] = Tail(k2.ready[q])
        BY <1>4, <1>6, <3>2, ToStartOf
      <4>2. Tail(Append(k.ready[q], t)) = Append(Tail(k.ready[q]), t)
        BY <3>1, <4>1, TailOfAppend
      <4> QED
        BY <2>2, <3>1, <4>1, <4>2
    <3>3. CASE ~Occupied(k, q)
      BY <1>4, <1>6, <2>2, <3>1, <3>3, ToStartOf
    <3> QED
      BY <3>2, <3>3
  <2> QED
    BY <2>1, <2>2
<1>8. ToStart(k2) = [q \in Prio |-> ToStart(k2)[q]]
  BY ToStartDomain
<1> QED
  BY <1>5, <1>7, <1>8 DEF Sched!Enqueue

\* Os_State_Running_To_Ready of the active task: it has started and waits no longer to start.
LEMMA PreemptedView ==
  ASSUME NEW k, Core(k), Running(k), k.priority[k.active] \in Prio,
         NEW k2, k2 = Running_To_Ready(k, k.active)
  PROVE  /\ ToStart(k2) = ToStart(k) /\ StartedIn(k2) = StartedIn(k)
         /\ HeldIn(k2) = HeldIn(k) /\ ActivationsOf(k2) = ActivationsOf(k)
         /\ ~Running(k2)
<1> DEFINE a == k.active
           p == k.priority[a]
<1>1. k \in KernelType /\ a \in Task /\ k.state[a] = "RUNNING" /\ HasStarted(k, a)
  BY DEF Core, Running, HasStarted
<1>2. /\ k2.state[a] = "READY"
      /\ \A u \in Task : u # a => k2.state[u] = k.state[u]
      /\ k2.ready[p] = <<a>> \o k.ready[p]
      /\ \A q \in Prio : q # p => k2.ready[q] = k.ready[q]
  BY <1>1, PreemptFields, SMTT(30)
<1>3. /\ Core(k2) /\ k2.active = a /\ k2.activation = k.activation /\ k2.held = k.held
      /\ k2.priority = k.priority
      /\ \A u \in Task : k2.state[u] = "SUSPENDED" <=> k.state[u] = "SUSPENDED"
  BY PreemptCore
<1>4. HeldIn(k2) = HeldIn(k) /\ ActivationsOf(k2) = ActivationsOf(k) /\ ~Running(k2)
  BY <1>2, <1>3, SMTT(30) DEF HeldIn, ActivationsOf, Running
<1>5. StartedIn(k2) = StartedIn(k)
  BY <1>1, <1>2 DEF StartedIn
<1> HIDE DEF a, p
<1>6. ASSUME NEW q \in Prio PROVE ToStart(k2)[q] = ToStart(k)[q]
  <2>1. CASE q = p
    <3>1. Occupied(k2, q)
      BY <1>1, <1>2, <1>3, <2>1 DEF Occupied, p
    <3>2. ~Occupied(k, q)
      <4>1. ASSUME NEW u \in Task, k.state[u] = "READY", k.priority[u] = q PROVE FALSE
        <5>1. HasStarted(k, u) /\ u # a
          BY <1>1, <4>1 DEF HasStarted
        <5>2. k.priority[u] = k.priority[a]
          BY <2>1, <4>1 DEF p
        <5> QED
          BY <1>1, <4>1, <5>1, <5>2, StartedApart
      <4> QED
        BY <4>1 DEF Occupied
    <3>3. k.ready[q] \in Seq(Task)
      BY <1>1, KernelParts
    <3>4. k2.ready[q] = <<a>> \o k.ready[q]
      BY <1>2, <2>1
    <3>5. Tail(k2.ready[q]) = k.ready[q]
      BY <1>1, <3>3, <3>4, TailOfPush
    <3>6. ToStart(k2)[q] = Tail(k2.ready[q])
      BY <1>3, <3>1, ToStartOf
    <3>7. ToStart(k)[q] = k.ready[q]
      BY <3>2, ToStartOf
    <3> QED
      BY <3>5, <3>6, <3>7
  <2>2. CASE q # p
    <3>1. k2.ready[q] = k.ready[q]
      BY <1>2, <2>2
    <3>2. ASSUME NEW u \in Task
          PROVE  k2.state[u] = "READY" /\ k2.priority[u] = q <=>
                   k.state[u] = "READY" /\ k.priority[u] = q
      BY <1>1, <1>2, <1>3, <2>2 DEF p
    <3>3. Occupied(k2, q) <=> Occupied(k, q)
      BY <3>2 DEF Occupied
    <3> QED
      BY <1>3, <3>1, <3>3, ToStartOf
  <2> QED
    BY <2>1, <2>2
<1>7. ToStart(k2) = ToStart(k)
  BY <1>6, ToStartDomain
<1> QED
  BY <1>4, <1>5, <1>7

\* Os_State_Running_To_Suspended of the active task: it is no started task any more.
LEMMA GoneView ==
  ASSUME NEW k, Core(k), Running(k), k.held[k.active] = <<>>,
         NEW k2, k2 = Running_To_Suspended(k, k.active)
  PROVE  /\ Core(k2) /\ k2.state[k.active] = "SUSPENDED"
         /\ \A u \in Task : u # k.active => k2.state[u] = k.state[u]
         /\ k2.held = k.held /\ k2.active = k.active /\ k2.activation = k.activation
         /\ ToStart(k2) = ToStart(k) /\ StartedIn(k2) = StartedIn(k) \ {k.active}
         /\ ~Running(k2)
<1> DEFINE a == k.active
<1>1. k \in KernelType /\ a \in Task /\ k.state[a] = "RUNNING"
  BY DEF Core, Running
<1>2. /\ Core(k2) /\ k2.state[a] = "SUSPENDED"
      /\ \A u \in Task : u # a => k2.state[u] = k.state[u]
      /\ k2.held = k.held /\ k2.active = a /\ k2.activation = k.activation
      /\ k2.ready = k.ready
  BY SuspendCore
<1>3. StartedIn(k2) = StartedIn(k) \ {a} /\ ~Running(k2)
  BY <1>1, <1>2 DEF StartedIn, Running
<1>4. ASSUME NEW q \in Prio, k.ready[q] # <<>>
      PROVE  k2.state[Head(k.ready[q])] = k.state[Head(k.ready[q])]
  <2>1. k.ready[q] \in Seq(Task)
    BY <1>1, KernelParts
  <2>2. Head(k.ready[q]) \in Members(k.ready[q]) /\ Head(k.ready[q]) \in Task
    BY <1>4, <2>1, MembersOf
  <2>3. Head(k.ready[q]) # a
    BY <1>1, <2>2 DEF Core, Lists, Waits
  <2> QED
    BY <1>2, <2>2, <2>3
<1>5. ToStart(k2) = ToStart(k)
  BY <1>2, <1>4 DEF ToStart
<1> QED
  BY <1>2, <1>3, <1>5

\* A count is a number, zero exactly for a suspended task.
LEMMA CountsOf ==
  ASSUME NEW k, Core(k), Counted(k), NEW t \in Task
  PROVE  /\ ActivationsOf(k)[t] = IF MultipleActivation THEN k.activation[t]
                                  ELSE IF k.state[t] = "SUSPENDED" THEN 0 ELSE 1
         /\ ActivationsOf(k)[t] \in Nat
         /\ ActivationsOf(k)[t] = 0 <=> k.state[t] = "SUSPENDED"
<1>0. k \in KernelType
  BY DEF Core
<1>1. k.activation[t] \in 0 .. 255 /\ k.activation[t] \in Nat
  <2>1. k.activation[t] \in 0 .. 255
    BY <1>0, KernelParts
  <2> QED
    BY <2>1
<1>2. ActivationsOf(k)[t] = IF MultipleActivation THEN k.activation[t]
                            ELSE IF k.state[t] = "SUSPENDED" THEN 0 ELSE 1
  BY DEF ActivationsOf
<1>3. MultipleActivation => (k.state[t] = "SUSPENDED" <=> k.activation[t] = 0)
  BY DEF Counted
<1> DEFINE c == ActivationsOf(k)[t]
<1>4. CASE MultipleActivation
  <2>1. c = k.activation[t]
    BY <1>2, <1>4
  <2> QED
    BY <1>1, <1>2, <1>3, <1>4, <2>1
<1>5. CASE ~MultipleActivation
  <2>1. c = IF k.state[t] = "SUSPENDED" THEN 0 ELSE 1
    BY <1>2, <1>5
  <2> QED
    BY <1>2, <2>1
<1> QED
  BY <1>4, <1>5

LEMMA OneMore ==
  \A n, c \in Int : n = c - 1 => (n > 0 <=> c > 1)
OBVIOUS

LEMMA CountsDomain ==
  ASSUME NEW k
  PROVE  ActivationsOf(k) = [t \in Task |-> ActivationsOf(k)[t]]
BY DEF ActivationsOf

\* A counter of activations, of 8 bits, is assigned.
Byte(n) == n \in 0 .. 255

LEMMA Recounted ==
  ASSUME NEW k \in KernelType, NEW t \in Task, NEW n, Byte(n),
         NEW k2, k2 = WithCount(k, t, n)
  PROVE  /\ k2 \in KernelType /\ SameSchedule(k, k2) /\ k2.activation[t] = n
         /\ \A u \in Task : u # t => k2.activation[u] = k.activation[u]
<1>1. n \in 0 .. 255
  BY DEF Byte
<1>2. /\ WithCount(k, t, n) \in KernelType /\ SameSchedule(k, WithCount(k, t, n))
      /\ WithCount(k, t, n).activation[t] = n
      /\ \A u \in Task : u # t => WithCount(k, t, n).activation[u] = k.activation[u]
  BY <1>1, Recount, ZenonT(60)
<1> QED
  BY <1>2

\* The running task ends one activation: it is the last of its queue again when others are
\* left.
LEMMA EndedView ==
  ASSUME NEW k, Core(k), Counted(k), Running(k), k.held[k.active] = <<>>,
         NEW k2, k2 = Ended(k)
  PROVE  /\ ToStart(k2) = IF ActivationsOf(k)[k.active] > 1
                          THEN Sched!Enqueue(ToStart(k), k.active) ELSE ToStart(k)
         /\ StartedIn(k2) = StartedIn(k) \ {k.active}
         /\ HeldIn(k2) = HeldIn(k)
         /\ ActivationsOf(k2) = [ActivationsOf(k) EXCEPT ![k.active] = @ - 1]
         /\ ~Running(k2)
<1> DEFINE t    == k.active
           gone == Running_To_Suspended(k, t)
           n    == k.activation[t] - 1
           less == WithCount(gone, t, n)
           c    == ActivationsOf(k)
           c2   == ActivationsOf(k2)
<1>1. t \in Task /\ k.state[t] = "RUNNING" /\ k \in KernelType
  BY DEF Running, Core
<1>2. /\ Core(gone) /\ gone.state[t] = "SUSPENDED"
      /\ \A u \in Task : u # t => gone.state[u] = k.state[u]
      /\ gone.held = k.held /\ gone.active = t /\ gone.activation = k.activation
      /\ ToStart(gone) = ToStart(k) /\ StartedIn(gone) = StartedIn(k) \ {t}
      /\ ~Running(gone)
  <2> HIDE DEF gone
  <2>1. gone = Running_To_Suspended(k, k.active)
    BY DEF gone
  <2> QED
    BY <2>1, GoneView
<1>3. /\ Core(k2) /\ Counted(k2) /\ k2.held = k.held
      /\ \A u \in Task : u # t => k2.state[u] = k.state[u] /\ k2.activation[u] = k.activation[u]
  BY EndedCore
<1>4. HeldIn(k2) = HeldIn(k)
  BY <1>3 DEF HeldIn
<1>5. \A u \in Task : u # t => c2[u] = c[u]
  BY <1>3, CountsOf
<1>6. c[t] \in Nat /\ c[t] # 0 /\ (MultipleActivation => c[t] = k.activation[t])
                    /\ (~MultipleActivation => c[t] = 1)
  BY <1>1, CountsOf
<1>7. CASE ~MultipleActivation
  <2>1. k2 = gone
    BY <1>7 DEF Ended
  <2> HIDE DEF gone
  <2>2. c2[t] = 0
    BY <1>1, <1>2, <1>3, <2>1, CountsOf
  <2>3. ~(c[t] > 1) /\ c2[t] = c[t] - 1
    BY <1>6, <1>7, <2>2
  <2>4. c2 = [c EXCEPT ![t] = @ - 1]
    <3> HIDE DEF t
    <3> QED
      BY <1>1, <1>5, <2>3, CountsDomain
  <2> QED
    BY <1>2, <1>4, <2>1, <2>3, <2>4
<1>8. CASE MultipleActivation
  <2>1. k2 = IF less.activation[t] > 0 THEN Suspended_To_Ready(less, t) ELSE less
    <3>1. gone.activation[t] = k.activation[t]
      BY <1>2
    <3> QED
      BY <1>8, <3>1, Zenon DEF Ended, WithCount
  <2>2. Byte(n) /\ n = c[t] - 1
    <3>1. k.activation[t] \in 0 .. 255
      BY <1>1, KernelParts, ZenonT(60)
    <3>2. c[t] = k.activation[t] /\ c[t] # 0
      BY <1>6, <1>8
    <3> DEFINE a == k.activation[t]
    <3>3. a \in 0 .. 255 /\ c[t] = a /\ c[t] # 0
      BY <3>1, <3>2
    <3>4. n = a - 1
      OBVIOUS
    <3> HIDE DEF a, c, n, t
    <3>5. a # 0
      BY <3>3
    <3>6. Byte(a - 1)
      BY <3>3, <3>5 DEF Byte
    <3> QED
      BY <3>3, <3>4, <3>6
  <2> HIDE DEF n
  <2>3. less \in KernelType /\ SameSchedule(gone, less) /\ less.activation[t] = n
    <3>1. gone \in KernelType
      BY <1>2 DEF Core
    <3>2. less = WithCount(gone, t, n)
      BY Zenon DEF less
    <3>3. t \in Task
      BY <1>1
    <3> HIDE DEF gone, less, t
    <3> QED
      BY <2>2, <3>1, <3>2, <3>3, Recounted
  <2> HIDE DEF less
  <2>4. /\ Core(less) /\ less.state[t] = "SUSPENDED"
        /\ ToStart(less) = ToStart(k) /\ StartedIn(less) = StartedIn(k) \ {t} /\ ~Running(less)
    <3> HIDE DEF gone
    <3> QED
      BY <1>2, <2>3, SameCore, SameView DEF SameSchedule
  <2> HIDE DEF gone
  <2>5. CASE n > 0
    <3>1. k2 = Suspended_To_Ready(less, t)
      BY <2>1, <2>3, <2>5
    <3>2. /\ ToStart(k2) = Sched!Enqueue(ToStart(k), t)
          /\ StartedIn(k2) = StartedIn(k) \ {t} /\ ~Running(k2)
      BY <1>1, <2>4, <3>1, ReadiedView
    <3>3. k2.activation = less.activation
      BY <1>1, <2>4, <3>1, ReadyCore
    <3>4. c2[t] = c[t] - 1
      BY <1>1, <1>3, <1>8, <2>2, <2>3, <3>3, CountsOf
    <3>5. c2 = [c EXCEPT ![t] = @ - 1]
      <4> HIDE DEF t
      <4> QED
        BY <1>1, <1>5, <3>4, CountsDomain
    <3>6. c[t] > 1
      BY <1>6, <2>2, <2>5, OneMore
    <3> QED
      BY <1>4, <3>2, <3>5, <3>6
  <2>6. CASE ~(n > 0)
    <3>1. k2 = less
      BY <2>1, <2>3, <2>6
    <3>2. c2[t] = c[t] - 1
      BY <1>1, <1>3, <1>8, <2>2, <2>3, <3>1, CountsOf
    <3>3. c2 = [c EXCEPT ![t] = @ - 1]
      <4> HIDE DEF t
      <4> QED
        BY <1>1, <1>5, <3>2, CountsDomain
    <3>4. ~(c[t] > 1)
      BY <1>6, <2>2, <2>6, OneMore
    <3> QED
      BY <1>4, <2>4, <3>1, <3>3, <3>4
  <2> QED
    BY <2>5, <2>6
<1> QED
  BY <1>7, <1>8

\* How often a task may be activated, in this class of the kernel.
LimitOf == [t \in Task |-> IF MultipleActivation THEN TaskLimit[t] ELSE 1]

LEMMA AtLimitOf ==
  ASSUME NEW k, Core(k), Counted(k), NEW t \in Task
  PROVE  AtLimit(k, t) <=> ActivationsOf(k)[t] >= LimitOf[t]
<1>1. ActivationsOf(k)[t] = IF MultipleActivation THEN k.activation[t]
                            ELSE IF k.state[t] = "SUSPENDED" THEN 0 ELSE 1
  BY CountsOf
<1>2. LimitOf[t] = IF MultipleActivation THEN TaskLimit[t] ELSE 1
  BY DEF LimitOf
<1> QED
  BY <1>1, <1>2 DEF AtLimit

\* A further activation is counted, and the first one queues the task.
LEMMA ActivatedView ==
  ASSUME NEW k, Core(k), Counted(k), NEW t \in Task, ~AtLimit(k, t),
         NEW k2, k2 = Activated(k, t)
  PROVE  /\ ToStart(k2) = Sched!Queued(ToStart(k), ActivationsOf(k), t)
         /\ StartedIn(k2) = StartedIn(k) /\ HeldIn(k2) = HeldIn(k)
         /\ ActivationsOf(k2) = Sched!Counted(ActivationsOf(k), t)
         /\ Running(k2) <=> Running(k)
<1> DEFINE n == k.activation[t] + 1
           counted == WithCount(k, t, n)
           c == ActivationsOf(k)
           c2 == ActivationsOf(k2)
<1>1. k \in KernelType
  BY DEF Core
<1>2. /\ Core(k2) /\ Counted(k2) /\ k2.held = k.held /\ k2.state[t] # "SUSPENDED"
  BY ActivatedCore
<1>3. HeldIn(k2) = HeldIn(k)
  BY <1>2 DEF HeldIn
<1>4. c[t] = 0 <=> k.state[t] = "SUSPENDED"
  BY CountsOf
<1>5. ASSUME \A u \in Task : u # t => c2[u] = c[u], c2[t] = c[t] + 1
      PROVE  c2 = Sched!Counted(c, t)
  <2>1. c2 = [c EXCEPT ![t] = @ + 1]
    BY <1>5, CountsDomain
  <2> QED
    BY <2>1 DEF Sched!Counted
<1>6. CASE ~MultipleActivation
  <2>1. k2 = Suspended_To_Ready(k, t) /\ k.state[t] = "SUSPENDED"
    BY <1>6 DEF Activated, AtLimit
  <2>2. /\ ToStart(k2) = Sched!Enqueue(ToStart(k), t) /\ StartedIn(k2) = StartedIn(k)
        /\ Running(k2) <=> Running(k)
    BY <2>1, ReadiedView
  <2>3. /\ \A u \in Task : u # t => k2.state[u] = k.state[u]
    BY <2>1, ReadyCore
  <2>4. \A u \in Task : u # t => c2[u] = c[u]
    BY <1>2, <1>6, <2>3, CountsOf
  <2>5. c[t] = 0 /\ c2[t] = 1
    BY <1>2, <1>6, <2>1, CountsOf
  <2>6. c2 = Sched!Counted(c, t)
    BY <1>5, <2>4, <2>5
  <2> QED
    BY <1>3, <2>2, <2>5, <2>6 DEF Sched!Queued
<1>7. CASE MultipleActivation
  <2>1. k2 = IF counted.activation[t] = 1 THEN Suspended_To_Ready(counted, t) ELSE counted
    BY <1>7, Zenon DEF Activated, WithCount
  <2>2. c[t] = k.activation[t] /\ c[t] \in Nat /\ n = c[t] + 1 /\ n \in 0 .. 255
    <3>1. c[t] = k.activation[t] /\ c[t] \in Nat
      BY <1>7, CountsOf
    <3>2. k.activation[t] \in 0 .. 255 /\ TaskLimit[t] \in 1 .. 255
      BY <1>1, KernelParts, ConfigAssumption
    <3>3. ~(k.activation[t] >= TaskLimit[t])
      BY <1>7 DEF AtLimit
    <3> DEFINE a == k.activation[t]
               l == TaskLimit[t]
    <3>4. c[t] = a /\ c[t] \in Nat /\ a \in 0 .. 255 /\ l \in 1 .. 255 /\ ~(a >= l)
      BY <3>1, <3>2, <3>3
    <3>5. n = a + 1
      OBVIOUS
    <3> HIDE DEF a, l, c, n
    <3>6. a + 1 \in 0 .. 255
      BY <3>4
    <3> QED
      BY <3>4, <3>5, <3>6 DEF a
  <2> HIDE DEF n
  <2>3. /\ counted \in KernelType /\ SameSchedule(k, counted) /\ counted.activation[t] = n
        /\ \A u \in Task : u # t => counted.activation[u] = k.activation[u]
    <3>1. counted = WithCount(k, t, n)
      BY Zenon DEF counted
    <3>2. k \in KernelType /\ t \in Task /\ Byte(n)
      BY <1>1, <2>2 DEF Byte
    <3> HIDE DEF counted
    <3> QED
      BY <3>1, <3>2, Recounted
  <2> HIDE DEF counted
  <2>4. /\ Core(counted) /\ counted.state = k.state
        /\ ToStart(counted) = ToStart(k) /\ StartedIn(counted) = StartedIn(k)
        /\ Running(counted) <=> Running(k)
    BY <2>3, SameCore, SameView DEF SameSchedule
  <2>5. ASSUME k2.activation = counted.activation PROVE c2 = Sched!Counted(c, t)
    <3>1. ASSUME NEW u \in Task, u # t PROVE c2[u] = c[u]
      BY <1>2, <1>7, <2>3, <2>5, <3>1, CountsOf
    <3>2. c2[t] = c[t] + 1
      BY <1>2, <1>7, <2>2, <2>3, <2>5, CountsOf
    <3> QED
      BY <1>5, <3>1, <3>2
  <2> HIDE DEF c, c2
  <2>6. CASE c[t] = 0
    <3>1. k2 = Suspended_To_Ready(counted, t) /\ counted.state[t] = "SUSPENDED"
      BY <1>4, <2>1, <2>2, <2>3, <2>4, <2>6
    <3>2. /\ ToStart(k2) = Sched!Enqueue(ToStart(k), t) /\ StartedIn(k2) = StartedIn(k)
          /\ Running(k2) <=> Running(k)
      BY <2>4, <3>1, ReadiedView
    <3>3. k2.activation = counted.activation
      BY <2>4, <3>1, ReadyCore
    <3> QED
      BY <1>3, <2>5, <2>6, <3>2, <3>3 DEF Sched!Queued, c, c2
  <2>7. CASE c[t] # 0
    <3>1. k2 = counted
      BY <2>1, <2>2, <2>3, <2>7
    <3> QED
      BY <1>3, <2>4, <2>5, <2>7, <3>1 DEF Sched!Queued, c, c2
  <2> QED
    BY <2>6, <2>7
<1> QED
  BY <1>6, <1>7

-------------------------------------------------------------------------------
(* The actions *)

LEMMA DispatchStep ==
  ASSUME NoInternal, NEW k, Core(k), os' = Schedule_Internal(k)
  PROVE  /\ Sched!Dispatch(ToStart(k), StartedIn(k), HeldIn(k))
         /\ HeldIn(os') = HeldIn(k) /\ ActivationsOf(os') = ActivationsOf(k)
<1>1. /\ Dispatches(k, os')
      /\ HeldIn(os') = HeldIn(k) /\ ActivationsOf(os') = ActivationsOf(k)
  BY SchedulePromised
<1>2. Sched!Dispatch(ToStart(k), StartedIn(k), HeldIn(k))
  BY <1>1 DEF Dispatches, Open, Sched!Dispatch
<1> QED
  BY <1>1, <1>2

\* Os_Schedule and the end of the interrupt.
LEMMA RescheduleStep ==
  ASSUME NoInternal, IInv, boot > TaskCount, boot' = boot, os' = Schedule_Internal(os)
  PROVE  Sched!Reschedule
<1>1. Core(os)
  BY DEF IInv, KInv
<1>2. /\ Sched!Dispatch(ToStart(os), StartedIn(os), HeldIn(os))
      /\ HeldIn(os') = HeldIn(os) /\ ActivationsOf(os') = ActivationsOf(os)
  BY <1>1, DispatchStep
<1> QED
  BY <1>2 DEF Sched!Reschedule

\* A step that changes none of the fields the schedule follows from.
LEMMA SameStep ==
  ASSUME SameSchedule(os, os'), os'.activation = os.activation, boot' = boot
  PROVE  UNCHANGED Sched!vars
<1>1. /\ ToStart(os') = ToStart(os) /\ StartedIn(os') = StartedIn(os)
      /\ HeldIn(os') = HeldIn(os) /\ ActivationsOf(os') = ActivationsOf(os)
      /\ Running(os') = Running(os)
  BY SameView DEF SameSchedule
<1> QED
  BY <1>1 DEF Sched!vars

\* A service that fails sets nothing but its status.
LEMMA FailStep ==
  ASSUME IInv, NEW e \in Status, os' = Fail(os, e), boot' = boot
  PROVE  UNCHANGED Sched!vars
<1>1. os \in KernelType
  BY DEF IInv, KInv, Core
<1>2. SameSchedule(os, os') /\ os'.activation = os.activation
  BY <1>1, FailFields
<1> QED
  BY <1>2, SameStep

\* The running task has the highest static priority of those that have started.
LEMMA CallerRuns ==
  ASSUME IInv, Running(os)
  PROVE  os.active \in Task /\ Sched!Runs(os.active)
<1>1. Core(os) /\ Highest(os) /\ os.active \in Task /\ os.active \in StartedIn(os)
  BY DEF IInv, KInv, Running, StartedIn
<1>2. ASSUME NEW u \in StartedIn(os) PROVE TaskPriority[u] <= TaskPriority[os.active]
  <2>1. u \in Task /\ HasStarted(os, u) /\ os.state[u] # "SUSPENDED"
    BY <1>2 DEF StartedIn, HasStarted
  <2>2. CASE u = os.active
    BY <1>1, <2>2, Numbers
  <2>3. CASE u # os.active
    <3>1. os.priority[u] < TaskPriority[os.active]
      BY <1>1, <2>1, <2>3, OthersBelow
    <3>2. os.priority[u] \in Int /\ TaskPriority[u] \in Int /\ TaskPriority[u] <= os.priority[u]
      BY <1>1, <2>1, PriorityBounds
    <3>3. TaskPriority[os.active] \in Int
      BY <1>1, Numbers
    <3> QED
      BY <3>1, <3>2, <3>3
  <2> QED
    BY <2>2, <2>3
<1> QED
  BY <1>1, <1>2 DEF Sched!Runs

\* ActivateTask and the expiry of an alarm.
LEMMA ActivateStep ==
  ASSUME NoInternal, IInv, boot > TaskCount, boot' = boot, NEW t, ErrorExt \/ t \in Task,
         ~MultipleActivation /\ ~ErrorExt => os.state[t] = "SUSPENDED",
         os' = ActivateTask_Internal(os, t)
  PROVE  UNCHANGED Sched!vars \/ (t \in Task /\ Sched!Activate(t))
<1>1. CASE ActivateError(os, t) # "E_OK"
  <2>1. os' = Fail(os, ActivateError(os, t))
    BY <1>1 DEF ActivateTask_Internal
  <2>2. ActivateError(os, t) \in Status
    BY DEF ActivateError, Status
  <2> QED
    BY <2>1, <2>2, FailStep
<1>2. CASE ActivateError(os, t) = "E_OK"
  <2> DEFINE a == Activated(os, t)
  <2>1. t \in Task /\ ~AtLimit(os, t) /\ Core(os) /\ Counted(os)
    BY <1>2, BuildAssumption DEF ActivateError, AtLimit, IInv, KInv
  <2>2. os' = Schedule_Internal(a)
    BY <1>2, Zenon DEF ActivateTask_Internal
  <2>3. a = Activated(os, t)
    OBVIOUS
  <2> HIDE DEF a
  <2>4. Core(a)
    BY <2>1, <2>3, ActivatedCore
  <2>5. /\ ToStart(a) = Sched!Queued(ToStart(os), ActivationsOf(os), t)
        /\ StartedIn(a) = StartedIn(os) /\ HeldIn(a) = HeldIn(os)
        /\ ActivationsOf(a) = Sched!Counted(ActivationsOf(os), t)
    BY <2>1, <2>3, ActivatedView
  <2>6. /\ Sched!Dispatch(ToStart(a), StartedIn(a), HeldIn(a))
        /\ HeldIn(os') = HeldIn(a) /\ ActivationsOf(os') = ActivationsOf(a)
    BY <2>2, <2>4, DispatchStep
  <2>7. ActivationsOf(os)[t] < LimitOf[t]
    <3>1. ~(ActivationsOf(os)[t] >= LimitOf[t]) /\ ActivationsOf(os)[t] \in Nat
      BY <2>1, AtLimitOf, CountsOf
    <3>2. LimitOf[t] \in Nat
      BY <2>1, ConfigAssumption DEF LimitOf
    <3> QED
      BY <3>1, <3>2
  <2>8. Sched!Dispatch(Sched!Queued(ToStart(os), ActivationsOf(os), t), StartedIn(os), HeldIn(os))
    BY <2>5, <2>6
  <2> QED
    BY <2>1, <2>5, <2>6, <2>7, <2>8 DEF Sched!Activate, LimitOf
<1> QED
  BY <1>1, <1>2

\* The running task may end when it passes the checks of TerminateTask and ChainTask.
LEMMA MayEndNow ==
  ASSUME NoInternal, IInv, Running(os), MayEnd, EndError(os) = "E_OK"
  PROVE  os.held[os.active] = <<>> /\ Sched!MayEnd(os.active)
<1>1. Core(os) /\ os.active \in Task
  BY DEF IInv, KInv, Running
<1>2. os.held[os.active] = <<>>
  BY <1>1, EndsEmpty, BuildAssumption DEF EndError
<1>3. HeldIn(os)[os.active] = {}
  BY <1>1, <1>2, EmptySeq DEF HeldIn
<1>4. Sched!Runs(os.active)
  BY CallerRuns
<1> QED
  BY <1>2, <1>3, <1>4 DEF Sched!MayEnd

LEMMA TerminateStep ==
  ASSUME NoInternal, IInv, Running(os), MayEnd, boot' = boot, os' = TerminateTask_Internal(os)
  PROVE  UNCHANGED Sched!vars \/ (os.active \in Task /\ Sched!Terminate(os.active))
<1>1. CASE EndError(os) # "E_OK"
  <2>1. os' = Fail(os, EndError(os))
    BY <1>1 DEF TerminateTask_Internal
  <2>2. EndError(os) \in Status
    BY DEF EndError, Status
  <2> QED
    BY <2>1, <2>2, FailStep
<1>2. CASE EndError(os) = "E_OK"
  <2> DEFINE a == Ended(os)
             t == os.active
  <2>1. os.held[t] = <<>> /\ Sched!MayEnd(t) /\ Core(os) /\ Counted(os) /\ t \in Task
    BY <1>2, MayEndNow DEF IInv, KInv, Running
  <2>2. os' = Schedule_Internal(a)
    BY <1>2, Zenon DEF TerminateTask_Internal
  <2>3. a = Ended(os)
    OBVIOUS
  <2> HIDE DEF a
  <2>4. Core(a)
    BY <2>1, <2>3, EndedCore
  <2>5. /\ ToStart(a) = IF ActivationsOf(os)[t] > 1 THEN Sched!Enqueue(ToStart(os), t)
                        ELSE ToStart(os)
        /\ StartedIn(a) = StartedIn(os) \ {t} /\ HeldIn(a) = HeldIn(os)
        /\ ActivationsOf(a) = [ActivationsOf(os) EXCEPT ![t] = @ - 1]
    BY <2>1, <2>3, EndedView
  <2>6. /\ Sched!Dispatch(ToStart(a), StartedIn(a), HeldIn(a))
        /\ HeldIn(os') = HeldIn(a) /\ ActivationsOf(os') = ActivationsOf(a)
    BY <2>2, <2>4, DispatchStep
  <2> HIDE DEF t
  <2>7. ToStart(a) = Sched!Behind(t) /\ ActivationsOf(a) = Sched!Left(t)
    BY <2>5 DEF Sched!Behind, Sched!Left
  <2>8. Sched!Dispatch(Sched!Behind(t), StartedIn(os) \ {t}, HeldIn(os))
    BY <2>5, <2>6, <2>7
  <2>9. Sched!Terminate(t)
    BY <2>1, <2>5, <2>6, <2>7, <2>8 DEF Sched!Terminate
  <2> QED
    BY <2>1, <2>9 DEF t
<1> QED
  BY <1>1, <1>2

\* ChainTask: at the limit it fails after its caller has ended.
LEMMA ChainStep ==
  ASSUME NoInternal, IInv, Running(os), MayEnd, boot' = boot, NEW u, ErrorExt \/ u \in Task,
         os' = ChainTask_Internal(os, u)
  PROVE  \/ UNCHANGED Sched!vars
         \/ /\ os.active \in Task /\ u \in Task
            /\ Sched!Chain(os.active, u) \/ Sched!ChainFails(os.active, u)
<1>1. CASE EndError(os) # "E_OK"
  <2>1. os' = Fail(os, EndError(os))
    BY <1>1 DEF ChainTask_Internal
  <2>2. EndError(os) \in Status
    BY DEF EndError, Status
  <2> QED
    BY <2>1, <2>2, FailStep
<1>2. CASE EndError(os) = "E_OK"
  <2> DEFINE a == Ended(os)
             b == Activated(a, u)
             t == os.active
  <2>1. os.held[t] = <<>> /\ Sched!MayEnd(t) /\ Core(os) /\ Counted(os) /\ t \in Task
    BY <1>2, MayEndNow DEF IInv, KInv, Running
  <2>2. os' = IF ErrorExt /\ u \notin Task THEN Fail(os, "E_OS_ID")
              ELSE IF AtLimit(a, u) THEN Fail(a, "E_OS_LIMIT")
              ELSE Schedule_Internal(b)
    BY <1>2, Zenon DEF ChainTask_Internal
  <2>3. a = Ended(os) /\ b = Activated(a, u)
    OBVIOUS
  <2> HIDE DEF a, b
  <2>4. Core(a) /\ Counted(a)
    BY <2>1, <2>3, EndedCore
  <2>5. /\ ToStart(a) = IF ActivationsOf(os)[t] > 1 THEN Sched!Enqueue(ToStart(os), t)
                        ELSE ToStart(os)
        /\ StartedIn(a) = StartedIn(os) \ {t} /\ HeldIn(a) = HeldIn(os)
        /\ ActivationsOf(a) = [ActivationsOf(os) EXCEPT ![t] = @ - 1]
        /\ ~Running(a)
    BY <2>1, <2>3, EndedView
  <2> HIDE DEF t
  <2>6. ToStart(a) = Sched!Behind(t) /\ ActivationsOf(a) = Sched!Left(t)
    BY <2>5 DEF Sched!Behind, Sched!Left
  <2>7. CASE u \notin Task
    <3>1. os' = Fail(os, "E_OS_ID") /\ "E_OS_ID" \in Status
      BY <2>2, <2>7 DEF Status
    <3> QED
      BY <3>1, FailStep
  <2>8. CASE u \in Task /\ AtLimit(a, u)
    <3>1. os' = Fail(a, "E_OS_LIMIT") /\ a \in KernelType /\ "E_OS_LIMIT" \in Status
      BY <2>2, <2>4, <2>8 DEF Core, Status
    <3>2. SameSchedule(a, os') /\ os'.activation = a.activation
      BY <3>1, FailFields
    <3>3. /\ ToStart(os') = Sched!Behind(t) /\ StartedIn(os') = StartedIn(os) \ {t}
          /\ HeldIn(os') = HeldIn(os) /\ ActivationsOf(os') = Sched!Left(t) /\ ~Running(os')
      BY <2>5, <2>6, <3>2, SameView DEF SameSchedule
    <3>4. Sched!Left(t)[u] >= LimitOf[u]
      BY <2>4, <2>6, <2>8, AtLimitOf
    <3>5. Sched!ChainFails(t, u)
      BY <2>1, <3>3, <3>4 DEF Sched!ChainFails, LimitOf
    <3> QED
      BY <2>1, <2>8, <3>5 DEF t
  <2>9. CASE u \in Task /\ ~AtLimit(a, u)
    <3>1. os' = Schedule_Internal(b) /\ Core(b)
      BY <2>2, <2>3, <2>4, <2>9, ActivatedCore
    <3>2. /\ ToStart(b) = Sched!Queued(ToStart(a), ActivationsOf(a), u)
          /\ StartedIn(b) = StartedIn(a) /\ HeldIn(b) = HeldIn(a)
          /\ ActivationsOf(b) = Sched!Counted(ActivationsOf(a), u)
      BY <2>3, <2>4, <2>9, ActivatedView
    <3>3. /\ Sched!Dispatch(ToStart(b), StartedIn(b), HeldIn(b))
          /\ HeldIn(os') = HeldIn(b) /\ ActivationsOf(os') = ActivationsOf(b)
      BY <3>1, DispatchStep
    <3>4. Sched!Left(t)[u] < LimitOf[u]
      <4>1. ~(ActivationsOf(a)[u] >= LimitOf[u]) /\ ActivationsOf(a)[u] \in Nat
        BY <2>4, <2>9, AtLimitOf, CountsOf
      <4>2. LimitOf[u] \in Nat
        BY <2>9, ConfigAssumption DEF LimitOf
      <4> QED
        BY <2>6, <4>1, <4>2
    <3>5. Sched!Dispatch(Sched!Queued(Sched!Behind(t), Sched!Left(t), u),
                         StartedIn(os) \ {t}, HeldIn(os))
      BY <2>5, <2>6, <3>2, <3>3
    <3>6. /\ HeldIn(os') = HeldIn(os)
          /\ ActivationsOf(os') = Sched!Counted(Sched!Left(t), u)
      BY <2>5, <2>6, <3>2, <3>3
    <3>7. Sched!Chain(t, u)
      BY <2>1, <3>4, <3>5, <3>6 DEF Sched!Chain, LimitOf
    <3> QED
      BY <2>1, <2>9, <3>7 DEF t
  <2> QED
    BY <2>7, <2>8, <2>9
<1> QED
  BY <1>1, <1>2

\* Os_Shutdown puts its caller back in its list and dispatches nothing.
LEMMA ShutdownStep ==
  ASSUME Sound, IInv, Shutdown
  PROVE  Sched!Shutdown
<1>1. /\ Served(os) /\ Running(os) /\ boot > TaskCount /\ MayShutdown
      /\ os' = Fail(Preempted(os), "E_OK") /\ boot' = boot
  BY CallingServed DEF Shutdown
<1> DEFINE k == Preempted(os)
<1>2. k = Running_To_Ready(os, os.active)
  BY <1>1, Zenon DEF Preempted
<1>3. os.priority[os.active] \in Prio /\ Core(os)
  BY <1>1, CallerInList, SoundIsOrderly DEF Served, KInv
<1>4. os' = Fail(k, "E_OK")
  BY <1>1
<1> HIDE DEF k
<1>5. /\ ToStart(k) = ToStart(os) /\ StartedIn(k) = StartedIn(os)
      /\ HeldIn(k) = HeldIn(os) /\ ActivationsOf(k) = ActivationsOf(os)
      /\ ~Running(k)
  BY <1>1, <1>2, <1>3, PreemptedView
<1>6. Core(k)
  BY <1>1, <1>2, <1>3, PreemptCore
<1>7. SameSchedule(k, os') /\ os'.activation = k.activation
  BY <1>4, <1>6, FailFields DEF Core, Status
<1>8. /\ ToStart(os') = ToStart(os) /\ StartedIn(os') = StartedIn(os)
      /\ HeldIn(os') = HeldIn(os) /\ ActivationsOf(os') = ActivationsOf(os)
      /\ ~Running(os')
  BY <1>5, <1>7, SameView DEF SameSchedule
<1> QED
  BY <1>1, <1>8 DEF Sched!Shutdown

\* Os_Start dispatches the highest of the tasks that Os_Init readied.
LEMMA StartStep ==
  ASSUME NoInternal, IInv, Start
  PROVE  Sched!Start
<1> DEFINE k == [os EXCEPT !.active = 0]
<1>1. boot = TaskCount /\ boot' = TaskCount + 1
  BY DEF Start
<1>2. os' = Schedule_Internal(k)
  BY Zenon DEF Start
<1>3. Core(k) /\ k.state = os.state /\ k.ready = os.ready /\ k.activation = os.activation
  BY <1>1, StartCore
<1>4. k.held = os.held
  BY DEF IInv, KInv, Core, KernelType
<1> HIDE DEF k
<1>5. /\ ToStart(k) = ToStart(os) /\ StartedIn(k) = StartedIn(os)
      /\ HeldIn(k) = HeldIn(os) /\ ActivationsOf(k) = ActivationsOf(os)
  BY <1>3, <1>4, SameView
<1>6. /\ Sched!Dispatch(ToStart(k), StartedIn(k), HeldIn(k))
      /\ HeldIn(os') = HeldIn(k) /\ ActivationsOf(os') = ActivationsOf(k)
  BY <1>2, <1>3, DispatchStep
<1>7. ~(boot > TaskCount) /\ boot' > TaskCount
  BY <1>1, CountsAssumption
<1> QED
  BY <1>5, <1>6, <1>7 DEF Sched!Start

\* Os_Init readies a task that its table autostarts.
LEMMA AutostartStep ==
  ASSUME IInv, Autostart
  PROVE  UNCHANGED Sched!vars \/ (boot \in Task /\ Sched!Autostart(boot))
<1>1. boot \in Task /\ ~(boot > TaskCount) /\ ~(boot' > TaskCount)
  BY CountsAssumption DEF IInv, Autostart, Task
<1>2. Core(os) /\ Counted(os) /\ os.state[boot] = "SUSPENDED" /\ os \in KernelType
  BY <1>1, CountsAssumption DEF IInv, KInv, Core, Booting, Task
<1>3. CASE ~TaskAutostart[boot]
  <2>1. os' = os
    BY <1>3 DEF Autostart
  <2> QED
    BY <1>1, <2>1 DEF Sched!vars
<1>4. CASE TaskAutostart[boot]
  <2> DEFINE a == IF MultipleActivation THEN WithCount(os, boot, 1) ELSE os
             c == ActivationsOf(os)
             c2 == ActivationsOf(os')
  <2>1. os' = Suspended_To_Ready(a, boot)
    BY <1>4, Zenon DEF Autostart, WithCount
  <2>2. /\ a \in KernelType /\ SameSchedule(os, a)
        /\ \A t \in Task : t # boot => a.activation[t] = os.activation[t]
        /\ MultipleActivation => a.activation[boot] = 1
    <3>1. CASE MultipleActivation
      <4>1. a = WithCount(os, boot, 1)
        BY <3>1
      <4>2. Byte(1)
        BY DEF Byte
      <4>3. os \in KernelType /\ boot \in Task
        BY <1>1, <1>2
      <4> HIDE DEF a
      <4>4. /\ a \in KernelType /\ SameSchedule(os, a) /\ a.activation[boot] = 1
            /\ \A t \in Task : t # boot => a.activation[t] = os.activation[t]
        BY <4>1, <4>2, <4>3, Recounted
      <4> QED
        BY <4>4
    <3>2. CASE ~MultipleActivation
      BY <1>2, <3>2 DEF SameSchedule
    <3> QED
      BY <3>1, <3>2
  <2> HIDE DEF a
  <2>3. /\ Core(a) /\ a.state = os.state
        /\ ToStart(a) = ToStart(os) /\ StartedIn(a) = StartedIn(os) /\ HeldIn(a) = HeldIn(os)
        /\ Running(a) <=> Running(os)
    BY <1>2, <2>2, SameCore, SameView DEF SameSchedule
  <2>4. /\ os'.state[boot] = "READY_FIRST"
        /\ \A t \in Task : t # boot => os'.state[t] = os.state[t]
        /\ os'.activation = a.activation /\ os'.held = a.held
    BY <1>1, <1>2, <2>1, <2>3, ReadyCore
  <2>5. /\ ToStart(os') = Sched!Enqueue(ToStart(os), boot) /\ StartedIn(os') = StartedIn(os)
        /\ Running(os') <=> Running(os)
    BY <1>1, <1>2, <2>1, <2>3, ReadiedView
  <2>6. HeldIn(os') = HeldIn(os)
    BY <2>3, <2>4, SameView
  <2>7. c[boot] = 0
    BY <1>1, <1>2, CountsOf
  <2>8. \A t \in Task : t # boot => c2[t] = c[t]
    BY <2>2, <2>4 DEF ActivationsOf
  <2>9. c2[boot] = 1
    BY <1>1, <2>2, <2>4 DEF ActivationsOf
  <2>10. c2 = [c EXCEPT ![boot] = 1]
    BY <1>1, <2>8, <2>9, CountsDomain
  <2>11. Running(os') = Running(os)
    BY <2>3, <2>5 DEF Running
  <2>12. (boot' > TaskCount) = (boot > TaskCount)
    BY <1>1
  <2> QED
    BY <1>1, <2>5, <2>6, <2>7, <2>10, <2>11, <2>12 DEF Sched!Autostart
<1> QED
  BY <1>3, <1>4

\* What the globals stand for at first.
LEMMA InitStep == Init => Sched!Init
<1> SUFFICES ASSUME Init PROVE Sched!Init
  OBVIOUS
<1>1. /\ os.state = [t \in Task |-> "SUSPENDED"] /\ os.activation = [t \in Task |-> 0]
      /\ os.held = [t \in Task |-> <<>>] /\ os.ready = [p \in Prio |-> <<>>]
      /\ os.active = INVALID /\ boot = 0
  BY DEF Init
<1>2. ToStart(os) = [p \in Prio |-> <<>>]
  BY <1>1 DEF ToStart
<1>3. StartedIn(os) = {} /\ ActivationsOf(os) = [t \in Task |-> 0]
  BY <1>1 DEF StartedIn, ActivationsOf
<1>4. HeldIn(os) = [t \in Task |-> {}]
  BY <1>1 DEF HeldIn
<1>5. ~Running(os) /\ ~(boot > TaskCount)
  BY <1>1, Numbers, CountsAssumption DEF Running
<1> QED
  BY <1>2, <1>3, <1>4, <1>5 DEF Sched!Init

-------------------------------------------------------------------------------
(* The owners of resources *)

\* A value of the globals with a field owner, which a procedure leaves as it is.
Owners(k) == "owner" \in DOMAIN k

KeepsOwners(k, k2) == Owners(k2) /\ k2.owner = k.owner

LEMMA TransitionOwners ==
  ASSUME NEW k, Owners(k), NEW t
  PROVE  /\ KeepsOwners(k, Running_To_Ready(k, t))
         /\ KeepsOwners(k, Suspended_To_Ready(k, t))
         /\ KeepsOwners(k, Running_To_Suspended(k, t))
         /\ KeepsOwners(k, Ready_To_Running(k, t))
         /\ \A n : KeepsOwners(k, WithCount(k, t, n))
         /\ \A e : KeepsOwners(k, Fail(k, e))
<1>1. KeepsOwners(k, Running_To_Ready(k, t))
  BY DEF KeepsOwners, Owners, Running_To_Ready, PushHead
<1>2. KeepsOwners(k, Suspended_To_Ready(k, t))
  BY DEF KeepsOwners, Owners, Suspended_To_Ready, PushTail
<1>3. KeepsOwners(k, Running_To_Suspended(k, t))
  BY DEF KeepsOwners, Owners, Running_To_Suspended
<1>4. KeepsOwners(k, Ready_To_Running(k, t))
  BY DEF KeepsOwners, Owners, Ready_To_Running, PopHead
<1>5. \A n : KeepsOwners(k, WithCount(k, t, n))
  BY DEF KeepsOwners, Owners, WithCount
<1>6. \A e : KeepsOwners(k, Fail(k, e))
  BY DEF KeepsOwners, Owners, Fail
<1> QED
  BY <1>1, <1>2, <1>3, <1>4, <1>5, <1>6

LEMMA KeepsOwnersTwice ==
  ASSUME NEW k, NEW j, NEW k2, KeepsOwners(k, j), KeepsOwners(j, k2)
  PROVE  KeepsOwners(k, k2)
BY DEF KeepsOwners

LEMMA ScheduleOwners ==
  ASSUME NEW k, Owners(k)
  PROVE  KeepsOwners(k, Schedule_Internal(k))
<1> DEFINE task == TaskPeek(k, IF Running(k) THEN k.priority[k.active] ELSE -1)
           m == Preempted(k)
           d == Ready_To_Running(m, task)
<1>1. CASE task = INVALID
  <2>1. Schedule_Internal(k) = Fail(k, "E_OK")
    BY <1>1 DEF Schedule_Internal
  <2> QED
    BY <2>1, TransitionOwners
<1>2. CASE task # INVALID
  <2>1. Schedule_Internal(k) = [d EXCEPT !.active = task, !.status = "E_OK"]
    BY <1>2, Zenon DEF Schedule_Internal
  <2>2. KeepsOwners(k, m)
    <3>1. CASE Running(k)
      <4>1. m = Running_To_Ready(k, k.active)
        BY <3>1, Zenon DEF Preempted
      <4> QED
        BY <4>1, TransitionOwners
    <3>2. CASE ~Running(k)
      BY <3>2 DEF Preempted, KeepsOwners
    <3> QED
      BY <3>1, <3>2
  <2> HIDE DEF task, m
  <2>3. KeepsOwners(m, d)
    BY <2>2, TransitionOwners DEF KeepsOwners
  <2> HIDE DEF d
  <2>4. KeepsOwners(d, Schedule_Internal(k))
    BY <2>1, <2>3 DEF KeepsOwners, Owners
  <2> QED
    BY <2>2, <2>3, <2>4 DEF KeepsOwners
<1> QED
  BY <1>1, <1>2

LEMMA EndedOwners ==
  ASSUME NEW k, Owners(k)
  PROVE  KeepsOwners(k, Ended(k))
<1> DEFINE t    == k.active
           gone == Running_To_Suspended(k, t)
           less == [gone EXCEPT !.activation[t] = @ - 1]
<1>1. KeepsOwners(k, gone)
  BY TransitionOwners
<1>2. \/ Ended(k) = gone \/ Ended(k) = less \/ Ended(k) = Suspended_To_Ready(less, t)
  BY Zenon DEF Ended
<1> HIDE DEF gone
<1>3. KeepsOwners(gone, less)
  BY <1>1 DEF KeepsOwners, Owners
<1> HIDE DEF less
<1>4. KeepsOwners(less, Suspended_To_Ready(less, t))
  BY <1>3, TransitionOwners DEF KeepsOwners
<1> QED
  BY <1>1, <1>2, <1>3, <1>4, KeepsOwnersTwice

LEMMA ActivatedOwners ==
  ASSUME NEW k, Owners(k), NEW t
  PROVE  KeepsOwners(k, Activated(k, t))
<1> DEFINE counted == [k EXCEPT !.activation[t] = @ + 1]
<1>1. \/ Activated(k, t) = counted
      \/ Activated(k, t) = Suspended_To_Ready(counted, t)
      \/ Activated(k, t) = Suspended_To_Ready(k, t)
  BY Zenon DEF Activated
<1>2. KeepsOwners(k, counted)
  BY DEF KeepsOwners, Owners
<1> HIDE DEF counted
<1>3. KeepsOwners(counted, Suspended_To_Ready(counted, t))
  BY <1>2, TransitionOwners DEF KeepsOwners
<1>4. KeepsOwners(k, Suspended_To_Ready(k, t))
  BY TransitionOwners
<1> QED
  BY <1>1, <1>2, <1>3, <1>4, KeepsOwnersTwice

\* No task holds a resource twice, and where owners are recorded they are the holders.
Owned(k) ==
  \A t \in Task :
    /\ Distinct(k.held[t])
    /\ ErrorExt => \A i \in 1 .. Len(k.held[t]) : k.owner[k.held[t][i]] = t

LEMMA OwnedKept ==
  ASSUME NEW k, Owned(k), NEW k2, k2.held = k.held, KeepsOwners(k, k2)
  PROVE  Owned(k2)
BY DEF Owned, KeepsOwners

\* Os_GetResource of a resource that nobody holds.
LEMMA TakenOwned ==
  ASSUME NEW k \in KernelType, Owned(k), k.active \in Task, NEW r \in Res,
         \A t \in Task : r \notin HeldIn(k)[t],
         NEW k2, k2 = Taken(k, r)
  PROVE  /\ Owned(k2)
         /\ HeldIn(k2) = [HeldIn(k) EXCEPT ![k.active] = @ \cup {r}]
<1> DEFINE a == k.active
           h == <<r>> \o k.held[a]
<1>1. /\ k.held \in [Task -> Seq(Res)] /\ k.owner \in [Res -> Task \cup {INVALID}]
  BY KernelParts
<1>2. /\ k2.held = [k.held EXCEPT ![a] = h]
      /\ k2.owner = [k.owner EXCEPT ![r] = IF ErrorExt THEN a ELSE k.owner[r]]
  BY DEF KernelType, Taken, Relocked
<1>3. ASSUME NEW t \in Task
      PROVE  /\ k.held[t] \in Seq(Res) /\ r \notin Members(k.held[t])
             /\ HeldIn(k)[t] = Members(k.held[t])
  <2>1. k.held[t] \in Seq(Res)
    BY <1>1
  <2>2. HeldIn(k)[t] = Members(k.held[t])
    BY <2>1 DEF HeldIn, Members
  <2> QED
    BY <2>1, <2>2
<1>4. h \in Seq(Res) /\ Members(h) = Members(k.held[a]) \cup {r} /\ Distinct(h)
  BY <1>3, PushFront DEF Owned
<1> HIDE DEF h
<1>5. ASSUME NEW t \in Task
      PROVE  /\ Distinct(k2.held[t])
             /\ ErrorExt => \A i \in 1 .. Len(k2.held[t]) : k2.owner[k2.held[t][i]] = t
             /\ HeldIn(k2)[t] = IF t = a THEN HeldIn(k)[t] \cup {r} ELSE HeldIn(k)[t]
  <2>1. CASE t = a
    <3>1. k2.held[t] = h
      BY <1>1, <1>2, <2>1
    <3>2. HeldIn(k2)[t] = Members(h)
      BY <1>4, <3>1 DEF HeldIn, Members
    <3>3. ASSUME ErrorExt, NEW x \in Members(h) PROVE k2.owner[x] = t
      <4>1. CASE x = r
        BY <1>1, <1>2, <2>1, <3>3, <4>1
      <4>2. CASE x # r
        <5>1. x \in Members(k.held[a]) /\ k.owner[x] = a
          <6>1. x \in Members(k.held[a])
            BY <1>4, <3>3, <4>2
          <6>2. \A i \in 1 .. Len(k.held[a]) : k.owner[k.held[a][i]] = a
            BY <3>3 DEF Owned
          <6> QED
            BY <6>1, <6>2 DEF Members
        <5>2. x \in Res
          BY <1>3, <5>1, MembersOf
        <5> QED
          BY <1>1, <1>2, <2>1, <4>2, <5>1, <5>2
      <4> QED
        BY <4>1, <4>2
    <3> QED
      BY <1>3, <1>4, <2>1, <3>1, <3>2, <3>3 DEF Members
  <2>2. CASE t # a
    <3>1. k2.held[t] = k.held[t]
      BY <1>1, <1>2, <2>2
    <3>2. HeldIn(k2)[t] = HeldIn(k)[t]
      BY <3>1 DEF HeldIn
    <3>3. ASSUME ErrorExt, NEW x \in Members(k.held[t]) PROVE k2.owner[x] = t
      <4>1. x # r /\ x \in Res
        BY <1>3, <3>3, MembersOf
      <4>2. k.owner[x] = t
        BY <3>3 DEF Members, Owned
      <4> QED
        BY <1>1, <1>2, <4>1, <4>2
    <3> QED
      BY <2>2, <3>1, <3>2, <3>3 DEF Members, Owned
  <2> QED
    BY <2>1, <2>2
<1>6. HeldIn(k2) = [HeldIn(k) EXCEPT ![a] = @ \cup {r}]
  <2>1. HeldIn(k) = [t \in Task |-> HeldIn(k)[t]] /\ HeldIn(k2) = [t \in Task |-> HeldIn(k2)[t]]
    BY DEF HeldIn
  <2>2. a \in Task
    OBVIOUS
  <2> HIDE DEF a
  <2>3. \A t \in Task : HeldIn(k2)[t] = IF t = a THEN HeldIn(k)[a] \cup {r} ELSE HeldIn(k)[t]
    BY <1>5
  <2> QED
    BY <2>1, <2>2, <2>3
<1> QED
  BY <1>5, <1>6 DEF Owned

\* Os_ReleaseResource of the resource its caller took last.
LEMMA UnlockedOwned ==
  ASSUME NEW k \in KernelType, Owned(k), k.active \in Task, NEW r \in Res,
         k.held[k.active] # <<>>, Head(k.held[k.active]) = r,
         NEW k2, k2 = Unlocked(k, r)
  PROVE  /\ Owned(k2)
         /\ HeldIn(k2) = [HeldIn(k) EXCEPT ![k.active] = @ \ {r}]
<1> DEFINE a == k.active
           h == Tail(k.held[a])
<1>1. /\ k.held \in [Task -> Seq(Res)] /\ k.owner \in [Res -> Task \cup {INVALID}]
      /\ a \in Task
  BY KernelParts
<1>2. /\ k2.held = [k.held EXCEPT ![a] = h] /\ k2.owner = [k.owner EXCEPT ![r] = INVALID]
  BY DEF KernelType, Unlocked
<1>3. \A t \in Task : k.held[t] \in Seq(Res) /\ HeldIn(k)[t] = Members(k.held[t])
  BY <1>1 DEF HeldIn, Members
<1>4. /\ h \in Seq(Res) /\ Members(k.held[a]) = Members(h) \cup {r} /\ Distinct(h)
      /\ r \notin Members(h) /\ r \in Members(k.held[a])
  <2>1. Distinct(k.held[a]) /\ k.held[a] \in Seq(Res) /\ k.held[a] # <<>>
    BY <1>1 DEF Owned
  <2> QED
    BY <2>1, PopFront
<1> HIDE DEF h
<1>5. ASSUME ErrorExt, NEW t \in Task, NEW x \in Members(k.held[t])
      PROVE  k.owner[x] = t /\ x \in Res
  BY <1>3, <1>5, MembersOf DEF Members, Owned
<1>6. ASSUME NEW t \in Task
      PROVE  /\ Distinct(k2.held[t])
             /\ ErrorExt => \A i \in 1 .. Len(k2.held[t]) : k2.owner[k2.held[t][i]] = t
             /\ HeldIn(k2)[t] = IF t = a THEN HeldIn(k)[a] \ {r} ELSE HeldIn(k)[t]
  <2>1. CASE t = a
    <3>1. k2.held[t] = h
      BY <1>1, <1>2, <2>1
    <3>2. HeldIn(k2)[t] = Members(h)
      BY <1>4, <3>1 DEF HeldIn, Members
    <3>3. ASSUME ErrorExt, NEW x \in Members(h) PROVE k2.owner[x] = t
      <4>1. x # r /\ k.owner[x] = a /\ x \in Res
        BY <1>1, <1>4, <1>5, <3>3
      <4> QED
        BY <1>1, <1>2, <2>1, <4>1
    <3>4. HeldIn(k2)[t] = HeldIn(k)[a] \ {r}
      BY <1>1, <1>3, <1>4, <3>2
    <3> QED
      BY <1>4, <2>1, <3>1, <3>3, <3>4 DEF Members
  <2>2. CASE t # a
    <3>1. k2.held[t] = k.held[t]
      BY <1>1, <1>2, <2>2
    <3>2. HeldIn(k2)[t] = HeldIn(k)[t]
      BY <3>1 DEF HeldIn
    <3>3. ASSUME ErrorExt, NEW x \in Members(k.held[t]) PROVE k2.owner[x] = t
      <4>1. k.owner[x] = t /\ x \in Res /\ k.owner[r] = a
        BY <1>1, <1>4, <1>5, <3>3
      <4>2. x # r
        BY <2>2, <4>1
      <4> QED
        BY <1>1, <1>2, <4>1, <4>2
    <3> QED
      BY <2>2, <3>1, <3>2, <3>3 DEF Members, Owned
  <2> QED
    BY <2>1, <2>2
<1>7. HeldIn(k2) = [HeldIn(k) EXCEPT ![a] = @ \ {r}]
  <2>1. HeldIn(k) = [t \in Task |-> HeldIn(k)[t]] /\ HeldIn(k2) = [t \in Task |-> HeldIn(k2)[t]]
    BY DEF HeldIn
  <2>2. \A t \in Task : HeldIn(k2)[t] = IF t = a THEN HeldIn(k)[a] \ {r} ELSE HeldIn(k)[t]
    BY <1>6
  <2> HIDE DEF a
  <2> QED
    BY <1>1, <2>1, <2>2
<1> QED
  BY <1>6, <1>7 DEF Owned

\* GetResource succeeds only for a resource that is free: another holder would have the
\* ceiling, above the caller, and the caller itself is recorded or must not ask again.
LEMMA GetFinds ==
  ASSUME Sound, IInv, Owned(os), Running(os), NEW r \in ResArg, MayGet(r),
         GetError(os, r) = "E_OK"
  PROVE  /\ r \in Res /\ os.active \in Task
         /\ TaskPriority[os.active] <= Ceiling[r]
         /\ os.priority[os.active] <= Ceiling[r]
         /\ \A t \in Task : r \notin HeldIn(os)[t]
<1> DEFINE a == os.active
<1>1. /\ Core(os) /\ Highest(os) /\ a \in Task /\ os.state[a] # "SUSPENDED"
      /\ r \in Res /\ os \in KernelType
  BY Arguments, BuildAssumption DEF IInv, KInv, Core, Running, GetError
<1>2. /\ os.priority[a] \in Int /\ TaskPriority[a] \in Int /\ TaskPriority[a] <= os.priority[a]
      /\ Ceiling[r] \in Int
  BY <1>1, PriorityBounds, Numbers
<1>3. os.priority[a] <= Ceiling[r]
  <2>1. CASE ErrorExt
    <3>1. ~(os.priority[a] > Ceiling[r])
      BY <1>1, <2>1 DEF GetError
    <3> QED
      BY <1>2, <3>1
  <2>2. CASE ~ErrorExt
    BY <2>2 DEF MayGet, Sound
  <2> QED
    BY <2>1, <2>2
<1>4. ASSUME NEW t \in Task, r \in HeldIn(os)[t] PROVE FALSE
  <2>1. PICK i \in DOMAIN os.held[t] : os.held[t][i] = r
    BY <1>4 DEF HeldIn
  <2>2. CASE t = a
    <3>1. i \in 1 .. Len(os.held[t])
      BY <1>1, <2>1, KernelParts
    <3>2. CASE ErrorExt
      <4>1. os.owner[r] = a
        BY <2>1, <2>2, <3>1, <3>2 DEF Owned
      <4>2. os.owner[r] = INVALID
        BY <1>1, <3>2 DEF GetError
      <4> QED
        BY <1>1, <4>1, <4>2, Numbers
    <3>3. CASE ~ErrorExt
      BY <2>1, <2>2, <3>3 DEF MayGet
    <3> QED
      BY <3>2, <3>3
  <2>3. CASE t # a
    <3>1. Holds(t, r)
      BY <2>1 DEF Holds
    <3>2. /\ HasStarted(os, t) /\ os.priority[t] \in Int /\ Ceiling[r] <= os.priority[t]
      BY <1>1, <3>1, HolderBounds
    <3>3. os.priority[t] < TaskPriority[a]
      BY <1>1, <2>3, <3>2, OthersBelow
    <3> QED
      BY <1>2, <1>3, <3>2, <3>3
  <2> QED
    BY <2>2, <2>3
<1> QED
  BY <1>1, <1>2, <1>3, <1>4

LEMMA GetStep ==
  ASSUME Sound, IInv, Owned(os), NEW r \in ResArg, GetResource(r)
  PROVE  /\ Owned(os')
         /\ UNCHANGED Sched!vars \/ (os.active \in Task /\ r \in Res /\ Sched!Get(os.active, r))
<1>1. /\ Running(os) /\ MayGet(r) /\ boot > TaskCount /\ boot' = boot
      /\ os' = GetResource_Internal(os, r) /\ os \in KernelType
  BY CallingServed DEF GetResource, Service, IInv, KInv, Core
<1>2. CASE GetError(os, r) # "E_OK"
  <2>1. os' = Fail(os, GetError(os, r))
    BY <1>1, <1>2 DEF GetResource_Internal
  <2>2. GetError(os, r) \in Status
    BY DEF GetError, Status
  <2>3. os'.held = os.held /\ KeepsOwners(os, os')
    <3>1. Owners(os)
      BY <1>1 DEF Owners, KernelType
    <3> QED
      BY <1>1, <2>1, <2>2, <3>1, FailFields, TransitionOwners DEF SameSchedule
  <2> QED
    BY <1>1, <2>1, <2>2, <2>3, FailStep, OwnedKept
<1>3. CASE GetError(os, r) = "E_OK"
  <2> DEFINE a == os.active
  <2>1. /\ r \in Res /\ a \in Task /\ TaskPriority[a] <= Ceiling[r]
        /\ os.priority[a] <= Ceiling[r] /\ \A t \in Task : r \notin HeldIn(os)[t]
    BY <1>1, <1>3, GetFinds
  <2>2. os' = Taken(os, r)
    BY <1>1, <1>3, <2>1, TakenFields
  <2>3. Owned(os') /\ HeldIn(os') = [HeldIn(os) EXCEPT ![a] = @ \cup {r}]
    BY <1>1, <2>1, <2>2, TakenOwned
  <2>4. /\ os'.active = os.active /\ os'.state = os.state /\ os'.activation = os.activation
        /\ os'.ready = os.ready
    BY <1>1, <2>1, <2>2, TakenCore DEF IInv, KInv
  <2>5. /\ ToStart(os') = ToStart(os) /\ StartedIn(os') = StartedIn(os)
        /\ ActivationsOf(os') = ActivationsOf(os) /\ Running(os') = Running(os)
    BY <2>4, SameView
  <2>6. Sched!Runs(a)
    BY <1>1, CallerRuns
  <2> HIDE DEF a
  <2>7. Sched!Get(a, r)
    BY <1>1, <2>1, <2>3, <2>5, <2>6 DEF Sched!Get
  <2> QED
    BY <2>1, <2>3, <2>7 DEF a
<1> QED
  BY <1>2, <1>3

LEMMA ReleaseStep ==
  ASSUME NoInternal, IInv, Owned(os), NEW r \in ResArg, ReleaseResource(r)
  PROVE  /\ Owned(os')
         /\ \/ UNCHANGED Sched!vars
            \/ os.active \in Task /\ r \in Res /\ Sched!Release(os.active, r)
<1>1. /\ Running(os) /\ MayRelease(r) /\ boot > TaskCount /\ boot' = boot
      /\ os' = ReleaseResource_Internal(os, r) /\ os \in KernelType
  BY CallingServed DEF ReleaseResource, Service, IInv, KInv, Core
<1>2. CASE ReleaseError(os, r) # "E_OK"
  <2>1. os' = Fail(os, ReleaseError(os, r))
    BY <1>1, <1>2 DEF ReleaseResource_Internal
  <2>2. ReleaseError(os, r) \in Status
    BY DEF ReleaseError, Status
  <2>3. os'.held = os.held /\ KeepsOwners(os, os')
    <3>1. Owners(os)
      BY <1>1 DEF Owners, KernelType
    <3> QED
      BY <1>1, <2>1, <2>2, <3>1, FailFields, TransitionOwners DEF SameSchedule
  <2> QED
    BY <1>1, <2>1, <2>2, <2>3, FailStep, OwnedKept
<1>3. CASE ReleaseError(os, r) = "E_OK"
  <2> DEFINE a == os.active
             k == Unlocked(os, r)
  <2>1. os' = Schedule_Internal(k)
    BY <1>1, <1>3, Zenon DEF ReleaseResource_Internal
  <2>2. k = Unlocked(os, r)
    OBVIOUS
  <2> HIDE DEF k
  <2>3. /\ r \in Res /\ a \in Task /\ os.held[a] # <<>> /\ Head(os.held[a]) = r
        /\ Core(os) /\ Highest(os)
    BY <1>1, <1>3, Arguments, BuildAssumption
       DEF ReleaseError, MayRelease, IInv, KInv, Running
  <2>4. /\ Core(k) /\ k.active = a /\ k.state = os.state /\ k.activation = os.activation
        /\ k.ready = os.ready
    BY <1>1, <2>2, <2>3, UnlockedCore
  <2>5. Owned(k) /\ HeldIn(k) = [HeldIn(os) EXCEPT ![a] = @ \ {r}]
    BY <1>1, <2>2, <2>3, UnlockedOwned
  <2>6. ToStart(k) = ToStart(os) /\ StartedIn(k) = StartedIn(os)
        /\ ActivationsOf(k) = ActivationsOf(os)
    BY <2>4, SameView
  <2>7. /\ Sched!Dispatch(ToStart(k), StartedIn(k), HeldIn(k))
        /\ HeldIn(os') = HeldIn(k) /\ ActivationsOf(os') = ActivationsOf(k)
    BY <2>1, <2>4, DispatchStep
  <2>8. Owned(os')
    <3>1. Owners(k)
      BY <2>4 DEF Owners, Core, KernelType
    <3>2. KeepsOwners(k, os') /\ os'.held = k.held
      BY <2>1, <2>4, <3>1, ScheduleOwners, ScheduleCore
    <3> QED
      BY <2>5, <3>2, OwnedKept
  <2>9. r \in HeldIn(os)[a]
    <3>1. os.held[a] \in Seq(Res)
      BY <1>1, <2>3, KernelParts
    <3>2. os.held[a][1] = r /\ 1 \in DOMAIN os.held[a]
      BY <2>3, <3>1, MembersOf
    <3> QED
      BY <2>3, <3>2 DEF HeldIn
  <2>10. Sched!Runs(a)
    BY <1>1, CallerRuns
  <2>11. Sched!Dispatch(ToStart(os), StartedIn(os), [HeldIn(os) EXCEPT ![a] = @ \ {r}])
    BY <2>5, <2>6, <2>7
  <2> HIDE DEF a
  <2>12. Sched!Release(a, r)
    BY <1>1, <2>5, <2>6, <2>7, <2>9, <2>10, <2>11 DEF Sched!Release
  <2> QED
    BY <2>3, <2>8, <2>12 DEF a
<1> QED
  BY <1>2, <1>3

LEMMA FailOwned ==
  ASSUME NEW k, k \in KernelType, Owned(k), NEW e, e \in Status
  PROVE  Owned(Fail(k, e))
<1>1. Owners(k)
  BY DEF Owners, KernelType
<1>2. KeepsOwners(k, Fail(k, e)) /\ Fail(k, e).held = k.held
  BY <1>1, TransitionOwners, FailFields DEF SameSchedule
<1> QED
  BY <1>2, OwnedKept

LEMMA ScheduleOwned ==
  ASSUME NEW k, Core(k), Owned(k)
  PROVE  Owned(Schedule_Internal(k))
<1> DEFINE k2 == Schedule_Internal(k)
<1>1. Owners(k)
  BY DEF Owners, Core, KernelType
<1>2. k2 = Schedule_Internal(k)
  OBVIOUS
<1> HIDE DEF k2
<1>3. KeepsOwners(k, k2) /\ k2.held = k.held
  BY <1>1, <1>2, ScheduleOwners, ScheduleCore
<1> QED
  BY <1>2, <1>3, OwnedKept

LEMMA EndedOwned ==
  ASSUME NEW k, Core(k), Counted(k), Running(k), k.held[k.active] = <<>>, Owned(k)
  PROVE  Core(Ended(k)) /\ Counted(Ended(k)) /\ Owned(Ended(k))
<1> DEFINE a == Ended(k)
<1>1. Owners(k)
  BY DEF Owners, Core, KernelType
<1>2. a = Ended(k)
  OBVIOUS
<1> HIDE DEF a
<1>3. Core(a) /\ Counted(a) /\ KeepsOwners(k, a) /\ a.held = k.held
  BY <1>1, <1>2, EndedOwners, EndedCore
<1> QED
  BY <1>2, <1>3, OwnedKept

LEMMA ActivatedOwned ==
  ASSUME NEW k, Core(k), Counted(k), Owned(k), NEW t \in Task, ~AtLimit(k, t)
  PROVE  Core(Activated(k, t)) /\ Owned(Activated(k, t))
<1> DEFINE a == Activated(k, t)
<1>1. Owners(k)
  BY DEF Owners, Core, KernelType
<1>2. a = Activated(k, t)
  OBVIOUS
<1> HIDE DEF a
<1>3. Core(a) /\ KeepsOwners(k, a) /\ a.held = k.held
  BY <1>1, <1>2, ActivatedOwners, ActivatedCore
<1> QED
  BY <1>2, <1>3, OwnedKept

\* What remains of the services without internal resources.
LEMMA StepsAre ==
  ASSUME NoInternal, IInv
  PROVE  /\ Schedule => Running(os) /\ boot > TaskCount /\ boot' = boot
                         /\ os' = Schedule_Internal(os)
         /\ TerminateTask => Running(os) /\ boot' = boot /\ MayEnd
                              /\ os' = TerminateTask_Internal(os)
         /\ \A t \in TaskArg : ChainTask(t) => Running(os) /\ boot' = boot /\ MayEnd
                                               /\ os' = ChainTask_Internal(os, t)
<1>1. ASSUME Calling
      PROVE  /\ Running(os) /\ boot > TaskCount /\ Served(os)
             /\ InternalResource_Release(os) = os
  BY <1>1, CallingServed, NoInternalResource DEF Served
<1>2. ASSUME Schedule
      PROVE  /\ Running(os) /\ boot > TaskCount /\ boot' = boot
             /\ os' = Schedule_Internal(os)
  <2>1. Calling /\ Service(InternalResource_Get(Schedule_Internal(InternalResource_Release(os))))
    BY <1>2 DEF Schedule
  <2>2. Served(Schedule_Internal(os))
    BY <1>1, <2>1, ScheduleServed DEF Served, KInv
  <2>3. InternalResource_Get(Schedule_Internal(os)) = Schedule_Internal(os)
    BY <2>2, NoInternalResource DEF Served
  <2> QED
    BY <1>1, <2>1, <2>3 DEF Service
<1>3. ASSUME TerminateTask
      PROVE  Running(os) /\ boot' = boot /\ MayEnd /\ os' = TerminateTask_Internal(os)
  <2>1. /\ Calling /\ MayEnd
        /\ Service(InternalResource_Get(TerminateTask_Internal(InternalResource_Release(os))))
    BY <1>3 DEF TerminateTask
  <2>2. Served(TerminateTask_Internal(os))
    BY <1>1, <2>1, EndsEmpty, TerminateServed DEF Served, KInv
  <2>3. InternalResource_Get(TerminateTask_Internal(os)) = TerminateTask_Internal(os)
    BY <2>2, NoInternalResource DEF Served
  <2> QED
    BY <1>1, <2>1, <2>3 DEF Service
<1>4. ASSUME NEW t \in TaskArg, ChainTask(t)
      PROVE  Running(os) /\ boot' = boot /\ MayEnd /\ os' = ChainTask_Internal(os, t)
  <2>1. /\ Calling /\ MayEnd
        /\ Service(InternalResource_Get(ChainTask_Internal(InternalResource_Release(os), t)))
    BY <1>4 DEF ChainTask
  <2>2. Served(ChainTask_Internal(os, t))
    BY <1>1, <2>1, Arguments, EndsEmpty, ChainServed DEF Served, KInv
  <2>3. InternalResource_Get(ChainTask_Internal(os, t)) = ChainTask_Internal(os, t)
    BY <2>2, NoInternalResource DEF Served
  <2> QED
    BY <1>1, <2>1, <2>3 DEF Service
<1> QED
  BY <1>2, <1>3, <1>4

\* The services of a task and the interrupt, but for those on resources.
LEMMA ServicesOwned ==
  ASSUME Sound, IInv, Owned(os)
  PROVE  /\ \A t \in TaskArg : ActivateTask(t) \/ ChainTask(t) => Owned(os')
         /\ \A t \in AlarmTasks : Expire(t) => Owned(os')
         /\ Schedule \/ TerminateTask \/ Shutdown => Owned(os')
<1>1. os \in KernelType /\ Core(os) /\ Counted(os)
  BY DEF IInv, KInv, Core
<1>2. ASSUME NEW t, ErrorExt \/ t \in Task, MayActivate(t), os' = ActivateTask_Internal(os, t)
      PROVE  Owned(os')
  <2>1. CASE ActivateError(os, t) # "E_OK"
    <3>1. os' = Fail(os, ActivateError(os, t)) /\ ActivateError(os, t) \in Status
      BY <1>2, <2>1 DEF ActivateTask_Internal, ActivateError, Status
    <3> QED
      BY <1>1, <3>1, FailOwned
  <2>2. CASE ActivateError(os, t) = "E_OK"
    <3>1. os' = Schedule_Internal(Activated(os, t))
      BY <1>2, <2>2, Zenon DEF ActivateTask_Internal
    <3>2. t \in Task /\ ~AtLimit(os, t)
      BY <1>2, <2>2, BuildAssumption DEF ActivateError, AtLimit, MayActivate, Sound
    <3>3. Core(Activated(os, t)) /\ Owned(Activated(os, t))
      BY <1>1, <3>2, ActivatedOwned
    <3> QED
      BY <3>1, <3>3, ScheduleOwned
  <2> QED
    BY <2>1, <2>2
<1>3. ASSUME NEW t \in TaskArg, ActivateTask(t) PROVE Owned(os')
  BY <1>2, <1>3, Arguments DEF ActivateTask, Service
<1>4. ASSUME NEW t \in AlarmTasks, Expire(t) PROVE Owned(os')
  BY <1>2, <1>4, ConfigAssumption DEF Expire, Service
<1>5. ASSUME Schedule PROVE Owned(os')
  <2>1. os' = Schedule_Internal(os)
    BY <1>5, StepsAre DEF Sound
  <2> QED
    BY <1>1, <2>1, ScheduleOwned
<1>6. ASSUME EndError(os) # "E_OK", os' = Fail(os, EndError(os)) PROVE Owned(os')
  <2>1. EndError(os) \in Status
    BY DEF EndError, Status
  <2> QED
    BY <1>1, <1>6, <2>1, FailOwned
<1>7. ASSUME Running(os), MayEnd, EndError(os) = "E_OK"
      PROVE  Core(Ended(os)) /\ Counted(Ended(os)) /\ Owned(Ended(os))
  <2>1. os.held[os.active] = <<>>
    BY <1>7, MayEndNow DEF Sound
  <2> QED
    BY <1>1, <1>7, <2>1, EndedOwned
<1>8. ASSUME TerminateTask PROVE Owned(os')
  <2>1. Running(os) /\ MayEnd /\ os' = TerminateTask_Internal(os)
    BY <1>8, StepsAre DEF Sound
  <2>2. CASE EndError(os) = "E_OK"
    <3>1. os' = Schedule_Internal(Ended(os))
      BY <2>1, <2>2, Zenon DEF TerminateTask_Internal
    <3> QED
      BY <1>7, <2>1, <2>2, <3>1, ScheduleOwned
  <2>3. CASE EndError(os) # "E_OK"
    BY <1>6, <2>1, <2>3 DEF TerminateTask_Internal
  <2> QED
    BY <2>2, <2>3
<1>9. ASSUME NEW t \in TaskArg, ChainTask(t) PROVE Owned(os')
  <2>1. Running(os) /\ MayEnd /\ os' = ChainTask_Internal(os, t)
    BY <1>9, StepsAre DEF Sound
  <2>2. CASE EndError(os) = "E_OK"
    <3> DEFINE a == Ended(os)
               b == Activated(a, t)
    <3>1. os' = IF ErrorExt /\ t \notin Task THEN Fail(os, "E_OS_ID")
                ELSE IF AtLimit(a, t) THEN Fail(a, "E_OS_LIMIT")
                ELSE Schedule_Internal(b)
      BY <2>1, <2>2, Zenon DEF ChainTask_Internal
    <3>2. Core(a) /\ Counted(a) /\ Owned(a)
      BY <1>7, <2>1, <2>2
    <3> HIDE DEF a
    <3>3. CASE t \notin Task
      <4>1. os' = Fail(os, "E_OS_ID") /\ "E_OS_ID" \in Status
        BY <3>1, <3>3, Arguments DEF Status
      <4> QED
        BY <1>1, <4>1, FailOwned
    <3>4. CASE t \in Task /\ AtLimit(a, t)
      <4>1. os' = Fail(a, "E_OS_LIMIT") /\ "E_OS_LIMIT" \in Status /\ a \in KernelType
        BY <3>1, <3>2, <3>4 DEF Status, Core
      <4> QED
        BY <3>2, <4>1, FailOwned
    <3>5. CASE t \in Task /\ ~AtLimit(a, t)
      <4>1. os' = Schedule_Internal(b)
        BY <3>1, <3>5
      <4>2. Core(b) /\ Owned(b)
        BY <3>2, <3>5, ActivatedOwned
      <4> HIDE DEF b
      <4> QED
        BY <4>1, <4>2, ScheduleOwned
    <3> QED
      BY <3>3, <3>4, <3>5
  <2>3. CASE EndError(os) # "E_OK"
    BY <1>6, <2>1, <2>3 DEF ChainTask_Internal
  <2> QED
    BY <2>2, <2>3
<1>10. ASSUME Shutdown PROVE Owned(os')
  <2> DEFINE k == Preempted(os)
  <2>1. /\ Served(os) /\ Running(os) /\ MayShutdown /\ os' = Fail(k, "E_OK")
    BY <1>10, CallingServed DEF Shutdown
  <2>2. k = Running_To_Ready(os, os.active)
    BY <2>1, Zenon DEF Preempted
  <2>3. os.priority[os.active] \in Prio /\ Owners(os)
    BY <1>1, <2>1, CallerInList, SoundIsOrderly DEF Owners, KernelType
  <2> HIDE DEF k
  <2>4. Core(k) /\ k.held = os.held /\ KeepsOwners(os, k)
    BY <1>1, <2>1, <2>2, <2>3, PreemptCore, TransitionOwners
  <2>5. Owned(k) /\ k \in KernelType /\ "E_OK" \in Status
    BY <2>4, OwnedKept DEF Core, Status
  <2> QED
    BY <2>1, <2>5, FailOwned
<1> QED
  BY <1>3, <1>4, <1>5, <1>8, <1>9, <1>10

\* The system starts up.
LEMMA BootOwned ==
  ASSUME IInv, Owned(os), Autostart \/ Start
  PROVE  Owned(os')
<1>1. os \in KernelType /\ Core(os) /\ Owners(os)
  BY DEF IInv, KInv, Core, Owners, KernelType
<1>2. CASE Autostart /\ ~TaskAutostart[boot]
  BY <1>2 DEF Autostart
<1>3. CASE Autostart /\ TaskAutostart[boot]
  <2> DEFINE a == IF MultipleActivation THEN WithCount(os, boot, 1) ELSE os
  <2>1. os' = Suspended_To_Ready(a, boot)
    BY <1>3, Zenon DEF Autostart, WithCount
  <2>2. boot \in Task /\ os.state[boot] = "SUSPENDED"
    BY <1>3, CountsAssumption DEF IInv, Autostart, Booting, Task
  <2>3. KeepsOwners(os, a)
    <3>1. KeepsOwners(os, WithCount(os, boot, 1)) /\ KeepsOwners(os, os)
      BY <1>1 DEF KeepsOwners, Owners, WithCount
    <3> QED
      BY <3>1
  <2>4. a \in KernelType /\ SameSchedule(os, a)
    <3>1. CASE MultipleActivation
      <4>1. a = WithCount(os, boot, 1)
        BY <3>1
      <4>2. Byte(1)
        BY DEF Byte
      <4>3. os \in KernelType /\ boot \in Task
        BY <1>1, <2>2
      <4> HIDE DEF a
      <4> QED
        BY <4>1, <4>2, <4>3, Recounted
    <3>2. CASE ~MultipleActivation
      BY <1>1, <3>2 DEF SameSchedule
    <3> QED
      BY <3>1, <3>2
  <2> HIDE DEF a
  <2>5. Core(a) /\ a.state[boot] = "SUSPENDED" /\ a.held = os.held
    BY <1>1, <2>2, <2>4, SameCore DEF SameSchedule
  <2>6. os'.held = a.held
    BY <2>1, <2>2, <2>5, ReadyCore
  <2>7. KeepsOwners(a, os')
    BY <2>1, <2>3, TransitionOwners DEF KeepsOwners
  <2> QED
    BY <2>3, <2>5, <2>6, <2>7, KeepsOwnersTwice, OwnedKept
<1>4. CASE Start
  <2> DEFINE k == [os EXCEPT !.active = 0]
  <2>1. os' = Schedule_Internal(k)
    BY <1>4, Zenon DEF Start
  <2>2. Core(k)
    BY <1>4, StartCore DEF Start
  <2>3. k.held = os.held /\ KeepsOwners(os, k)
    BY <1>1 DEF KeepsOwners, Owners, KernelType
  <2> HIDE DEF k
  <2> QED
    BY <2>1, <2>2, <2>3, OwnedKept, ScheduleOwned
<1> QED
  BY <1>2, <1>3, <1>4

\* Each step of the kernel is one of the schedule, or leaves it as it is.
LEMMA StepRefines ==
  ASSUME Sound, IInv, Owned(os), [Next]_vars
  PROVE  Owned(os') /\ [Sched!Next]_(Sched!vars)
<1> USE DEF Sound
<1>1. CASE Autostart
  BY <1>1, BootOwned, AutostartStep DEF Sched!Next
<1>2. CASE Start
  BY <1>2, BootOwned, StartStep DEF Sched!Next
<1>3. CASE Schedule
  <2>1. Sched!Reschedule
    BY <1>3, StepsAre, RescheduleStep
  <2> QED
    BY <1>3, <2>1, ServicesOwned DEF Sched!Next
<1>4. CASE TerminateTask
  <2>1. UNCHANGED Sched!vars \/ (os.active \in Task /\ Sched!Terminate(os.active))
    BY <1>4, StepsAre, TerminateStep
  <2> QED
    BY <1>4, <2>1, ServicesOwned DEF Sched!Next
<1>5. CASE Shutdown
  BY <1>5, ShutdownStep, ServicesOwned DEF Sched!Next
<1>6. ASSUME NEW t \in TaskArg, ChainTask(t) PROVE Owned(os') /\ [Sched!Next]_(Sched!vars)
  <2>1. \/ UNCHANGED Sched!vars
        \/ /\ os.active \in Task /\ t \in Task
           /\ Sched!Chain(os.active, t) \/ Sched!ChainFails(os.active, t)
    BY <1>6, StepsAre, Arguments, ChainStep
  <2> QED
    BY <1>6, <2>1, ServicesOwned DEF Sched!Next
<1>7. ASSUME NEW t \in TaskArg, ActivateTask(t) PROVE Owned(os') /\ [Sched!Next]_(Sched!vars)
  <2>1. /\ boot > TaskCount /\ boot' = boot /\ os' = ActivateTask_Internal(os, t)
        /\ ~MultipleActivation /\ ~ErrorExt => os.state[t] = "SUSPENDED"
    BY <1>7, CallingServed DEF ActivateTask, Service, MayActivate
  <2>2. UNCHANGED Sched!vars \/ (t \in Task /\ Sched!Activate(t))
    BY <2>1, Arguments, ActivateStep
  <2> QED
    BY <1>7, <2>2, ServicesOwned DEF Sched!Next
<1>8. ASSUME NEW t \in AlarmTasks, Expire(t) PROVE Owned(os') /\ [Sched!Next]_(Sched!vars)
  <2>1. /\ boot > TaskCount /\ boot' = boot /\ os' = ActivateTask_Internal(os, t) /\ t \in Task
        /\ ~MultipleActivation /\ ~ErrorExt => os.state[t] = "SUSPENDED"
    BY <1>8, ConfigAssumption DEF Expire, Service, MayActivate, IInv
  <2>2. UNCHANGED Sched!vars \/ (t \in Task /\ Sched!Activate(t))
    BY <2>1, ActivateStep
  <2> QED
    BY <1>8, <2>2, ServicesOwned DEF Sched!Next
<1>9. ASSUME NEW r \in ResArg, GetResource(r) PROVE Owned(os') /\ [Sched!Next]_(Sched!vars)
  BY <1>9, GetStep DEF Sched!Next
<1>10. ASSUME NEW r \in ResArg, ReleaseResource(r)
       PROVE  Owned(os') /\ [Sched!Next]_(Sched!vars)
  BY <1>10, ReleaseStep DEF Sched!Next
<1>11. CASE IncrementCounter \/ IsrEnter \/ UNCHANGED vars
  <2>1. os' = os /\ boot' = boot
    BY <1>11 DEF IncrementCounter, IsrEnter, vars
  <2> QED
    BY <2>1, SameStep DEF SameSchedule
<1>12. CASE IncrementReturn
  <2>1. os' = Fail(os, "E_OK") /\ boot' = boot /\ os \in KernelType /\ "E_OK" \in Status
    BY <1>12 DEF IncrementReturn, IInv, KInv, Core, Status
  <2> QED
    BY <2>1, FailOwned, FailStep
<1>13. CASE IsrExit
  <2>1. os' = Schedule_Internal(os) /\ boot' = boot /\ boot > TaskCount /\ Core(os)
    BY <1>13 DEF IsrExit, IInv, KInv
  <2> QED
    BY <2>1, ScheduleOwned, RescheduleStep DEF Sched!Next
<1> QED
  BY <1>1, <1>2, <1>3, <1>4, <1>5, <1>6, <1>7, <1>8, <1>9, <1>10, <1>11, <1>12, <1>13 DEF Next

LEMMA InitOwned == Init => Owned(os)
<1> SUFFICES ASSUME Init PROVE Owned(os)
  OBVIOUS
<1>1. os.held = [t \in Task |-> <<>>]
  BY DEF Init
<1>2. ASSUME NEW t \in Task PROVE os.held[t] = <<>> /\ Len(os.held[t]) = 0
  BY <1>1
<1> QED
  BY <1>2 DEF Owned, Distinct

\* The kernel implements the scheduler that OsSchedSpec describes: whatever sequence of
\* services and ticks, each task starts, ends, queues again and resumes as priorities,
\* ceilings and the order of activation demand, and no GetResource that succeeds takes a
\* resource that another task holds.
THEOREM KernelKeepsSchedule ==
  ASSUME Sound
  PROVE  Spec => KeepsSchedule
<1>1. Init => Sched!Init /\ Owned(os)
  BY InitStep, InitOwned
<1>2. IInv /\ Owned(os) /\ [Next]_vars => Owned(os)' /\ [Sched!Next]_(Sched!vars)
  BY StepRefines
<1>3. Spec => []IInv
  BY Invariance, SoundIsOrderly
<1> QED
  BY <1>1, <1>2, <1>3, PTL DEF Spec, KeepsSchedule, Sched!Spec
===============================================================================
