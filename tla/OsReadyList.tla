------------------------------ MODULE OsReadyList ------------------------------
(***************************************************************************)
(* The ready lists of OsKernel as src/src/Os.c keeps them: a head and a    *)
(* tail for each priority, and one link in each task.  OsKernel has a      *)
(* sequence in place of each; here is why it may.                          *)
(*                                                                         *)
(* A list is a record of its head, its tail and the links of all tasks,    *)
(* which the lists share.                                                  *)
(***************************************************************************)
EXTENDS OsKernel

Link == Task \cup {INVALID}

\* Os_ReadyListType, with Os_TaskControls[].next.
ReadyListType == [head : Link, tail : Link, next : [Task -> Link]]

\* Mutants: the old head is lost; the new tail is not linked; the tail outlives the list.
PushHeadUnlinked(l, t) ==
  [l EXCEPT !.head = t, !.tail = IF @ = INVALID THEN t ELSE @, !.next[t] = INVALID]
PushTailUnlinked(l, t) ==
  [head |-> IF l.head = INVALID THEN t ELSE l.head,
   tail |-> t,
   next |-> [l.next EXCEPT ![t] = INVALID]]
PopHeadTailKept(l) ==
  IF l.tail = INVALID THEN l
  ELSE [l EXCEPT !.head = l.next[l.head], !.next[l.head] = INVALID]

ReadyListPushHead(l, t) ==
  [head |-> t,
   tail |-> IF l.tail = INVALID THEN t ELSE l.tail,
   next |-> [l.next EXCEPT ![t] = l.head]]

ReadyListPushTail(l, t) ==
  [head |-> IF l.head = INVALID THEN t ELSE l.head,
   tail |-> t,
   next |-> [u \in Task |-> IF l.head # INVALID /\ u = l.tail THEN t
                            ELSE IF u = t THEN INVALID
                            ELSE l.next[u]]]

\* The task popped is the old head.  Of an empty list nothing is popped (the code then
\* writes a link past the array).
ReadyListPopHead(l) ==
  IF l.tail = INVALID THEN l
  ELSE [head |-> l.next[l.head],
        tail |-> IF l.tail = l.head THEN INVALID ELSE l.tail,
        next |-> [l.next EXCEPT ![l.head] = INVALID]]

ReadyListInit == [head |-> INVALID, tail |-> INVALID, next |-> [t \in Task |-> INVALID]]

-------------------------------------------------------------------------------
(* Lists and sequences *)

\* The links make a chain of the tasks of s.
Chained(next, s) ==
  \A i \in 1 .. Len(s) : next[s[i]] = IF i = Len(s) THEN INVALID ELSE s[i + 1]

\* List l holds the tasks of s in their order.
Represents(l, s) ==
  /\ l.head = IF s = <<>> THEN INVALID ELSE s[1]
  /\ l.tail = IF s = <<>> THEN INVALID ELSE s[Len(s)]
  /\ Chained(l.next, s)

\* The tasks behind t when the sequences in ready are the lists, the links, and the
\* list of priority p.
Behind(ready, t) ==
  {u \in Task : \E p \in Prio : \E i \in 1 .. Len(ready[p]) - 1 :
                  ready[p][i] = t /\ ready[p][i + 1] = u}

LinksOf(ready) ==
  [t \in Task |-> IF Behind(ready, t) = {} THEN INVALID
                  ELSE CHOOSE u \in Behind(ready, t) : TRUE]

ListOf(ready, p) ==
  [head |-> IF ready[p] = <<>> THEN INVALID ELSE ready[p][1],
   tail |-> IF ready[p] = <<>> THEN INVALID ELSE ready[p][Len(ready[p])],
   next |-> LinksOf(ready)]

\* l is list p after a step that leaves s in it, and the chains of the other lists.
Becomes(l, p, s) ==
  /\ Represents(l, s)
  /\ \A q \in Prio \ {p} : Chained(l.next, os.ready[q])

-------------------------------------------------------------------------------
(* Properties *)

\* The links do what the sequences of OsKernel say: on every list the kernel reaches,
\* popping its head, and pushing a task that is in no list at either end, leave the
\* list as on the sequence, and tear no other list though all share the links.
LinksFollow ==
  \A p \in Prio :
    LET l == ListOf(os.ready, p)
        s == os.ready[p]
    IN  /\ Represents(l, s)
        /\ s # <<>> => l.head = Head(s) /\ Becomes(ReadyListPopHead(l), p, Tail(s))
        /\ \A t \in Task : (\A q \in Prio : ~InList(q, t)) =>
             /\ Becomes(ReadyListPushHead(l, t), p, <<t>> \o s)
             /\ Becomes(ReadyListPushTail(l, t), p, Append(s, t))
===============================================================================
