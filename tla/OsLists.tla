-------------------------------- MODULE OsLists --------------------------------
(***************************************************************************)
(* Lists without repetition, seen as their members and their head: what    *)
(* the proofs need of the ready lists and of the stacks of resources.      *)
(***************************************************************************)
EXTENDS Integers, Sequences, TLAPS, SequenceTheorems

Members(s) == {s[i] : i \in 1 .. Len(s)}

Distinct(s) == \A i, j \in 1 .. Len(s) : s[i] = s[j] => i = j

\* Members are elements; a list has none exactly when it is empty; the head is one.
LEMMA MembersOf ==
  ASSUME NEW S, NEW s \in Seq(S)
  PROVE  /\ Members(s) \subseteq S
         /\ s = <<>> <=> Members(s) = {}
         /\ s # <<>> => Head(s) \in Members(s) /\ Head(s) = s[1] /\ Len(s) >= 1
<1>1. Members(s) \subseteq S
  BY ElementOfSeq DEF Members
<1>2. CASE s = <<>>
  <2>1. Len(s) = 0
    BY <1>2, EmptySeq
  <2>2. 1 .. Len(s) = {}
    BY <2>1
  <2> QED
    BY <1>1, <1>2, <2>2 DEF Members
<1>3. CASE s # <<>>
  <2>1. Len(s) \in Nat /\ Len(s) >= 1
    BY <1>3, EmptySeq
  <2>2. 1 \in 1 .. Len(s)
    BY <2>1
  <2>3. Head(s) = s[1]
    BY <1>3
  <2>4. s[1] \in Members(s)
    BY <2>2 DEF Members
  <2> QED
    BY <1>1, <1>3, <2>1, <2>3, <2>4
<1> QED
  BY <1>2, <1>3

\* Pushing an element in front.
LEMMA PushFront ==
  ASSUME NEW S, NEW s \in Seq(S), NEW e \in S
  PROVE  /\ <<e>> \o s \in Seq(S)
         /\ <<e>> \o s # <<>>
         /\ Len(<<e>> \o s) = Len(s) + 1
         /\ (<<e>> \o s)[1] = e
         /\ Head(<<e>> \o s) = e
         /\ \A i \in 1 .. Len(s) + 1 : i # 1 => i - 1 \in 1 .. Len(s) /\ (<<e>> \o s)[i] = s[i - 1]
         /\ Members(<<e>> \o s) = Members(s) \cup {e}
         /\ Distinct(s) /\ e \notin Members(s) => Distinct(<<e>> \o s)
<1> DEFINE n == <<e>> \o s
<1>1. <<e>> \in Seq(S) /\ Len(<<e>>) = 1 /\ <<e>>[1] = e
  OBVIOUS
<1>2. Len(s) \in Nat
  BY LenProperties
<1>3. n \in Seq(S) /\ Len(n) = Len(s) + 1 /\ n[1] = e
  BY <1>1, <1>2, ConcatProperties
<1>4. \A i \in 1 .. Len(s) + 1 : i # 1 => i - 1 \in 1 .. Len(s) /\ n[i] = s[i - 1]
  BY <1>1, <1>2, ConcatProperties
<1>5. \A i \in 1 .. Len(s) : i + 1 \in 1 .. Len(s) + 1 /\ n[i + 1] = s[i]
  BY <1>1, <1>2, ConcatProperties
<1>6. n # <<>>
  <2>1. Len(n) # 0
    BY <1>2, <1>3
  <2> QED
    BY <2>1
<1>7. Head(n) = e
  BY <1>3, <1>6
<1> HIDE DEF n
<1>8. Members(n) = Members(s) \cup {e}
  <2>1. Members(n) \subseteq Members(s) \cup {e}
    BY <1>2, <1>3, <1>4 DEF Members
  <2>2. Members(s) \subseteq Members(n)
    BY <1>3, <1>5 DEF Members
  <2>3. e \in Members(n)
    BY <1>2, <1>3 DEF Members
  <2> QED
    BY <2>1, <2>2, <2>3
<1>9. ASSUME Distinct(s), e \notin Members(s) PROVE Distinct(n)
  <2> SUFFICES ASSUME NEW i \in 1 .. Len(s) + 1, NEW j \in 1 .. Len(s) + 1, n[i] = n[j]
               PROVE  i = j
    BY <1>3 DEF Distinct
  <2>1. \A l \in 1 .. Len(s) : s[l] # e
    BY <1>9 DEF Members
  <2>2. CASE i = 1 \/ j = 1
    BY <1>3, <1>4, <2>1, <2>2
  <2>3. CASE i # 1 /\ j # 1
    <3>1. i - 1 = j - 1
      BY <1>4, <1>9, <2>3 DEF Distinct
    <3> QED
      BY <1>2, <3>1
  <2> QED
    BY <2>2, <2>3
<1> QED
  BY <1>3, <1>4, <1>6, <1>7, <1>8, <1>9 DEF n

\* Appending an element at the end.
LEMMA PushBack ==
  ASSUME NEW S, NEW s \in Seq(S), NEW e \in S
  PROVE  /\ Append(s, e) \in Seq(S)
         /\ Append(s, e) # <<>>
         /\ s # <<>> => Head(Append(s, e)) = Head(s)
         /\ Members(Append(s, e)) = Members(s) \cup {e}
         /\ Distinct(s) /\ e \notin Members(s) => Distinct(Append(s, e))
<1> DEFINE n == Append(s, e)
<1>1. Len(s) \in Nat
  BY LenProperties
<1>2. /\ n \in Seq(S) /\ n # <<>> /\ Len(n) = Len(s) + 1
      /\ \A i \in 1 .. Len(s) : n[i] = s[i]
      /\ n[Len(s) + 1] = e
  BY AppendProperties
<1>3. s # <<>> => Head(n) = Head(s)
  BY HeadTailAppend
<1> HIDE DEF n
<1>4. Members(n) = Members(s) \cup {e}
  <2>1. Members(n) \subseteq Members(s) \cup {e}
    BY <1>1, <1>2 DEF Members
  <2>2. Members(s) \subseteq Members(n)
    BY <1>1, <1>2 DEF Members
  <2>3. e \in Members(n)
    BY <1>1, <1>2 DEF Members
  <2> QED
    BY <2>1, <2>2, <2>3
<1>5. ASSUME Distinct(s), e \notin Members(s) PROVE Distinct(n)
  <2>1. \A l \in 1 .. Len(s) : s[l] # e
    BY <1>5 DEF Members
  <2> QED
    BY <1>1, <1>2, <1>5, <2>1 DEF Distinct
<1> QED
  BY <1>2, <1>3, <1>4, <1>5 DEF n

\* Taking the first element off.
LEMMA PopFront ==
  ASSUME NEW S, NEW s \in Seq(S), s # <<>>
  PROVE  /\ Tail(s) \in Seq(S)
         /\ \A i \in 1 .. Len(Tail(s)) : i + 1 \in 1 .. Len(s) /\ Tail(s)[i] = s[i + 1]
         /\ Members(s) = Members(Tail(s)) \cup {Head(s)}
         /\ Distinct(s) => Distinct(Tail(s)) /\ Head(s) \notin Members(Tail(s))
<1> DEFINE n == Tail(s)
<1>1. Len(s) \in Nat /\ Len(s) >= 1 /\ Head(s) = s[1]
  BY EmptySeq
<1>2. n \in Seq(S) /\ Len(n) = Len(s) - 1 /\ \A i \in 1 .. Len(n) : n[i] = s[i + 1]
  BY HeadTailProperties
<1> HIDE DEF n
<1>3. \A i \in 1 .. Len(n) : i + 1 \in 1 .. Len(s) /\ n[i] = s[i + 1]
  BY <1>1, <1>2
<1>4. \A i \in 1 .. Len(s) : i # 1 => i - 1 \in 1 .. Len(n) /\ n[i - 1] = s[i]
  BY <1>1, <1>2
<1>5. Members(s) = Members(n) \cup {Head(s)}
  <2>1. Members(s) \subseteq Members(n) \cup {Head(s)}
    BY <1>1, <1>4 DEF Members
  <2>2. Members(n) \subseteq Members(s)
    BY <1>3 DEF Members
  <2>3. Head(s) \in Members(s)
    BY <1>1 DEF Members
  <2> QED
    BY <2>1, <2>2, <2>3
<1>6. ASSUME Distinct(s) PROVE Distinct(n) /\ Head(s) \notin Members(n)
  <2>1. Distinct(n)
    <3> SUFFICES ASSUME NEW i \in 1 .. Len(n), NEW j \in 1 .. Len(n), n[i] = n[j]
                 PROVE  i = j
      BY DEF Distinct
    <3>1. i + 1 = j + 1
      BY <1>3, <1>6 DEF Distinct
    <3> QED
      BY <3>1
  <2>2. ASSUME NEW i \in 1 .. Len(n), n[i] = Head(s) PROVE FALSE
    <3>1. i + 1 = 1
      BY <1>1, <1>3, <1>6, <2>2 DEF Distinct
    <3> QED
      BY <3>1
  <2> QED
    BY <2>1, <2>2 DEF Members
<1> QED
  BY <1>2, <1>3, <1>5, <1>6 DEF n
===============================================================================
