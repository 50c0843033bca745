--------------------------- MODULE KListWalk_lemmas ---------------------------
(***************************************************************************)
(* What the walks of list.h meet, and what the list operations do to the   *)
(* sequence that a ring holds, for sequences of any length.                *)
(*                                                                         *)
(* A walk is a recursive function, so its lemmas need induction over the   *)
(* length of the walk.  The provers cannot instantiate an induction        *)
(* theorem that takes a predicate; Induction below takes a set, and        *)
(* follows from the least element of its complement.                       *)
(***************************************************************************)
EXTENDS KListWalk, SequencesExt, SequenceTheorems, FiniteSetTheorems, TLAPS

\* A set of numbers that has 0, and n + 1 with each n, has all.
LEMMA Induction ==
    ASSUME NEW T, T \subseteq Nat, 0 \in T, \A n \in T : n + 1 \in T
    PROVE  T = Nat
  <1> DEFINE R == OpToRel(<, Nat)
             M == Nat \ T
  <1>1. IsWellFoundedOn(R, Nat)
    BY NatLessThanWellFounded, Zenon
  <1>2. \A x, y \in Nat : x < y => <<x, y>> \in R
    BY Zenon DEF OpToRel
  <1> HIDE DEF R
  <1>3. ASSUME M # {} PROVE FALSE
    <2>1. PICK x \in M : \A y \in M : ~(<<y, x>> \in R)
      BY <1>1, <1>3, WFMin
    <2>2. x - 1 \in Nat /\ x - 1 < x /\ x \in Nat
      BY <2>1
    <2>3. x - 1 \in T
      BY <1>2, <2>1, <2>2
    <2> QED BY <2>1, <2>2, <2>3
  <1> QED BY <1>3

-----------------------------------------------------------------------------
(* The walks. *)

\* g is what k_list_steps should be.
Steps(pointer, head, n, g) ==
    g = [i \in 0 .. n |->
            [x \in DOMAIN pointer |->
                IF i = 0 \/ pointer[x] \notin DOMAIN pointer \ {head} THEN <<>>
                ELSE <<pointer[x]>> \o g[i - 1][pointer[x]]]]

LEMMA StepsExist ==
    ASSUME NEW pointer, NEW head, NEW n \in Nat
    PROVE  \E g : Steps(pointer, head, n, g)
  <1> DEFINE T == {m \in Nat : \E g : Steps(pointer, head, m, g)}
             line(i, g) == [x \in DOMAIN pointer |->
                              IF i = 0 \/ pointer[x] \notin DOMAIN pointer \ {head} THEN <<>>
                              ELSE <<pointer[x]>> \o g[i - 1][pointer[x]]]
  <1>1. 0 \in T
    <2> DEFINE g == [i \in 0 .. 0 |-> [x \in DOMAIN pointer |-> <<>>]]
    <2>1. Steps(pointer, head, 0, g)
      BY DEF Steps
    <2> QED BY <2>1
  <1>2. ASSUME NEW m \in T PROVE m + 1 \in T
    <2>1. PICK g : Steps(pointer, head, m, g)
      BY <1>2
    <2> DEFINE h == [i \in 0 .. m + 1 |-> IF i <= m THEN g[i] ELSE line(m + 1, g)]
    <2>2. \A i \in 0 .. m : g[i] = line(i, g)
      BY <2>1 DEF Steps
    <2>3. \A i \in 0 .. m + 1 : i # 0 => i - 1 \in 0 .. m + 1 /\ h[i - 1] = g[i - 1]
      BY <1>2
    <2>4. \A i \in 0 .. m + 1 : line(i, h) = line(i, g)
      BY <2>3
    <2>5. \A i \in 0 .. m + 1 : h[i] = line(i, g)
      <3>1. \A i \in 0 .. m + 1 : i <= m \/ i = m + 1
        BY <1>2
      <3>2. \A i \in 0 .. m + 1 : i <= m => i \in 0 .. m
        BY <1>2
      <3>3. ~(m + 1 <= m)
        BY <1>2
      <3> HIDE DEF line
      <3> QED BY <2>2, <3>1, <3>2, <3>3
    <2>6. h = [i \in 0 .. m + 1 |-> line(i, h)]
      BY <2>4, <2>5
    <2>7. Steps(pointer, head, m + 1, h)
      BY <2>6 DEF Steps
    <2> QED BY <1>2, <2>7
  <1> HIDE DEF T
  <1>3. T = Nat
    <2>1. T \subseteq Nat
      BY DEF T
    <2> QED BY <1>1, <1>2, <2>1, Induction
  <1> QED BY <1>3 DEF T

LEMMA StepsDefined ==
    ASSUME NEW pointer, NEW head, NEW n \in Nat
    PROVE  Steps(pointer, head, n, k_list_steps(pointer, head, n))
  <1>1. \E g : Steps(pointer, head, n, g)
    BY StepsExist
  <1> QED BY <1>1, Zenon DEF Steps, k_list_steps

\* The i-th node of the ring of head h and entries s: h comes before the first entry
\* and after the last.
At(s, h, i) == IF i \in DOMAIN s THEN s[i] ELSE h

\* The pointer leads from the head through the entries of s and back.
Leads(pointer, h, s) == \A i \in 0 .. Len(s) : pointer[At(s, h, i)] = At(s, h, i + 1)

\* The walk behind each node meets the rest of the entries.
LEMMA WalkMeets ==
    ASSUME NEW pointer, NEW h \in DOMAIN pointer, NEW s \in Seq(DOMAIN pointer \ {h}),
           Leads(pointer, h, s), NEW n \in Nat, Len(s) <= n
    PROVE  /\ k_list_walk(pointer, h, n) = s
           /\ \A j \in DOMAIN s : k_list_continue(pointer, s[j], h, n) = SubSeq(s, j + 1, Len(s))
  <1> DEFINE g == k_list_steps(pointer, h, n)
             P(i) == \A j \in 0 .. Len(s) :
                        Len(s) - j <= i => g[i][At(s, h, j)] = SubSeq(s, j + 1, Len(s))
             T == {i \in Nat : i <= n => P(i)}
  <1>0. Len(s) \in Nat /\ DOMAIN s = 1 .. Len(s) /\ \A j \in DOMAIN s : s[j] \in DOMAIN pointer \ {h}
    OBVIOUS
  <1>1. Steps(pointer, h, n, g)
    BY StepsDefined
  <1> HIDE DEF g
  <1>2. \A i \in 0 .. n : g[i] = [x \in DOMAIN pointer |->
                IF i = 0 \/ pointer[x] \notin DOMAIN pointer \ {h} THEN <<>>
                ELSE <<pointer[x]>> \o g[i - 1][pointer[x]]]
    BY <1>1 DEF Steps
  <1>3. \A j \in 0 .. Len(s) : At(s, h, j) \in DOMAIN pointer
    BY <1>0 DEF At
  <1>4. \A i \in 0 .. n : g[i][At(s, h, Len(s))] = SubSeq(s, Len(s) + 1, Len(s))
    <2>1. pointer[At(s, h, Len(s))] = h
      BY <1>0 DEF Leads, At
    <2>2. SubSeq(s, Len(s) + 1, Len(s)) = <<>>
      BY <1>0, SubSeqEmpty
    <2>3. Len(s) \in 0 .. Len(s)
      BY <1>0
    <2> QED BY <1>2, <1>3, <2>1, <2>2, <2>3
  <1>5. P(0)
    <2> SUFFICES ASSUME NEW j \in 0 .. Len(s), Len(s) - j <= 0
                 PROVE  g[0][At(s, h, j)] = SubSeq(s, j + 1, Len(s))
      OBVIOUS
    <2> HIDE DEF P, T
    <2>1. j \in Nat /\ j <= Len(s) /\ Len(s) <= j /\ Len(s) \in Nat
      BY <1>0
    <2>2. j = Len(s)
      BY <2>1
    <2>3. 0 \in 0 .. n
      OBVIOUS
    <2> QED BY <1>4, <2>2, <2>3
  <1>6. ASSUME NEW i \in Nat, i + 1 <= n, P(i) PROVE P(i + 1)
    <2> SUFFICES ASSUME NEW j \in 0 .. Len(s), Len(s) - j <= i + 1
                 PROVE  g[i + 1][At(s, h, j)] = SubSeq(s, j + 1, Len(s))
      OBVIOUS
    <2> HIDE DEF P, T
    <2>0. i + 1 \in 0 .. n /\ i + 1 # 0 /\ (i + 1) - 1 = i
      BY <1>6
    <2>1. CASE j = Len(s)
      BY <1>4, <2>0, <2>1
    <2>2. CASE j # Len(s)
      <3>0. Len(s) \in Nat /\ j \in Nat /\ j <= Len(s)
        BY <1>0
      <3>1. /\ j + 1 \in DOMAIN s /\ j + 1 \in 0 .. Len(s) /\ j + 1 \in 1 .. Len(s)
            /\ Len(s) - (j + 1) <= i /\ Len(s) \in (j + 1) .. Len(s)
        <4>1. j + 1 \in 1 .. Len(s) /\ Len(s) \in (j + 1) .. Len(s) /\ j + 1 \in 0 .. Len(s)
          BY <2>2, <3>0
        <4>2. Len(s) - (j + 1) <= i
          BY <3>0
        <4> QED BY <1>0, <4>1, <4>2
      <3>2. At(s, h, j + 1) = s[j + 1] /\ pointer[At(s, h, j)] = s[j + 1]
        BY <3>1 DEF Leads, At
      <3>3. g[i][s[j + 1]] = SubSeq(s, (j + 1) + 1, Len(s))
        BY <1>6, <3>1, <3>2 DEF P
      <3>4. g[i + 1][At(s, h, j)] = <<s[j + 1]>> \o g[i][s[j + 1]]
        <4>1. At(s, h, j) \in DOMAIN pointer /\ s[j + 1] \in DOMAIN pointer \ {h}
          BY <1>0, <1>3, <3>1
        <4>2. g[i + 1] = [x \in DOMAIN pointer |->
                IF i + 1 = 0 \/ pointer[x] \notin DOMAIN pointer \ {h} THEN <<>>
                ELSE <<pointer[x]>> \o g[i][pointer[x]]]
          BY <1>2, <2>0
        <4> QED BY <2>0, <3>2, <4>1, <4>2
      <3>5. SubSeq(s, j + 1, Len(s)) = <<s[j + 1]>> \o SubSeq(s, (j + 1) + 1, Len(s))
        BY <3>1, SubSeqRecursiveFirst
      <3> QED BY <3>3, <3>4, <3>5
    <2> QED BY <2>1, <2>2
  <1> HIDE DEF P
  <1>7. T = Nat
    <2>1. \A i \in Nat : i + 1 <= n => i <= n
      OBVIOUS
    <2>2. \A i \in T : i + 1 \in T
      BY <1>6, <2>1
    <2>3. 0 \in T /\ T \subseteq Nat
      BY <1>5
    <2> HIDE DEF T
    <2> QED BY <2>2, <2>3, Induction
  <1>8. P(n)
    BY <1>7
  <1>9. \A j \in 0 .. Len(s) : g[n][At(s, h, j)] = SubSeq(s, j + 1, Len(s))
    BY <1>0, <1>8 DEF P
  <1>10. /\ At(s, h, 0) = h /\ 0 \in 0 .. Len(s) /\ 0 + 1 = 1
         /\ \A j \in DOMAIN s : At(s, h, j) = s[j] /\ j \in 0 .. Len(s)
    BY <1>0 DEF At
  <1>11. SubSeq(s, 1, Len(s)) = s
    BY SubSeqFull
  <1>12. g[n][h] = s /\ \A j \in DOMAIN s : g[n][s[j]] = SubSeq(s, j + 1, Len(s))
    BY <1>9, <1>10, <1>11
  <1> QED BY <1>12 DEF k_list_walk, k_list_continue, g

-----------------------------------------------------------------------------
(* The sequence that a ring holds. *)

\* List l links the head and the entries of s, each once, in a ring both ways.
Holds(l, h, s) ==
    /\ IsInjective(s)
    /\ \A i \in 0 .. Len(s) : /\ l.next[At(s, h, i)] = At(s, h, i + 1)
                              /\ l.prev[At(s, h, i + 1)] = At(s, h, i)

\* Sequence s with entry e behind the i-th, and without the i-th.
With(s, i, e) == [j \in 1 .. Len(s) + 1 |-> IF j <= i THEN s[j] ELSE IF j = i + 1 THEN e ELSE s[j - 1]]
Less(s, i)    == [j \in 1 .. Len(s) - 1 |-> IF j < i THEN s[j] ELSE s[j + 1]]

LEMMA NodesTyped ==
    ASSUME NEW D, NEW h, NEW s \in Seq(D \ {h})
    PROVE  /\ Len(s) \in Nat /\ DOMAIN s = 1 .. Len(s) /\ \A i \in DOMAIN s : s[i] \in D \ {h}
           /\ At(s, h, 0) = h /\ At(s, h, Len(s) + 1) = h
           /\ \A i \in 1 .. Len(s) : At(s, h, i) = s[i]
  <1>1. Len(s) \in Nat /\ DOMAIN s = 1 .. Len(s) /\ \A i \in DOMAIN s : s[i] \in D \ {h}
    OBVIOUS
  <1> QED BY <1>1 DEF At

\* The nodes of a ring are different ones.
Differ(s, h) ==
    /\ \A i, j \in 0 .. Len(s) : At(s, h, i) = At(s, h, j) => i = j
    /\ \A i, j \in 1 .. Len(s) + 1 : At(s, h, i) = At(s, h, j) => i = j

LEMMA NodesDiffer ==
    ASSUME NEW D, NEW h, NEW s \in Seq(D \ {h}), IsInjective(s)
    PROVE  Differ(s, h)
  <1>1. /\ Len(s) \in Nat /\ DOMAIN s = 1 .. Len(s) /\ \A i \in DOMAIN s : s[i] \in D \ {h}
        /\ At(s, h, 0) = h /\ At(s, h, Len(s) + 1) = h
        /\ \A i \in 1 .. Len(s) : At(s, h, i) = s[i]
    BY NodesTyped
  <1>2. \A i, j \in 1 .. Len(s) : s[i] = s[j] => i = j
    BY <1>1 DEF IsInjective
  <1>3. ASSUME NEW i \in 0 .. Len(s), NEW j \in 0 .. Len(s), At(s, h, i) = At(s, h, j)
        PROVE  i = j
    BY <1>1, <1>2, <1>3
  <1>4. ASSUME NEW i \in 1 .. Len(s) + 1, NEW j \in 1 .. Len(s) + 1, At(s, h, i) = At(s, h, j)
        PROVE  i = j
    BY <1>1, <1>2, <1>4
  <1> QED BY <1>3, <1>4 DEF Differ

\* Both walks of a ring meet its sequence, the one by prev from the end.
LEMMA BothWalks ==
    ASSUME NEW D, NEW h \in D, NEW s \in Seq(D \ {h}), NEW l, Holds(l, h, s),
           DOMAIN l.next = D, DOMAIN l.prev = D, NEW n \in Nat, Len(s) <= n
    PROVE  /\ k_list_walk(l.next, h, n) = s
           /\ k_list_walk(l.prev, h, n) = Reverse(s)
  <1>0. Len(s) \in Nat /\ DOMAIN s = 1 .. Len(s) /\ \A i \in DOMAIN s : s[i] \in D \ {h}
    OBVIOUS
  <1>1. Leads(l.next, h, s)
    BY DEF Leads, Holds
  <1>2. /\ Reverse(s) \in Seq(D \ {h}) /\ Len(Reverse(s)) = Len(s)
        /\ DOMAIN Reverse(s) = 1 .. Len(s)
        /\ \A i \in 1 .. Len(s) : Reverse(s)[i] = s[Len(s) - i + 1]
    BY <1>0 DEF Reverse
  <1>3. \A i \in 0 .. Len(s) + 1 : At(Reverse(s), h, i) = At(s, h, Len(s) + 1 - i)
    BY <1>0, <1>2 DEF At
  <1>4. Leads(l.prev, h, Reverse(s))
    <2> SUFFICES ASSUME NEW i \in 0 .. Len(s)
                 PROVE  l.prev[At(Reverse(s), h, i)] = At(Reverse(s), h, i + 1)
      BY <1>2 DEF Leads
    <2> DEFINE j == Len(s) - i
    <2>0. Len(s) \in Nat /\ i \in Nat /\ i <= Len(s)
      BY <1>0
    <2>1. j \in 0 .. Len(s) /\ i + 1 \in 0 .. Len(s) + 1 /\ i \in 0 .. Len(s) + 1
          /\ Len(s) + 1 - (i + 1) = j /\ Len(s) + 1 - i = j + 1
      BY <2>0
    <2>2. l.prev[At(s, h, j + 1)] = At(s, h, j)
      BY <2>1 DEF Holds
    <2> QED BY <1>3, <2>1, <2>2
  <1> DEFINE p == l.next
             q == l.prev
             r == Reverse(s)
  <1>5. /\ h \in DOMAIN p /\ s \in Seq(DOMAIN p \ {h}) /\ Leads(p, h, s)
        /\ h \in DOMAIN q /\ r \in Seq(DOMAIN q \ {h}) /\ Leads(q, h, r) /\ Len(r) <= n
    BY <1>1, <1>2, <1>4
  <1> HIDE DEF p, q, r
  <1>6. k_list_walk(p, h, n) = s
    BY <1>5, WalkMeets
  <1>7. k_list_walk(q, h, n) = r
    BY <1>5, WalkMeets
  <1> QED BY <1>6, <1>7 DEF p, q, r

\* __list_add between two neighbours puts the entry between them.
LEMMA AddedBetween ==
    ASSUME NEW D, NEW h \in D, NEW s \in Seq(D \ {h}), NEW l, Holds(l, h, s),
           DOMAIN l.next = D, DOMAIN l.prev = D,
           NEW e \in D \ {h}, \A i \in DOMAIN s : s[i] # e, NEW i \in 0 .. Len(s)
    PROVE  /\ With(s, i, e) \in Seq(D \ {h})
           /\ Holds(list_add_between(l, e, At(s, h, i), At(s, h, i + 1)), h, With(s, i, e))
  <1> DEFINE t == With(s, i, e)
             m == list_add_between(l, e, At(s, h, i), At(s, h, i + 1))
  <1>0. /\ Len(s) \in Nat /\ DOMAIN s = 1 .. Len(s) /\ \A j \in DOMAIN s : s[j] \in D \ {h}
        /\ At(s, h, 0) = h /\ At(s, h, Len(s) + 1) = h
        /\ \A j \in 1 .. Len(s) : At(s, h, j) = s[j]
        /\ \A j, k \in 0 .. Len(s) : At(s, h, j) = At(s, h, k) => j = k
        /\ \A j, k \in 1 .. Len(s) + 1 : At(s, h, j) = At(s, h, k) => j = k
    <2>1. IsInjective(s)
      BY DEF Holds
    <2>2. /\ Len(s) \in Nat /\ DOMAIN s = 1 .. Len(s) /\ \A j \in DOMAIN s : s[j] \in D \ {h}
          /\ At(s, h, 0) = h /\ At(s, h, Len(s) + 1) = h
          /\ \A j \in 1 .. Len(s) : At(s, h, j) = s[j]
      BY NodesTyped
    <2>3. Differ(s, h)
      BY <2>1, NodesDiffer
    <2> QED BY <2>2, <2>3 DEF Differ
  <1>1. t \in Seq(D \ {h}) /\ Len(t) = Len(s) + 1 /\ DOMAIN t = 1 .. Len(s) + 1
    <2>1. \A j \in 1 .. Len(s) + 1 :
             (j <= i => j \in DOMAIN s) /\ (j > i + 1 => j - 1 \in DOMAIN s)
      BY <1>0
    <2>2. t \in [1 .. Len(s) + 1 -> D \ {h}]
      BY <1>0, <2>1 DEF With
    <2>3. Len(s) + 1 \in Nat
      BY <1>0
    <2> QED BY <2>2, <2>3
  <1>2. \A j \in 0 .. Len(s) + 2 :
           At(t, h, j) = IF j <= i THEN At(s, h, j) ELSE IF j = i + 1 THEN e ELSE At(s, h, j - 1)
    BY <1>0, <1>1 DEF At, With
  <1>3. IsInjective(t)
    <2>1. ASSUME NEW j \in 1 .. Len(s) + 1, NEW k \in 1 .. Len(s) + 1, t[j] = t[k] PROVE j = k
      <3>1. \A x, y \in 1 .. Len(s) : s[x] = s[y] => x = y
        BY <1>0 DEF Holds, IsInjective
      <3> QED BY <1>0, <2>1, <3>1 DEF With
    <2> QED BY <1>1, <2>1 DEF IsInjective
  <1>4. /\ m.next = [l.next EXCEPT ![e] = At(s, h, i + 1), ![At(s, h, i)] = e]
        /\ m.prev = [l.prev EXCEPT ![At(s, h, i + 1)] = e, ![e] = At(s, h, i)]
    BY DEF list_add_between
  <1>5. \A j \in 0 .. Len(s) + 1 : At(s, h, j) \in D /\ At(s, h, j) # e
    BY <1>0
  <1>6. ASSUME NEW j \in 0 .. Len(s) + 1
        PROVE  m.next[At(t, h, j)] = At(t, h, j + 1) /\ m.prev[At(t, h, j + 1)] = At(t, h, j)
    <2>0. j \in Nat /\ i \in Nat /\ i <= Len(s) /\ j <= Len(s) + 1 /\ j + 1 \in 0 .. Len(s) + 2
          /\ j \in 0 .. Len(s) + 2 /\ i \in 0 .. Len(s) + 1 /\ i + 1 \in 0 .. Len(s) + 1
      BY <1>0
    <2>1. CASE j < i
      <3>1. At(t, h, j) = At(s, h, j) /\ At(t, h, j + 1) = At(s, h, j + 1)
        BY <1>2, <2>0, <2>1
      <3>2. j \in 0 .. Len(s) /\ At(s, h, j) # At(s, h, i) /\ At(s, h, j + 1) # At(s, h, i + 1)
        BY <1>0, <2>0, <2>1
      <3>3. l.next[At(s, h, j)] = At(s, h, j + 1) /\ l.prev[At(s, h, j + 1)] = At(s, h, j)
        BY <3>2 DEF Holds
      <3> QED BY <1>4, <1>5, <2>0, <3>1, <3>2, <3>3
    <2>2. CASE j = i
      <3>1. At(t, h, j) = At(s, h, i) /\ At(t, h, j + 1) = e
        BY <1>2, <2>0, <2>2
      <3> QED BY <1>4, <1>5, <2>0, <3>1
    <2>3. CASE j = i + 1
      <3>1. At(t, h, j) = e /\ At(t, h, j + 1) = At(s, h, i + 1)
        BY <1>2, <2>0, <2>3
      <3> QED BY <1>4, <1>5, <2>0, <3>1
    <2>4. CASE j > i + 1
      <3>1. At(t, h, j) = At(s, h, j - 1) /\ At(t, h, j + 1) = At(s, h, j)
        BY <1>2, <2>0, <2>4
      <3>2. j - 1 \in 0 .. Len(s) /\ At(s, h, j - 1) # At(s, h, i) /\ At(s, h, j) # At(s, h, i + 1)
        BY <1>0, <2>0, <2>4
      <3>3. l.next[At(s, h, j - 1)] = At(s, h, j) /\ l.prev[At(s, h, j)] = At(s, h, j - 1)
        BY <2>0, <3>2 DEF Holds
      <3> QED BY <1>4, <1>5, <2>0, <3>1, <3>2, <3>3
    <2> QED BY <2>0, <2>1, <2>2, <2>3, <2>4
  <1> QED BY <1>1, <1>3, <1>6 DEF Holds

\* Lists l and m agree on the nodes of D, except e.
SameBut(l, m, D, e) == \A x \in D \ {e} : m.next[x] = l.next[x] /\ m.prev[x] = l.prev[x]

\* __list_del makes the neighbours of the i-th entry neighbours, whatever becomes of
\* the entry's own fields in m.
LEMMA TakenOut ==
    ASSUME NEW D, NEW h \in D, NEW s \in Seq(D \ {h}), NEW l, Holds(l, h, s),
           DOMAIN l.next = D, DOMAIN l.prev = D, NEW i \in 1 .. Len(s), NEW m,
           SameBut(list_del_between(l, l.prev[s[i]], l.next[s[i]]), m, D, s[i])
    PROVE  /\ Less(s, i) \in Seq(D \ {h})
           /\ Holds(m, h, Less(s, i))
  <1> DEFINE t == Less(s, i)
             k == list_del_between(l, l.prev[s[i]], l.next[s[i]])
  <1>0. /\ Len(s) \in Nat /\ DOMAIN s = 1 .. Len(s) /\ \A j \in DOMAIN s : s[j] \in D \ {h}
        /\ At(s, h, 0) = h /\ At(s, h, Len(s) + 1) = h
        /\ \A j \in 1 .. Len(s) : At(s, h, j) = s[j]
        /\ \A x, y \in 0 .. Len(s) : At(s, h, x) = At(s, h, y) => x = y
        /\ \A x, y \in 1 .. Len(s) + 1 : At(s, h, x) = At(s, h, y) => x = y
    <2>1. IsInjective(s)
      BY DEF Holds
    <2>2. /\ Len(s) \in Nat /\ DOMAIN s = 1 .. Len(s) /\ \A j \in DOMAIN s : s[j] \in D \ {h}
          /\ At(s, h, 0) = h /\ At(s, h, Len(s) + 1) = h
          /\ \A j \in 1 .. Len(s) : At(s, h, j) = s[j]
      BY NodesTyped
    <2>3. Differ(s, h)
      BY <2>1, NodesDiffer
    <2> QED BY <2>2, <2>3 DEF Differ
  <1>1. t \in Seq(D \ {h}) /\ Len(t) = Len(s) - 1 /\ DOMAIN t = 1 .. Len(s) - 1
    <2>1. \A j \in 1 .. Len(s) - 1 : j \in DOMAIN s /\ j + 1 \in DOMAIN s
      BY <1>0
    <2>2. t \in [1 .. Len(s) - 1 -> D \ {h}]
      BY <1>0, <2>1 DEF Less
    <2>3. Len(s) - 1 \in Nat
      BY <1>0
    <2> QED BY <2>2, <2>3
  <1>2. \A j \in 0 .. Len(s) : At(t, h, j) = IF j < i THEN At(s, h, j) ELSE At(s, h, j + 1)
    BY <1>0, <1>1 DEF At, Less
  <1>3. IsInjective(t)
    <2>1. ASSUME NEW x \in 1 .. Len(s) - 1, NEW y \in 1 .. Len(s) - 1, t[x] = t[y] PROVE x = y
      <3>1. \A u, v \in 1 .. Len(s) : s[u] = s[v] => u = v
        BY <1>0 DEF Holds, IsInjective
      <3> QED BY <1>0, <2>1, <3>1 DEF Less
    <2> QED BY <1>1, <2>1 DEF IsInjective
  <1>4. /\ l.prev[s[i]] = At(s, h, i - 1) /\ l.next[s[i]] = At(s, h, i + 1)
        /\ i \in Nat /\ 1 <= i /\ i <= Len(s)
    <2>1. i \in Nat /\ 1 <= i /\ i <= Len(s) /\ i \in 0 .. Len(s) /\ i - 1 \in 0 .. Len(s) /\ (i - 1) + 1 = i
      BY <1>0
    <2> QED BY <1>0, <2>1 DEF Holds
  <1>5. /\ k.next = [l.next EXCEPT ![At(s, h, i - 1)] = At(s, h, i + 1)]
        /\ k.prev = [l.prev EXCEPT ![At(s, h, i + 1)] = At(s, h, i - 1)]
    BY <1>4 DEF list_del_between
  <1>6. ASSUME NEW j \in 0 .. Len(s) + 1, j # i PROVE At(s, h, j) \in D \ {s[i]}
    BY <1>0, <1>6
  <1>7. ASSUME NEW j \in 0 .. Len(s) - 1
        PROVE  m.next[At(t, h, j)] = At(t, h, j + 1) /\ m.prev[At(t, h, j + 1)] = At(t, h, j)
    <2>0. j \in Nat /\ j <= Len(s) - 1 /\ j + 1 \in 0 .. Len(s) /\ j \in 0 .. Len(s)
          /\ j + 2 \in 1 .. Len(s) + 1
      BY <1>0
    <2>1. CASE j + 1 < i
      <3>1. At(t, h, j) = At(s, h, j) /\ At(t, h, j + 1) = At(s, h, j + 1)
        BY <1>2, <1>4, <2>0, <2>1
      <3>2. /\ j \in 0 .. Len(s) + 1 /\ j # i /\ j + 1 \in 0 .. Len(s) + 1 /\ j + 1 # i
            /\ At(s, h, j) # At(s, h, i - 1) /\ At(s, h, j + 1) # At(s, h, i + 1)
        BY <1>0, <1>4, <2>0, <2>1
      <3>3. l.next[At(s, h, j)] = At(s, h, j + 1) /\ l.prev[At(s, h, j + 1)] = At(s, h, j)
        BY <2>0 DEF Holds
      <3>4. At(s, h, j) \in D \ {s[i]} /\ At(s, h, j + 1) \in D \ {s[i]}
        BY <1>6, <3>2
      <3> QED BY <1>5, <3>1, <3>2, <3>3, <3>4 DEF SameBut
    <2>2. CASE j + 1 = i
      <3>1. At(t, h, j) = At(s, h, i - 1) /\ At(t, h, j + 1) = At(s, h, i + 1)
        BY <1>2, <1>4, <2>0, <2>2
      <3>2. i - 1 \in 0 .. Len(s) + 1 /\ i - 1 # i /\ i + 1 \in 0 .. Len(s) + 1 /\ i + 1 # i
        BY <1>0, <1>4
      <3>3. At(s, h, i - 1) \in D \ {s[i]} /\ At(s, h, i + 1) \in D \ {s[i]}
        BY <1>6, <3>2
      <3> QED BY <1>5, <3>1, <3>3 DEF SameBut
    <2>3. CASE j + 1 > i
      <3>1. At(t, h, j) = At(s, h, j + 1) /\ At(t, h, j + 1) = At(s, h, j + 2)
        BY <1>2, <1>4, <2>0, <2>3
      <3>2. /\ j + 1 \in 0 .. Len(s) + 1 /\ j + 1 # i /\ j + 2 \in 0 .. Len(s) + 1 /\ j + 2 # i
            /\ At(s, h, j + 1) # At(s, h, i - 1) /\ At(s, h, j + 2) # At(s, h, i + 1)
        <4>1. j + 1 # i - 1 /\ j + 2 # i + 1 /\ i - 1 \in 0 .. Len(s) /\ i + 1 \in 1 .. Len(s) + 1
          BY <1>0, <1>4, <2>0, <2>3
        <4> QED BY <1>0, <1>4, <2>0, <2>3, <4>1
      <3>3. l.next[At(s, h, j + 1)] = At(s, h, j + 2) /\ l.prev[At(s, h, j + 2)] = At(s, h, j + 1)
        <4>1. (j + 1) + 1 = j + 2
          BY <2>0
        <4> QED BY <2>0, <4>1 DEF Holds
      <3>4. At(s, h, j + 1) \in D \ {s[i]} /\ At(s, h, j + 2) \in D \ {s[i]}
        BY <1>6, <3>2
      <3> QED BY <1>5, <3>1, <3>2, <3>3, <3>4 DEF SameBut
    <2> QED BY <1>4, <2>0, <2>1, <2>2, <2>3
  <1> QED BY <1>1, <1>3, <1>7 DEF Holds

\* A sequence as a function of its index.
LEMMA ByIndex ==
    ASSUME NEW S, NEW s \in Seq(S)
    PROVE  s = [j \in 1 .. Len(s) |-> s[j]]
  <1>1. s \in [1 .. Len(s) -> S]
    OBVIOUS
  <1> QED BY <1>1

\* K_INIT_LIST_HEAD makes a ring of no entries.
LEMMA Started ==
    ASSUME NEW D, NEW h \in D, NEW l, DOMAIN l.next = D, DOMAIN l.prev = D
    PROVE  Holds(K_INIT_LIST_HEAD(l, h), h, <<>>)
  BY DEF K_INIT_LIST_HEAD, Holds, At, IsInjective

\* k_list_add_tail puts the entry behind the last one, k_list_add before the first.
LEMMA AddedAtEnd ==
    ASSUME NEW D, NEW h \in D, NEW s \in Seq(D \ {h}), NEW l, Holds(l, h, s),
           DOMAIN l.next = D, DOMAIN l.prev = D,
           NEW e \in D \ {h}, \A i \in DOMAIN s : s[i] # e
    PROVE  /\ Append(s, e) \in Seq(D \ {h}) /\ Holds(k_list_add_tail(l, e, h), h, Append(s, e))
           /\ <<e>> \o s \in Seq(D \ {h}) /\ Holds(k_list_add(l, e, h), h, <<e>> \o s)
  <1>1. /\ Len(s) \in Nat /\ DOMAIN s = 1 .. Len(s) /\ 0 \in 0 .. Len(s) /\ Len(s) \in 0 .. Len(s)
        /\ At(s, h, 0) = h /\ At(s, h, Len(s) + 1) = h
    <2>1. Len(s) \in Nat /\ DOMAIN s = 1 .. Len(s)
      OBVIOUS
    <2> QED BY <2>1 DEF At
  <1>2. l.prev[h] = At(s, h, Len(s)) /\ l.next[h] = At(s, h, 0 + 1)
    BY <1>1 DEF Holds
  <1>3. With(s, Len(s), e) = Append(s, e)
    <2>1. /\ Append(s, e) \in Seq(D) /\ Len(Append(s, e)) = Len(s) + 1
          /\ Append(s, e)[Len(s) + 1] = e /\ \A j \in 1 .. Len(s) : Append(s, e)[j] = s[j]
      OBVIOUS
    <2>2. Append(s, e) = [j \in 1 .. Len(s) + 1 |-> Append(s, e)[j]]
      BY <2>1, ByIndex
    <2>3. \A j \in 1 .. Len(s) + 1 :
             Append(s, e)[j] = IF j <= Len(s) THEN s[j] ELSE IF j = Len(s) + 1 THEN e ELSE s[j - 1]
      BY <1>1, <2>1
    <2> QED BY <2>2, <2>3, Zenon DEF With
  <1>4. With(s, 0, e) = <<e>> \o s
    <2>1. /\ <<e>> \o s \in Seq(D) /\ Len(<<e>> \o s) = Len(s) + 1
          /\ \A j \in 1 .. Len(s) + 1 : (<<e>> \o s)[j] = IF j = 1 THEN e ELSE s[j - 1]
      <3>1. <<e>> \in Seq(D) /\ s \in Seq(D) /\ Len(<<e>>) = 1 /\ <<e>>[1] = e
        OBVIOUS
      <3>2. /\ <<e>> \o s \in Seq(D) /\ Len(<<e>> \o s) = Len(<<e>>) + Len(s)
            /\ \A j \in 1 .. Len(<<e>>) + Len(s) :
                  (<<e>> \o s)[j] = IF j <= Len(<<e>>) THEN <<e>>[j] ELSE s[j - Len(<<e>>)]
        BY <3>1, ConcatProperties
      <3> QED BY <1>1, <3>1, <3>2
    <2>2. <<e>> \o s = [j \in 1 .. Len(s) + 1 |-> (<<e>> \o s)[j]]
      BY <2>1, ByIndex
    <2>3. \A j \in 1 .. Len(s) + 1 : (<<e>> \o s)[j] = IF j <= 0 THEN s[j] ELSE IF j = 0 + 1 THEN e ELSE s[j - 1]
      BY <1>1, <2>1
    <2> QED BY <2>2, <2>3 DEF With
  <1>5. /\ k_list_add_tail(l, e, h) = list_add_between(l, e, At(s, h, Len(s)), At(s, h, Len(s) + 1))
        /\ k_list_add(l, e, h) = list_add_between(l, e, At(s, h, 0), At(s, h, 0 + 1))
    BY <1>1, <1>2 DEF k_list_add_tail, k_list_add
  <1>6. /\ With(s, Len(s), e) \in Seq(D \ {h})
        /\ Holds(list_add_between(l, e, At(s, h, Len(s)), At(s, h, Len(s) + 1)), h, With(s, Len(s), e))
    BY <1>1, AddedBetween
  <1>7. /\ With(s, 0, e) \in Seq(D \ {h})
        /\ Holds(list_add_between(l, e, At(s, h, 0), At(s, h, 0 + 1)), h, With(s, 0, e))
    BY <1>1, AddedBetween
  <1> QED BY <1>3, <1>4, <1>5, <1>6, <1>7

\* Without the first entry, and without the last.
LEMMA LessAtEnd ==
    ASSUME NEW S, NEW s \in Seq(S), s # <<>>
    PROVE  /\ Less(s, 1) = Tail(s) /\ Less(s, Len(s)) = SubSeq(s, 1, Len(s) - 1)
           /\ 1 \in 1 .. Len(s) /\ Len(s) \in 1 .. Len(s)
  <1>1. Len(s) \in Nat /\ 1 <= Len(s)
    OBVIOUS
  <1>2. Tail(s) = [j \in 1 .. Len(s) - 1 |-> s[j + 1]]
    <2>1. /\ Tail(s) \in Seq(S) /\ Len(Tail(s)) = Len(s) - 1
          /\ \A j \in 1 .. Len(s) - 1 : Tail(s)[j] = s[j + 1]
      BY HeadTailProperties
    <2>2. Tail(s) = [j \in 1 .. Len(s) - 1 |-> Tail(s)[j]]
      BY <2>1, ByIndex
    <2> QED BY <2>1, <2>2
  <1>3. SubSeq(s, 1, Len(s) - 1) = [j \in 1 .. Len(s) - 1 |-> s[j]]
    BY <1>1
  <1>4. /\ \A j \in 1 .. Len(s) - 1 : ~(j < 1) /\ j < Len(s)
    BY <1>1
  <1> QED BY <1>1, <1>2, <1>3, <1>4 DEF Less

\* The entry that is taken out may be given any two pointers.
LEMMA Unlinked ==
    ASSUME NEW D, NEW h \in D, NEW s \in Seq(D \ {h}), NEW l, Holds(l, h, s),
           DOMAIN l.next = D, DOMAIN l.prev = D, NEW i \in 1 .. Len(s), NEW x, NEW y
    PROVE  LET k == list_del_between(l, l.prev[s[i]], l.next[s[i]])
           IN  Holds([next |-> [k.next EXCEPT ![s[i]] = x], prev |-> [k.prev EXCEPT ![s[i]] = y]],
                     h, Less(s, i))
  <1> DEFINE k == list_del_between(l, l.prev[s[i]], l.next[s[i]])
             m == [next |-> [k.next EXCEPT ![s[i]] = x], prev |-> [k.prev EXCEPT ![s[i]] = y]]
  <1>1. m.next = [k.next EXCEPT ![s[i]] = x] /\ m.prev = [k.prev EXCEPT ![s[i]] = y]
    OBVIOUS
  <1>2. DOMAIN k.next = D /\ DOMAIN k.prev = D
    BY DEF list_del_between
  <1> HIDE DEF m, k
  <1>3. \A z \in D \ {s[i]} : m.next[z] = k.next[z] /\ m.prev[z] = k.prev[z]
    BY <1>1, <1>2
  <1>4. Less(s, i) \in Seq(D \ {h}) /\ Holds(m, h, Less(s, i))
    BY <1>3, TakenOut DEF k, SameBut
  <1> QED BY <1>4 DEF m, k

\* k_list_del takes its entry out of the ring.
LEMMA Deleted ==
    ASSUME NEW D, NEW h \in D, NEW s \in Seq(D \ {h}), NEW l, Holds(l, h, s),
           DOMAIN l.next = D, DOMAIN l.prev = D, NEW i \in 1 .. Len(s)
    PROVE  Holds(k_list_del(l, s[i]), h, Less(s, i))
  BY Unlinked DEF k_list_del

\* A ring has no more entries than there are nodes for them.
LEMMA LengthBound ==
    ASSUME NEW S, IsFiniteSet(S), NEW s \in Seq(S), IsInjective(s)
    PROVE  Len(s) <= Cardinality(S) /\ Len(s) \in Nat /\ Cardinality(S) \in Nat
  <1>1. Len(s) \in Nat /\ s \in [1 .. Len(s) -> S]
    OBVIOUS
  <1>2. s \in Injection(1 .. Len(s), S)
    BY <1>1 DEF Injection, IsInjective
  <1>3. Cardinality(1 .. Len(s)) <= Cardinality(S)
    BY <1>2, FS_Injection
  <1>4. Cardinality(1 .. Len(s)) = Len(s)
    BY <1>1, FS_Interval
  <1> QED BY <1>1, <1>3, <1>4, FS_CardinalityType
\* The elements of a sequence with one more at an end.
LEMMA Appended ==
    ASSUME NEW S, NEW s \in Seq(S), NEW e \in S
    PROVE  Range(Append(s, e)) = Range(s) \cup {e}
  <1>1. Len(s) \in Nat /\ DOMAIN s = 1 .. Len(s)
    OBVIOUS
  <1>2. /\ Append(s, e) \in Seq(S) /\ Len(Append(s, e)) = Len(s) + 1
        /\ Append(s, e)[Len(s) + 1] = e /\ \A i \in 1 .. Len(s) : Append(s, e)[i] = s[i]
    OBVIOUS
  <1>3. DOMAIN Append(s, e) = DOMAIN s \cup {Len(s) + 1}
    BY <1>1, <1>2
  <1> QED BY <1>1, <1>2, <1>3 DEF Range

LEMMA Prepended ==
    ASSUME NEW S, NEW s \in Seq(S), NEW e \in S
    PROVE  Range(<<e>> \o s) = Range(s) \cup {e}
  <1> DEFINE t == <<e>> \o s
  <1>1. Len(s) \in Nat /\ DOMAIN s = 1 .. Len(s)
    OBVIOUS
  <1>2. /\ t \in Seq(S) /\ Len(t) = 1 + Len(s) /\ t[1] = e
        /\ \A i \in 2 .. 1 + Len(s) : t[i] = s[i - 1]
    <2>1. <<e>> \in Seq(S) /\ Len(<<e>>) = 1 /\ <<e>>[1] = e
      OBVIOUS
    <2> QED BY <1>1, <2>1, ConcatProperties
  <1> HIDE DEF t
  <1>3. /\ DOMAIN t = 1 .. 1 + Len(s) /\ 1 \in DOMAIN t
        /\ \A i \in DOMAIN s : i + 1 \in DOMAIN t /\ t[i + 1] = s[i]
        /\ \A i \in DOMAIN t : i = 1 \/ (i - 1 \in DOMAIN s /\ t[i] = s[i - 1])
    BY <1>1, <1>2
  <1>4. \A i \in DOMAIN t : t[i] \in Range(s) \cup {e}
    BY <1>2, <1>3 DEF Range
  <1>5. \A i \in DOMAIN s : s[i] \in Range(t)
    BY <1>3 DEF Range
  <1>6. e \in Range(t)
    BY <1>2, <1>3 DEF Range
  <1> QED BY <1>4, <1>5, <1>6 DEF Range, t

\* The elements of a sequence with one less, which it may have held twice.
LEMMA LessType ==
    ASSUME NEW S, NEW s \in Seq(S), NEW i \in 1 .. Len(s)
    PROVE  Less(s, i) \in Seq(S) /\ Len(Less(s, i)) = Len(s) - 1
  <1>1. Len(s) \in Nat /\ DOMAIN s = 1 .. Len(s) /\ i \in Nat /\ 1 <= i /\ i <= Len(s)
        /\ \A j \in DOMAIN s : s[j] \in S
    OBVIOUS
  <1>2. Len(s) - 1 \in Nat /\ \A j \in 1 .. Len(s) - 1 : j \in DOMAIN s /\ j + 1 \in DOMAIN s
    BY <1>1
  <1>3. Less(s, i) \in [1 .. Len(s) - 1 -> S]
    BY <1>1, <1>2 DEF Less
  <1> QED BY <1>2, <1>3

\* Where the j-th of them was.
Was(i, j) == IF j < i THEN j ELSE j + 1

LEMMA LessIs ==
    ASSUME NEW S, NEW s \in Seq(S), NEW i \in 1 .. Len(s)
    PROVE  /\ DOMAIN Less(s, i) = 1 .. Len(s) - 1
           /\ \A j \in DOMAIN Less(s, i) :
                 /\ Was(i, j) \in DOMAIN s /\ Was(i, j) # i /\ Less(s, i)[j] = s[Was(i, j)]
                 /\ \A k \in DOMAIN Less(s, i) : j # k => Was(i, j) # Was(i, k)
           /\ \A j \in DOMAIN s : j # i => \E k \in DOMAIN Less(s, i) : Was(i, k) = j
  <1>1. Len(s) \in Nat /\ DOMAIN s = 1 .. Len(s) /\ i \in Nat /\ 1 <= i /\ i <= Len(s)
    OBVIOUS
  <1>2. DOMAIN Less(s, i) = 1 .. Len(s) - 1
    BY DEF Less
  <1>3. ASSUME NEW j \in 1 .. Len(s) - 1
        PROVE  /\ Was(i, j) \in DOMAIN s /\ Was(i, j) # i /\ Less(s, i)[j] = s[Was(i, j)]
               /\ \A k \in 1 .. Len(s) - 1 : j # k => Was(i, j) # Was(i, k)
    BY <1>1 DEF Less, Was
  <1>4. ASSUME NEW j \in DOMAIN s, j # i PROVE \E k \in 1 .. Len(s) - 1 : Was(i, k) = j
    <2>1. CASE j < i
      <3>1. j \in 1 .. Len(s) - 1 /\ Was(i, j) = j
        BY <1>1, <2>1 DEF Was
      <3> QED BY <3>1
    <2>2. CASE ~(j < i)
      <3>1. j - 1 \in 1 .. Len(s) - 1 /\ Was(i, j - 1) = j
        BY <1>1, <1>4, <2>2 DEF Was
      <3> QED BY <3>1
    <2> QED BY <2>1, <2>2
  <1> QED BY <1>2, <1>3, <1>4

LEMMA Popped ==
    ASSUME NEW S, NEW s \in Seq(S), IsInjective(s), NEW i \in 1 .. Len(s)
    PROVE  Range(Less(s, i)) = Range(s) \ {s[i]}
  <1> DEFINE t == Less(s, i)
  <1>1. /\ \A j \in DOMAIN t : Was(i, j) \in DOMAIN s /\ Was(i, j) # i /\ t[j] = s[Was(i, j)]
        /\ \A j \in DOMAIN s : j # i => \E k \in DOMAIN t : Was(i, k) = j
    BY LessIs
  <1>2. i \in DOMAIN s /\ \A j, k \in DOMAIN s : s[j] = s[k] => j = k
    BY DEF IsInjective
  <1> HIDE DEF t
  <1>3. ASSUME NEW x \in Range(t) PROVE x \in Range(s) \ {s[i]}
    BY <1>1, <1>2, <1>3 DEF Range
  <1>4. ASSUME NEW x \in Range(s) \ {s[i]} PROVE x \in Range(t)
    <2>1. PICK j \in DOMAIN s : x = s[j] /\ j # i
      BY <1>4 DEF Range
    <2> QED BY <1>1, <2>1 DEF Range
  <1> QED BY <1>3, <1>4 DEF t

\* A walk from a head whose pointer leads nowhere meets nothing.
LEMMA NothingMet ==
    ASSUME NEW pointer, NEW h \in DOMAIN pointer, NEW n \in Nat,
           pointer[h] \notin DOMAIN pointer \ {h}
    PROVE  k_list_walk(pointer, h, n) = <<>>
  <1> DEFINE g == k_list_steps(pointer, h, n)
  <1>1. Steps(pointer, h, n, g)
    BY StepsDefined
  <1> HIDE DEF g
  <1>2. n \in 0 .. n
    OBVIOUS
  <1>3. g[n][h] = <<>>
    BY <1>1, <1>2 DEF Steps
  <1> QED BY <1>3 DEF k_list_walk, k_list_continue, g

\* One less, as what is before it and what is behind.
LEMMA Joined ==
    ASSUME NEW S, NEW s \in Seq(S), NEW m \in 1 .. Len(s)
    PROVE  SubSeq(s, 1, m - 1) \o SubSeq(s, m + 1, Len(s)) = Less(s, m)
  <1> DEFINE a == SubSeq(s, 1, m - 1)
             b == SubSeq(s, m + 1, Len(s))
  <1>0. Len(s) \in Nat /\ DOMAIN s = 1 .. Len(s) /\ m \in Nat /\ 1 <= m /\ m <= Len(s)
    OBVIOUS
  <1>1. /\ a \in Seq(S) /\ Len(a) = m - 1 /\ \A j \in 1 .. m - 1 : a[j] = s[j]
        /\ b \in Seq(S) /\ Len(b) = Len(s) - m
        /\ \A j \in 1 .. Len(s) - m : b[j] = s[j + m]
    <2>1. a \in Seq(S) /\ Len(a) = m - 1 /\ \A j \in 1 .. m - 1 : a[j] = s[j]
      BY <1>0
    <2>2. /\ b \in Seq(S) /\ Len(b) = IF m + 1 <= Len(s) THEN Len(s) - (m + 1) + 1 ELSE 0
          /\ \A j \in 1 .. Len(s) - (m + 1) + 1 : b[j] = s[m + 1 + j - 1]
      <3>1. \A j \in m + 1 .. Len(s) : s[j] \in S
        BY <1>0
      <3>2. m + 1 \in Int /\ Len(s) \in Int
        BY <1>0
      <3> QED BY <3>1, <3>2, SubSeqProperties
    <2> HIDE DEF a, b
    <2>3. \A j \in 1 .. Len(s) - m : m + 1 + j - 1 = j + m /\ j \in 1 .. Len(s) - (m + 1) + 1
      BY <1>0
    <2>4. Len(b) = Len(s) - m
      <3>1. Len(b) = IF m + 1 <= Len(s) THEN Len(s) - (m + 1) + 1 ELSE 0
        BY <2>2, Zenon
      <3>2. \A n \in Nat : \A x \in 1 .. n : (IF x + 1 <= n THEN n - (x + 1) + 1 ELSE 0) = n - x
        OBVIOUS
      <3> QED BY <1>0, <3>1, <3>2, Zenon
    <2> QED BY <2>1, <2>2, <2>3, <2>4
  <1> HIDE DEF a, b
  <1>2. /\ a \o b \in Seq(S) /\ Len(a \o b) = Len(s) - 1
        /\ \A j \in 1 .. Len(s) - 1 : (a \o b)[j] = IF j < m THEN a[j] ELSE b[j - (m - 1)]
    <2>1. /\ a \o b \in Seq(S) /\ Len(a \o b) = Len(a) + Len(b)
          /\ \A j \in 1 .. Len(a) + Len(b) :
                (a \o b)[j] = IF j <= Len(a) THEN a[j] ELSE b[j - Len(a)]
      BY <1>1, ConcatProperties
    <2> QED BY <1>0, <1>1, <2>1
  <1>3. \A j \in 1 .. Len(s) - 1 : (a \o b)[j] = IF j < m THEN s[j] ELSE s[j + 1]
    BY <1>0, <1>1, <1>2
  <1>4. a \o b = [j \in 1 .. Len(s) - 1 |-> (a \o b)[j]]
    BY <1>2, ByIndex
  <1> QED BY <1>3, <1>4 DEF Less, a, b

\* RemoveFirst takes out the first of the elements that are e.
LEMMA FirstRemoved ==
    ASSUME NEW S, NEW s \in Seq(S), NEW e
    PROVE  LET I == {i \in DOMAIN s : s[i] = e}
           IN  /\ I = {} => RemoveFirst(s, e) = s
               /\ I # {} => Min(I) \in I /\ RemoveFirst(s, e) = Less(s, Min(I))
  <1> DEFINE I == {i \in DOMAIN s : s[i] = e}
  <1>1. Len(s) \in Nat /\ DOMAIN s = 1 .. Len(s)
    OBVIOUS
  <1>2. I = {} => RemoveFirst(s, e) = s
    BY <1>1 DEF RemoveFirst
  <1>3. ASSUME I # {} PROVE Min(I) \in I /\ RemoveFirst(s, e) = Less(s, Min(I))
    <2>1. \E x \in I : \A y \in I : x =< y
      <3>1. PICK x \in I : \A y \in I : ~(y < x)
        <4>1. I \subseteq Nat
          BY <1>1
        <4>2. IsWellFoundedOn(OpToRel(<, Nat), Nat)
          BY NatLessThanWellFounded, Zenon
        <4>3. PICK x \in I : \A y \in I : ~(<<y, x>> \in OpToRel(<, Nat))
          BY <1>3, <4>1, <4>2, WFMin
        <4>4. \A y \in I : y < x => <<y, x>> \in OpToRel(<, Nat)
          BY <4>1, Zenon DEF OpToRel
        <4> QED BY <4>3, <4>4
      <3> QED BY <1>1, <3>1
    <2>2. Min(I) \in I
      BY <2>1 DEF Min
    <2>3. RemoveFirst(s, e) = RemoveAt(s, Min(I))
      BY <1>1, <1>3 DEF RemoveFirst, SelectInSeq
    <2> DEFINE m == Min(I)
    <2> HIDE DEF m
    <2>4. m \in 1 .. Len(s)
      BY <1>1, <2>2 DEF m
    <2>5. RemoveAt(s, m) = Less(s, m)
      BY <2>4, Joined DEF RemoveAt
    <2> QED BY <2>2, <2>3, <2>5 DEF m
  <1> QED BY <1>2, <1>3

===============================================================================
