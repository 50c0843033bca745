-------------------------- MODULE ListMachine_proofs --------------------------
(***************************************************************************)
(* What every operation of list.h does to the sequences that the rings and *)
(* the chains of a program hold, for any number of lists and entries.      *)
(*                                                                         *)
(* Whatever an operation on a ring does, it takes a part of its sequence   *)
(* out and puts another in its place (Spliced); so one lemma (Relinked)    *)
(* says which pointers have to change, and one (TableRelinked) does for    *)
(* the chains.                                                             *)
(*                                                                         *)
(* The invariants are RingInv (rings, a deletion on its way in one thread, *)
(* the look of another, and loops) and ChainInv (a table, and scans of     *)
(* it).                                                                    *)
(***************************************************************************)
EXTENDS ListMachineProps, KListWalk_lemmas

\* Sequence s with q in the place of what is between the i-th and the j-th.
Spliced(s, i, q, j) == SubSeq(s, 1, i) \o q \o SubSeq(s, j, Len(s))

LEMMA SplicedIs ==
    ASSUME NEW S, NEW s \in Seq(S), NEW q \in Seq(S),
           NEW i \in 0 .. Len(s), NEW j \in i + 1 .. Len(s) + 1
    PROVE  /\ Spliced(s, i, q, j) \in Seq(S)
           /\ Len(Spliced(s, i, q, j)) = i + Len(q) + Len(s) + 1 - j
           /\ DOMAIN Spliced(s, i, q, j) = 1 .. i + Len(q) + Len(s) + 1 - j
           /\ \A k \in 1 .. i + Len(q) + Len(s) + 1 - j : Spliced(s, i, q, j)[k] =
                 IF k <= i THEN s[k]
                 ELSE IF k <= i + Len(q) THEN q[k - i] ELSE s[k - i - Len(q) + j - 1]
  <1> DEFINE u == SubSeq(s, 1, i)
             v == SubSeq(s, j, Len(s))
             w == u \o q
  <1>0. Len(s) \in Nat /\ Len(q) \in Nat /\ i \in Nat /\ j \in Nat /\ i <= Len(s) /\ i < j /\ j <= Len(s) + 1
    OBVIOUS
  <1>1. u \in Seq(S) /\ Len(u) = i /\ \A k \in 1 .. i : u[k] = s[k]
    BY <1>0
  <1>2. v \in Seq(S) /\ Len(v) = Len(s) + 1 - j /\ \A k \in 1 .. Len(s) + 1 - j : v[k] = s[k + j - 1]
    <2>1. Len(v) = IF j <= Len(s) THEN Len(s) - j + 1 ELSE 0
      BY <1>0
    <2>2. v \in Seq(S)
      BY <1>0
    <2>3. \A k \in 1 .. Len(s) + 1 - j : v[k] = s[k + j - 1]
      BY <1>0
    <2> QED BY <1>0, <2>1, <2>2, <2>3
  <1> HIDE DEF u, v
  <1>3. w \in Seq(S) /\ Len(w) = i + Len(q)
        /\ \A k \in 1 .. i + Len(q) : w[k] = IF k <= i THEN s[k] ELSE q[k - i]
    <2>1. w \in Seq(S) /\ Len(w) = i + Len(q)
      <3>1. u \in Seq(S) /\ Len(u) = i
        BY <1>1
      <3> HIDE DEF u
      <3> QED BY <3>1
    <2>2. \A k \in 1 .. i + Len(q) : w[k] = IF k <= i THEN u[k] ELSE q[k - i]
      BY <1>0, <1>1
    <2>3. \A k \in 1 .. i + Len(q) : k <= i => k \in 1 .. i
      BY <1>0
    <2> QED BY <1>1, <2>1, <2>2, <2>3
  <1> HIDE DEF w
  <1>4. Spliced(s, i, q, j) = w \o v
    BY DEF Spliced, u, v, w
  <1>5. /\ w \o v \in Seq(S) /\ Len(w \o v) = i + Len(q) + Len(s) + 1 - j
        /\ \A k \in 1 .. i + Len(q) + Len(s) + 1 - j :
              (w \o v)[k] = IF k <= i + Len(q) THEN w[k] ELSE v[k - i - Len(q)]
    <2>1. Len(w) + Len(v) = i + Len(q) + Len(s) + 1 - j
      BY <1>0, <1>2, <1>3
    <2>2. \A k \in 1 .. Len(w) + Len(v) :
             (w \o v)[k] = IF k <= Len(w) THEN w[k] ELSE v[k - Len(w)]
      BY <1>2, <1>3, ConcatProperties
    <2>3. \A k \in 1 .. Len(w) + Len(v) : k - Len(w) = k - i - Len(q)
      BY <1>0, <1>3
    <2>4. w \o v \in Seq(S) /\ Len(w \o v) = Len(w) + Len(v)
      BY <1>2, <1>3, ConcatProperties
    <2> QED BY <1>3, <2>1, <2>2, <2>3, <2>4
  <1>6. ASSUME NEW k \in 1 .. i + Len(q) + Len(s) + 1 - j
        PROVE  (w \o v)[k] = IF k <= i THEN s[k]
                 ELSE IF k <= i + Len(q) THEN q[k - i] ELSE s[k - i - Len(q) + j - 1]
    <2>1. CASE k <= i + Len(q)
      BY <1>0, <1>3, <1>5, <2>1
    <2>2. CASE k > i + Len(q)
      <3>1. k - i - Len(q) \in 1 .. Len(s) + 1 - j /\ (k - i - Len(q)) + j - 1 = k - i - Len(q) + j - 1
        BY <1>0, <2>2
      <3>2. ~(k <= i + Len(q)) /\ ~(k <= i)
        BY <1>0, <2>2
      <3> QED BY <1>2, <1>5, <3>1, <3>2
    <2>3. k <= i + Len(q) \/ k > i + Len(q)
      BY <1>0
    <2> QED BY <2>1, <2>2, <2>3, Zenon
  <1>7. DOMAIN (w \o v) = 1 .. i + Len(q) + Len(s) + 1 - j
    BY <1>5
  <1> QED BY <1>4, <1>5, <1>6, <1>7, Zenon

\* The nodes of the ring of h with the new sequence t.
Nodes(t, h, s, i, q, j) ==
    /\ Len(t) \in Nat /\ Len(t) = i + Len(q) + Len(s) + 1 - j
    /\ \A k \in 0 .. i : At(t, h, k) = At(s, h, k)
    /\ \A k \in 1 .. Len(q) : At(t, h, i + k) = q[k]
    /\ \A k \in j .. Len(s) + 1 : At(t, h, i + Len(q) + 1 + k - j) = At(s, h, k)

LEMMA SplicedAt ==
    ASSUME NEW S, NEW s \in Seq(S), NEW q \in Seq(S), NEW h,
           NEW i \in 0 .. Len(s), NEW j \in i + 1 .. Len(s) + 1
    PROVE  Nodes(Spliced(s, i, q, j), h, s, i, q, j)
  <1> DEFINE t == Spliced(s, i, q, j)
             n == i + Len(q)
  <1>0. Len(s) \in Nat /\ Len(q) \in Nat /\ i \in Nat /\ j \in Nat /\ i <= Len(s) /\ i < j /\ j <= Len(s) + 1
    OBVIOUS
  <1>1. /\ t \in Seq(S) /\ Len(t) = n + Len(s) + 1 - j
        /\ DOMAIN t = 1 .. n + Len(s) + 1 - j
        /\ \A k \in 1 .. n + Len(s) + 1 - j : t[k] =
                 IF k <= i THEN s[k] ELSE IF k <= n THEN q[k - i] ELSE s[k - i - Len(q) + j - 1]
    <2>1. t \in Seq(S)
      BY SplicedIs
    <2>2. Len(t) = n + Len(s) + 1 - j /\ DOMAIN t = 1 .. n + Len(s) + 1 - j
      BY SplicedIs
    <2>3. \A k \in 1 .. n + Len(s) + 1 - j : t[k] =
                 IF k <= i THEN s[k] ELSE IF k <= n THEN q[k - i] ELSE s[k - i - Len(q) + j - 1]
      BY SplicedIs
    <2> QED BY <2>1, <2>2, <2>3
  <1>2. DOMAIN s = 1 .. Len(s)
    OBVIOUS
  <1> HIDE DEF t
  <1>3. \A k \in 0 .. i : At(t, h, k) = At(s, h, k)
    BY <1>0, <1>1, <1>2 DEF At
  <1>4. \A k \in 1 .. Len(q) : At(t, h, i + k) = q[k]
    <2> SUFFICES ASSUME NEW k \in 1 .. Len(q) PROVE At(t, h, i + k) = q[k]
      OBVIOUS
    <2>1. i + k \in 1 .. n + Len(s) + 1 - j /\ ~(i + k <= i) /\ i + k <= n /\ (i + k) - i = k
      BY <1>0
    <2> QED BY <1>1, <2>1 DEF At
  <1>5. \A k \in j .. Len(s) + 1 : At(t, h, n + 1 + k - j) = At(s, h, k)
    <2> SUFFICES ASSUME NEW k \in j .. Len(s) + 1 PROVE At(t, h, n + 1 + k - j) = At(s, h, k)
      OBVIOUS
    <2> DEFINE m == n + 1 + k - j
    <2>1. CASE k = Len(s) + 1
      <3>1. m \notin 1 .. n + Len(s) + 1 - j /\ k \notin 1 .. Len(s)
        BY <1>0, <2>1
      <3> QED BY <1>1, <1>2, <3>1 DEF At
    <2>2. CASE k # Len(s) + 1
      <3>1. /\ m \in 1 .. n + Len(s) + 1 - j /\ k \in 1 .. Len(s)
            /\ ~(m <= i) /\ ~(m <= n) /\ m - i - Len(q) + j - 1 = k
        BY <1>0, <2>2
      <3> QED BY <1>1, <1>2, <3>1 DEF At
    <2> QED BY <2>1, <2>2
  <1>6. Len(t) \in Nat
    BY <1>1
  <1> QED BY <1>1, <1>3, <1>4, <1>5, <1>6 DEF t, Nodes

\* Neighbours in a list: both pointers say so.
Neighbours(l, x, y) == l.next[x] = y /\ l.prev[y] = x

\* The entries of q are linked to one another in l.
Linked(l, q) == \A k \in 1 .. Len(q) - 1 : Neighbours(l, q[k], q[k + 1])

\* What is between the i-th and the j-th node of the ring s of h in l is q in m: the
\* joints are there, and elsewhere the pointers are what they were.
Rejoined(l, m, h, s, i, q, j) ==
    /\ Linked(m, q)
    /\ q = <<>> => Neighbours(m, At(s, h, i), At(s, h, j))
    /\ q # <<>> => /\ Neighbours(m, At(s, h, i), q[1])
                   /\ Neighbours(m, q[Len(q)], At(s, h, j))
    /\ \A k \in 0 .. i - 1 \cup j .. Len(s) : m.next[At(s, h, k)] = l.next[At(s, h, k)]
    /\ \A k \in 1 .. i \cup j + 1 .. Len(s) + 1 : m.prev[At(s, h, k)] = l.prev[At(s, h, k)]

\* Sequence q may take that place.
Fits(s, i, q, j) ==
    /\ IsInjective(q)
    /\ \A k \in 1 .. i \cup j .. Len(s) : \A n \in DOMAIN q : s[k] # q[n]

LEMMA SplicedInjective ==
    ASSUME NEW S, NEW s \in Seq(S), NEW q \in Seq(S), IsInjective(s),
           NEW i \in 0 .. Len(s), NEW j \in i + 1 .. Len(s) + 1, Fits(s, i, q, j)
    PROVE  IsInjective(Spliced(s, i, q, j))
  <1> DEFINE t == Spliced(s, i, q, j)
             n == i + Len(q)
  <1>0. /\ Len(s) \in Nat /\ Len(q) \in Nat /\ i \in Nat /\ j \in Nat /\ i <= Len(s) /\ i < j
        /\ j <= Len(s) + 1 /\ DOMAIN s = 1 .. Len(s) /\ DOMAIN q = 1 .. Len(q)
    OBVIOUS
  <1> HIDE DEF t
  <1>1. \A x, y \in DOMAIN s : s[x] = s[y] => x = y
    BY DEF IsInjective
  <1>2. \A x, y \in DOMAIN q : q[x] = q[y] => x = y
    BY DEF IsInjective, Fits
  <1>3. /\ DOMAIN t = 1 .. n + Len(s) + 1 - j
        /\ \A k \in 1 .. n + Len(s) + 1 - j : t[k] =
               IF k <= i THEN s[k] ELSE IF k <= n THEN q[k - i] ELSE s[k - i - Len(q) + j - 1]
    <2>1. DOMAIN t = 1 .. n + Len(s) + 1 - j
      BY SplicedIs DEF t
    <2>2. \A k \in 1 .. n + Len(s) + 1 - j : t[k] =
               IF k <= i THEN s[k] ELSE IF k <= n THEN q[k - i] ELSE s[k - i - Len(q) + j - 1]
      BY SplicedIs DEF t
    <2> QED BY <2>1, <2>2
  <1> SUFFICES ASSUME NEW x \in DOMAIN t, NEW y \in DOMAIN t, t[x] = t[y] PROVE x = y
    BY DEF IsInjective, t
  <1>4. x \in Nat /\ y \in Nat /\ x >= 1 /\ y >= 1 /\ x <= n + Len(s) + 1 - j /\ y <= n + Len(s) + 1 - j
    BY <1>0, <1>3
  <1> DEFINE Z == {z \in 1 .. n + Len(s) + 1 - j : z <= i}
             Q == {z \in 1 .. n + Len(s) + 1 - j : i < z /\ z <= n}
             V == {z \in 1 .. n + Len(s) + 1 - j : n < z}
  <1>5. \A z \in Z : t[z] = s[z] /\ z \in DOMAIN s /\ z \in 1 .. i
    BY <1>0, <1>3
  <1>6. \A z \in Q : t[z] = q[z - i] /\ z - i \in DOMAIN q
    BY <1>0, <1>3
  <1>7. \A z \in V : t[z] = s[z - i - Len(q) + j - 1] /\ z - i - Len(q) + j - 1 \in DOMAIN s
                     /\ z - i - Len(q) + j - 1 \in j .. Len(s)
    BY <1>0, <1>3
  <1>8. x \in Z \cup Q \cup V /\ y \in Z \cup Q \cup V
    BY <1>0, <1>3
  <1>9. CASE x \in Z /\ y \in Z
    BY <1>1, <1>5, <1>9
  <1>10. CASE x \in V /\ y \in V
    <2>1. x - i - Len(q) + j - 1 = y - i - Len(q) + j - 1
      BY <1>1, <1>7, <1>10
    <2> QED BY <1>0, <1>4, <2>1
  <1>11. CASE x \in Q /\ y \in Q
    <2>1. x - i = y - i
      BY <1>2, <1>6, <1>11
    <2> QED BY <1>0, <1>4, <2>1
  <1>12. ASSUME NEW a \in Z, NEW b \in V PROVE t[a] # t[b]
    <2>1. a # b - i - Len(q) + j - 1
      BY <1>0
    <2> QED BY <1>1, <1>5, <1>7, <2>1
  <1>13. ASSUME NEW a \in Z \cup V, NEW b \in Q PROVE t[a] # t[b]
    <2>1. PICK k \in 1 .. i \cup j .. Len(s) : t[a] = s[k]
      BY <1>5, <1>7
    <2>2. PICK c \in DOMAIN q : t[b] = q[c]
      BY <1>6
    <2> QED BY <2>1, <2>2 DEF Fits
  <1> HIDE DEF Z, Q, V
  <1> QED BY <1>8, <1>9, <1>10, <1>11, <1>12, <1>13

LEMMA SplicedHolds ==
    ASSUME NEW S, NEW s \in Seq(S), NEW q \in Seq(S), NEW h,
           NEW i \in 0 .. Len(s), NEW j \in i + 1 .. Len(s) + 1,
           NEW l, Holds(l, h, s), NEW m, Rejoined(l, m, h, s, i, q, j), Fits(s, i, q, j)
    PROVE  Holds(m, h, Spliced(s, i, q, j))
  <1> DEFINE t == Spliced(s, i, q, j)
             n == i + Len(q)
  <1>0. /\ Len(s) \in Nat /\ Len(q) \in Nat /\ i \in Nat /\ j \in Nat /\ i <= Len(s) /\ i < j
        /\ j <= Len(s) + 1 /\ DOMAIN s = 1 .. Len(s) /\ DOMAIN q = 1 .. Len(q)
    OBVIOUS
  <1>1. /\ t \in Seq(S) /\ Len(t) \in Nat /\ Len(t) = n + Len(s) + 1 - j
        /\ \A k \in 0 .. i : At(t, h, k) = At(s, h, k)
        /\ \A k \in 1 .. Len(q) : At(t, h, i + k) = q[k]
        /\ \A k \in j .. Len(s) + 1 : At(t, h, n + 1 + k - j) = At(s, h, k)
    <2>1. t \in Seq(S)
      BY SplicedIs
    <2>2. Nodes(t, h, s, i, q, j)
      BY SplicedAt
    <2> HIDE DEF t
    <2> QED BY <2>1, <2>2 DEF Nodes
  <1> HIDE DEF t
  <1>2. \A k \in 0 .. Len(s) : Neighbours(l, At(s, h, k), At(s, h, k + 1))
    BY DEF Holds, Neighbours
  <1>3. ASSUME NEW k \in 0 .. Len(t) PROVE Neighbours(m, At(t, h, k), At(t, h, k + 1))
    <2>1. CASE k < i
      <3>1. k \in 0 .. i /\ k + 1 \in 0 .. i /\ k \in 0 .. i - 1 /\ k + 1 \in 1 .. i /\ k \in 0 .. Len(s)
        BY <1>0, <2>1
      <3>2. At(t, h, k) = At(s, h, k) /\ At(t, h, k + 1) = At(s, h, k + 1)
        BY <1>1, <3>1
      <3>3. /\ Neighbours(l, At(s, h, k), At(s, h, k + 1))
            /\ m.next[At(s, h, k)] = l.next[At(s, h, k)]
            /\ m.prev[At(s, h, k + 1)] = l.prev[At(s, h, k + 1)]
        BY <1>2, <3>1 DEF Rejoined
      <3> QED BY <3>2, <3>3 DEF Neighbours, Rejoined
    <2>2. CASE k = i /\ q = <<>>
      <3>1. k + 1 = n + 1 + j - j /\ j \in j .. Len(s) + 1 /\ k \in 0 .. i
        BY <1>0, <2>2
      <3>2. At(t, h, k + 1) = At(s, h, j)
        BY <1>1, <3>1
      <3>3. At(t, h, k) = At(s, h, i)
        BY <1>1, <3>1, <2>2
      <3> QED BY <2>2, <3>2, <3>3 DEF Rejoined
    <2>3. CASE k = i /\ q # <<>>
      <3>1. Len(q) # 0 /\ 1 \in 1 .. Len(q) /\ k \in 0 .. i
        BY <1>0, <2>3, EmptySeq
      <3> QED BY <1>1, <2>3, <3>1 DEF Rejoined
    <2>4. CASE i < k /\ k < n
      <3> DEFINE a == k - i
      <3>1. a \in 1 .. Len(q) - 1 /\ a \in 1 .. Len(q) /\ a + 1 \in 1 .. Len(q) /\ i + a = k /\ i + (a + 1) = k + 1
        BY <1>0, <2>4
      <3>2. At(t, h, i + a) = q[a] /\ At(t, h, i + (a + 1)) = q[a + 1]
        BY <1>1, <3>1
      <3>3. Neighbours(m, q[a], q[a + 1])
        BY <3>1 DEF Linked, Rejoined
      <3> QED BY <3>1, <3>2, <3>3
    <2>5. CASE k = n /\ n > i
      <3>1. q # <<>> /\ Len(q) \in 1 .. Len(q) /\ j \in j .. Len(s) + 1 /\ n + 1 + j - j = k + 1
        BY <1>0, <2>5
      <3>2. At(t, h, k) = q[Len(q)] /\ At(t, h, k + 1) = At(s, h, j)
        <4>1. At(t, h, n + 1 + j - j) = At(s, h, j)
          BY <1>1, <3>1
        <4>2. At(t, h, i + Len(q)) = q[Len(q)]
          BY <1>1, <3>1
        <4> QED BY <2>5, <3>1, <4>1, <4>2
      <3> QED BY <3>1, <3>2 DEF Rejoined
    <2>6. CASE k > n
      <3> DEFINE a == k - n - 1 + j
      <3>1. /\ a \in j .. Len(s) /\ a \in j .. Len(s) + 1 /\ a + 1 \in j .. Len(s) + 1
            /\ a + 1 \in j + 1 .. Len(s) + 1 /\ a \in 0 .. Len(s)
            /\ n + 1 + a - j = k /\ n + 1 + (a + 1) - j = k + 1
        BY <1>0, <1>1, <2>6
      <3>2. At(t, h, n + 1 + a - j) = At(s, h, a) /\ At(t, h, n + 1 + (a + 1) - j) = At(s, h, a + 1)
        BY <1>1, <3>1
      <3>3. Neighbours(l, At(s, h, a), At(s, h, a + 1))
        BY <1>2, <3>1
      <3>4. m.next[At(s, h, a)] = l.next[At(s, h, a)] /\ m.prev[At(s, h, a + 1)] = l.prev[At(s, h, a + 1)]
        BY <3>1 DEF Rejoined
      <3>5. Neighbours(m, At(s, h, a), At(s, h, a + 1))
        BY <3>3, <3>4 DEF Neighbours
      <3>6. At(t, h, k) = At(s, h, a) /\ At(t, h, k + 1) = At(s, h, a + 1)
        BY <3>1, <3>2
      <3> QED BY <3>5, <3>6
    <2>7. k \in Int /\ n \in Int /\ n >= i
      BY <1>0, <1>1
    <2>8. k < i \/ k = i \/ (i < k /\ k < n) \/ (k = n /\ n > i) \/ k > n
      BY <1>0, <2>7
    <2> QED BY <2>1, <2>2, <2>3, <2>4, <2>5, <2>6, <2>8, Zenon
  <1>4. IsInjective(t)
    BY SplicedInjective DEF Holds, t
  <1> QED BY <1>3, <1>4 DEF Holds, Neighbours, t

-----------------------------------------------------------------------------
(* The rings of a program. *)

Memory == [next : [Place -> Place \cup Poison], prev : [Place -> Place \cup Poison]]

\* Each ring of l holds its sequence, and no two have an entry in common.
HoldAll(l, s) ==
    /\ l \in Memory /\ s \in [RingHead -> Seq(Node)]
    /\ \A h \in RingHead : Holds(l, h, s[h])
    /\ \A g, h \in RingHead : g # h => ToSet(s[g]) \cap ToSet(s[h]) = {}

Entries(s) == UNION {ToSet(s[h]) : h \in RingHead}

\* What is strictly between the i-th and the j-th node.
Part(s, i, j) == {s[c] : c \in i + 1 .. j - 1}

\* From l to m, the part of ring h between the i-th and the j-th node becomes q, and no
\* pointer of another node in a ring changes.
Relinks(l, m, s, h, i, q, j) ==
    /\ IsInjective(q)
    /\ ToSet(q) \cap Entries(s) \subseteq Part(s[h], i, j)
    /\ Linked(m, q)
    /\ q = <<>> => Neighbours(m, At(s[h], h, i), At(s[h], h, j))
    /\ q # <<>> => /\ Neighbours(m, At(s[h], h, i), q[1])
                   /\ Neighbours(m, q[Len(q)], At(s[h], h, j))
    /\ \A x \in (Entries(s) \cup RingHead) \ (ToSet(q) \cup Part(s[h], i, j)) :
          /\ x # At(s[h], h, i) => m.next[x] = l.next[x]
          /\ x # At(s[h], h, j) => m.prev[x] = l.prev[x]

LEMMA Addresses ==
    /\ RingHead \cap Node = {} /\ NULL \notin Place /\ Poison \cap Place = {}
    /\ LIST_POISON1 \notin Place /\ LIST_POISON2 \notin Place
  BY NodeAssumption DEF Place, Poison

\* The i-th node of a ring, and which nodes it is different from.
LEMMA RingNodes ==
    ASSUME NEW l, NEW s, HoldAll(l, s), NEW h \in RingHead
    PROVE  /\ s[h] \in Seq(Node) /\ Len(s[h]) \in Nat /\ DOMAIN s[h] = 1 .. Len(s[h])
           /\ At(s[h], h, 0) = h /\ At(s[h], h, Len(s[h]) + 1) = h
           /\ \A k \in 1 .. Len(s[h]) : At(s[h], h, k) = s[h][k] /\ s[h][k] \in ToSet(s[h])
           /\ \A k \in 0 .. Len(s[h]) + 1 : At(s[h], h, k) \in ToSet(s[h]) \cup {h}
           /\ ToSet(s[h]) \subseteq Node /\ h \notin Node /\ ToSet(s[h]) \subseteq Entries(s)
           /\ Differ(s[h], h) /\ IsInjective(s[h])
  <1>1. s[h] \in Seq(Node) /\ IsInjective(s[h])
    BY DEF HoldAll, Holds
  <1>2. Node = Place \ RingHead /\ h \in Place /\ h \notin Node
    BY Addresses DEF Place
  <1>3. Len(s[h]) \in Nat /\ DOMAIN s[h] = 1 .. Len(s[h]) /\ \A k \in DOMAIN s[h] : s[h][k] \in Node
    BY <1>1
  <1>4. s[h] \in Seq((Node \cup {h}) \ {h})
    <2>1. (Node \cup {h}) \ {h} = Node
      BY <1>2
    <2> QED BY <1>1, <2>1
  <1>5. Differ(s[h], h)
    BY <1>1, <1>4, NodesDiffer
  <1>6. ToSet(s[h]) = {s[h][k] : k \in DOMAIN s[h]}
    BY DEF ToSet
  <1>7. ToSet(s[h]) \subseteq Entries(s)
    BY DEF Entries
  <1>8. \A k \in DOMAIN s[h] : s[h][k] \in ToSet(s[h])
    BY <1>6
  <1> QED BY <1>1, <1>2, <1>3, <1>5, <1>6, <1>7, <1>8 DEF At

LEMMA SplicedEntries ==
    ASSUME NEW S, NEW s \in Seq(S), NEW q \in Seq(S), IsInjective(s),
           NEW i \in 0 .. Len(s), NEW j \in i + 1 .. Len(s) + 1
    PROVE  ToSet(Spliced(s, i, q, j)) = (ToSet(s) \ Part(s, i, j)) \cup ToSet(q)
  <1> DEFINE t == Spliced(s, i, q, j)
             n == i + Len(q) + Len(s) + 1 - j
  <1>0. Len(s) \in Nat /\ Len(q) \in Nat /\ i \in Nat /\ j \in Nat /\ i <= Len(s) /\ i < j
        /\ j <= Len(s) + 1 /\ DOMAIN s = 1 .. Len(s) /\ DOMAIN q = 1 .. Len(q)
    OBVIOUS
  <1>1. DOMAIN t = 1 .. n
    BY SplicedIs
  <1>2. \A k \in 1 .. n : t[k] = IF k <= i THEN s[k]
                     ELSE IF k <= i + Len(q) THEN q[k - i] ELSE s[k - i - Len(q) + j - 1]
    BY SplicedIs
  <1> HIDE DEF t
  <1>3. \A a, b \in 1 .. Len(s) : s[a] = s[b] => a = b
    BY <1>0 DEF IsInjective
  <1>4. ToSet(s) \ Part(s, i, j) = {s[k] : k \in 1 .. i \cup j .. Len(s)}
    <2>1. \A a \in 1 .. Len(s) : s[a] \notin Part(s, i, j) <=> a \in 1 .. i \cup j .. Len(s)
      BY <1>0, <1>3 DEF Part
    <2> QED BY <1>0, <2>1 DEF ToSet
  <1>5. ASSUME NEW k \in 1 .. n PROVE t[k] \in (ToSet(s) \ Part(s, i, j)) \cup ToSet(q)
    <2>1. CASE k <= i
      BY <1>0, <1>2, <1>4, <2>1
    <2>2. CASE i < k /\ k <= i + Len(q)
      <3>1. k - i \in DOMAIN q
        BY <1>0, <2>2
      <3> QED BY <1>0, <1>2, <2>2, <3>1 DEF ToSet
    <2>3. CASE i + Len(q) < k
      <3>1. k - i - Len(q) + j - 1 \in j .. Len(s) /\ ~(k <= i) /\ ~(k <= i + Len(q))
        BY <1>0, <2>3
      <3> QED BY <1>2, <1>4, <3>1
    <2> QED BY <1>0, <2>1, <2>2, <2>3
  <1>6. ASSUME NEW k \in 1 .. i PROVE s[k] \in ToSet(t)
    <2>1. k \in 1 .. n /\ t[k] = s[k]
      BY <1>0, <1>2
    <2> QED BY <1>1, <2>1 DEF ToSet
  <1>7. ASSUME NEW k \in j .. Len(s) PROVE s[k] \in ToSet(t)
    <2> DEFINE c == k + i + Len(q) - j + 1
    <2>1. c \in 1 .. n /\ ~(c <= i) /\ ~(c <= i + Len(q)) /\ c - i - Len(q) + j - 1 = k
      BY <1>0
    <2>2. t[c] = s[k]
      BY <1>2, <2>1
    <2> HIDE DEF c
    <2> QED BY <1>1, <2>1, <2>2 DEF ToSet
  <1>8. ASSUME NEW k \in 1 .. Len(q) PROVE q[k] \in ToSet(t)
    <2>1. i + k \in 1 .. n /\ ~(i + k <= i) /\ i + k <= i + Len(q) /\ (i + k) - i = k
      BY <1>0
    <2>2. t[i + k] = q[k]
      BY <1>2, <2>1
    <2> QED BY <1>1, <2>1, <2>2 DEF ToSet
  <1>9. ToSet(t) \subseteq (ToSet(s) \ Part(s, i, j)) \cup ToSet(q)
    BY <1>1, <1>5 DEF ToSet
  <1>10. ToSet(q) \subseteq ToSet(t)
    BY <1>0, <1>8 DEF ToSet
  <1>11. ToSet(s) \ Part(s, i, j) \subseteq ToSet(t)
    BY <1>4, <1>6, <1>7
  <1> QED BY <1>9, <1>10, <1>11 DEF t

\* A ring keeps its sequence when no pointer of its nodes changes.
LEMMA RingKept ==
    ASSUME NEW l, NEW s, HoldAll(l, s), NEW h \in RingHead, NEW m,
           \A x \in ToSet(s[h]) \cup {h} : m.next[x] = l.next[x] /\ m.prev[x] = l.prev[x]
    PROVE  Holds(m, h, s[h])
  <1>1. /\ Len(s[h]) \in Nat /\ IsInjective(s[h])
        /\ \A k \in 0 .. Len(s[h]) + 1 : At(s[h], h, k) \in ToSet(s[h]) \cup {h}
    BY RingNodes
  <1>2. \A k \in 0 .. Len(s[h]) : /\ l.next[At(s[h], h, k)] = At(s[h], h, k + 1)
                                  /\ l.prev[At(s[h], h, k + 1)] = At(s[h], h, k)
    BY DEF HoldAll, Holds
  <1>3. \A k \in 0 .. Len(s[h]) : k \in 0 .. Len(s[h]) + 1 /\ k + 1 \in 0 .. Len(s[h]) + 1
    BY <1>1
  <1> QED BY <1>1, <1>2, <1>3 DEF Holds

LEMMA Rejoining ==
    ASSUME NEW l, NEW s, HoldAll(l, s), NEW h \in RingHead, NEW m, NEW q \in Seq(Node),
           NEW i \in 0 .. Len(s[h]), NEW j \in i + 1 .. Len(s[h]) + 1,
           Relinks(l, m, s, h, i, q, j)
    PROVE  Rejoined(l, m, h, s[h], i, q, j) /\ Fits(s[h], i, q, j)
  <1> DEFINE t == s[h]
  <1>0. /\ Len(t) \in Nat /\ i \in Nat /\ j \in Nat /\ i <= Len(t) /\ i < j /\ j <= Len(t) + 1
    BY RingNodes
  <1>1. /\ At(t, h, 0) = h /\ At(t, h, Len(t) + 1) = h
        /\ \A k \in 1 .. Len(t) : At(t, h, k) = t[k] /\ t[k] \in ToSet(t)
        /\ ToSet(t) \subseteq Node /\ h \notin Node /\ ToSet(t) \subseteq Entries(s)
        /\ Differ(t, h)
    BY RingNodes
  <1>2. \A x, y \in 1 .. Len(t) : t[x] = t[y] => x = y
    BY <1>0, <1>1 DEF Differ
  <1>3. \A k \in 1 .. Len(q) : q[k] \in Node
    OBVIOUS
  <1>4. ToSet(q) = {q[k] : k \in 1 .. Len(q)} /\ DOMAIN q = 1 .. Len(q)
    BY DEF ToSet
  <1>5. \A k \in 1 .. i \cup j .. Len(t) : t[k] \notin Part(t, i, j) /\ k \in 1 .. Len(t)
    BY <1>0, <1>2 DEF Part
  <1>6. \A k \in 1 .. i \cup j .. Len(t) : t[k] \notin ToSet(q)
    BY <1>1, <1>5 DEF Relinks
  <1> DEFINE Stay == (Entries(s) \cup RingHead) \ (ToSet(q) \cup Part(t, i, j))
  <1>7. h \in Stay
    <2>1. Part(t, i, j) \subseteq Node
      <3>1. \A c \in i + 1 .. j - 1 : c \in 1 .. Len(t)
        BY <1>0
      <3> QED BY <1>1, <3>1 DEF Part
    <2> QED BY <1>1, <1>3, <1>4, <2>1
  <1>8. \A k \in 0 .. i \cup j .. Len(t) + 1 : At(t, h, k) \in Stay
    <2>1. \A k \in 1 .. i \cup j .. Len(t) : t[k] \in Stay
      BY <1>1, <1>5, <1>6
    <2>2. \A k \in 0 .. i \cup j .. Len(t) + 1 :
             k = 0 \/ k = Len(t) + 1 \/ k \in 1 .. i \cup j .. Len(t)
      BY <1>0
    <2> HIDE DEF Stay
    <2> QED BY <1>1, <1>5, <1>7, <2>1, <2>2
  <1>9. \A x \in Stay : /\ x # At(t, h, i) => m.next[x] = l.next[x]
                        /\ x # At(t, h, j) => m.prev[x] = l.prev[x]
    BY DEF Relinks
  <1> HIDE DEF Stay
  <1>10. ASSUME NEW k \in 0 .. i - 1 \cup j .. Len(t)
         PROVE  m.next[At(t, h, k)] = l.next[At(t, h, k)]
    <2>1. k \in 0 .. i \cup j .. Len(t) + 1 /\ k \in 0 .. Len(t) /\ i \in 0 .. Len(t) /\ k # i
      BY <1>0
    <2>2. At(t, h, k) # At(t, h, i)
      BY <1>1, <2>1 DEF Differ
    <2> QED BY <1>8, <1>9, <2>1, <2>2
  <1>11. ASSUME NEW k \in 1 .. i \cup j + 1 .. Len(t) + 1
         PROVE  m.prev[At(t, h, k)] = l.prev[At(t, h, k)]
    <2>1. k \in 0 .. i \cup j .. Len(t) + 1 /\ k \in 1 .. Len(t) + 1 /\ j \in 1 .. Len(t) + 1 /\ k # j
      BY <1>0
    <2>2. At(t, h, k) # At(t, h, j)
      BY <1>1, <2>1 DEF Differ
    <2> QED BY <1>8, <1>9, <2>1, <2>2
  <1>12. Rejoined(l, m, h, t, i, q, j)
    BY <1>10, <1>11 DEF Rejoined, Relinks
  <1>13. Fits(t, i, q, j)
    BY <1>4, <1>6 DEF Fits, Relinks
  <1> QED BY <1>12, <1>13

\* One part of one ring has changed: all rings hold their sequences.
LEMMA Relinked ==
    ASSUME NEW l, NEW s, HoldAll(l, s), NEW h \in RingHead, NEW m \in Memory,
           NEW q \in Seq(Node), NEW i \in 0 .. Len(s[h]), NEW j \in i + 1 .. Len(s[h]) + 1,
           Relinks(l, m, s, h, i, q, j)
    PROVE  /\ HoldAll(m, [s EXCEPT ![h] = Spliced(s[h], i, q, j)])
           /\ Entries([s EXCEPT ![h] = Spliced(s[h], i, q, j)])
                 = (Entries(s) \ Part(s[h], i, j)) \cup ToSet(q)
  <1> DEFINE t == [s EXCEPT ![h] = Spliced(s[h], i, q, j)]
             P == Part(s[h], i, j)
  <1>1. s[h] \in Seq(Node) /\ IsInjective(s[h]) /\ s \in [RingHead -> Seq(Node)]
    BY RingNodes DEF HoldAll
  <1>2. t[h] = Spliced(s[h], i, q, j) /\ \A g \in RingHead \ {h} : t[g] = s[g]
    BY <1>1
  <1>3. t \in [RingHead -> Seq(Node)]
    BY <1>1, SplicedIs
  <1>4. ToSet(t[h]) = (ToSet(s[h]) \ P) \cup ToSet(q)
    BY <1>1, <1>2, SplicedEntries
  <1>5. Holds(m, h, t[h])
    <2>1. Rejoined(l, m, h, s[h], i, q, j) /\ Fits(s[h], i, q, j)
      BY Rejoining
    <2>2. Holds(l, h, s[h])
      BY DEF HoldAll
    <2>3. Holds(m, h, Spliced(s[h], i, q, j))
      BY <1>1, <2>1, <2>2, SplicedHolds
    <2> QED BY <1>2, <2>3
  <1> HIDE DEF t
  <1>6. P \subseteq ToSet(s[h])
    <2>1. \A c \in i + 1 .. j - 1 : c \in 1 .. Len(s[h])
      BY RingNodes
    <2> QED BY <2>1, RingNodes DEF Part
  <1>7. ASSUME NEW g \in RingHead \ {h} PROVE ToSet(s[g]) \cap (ToSet(q) \cup ToSet(s[h])) = {}
    <2>1. ToSet(s[g]) \cap ToSet(s[h]) = {}
      BY DEF HoldAll
    <2>2. ToSet(s[g]) \cap ToSet(q) \subseteq P
      BY DEF Relinks, Entries
    <2> QED BY <1>6, <2>1, <2>2
  <1>8. ASSUME NEW g \in RingHead \ {h} PROVE Holds(m, g, t[g])
    <2>1. \A x \in ToSet(s[g]) \cup {g} :
             /\ x \in (Entries(s) \cup RingHead) \ (ToSet(q) \cup P)
             /\ x \notin ToSet(s[h]) \cup {h}
      <3>1. ToSet(s[g]) \subseteq Entries(s) /\ ToSet(s[g]) \subseteq Node /\ g \notin Node
        BY RingNodes
      <3>2. ToSet(s[h]) \subseteq Node /\ h \notin Node
        BY RingNodes
      <3>3. ToSet(q) \subseteq Node
        BY DEF ToSet
      <3> QED BY <1>6, <1>7, <3>1, <3>2, <3>3
    <2>2. /\ At(s[h], h, i) \in ToSet(s[h]) \cup {h}
          /\ At(s[h], h, j) \in ToSet(s[h]) \cup {h}
      <3>1. i \in 0 .. Len(s[h]) + 1 /\ j \in 0 .. Len(s[h]) + 1
        BY RingNodes
      <3> QED BY <3>1, RingNodes
    <2>3. \A x \in ToSet(s[g]) \cup {g} : m.next[x] = l.next[x] /\ m.prev[x] = l.prev[x]
      BY <2>1, <2>2 DEF Relinks
    <2>4. Holds(m, g, s[g])
      BY <2>3, RingKept
    <2> QED BY <1>2, <2>4
  <1>9. \A f, g \in RingHead : f # g => ToSet(t[f]) \cap ToSet(t[g]) = {}
    <2>1. \A f, g \in RingHead \ {h} : f # g => ToSet(t[f]) \cap ToSet(t[g]) = {}
      BY <1>2 DEF HoldAll
    <2>2. \A g \in RingHead \ {h} : ToSet(t[g]) \cap ToSet(t[h]) = {}
      BY <1>2, <1>4, <1>7
    <2> QED BY <2>1, <2>2
  <1>10. HoldAll(m, t)
    <2>1. \A g \in RingHead : Holds(m, g, t[g])
      BY <1>5, <1>8
    <2> QED BY <1>3, <1>9, <2>1 DEF HoldAll
  <1>11. Entries(t) = (Entries(s) \ P) \cup ToSet(q)
    <2> DEFINE U == UNION {ToSet(s[g]) : g \in RingHead \ {h}}
    <2>1. Entries(t) = ToSet(t[h]) \cup U
      BY <1>2 DEF Entries
    <2>2. Entries(s) = ToSet(s[h]) \cup U
      BY DEF Entries
    <2>3. U \cap P = {}
      <3>1. \A g \in RingHead \ {h} : ToSet(s[g]) \cap P = {}
        BY <1>6, <1>7
      <3> HIDE DEF P
      <3> QED BY <3>1
    <2> HIDE DEF U, P
    <2> QED BY <1>4, <2>1, <2>2, <2>3
  <1> QED BY <1>10, <1>11 DEF t

-----------------------------------------------------------------------------
(* The edits of the program's sequences, as splices. *)

\* Concatenation under a name, so that the provers take it as one operator.
Conc(s, t) == s \o t

LEMMA ConcType ==
    ASSUME NEW S
    PROVE  \A a, b \in Seq(S) : Conc(a, b) \in Seq(S)
  BY DEF Conc

LEMMA ConcAssociative ==
    ASSUME NEW S
    PROVE  \A a, b, c \in Seq(S) : Conc(Conc(a, b), c) = Conc(a, Conc(b, c))
  BY ConcatAssociative DEF Conc

LEMMA SpliceBehind ==
    ASSUME NEW S, NEW s \in Seq(S), NEW r \in Seq(S), NEW k \in 1 .. Len(s)
    PROVE  Spliced(s, k - 1, <<s[k]>> \o r, k + 1) = Spliced(s, k, r, k + 1)
  <1> DEFINE u == SubSeq(s, 1, k - 1)
             w == <<s[k]>>
  <1>0. Len(s) \in Nat /\ k \in Nat /\ 1 <= k /\ k <= Len(s)
    OBVIOUS
  <1>1. u \in Seq(S) /\ w \in Seq(S)
    <2>1. \A c \in 1 .. k - 1 : c \in 1 .. Len(s)
      BY <1>0
    <2>2. u \in Seq(S)
      BY <1>0, <2>1, SubSeqProperties
    <2> QED BY <2>2
  <1> HIDE DEF u, w
  <1>2. (u \o w) \o r = u \o (w \o r)
    <2>1. Conc(Conc(u, w), r) = Conc(u, Conc(w, r))
      BY <1>1, ConcAssociative
    <2> QED BY <2>1 DEF Conc
  <1>3. SubSeq(s, 1, k) = u \o w
    <2>1. 1 \in 1 .. Len(s) /\ k \in 1 .. Len(s)
      BY <1>0
    <2> QED BY <2>1, SubSeqRecursiveSecond DEF u, w
  <1> QED BY <1>2, <1>3 DEF Spliced, u, w

LEMMA SpliceBefore ==
    ASSUME NEW s \in Seq(Node), NEW r \in Seq(Node), NEW k \in 1 .. Len(s)
    PROVE  Spliced(s, k - 1, r \o <<s[k]>>, k + 1) = Spliced(s, k - 1, r, k)
  <1> DEFINE u == SubSeq(s, 1, k - 1)
             v == SubSeq(s, k + 1, Len(s))
             w == <<s[k]>>
  <1>0. Len(s) \in Nat /\ k \in Nat /\ 1 <= k /\ k <= Len(s)
    OBVIOUS
  <1>1. u \in Seq(Node) /\ w \in Seq(Node) /\ v \in Seq(Node)
    BY <1>0
  <1> HIDE DEF u, v, w
  <1>2. r \in Seq(Node)
    OBVIOUS
  <1>3. (u \o (r \o w)) \o v = (u \o r) \o (w \o v)
    <2>1. Conc(r, w) \in Seq(Node) /\ Conc(u, r) \in Seq(Node)
      BY <1>1, <1>2, ConcType
    <2>2. Conc(Conc(Conc(u, r), w), v) = Conc(Conc(u, r), Conc(w, v))
      BY <1>1, <2>1, ConcAssociative
    <2>3. Conc(Conc(u, r), w) = Conc(u, Conc(r, w))
      BY <1>1, <1>2, ConcAssociative
    <2>4. Conc(Conc(u, Conc(r, w)), v) = Conc(Conc(u, r), Conc(w, v))
      BY <2>2, <2>3
    <2> QED BY <2>4 DEF Conc
  <1>4. SubSeq(s, k, Len(s)) = w \o v
    <2>1. k \in 1 .. Len(s) /\ Len(s) \in k .. Len(s)
      BY <1>0
    <2> QED BY <2>1, SubSeqRecursiveFirst DEF v, w
  <1> QED BY <1>3, <1>4 DEF Spliced, u, v, w

LEMMA SpliceEnds ==
    ASSUME NEW S, NEW s \in Seq(S), NEW r \in Seq(S)
    PROVE  /\ Spliced(s, 0, r, 1) = r \o s
           /\ Spliced(s, Len(s), r, Len(s) + 1) = s \o r
           /\ Spliced(s, 0, r, Len(s) + 1) = r
  <1>1. Len(s) \in Nat
    OBVIOUS
  <1>2. SubSeq(s, 1, 0) = <<>> /\ SubSeq(s, Len(s) + 1, Len(s)) = <<>> /\ SubSeq(s, 1, Len(s)) = s
    BY <1>1, SubSeqEmpty, SubSeqFull
  <1>3. <<>> \o r = r /\ r \o <<>> = r /\ s \o r \in Seq(S) /\ (s \o r) \o <<>> = s \o r
    BY ConcatEmptySeq
  <1> QED BY <1>2, <1>3 DEF Spliced

\* Entry x is the k-th of ring h, and each edit at x is a splice there.
Found(l, s, x, h, k) ==
    /\ h \in RingHead /\ k \in 1 .. Len(s[h]) /\ s[h][k] = x
    /\ l.prev[x] = At(s[h], h, k - 1) /\ l.next[x] = At(s[h], h, k + 1)
    /\ x \in ToSet(s[h]) /\ PlaceOf(s[h], x) = k
    /\ \A r \in Seq(Node) : InsteadOf(s, x, r) = [s EXCEPT ![h] = Spliced(s[h], k - 1, r, k + 1)]

LEMMA FindEntry ==
    ASSUME NEW l, NEW s, HoldAll(l, s), NEW x \in Entries(s)
    PROVE  \E h, k : Found(l, s, x, h, k)
  <1>1. PICK h \in RingHead : x \in ToSet(s[h])
    BY DEF Entries
  <1>2. /\ s[h] \in Seq(Node) /\ Len(s[h]) \in Nat /\ DOMAIN s[h] = 1 .. Len(s[h])
        /\ \A k \in 1 .. Len(s[h]) : At(s[h], h, k) = s[h][k]
        /\ IsInjective(s[h]) /\ s \in [RingHead -> Seq(Node)]
    BY RingNodes DEF HoldAll
  <1>3. PICK k \in 1 .. Len(s[h]) : s[h][k] = x
    BY <1>1, <1>2 DEF ToSet
  <1>4. PlaceOf(s[h], x) = k
    BY <1>2, <1>3 DEF PlaceOf, IsInjective
  <1>5. l.prev[x] = At(s[h], h, k - 1) /\ l.next[x] = At(s[h], h, k + 1)
    <2>1. k \in 0 .. Len(s[h]) /\ k - 1 \in 0 .. Len(s[h]) /\ (k - 1) + 1 = k
      BY <1>2
    <2>2. \A n \in 0 .. Len(s[h]) : /\ l.next[At(s[h], h, n)] = At(s[h], h, n + 1)
                                    /\ l.prev[At(s[h], h, n + 1)] = At(s[h], h, n)
      BY DEF HoldAll, Holds
    <2>3. At(s[h], h, k) = x
      BY <1>2, <1>3
    <2> QED BY <2>1, <2>2, <2>3
  <1>6. \A g \in RingHead \ {h} : x \notin ToSet(s[g])
    BY <1>1 DEF HoldAll
  <1>7. ASSUME NEW r \in Seq(Node)
        PROVE  InsteadOf(s, x, r) = [s EXCEPT ![h] = Spliced(s[h], k - 1, r, k + 1)]
    <2>1. Instead(s[h], x, r) = Spliced(s[h], k - 1, r, k + 1)
      <3>1. Len(<<x>>) = 1
        OBVIOUS
      <3> QED BY <1>1, <1>4, <3>1 DEF Instead, ReplaceSubSeqAt, Spliced
    <2>2. \A g \in RingHead \ {h} : Instead(s[g], x, r) = s[g]
      BY <1>6 DEF Instead
    <2> QED BY <1>2, <2>1, <2>2 DEF InsteadOf
  <1>8. Found(l, s, x, h, k)
    BY <1>1, <1>3, <1>4, <1>5, <1>7 DEF Found
  <1> QED BY <1>8

\* Between a and b, the nodes i and i + 1 of ring h, is a gap, and t(r) the sequences with
\* r put there.
Gap(l, s, h, i, a, b) ==
    /\ h \in RingHead /\ i \in 0 .. Len(s[h])
    /\ a = At(s[h], h, i) /\ b = At(s[h], h, i + 1)
    /\ l.next[a] = b /\ l.prev[b] = a

Filled(s, h, i, r) == [s EXCEPT ![h] = Spliced(s[h], i, r, i + 1)]

LEMMA FindBehind ==
    ASSUME NEW l, NEW s, HoldAll(l, s), NEW x \in Entries(s) \cup RingHead
    PROVE  \E h, i : /\ Gap(l, s, h, i, x, l.next[x])
                     /\ \A r \in Seq(Node) : Behind(s, x, r) = Filled(s, h, i, r)
  <1>0. DOMAIN s = RingHead /\ s \in [RingHead -> Seq(Node)]
    BY DEF HoldAll
  <1>1. \A h \in RingHead : \A n \in 0 .. Len(s[h]) :
           /\ l.next[At(s[h], h, n)] = At(s[h], h, n + 1)
           /\ l.prev[At(s[h], h, n + 1)] = At(s[h], h, n)
    BY DEF HoldAll, Holds
  <1>2. CASE x \in RingHead
    <2>1. 0 \in 0 .. Len(s[x]) /\ At(s[x], x, 0) = x
      BY <1>2, RingNodes
    <2>2. Gap(l, s, x, 0, x, l.next[x])
      BY <1>1, <1>2, <2>1 DEF Gap
    <2>3. ASSUME NEW r \in Seq(Node) PROVE Behind(s, x, r) = Filled(s, x, 0, r)
      <3>1. Spliced(s[x], 0, r, 1) = r \o s[x]
        BY <1>0, <1>2, SpliceEnds
      <3>2. 0 + 1 = 1
        OBVIOUS
      <3> QED BY <1>0, <1>2, <3>1, <3>2, Zenon DEF Behind, Filled
    <2> QED BY <2>2, <2>3
  <1>3. CASE x \notin RingHead
    <2>1. PICK h, k : Found(l, s, x, h, k)
      BY <1>3, FindEntry
    <2>2. /\ h \in RingHead /\ k \in 1 .. Len(s[h]) /\ k \in 0 .. Len(s[h]) /\ s[h][k] = x
          /\ s[h] \in Seq(Node) /\ At(s[h], h, k) = x
      BY <2>1, RingNodes DEF Found
    <2>3. Gap(l, s, h, k, x, l.next[x])
      BY <1>1, <2>2 DEF Gap
    <2>4. ASSUME NEW r \in Seq(Node) PROVE Behind(s, x, r) = Filled(s, h, k, r)
      <3>1. <<x>> \o r \in Seq(Node)
        BY <2>2
      <3>2. Spliced(s[h], k - 1, <<x>> \o r, k + 1) = Spliced(s[h], k, r, k + 1)
        BY <2>2, SpliceBehind
      <3>3. InsteadOf(s, x, <<x>> \o r) = [s EXCEPT ![h] = Spliced(s[h], k - 1, <<x>> \o r, k + 1)]
        BY <2>1, <3>1 DEF Found
      <3> QED BY <1>0, <1>3, <3>2, <3>3 DEF Behind, Filled
    <2> QED BY <2>3, <2>4
  <1> QED BY <1>2, <1>3

LEMMA FindBefore ==
    ASSUME NEW l, NEW s, HoldAll(l, s), NEW x \in Entries(s) \cup RingHead
    PROVE  \E h, i : /\ Gap(l, s, h, i, l.prev[x], x)
                     /\ \A r \in Seq(Node) : Before(s, x, r) = Filled(s, h, i, r)
  <1>0. DOMAIN s = RingHead /\ s \in [RingHead -> Seq(Node)]
    BY DEF HoldAll
  <1>1. \A h \in RingHead : \A n \in 0 .. Len(s[h]) :
           /\ l.next[At(s[h], h, n)] = At(s[h], h, n + 1)
           /\ l.prev[At(s[h], h, n + 1)] = At(s[h], h, n)
    BY DEF HoldAll, Holds
  <1>2. CASE x \in RingHead
    <2> DEFINE n == Len(s[x])
    <2>1. n \in 0 .. Len(s[x]) /\ At(s[x], x, n + 1) = x
      BY <1>2, RingNodes
    <2>2. Gap(l, s, x, n, l.prev[x], x)
      BY <1>1, <1>2, <2>1 DEF Gap
    <2>3. ASSUME NEW r \in Seq(Node) PROVE Before(s, x, r) = Filled(s, x, n, r)
      <3>1. Spliced(s[x], n, r, n + 1) = s[x] \o r
        BY <1>0, <1>2, SpliceEnds
      <3> QED BY <1>0, <1>2, <3>1 DEF Before, Filled
    <2> QED BY <2>2, <2>3
  <1>3. CASE x \notin RingHead
    <2>1. PICK h, k : Found(l, s, x, h, k)
      BY <1>3, FindEntry
    <2>2. /\ h \in RingHead /\ k \in 1 .. Len(s[h]) /\ k - 1 \in 0 .. Len(s[h]) /\ s[h][k] = x
          /\ s[h] \in Seq(Node) /\ At(s[h], h, k) = x /\ (k - 1) + 1 = k
      BY <2>1, RingNodes DEF Found
    <2>3. Gap(l, s, h, k - 1, l.prev[x], x)
      BY <1>1, <2>2 DEF Gap
    <2>4. ASSUME NEW r \in Seq(Node) PROVE Before(s, x, r) = Filled(s, h, k - 1, r)
      <3>1. r \o <<x>> \in Seq(Node)
        BY <2>2
      <3>2. Spliced(s[h], k - 1, r \o <<x>>, k + 1) = Spliced(s[h], k - 1, r, k)
        BY <2>2, SpliceBefore
      <3>3. InsteadOf(s, x, r \o <<x>>) = [s EXCEPT ![h] = Spliced(s[h], k - 1, r \o <<x>>, k + 1)]
        BY <2>1, <3>1 DEF Found
      <3> QED BY <1>0, <1>3, <2>2, <3>2, <3>3 DEF Before, Filled
    <2> QED BY <2>3, <2>4
  <1> QED BY <1>2, <1>3

-----------------------------------------------------------------------------
(* What the calls do: each takes a part of a ring away, or fills a gap. *)

\* Sequence q of entries that are in no ring goes between a and b.
Fills(l, m, s, a, b, q) ==
    /\ q \in Seq(Node) /\ q # <<>> /\ IsInjective(q) /\ ToSet(q) \cap Entries(s) = {}
    /\ Linked(m, q) /\ Neighbours(m, a, q[1]) /\ Neighbours(m, q[Len(q)], b)
    /\ \A x \in Entries(s) \cup RingHead : /\ x # a => m.next[x] = l.next[x]
                                           /\ x # b => m.prev[x] = l.prev[x]

LEMMA Filling ==
    ASSUME NEW l, NEW s, HoldAll(l, s), NEW h, NEW c, NEW a, NEW b, Gap(l, s, h, c, a, b),
           NEW m \in Memory, NEW q, Fills(l, m, s, a, b, q)
    PROVE  HoldAll(m, Filled(s, h, c, q)) /\ Entries(Filled(s, h, c, q)) = Entries(s) \cup ToSet(q)
  <1>1. /\ h \in RingHead /\ c \in 0 .. Len(s[h]) /\ a = At(s[h], h, c) /\ b = At(s[h], h, c + 1)
        /\ q \in Seq(Node)
    BY DEF Gap, Fills
  <1>2. Len(s[h]) \in Nat /\ c + 1 \in c + 1 .. Len(s[h]) + 1 /\ (c + 1) .. (c + 1) - 1 = {}
    BY <1>1, RingNodes
  <1>3. Part(s[h], c, c + 1) = {}
    BY <1>2 DEF Part
  <1>4. Relinks(l, m, s, h, c, q, c + 1)
    BY <1>1, <1>3 DEF Relinks, Fills
  <1>5. HoldAll(m, [s EXCEPT ![h] = Spliced(s[h], c, q, c + 1)])
    BY <1>1, <1>2, <1>4, Relinked
  <1>6. Entries([s EXCEPT ![h] = Spliced(s[h], c, q, c + 1)])
           = (Entries(s) \ Part(s[h], c, c + 1)) \cup ToSet(q)
    BY <1>1, <1>2, <1>4, Relinked
  <1> QED BY <1>3, <1>5, <1>6 DEF Filled

\* What is strictly between the i-th and the j-th node is taken away.
Drops(l, m, s, h, i, j) ==
    /\ h \in RingHead /\ i \in 0 .. Len(s[h]) /\ j \in i + 1 .. Len(s[h]) + 1
    /\ Neighbours(m, At(s[h], h, i), At(s[h], h, j))
    /\ \A x \in (Entries(s) \cup RingHead) \ Part(s[h], i, j) :
          /\ x # At(s[h], h, i) => m.next[x] = l.next[x]
          /\ x # At(s[h], h, j) => m.prev[x] = l.prev[x]

Dropped(s, h, i, j) == [s EXCEPT ![h] = Spliced(s[h], i, <<>>, j)]

LEMMA Dropping ==
    ASSUME NEW l, NEW s, HoldAll(l, s), NEW h, NEW i, NEW j, NEW m \in Memory,
           Drops(l, m, s, h, i, j)
    PROVE  HoldAll(m, Dropped(s, h, i, j)) /\ Entries(Dropped(s, h, i, j)) = Entries(s) \ Part(s[h], i, j)
  <1>1. h \in RingHead /\ i \in 0 .. Len(s[h]) /\ j \in i + 1 .. Len(s[h]) + 1
    BY DEF Drops
  <1> DEFINE q == <<>>
  <1>2. q \in Seq(Node) /\ ToSet(q) = {} /\ IsInjective(q) /\ Linked(m, q)
    <2>1. q \in Seq(Node) /\ Len(q) = 0 /\ DOMAIN q = {} /\ 1 .. 0 - 1 = {}
      OBVIOUS
    <2> HIDE DEF q
    <2> QED BY <2>1 DEF ToSet, IsInjective, Linked
  <1>3. Relinks(l, m, s, h, i, q, j)
    BY <1>2 DEF Relinks, Drops
  <1> HIDE DEF q
  <1>4. HoldAll(m, [s EXCEPT ![h] = Spliced(s[h], i, q, j)])
    BY <1>1, <1>2, <1>3, Relinked
  <1>5. Entries([s EXCEPT ![h] = Spliced(s[h], i, q, j)])
           = (Entries(s) \ Part(s[h], i, j)) \cup ToSet(q)
    BY <1>1, <1>2, <1>3, Relinked
  <1> QED BY <1>2, <1>4, <1>5 DEF Dropped, q

\* Only the pointers of nodes in E, or in the program's lists, are other ones in m.
Apart(l, m, E) == \A x \in Node \ E : m.next[x] = l.next[x] /\ m.prev[x] = l.prev[x]

\* The nodes of a gap.
LEMMA GapNodes ==
    ASSUME NEW l, NEW s, HoldAll(l, s), NEW h, NEW c, NEW a, NEW b, Gap(l, s, h, c, a, b)
    PROVE  {a, b} \subseteq Entries(s) \cup RingHead /\ Entries(s) \subseteq Node /\ {a, b} \subseteq Place
  <1>1. h \in RingHead /\ c \in 0 .. Len(s[h]) /\ a = At(s[h], h, c) /\ b = At(s[h], h, c + 1)
    BY DEF Gap
  <1>2. c \in 0 .. Len(s[h]) + 1 /\ c + 1 \in 0 .. Len(s[h]) + 1
    BY <1>1, RingNodes
  <1>3. {a, b} \subseteq ToSet(s[h]) \cup {h}
    BY <1>1, <1>2, RingNodes
  <1>4. Entries(s) \subseteq Node
    BY RingNodes DEF Entries
  <1>5. ToSet(s[h]) \subseteq Entries(s)
    BY <1>1, RingNodes
  <1> QED BY <1>1, <1>3, <1>4, <1>5 DEF Place

\* __list_add of an entry that is in no ring.
LEMMA Inserted ==
    ASSUME NEW l, NEW s, HoldAll(l, s), NEW h, NEW c, NEW a, NEW b, Gap(l, s, h, c, a, b),
           NEW e \in Node \ Entries(s)
    PROVE  /\ HoldAll(list_add_between(l, e, a, b), Filled(s, h, c, <<e>>))
           /\ Apart(l, list_add_between(l, e, a, b), Entries(s) \cup {e})
  <1> DEFINE m == list_add_between(l, e, a, b)
             q == <<e>>
  <1>1. {a, b} \subseteq Entries(s) \cup RingHead /\ {a, b} \subseteq Place /\ e \in Place
        /\ e \notin Entries(s) \cup RingHead /\ e # a /\ e # b
    BY GapNodes, Addresses DEF Place
  <1>2. l.next \in [Place -> Place \cup Poison] /\ l.prev \in [Place -> Place \cup Poison]
    BY DEF HoldAll, Memory
  <1>3. /\ m.next = [l.next EXCEPT ![e] = b, ![a] = e]
        /\ m.prev = [l.prev EXCEPT ![b] = e, ![e] = a]
    BY DEF list_add_between
  <1>4. m \in Memory
    BY <1>1, <1>2 DEF Memory, list_add_between
  <1> HIDE DEF m
  <1>5. q \in Seq(Node) /\ q # <<>> /\ Len(q) = 1 /\ DOMAIN q = {1} /\ q[1] = e
    OBVIOUS
  <1> HIDE DEF q
  <1>6. IsInjective(q) /\ ToSet(q) = {e} /\ Linked(m, q)
    BY <1>5 DEF IsInjective, ToSet, Linked
  <1>7. Neighbours(m, a, e) /\ Neighbours(m, e, b)
    BY <1>1, <1>2, <1>3 DEF Neighbours
  <1>8. \A x \in Entries(s) \cup RingHead : /\ x # a => m.next[x] = l.next[x]
                                            /\ x # b => m.prev[x] = l.prev[x]
    <2>1. Entries(s) \cup RingHead \subseteq Place
      BY GapNodes DEF Place
    <2> QED BY <1>1, <1>2, <1>3, <2>1
  <1>9. Fills(l, m, s, a, b, q)
    BY <1>1, <1>5, <1>6, <1>7, <1>8 DEF Fills
  <1>10. HoldAll(m, Filled(s, h, c, q))
    BY <1>4, <1>9, Filling
  <1>11. Apart(l, m, Entries(s) \cup {e})
    BY <1>1, <1>2, <1>3, Addresses DEF Apart, Place
  <1> QED BY <1>10, <1>11 DEF m, q

LEMMA Added ==
    ASSUME NEW l, NEW s, HoldAll(l, s), NEW e \in Node \ Entries(s),
           NEW x \in Entries(s) \cup RingHead
    PROVE  /\ HoldAll(k_list_add(l, e, x), Behind(s, x, <<e>>))
           /\ HoldAll(k_list_add_tail(l, e, x), Before(s, x, <<e>>))
           /\ Apart(l, k_list_add(l, e, x), Entries(s) \cup {e})
           /\ Apart(l, k_list_add_tail(l, e, x), Entries(s) \cup {e})
  <1> DEFINE q == <<e>>
  <1>1. q \in Seq(Node)
    OBVIOUS
  <1> HIDE DEF q
  <1>2. PICK g, i : /\ Gap(l, s, g, i, x, l.next[x])
                    /\ \A r \in Seq(Node) : Behind(s, x, r) = Filled(s, g, i, r)
    BY FindBehind
  <1>3. PICK h, j : /\ Gap(l, s, h, j, l.prev[x], x)
                    /\ \A r \in Seq(Node) : Before(s, x, r) = Filled(s, h, j, r)
    BY FindBefore
  <1>4. Behind(s, x, q) = Filled(s, g, i, q) /\ Before(s, x, q) = Filled(s, h, j, q)
    BY <1>1, <1>2, <1>3
  <1>5. /\ HoldAll(k_list_add(l, e, x), Filled(s, g, i, q))
        /\ Apart(l, k_list_add(l, e, x), Entries(s) \cup {e})
    BY <1>2, Inserted DEF k_list_add, q
  <1>6. /\ HoldAll(k_list_add_tail(l, e, x), Filled(s, h, j, q))
        /\ Apart(l, k_list_add_tail(l, e, x), Entries(s) \cup {e})
    BY <1>3, Inserted DEF k_list_add_tail, q
  <1> QED BY <1>4, <1>5, <1>6 DEF q

\* In m, __list_del was called for the i-th and the j-th node; what is between them may
\* be anything.
Bridges(l, m, s, h, i, j) ==
    /\ h \in RingHead /\ i \in 0 .. Len(s[h]) /\ j \in i + 1 .. Len(s[h]) + 1
    /\ \A y \in Place \ Part(s[h], i, j) :
          /\ m.next[y] = IF y = At(s[h], h, i) THEN At(s[h], h, j) ELSE l.next[y]
          /\ m.prev[y] = IF y = At(s[h], h, j) THEN At(s[h], h, i) ELSE l.prev[y]

LEMMA PartNodes ==
    ASSUME NEW l, NEW s, HoldAll(l, s), NEW h \in RingHead, NEW i \in 0 .. Len(s[h]),
           NEW j \in i + 1 .. Len(s[h]) + 1
    PROVE  /\ Part(s[h], i, j) \subseteq ToSet(s[h]) /\ Part(s[h], i, j) \subseteq Entries(s)
           /\ {At(s[h], h, i), At(s[h], h, j)} \subseteq (Entries(s) \cup RingHead) \ Part(s[h], i, j)
           /\ Entries(s) \subseteq Node /\ Entries(s) \cup RingHead \subseteq Place
  <1>1. /\ s[h] \in Seq(Node) /\ Len(s[h]) \in Nat
        /\ At(s[h], h, 0) = h /\ At(s[h], h, Len(s[h]) + 1) = h
        /\ \A k \in 1 .. Len(s[h]) : At(s[h], h, k) = s[h][k] /\ s[h][k] \in ToSet(s[h])
        /\ \A k \in 0 .. Len(s[h]) + 1 : At(s[h], h, k) \in ToSet(s[h]) \cup {h}
        /\ ToSet(s[h]) \subseteq Node /\ h \notin Node /\ ToSet(s[h]) \subseteq Entries(s)
        /\ Differ(s[h], h)
    BY RingNodes
  <1>2. \A c \in i + 1 .. j - 1 : c \in 1 .. Len(s[h]) /\ c # i /\ c # j
    BY <1>1
  <1>3. Part(s[h], i, j) \subseteq ToSet(s[h])
    BY <1>1, <1>2 DEF Part
  <1>4. \A c \in i + 1 .. j - 1 : s[h][c] # At(s[h], h, i) /\ s[h][c] # At(s[h], h, j)
    <2>1. i \in 0 .. Len(s[h]) /\ j \in 1 .. Len(s[h]) + 1
      BY <1>1
    <2>2. \A c \in i + 1 .. j - 1 : c \in 0 .. Len(s[h]) /\ c \in 1 .. Len(s[h]) + 1
      BY <1>1
    <2>3. \A a, b \in 0 .. Len(s[h]) : At(s[h], h, a) = At(s[h], h, b) => a = b
      BY <1>1 DEF Differ
    <2>4. \A a, b \in 1 .. Len(s[h]) + 1 : At(s[h], h, a) = At(s[h], h, b) => a = b
      BY <1>1 DEF Differ
    <2>5. \A c \in i + 1 .. j - 1 : At(s[h], h, c) = s[h][c]
      BY <1>1, <1>2
    <2> QED BY <1>2, <2>1, <2>2, <2>3, <2>4, <2>5
  <1>5. {At(s[h], h, i), At(s[h], h, j)} \subseteq ToSet(s[h]) \cup {h}
    <2>1. i \in 0 .. Len(s[h]) + 1 /\ j \in 0 .. Len(s[h]) + 1
      BY <1>1
    <2> QED BY <1>1, <2>1
  <1>6. Entries(s) \subseteq Node
    BY RingNodes DEF Entries
  <1>7. At(s[h], h, i) \notin Part(s[h], i, j) /\ At(s[h], h, j) \notin Part(s[h], i, j)
    BY <1>4 DEF Part
  <1> QED BY <1>1, <1>3, <1>5, <1>6, <1>7 DEF Place

LEMMA Bridging ==
    ASSUME NEW l, NEW s, HoldAll(l, s), NEW h, NEW i, NEW j, NEW m \in Memory,
           Bridges(l, m, s, h, i, j)
    PROVE  /\ HoldAll(m, Dropped(s, h, i, j))
           /\ Entries(Dropped(s, h, i, j)) = Entries(s) \ Part(s[h], i, j)
           /\ Apart(l, m, Entries(s))
  <1>1. h \in RingHead /\ i \in 0 .. Len(s[h]) /\ j \in i + 1 .. Len(s[h]) + 1
    BY DEF Bridges
  <1>2. /\ Part(s[h], i, j) \subseteq Entries(s)
        /\ {At(s[h], h, i), At(s[h], h, j)} \subseteq (Entries(s) \cup RingHead) \ Part(s[h], i, j)
        /\ Entries(s) \cup RingHead \subseteq Place
    BY <1>1, PartNodes
  <1>3. Drops(l, m, s, h, i, j)
    BY <1>1, <1>2 DEF Drops, Bridges, Neighbours
  <1>4. HoldAll(m, Dropped(s, h, i, j))
    BY <1>3, Dropping
  <1>5. Entries(Dropped(s, h, i, j)) = Entries(s) \ Part(s[h], i, j)
    BY <1>3, Dropping
  <1>6. Apart(l, m, Entries(s))
    <2>1. \A x \in Node \ Entries(s) : /\ x \in Place \ Part(s[h], i, j)
                                       /\ x # At(s[h], h, i) /\ x # At(s[h], h, j)
      BY <1>2, Addresses DEF Place
    <2> QED BY <2>1 DEF Apart, Bridges
  <1> QED BY <1>4, <1>5, <1>6

\* The calls of __list_del, whatever becomes of the entries in between.
LEMMA Cut ==
    ASSUME NEW l, NEW s, HoldAll(l, s), NEW h \in RingHead, NEW i \in 0 .. Len(s[h]),
           NEW j \in i + 1 .. Len(s[h]) + 1, NEW m,
           \A y \in Place \ Part(s[h], i, j) :
              /\ m.next[y] = list_del_between(l, At(s[h], h, i), At(s[h], h, j)).next[y]
              /\ m.prev[y] = list_del_between(l, At(s[h], h, i), At(s[h], h, j)).prev[y]
    PROVE  Bridges(l, m, s, h, i, j)
  <1>1. l.next \in [Place -> Place \cup Poison] /\ l.prev \in [Place -> Place \cup Poison]
    BY DEF HoldAll, Memory
  <1>2. {At(s[h], h, i), At(s[h], h, j)} \subseteq Place
    BY PartNodes
  <1> QED BY <1>1, <1>2 DEF Bridges, list_del_between

\* __list_del_entry, whatever becomes of the entry.
LEMMA Removed ==
    ASSUME NEW l, NEW s, HoldAll(l, s), NEW x \in Entries(s), NEW m \in Memory,
           SameBut(list_del_entry(l, x), m, Place, x)
    PROVE  /\ HoldAll(m, Without(s, x)) /\ Entries(Without(s, x)) = Entries(s) \ {x}
           /\ Apart(l, m, Entries(s))
  <1>1. PICK h, k : Found(l, s, x, h, k)
    BY FindEntry
  <1>2. /\ h \in RingHead /\ k \in 1 .. Len(s[h]) /\ s[h][k] = x
        /\ l.prev[x] = At(s[h], h, k - 1) /\ l.next[x] = At(s[h], h, k + 1)
        /\ \A r \in Seq(Node) : InsteadOf(s, x, r) = [s EXCEPT ![h] = Spliced(s[h], k - 1, r, k + 1)]
    BY <1>1 DEF Found
  <1>3. Len(s[h]) \in Nat
    BY <1>2, RingNodes
  <1>4. k - 1 \in 0 .. Len(s[h]) /\ k + 1 \in (k - 1) + 1 .. Len(s[h]) + 1
        /\ (k - 1) + 1 .. (k + 1) - 1 = {k}
    BY <1>2, <1>3
  <1>5. Part(s[h], k - 1, k + 1) = {x}
    BY <1>2, <1>4 DEF Part
  <1>6. Bridges(l, m, s, h, k - 1, k + 1)
    BY <1>2, <1>4, <1>5, Cut DEF SameBut, list_del_entry
  <1>7. Without(s, x) = Dropped(s, h, k - 1, k + 1)
    <2>1. <<>> \in Seq(Node)
      OBVIOUS
    <2> QED BY <1>2, <2>1 DEF Without, Dropped
  <1>8. HoldAll(m, Dropped(s, h, k - 1, k + 1))
    BY <1>6, Bridging
  <1>9. Entries(Dropped(s, h, k - 1, k + 1)) = Entries(s) \ Part(s[h], k - 1, k + 1)
    BY <1>6, Bridging
  <1>10. Apart(l, m, Entries(s))
    BY <1>6, Bridging
  <1> QED BY <1>5, <1>7, <1>8, <1>9, <1>10

\* The entry's neighbours, and the memory after it is taken out.
LEMMA TakenType ==
    ASSUME NEW l, NEW s, HoldAll(l, s), NEW x \in Entries(s)
    PROVE  /\ list_del_entry(l, x) \in Memory /\ k_list_del(l, x) \in Memory
           /\ k_list_del_init(l, x) \in Memory
           /\ l.prev[x] \in Place /\ l.next[x] \in Place /\ x \in Place /\ x \in Node
           /\ l.prev[x] # x /\ l.next[x] # x
  <1>1. PICK h, k : Found(l, s, x, h, k)
    BY FindEntry
  <1>2. /\ h \in RingHead /\ k \in 1 .. Len(s[h]) /\ s[h][k] = x
        /\ l.prev[x] = At(s[h], h, k - 1) /\ l.next[x] = At(s[h], h, k + 1)
    BY <1>1 DEF Found
  <1>3. Len(s[h]) \in Nat
    BY <1>2, RingNodes
  <1>4. k - 1 \in 0 .. Len(s[h]) /\ k + 1 \in (k - 1) + 1 .. Len(s[h]) + 1
        /\ (k - 1) + 1 .. (k + 1) - 1 = {k}
    BY <1>2, <1>3
  <1>5. Part(s[h], k - 1, k + 1) = {x}
    BY <1>2, <1>4 DEF Part
  <1>6. /\ {At(s[h], h, k - 1), At(s[h], h, k + 1)} \subseteq (Entries(s) \cup RingHead) \ {x}
        /\ Entries(s) \subseteq Node /\ Entries(s) \cup RingHead \subseteq Place
    BY <1>2, <1>4, <1>5, PartNodes
  <1>7. l.prev[x] \in Place /\ l.next[x] \in Place /\ x \in Place /\ x \in Node
    BY <1>2, <1>6
  <1>8. l.next \in [Place -> Place \cup Poison] /\ l.prev \in [Place -> Place \cup Poison]
    BY DEF HoldAll, Memory
  <1>9. list_del_between(l, l.prev[x], l.next[x]) \in Memory
    BY <1>7, <1>8 DEF list_del_between, Memory
  <1>10. LIST_POISON1 \in Poison /\ LIST_POISON2 \in Poison
    BY DEF Poison
  <1> DEFINE k0 == list_del_between(l, l.prev[x], l.next[x])
  <1>11. k0.next \in [Place -> Place \cup Poison] /\ k0.prev \in [Place -> Place \cup Poison]
    BY <1>9 DEF Memory
  <1> HIDE DEF k0
  <1>12. [next |-> [k0.next EXCEPT ![x] = LIST_POISON1],
          prev |-> [k0.prev EXCEPT ![x] = LIST_POISON2]] \in Memory
    BY <1>7, <1>10, <1>11 DEF Memory
  <1>13. [next |-> [k0.next EXCEPT ![x] = x], prev |-> [k0.prev EXCEPT ![x] = x]] \in Memory
    BY <1>7, <1>11 DEF Memory
  <1> QED
    BY <1>2, <1>6, <1>7, <1>9, <1>12, <1>13
       DEF list_del_entry, k_list_del, k_list_del_init, K_INIT_LIST_HEAD, k0

LEMMA EntryDeleted ==
    ASSUME NEW l, NEW s, HoldAll(l, s), NEW x \in Entries(s)
    PROVE  /\ HoldAll(k_list_del(l, x), Without(s, x))
           /\ HoldAll(k_list_del_init(l, x), Without(s, x))
           /\ Apart(l, k_list_del(l, x), Entries(s))
           /\ Apart(l, k_list_del_init(l, x), Entries(s))
  <1>1. list_del_entry(l, x) \in Memory /\ k_list_del(l, x) \in Memory /\ k_list_del_init(l, x) \in Memory
    BY TakenType
  <1> DEFINE k == list_del_entry(l, x)
  <1>2. k.next \in [Place -> Place \cup Poison] /\ k.prev \in [Place -> Place \cup Poison]
    BY <1>1 DEF Memory
  <1>3. /\ k_list_del(l, x).next = [k.next EXCEPT ![x] = LIST_POISON1]
        /\ k_list_del(l, x).prev = [k.prev EXCEPT ![x] = LIST_POISON2]
        /\ k_list_del_init(l, x).next = [k.next EXCEPT ![x] = x]
        /\ k_list_del_init(l, x).prev = [k.prev EXCEPT ![x] = x]
    BY DEF k_list_del, k_list_del_init, K_INIT_LIST_HEAD, list_del_entry
  <1> HIDE DEF k
  <1>4. SameBut(k, k_list_del(l, x), Place, x) /\ SameBut(k, k_list_del_init(l, x), Place, x)
    BY <1>2, <1>3 DEF SameBut
  <1>5. HoldAll(k_list_del(l, x), Without(s, x)) /\ Apart(l, k_list_del(l, x), Entries(s))
    BY <1>1, <1>4, Removed DEF k
  <1>6. HoldAll(k_list_del_init(l, x), Without(s, x)) /\ Apart(l, k_list_del_init(l, x), Entries(s))
    BY <1>1, <1>4, Removed DEF k
  <1> QED BY <1>5, <1>6

LEMMA Moved ==
    ASSUME NEW l, NEW s, HoldAll(l, s), NEW e \in Entries(s),
           NEW x \in (Entries(s) \cup RingHead) \ {e}
    PROVE  /\ HoldAll(k_list_move(l, e, x), Behind(Without(s, e), x, <<e>>))
           /\ HoldAll(k_list_move_tail(l, e, x), Before(Without(s, e), x, <<e>>))
           /\ Apart(l, k_list_move(l, e, x), Entries(s))
           /\ Apart(l, k_list_move_tail(l, e, x), Entries(s))
  <1> DEFINE m == list_del_entry(l, e)
             t == Without(s, e)
  <1>1. m \in Memory /\ e \in Node
    BY TakenType
  <1>2. SameBut(m, m, Place, e)
    BY DEF SameBut
  <1>3. HoldAll(m, t)
    BY <1>1, <1>2, Removed
  <1>4. Entries(t) = Entries(s) \ {e}
    BY <1>1, <1>2, Removed
  <1>5. Apart(l, m, Entries(s))
    BY <1>1, <1>2, Removed
  <1>6. k_list_move(l, e, x) = k_list_add(m, e, x) /\ k_list_move_tail(l, e, x) = k_list_add_tail(m, e, x)
    BY DEF k_list_move, k_list_move_tail
  <1> HIDE DEF m, t
  <1>7. e \in Node \ Entries(t) /\ x \in Entries(t) \cup RingHead /\ Entries(t) \cup {e} = Entries(s)
    BY <1>1, <1>4
  <1>8. HoldAll(k_list_add(m, e, x), Behind(t, x, <<e>>))
    BY <1>3, <1>7, Added
  <1>9. HoldAll(k_list_add_tail(m, e, x), Before(t, x, <<e>>))
    BY <1>3, <1>7, Added
  <1>10. Apart(m, k_list_add(m, e, x), Entries(t) \cup {e})
    BY <1>3, <1>7, Added
  <1>11. Apart(m, k_list_add_tail(m, e, x), Entries(t) \cup {e})
    BY <1>3, <1>7, Added
  <1>12. Apart(l, k_list_add(m, e, x), Entries(s)) /\ Apart(l, k_list_add_tail(m, e, x), Entries(s))
    BY <1>5, <1>7, <1>10, <1>11 DEF Apart
  <1> QED BY <1>6, <1>8, <1>9, <1>12 DEF t

\* Nothing put into a sequence, and the rest of one behind its first entries.
LEMMA SpliceNone ==
    ASSUME NEW s \in Seq(Node), NEW i \in 0 .. Len(s), NEW q \in Seq(Node), Len(q) < 1,
           NEW j \in i + 1 .. Len(s) + 1, j < i + 2
    PROVE  Spliced(s, i, q, j) = s
  <1> DEFINE t == Spliced(s, i, q, j)
  <1>0. /\ Len(s) \in Nat /\ DOMAIN s = 1 .. Len(s) /\ i \in Nat /\ i <= Len(s)
        /\ j \in Nat /\ i < j /\ j < i + 2 /\ Len(q) \in Nat /\ Len(q) < 1
    OBVIOUS
  <1>2. DOMAIN t = 1 .. i + Len(q) + Len(s) + 1 - j
    BY SplicedIs
  <1>3. \A k \in 1 .. i + Len(q) + Len(s) + 1 - j : t[k] =
           IF k <= i THEN s[k] ELSE IF k <= i + Len(q) THEN q[k - i] ELSE s[k - i - Len(q) + j - 1]
    BY SplicedIs
  <1>4. t \in Seq(Node)
    BY SplicedIs
  <1>5. i + Len(q) + Len(s) + 1 - j = Len(s)
    BY <1>0
  <1> HIDE DEF t
  <1>6. \A k \in 1 .. Len(s) : t[k] = s[k]
    <2>1. \A k \in 1 .. Len(s) : ~(k <= i) => ~(k <= i + Len(q)) /\ k - i - Len(q) + j - 1 = k
      BY <1>0
    <2> QED BY <1>3, <1>5, <2>1
  <1>7. t = [k \in DOMAIN t |-> t[k]] /\ s = [k \in DOMAIN s |-> s[k]]
    BY <1>4
  <1>8. DOMAIN t = DOMAIN s
    BY <1>0, <1>2, <1>5
  <1> QED BY <1>0, <1>6, <1>7, <1>8 DEF t

LEMMA SpliceNothing ==
    ASSUME NEW s \in Seq(Node), NEW i \in 0 .. Len(s)
    PROVE  Spliced(s, i, <<>>, i + 1) = s
  <1> DEFINE q == <<>>
             j == i + 1
  <1>1. j \in i + 1 .. Len(s) + 1 /\ j < i + 2
    OBVIOUS
  <1>2. q \in Seq(Node) /\ Len(q) < 1
    OBVIOUS
  <1> HIDE DEF q, j
  <1>3. Spliced(s, i, q, j) = s
    BY <1>1, <1>2, SpliceNone
  <1> QED BY <1>3 DEF q, j

LEMMA SpliceFirst ==
    ASSUME NEW s \in Seq(Node), NEW n \in 0 .. Len(s)
    PROVE  Spliced(s, 0, <<>>, n + 1) = SubSeq(s, n + 1, Len(s))
  <1>0. Len(s) \in Nat /\ n \in Nat
    OBVIOUS
  <1> DEFINE v == SubSeq(s, n + 1, Len(s))
  <1>1. v \in Seq(Node)
    BY <1>0
  <1> HIDE DEF v
  <1>2. <<>> \o v = v
    BY <1>1
  <1>3. SubSeq(s, 1, 0) = <<>> /\ <<>> \o <<>> = <<>>
    BY <1>0
  <1> QED BY <1>2, <1>3 DEF Spliced, v

LEMMA RangeRemoved ==
    ASSUME NEW l, NEW s, HoldAll(l, s), NEW h \in RingHead,
           NEW i \in DOMAIN s[h], NEW j \in DOMAIN s[h], i <= j
    PROVE  /\ HoldAll(list_del_range(l, s[h][i], s[h][j]),
                      [s EXCEPT ![h] = SubSeq(@, 1, i - 1) \o SubSeq(@, j + 1, Len(@))])
           /\ Apart(l, list_del_range(l, s[h][i], s[h][j]), Entries(s))
  <1> DEFINE q == s[h]
             A == At(q, h, i - 1)
             B == At(q, h, j + 1)
             m == list_del_between(l, A, B)
  <1>1. q \in Seq(Node) /\ Len(q) \in Nat /\ DOMAIN q = 1 .. Len(q)
        /\ \A k \in 1 .. Len(q) : At(q, h, k) = q[k]
    BY RingNodes
  <1>2. /\ i - 1 \in 0 .. Len(q) /\ i \in 0 .. Len(q) /\ j \in 0 .. Len(q) /\ (i - 1) + 1 = i
        /\ j + 1 \in (i - 1) + 1 .. Len(q) + 1 /\ i \in 1 .. Len(q) /\ j \in 1 .. Len(q)
    BY <1>1
  <1>3. \A k \in 0 .. Len(q) : /\ l.next[At(q, h, k)] = At(q, h, k + 1)
                               /\ l.prev[At(q, h, k + 1)] = At(q, h, k)
    BY DEF HoldAll, Holds
  <1>4. l.prev[q[i]] = A /\ l.next[q[j]] = B
    BY <1>1, <1>2, <1>3
  <1>5. list_del_range(l, s[h][i], s[h][j]) = m
    BY <1>4 DEF list_del_range
  <1>6. {A, B} \subseteq Place
    BY <1>2, PartNodes
  <1>7. l.next \in [Place -> Place \cup Poison] /\ l.prev \in [Place -> Place \cup Poison]
    BY DEF HoldAll, Memory
  <1>8. m \in Memory
    BY <1>6, <1>7 DEF Memory, list_del_between
  <1>9. Bridges(l, m, s, h, i - 1, j + 1)
    BY <1>2, Cut
  <1>10. HoldAll(m, Dropped(s, h, i - 1, j + 1))
    BY <1>8, <1>9, Bridging
  <1>11. Apart(l, m, Entries(s))
    BY <1>8, <1>9, Bridging
  <1>12. Spliced(q, i - 1, <<>>, j + 1) = SubSeq(q, 1, i - 1) \o SubSeq(q, j + 1, Len(q))
    <2> DEFINE u == SubSeq(q, 1, i - 1)
    <2>1. u \in Seq(Node)
      BY <1>1, <1>2
    <2> HIDE DEF u
    <2>2. u \o <<>> = u
      BY <2>1
    <2> QED BY <2>2 DEF Spliced, u
  <1> QED BY <1>5, <1>10, <1>11, <1>12 DEF Dropped

\* INIT_LIST_HEAD: the head is empty.
LEMMA Emptied ==
    ASSUME NEW l, NEW s, HoldAll(l, s), NEW h \in RingHead
    PROVE  /\ HoldAll(K_INIT_LIST_HEAD(l, h), [s EXCEPT ![h] = <<>>])
           /\ Entries([s EXCEPT ![h] = <<>>]) = Entries(s) \ ToSet(s[h])
           /\ Apart(l, K_INIT_LIST_HEAD(l, h), Entries(s))
  <1> DEFINE q == s[h]
             n == Len(q) + 1
             m == K_INIT_LIST_HEAD(l, h)
  <1>1. q \in Seq(Node) /\ Len(q) \in Nat /\ DOMAIN q = 1 .. Len(q)
        /\ At(q, h, 0) = h /\ At(q, h, n) = h
    BY RingNodes
  <1>2. 0 \in 0 .. Len(q) /\ n \in 0 + 1 .. Len(q) + 1 /\ 0 + 1 .. n - 1 = DOMAIN q
    BY <1>1
  <1>3. m = list_del_between(l, At(q, h, 0), At(q, h, n))
    BY <1>1 DEF list_del_between, K_INIT_LIST_HEAD
  <1>4. l.next \in [Place -> Place \cup Poison] /\ l.prev \in [Place -> Place \cup Poison] /\ h \in Place
    BY DEF HoldAll, Memory, Place
  <1>5. m \in Memory
    BY <1>4 DEF Memory, K_INIT_LIST_HEAD
  <1> HIDE DEF m, n
  <1>6. Bridges(l, m, s, h, 0, n)
    BY <1>2, <1>3, Cut
  <1>7. HoldAll(m, Dropped(s, h, 0, n))
    BY <1>5, <1>6, Bridging
  <1>8. Entries(Dropped(s, h, 0, n)) = Entries(s) \ Part(s[h], 0, n)
    BY <1>5, <1>6, Bridging
  <1>9. Apart(l, m, Entries(s))
    BY <1>5, <1>6, Bridging
  <1>10. Dropped(s, h, 0, n) = [s EXCEPT ![h] = <<>>]
    <2> DEFINE e == <<>>
    <2>1. e \in Seq(Node) /\ q \in Seq(Node)
      BY <1>1
    <2> HIDE DEF q, e
    <2>2. Spliced(q, 0, e, Len(q) + 1) = e
      BY <2>1, SpliceEnds
    <2> QED BY <2>2 DEF Dropped, n, q, e
  <1>11. Part(s[h], 0, n) = ToSet(s[h])
    BY <1>2 DEF Part, ToSet
  <1> QED BY <1>7, <1>8, <1>9, <1>10, <1>11 DEF m

\* k_list_replace of an entry, whatever becomes of it.
LEMMA Replaced ==
    ASSUME NEW l, NEW s, HoldAll(l, s), NEW old \in Entries(s), NEW e \in Node \ Entries(s),
           NEW m \in Memory, SameBut(k_list_replace(l, old, e), m, Place, old)
    PROVE  HoldAll(m, InsteadOf(s, old, <<e>>)) /\ Apart(l, m, Entries(s) \cup {e})
  <1>1. PICK h, k : Found(l, s, old, h, k)
    BY FindEntry
  <1> DEFINE A == At(s[h], h, k - 1)
             B == At(s[h], h, k + 1)
             q == <<e>>
             i == k - 1
             j == k + 1
  <1>2. /\ h \in RingHead /\ k \in 1 .. Len(s[h]) /\ s[h][k] = old
        /\ l.prev[old] = A /\ l.next[old] = B
        /\ \A r \in Seq(Node) : InsteadOf(s, old, r) = [s EXCEPT ![h] = Spliced(s[h], k - 1, r, k + 1)]
    BY <1>1 DEF Found
  <1>3. Len(s[h]) \in Nat
    BY <1>2, RingNodes
  <1>4. i \in 0 .. Len(s[h]) /\ j \in i + 1 .. Len(s[h]) + 1 /\ i + 1 .. j - 1 = {k}
    BY <1>2, <1>3
  <1>5. Part(s[h], i, j) = {old}
    BY <1>2, <1>4 DEF Part
  <1>6. /\ {A, B} \subseteq (Entries(s) \cup RingHead) \ {old}
        /\ Entries(s) \subseteq Node /\ Entries(s) \cup RingHead \subseteq Place
    BY <1>2, <1>4, <1>5, PartNodes
  <1>7. e \in Place /\ e \notin Entries(s) \cup RingHead /\ e # A /\ e # B /\ e # old
    BY <1>6, Addresses DEF Place
  <1>8. l.next \in [Place -> Place \cup Poison] /\ l.prev \in [Place -> Place \cup Poison]
    BY DEF HoldAll, Memory
  <1>9. q \in Seq(Node) /\ q # <<>> /\ Len(q) = 1 /\ DOMAIN q = {1} /\ q[1] = e
    OBVIOUS
  <1> HIDE DEF q, A, B
  <1>10. IsInjective(q) /\ ToSet(q) = {e} /\ Linked(m, q)
    BY <1>9 DEF IsInjective, ToSet, Linked
  <1> DEFINE r == k_list_replace(l, old, e)
             p == [l.prev EXCEPT ![B] = e]
  <1>11. p[old] = A /\ p \in [Place -> Place \cup Poison]
    BY <1>2, <1>6, <1>7, <1>8
  <1>12. r.next = [l.next EXCEPT ![e] = B, ![p[old]] = e] /\ r.prev = [p EXCEPT ![e] = p[old]]
    BY <1>2 DEF k_list_replace
  <1>13. r.next = [l.next EXCEPT ![e] = B, ![A] = e] /\ r.prev = [l.prev EXCEPT ![B] = e, ![e] = A]
    BY <1>11, <1>12
  <1> HIDE DEF r, p
  <1>14. \A y \in Place \ {old} : m.next[y] = r.next[y] /\ m.prev[y] = r.prev[y]
    BY DEF SameBut, r
  <1>15. Neighbours(m, A, e) /\ Neighbours(m, e, B)
    BY <1>6, <1>7, <1>8, <1>13, <1>14 DEF Neighbours
  <1>16. \A y \in (Entries(s) \cup RingHead) \ (ToSet(q) \cup Part(s[h], i, j)) :
          /\ y # A => m.next[y] = l.next[y]
          /\ y # B => m.prev[y] = l.prev[y]
    BY <1>5, <1>6, <1>7, <1>8, <1>10, <1>13, <1>14
  <1>17. Relinks(l, m, s, h, i, q, j)
    BY <1>7, <1>9, <1>10, <1>15, <1>16 DEF Relinks, A, B
  <1>18. HoldAll(m, [s EXCEPT ![h] = Spliced(s[h], i, q, j)])
    <2> HIDE DEF i, j
    <2> QED BY <1>2, <1>4, <1>9, <1>17, Relinked
  <1>19. Apart(l, m, Entries(s) \cup {e})
    <2>1. \A y \in Node \ (Entries(s) \cup {e}) : y \in Place \ {old} /\ y # A /\ y # B /\ y # e
      BY <1>6, Addresses DEF Place
    <2> QED BY <1>8, <1>13, <1>14, <2>1, <1>6, <1>7 DEF Apart
  <1> QED BY <1>2, <1>9, <1>18, <1>19 DEF q

LEMMA ReplacedBoth ==
    ASSUME NEW l, NEW s, HoldAll(l, s), NEW old \in Entries(s), NEW e \in Node \ Entries(s)
    PROVE  /\ HoldAll(k_list_replace(l, old, e), InsteadOf(s, old, <<e>>))
           /\ HoldAll(k_list_replace_init(l, old, e), InsteadOf(s, old, <<e>>))
           /\ Apart(l, k_list_replace(l, old, e), Entries(s) \cup {e})
           /\ Apart(l, k_list_replace_init(l, old, e), Entries(s) \cup {e})
  <1> DEFINE p == [l.prev EXCEPT ![l.next[old]] = e]
             r == k_list_replace(l, old, e)
             m == k_list_replace_init(l, old, e)
  <1>1. l.next \in [Place -> Place \cup Poison] /\ l.prev \in [Place -> Place \cup Poison]
    BY DEF HoldAll, Memory
  <1>2. l.next[old] \in Place /\ old \in Place /\ e \in Place
    BY TakenType DEF Place
  <1>3. p \in [Place -> Place \cup Poison]
    BY <1>1, <1>2
  <1>4. r.next = [l.next EXCEPT ![e] = l.next[old], ![p[old]] = e] /\ r.prev = [p EXCEPT ![e] = p[old]]
    BY DEF k_list_replace
  <1>5. r.next \in [Place -> Place \cup Poison] /\ r.prev \in [Place -> Place \cup Poison]
    <2>1. p[old] \in Place \cup Poison
      BY <1>2, <1>3
    <2> HIDE DEF p, r
    <2>2. r.next \in [Place -> Place \cup Poison]
      <3>1. [l.next EXCEPT ![e] = l.next[old]] \in [Place -> Place \cup Poison]
        BY <1>1, <1>2
      <3>2. r.next = [[l.next EXCEPT ![e] = l.next[old]] EXCEPT ![p[old]] = e]
        BY <1>4
      <3> QED BY <1>2, <3>1, <3>2
    <2>3. r.prev \in [Place -> Place \cup Poison]
      BY <1>3, <1>4, <2>1
    <2> QED BY <2>2, <2>3
  <1>6. r \in Memory
    BY <1>5 DEF Memory, k_list_replace
  <1>7. m.next = [r.next EXCEPT ![old] = old] /\ m.prev = [r.prev EXCEPT ![old] = old]
    BY DEF k_list_replace_init, K_INIT_LIST_HEAD
  <1>8. m \in Memory
    <2> HIDE DEF r
    <2> QED BY <1>2, <1>5 DEF Memory, k_list_replace_init, K_INIT_LIST_HEAD, r
  <1> HIDE DEF r, m
  <1>9. SameBut(r, r, Place, old) /\ SameBut(r, m, Place, old)
    BY <1>5, <1>7 DEF SameBut
  <1>10. HoldAll(r, InsteadOf(s, old, <<e>>)) /\ Apart(l, r, Entries(s) \cup {e})
    BY <1>6, <1>9, Replaced DEF r
  <1>11. HoldAll(m, InsteadOf(s, old, <<e>>)) /\ Apart(l, m, Entries(s) \cup {e})
    BY <1>8, <1>9, Replaced DEF r
  <1> QED BY <1>10, <1>11 DEF r, m

\* The entries of list went between a and b, and list is empty.
Carries(l, m, list, a, b) ==
    \A y \in Place :
       /\ m.next[y] = IF y = list THEN list ELSE IF y = l.prev[list] THEN b
                      ELSE IF y = a THEN l.next[list] ELSE l.next[y]
       /\ m.prev[y] = IF y = list THEN list ELSE IF y = b THEN l.prev[list]
                      ELSE IF y = l.next[list] THEN a ELSE l.prev[y]

\* The ends of a list that is not empty.
LEMMA RingEnds ==
    ASSUME NEW l, NEW s, HoldAll(l, s), NEW h \in RingHead
    PROVE  /\ s[h] = <<>> => l.next[h] = h /\ l.prev[h] = h
           /\ s[h] # <<>> => /\ Len(s[h]) \in 1 .. Len(s[h]) /\ 1 \in 1 .. Len(s[h])
                             /\ l.next[h] = s[h][1] /\ l.prev[h] = s[h][Len(s[h])]
                             /\ l.next[h] \in ToSet(s[h]) /\ l.prev[h] \in ToSet(s[h])
                             /\ l.next[h] # h
  <1> DEFINE q == s[h]
  <1>1. /\ q \in Seq(Node) /\ Len(q) \in Nat /\ At(q, h, 0) = h /\ At(q, h, Len(q) + 1) = h
        /\ \A k \in 1 .. Len(q) : At(q, h, k) = q[k] /\ q[k] \in ToSet(q)
        /\ ToSet(q) \subseteq Node /\ h \notin Node
    BY RingNodes
  <1>2. \A k \in 0 .. Len(q) : /\ l.next[At(q, h, k)] = At(q, h, k + 1)
                               /\ l.prev[At(q, h, k + 1)] = At(q, h, k)
    BY DEF HoldAll, Holds
  <1> HIDE DEF q
  <1>3. 0 \in 0 .. Len(q) /\ Len(q) \in 0 .. Len(q) /\ 0 + 1 = 1
    BY <1>1
  <1>4. l.next[h] = At(q, h, 1) /\ l.prev[h] = At(q, h, Len(q))
    BY <1>1, <1>2, <1>3
  <1>5. CASE q = <<>>
    <2>1. Len(q) = 0
      BY <1>5
    <2> QED BY <1>1, <1>4, <1>5, <2>1 DEF q
  <1>6. CASE q # <<>>
    <2>1. Len(q) \in 1 .. Len(q) /\ 1 \in 1 .. Len(q)
      BY <1>1, <1>6, EmptySeq
    <2> QED BY <1>1, <1>4, <1>6, <2>1 DEF q
  <1> QED BY <1>5, <1>6

LEMMA Carried ==
    ASSUME NEW l, NEW s, HoldAll(l, s), NEW list \in RingHead, s[list] # <<>>,
           NEW h, NEW c, NEW a, NEW b, a # list \/ b # list,
           Gap(K_INIT_LIST_HEAD(l, list), [s EXCEPT ![list] = <<>>], h, c, a, b),
           NEW m \in Memory, Carries(l, m, list, a, b)
    PROVE  /\ HoldAll(m, Filled([s EXCEPT ![list] = <<>>], h, c, s[list]))
           /\ Apart(l, m, Entries(s))
  <1> DEFINE k == K_INIT_LIST_HEAD(l, list)
             t == [s EXCEPT ![list] = <<>>]
             q == s[list]
             first == l.next[list]
             last == l.prev[list]
  <1>1. HoldAll(k, t)
    BY Emptied
  <1>2. Entries(t) = Entries(s) \ ToSet(q)
    BY Emptied
  <1>3. s \in [RingHead -> Seq(Node)] /\ l.next \in [Place -> Place \cup Poison]
        /\ l.prev \in [Place -> Place \cup Poison] /\ list \in Place
    BY DEF HoldAll, Memory, Place
  <1>4. k.next = [l.next EXCEPT ![list] = list] /\ k.prev = [l.prev EXCEPT ![list] = list]
    BY DEF K_INIT_LIST_HEAD
  <1>5. t[list] = <<>>
    BY <1>3
  <1>6. /\ q \in Seq(Node) /\ Len(q) \in Nat /\ DOMAIN q = 1 .. Len(q) /\ ToSet(q) \subseteq Node
        /\ \A i \in 1 .. Len(q) : At(q, list, i) = q[i] /\ q[i] \in ToSet(q)
        /\ ToSet(q) \subseteq Entries(s) /\ list \notin Node /\ Differ(q, list) /\ IsInjective(q)
    BY RingNodes
  <1>7. /\ Len(q) \in 1 .. Len(q) /\ 1 \in 1 .. Len(q) /\ first = q[1] /\ last = q[Len(q)]
        /\ first \in ToSet(q) /\ last \in ToSet(q)
    BY RingEnds
  <1>8. {a, b} \subseteq Entries(t) \cup RingHead /\ {a, b} \subseteq Place /\ Entries(t) \subseteq Node
    BY <1>1, GapNodes
  <1>9. a # list /\ b # list
    <2>1. h \in RingHead /\ c \in 0 .. Len(t[h]) /\ a = At(t[h], h, c) /\ b = At(t[h], h, c + 1)
      BY DEF Gap
    <2>2. h # list
      <3>1. At(<<>>, list, c) = list /\ At(<<>>, list, c + 1) = list
        BY DEF At
      <3> QED BY <1>5, <2>1, <3>1
    <2>3. c \in 0 .. Len(t[h]) + 1 /\ c + 1 \in 0 .. Len(t[h]) + 1 /\ ToSet(t[h]) \subseteq Node
      BY <1>1, <2>1, RingNodes
    <2>4. a \in ToSet(t[h]) \cup {h} /\ b \in ToSet(t[h]) \cup {h}
      BY <1>1, <2>1, <2>3, RingNodes
    <2> QED BY <1>6, <2>2, <2>3, <2>4
  <1>10. \A i \in 0 .. Len(q) : /\ l.next[At(q, list, i)] = At(q, list, i + 1)
                                /\ l.prev[At(q, list, i + 1)] = At(q, list, i)
    BY DEF HoldAll, Holds
  <1> HIDE DEF q, first, last, t, k
  <1>11. a \notin ToSet(q) /\ b \notin ToSet(q)
    BY <1>2, <1>6, <1>8, Addresses
  <1>12. \A y \in Place :
            /\ m.next[y] = IF y = list THEN list ELSE IF y = last THEN b
                           ELSE IF y = a THEN first ELSE l.next[y]
            /\ m.prev[y] = IF y = list THEN list ELSE IF y = b THEN last
                           ELSE IF y = first THEN a ELSE l.prev[y]
    BY DEF Carries, first, last
  <1>13. Linked(m, q)
    <2> SUFFICES ASSUME NEW i \in 1 .. Len(q) - 1 PROVE Neighbours(m, q[i], q[i + 1])
      BY DEF Linked
    <2>1. i \in 1 .. Len(q) /\ i + 1 \in 1 .. Len(q) /\ i \in 0 .. Len(q) /\ i # Len(q) /\ i + 1 # 1
      BY <1>6
    <2>2. q[i] # last /\ q[i + 1] # first
      BY <1>6, <1>7, <2>1 DEF IsInjective
    <2>3. l.next[q[i]] = q[i + 1] /\ l.prev[q[i + 1]] = q[i]
      BY <1>6, <1>10, <2>1
    <2>4. q[i] \in ToSet(q) /\ q[i + 1] \in ToSet(q)
      BY <1>6, <2>1
    <2>5. q[i] \in Place \ {list, a} /\ q[i + 1] \in Place \ {list, b}
      BY <1>6, <1>11, <2>4 DEF Place
    <2> QED BY <1>12, <2>2, <2>3, <2>5 DEF Neighbours
  <1>14. Neighbours(m, a, first) /\ Neighbours(m, last, b)
    <2>1. first \in Place \ {list, b} /\ last \in Place \ {list, a} /\ a # last
      BY <1>6, <1>7, <1>11 DEF Place
    <2> QED BY <1>8, <1>9, <1>12, <2>1 DEF Neighbours
  <1>15. \A y \in Entries(t) \cup RingHead : /\ y # a => m.next[y] = k.next[y]
                                             /\ y # b => m.prev[y] = k.prev[y]
    <2> SUFFICES ASSUME NEW y \in Entries(t) \cup RingHead
                 PROVE  /\ y # a => m.next[y] = k.next[y]
                        /\ y # b => m.prev[y] = k.prev[y]
      OBVIOUS
    <2>1. y \in Place /\ y # last /\ y # first
      BY <1>2, <1>6, <1>7, <1>8, Addresses DEF Place
    <2> QED BY <1>3, <1>4, <1>12, <2>1
  <1>16. Fills(k, m, t, a, b, q)
    <2>1. q # <<>>
      BY DEF q
    <2>2. ToSet(q) \cap Entries(t) = {}
      BY <1>2
    <2> QED BY <1>6, <1>7, <1>13, <1>14, <1>15, <2>1, <2>2 DEF Fills
  <1>17. Gap(k, t, h, c, a, b)
    BY DEF k, t
  <1>18. HoldAll(m, Filled(t, h, c, q))
    BY <1>1, <1>16, <1>17, Filling
  <1>19. Apart(l, m, Entries(s))
    <2>1. \A y \in Node \ Entries(s) : y \in Place \ {list, a, b, first, last}
      BY <1>2, <1>6, <1>7, <1>8, Addresses DEF Place
    <2> QED BY <1>12, <2>1 DEF Apart
  <1> QED BY <1>18, <1>19 DEF t, q

\* __list_splice and the initialisation of the list, which a caller may do.
LEMMA SpliceStores ==
    ASSUME NEW l \in Memory, NEW list \in Place, NEW a \in Place, NEW b \in Place,
           l.next[list] \in Place, l.prev[list] \in Place
    PROVE  /\ K_INIT_LIST_HEAD(list_splice_between(l, list, a, b), list) \in Memory
           /\ Carries(l, K_INIT_LIST_HEAD(list_splice_between(l, list, a, b), list), list, a, b)
  <1> DEFINE k == list_splice_between(l, list, a, b)
             m == K_INIT_LIST_HEAD(k, list)
  <1>1. l.next \in [Place -> Place \cup Poison] /\ l.prev \in [Place -> Place \cup Poison]
    BY DEF Memory
  <1>2. /\ k.next = [l.next EXCEPT ![a] = l.next[list], ![l.prev[list]] = b]
        /\ k.prev = [l.prev EXCEPT ![l.next[list]] = a, ![b] = l.prev[list]]
    BY DEF list_splice_between
  <1>3. k.next \in [Place -> Place \cup Poison] /\ k.prev \in [Place -> Place \cup Poison]
    <2> HIDE DEF k
    <2> QED BY <1>1, <1>2
  <1>4. m.next = [k.next EXCEPT ![list] = list] /\ m.prev = [k.prev EXCEPT ![list] = list]
    BY DEF K_INIT_LIST_HEAD
  <1>5. m \in Memory
    <2> HIDE DEF k
    <2> QED BY <1>3 DEF K_INIT_LIST_HEAD, Memory
  <1>6. Carries(l, m, list, a, b)
    <2> HIDE DEF k, m
    <2> QED BY <1>1, <1>2, <1>3, <1>4 DEF Carries
  <1> QED BY <1>5, <1>6

LEMMA NothingBehind ==
    ASSUME NEW l, NEW s, HoldAll(l, s), NEW x \in Entries(s) \cup RingHead
    PROVE  Behind(s, x, <<>>) = s /\ Before(s, x, <<>>) = s
  <1>1. PICK g, i : /\ Gap(l, s, g, i, x, l.next[x])
                    /\ \A r \in Seq(Node) : Behind(s, x, r) = Filled(s, g, i, r)
    BY FindBehind
  <1>2. PICK h, j : /\ Gap(l, s, h, j, l.prev[x], x)
                    /\ \A r \in Seq(Node) : Before(s, x, r) = Filled(s, h, j, r)
    BY FindBefore
  <1>3. <<>> \in Seq(Node) /\ s \in [RingHead -> Seq(Node)]
    BY DEF HoldAll
  <1>4. /\ g \in RingHead /\ i \in 0 .. Len(s[g]) /\ h \in RingHead /\ j \in 0 .. Len(s[h])
        /\ s[g] \in Seq(Node) /\ s[h] \in Seq(Node)
    BY <1>1, <1>2, <1>3 DEF Gap
  <1>5. Spliced(s[g], i, <<>>, i + 1) = s[g] /\ Spliced(s[h], j, <<>>, j + 1) = s[h]
    BY <1>4, SpliceNothing
  <1>6. Filled(s, g, i, <<>>) = s /\ Filled(s, h, j, <<>>) = s
    BY <1>3, <1>4, <1>5 DEF Filled
  <1> QED BY <1>1, <1>2, <1>3, <1>6

\* A call makes m of l, which holds t; but for the nodes in E, those in no ring stay.
Edited(l, m, t, E) == HoldAll(m, t) /\ Apart(l, m, E)

LEMMA Joining ==
    ASSUME NEW l, NEW s, HoldAll(l, s), NEW list \in RingHead,
           NEW x \in (Entries(s) \cup RingHead) \ (ToSet(s[list]) \cup {list})
    PROVE  /\ Edited(l, K_INIT_LIST_HEAD(k_list_splice(l, list, x), list),
                     Behind([s EXCEPT ![list] = <<>>], x, s[list]), Entries(s))
           /\ Edited(l, k_list_splice_init(l, list, x),
                     Behind([s EXCEPT ![list] = <<>>], x, s[list]), Entries(s))
           /\ Edited(l, K_INIT_LIST_HEAD(k_list_splice_tail(l, list, x), list),
                     Before([s EXCEPT ![list] = <<>>], x, s[list]), Entries(s))
           /\ Edited(l, k_list_splice_tail_init(l, list, x),
                     Before([s EXCEPT ![list] = <<>>], x, s[list]), Entries(s))
  <1> DEFINE rest == [s EXCEPT ![list] = <<>>]
             k == K_INIT_LIST_HEAD(l, list)
             behind == K_INIT_LIST_HEAD(list_splice_between(l, list, x, l.next[x]), list)
             before == K_INIT_LIST_HEAD(list_splice_between(l, list, l.prev[x], x), list)
  <1>1. HoldAll(k, rest)
    BY Emptied
  <1>2. Entries(rest) = Entries(s) \ ToSet(s[list])
    BY Emptied
  <1>3. Apart(l, k, Entries(s))
    BY Emptied
  <1>4. s \in [RingHead -> Seq(Node)] /\ l \in Memory /\ l.next \in [Place -> Place \cup Poison]
        /\ l.prev \in [Place -> Place \cup Poison] /\ list \in Place
    BY DEF HoldAll, Memory, Place
  <1>5. x \in Entries(rest) \cup RingHead /\ x # list
    BY <1>2
  <1>6. k.next[x] = l.next[x] /\ k.prev[x] = l.prev[x]
    <2>1. k.next = [l.next EXCEPT ![list] = list] /\ k.prev = [l.prev EXCEPT ![list] = list]
      BY DEF K_INIT_LIST_HEAD
    <2>2. x \in Place
      <3>1. Entries(s) \subseteq Node
        BY RingNodes DEF Entries
      <3> QED BY <3>1 DEF Place
    <2> HIDE DEF k
    <2> QED BY <1>4, <1>5, <2>1, <2>2
  <1> HIDE DEF rest, k
  <1>7. PICK g, i : /\ Gap(k, rest, g, i, x, l.next[x])
                    /\ \A r \in Seq(Node) : Behind(rest, x, r) = Filled(rest, g, i, r)
    BY <1>1, <1>5, <1>6, FindBehind
  <1>8. PICK h, j : /\ Gap(k, rest, h, j, l.prev[x], x)
                    /\ \A r \in Seq(Node) : Before(rest, x, r) = Filled(rest, h, j, r)
    BY <1>1, <1>5, <1>6, FindBefore
  <1>9. s[list] \in Seq(Node)
    BY <1>4
  <1>10. CASE s[list] = <<>>
    <2>1. rest = s
      BY <1>4, <1>10 DEF rest
    <2>2. Behind(s, x, <<>>) = s /\ Before(s, x, <<>>) = s
      BY NothingBehind
    <2>3. k_list_empty(l, list)
      BY <1>10, RingEnds DEF k_list_empty
    <2>4. /\ k_list_splice(l, list, x) = l /\ k_list_splice_tail(l, list, x) = l
          /\ k_list_splice_init(l, list, x) = l /\ k_list_splice_tail_init(l, list, x) = l
      BY <2>3 DEF k_list_splice, k_list_splice_tail, k_list_splice_init, k_list_splice_tail_init
    <2>5. Edited(l, k, s, Entries(s)) /\ Edited(l, l, s, Entries(s))
      BY <1>1, <1>3, <2>1 DEF Edited, Apart
    <2> QED BY <1>10, <2>1, <2>2, <2>4, <2>5 DEF rest, k
  <1>11. CASE s[list] # <<>>
    <2>1. l.next[x] \in Place /\ x \in Place
      BY <1>1, <1>7, GapNodes
    <2>2. l.prev[x] \in Place
      BY <1>1, <1>8, GapNodes
    <2>3. l.next[list] \in Place /\ l.prev[list] \in Place
      <3>1. l.next[list] \in ToSet(s[list]) /\ l.prev[list] \in ToSet(s[list]) /\ ToSet(s[list]) \subseteq Node
        BY <1>11, RingEnds, RingNodes
      <3> QED BY <3>1 DEF Place
    <2>4. behind \in Memory /\ Carries(l, behind, list, x, l.next[x])
      BY <1>4, <2>1, <2>3, SpliceStores
    <2>5. before \in Memory /\ Carries(l, before, list, l.prev[x], x)
      BY <1>4, <2>1, <2>2, <2>3, SpliceStores
    <2> HIDE DEF behind, before
    <2>6. HoldAll(behind, Filled(rest, g, i, s[list])) /\ Apart(l, behind, Entries(s))
      BY <1>5, <1>7, <1>11, <2>4, Carried DEF rest, k
    <2>7. HoldAll(before, Filled(rest, h, j, s[list])) /\ Apart(l, before, Entries(s))
      BY <1>5, <1>8, <1>11, <2>5, Carried DEF rest, k
    <2>8. ~k_list_empty(l, list)
      BY <1>11, RingEnds DEF k_list_empty
    <2>9. /\ K_INIT_LIST_HEAD(k_list_splice(l, list, x), list) = behind
          /\ k_list_splice_init(l, list, x) = behind
          /\ K_INIT_LIST_HEAD(k_list_splice_tail(l, list, x), list) = before
          /\ k_list_splice_tail_init(l, list, x) = before
      BY <2>8 DEF k_list_splice, k_list_splice_tail, k_list_splice_init, k_list_splice_tail_init,
                  behind, before
    <2>10. Filled(rest, g, i, s[list]) = Behind(rest, x, s[list])
           /\ Filled(rest, h, j, s[list]) = Before(rest, x, s[list])
      BY <1>7, <1>8, <1>9
    <2>11. /\ Edited(l, behind, Behind(rest, x, s[list]), Entries(s))
           /\ Edited(l, before, Before(rest, x, s[list]), Entries(s))
      BY <2>6, <2>7, <2>10 DEF Edited
    <2> QED BY <2>9, <2>11 DEF rest
  <1> QED BY <1>10, <1>11

\* k_list_replace_init of a head by the head of an empty list.
LEMMA HeadReplaced ==
    ASSUME NEW l, NEW s, HoldAll(l, s), NEW old \in RingHead, NEW new \in RingHead,
           old # new, s[new] = <<>>
    PROVE  Edited(l, k_list_replace_init(l, old, new),
                  [s EXCEPT ![new] = s[old], ![old] = <<>>], Entries(s))
  <1> DEFINE rest == [s EXCEPT ![old] = <<>>]
             k == K_INIT_LIST_HEAD(l, old)
             p == [l.prev EXCEPT ![l.next[old]] = new]
             r == k_list_replace(l, old, new)
             m == k_list_replace_init(l, old, new)
  <1>1. s \in [RingHead -> Seq(Node)] /\ l.next \in [Place -> Place \cup Poison]
        /\ l.prev \in [Place -> Place \cup Poison] /\ old \in Place /\ new \in Place /\ l \in Memory
        /\ l = [next |-> l.next, prev |-> l.prev]
    BY DEF HoldAll, Memory, Place
  <1>2. l.next[new] = new /\ l.prev[new] = new
    BY RingEnds
  <1>3. r.next = [l.next EXCEPT ![new] = l.next[old], ![p[old]] = new] /\ r.prev = [p EXCEPT ![new] = p[old]]
    BY DEF k_list_replace
  <1>4. /\ m = [next |-> m.next, prev |-> m.prev]
        /\ m.next = [r.next EXCEPT ![old] = old] /\ m.prev = [r.prev EXCEPT ![old] = old]
    BY DEF k_list_replace_init, K_INIT_LIST_HEAD
  <1> HIDE DEF r, m
  <1>5. CASE s[old] = <<>>
    <2>1. l.next[old] = old /\ l.prev[old] = old
      BY <1>5, RingEnds
    <2>2. p = [l.prev EXCEPT ![old] = new] /\ p[old] = new
      BY <1>1, <2>1
    <2> HIDE DEF p
    <2>3. m.next = l.next
      BY <1>1, <1>2, <1>3, <1>4, <2>1, <2>2
    <2>4. m.prev = l.prev
      BY <1>1, <1>2, <1>3, <1>4, <2>1, <2>2
    <2>5. m = l
      BY <1>1, <1>4, <2>3, <2>4
    <2>6. [s EXCEPT ![new] = s[old], ![old] = <<>>] = s
      BY <1>1, <1>5
    <2> QED BY <2>5, <2>6 DEF m, Edited, Apart
  <1>6. CASE s[old] # <<>>
    <2> DEFINE first == l.next[old]
               last == l.prev[old]
    <2>1. first \in ToSet(s[old]) /\ last \in ToSet(s[old]) /\ ToSet(s[old]) \subseteq Node
      BY <1>6, RingEnds, RingNodes
    <2>2. first \in Place /\ last \in Place /\ first \notin RingHead /\ last \notin RingHead
      BY <2>1, Addresses DEF Place
    <2>3. p[old] = last /\ p \in [Place -> Place \cup Poison]
      BY <1>1, <2>2
    <2>4. /\ r.next = [l.next EXCEPT ![new] = first, ![last] = new]
          /\ r.prev = [l.prev EXCEPT ![first] = new, ![new] = last]
      BY <1>3, <2>3
    <2>5. r.next \in [Place -> Place \cup Poison] /\ r.prev \in [Place -> Place \cup Poison]
      <3> HIDE DEF first, last
      <3>1. [l.next EXCEPT ![new] = first] \in [Place -> Place \cup Poison]
            /\ [l.prev EXCEPT ![first] = new] \in [Place -> Place \cup Poison]
        BY <1>1, <2>2
      <3>2. r.next = [[l.next EXCEPT ![new] = first] EXCEPT ![last] = new]
            /\ r.prev = [[l.prev EXCEPT ![first] = new] EXCEPT ![new] = last]
        BY <2>4
      <3>3. last \in Place /\ new \in Place
        BY <1>1, <2>2
      <3>4. r.next \in [Place -> Place \cup Poison]
        BY <3>1, <3>2, <3>3
      <3>5. r.prev \in [Place -> Place \cup Poison]
        BY <3>1, <3>2, <3>3
      <3> QED BY <3>4, <3>5
    <2>6. m.next \in [Place -> Place \cup Poison] /\ m.prev \in [Place -> Place \cup Poison]
      BY <1>1, <1>4, <2>5
    <2>7. m \in Memory
      BY <1>4, <2>6 DEF Memory
    <2>8. Carries(l, m, old, new, new)
      BY <1>1, <1>4, <2>2, <2>4, <2>5 DEF Carries
    <2>9. HoldAll(k, rest)
      BY Emptied
    <2>10. k.next[new] = new
      <3>1. k.next = [l.next EXCEPT ![old] = old]
        BY DEF K_INIT_LIST_HEAD
      <3> HIDE DEF k
      <3> QED BY <1>1, <1>2, <3>1
    <2>11. rest[new] = <<>> /\ DOMAIN rest = RingHead
      BY <1>1
    <2> HIDE DEF k, rest
    <2>12. PICK g, i : /\ Gap(k, rest, g, i, new, new)
                       /\ \A q \in Seq(Node) : Behind(rest, new, q) = Filled(rest, g, i, q)
      BY <2>9, <2>10, FindBehind
    <2>13. HoldAll(m, Filled(rest, g, i, s[old])) /\ Apart(l, m, Entries(s))
      BY <1>6, <2>7, <2>8, <2>12, Carried DEF k, rest
    <2>14. Filled(rest, g, i, s[old]) = [s EXCEPT ![new] = s[old], ![old] = <<>>]
      <3>1. s[old] \in Seq(Node)
        BY <1>1
      <3>2. Behind(rest, new, s[old]) = [rest EXCEPT ![new] = s[old] \o <<>>]
        BY <2>11 DEF Behind
      <3>3. s[old] \o <<>> = s[old]
        BY <3>1
      <3>4. [rest EXCEPT ![new] = s[old]] = [s EXCEPT ![new] = s[old], ![old] = <<>>]
        BY <1>1 DEF rest
      <3> QED BY <2>12, <3>1, <3>2, <3>3, <3>4
    <2> QED BY <2>13, <2>14 DEF m, Edited
  <1> QED BY <1>5, <1>6

\* The first entry goes to the end.
LEMMA Rotated ==
    ASSUME NEW l, NEW s, HoldAll(l, s), NEW h \in RingHead
    PROVE  Edited(l, k_list_rotate_left(l, h),
                  [s EXCEPT ![h] = IF @ = <<>> THEN @ ELSE Tail(@) \o <<Head(@)>>], Entries(s))
  <1> DEFINE t == [s EXCEPT ![h] = IF @ = <<>> THEN @ ELSE Tail(@) \o <<Head(@)>>]
             q == s[h]
  <1>1. s \in [RingHead -> Seq(Node)] /\ q \in Seq(Node)
    BY DEF HoldAll
  <1>2. CASE q = <<>>
    <2>1. t = s
      BY <1>1, <1>2
    <2>2. k_list_rotate_left(l, h) = l
      BY <1>2, RingEnds DEF k_list_rotate_left, k_list_empty
    <2> QED BY <2>1, <2>2 DEF Edited, Apart
  <1>3. CASE q # <<>>
    <2> DEFINE x == l.next[h]
    <2>1. x = q[1] /\ x \in ToSet(q) /\ x # h /\ 1 \in 1 .. Len(q)
      BY <1>3, RingEnds
    <2>2. x \in Entries(s) /\ h \in (Entries(s) \cup RingHead) \ {x}
      BY <2>1, RingNodes
    <2>3. k_list_rotate_left(l, h) = k_list_move_tail(l, x, h)
      BY <2>1 DEF k_list_rotate_left, k_list_empty
    <2>4. HoldAll(k_list_move_tail(l, x, h), Before(Without(s, x), h, <<x>>))
      BY <2>2, Moved
    <2>5. Apart(l, k_list_move_tail(l, x, h), Entries(s))
      BY <2>2, Moved
    <2>6. Without(s, x) = [s EXCEPT ![h] = Tail(q)]
      <3>1. PICK g, k : Found(l, s, x, g, k)
        BY <2>2, FindEntry
      <3>2. g = h
        <4>1. g \in RingHead /\ x \in ToSet(s[g])
          BY <3>1 DEF Found
        <4>2. g # h => ToSet(s[g]) \cap ToSet(s[h]) = {}
          BY <4>1 DEF HoldAll
        <4> QED BY <2>1, <4>1, <4>2
      <3>3. k = 1
        <4>1. k \in DOMAIN q /\ 1 \in DOMAIN q /\ q[k] = q[1]
          BY <1>1, <2>1, <3>1, <3>2 DEF Found
        <4>2. IsInjective(q)
          BY RingNodes
        <4> QED BY <4>1, <4>2 DEF IsInjective
      <3>4. <<>> \in Seq(Node)
        OBVIOUS
      <3>5. Without(s, x) = [s EXCEPT ![h] = Spliced(q, 1 - 1, <<>>, 1 + 1)]
        BY <3>1, <3>2, <3>3, <3>4 DEF Found, Without
      <3>6. 1 - 1 = 0 /\ 1 \in 0 .. Len(q)
        BY <1>1, <2>1
      <3>7. Spliced(q, 0, <<>>, 1 + 1) = SubSeq(q, 1 + 1, Len(q))
        BY <1>1, <3>6, SpliceFirst
      <3>8. SubSeq(q, 1 + 1, Len(q)) = Tail(q)
        BY <1>1, <1>3
      <3> QED BY <3>5, <3>6, <3>7, <3>8
    <2>7. Before(Without(s, x), h, <<x>>) = t
      <3>1. q[1] = Head(q)
        BY <1>1, <1>3
      <3> QED BY <1>1, <1>3, <2>1, <2>6, <3>1 DEF Before
    <2> QED BY <2>3, <2>4, <2>5, <2>7 DEF Edited
  <1> QED BY <1>2, <1>3

\* The first entries of a sequence, and the rest.
LEMMA Parts ==
    ASSUME NEW q \in Seq(Node), IsInjective(q), NEW n \in 1 .. Len(q)
    PROVE  /\ SubSeq(q, 1, n) \in Seq(Node) /\ Len(SubSeq(q, 1, n)) = n
           /\ DOMAIN SubSeq(q, 1, n) = 1 .. n /\ \A k \in 1 .. n : SubSeq(q, 1, n)[k] = q[k]
           /\ IsInjective(SubSeq(q, 1, n)) /\ ToSet(SubSeq(q, 1, n)) = Part(q, 0, n + 1)
  <1> DEFINE r == SubSeq(q, 1, n)
  <1>1. Len(q) \in Nat /\ DOMAIN q = 1 .. Len(q) /\ n \in Nat /\ n <= Len(q)
    OBVIOUS
  <1>2. r \in Seq(Node)
    BY <1>1
  <1>3. Len(r) = n
    BY <1>1
  <1>4. \A k \in 1 .. n : r[k] = q[k]
    BY <1>1
  <1> HIDE DEF r
  <1>5. DOMAIN r = 1 .. n
    BY <1>2, <1>3
  <1>6. IsInjective(r)
    BY <1>1, <1>4, <1>5 DEF IsInjective
  <1>7. 0 + 1 .. (n + 1) - 1 = 1 .. n
    BY <1>1
  <1>8. ToSet(r) = Part(q, 0, n + 1)
    BY <1>4, <1>5, <1>7 DEF ToSet, Part
  <1> QED BY <1>2, <1>3, <1>4, <1>5, <1>6, <1>8 DEF r

\* __list_cut_position up to the n-th entry.
LEMMA CutStores ==
    ASSUME NEW l, NEW s, HoldAll(l, s), NEW list \in RingHead, NEW h \in RingHead, list # h,
           NEW n \in 1 .. Len(s[h])
    PROVE  Edited(l, list_cut(l, list, h, s[h][n]),
                  [s EXCEPT ![list] = SubSeq(s[h], 1, n), ![h] = SubSeq(s[h], n + 1, Len(s[h]))],
                  Entries(s))
  <1> DEFINE q == s[h]
             entry == q[n]
             B == At(q, h, n + 1)
             r == SubSeq(q, 1, n)
             k == K_INIT_LIST_HEAD(l, list)
             t == [s EXCEPT ![list] = <<>>]
             k2 == list_del_between(k, h, B)
             t2 == Dropped(t, h, 0, n + 1)
             m == list_cut(l, list, h, entry)
  <1>1. s \in [RingHead -> Seq(Node)] /\ l.next \in [Place -> Place \cup Poison]
        /\ l.prev \in [Place -> Place \cup Poison] /\ list \in Place /\ h \in Place
    BY DEF HoldAll, Memory, Place
  <1>2. /\ q \in Seq(Node) /\ Len(q) \in Nat /\ DOMAIN q = 1 .. Len(q) /\ At(q, h, 0) = h
        /\ \A i \in 1 .. Len(q) : At(q, h, i) = q[i] /\ q[i] \in ToSet(q) /\ q[i] \in Node
        /\ ToSet(q) \subseteq Entries(s) /\ IsInjective(q)
    BY RingNodes
  <1>3. HoldAll(k, t)
    BY Emptied
  <1>4. Entries(t) = Entries(s) \ ToSet(s[list])
    BY Emptied
  <1>5. Apart(l, k, Entries(s))
    BY Emptied
  <1>6. t[h] = q /\ t[list] = <<>> /\ t \in [RingHead -> Seq(Node)]
    BY <1>1
  <1>7. k.next = [l.next EXCEPT ![list] = list] /\ k.prev = [l.prev EXCEPT ![list] = list]
    BY DEF K_INIT_LIST_HEAD
  <1>8. /\ r \in Seq(Node) /\ Len(r) = n /\ DOMAIN r = 1 .. n /\ \A i \in 1 .. n : r[i] = q[i]
        /\ IsInjective(r) /\ ToSet(r) = Part(q, 0, n + 1)
    BY <1>2, Parts
  <1>9. 0 \in 0 .. Len(q) /\ n + 1 \in 0 + 1 .. Len(q) + 1 /\ n \in 1 .. n /\ 1 \in 1 .. n
        /\ n \in 0 .. Len(q) /\ 1 \in 1 .. Len(q) /\ n \in Nat /\ n \in 1 .. Len(q)
    BY <1>2
  <1>10. \A i \in 0 .. Len(q) : /\ l.next[At(q, h, i)] = At(q, h, i + 1)
                                /\ l.prev[At(q, h, i + 1)] = At(q, h, i)
    BY DEF HoldAll, Holds
  <1>11. l.next[h] = q[1] /\ l.next[entry] = B
    <2>1. 0 + 1 = 1
      OBVIOUS
    <2> QED BY <1>2, <1>9, <1>10, <2>1
  <1>12. /\ m.next = [l.next EXCEPT ![list] = q[1], ![entry] = list, ![h] = B]
         /\ m.prev = [l.prev EXCEPT ![q[1]] = list, ![list] = entry, ![B] = h]
    BY <1>11 DEF list_cut
  <1> HIDE DEF k, t
  <1>13. Part(q, 0, n + 1) \subseteq ToSet(q)
         /\ {h, B} \subseteq (Entries(t) \cup RingHead) \ Part(q, 0, n + 1)
         /\ Entries(t) \subseteq Node /\ Entries(t) \cup RingHead \subseteq Place
    <2>1. Part(t[h], 0, n + 1) \subseteq ToSet(t[h])
      BY <1>3, <1>6, <1>9, PartNodes
    <2>2. {At(t[h], h, 0), At(t[h], h, n + 1)} \subseteq (Entries(t) \cup RingHead) \ Part(t[h], 0, n + 1)
      BY <1>3, <1>6, <1>9, PartNodes
    <2>3. Entries(t) \subseteq Node /\ Entries(t) \cup RingHead \subseteq Place
      BY <1>3, <1>6, <1>9, PartNodes
    <2> QED BY <1>2, <1>6, <2>1, <2>2, <2>3
  <1>14. B # list
    <2>1. n + 1 \in 0 .. Len(q) + 1
      BY <1>2, <1>9
    <2>2. B \in ToSet(q) \cup {h} /\ ToSet(q) \subseteq Node /\ list \notin Node
      BY <2>1, RingNodes
    <2> QED BY <2>2
  <1>15. k2.next = [k.next EXCEPT ![h] = B] /\ k2.prev = [k.prev EXCEPT ![B] = h]
    BY DEF list_del_between
  <1>16. k.next \in [Place -> Place \cup Poison] /\ k.prev \in [Place -> Place \cup Poison]
         /\ B \in Place
    BY <1>1, <1>7, <1>13
  <1>17. k2 \in Memory
    <2> HIDE DEF k, B
    <2> QED BY <1>1, <1>16 DEF Memory, list_del_between
  <1>18. Bridges(k, k2, t, h, 0, n + 1)
    <2>1. k2 = list_del_between(k, At(t[h], h, 0), At(t[h], h, n + 1))
      BY <1>2, <1>6
    <2> HIDE DEF k2
    <2> QED BY <1>3, <1>6, <1>9, <2>1, Cut
  <1> HIDE DEF k2, t2, B, m, r
  <1>19. HoldAll(k2, t2)
    BY <1>3, <1>17, <1>18, Bridging DEF t2
  <1>20. Entries(t2) = Entries(t) \ ToSet(r)
    <2>1. Entries(t2) = Entries(t) \ Part(t[h], 0, n + 1)
      BY <1>3, <1>17, <1>18, Bridging DEF t2
    <2> QED BY <1>6, <1>8, <2>1
  <1>21. t2[list] = <<>> /\ DOMAIN t2 = RingHead
    BY <1>6 DEF t2, Dropped
  <1>22. /\ k2.next[list] = list
    BY <1>1, <1>7, <1>15, <1>16
  <1>23. PICK g, i : /\ Gap(k2, t2, g, i, list, list)
                     /\ \A x \in Seq(Node) : Behind(t2, list, x) = Filled(t2, g, i, x)
    BY <1>19, <1>22, FindBehind
  <1>24. entry = r[Len(r)] /\ q[1] = r[1] /\ entry \in ToSet(r) /\ q[1] \in ToSet(r)
    BY <1>8, <1>9 DEF ToSet
  <1>25. entry \in Place /\ q[1] \in Place /\ entry \notin {list, h, B} /\ q[1] \notin {list, h, B}
    <2>1. entry \in Node /\ q[1] \in Node
      BY <1>2, <1>9
    <2>2. entry \in Part(q, 0, n + 1) /\ q[1] \in Part(q, 0, n + 1)
      BY <1>8, <1>24
    <2>3. entry \notin {h, B} /\ q[1] \notin {h, B}
      BY <1>13, <2>2
    <2>4. list \notin Node
      BY Addresses
    <2>5. entry \in Place /\ q[1] \in Place
      BY <2>1 DEF Place
    <2> QED BY <2>1, <2>3, <2>4, <2>5
  <1>26. m.next \in [Place -> Place \cup Poison] /\ m.prev \in [Place -> Place \cup Poison]
    <2> HIDE DEF entry, q
    <2>1. B \in Place
      BY <1>16
    <2>4. l.next \in [Place -> Place \cup Poison] /\ l.prev \in [Place -> Place \cup Poison]
          /\ list \in Place /\ h \in Place /\ entry \in Place /\ q[1] \in Place
      BY <1>1, <1>25
    <2>2. m.next \in [Place -> Place \cup Poison]
      <3> DEFINE f1 == [l.next EXCEPT ![list] = q[1]]
                 f2 == [f1 EXCEPT ![entry] = list]
      <3>1. f1 \in [Place -> Place \cup Poison]
        BY <2>4
      <3> HIDE DEF f1
      <3>2. f2 \in [Place -> Place \cup Poison]
        BY <2>4, <3>1
      <3>3. m.next = [f2 EXCEPT ![h] = B]
        BY <1>12 DEF f1
      <3> HIDE DEF f2
      <3> QED BY <2>1, <3>2, <3>3
    <2>3. m.prev \in [Place -> Place \cup Poison]
      <3> DEFINE f1 == [l.prev EXCEPT ![q[1]] = list]
                 f2 == [f1 EXCEPT ![list] = entry]
      <3>1. f1 \in [Place -> Place \cup Poison]
        BY <2>4
      <3> HIDE DEF f1
      <3>2. f2 \in [Place -> Place \cup Poison]
        BY <2>4, <3>1
      <3>3. m.prev = [f2 EXCEPT ![B] = h]
        BY <1>12 DEF f1
      <3> HIDE DEF f2
      <3> QED BY <2>4, <3>2, <3>3
    <2> QED BY <2>2, <2>3
  <1>27. m \in Memory
    BY <1>26 DEF Memory, m, list_cut
  <1>28. Linked(m, r)
    <2> SUFFICES ASSUME NEW c \in 1 .. n - 1 PROVE Neighbours(m, r[c], r[c + 1])
      BY <1>8 DEF Linked
    <2>1. c \in 1 .. n /\ c + 1 \in 1 .. n /\ c # n /\ c + 1 # 1 /\ c \in 0 .. Len(q)
          /\ c \in 1 .. Len(q) /\ c + 1 \in 1 .. Len(q)
      BY <1>2, <1>9
    <2>2. r[c] = q[c] /\ r[c + 1] = q[c + 1] /\ q[c] \in ToSet(r) /\ q[c + 1] \in ToSet(r)
      BY <1>8, <2>1 DEF ToSet
    <2>3. q[c] # entry /\ q[c + 1] # q[1]
      BY <1>2, <1>9, <2>1 DEF IsInjective
    <2>4. l.next[q[c]] = q[c + 1] /\ l.prev[q[c + 1]] = q[c]
      BY <1>2, <1>10, <2>1
    <2>5. q[c] \in Place \ {list, h} /\ q[c + 1] \in Place \ {list, B}
      BY <1>2, <1>8, <1>13, <2>1, <2>2, Addresses DEF Place
    <2>6. m.next[q[c]] = l.next[q[c]] /\ m.prev[q[c + 1]] = l.prev[q[c + 1]]
      BY <1>1, <1>12, <2>3, <2>5
    <2> QED BY <2>2, <2>4, <2>6 DEF Neighbours
  <1>29. Neighbours(m, list, r[1]) /\ Neighbours(m, r[Len(r)], list)
    <2>1. m.next[list] = q[1] /\ m.prev[q[1]] = list
      BY <1>1, <1>12, <1>25, <1>14
    <2>2. m.next[entry] = list /\ m.prev[list] = entry
      BY <1>1, <1>12, <1>25, <1>14
    <2> QED BY <1>24, <2>1, <2>2 DEF Neighbours
  <1>30. \A y \in Entries(t2) \cup RingHead : /\ y # list => m.next[y] = k2.next[y]
                                              /\ y # list => m.prev[y] = k2.prev[y]
    <2> SUFFICES ASSUME NEW y \in Entries(t2) \cup RingHead, y # list
                 PROVE  m.next[y] = k2.next[y] /\ m.prev[y] = k2.prev[y]
      OBVIOUS
    <2>1. y \in Place /\ y # entry /\ y # q[1]
      BY <1>13, <1>20, <1>24, <1>2, <1>9, Addresses DEF Place
    <2>2. m.next[y] = IF y = h THEN B ELSE l.next[y]
      BY <1>1, <1>12, <2>1
    <2>3. m.prev[y] = IF y = B THEN h ELSE l.prev[y]
      BY <1>1, <1>12, <2>1
    <2>4. k2.next[y] = IF y = h THEN B ELSE l.next[y]
      BY <1>1, <1>7, <1>15, <1>16, <2>1
    <2>5. k2.prev[y] = IF y = B THEN h ELSE l.prev[y]
      BY <1>1, <1>7, <1>15, <1>16, <2>1
    <2> QED BY <2>2, <2>3, <2>4, <2>5
  <1>31. Fills(k2, m, t2, list, list, r)
    <2>1. r # <<>>
      BY <1>8, <1>9
    <2>2. ToSet(r) \cap Entries(t2) = {}
      BY <1>20
    <2> QED BY <1>8, <1>28, <1>29, <1>30, <2>1, <2>2 DEF Fills
  <1>32. HoldAll(m, Filled(t2, g, i, r))
    BY <1>19, <1>23, <1>27, <1>31, Filling
  <1>33. Filled(t2, g, i, r)
           = [s EXCEPT ![list] = SubSeq(s[h], 1, n), ![h] = SubSeq(s[h], n + 1, Len(s[h]))]
    <2>1. Filled(t2, g, i, r) = Behind(t2, list, r)
      BY <1>8, <1>23
    <2>2. r \o <<>> = r
      BY <1>8
    <2>3. Behind(t2, list, r) = [t2 EXCEPT ![list] = r]
      BY <1>21, <2>2 DEF Behind
    <2>4. n \in 0 .. Len(q)
      BY <1>9
    <2>5. Spliced(q, 0, <<>>, n + 1) = SubSeq(q, n + 1, Len(q))
      BY <1>2, <2>4, SpliceFirst
    <2>6. t2 = [t EXCEPT ![h] = SubSeq(q, n + 1, Len(q))]
      BY <1>6, <2>5 DEF t2, Dropped
    <2> QED BY <1>1, <2>1, <2>3, <2>6 DEF t, r
  <1>34. Apart(l, m, Entries(s))
    <2>1. \A y \in Node \ Entries(s) : y \in Place /\ y \notin {list, h, B, entry, q[1]}
      BY <1>2, <1>4, <1>9, <1>13, Addresses DEF Place
    <2> QED BY <1>1, <1>12, <2>1 DEF Apart
  <1> QED BY <1>32, <1>33, <1>34 DEF Edited, m

LEMMA CutOff ==
    ASSUME NEW l, NEW s, HoldAll(l, s), NEW list \in RingHead, NEW h \in RingHead, list # h,
           NEW entry \in ToSet(s[h]) \cup {h}, NEW t,
           t = IF s[h] = <<>> THEN s
               ELSE LET n == IF entry = h THEN 0 ELSE PlaceOf(s[h], entry)
                    IN  [s EXCEPT ![list] = SubSeq(s[h], 1, n),
                                  ![h] = SubSeq(s[h], n + 1, Len(s[h]))]
    PROVE  Edited(l, k_list_cut_position(l, list, h, entry), t, Entries(s))
  <1> DEFINE q == s[h]
  <1>1. /\ q \in Seq(Node) /\ Len(q) \in Nat /\ DOMAIN q = 1 .. Len(q) /\ IsInjective(q)
        /\ ToSet(q) \subseteq Node /\ h \notin Node /\ s \in [RingHead -> Seq(Node)]
    BY RingNodes DEF HoldAll
  <1>2. CASE q = <<>>
    <2>1. k_list_cut_position(l, list, h, entry) = l
      BY <1>2, RingEnds DEF k_list_cut_position, k_list_empty
    <2> QED BY <1>2, <2>1 DEF Edited, Apart
  <1>3. CASE q # <<>>
    <2>1. ~k_list_empty(l, h)
      BY <1>3, RingEnds DEF k_list_empty
    <2>2. /\ Len(q) \in 1 .. Len(q) /\ 1 \in 1 .. Len(q)
          /\ l.next[h] = q[1] /\ l.prev[h] = q[Len(q)]
      BY <1>3, RingEnds
    <2>3. ~(k_list_is_singular(l, h) /\ entry \notin {l.next[h], h})
      <3> SUFFICES ASSUME k_list_is_singular(l, h), entry # h PROVE entry = q[1]
        BY <2>2
      <3>1. q[1] = q[Len(q)]
        BY <2>2 DEF k_list_is_singular
      <3>2. 1 = Len(q)
        BY <1>1, <2>2, <3>1 DEF IsInjective
      <3>3. PICK c \in 1 .. Len(q) : entry = q[c]
        BY <1>1 DEF ToSet
      <3> QED BY <3>2, <3>3
    <2>4. CASE entry = h
      <3>1. k_list_cut_position(l, list, h, entry) = K_INIT_LIST_HEAD(l, list)
        BY <2>1, <2>3, <2>4 DEF k_list_cut_position
      <3>2. HoldAll(K_INIT_LIST_HEAD(l, list), [s EXCEPT ![list] = <<>>])
        BY Emptied
      <3>3. Apart(l, K_INIT_LIST_HEAD(l, list), Entries(s))
        BY Emptied
      <3>4. t = [s EXCEPT ![list] = SubSeq(q, 1, 0), ![h] = SubSeq(q, 0 + 1, Len(q))]
        BY <1>3, <2>4
      <3>5. SubSeq(q, 1, 0) = <<>> /\ SubSeq(q, 0 + 1, Len(q)) = q
        BY <1>1, SubSeqEmpty, SubSeqFull
      <3>6. t = [s EXCEPT ![list] = <<>>]
        BY <1>1, <3>4, <3>5
      <3> QED BY <3>1, <3>2, <3>3, <3>6 DEF Edited
    <2>5. CASE entry # h
      <3>1. k_list_cut_position(l, list, h, entry) = list_cut(l, list, h, entry)
        BY <2>1, <2>3, <2>5 DEF k_list_cut_position
      <3>2. PICK c \in 1 .. Len(q) : entry = q[c]
        BY <1>1, <2>5 DEF ToSet
      <3>3. PlaceOf(q, entry) = c
        BY <1>1, <3>2 DEF PlaceOf, IsInjective
      <3>4. t = [s EXCEPT ![list] = SubSeq(s[h], 1, c), ![h] = SubSeq(s[h], c + 1, Len(s[h]))]
        BY <1>3, <2>5, <3>3
      <3>5. Edited(l, list_cut(l, list, h, s[h][c]),
                   [s EXCEPT ![list] = SubSeq(s[h], 1, c), ![h] = SubSeq(s[h], c + 1, Len(s[h]))],
                   Entries(s))
        BY CutStores
      <3> QED BY <3>1, <3>2, <3>4, <3>5
    <2> QED BY <2>4, <2>5
  <1> QED BY <1>2, <1>3

-----------------------------------------------------------------------------
(* Calls on rings. *)

\* A call keeps the rings and the sequences together, and of the entries in no ring it
\* touches only those that it may put into one.
Tidy == \E E : Edited(ring, ring', seq', E) /\ \A x \in E : x \in Entries(seq) \/ MayGo(x)

\* Calls that touch only what is in the rings.
LEMMA TidyCall ==
    ASSUME Edited(ring, ring', seq', Entries(seq))
    PROVE  Tidy
  BY DEF Tidy

LEMMA ListedIs == Listed = Entries(seq)
  BY DEF Listed, Entries

LEMMA TidyAdd ==
    ASSUME HoldAll(ring, seq), RingAdd PROVE Tidy
  <1>1. PICK e \in Node \ Entries(seq), x \in Entries(seq) \cup RingHead :
          /\ MayGo(e)
          /\ \/ Edit(k_list_add(ring, e, x), Behind(seq, x, <<e>>))
             \/ Edit(k_list_add_tail(ring, e, x), Before(seq, x, <<e>>))
    BY ListedIs DEF RingAdd
  <1> DEFINE E == Entries(seq) \cup {e}
  <1>2. Edited(ring, ring', seq', E)
    <2>1. CASE Edit(k_list_add(ring, e, x), Behind(seq, x, <<e>>))
      BY <2>1, Added DEF Edit, Edited
    <2>2. CASE Edit(k_list_add_tail(ring, e, x), Before(seq, x, <<e>>))
      BY <2>2, Added DEF Edit, Edited
    <2> QED BY <1>1, <2>1, <2>2
  <1>3. \A y \in E : y \in Entries(seq) \/ MayGo(y)
    BY <1>1
  <1> HIDE DEF E
  <1> QED BY <1>2, <1>3 DEF Tidy

LEMMA TidyDel ==
    ASSUME HoldAll(ring, seq), RingDel PROVE Tidy
  <1>1. CASE \E e \in Entries(seq) : Edit(k_list_del(ring, e), Without(seq, e))
    <2>1. PICK e \in Entries(seq) : Edit(k_list_del(ring, e), Without(seq, e))
      BY <1>1
    <2> QED BY <2>1, EntryDeleted, TidyCall DEF Edit, Edited
  <1>2. CASE \E e \in Node \ Entries(seq) :
                ring.next[e] = e /\ ring.prev[e] = e /\ Edit(k_list_del_init(ring, e), seq)
    <2>1. PICK e \in Node :
             ring.next[e] = e /\ ring.prev[e] = e /\ Edit(k_list_del_init(ring, e), seq)
      BY <1>2
    <2>2. /\ ring = [next |-> ring.next, prev |-> ring.prev]
          /\ ring.next \in [Place -> Place \cup Poison] /\ ring.prev \in [Place -> Place \cup Poison]
      BY DEF HoldAll, Memory
    <2>3. [ring.next EXCEPT ![e] = e] = ring.next /\ [ring.prev EXCEPT ![e] = e] = ring.prev
      BY <2>1, <2>2
    <2>4. k_list_del_init(ring, e) = ring
      BY <2>1, <2>2, <2>3 DEF k_list_del_init, list_del_entry, list_del_between, K_INIT_LIST_HEAD
    <2>5. Apart(ring, ring, Entries(seq))
      BY DEF Apart
    <2> QED BY <2>1, <2>4, <2>5, TidyCall DEF Edit, Edited
  <1> QED BY <1>1, <1>2, ListedIs DEF RingDel

LEMMA TidyDelRange ==
    ASSUME HoldAll(ring, seq), RingDelRange PROVE Tidy
  <1>1. PICK h, i, j :
          /\ h \in RingHead /\ i \in DOMAIN seq[h] /\ j \in DOMAIN seq[h] /\ i <= j
          /\ Edit(list_del_range(ring, seq[h][i], seq[h][j]),
                  [seq EXCEPT ![h] = SubSeq(@, 1, i - 1) \o SubSeq(@, j + 1, Len(@))])
    BY DEF RingDelRange
  <1> QED BY <1>1, RangeRemoved, TidyCall DEF Edit, Edited

LEMMA TidyReplace ==
    ASSUME HoldAll(ring, seq), RingReplace PROVE Tidy
  <1>1. CASE \E old \in Entries(seq), e \in Node \ Entries(seq) :
             /\ MayGo(e)
             /\ \E f \in {"replace", "replace_init"} :
                   Edit(IF f = "replace" THEN k_list_replace(ring, old, e)
                        ELSE k_list_replace_init(ring, old, e),
                        InsteadOf(seq, old, <<e>>))
    <2>1. PICK old \in Entries(seq), e \in Node \ Entries(seq) :
             /\ MayGo(e)
             /\ \/ Edit(k_list_replace(ring, old, e), InsteadOf(seq, old, <<e>>))
                \/ Edit(k_list_replace_init(ring, old, e), InsteadOf(seq, old, <<e>>))
      BY <1>1
    <2> DEFINE E == Entries(seq) \cup {e}
    <2>2. Edited(ring, ring', seq', E)
      BY <2>1, ReplacedBoth DEF Edit, Edited
    <2>3. \A y \in E : y \in Entries(seq) \/ MayGo(y)
      BY <2>1
    <2> HIDE DEF E
    <2> QED BY <2>2, <2>3 DEF Tidy
  <1>2. CASE \E old, new \in RingHead :
             /\ old # new /\ seq[new] = <<>>
             /\ Edit(k_list_replace_init(ring, old, new),
                     [seq EXCEPT ![new] = seq[old], ![old] = <<>>])
    <2>1. PICK old \in RingHead, new \in RingHead :
             /\ old # new /\ seq[new] = <<>>
             /\ Edit(k_list_replace_init(ring, old, new),
                     [seq EXCEPT ![new] = seq[old], ![old] = <<>>])
      BY <1>2
    <2> QED BY <2>1, HeadReplaced, TidyCall DEF Edit
  <1> QED BY <1>1, <1>2, ListedIs DEF RingReplace

LEMMA TidyMove ==
    ASSUME HoldAll(ring, seq), RingMove PROVE Tidy
  <1>1. CASE \E e \in Entries(seq) : \E x \in (Entries(seq) \cup RingHead) \ {e} :
             /\ MayGo(e)
             /\ \/ Edit(k_list_move(ring, e, x), Behind(Without(seq, e), x, <<e>>))
                \/ Edit(k_list_move_tail(ring, e, x), Before(Without(seq, e), x, <<e>>))
    <2>1. PICK e \in Entries(seq), x \in Entries(seq) \cup RingHead :
             /\ x # e
             /\ \/ Edit(k_list_move(ring, e, x), Behind(Without(seq, e), x, <<e>>))
                \/ Edit(k_list_move_tail(ring, e, x), Before(Without(seq, e), x, <<e>>))
      BY <1>1
    <2> QED BY <2>1, Moved, TidyCall DEF Edit, Edited
  <1>2. CASE \E h \in RingHead :
             Edit(k_list_rotate_left(ring, h),
                  [seq EXCEPT ![h] = IF @ = <<>> THEN @ ELSE Tail(@) \o <<Head(@)>>])
    BY <1>2, Rotated, TidyCall DEF Edit
  <1> QED BY <1>1, <1>2, ListedIs DEF RingMove

LEMMA TidyCut ==
    ASSUME HoldAll(ring, seq), RingCut PROVE Tidy
  <1>1. PICK list, h, entry :
          /\ list \in RingHead /\ h \in RingHead /\ entry \in ToSet(seq[h]) \cup {h} /\ list # h
          /\ Edit(k_list_cut_position(ring, list, h, entry),
                  IF seq[h] = <<>> THEN seq
                  ELSE LET n == IF entry = h THEN 0 ELSE PlaceOf(seq[h], entry)
                       IN  [seq EXCEPT ![list] = SubSeq(seq[h], 1, n),
                                       ![h] = SubSeq(seq[h], n + 1, Len(seq[h]))])
    BY DEF RingCut
  <1>2. seq' = IF seq[h] = <<>> THEN seq
                  ELSE LET n == IF entry = h THEN 0 ELSE PlaceOf(seq[h], entry)
                       IN  [seq EXCEPT ![list] = SubSeq(seq[h], 1, n),
                                       ![h] = SubSeq(seq[h], n + 1, Len(seq[h]))]
    BY <1>1 DEF Edit
  <1>3. Edited(ring, k_list_cut_position(ring, list, h, entry), seq', Entries(seq))
    BY <1>1, <1>2, CutOff
  <1> QED BY <1>1, <1>3, TidyCall DEF Edit

LEMMA TidySplice ==
    ASSUME HoldAll(ring, seq), RingSplice PROVE Tidy
  <1>1. PICK list, x :
          /\ list \in RingHead /\ x \in (Entries(seq) \cup RingHead) \ (ToSet(seq[list]) \cup {list})
          /\ \/ Edit(K_INIT_LIST_HEAD(k_list_splice(ring, list, x), list),
                     Behind([seq EXCEPT ![list] = <<>>], x, seq[list]))
             \/ Edit(k_list_splice_init(ring, list, x),
                     Behind([seq EXCEPT ![list] = <<>>], x, seq[list]))
             \/ Edit(K_INIT_LIST_HEAD(k_list_splice_tail(ring, list, x), list),
                     Before([seq EXCEPT ![list] = <<>>], x, seq[list]))
             \/ Edit(k_list_splice_tail_init(ring, list, x),
                     Before([seq EXCEPT ![list] = <<>>], x, seq[list]))
    BY ListedIs DEF RingSplice
  <1>2. Edited(ring, ring', seq', Entries(seq))
    BY <1>1, Joining DEF Edit
  <1> QED BY <1>2, TidyCall

LEMMA TidyRemove ==
    ASSUME HoldAll(ring, seq), LoopRemove, loop.head \in RingHead PROVE Tidy
  <1>1. loop.pos \in Entries(seq)
    BY DEF LoopRemove, Entries
  <1> DEFINE p == loop.pos
  <1>2. \/ Edit(k_list_del(ring, p), Without(seq, p))
        \/ Edit(k_list_del_init(ring, p), Without(seq, p))
        \/ \E h \in RingHead :
              Edit(k_list_move(ring, p, h), Behind(Without(seq, p), h, <<p>>))
    BY DEF LoopRemove
  <1>3. p \in Node
    BY <1>1, TakenType
  <1> HIDE DEF p
  <1>4. p \in Entries(seq) /\ p \notin RingHead
    BY <1>1, <1>3, Addresses DEF p
  <1>5. Edited(ring, ring', seq', Entries(seq))
    <2>1. CASE \E h \in RingHead : Edit(k_list_move(ring, p, h), Behind(Without(seq, p), h, <<p>>))
      <3>1. PICK h \in RingHead : Edit(k_list_move(ring, p, h), Behind(Without(seq, p), h, <<p>>))
        BY <2>1
      <3>2. h \in (Entries(seq) \cup RingHead) \ {p}
        BY <1>4
      <3> QED BY <1>4, <3>1, <3>2, Moved DEF Edit, Edited
    <2> QED BY <1>2, <1>4, <2>1, EntryDeleted DEF Edit, Edited
  <1> QED BY <1>5, TidyCall

\* What is behind an entry of a ring is an entry of it, or the head.
LEMMA NextInRing ==
    ASSUME NEW l, NEW s, HoldAll(l, s), NEW h \in RingHead, NEW x \in ToSet(s[h])
    PROVE  l.next[x] \in ToSet(s[h]) \cup {h} /\ l.prev[x] \in ToSet(s[h]) \cup {h}
  <1> DEFINE q == s[h]
  <1>1. /\ q \in Seq(Node) /\ Len(q) \in Nat /\ DOMAIN q = 1 .. Len(q)
        /\ \A k \in 1 .. Len(q) : At(q, h, k) = q[k]
        /\ \A k \in 0 .. Len(q) + 1 : At(q, h, k) \in ToSet(q) \cup {h}
    BY RingNodes
  <1>2. \A k \in 0 .. Len(q) : l.next[At(q, h, k)] = At(q, h, k + 1) /\ l.prev[At(q, h, k + 1)] = At(q, h, k)
    BY DEF HoldAll, Holds
  <1>3. PICK k \in 1 .. Len(q) : q[k] = x
    BY <1>1 DEF ToSet
  <1> HIDE DEF q
  <1>4. k \in 0 .. Len(q) /\ k - 1 \in 0 .. Len(q) /\ (k - 1) + 1 = k /\ k + 1 \in 0 .. Len(q) + 1
        /\ k - 1 \in 0 .. Len(q) + 1
    BY <1>1
  <1>5. l.next[x] = At(q, h, k + 1) /\ l.prev[x] = At(q, h, k - 1)
    BY <1>1, <1>2, <1>3, <1>4
  <1> QED BY <1>1, <1>4, <1>5 DEF q

LEMMA TidyRemoveNext ==
    ASSUME HoldAll(ring, seq), LoopRemoveNext, loop.head \in RingHead,
           loop.n = ring.next[loop.pos]
    PROVE  Tidy /\ loop.n \in ToSet(seq[loop.head])
  <1>1. loop.n \in ToSet(seq[loop.head])
    BY NextInRing DEF LoopRemoveNext
  <1>2. loop.n \in Entries(seq)
    BY <1>1 DEF Entries
  <1>3. Edit(k_list_del(ring, loop.n), Without(seq, loop.n))
    BY DEF LoopRemoveNext
  <1> QED BY <1>1, <1>2, <1>3, EntryDeleted, TidyCall DEF Edit, Edited

-----------------------------------------------------------------------------
(* k_list_del_init, store by store. *)

Remaining == {Store, Store \ {"next.prev"}, {"e.next", "e.prev"}, {"e.next"}, {"e.prev"}}

\* m is the memory l, which holds s, after the stores that deletion d has made.
Begun(l, m, s, d) ==
    /\ HoldAll(l, s) /\ m \in Memory
    /\ d.entry \in Entries(s) /\ d.prev = l.prev[d.entry] /\ d.next = l.next[d.entry]
    /\ \A y \in Place :
          /\ m.next[y] = IF y = d.entry THEN (IF "e.next" \in d.left THEN l.next[y] ELSE y)
                         ELSE IF y = d.prev /\ "prev.next" \notin d.left THEN d.next ELSE l.next[y]
          /\ m.prev[y] = IF y = d.entry THEN (IF "e.prev" \in d.left THEN l.prev[y] ELSE y)
                         ELSE IF y = d.next /\ "next.prev" \notin d.left THEN d.prev ELSE l.prev[y]

Deletion == [entry : Node, prev : Place, next : Place, left : Remaining]

\* Between calls the rings hold their sequences; during a deletion they are on the way
\* from what they were.
RingsInv ==
    /\ deleting = NULL => HoldAll(ring, seq)
    /\ deleting # NULL => deleting \in Deletion /\ loop = NULL /\ \E l : Begun(l, ring, seq, deleting)

LEMMA NotNull == \A d \in Deletion : d # NULL
  <1>1. \A d \in Deletion :
           d \in [entry : Node, prev : Node \cup RingHead, next : Node \cup RingHead, left : SUBSET Store]
    BY DEF Deletion, Remaining, Store, Place
  <1> QED BY <1>1, DeletionAssumption

\* An entry has different neighbours, unless both are its head.
LEMMA EntryNeighbours ==
    ASSUME NEW l, NEW s, HoldAll(l, s), NEW x \in Entries(s)
    PROVE  /\ l.next[x] = l.prev[x] => l.next[x] \notin Node
           /\ l.next[x] \in Entries(s) \cup RingHead /\ l.prev[x] \in Entries(s) \cup RingHead
           /\ l.next[x] # x /\ l.prev[x] # x /\ x \in Node
  <1>1. PICK h \in RingHead : x \in ToSet(s[h])
    BY DEF Entries
  <1>2. l.next[x] \in ToSet(s[h]) \cup {h} /\ l.prev[x] \in ToSet(s[h]) \cup {h}
    BY <1>1, NextInRing
  <1>3. ToSet(s[h]) \subseteq Entries(s)
    BY DEF Entries
  <1>4. l.next[x] # x /\ l.prev[x] # x /\ x \in Node
    BY TakenType
  <1>5. ASSUME l.next[x] = l.prev[x] PROVE l.next[x] \notin Node
    <2>1. PICK g, k : Found(l, s, x, g, k)
      BY FindEntry
    <2>2. /\ g \in RingHead /\ k \in 1 .. Len(s[g]) /\ l.prev[x] = At(s[g], g, k - 1)
          /\ l.next[x] = At(s[g], g, k + 1)
      BY <2>1 DEF Found
    <2>3. /\ Len(s[g]) \in Nat /\ At(s[g], g, Len(s[g]) + 1) = g /\ g \notin Node
          /\ Differ(s[g], g)
      BY <2>2, RingNodes
    <2>4. CASE k = Len(s[g])
      BY <2>2, <2>3, <2>4
    <2>5. CASE k # Len(s[g])
      <3>1. k - 1 \in 0 .. Len(s[g]) /\ k + 1 \in 0 .. Len(s[g]) /\ k - 1 # k + 1
        BY <2>2, <2>3, <2>5
      <3> QED BY <1>5, <2>2, <2>3, <3>1 DEF Differ
    <2> QED BY <2>4, <2>5
  <1> QED BY <1>2, <1>3, <1>4, <1>5

LEMMA BeginKeeps ==
    ASSUME HoldAll(ring, seq), BeginDelInit, loop = NULL PROVE RingsInv'
  <1>1. PICK e \in Entries(seq) :
          deleting' = [entry |-> e, prev |-> ring.prev[e], next |-> ring.next[e], left |-> Store]
    BY ListedIs DEF BeginDelInit
  <1>2. e \in Node /\ ring.prev[e] \in Place /\ ring.next[e] \in Place
    BY TakenType
  <1>3. deleting' \in Deletion
    BY <1>1, <1>2 DEF Deletion, Remaining
  <1>4. /\ deleting'.entry = e /\ deleting'.prev = ring.prev[e] /\ deleting'.next = ring.next[e]
        /\ deleting'.left = Store
    BY <1>1
  <1>5. "e.next" \in Store /\ "e.prev" \in Store /\ "prev.next" \in Store /\ "next.prev" \in Store
    BY DEF Store
  <1>6. Begun(ring, ring, seq, deleting')
    BY <1>4, <1>5 DEF Begun, HoldAll
  <1>7. ring' = ring /\ seq' = seq /\ loop' = NULL /\ deleting' # NULL
    BY <1>3, NotNull DEF BeginDelInit
  <1> QED BY <1>3, <1>6, <1>7 DEF RingsInv

\* What one store of the deletion does to the memory.
Stored(m, s, d) ==
    CASE s = "next.prev" -> [m EXCEPT !.prev[d.next] = d.prev]
      [] s = "prev.next" -> [m EXCEPT !.next[d.prev] = d.next]
      [] s = "e.next" -> [m EXCEPT !.next[d.entry] = d.entry]
      [] s = "e.prev" -> [m EXCEPT !.prev[d.entry] = d.entry]

LEMMA StoreSteps ==
    ASSUME NEW m \in Memory, NEW d \in Deletion, NEW s \in Store
    PROVE  /\ Stored(m, s, d) \in Memory
           /\ \A y \in Place :
                /\ Stored(m, s, d).next[y] = IF s = "prev.next" /\ y = d.prev THEN d.next
                                             ELSE IF s = "e.next" /\ y = d.entry THEN y ELSE m.next[y]
                /\ Stored(m, s, d).prev[y] = IF s = "next.prev" /\ y = d.next THEN d.prev
                                             ELSE IF s = "e.prev" /\ y = d.entry THEN y ELSE m.prev[y]
  <1>1. m.next \in [Place -> Place \cup Poison] /\ m.prev \in [Place -> Place \cup Poison]
        /\ m = [next |-> m.next, prev |-> m.prev]
    BY DEF Memory
  <1>2. d.entry \in Place /\ d.prev \in Place /\ d.next \in Place
    BY DEF Deletion, Place
  <1>3. CASE s = "next.prev"
    <2>1. Stored(m, s, d) = [next |-> m.next, prev |-> [m.prev EXCEPT ![d.next] = d.prev]]
      BY <1>1, <1>3 DEF Stored
    <2> QED BY <1>1, <1>2, <1>3, <2>1 DEF Memory
  <1>4. CASE s = "prev.next"
    <2>1. Stored(m, s, d) = [next |-> [m.next EXCEPT ![d.prev] = d.next], prev |-> m.prev]
      BY <1>1, <1>4 DEF Stored
    <2> QED BY <1>1, <1>2, <1>4, <2>1 DEF Memory
  <1>5. CASE s = "e.next"
    <2>1. Stored(m, s, d) = [next |-> [m.next EXCEPT ![d.entry] = d.entry], prev |-> m.prev]
      BY <1>1, <1>5 DEF Stored
    <2> QED BY <1>1, <1>2, <1>5, <2>1 DEF Memory
  <1>6. CASE s = "e.prev"
    <2>1. Stored(m, s, d) = [next |-> m.next, prev |-> [m.prev EXCEPT ![d.entry] = d.entry]]
      BY <1>1, <1>6 DEF Stored
    <2> QED BY <1>1, <1>2, <1>6, <2>1 DEF Memory
  <1> QED BY <1>3, <1>4, <1>5, <1>6 DEF Store

\* The order of the stores.
LEMMA InOrder ==
    ASSUME NEW left \in Remaining, NEW s \in Ready(left)
    PROVE  /\ s \in Store /\ s \in left
           /\ left # {s} => left \ {s} \in Remaining
           /\ left = {s} => s \in {"e.next", "e.prev"}
           /\ "e.next" \in left \/ "e.prev" \in left
  <1>1. CASE left = Store
    BY <1>1 DEF Ready, Remaining, Store
  <1>2. CASE left = Store \ {"next.prev"}
    <2>1. s = "prev.next"
      BY <1>2 DEF Ready, Store
    <2>2. left \ {s} = {"e.next", "e.prev"}
      BY <1>2, <2>1 DEF Store
    <2> QED BY <1>2, <2>1, <2>2 DEF Remaining, Store
  <1>3. CASE left = {"e.next", "e.prev"}
    <2>1. s \in left
      BY <1>3 DEF Ready
    <2>2. left \ {s} \in {{"e.next"}, {"e.prev"}}
      BY <1>3, <2>1
    <2> QED BY <1>3, <2>1, <2>2 DEF Remaining, Store
  <1>4. CASE left = {"e.next"} \/ left = {"e.prev"}
    BY <1>4 DEF Ready, Store
  <1> QED BY <1>1, <1>2, <1>3, <1>4 DEF Remaining

LEMMA StoreIs ==
    ASSUME StoreDelInit
    PROVE  \E s \in Ready(deleting.left) :
              /\ ring' = Stored(ring, s, deleting)
              /\ deleting.left = {s} => deleting' = NULL /\ seq' = Without(seq, deleting.entry)
              /\ deleting.left # {s} => /\ deleting' = [deleting EXCEPT !.left = @ \ {s}]
                                        /\ seq' = seq
  BY DEF StoreDelInit, Stored

LEMMA StoreKeeps ==
    ASSUME RingsInv, StoreDelInit PROVE RingsInv'
  <1> DEFINE d == deleting
             e == d.entry
             left == d.left
  <1>1. d \in Deletion /\ loop = NULL /\ d # NULL
    BY DEF RingsInv, StoreDelInit
  <1>2. PICK l : Begun(l, ring, seq, d)
    BY DEF RingsInv, StoreDelInit
  <1>3. PICK s \in Ready(left) :
              /\ ring' = Stored(ring, s, d)
              /\ left = {s} => deleting' = NULL /\ seq' = Without(seq, e)
              /\ left # {s} => deleting' = [d EXCEPT !.left = @ \ {s}] /\ seq' = seq
    BY StoreIs
  <1>4. left \in Remaining
    BY <1>1 DEF Deletion
  <1>5. loop' = NULL
    BY <1>1 DEF StoreDelInit
  <1> HIDE DEF d, e, left
  <1>6. /\ s \in Store /\ s \in left
        /\ left # {s} => left \ {s} \in Remaining
        /\ left = {s} => s \in {"e.next", "e.prev"}
    BY <1>3, <1>4, InOrder
  <1>7. /\ HoldAll(l, seq) /\ ring \in Memory
        /\ e \in Entries(seq) /\ d.prev = l.prev[e] /\ d.next = l.next[e]
        /\ \A y \in Place :
              /\ ring.next[y] = IF y = e THEN (IF "e.next" \in left THEN l.next[y] ELSE y)
                             ELSE IF y = d.prev /\ "prev.next" \notin left THEN d.next ELSE l.next[y]
              /\ ring.prev[y] = IF y = e THEN (IF "e.prev" \in left THEN l.prev[y] ELSE y)
                             ELSE IF y = d.next /\ "next.prev" \notin left THEN d.prev ELSE l.prev[y]
    BY <1>2 DEF Begun, e, left
  <1>8. d.next # e /\ d.prev # e /\ e \in Node /\ e \in Place
    BY <1>7, EntryNeighbours DEF Place
  <1>9. ring' \in Memory
    BY <1>1, <1>3, <1>6, <1>7, StoreSteps
  <1>10. \A y \in Place :
                /\ ring'.next[y] = IF s = "prev.next" /\ y = d.prev THEN d.next
                                   ELSE IF s = "e.next" /\ y = e THEN y ELSE ring.next[y]
                /\ ring'.prev[y] = IF s = "next.prev" /\ y = d.next THEN d.prev
                                   ELSE IF s = "e.prev" /\ y = e THEN y ELSE ring.prev[y]
    BY <1>1, <1>3, <1>6, <1>7, StoreSteps DEF e
  <1>11. \A y \in Place :
              /\ ring'.next[y] = IF y = e THEN (IF "e.next" \in left \ {s} THEN l.next[y] ELSE y)
                             ELSE IF y = d.prev /\ "prev.next" \notin left \ {s} THEN d.next ELSE l.next[y]
              /\ ring'.prev[y] = IF y = e THEN (IF "e.prev" \in left \ {s} THEN l.prev[y] ELSE y)
                             ELSE IF y = d.next /\ "next.prev" \notin left \ {s} THEN d.prev ELSE l.prev[y]
    BY <1>6, <1>7, <1>8, <1>10
  <1>12. CASE left # {s}
    <2>1. deleting' = [d EXCEPT !.left = @ \ {s}] /\ seq' = seq /\ left \ {s} \in Remaining
      BY <1>3, <1>6, <1>12
    <2>2. /\ deleting' \in Deletion /\ deleting'.entry = e /\ deleting'.prev = d.prev
          /\ deleting'.next = d.next /\ deleting'.left = left \ {s}
      BY <1>1, <2>1 DEF Deletion, e, left
    <2>3. Begun(l, ring', seq', deleting')
      BY <1>7, <1>9, <1>11, <2>1, <2>2 DEF Begun
    <2> QED BY <1>5, <2>2, <2>3, NotNull DEF RingsInv
  <1>13. CASE left = {s}
    <2>1. deleting' = NULL /\ seq' = Without(seq, e)
      BY <1>3, <1>13
    <2>2. left \ {s} = {} /\ l \in Memory
      BY <1>7, <1>13 DEF HoldAll
    <2>3. SameBut(list_del_entry(l, e), ring', Place, e)
      <3>1. l.next \in [Place -> Place \cup Poison] /\ l.prev \in [Place -> Place \cup Poison]
        BY <2>2 DEF Memory
      <3>2. d.prev \in Place /\ d.next \in Place
        BY <1>1 DEF Deletion
      <3>3. list_del_entry(l, e) = [next |-> [l.next EXCEPT ![d.prev] = d.next],
                                    prev |-> [l.prev EXCEPT ![d.next] = d.prev]]
        BY <1>7 DEF list_del_entry, list_del_between
      <3>4. \A y \in Place : /\ list_del_entry(l, e).next[y] = IF y = d.prev THEN d.next ELSE l.next[y]
                             /\ list_del_entry(l, e).prev[y] = IF y = d.next THEN d.prev ELSE l.prev[y]
        BY <3>1, <3>2, <3>3
      <3> QED BY <1>9, <1>11, <2>2, <3>4 DEF SameBut, Memory
    <2>4. HoldAll(ring', seq')
      BY <1>7, <1>9, <2>1, <2>3, Removed
    <2> QED BY <2>1, <2>4 DEF RingsInv
  <1> QED BY <1>12, <1>13


-----------------------------------------------------------------------------
(* What a loop over a ring meets. *)

CourseOf(s, h, dir) == IF dir = "next" THEN s[h] ELSE Reverse(s[h])

\* In the direction of the loop, ring h is c.
Runs(l, s, h, dir, c) ==
    /\ c \in Seq(Node) /\ Len(c) \in Nat /\ DOMAIN c = 1 .. Len(c) /\ IsInjective(c)
    /\ ToSet(c) = ToSet(s[h])
    /\ At(c, h, 0) = h /\ At(c, h, Len(c) + 1) = h
    /\ \A k \in 1 .. Len(c) : At(c, h, k) = c[k] /\ c[k] \in ToSet(c)
    /\ \A k \in 0 .. Len(c) : l[dir][At(c, h, k)] = At(c, h, k + 1)

LEMMA Reversed ==
    ASSUME NEW q \in Seq(Node)
    PROVE  /\ Reverse(q) \in Seq(Node) /\ Len(Reverse(q)) = Len(q) /\ DOMAIN Reverse(q) = 1 .. Len(q)
           /\ \A i \in 1 .. Len(q) : Reverse(q)[i] = q[Len(q) + 1 - i]
           /\ ToSet(Reverse(q)) = ToSet(q)
           /\ IsInjective(q) => IsInjective(Reverse(q))
           /\ \A h : \A i \in 0 .. Len(q) + 1 : At(Reverse(q), h, i) = At(q, h, Len(q) + 1 - i)
  <1> DEFINE r == Reverse(q)
  <1>0. Len(q) \in Nat /\ DOMAIN q = 1 .. Len(q) /\ \A i \in DOMAIN q : q[i] \in Node
    OBVIOUS
  <1>1. r = [i \in 1 .. Len(q) |-> q[(Len(q) - i) + 1]]
    BY DEF Reverse
  <1>2. \A i \in 1 .. Len(q) : (Len(q) - i) + 1 = Len(q) + 1 - i /\ (Len(q) - i) + 1 \in 1 .. Len(q)
    BY <1>0
  <1> HIDE DEF r
  <1>3. r \in Seq(Node) /\ Len(r) = Len(q) /\ DOMAIN r = 1 .. Len(q)
    BY <1>0, <1>1, <1>2
  <1>4. \A i \in 1 .. Len(q) : r[i] = q[Len(q) + 1 - i]
    BY <1>0, <1>1, <1>2
  <1>5. \A i \in 1 .. Len(q) : Len(q) + 1 - i \in 1 .. Len(q) /\ Len(q) + 1 - (Len(q) + 1 - i) = i
    BY <1>0
  <1>6. ToSet(r) = ToSet(q)
    <2>1. \A x \in ToSet(q) : x \in ToSet(r)
      <3> SUFFICES ASSUME NEW i \in 1 .. Len(q) PROVE q[i] \in ToSet(r)
        BY <1>0 DEF ToSet
      <3>1. r[Len(q) + 1 - i] = q[i]
        BY <1>4, <1>5
      <3> QED BY <1>3, <1>5, <3>1 DEF ToSet
    <2>2. \A x \in ToSet(r) : x \in ToSet(q)
      BY <1>0, <1>3, <1>4, <1>5 DEF ToSet
    <2> QED BY <2>1, <2>2
  <1>7. ASSUME IsInjective(q) PROVE IsInjective(r)
    <2> SUFFICES ASSUME NEW i \in 1 .. Len(q), NEW j \in 1 .. Len(q), r[i] = r[j] PROVE i = j
      BY <1>3 DEF IsInjective
    <2>1. q[Len(q) + 1 - i] = q[Len(q) + 1 - j]
      BY <1>4
    <2>2. Len(q) + 1 - i \in 1 .. Len(q) /\ Len(q) + 1 - j \in 1 .. Len(q)
      BY <1>5
    <2>3. \A a, b \in 1 .. Len(q) : q[a] = q[b] => a = b
      BY <1>0, <1>7 DEF IsInjective
    <2>4. Len(q) + 1 - i = Len(q) + 1 - j
      BY <2>1, <2>2, <2>3
    <2> QED BY <1>0, <2>4
  <1>8. ASSUME NEW h, NEW i \in 0 .. Len(q) + 1 PROVE At(r, h, i) = At(q, h, Len(q) + 1 - i)
    <2>1. CASE i \in 1 .. Len(q)
      BY <1>0, <1>3, <1>4, <1>5, <2>1 DEF At
    <2>2. CASE i \notin 1 .. Len(q)
      <3>1. Len(q) + 1 - i \notin 1 .. Len(q)
        BY <1>0, <2>2
      <3> QED BY <1>0, <1>3, <2>2, <3>1 DEF At
    <2> QED BY <2>1, <2>2
  <1> QED BY <1>3, <1>4, <1>6, <1>7, <1>8 DEF r

LEMMA CourseRuns ==
    ASSUME NEW l, NEW s, HoldAll(l, s), NEW h \in RingHead, NEW dir \in {"next", "prev"}
    PROVE  Runs(l, s, h, dir, CourseOf(s, h, dir))
  <1> DEFINE q == s[h]
  <1>1. /\ q \in Seq(Node) /\ Len(q) \in Nat /\ DOMAIN q = 1 .. Len(q) /\ IsInjective(q)
        /\ At(q, h, 0) = h /\ At(q, h, Len(q) + 1) = h
        /\ \A k \in 1 .. Len(q) : At(q, h, k) = q[k] /\ q[k] \in ToSet(q)
    BY RingNodes
  <1>2. \A k \in 0 .. Len(q) : l.next[At(q, h, k)] = At(q, h, k + 1) /\ l.prev[At(q, h, k + 1)] = At(q, h, k)
    BY DEF HoldAll, Holds
  <1>3. CASE dir = "next"
    BY <1>1, <1>2, <1>3 DEF CourseOf, Runs
  <1>4. CASE dir = "prev"
    <2> DEFINE r == Reverse(q)
    <2>0. CourseOf(s, h, dir) = r
      BY <1>4 DEF CourseOf
    <2> HIDE DEF q
    <2>1. /\ r \in Seq(Node) /\ Len(r) = Len(q) /\ DOMAIN r = 1 .. Len(q)
          /\ \A i \in 1 .. Len(q) : r[i] = q[Len(q) + 1 - i]
          /\ ToSet(r) = ToSet(q) /\ IsInjective(r)
          /\ \A i \in 0 .. Len(q) + 1 : At(r, h, i) = At(q, h, Len(q) + 1 - i)
      BY <1>1, Reversed
    <2> HIDE DEF r
    <2>2. At(r, h, 0) = h /\ At(r, h, Len(r) + 1) = h
      BY <1>1, <2>1 DEF At
    <2>3. \A k \in 1 .. Len(r) : At(r, h, k) = r[k] /\ r[k] \in ToSet(r)
      BY <1>1, <2>1 DEF At, ToSet
    <2>4. ASSUME NEW k \in 0 .. Len(r) PROVE l[dir][At(r, h, k)] = At(r, h, k + 1)
      <3>0. k \in 0 .. Len(q) /\ Len(q) \in Nat
        BY <1>1, <2>1
      <3>1. /\ k \in 0 .. Len(q) + 1 /\ k + 1 \in 0 .. Len(q) + 1 /\ Len(q) - k \in 0 .. Len(q)
            /\ Len(q) + 1 - k = (Len(q) - k) + 1 /\ Len(q) + 1 - (k + 1) = Len(q) - k
        BY <3>0
      <3>2. At(r, h, k) = At(q, h, (Len(q) - k) + 1) /\ At(r, h, k + 1) = At(q, h, Len(q) - k)
        BY <2>1, <3>1
      <3> QED BY <1>2, <1>4, <3>1, <3>2
    <2>5. Len(r) \in Nat /\ DOMAIN r = 1 .. Len(r) /\ ToSet(r) = ToSet(s[h])
      BY <1>1, <2>1 DEF q
    <2> QED BY <2>0, <2>1, <2>2, <2>3, <2>4, <2>5 DEF Runs
  <1> QED BY <1>3, <1>4

\* What is from the i-th element on.
LEMMA RestIs ==
    ASSUME NEW s \in Seq(Node), NEW i \in 1 .. Len(s) + 1
    PROVE  /\ SubSeq(s, i, Len(s)) \in Seq(Node) /\ Len(SubSeq(s, i, Len(s))) = Len(s) + 1 - i
           /\ \A n \in 1 .. Len(s) + 1 - i : SubSeq(s, i, Len(s))[n] = s[i + n - 1]
  <1> DEFINE u == SubSeq(s, i, Len(s))
             m == Len(s)
  <1>1. m \in Int /\ i \in Int /\ 1 <= i /\ \A k \in i .. m : s[k] \in Node
    OBVIOUS
  <1>2. /\ u \in Seq(Node) /\ Len(u) = IF i <= m THEN m - i + 1 ELSE 0
        /\ \A k \in 1 .. m - i + 1 : u[k] = s[i + k - 1]
    <2> HIDE DEF m
    <2>1. SubSeq(s, i, m) \in Seq(Node)
      BY <1>1, SubSeqProperties
    <2>2. Len(SubSeq(s, i, m)) = IF i <= m THEN m - i + 1 ELSE 0
      BY <1>1, SubSeqProperties
    <2>3. \A k \in 1 .. m - i + 1 : SubSeq(s, i, m)[k] = s[i + k - 1]
      BY <1>1, SubSeqProperties
    <2> QED BY <2>1, <2>2, <2>3 DEF m
  <1>3. i <= m + 1
    OBVIOUS
  <1> HIDE DEF u, m
  <1>4. m - i + 1 = m + 1 - i /\ (IF i <= m THEN m - i + 1 ELSE 0) = m + 1 - i
    BY <1>1, <1>3
  <1> QED BY <1>2, <1>4 DEF u, m

\* The rest of s from i on and the rest of t from j on have the same elements.
Agree(s, i, t, j) ==
    /\ i \in 1 .. Len(s) + 1 /\ j \in 1 .. Len(t) + 1 /\ Len(s) + 1 - i = Len(t) + 1 - j
    /\ \A n \in 1 .. Len(s) + 1 - i : s[i + n - 1] = t[j + n - 1]

LEMMA RestSame ==
    ASSUME NEW s \in Seq(Node), NEW i, NEW t \in Seq(Node), NEW j, Agree(s, i, t, j)
    PROVE  SubSeq(s, i, Len(s)) = SubSeq(t, j, Len(t))
  <1> DEFINE u == SubSeq(s, i, Len(s))
             v == SubSeq(t, j, Len(t))
             m == Len(s) + 1 - i
  <1>1. u \in Seq(Node) /\ Len(u) = m /\ \A n \in 1 .. m : u[n] = s[i + n - 1]
    BY RestIs DEF Agree
  <1>2. v \in Seq(Node) /\ Len(v) = Len(t) + 1 - j /\ \A n \in 1 .. Len(t) + 1 - j : v[n] = t[j + n - 1]
    BY RestIs DEF Agree
  <1>3. m = Len(t) + 1 - j /\ \A n \in 1 .. m : s[i + n - 1] = t[j + n - 1]
    BY DEF Agree
  <1> HIDE DEF u, v, m
  <1>4. u = [n \in 1 .. Len(u) |-> u[n]] /\ v = [n \in 1 .. Len(v) |-> v[n]]
    BY <1>1, <1>2, ByIndex
  <1>5. u = v
    BY <1>1, <1>2, <1>3, <1>4
  <1> QED BY <1>5 DEF u, v

\* What is before the i-th entry, backwards.
LEMMA ReversedFront ==
    ASSUME NEW q \in Seq(Node), NEW i \in 1 .. Len(q)
    PROVE  SubSeq(Reverse(q), Len(q) + 2 - i, Len(q)) = Reverse(SubSeq(q, 1, i - 1))
  <1> DEFINE r == Reverse(q)
             m == i - 1
             a == SubSeq(q, 1, m)
             u == SubSeq(r, Len(q) + 2 - i, Len(q))
             v == Reverse(a)
  <1>0. Len(q) \in Nat /\ m \in 0 .. Len(q) /\ m \in Nat /\ i = m + 1 /\ Len(q) + 2 - i \in 1 .. Len(q) + 1
        /\ Len(q) + 1 - (Len(q) + 2 - i) = m
    OBVIOUS
  <1>1. r \in Seq(Node) /\ Len(r) = Len(q) /\ \A n \in 1 .. Len(q) : r[n] = q[Len(q) + 1 - n]
    BY Reversed
  <1>2. a \in Seq(Node) /\ Len(a) = m /\ \A n \in 1 .. m : a[n] = q[n]
    BY <1>0
  <1> HIDE DEF m, r, a
  <1>3. u \in Seq(Node) /\ Len(u) = m /\ \A n \in 1 .. m : u[n] = r[(Len(q) + 2 - i) + n - 1]
    <2> DEFINE k == Len(q) + 2 - i
    <2>1. k \in 1 .. Len(r) + 1 /\ Len(r) + 1 - k = m
      BY <1>0, <1>1
    <2> HIDE DEF k
    <2>2. /\ SubSeq(r, k, Len(r)) \in Seq(Node) /\ Len(SubSeq(r, k, Len(r))) = m
          /\ \A n \in 1 .. m : SubSeq(r, k, Len(r))[n] = r[k + n - 1]
      BY <1>1, <2>1, RestIs
    <2> QED BY <1>1, <2>2 DEF k
  <1>4. v \in Seq(Node) /\ Len(v) = m /\ \A n \in 1 .. m : v[n] = a[m + 1 - n]
    BY <1>2, Reversed
  <1> HIDE DEF u, v
  <1>5. ASSUME NEW n \in 1 .. m PROVE u[n] = v[n]
    <2> DEFINE k == (Len(q) + 2 - i) + n - 1
    <2>1. k \in 1 .. Len(q) /\ Len(q) + 1 - k = m + 1 - n /\ m + 1 - n \in 1 .. m
      BY <1>0
    <2>2. u[n] = r[k]
      BY <1>3
    <2> HIDE DEF k
    <2> QED BY <1>1, <1>2, <1>4, <2>1, <2>2
  <1>6. u = [n \in 1 .. Len(u) |-> u[n]] /\ v = [n \in 1 .. Len(v) |-> v[n]]
    BY <1>3, <1>4, ByIndex
  <1>7. u = v
    BY <1>3, <1>4, <1>5, <1>6
  <1> QED BY <1>7 DEF u, v, r, a, m

\* Sequence c without its i-th entry: what is before it, and what is behind.
Lost(c, i) == Spliced(c, i - 1, <<>>, i + 1)

\* What the sequence t is made of.
Pieces(t, s, i, q, j) ==
    /\ Len(t) = i + Len(q) + Len(s) + 1 - j
    /\ DOMAIN t = 1 .. i + Len(q) + Len(s) + 1 - j
    /\ \A k \in 1 .. i + Len(q) + Len(s) + 1 - j : t[k] =
          IF k <= i THEN s[k] ELSE IF k <= i + Len(q) THEN q[k - i] ELSE s[k - i - Len(q) + j - 1]

LEMMA SplicedPieces ==
    ASSUME NEW s \in Seq(Node), NEW q \in Seq(Node),
           NEW i \in 0 .. Len(s), NEW j \in i + 1 .. Len(s) + 1
    PROVE  Spliced(s, i, q, j) \in Seq(Node) /\ Pieces(Spliced(s, i, q, j), s, i, q, j)
  <1>1. Spliced(s, i, q, j) \in Seq(Node)
    BY SplicedIs
  <1>2. Len(Spliced(s, i, q, j)) = i + Len(q) + Len(s) + 1 - j
    BY SplicedIs
  <1>3. DOMAIN Spliced(s, i, q, j) = 1 .. i + Len(q) + Len(s) + 1 - j
    BY SplicedIs
  <1>4. \A k \in 1 .. i + Len(q) + Len(s) + 1 - j : Spliced(s, i, q, j)[k] =
           IF k <= i THEN s[k] ELSE IF k <= i + Len(q) THEN q[k - i] ELSE s[k - i - Len(q) + j - 1]
    BY SplicedIs
  <1> QED BY <1>1, <1>2, <1>3, <1>4 DEF Pieces

LEMMA LostIs ==
    ASSUME NEW c \in Seq(Node), NEW i \in 1 .. Len(c)
    PROVE  /\ Lost(c, i) \in Seq(Node) /\ Len(Lost(c, i)) = Len(c) - 1
           /\ DOMAIN Lost(c, i) = 1 .. Len(c) - 1
           /\ \A k \in 1 .. Len(c) - 1 : Lost(c, i)[k] = IF k < i THEN c[k] ELSE c[k + 1]
  <1> DEFINE q == <<>>
             a == i - 1
             b == i + 1
             t == Spliced(c, a, q, b)
  <1>0. Len(c) \in Nat /\ i \in Nat /\ i <= Len(c) /\ 1 <= i /\ q \in Seq(Node)
        /\ a \in 0 .. Len(c) /\ b \in a + 1 .. Len(c) + 1
    OBVIOUS
  <1>5. Len(q) = 0
    OBVIOUS
  <1> HIDE DEF q
  <1>1. /\ t \in Seq(Node)
        /\ Len(t) = a + Len(q) + Len(c) + 1 - b
        /\ DOMAIN t = 1 .. a + Len(q) + Len(c) + 1 - b
        /\ \A k \in 1 .. a + Len(q) + Len(c) + 1 - b : t[k] =
              IF k <= a THEN c[k] ELSE IF k <= a + Len(q) THEN q[k - a] ELSE c[k - a - Len(q) + b - 1]
    <2> HIDE DEF a, b
    <2>1. t \in Seq(Node) /\ Pieces(t, c, a, q, b)
      BY <1>0, SplicedPieces
    <2> HIDE DEF t
    <2> QED BY <2>1 DEF Pieces
  <1>2. a + Len(q) + Len(c) + 1 - b = Len(c) - 1
    BY <1>0, <1>5
  <1> HIDE DEF t
  <1>3. ASSUME NEW k \in 1 .. Len(c) - 1 PROVE t[k] = IF k < i THEN c[k] ELSE c[k + 1]
    <2>1. CASE k < i
      <3>1. k <= a
        BY <1>0, <1>5, <2>1
      <3> QED BY <1>1, <1>2, <2>1, <3>1
    <2>2. CASE ~(k < i)
      <3>1. ~(k <= a) /\ ~(k <= a + Len(q)) /\ k - a - Len(q) + b - 1 = k + 1
        BY <1>0, <1>5, <2>2
      <3> QED BY <1>1, <1>2, <2>2, <3>1
    <2> QED BY <2>1, <2>2
  <1>4. Lost(c, i) = t
    BY DEF Lost, t, q
  <1> HIDE DEF a, b
  <1> QED BY <1>1, <1>2, <1>3, <1>4

\* An entry that is lost is lost in both directions.
LEMMA LostReversed ==
    ASSUME NEW q \in Seq(Node), NEW i \in 1 .. Len(q)
    PROVE  Reverse(Lost(q, i)) = Lost(Reverse(q), Len(q) + 1 - i)
  <1> DEFINE t == Lost(q, i)
             r == Reverse(q)
             j == Len(q) + 1 - i
             u == Lost(r, j)
             v == Reverse(t)
  <1>0. Len(q) \in Nat /\ i \in Nat /\ i <= Len(q) /\ 1 <= i /\ j \in 1 .. Len(q)
    OBVIOUS
  <1>1. /\ t \in Seq(Node) /\ Len(t) = Len(q) - 1
        /\ \A k \in 1 .. Len(q) - 1 : t[k] = IF k < i THEN q[k] ELSE q[k + 1]
    BY LostIs
  <1>2. r \in Seq(Node) /\ Len(r) = Len(q) /\ \A k \in 1 .. Len(q) : r[k] = q[Len(q) + 1 - k]
    BY Reversed
  <1> HIDE DEF t, r, j
  <1>3. /\ u \in Seq(Node) /\ Len(u) = Len(q) - 1
        /\ \A k \in 1 .. Len(q) - 1 : u[k] = IF k < j THEN r[k] ELSE r[k + 1]
    BY <1>0, <1>2, LostIs
  <1>4. v \in Seq(Node) /\ Len(v) = Len(q) - 1 /\ \A k \in 1 .. Len(q) - 1 : v[k] = t[Len(q) - k]
    <2>1. v \in Seq(Node) /\ Len(v) = Len(t) /\ \A k \in 1 .. Len(t) : v[k] = t[Len(t) + 1 - k]
      BY <1>1, Reversed
    <2>2. \A k \in 1 .. Len(t) : Len(t) + 1 - k = Len(q) - k
      BY <1>0, <1>1
    <2> HIDE DEF v
    <2> QED BY <1>1, <2>1, <2>2
  <1> HIDE DEF u, v
  <1>5. ASSUME NEW k \in 1 .. Len(q) - 1 PROVE u[k] = v[k]
    <2> DEFINE n == Len(q) - k
    <2>1. n \in 1 .. Len(q) - 1 /\ k \in 1 .. Len(q) /\ k + 1 \in 1 .. Len(q)
          /\ Len(q) + 1 - k = n + 1 /\ Len(q) + 1 - (k + 1) = n
      BY <1>0
    <2>2. v[k] = IF n < i THEN q[n] ELSE q[n + 1]
      BY <1>1, <1>4, <2>1
    <2>3. r[k] = q[n + 1] /\ r[k + 1] = q[n]
      BY <1>2, <2>1
    <2>4. k < j <=> ~(n < i)
      BY <1>0 DEF j
    <2> QED BY <1>3, <2>2, <2>3, <2>4
  <1>6. u = [k \in 1 .. Len(u) |-> u[k]] /\ v = [k \in 1 .. Len(v) |-> v[k]]
    BY <1>3, <1>4, ByIndex
  <1>7. u = v
    BY <1>3, <1>4, <1>5, <1>6
  <1> QED BY <1>7 DEF u, v, t, r, j

LEMMA LostTail ==
    ASSUME NEW c \in Seq(Node), NEW i \in 1 .. Len(c), NEW h
    PROVE  /\ \A k \in 0 .. i - 1 : At(Lost(c, i), h, k) = At(c, h, k)
           /\ \A k \in i .. Len(c) : At(Lost(c, i), h, k) = At(c, h, k + 1)
           /\ \A k \in i .. Len(c) : SubSeq(Lost(c, i), k, Len(c) - 1) = SubSeq(c, k + 1, Len(c))
  <1> DEFINE t == Lost(c, i)
  <1>0. Len(c) \in Nat /\ i \in Nat /\ i <= Len(c) /\ 1 <= i /\ DOMAIN c = 1 .. Len(c)
    OBVIOUS
  <1>1. /\ t \in Seq(Node) /\ Len(t) = Len(c) - 1 /\ DOMAIN t = 1 .. Len(c) - 1
        /\ \A k \in 1 .. Len(c) - 1 : t[k] = IF k < i THEN c[k] ELSE c[k + 1]
    BY LostIs
  <1> HIDE DEF t
  <1>2. \A k \in 0 .. i - 1 : At(t, h, k) = At(c, h, k)
    BY <1>0, <1>1 DEF At
  <1>3. \A k \in i .. Len(c) : At(t, h, k) = At(c, h, k + 1)
    BY <1>0, <1>1 DEF At
  <1>5. \A k, j : Agree(t, k, c, j) => SubSeq(t, k, Len(t)) = SubSeq(c, j, Len(c))
    BY <1>1, RestSame
  <1>4. ASSUME NEW k \in i .. Len(c) PROVE SubSeq(t, k, Len(c) - 1) = SubSeq(c, k + 1, Len(c))
    <2> DEFINE j == k + 1
    <2>0. k \in Nat /\ 1 <= k /\ k <= Len(c) /\ Len(c) \in Nat
      BY <1>0
    <2>4. Len(t) + 1 = Len(c)
      BY <1>0, <1>1
    <2>1. /\ k \in 1 .. Len(t) + 1 /\ j \in 1 .. Len(c) + 1 /\ Len(t) + 1 - k = Len(c) + 1 - j
          /\ Len(t) + 1 - k = Len(c) - k
      <3>1. k \in 1 .. Len(c) /\ j \in 1 .. Len(c) + 1 /\ Len(c) - k = Len(c) + 1 - j
        BY <2>0
      <3> HIDE DEF j
      <3> QED BY <2>4, <3>1
    <2>2. ASSUME NEW n \in 1 .. Len(c) - k PROVE t[k + n - 1] = c[j + n - 1]
      <3>1. k + n - 1 \in 1 .. Len(c) - 1 /\ ~(k + n - 1 < i) /\ (k + n - 1) + 1 = j + n - 1
        BY <1>0
      <3> QED BY <1>1, <3>1
    <2> HIDE DEF j
    <2>5. Agree(t, k, c, j)
      BY <2>1, <2>2 DEF Agree
    <2>3. SubSeq(t, k, Len(t)) = SubSeq(c, j, Len(c))
      BY <1>5, <2>5
    <2>6. Len(t) = Len(c) - 1
      BY <1>1
    <2> QED BY <2>3, <2>6 DEF j
  <1> QED BY <1>2, <1>3, <1>4 DEF t

LoopRecord ==
    [head : RingHead, dir : {"next", "prev"}, pos : Place, n : Place, due : Seq(Node)]

\* Loop p is in front of the k-th node of course c, and the rest of c is due.
Stands(p, c, k) ==
    /\ k \in 1 .. Len(c) + 1 /\ p.n = At(c, p.head, k)
    /\ p.due = <<p.pos>> \o SubSeq(c, k, Len(c))
    /\ p.pos \in ToSet(c) => p.pos = At(c, p.head, k - 1)

LoopStands(p, s) ==
    /\ p \in LoopRecord
    /\ p.pos \in RingHead => p.pos = p.head /\ p.due = <<>>
    /\ p.pos \in Node => \E k : Stands(p, CourseOf(s, p.head, p.dir), k)

\* A loop that goes to the i-th node of its course.
LEMMA LoopGoes ==
    ASSUME NEW l, NEW s, HoldAll(l, s), NEW h \in RingHead, NEW dir \in {"next", "prev"},
           NEW c, c = CourseOf(s, h, dir), NEW i \in 1 .. Len(c) + 1, NEW p,
           p = [head |-> h, dir |-> dir, pos |-> At(c, h, i), n |-> l[dir][At(c, h, i)],
                due |-> SubSeq(c, i, Len(c))]
    PROVE  LoopStands(p, s)
  <1> DEFINE x == At(c, h, i)
  <1>1. Runs(l, s, h, dir, c)
    BY CourseRuns
  <1>2. /\ c \in Seq(Node) /\ Len(c) \in Nat
        /\ At(c, h, Len(c) + 1) = h /\ At(c, h, 0) = h
        /\ \A k \in 1 .. Len(c) : At(c, h, k) = c[k] /\ c[k] \in Node
        /\ \A k \in 0 .. Len(c) : l[dir][At(c, h, k)] = At(c, h, k + 1)
    <2>1. \A k \in 1 .. Len(c) : c[k] \in Node
      BY <1>1 DEF Runs
    <2> QED BY <1>1, <2>1 DEF Runs
  <1>3. p.head = h /\ p.dir = dir /\ p.pos = x /\ p.n = l[dir][x] /\ p.due = SubSeq(c, i, Len(c))
    OBVIOUS
  <1>4. h \notin Node /\ h \in Place /\ Node \subseteq Place
    BY Addresses DEF Place
  <1>0. Len(c) \in Nat
    BY <1>2
  <1>5. ASSUME NEW k \in 0 .. Len(c) + 1 PROVE At(c, h, k) \in Place
    <2>1. k \in 1 .. Len(c) \/ k = 0 \/ k = Len(c) + 1
      BY <1>0
    <2> QED BY <1>2, <1>4, <2>1
  <1>6. SubSeq(c, i, Len(c)) \in Seq(Node)
    BY <1>2, RestIs
  <1>7. l[dir][x] \in Place /\ x \in Place
    <2>1. CASE i \in 0 .. Len(c)
      <3>1. i + 1 \in 0 .. Len(c) + 1 /\ i \in 0 .. Len(c) + 1
        BY <1>0, <2>1
      <3> QED BY <1>2, <1>5, <2>1, <3>1
    <2>2. CASE i \notin 0 .. Len(c)
      <3>1. i = Len(c) + 1
        BY <1>2, <2>2
      <3>2. x = h
        BY <1>2, <3>1
      <3>3. 0 \in 0 .. Len(c) /\ 0 + 1 \in 0 .. Len(c) + 1
        BY <1>2
      <3> QED BY <1>2, <1>4, <1>5, <3>2, <3>3
    <2> QED BY <2>1, <2>2
  <1>8. p \in LoopRecord
    BY <1>6, <1>7 DEF LoopRecord
  <1>9. CASE i \in 1 .. Len(c)
    <2>1. x \in Node /\ x = c[i] /\ x \notin RingHead
      BY <1>2, <1>9, Addresses
    <2> DEFINE k == i + 1
    <2>2. k \in 1 .. Len(c) + 1 /\ k - 1 = i /\ i \in 0 .. Len(c)
      BY <1>2, <1>9
    <2>3. Len(c) \in i .. Len(c) /\ SubSeq(c, i, Len(c)) = <<c[i]>> \o SubSeq(c, i + 1, Len(c))
      <3>1. Len(c) \in i .. Len(c)
        BY <1>2, <1>9
      <3> QED BY <1>2, <1>9, <3>1, SubSeqRecursiveFirst
    <2>4. Stands(p, c, k)
      BY <1>2, <1>3, <2>1, <2>2, <2>3 DEF Stands
    <2> QED BY <1>3, <1>8, <2>1, <2>4 DEF LoopStands
  <1>10. CASE i \notin 1 .. Len(c)
    <2>1. i = Len(c) + 1 /\ Len(c) < i /\ i \in Int /\ Len(c) \in Int
      BY <1>2, <1>10
    <2>2. x = h
      BY <1>2, <2>1
    <2>3. SubSeq(c, i, Len(c)) = <<>>
      BY <2>1, SubSeqEmpty
    <2> QED BY <1>3, <1>4, <1>8, <2>2, <2>3 DEF LoopStands
  <1> QED BY <1>9, <1>10

LEMMA PlaceIs ==
    ASSUME NEW q \in Seq(Node), IsInjective(q), NEW i \in 1 .. Len(q)
    PROVE  PlaceOf(q, q[i]) = i
  BY DEF PlaceOf, IsInjective

\* LoopStart: at an end, at an entry or behind one.
LEMMA LoopStarted ==
    ASSUME HoldAll(ring, seq), LoopStart
    PROVE  LoopStands(loop', seq)
  <1>1. PICK h \in RingHead, dir \in {"next", "prev"} :
          \/ StartAt(h, dir, ring[dir][h], Course(h, dir))
          \/ \E x \in ToSet(seq[h]) :
                /\ dir = "next"
                /\ \/ StartAt(h, dir, x, CourseFrom(seq[h], x))
                   \/ StartAt(h, dir, ring.next[x], Tail(CourseFrom(seq[h], x)))
    BY DEF LoopStart
  <1> DEFINE c == CourseOf(seq, h, dir)
  <1>2. Runs(ring, seq, h, dir, c)
    BY CourseRuns
  <1> HIDE DEF c
  <1>3. \A i \in 1 .. Len(c) + 1 : StartAt(h, dir, At(c, h, i), SubSeq(c, i, Len(c))) => LoopStands(loop', seq)
    BY LoopGoes DEF StartAt, c
  <1>4. /\ c \in Seq(Node) /\ Len(c) \in Nat /\ IsInjective(c)
        /\ DOMAIN c = 1 .. Len(c)
        /\ At(c, h, 0) = h
        /\ \A k \in 1 .. Len(c) : At(c, h, k) = c[k]
        /\ \A k \in 0 .. Len(c) : ring[dir][At(c, h, k)] = At(c, h, k + 1)
    BY <1>2 DEF Runs
  <1>5. CASE StartAt(h, dir, ring[dir][h], Course(h, dir))
    <2>1. Course(h, dir) = SubSeq(c, 1, Len(c))
      BY <1>4, SubSeqFull DEF Course, CourseOf, c
    <2>2. ring[dir][h] = At(c, h, 1) /\ 1 \in 1 .. Len(c) + 1
      BY <1>4
    <2> QED BY <1>3, <1>5, <2>1, <2>2
  <1>6. CASE \E x \in ToSet(seq[h]) :
                /\ dir = "next"
                /\ \/ StartAt(h, dir, x, CourseFrom(seq[h], x))
                   \/ StartAt(h, dir, ring.next[x], Tail(CourseFrom(seq[h], x)))
    <2>1. dir = "next" /\ seq[h] = c
      BY <1>6 DEF c, CourseOf
    <2>2. PICK i \in 1 .. Len(c) :
                \/ StartAt(h, dir, c[i], CourseFrom(c, c[i]))
                \/ StartAt(h, dir, ring.next[c[i]], Tail(CourseFrom(c, c[i])))
      BY <1>4, <1>6, <2>1 DEF ToSet
    <2>3. CourseFrom(c, c[i]) = SubSeq(c, i, Len(c))
      BY <1>4, PlaceIs DEF CourseFrom
    <2>4. i \in 1 .. Len(c) + 1 /\ i + 1 \in 1 .. Len(c) + 1 /\ i \in 0 .. Len(c) /\ Len(c) \in i .. Len(c)
      BY <1>4
    <2>5. ring.next[c[i]] = At(c, h, i + 1) /\ c[i] = At(c, h, i)
      BY <1>4, <2>1, <2>4
    <2>6. Tail(SubSeq(c, i, Len(c))) = SubSeq(c, i + 1, Len(c))
      BY <1>4, <2>4, HeadTailOfSubSeq
    <2> QED BY <1>3, <2>2, <2>3, <2>4, <2>5, <2>6
  <1> QED BY <1>1, <1>5, <1>6

\* LoopNext.
LEMMA LoopWent ==
    ASSUME HoldAll(ring, seq), LoopStands(loop, seq), LoopNext
    PROVE  LoopStands(loop', seq)
  <1> DEFINE h == loop.head
             c == CourseOf(seq, h, loop.dir)
  <1>1. loop \in LoopRecord /\ loop.pos # h /\ StartAt(h, loop.dir, loop.n, Tail(loop.due))
    BY DEF LoopStands, LoopNext
  <1>2. h \in RingHead /\ loop.dir \in {"next", "prev"} /\ loop.pos \in Node
    BY <1>1 DEF LoopRecord, LoopStands, Place
  <1>3. PICK k : Stands(loop, c, k)
    BY <1>2 DEF LoopStands
  <1>4. c \in Seq(Node)
    BY <1>2, CourseRuns DEF Runs
  <1> HIDE DEF c
  <1>5. /\ k \in 1 .. Len(c) + 1 /\ loop.n = At(c, h, k)
        /\ loop.due = <<loop.pos>> \o SubSeq(c, k, Len(c))
    BY <1>3 DEF Stands
  <1>6. SubSeq(c, k, Len(c)) \in Seq(Node)
    BY <1>4, <1>5, RestIs
  <1>7. Tail(loop.due) = SubSeq(c, k, Len(c))
    <2> DEFINE r == SubSeq(c, k, Len(c))
    <2>1. \A r2 \in Seq(Node) : Tail(<<loop.pos>> \o r2) = r2
      BY <1>2
    <2> HIDE DEF r
    <2> QED BY <1>5, <1>6, <2>1 DEF r
  <1>8. loop' = [head |-> h, dir |-> loop.dir, pos |-> At(c, h, k), n |-> ring[loop.dir][At(c, h, k)],
                 due |-> SubSeq(c, k, Len(c))]
    BY <1>1, <1>5, <1>7 DEF StartAt
  <1> QED BY <1>2, <1>5, <1>8, LoopGoes DEF c

\* An entry that leaves ring h leaves its course, in either direction.
LEMMA CourseLoses ==
    ASSUME NEW l, NEW s, HoldAll(l, s), NEW h \in RingHead, NEW x \in ToSet(s[h]),
           NEW dir \in {"next", "prev"}
    PROVE  \E i \in 1 .. Len(CourseOf(s, h, dir)) :
              /\ CourseOf(s, h, dir)[i] = x
              /\ CourseOf(Without(s, x), h, dir) = Lost(CourseOf(s, h, dir), i)
  <1> DEFINE q == s[h]
  <1>1. PICK g, k : Found(l, s, x, g, k)
    BY FindEntry DEF Entries
  <1>2. /\ g \in RingHead /\ k \in 1 .. Len(s[g]) /\ s[g][k] = x /\ x \in ToSet(s[g])
        /\ \A r \in Seq(Node) : InsteadOf(s, x, r) = [s EXCEPT ![g] = Spliced(s[g], k - 1, r, k + 1)]
    BY <1>1 DEF Found
  <1>3. g = h
    BY <1>2 DEF HoldAll
  <1>4. q \in Seq(Node) /\ s \in [RingHead -> Seq(Node)] /\ Len(q) \in Nat
    BY RingNodes DEF HoldAll
  <1>5. Without(s, x)[h] = Lost(q, k)
    <2>1. <<>> \in Seq(Node)
      OBVIOUS
    <2>2. Without(s, x) = [s EXCEPT ![h] = Spliced(q, k - 1, <<>>, k + 1)]
      BY <1>2, <1>3, <2>1, Zenon DEF Without
    <2> QED BY <1>4, <2>2 DEF Lost
  <1>6. k \in 1 .. Len(q) /\ q[k] = x
    BY <1>2, <1>3
  <1>7. CASE dir = "next"
    BY <1>5, <1>6, <1>7 DEF CourseOf
  <1>8. CASE dir = "prev"
    <2> HIDE DEF q
    <2> DEFINE i == Len(q) + 1 - k
    <2>1. i \in 1 .. Len(q) /\ Len(q) + 1 - i = k
      BY <1>4, <1>6
    <2>2. Reverse(q) \in Seq(Node) /\ Len(Reverse(q)) = Len(q) /\ \A n \in 1 .. Len(q) : Reverse(q)[n] = q[Len(q) + 1 - n]
      BY <1>4, Reversed
    <2>3. Reverse(Lost(q, k)) = Lost(Reverse(q), i)
      BY <1>4, <1>6, LostReversed
    <2>4. CourseOf(s, h, dir) = Reverse(q) /\ CourseOf(Without(s, x), h, dir) = Reverse(Lost(q, k))
      BY <1>5, <1>8 DEF CourseOf, q
    <2> HIDE DEF i
    <2>5. Reverse(q)[i] = x /\ i \in 1 .. Len(Reverse(q))
      BY <1>6, <2>1, <2>2
    <2> QED BY <2>3, <2>4, <2>5
  <1> QED BY <1>7, <1>8

\* LoopRemove: the entry that is met is taken out.
LEMMA LoopLost ==
    ASSUME NEW p, LoopStands(p, seq), HoldAll(ring, seq), p.pos \in ToSet(seq[p.head]),
           NEW t, t[p.head] = Without(seq, p.pos)[p.head], p.pos \notin ToSet(t[p.head]),
           HoldAll(ring', t)
    PROVE  LoopStands(p, t)
  <1> DEFINE h == p.head
             dir == p.dir
             c == CourseOf(seq, h, dir)
             d == CourseOf(t, h, dir)
  <1>1. p \in LoopRecord /\ h \in RingHead /\ dir \in {"next", "prev"}
    BY DEF LoopStands, LoopRecord
  <1>2. p.pos \in Node /\ p.pos \notin RingHead
    BY <1>1, RingNodes, Addresses
  <1>3. PICK k : Stands(p, c, k)
    BY <1>2 DEF LoopStands
  <1>4. PICK i \in 1 .. Len(c) : c[i] = p.pos /\ CourseOf(Without(seq, p.pos), h, dir) = Lost(c, i)
    BY <1>1, CourseLoses
  <1>5. d = Lost(c, i)
    BY <1>4 DEF CourseOf
  <1>6. /\ c \in Seq(Node) /\ Len(c) \in Nat /\ IsInjective(c) /\ DOMAIN c = 1 .. Len(c)
        /\ ToSet(c) = ToSet(seq[h]) /\ At(c, h, 0) = h
        /\ \A n \in 1 .. Len(c) : At(c, h, n) = c[n]
    BY <1>1, CourseRuns DEF Runs
  <1>7. ToSet(d) = ToSet(t[h])
    BY <1>1, CourseRuns DEF Runs
  <1> HIDE DEF c, d
  <1>8. /\ k \in 1 .. Len(c) + 1 /\ p.n = At(c, h, k) /\ p.due = <<p.pos>> \o SubSeq(c, k, Len(c))
        /\ p.pos = At(c, h, k - 1)
    BY <1>3, <1>6 DEF Stands
  <1>9. i = k - 1
    <2>1. k - 1 \in 1 .. Len(c)
      <3>1. k - 1 # 0
        BY <1>1, <1>2, <1>6, <1>8
      <3>2. k \in 1 .. Len(c) + 1 /\ Len(c) \in Nat
        BY <1>6, <1>8
      <3> QED BY <3>1, <3>2
    <2>2. c[k - 1] = c[i]
      BY <1>4, <1>6, <1>8, <2>1
    <2> QED BY <1>4, <1>6, <2>1, <2>2 DEF IsInjective
  <1>10. /\ Len(d) = Len(c) - 1 /\ \A n \in i .. Len(c) : At(d, h, n) = At(c, h, n + 1)
         /\ \A n \in i .. Len(c) : SubSeq(d, n, Len(c) - 1) = SubSeq(c, n + 1, Len(c))
    BY <1>4, <1>5, <1>6, LostIs, LostTail
  <1>11. /\ i \in i .. Len(c) /\ i + 1 = k /\ i \in 1 .. (Len(c) - 1) + 1
    BY <1>4, <1>6, <1>9, <1>8
  <1>12. SubSeq(d, i, Len(d)) = SubSeq(c, k, Len(c)) /\ At(d, h, i) = At(c, h, k) /\ i \in 1 .. Len(d) + 1
    BY <1>10, <1>11
  <1>13. Stands(p, d, i)
    BY <1>7, <1>8, <1>12 DEF Stands
  <1> QED BY <1>1, <1>2, <1>13 DEF LoopStands, d

\* What remains of the sequences when an entry is taken out.
LEMMA Left ==
    ASSUME NEW l, NEW s, HoldAll(l, s), NEW x \in Entries(s)
    PROVE  Without(s, x) \in [RingHead -> Seq(Node)] /\ Entries(Without(s, x)) = Entries(s) \ {x}
  <1>1. list_del_entry(l, x) \in Memory
    BY TakenType
  <1>2. SameBut(list_del_entry(l, x), list_del_entry(l, x), Place, x)
    BY DEF SameBut
  <1> QED BY <1>1, <1>2, Removed DEF HoldAll

LEMMA CourseNodes ==
    ASSUME NEW l, NEW s, NEW h \in RingHead, NEW dir, NEW c, Runs(l, s, h, dir, c),
           NEW k \in 0 .. Len(c) + 1
    PROVE  At(c, h, k) \in Place
  <1>1. /\ c \in Seq(Node) /\ At(c, h, 0) = h /\ At(c, h, Len(c) + 1) = h
        /\ \A n \in 1 .. Len(c) : At(c, h, n) = c[n]
    BY DEF Runs
  <1>2. Len(c) \in Nat
    BY DEF Runs
  <1>3. k \in 1 .. Len(c) \/ k = 0 \/ k = Len(c) + 1
    BY <1>2
  <1>4. \A n \in 1 .. Len(c) : c[n] \in Node
    BY <1>1
  <1> QED BY <1>1, <1>3, <1>4 DEF Place

\* What is due, when the entry behind the loop's is taken out.
LEMMA DueLost ==
    ASSUME NEW c \in Seq(Node), IsInjective(c), NEW k \in 1 .. Len(c), NEW x \in Node, x # c[k]
    PROVE  Instead(<<x>> \o SubSeq(c, k, Len(c)), c[k], <<>>) = <<x>> \o SubSeq(c, k + 1, Len(c))
  <1> DEFINE r == SubSeq(c, k, Len(c))
             e == SubSeq(c, k + 1, Len(c))
             w == <<x>>
             d == w \o r
             m == Len(c) + 1 - k
  <1>0. Len(c) \in Nat /\ DOMAIN c = 1 .. Len(c) /\ k \in 1 .. Len(c) + 1 /\ m \in Nat /\ 1 <= m
    OBVIOUS
  <1>1. r \in Seq(Node) /\ Len(r) = m /\ \A n \in 1 .. m : r[n] = c[k + n - 1]
    BY <1>0, RestIs
  <1>2. w \in Seq(Node) /\ Len(w) = 1 /\ w[1] = x
    OBVIOUS
  <1>3. e = Tail(r) /\ r # <<>>
    <2>1. Len(c) \in k .. Len(c)
      BY <1>0
    <2>2. e = Tail(r)
      BY <2>1, HeadTailOfSubSeq
    <2> HIDE DEF r
    <2>3. r # <<>>
      BY <1>0, <1>1, EmptySeq
    <2> QED BY <2>2, <2>3
  <1>4. c[k] = r[1] /\ \A n \in 1 .. m : r[n] = c[k] => n = 1
    <2>1. \A n \in 1 .. m : k + n - 1 \in 1 .. Len(c) /\ (k + n - 1 = k => n = 1)
      BY <1>0
    <2>2. 1 \in 1 .. m /\ k + 1 - 1 = k
      BY <1>0
    <2> HIDE DEF m, r
    <2>3. \A n \in 1 .. m : r[n] = c[k] => k + n - 1 = k
      BY <1>0, <1>1, <2>1 DEF IsInjective
    <2>4. c[k] = r[1]
      BY <1>1, <2>2
    <2> QED BY <2>1, <2>3, <2>4
  <1> HIDE DEF r, e, w, m
  <1>5. /\ d \in Seq(Node) /\ Len(d) = 1 + m /\ DOMAIN d = 1 .. 1 + m
        /\ d[1] = x /\ \A n \in 2 .. 1 + m : d[n] = r[n - 1]
    <2>1. d \in Seq(Node) /\ Len(d) = Len(w) + Len(r)
          /\ \A n \in 1 .. Len(w) + Len(r) : d[n] = IF n <= Len(w) THEN w[n] ELSE r[n - Len(w)]
      BY <1>1, <1>2, ConcatProperties
    <2> HIDE DEF d
    <2>2. Len(w) + Len(r) = 1 + m
      BY <1>1, <1>2
    <2>3. \A n \in 1 .. 1 + m : d[n] = IF n <= 1 THEN w[n] ELSE r[n - 1]
      BY <1>2, <2>1, <2>2
    <2>4. d[1] = x /\ \A n \in 2 .. 1 + m : d[n] = r[n - 1]
      BY <1>0, <1>2, <2>3
    <2>5. DOMAIN d = 1 .. Len(d)
      BY <2>1
    <2> QED BY <2>1, <2>2, <2>4, <2>5
  <1> HIDE DEF d
  <1>6. 2 \in DOMAIN d /\ d[2] = c[k] /\ \A n \in DOMAIN d : d[n] = c[k] => n = 2
    <2>1. 2 \in 1 .. 1 + m /\ 2 \in 2 .. 1 + m /\ 2 - 1 = 1
      BY <1>0
    <2>2. d[2] = c[k]
      BY <1>4, <1>5, <2>1
    <2>3. ASSUME NEW n \in 1 .. 1 + m, d[n] = c[k] PROVE n = 2
      <3>1. n # 1
        BY <1>5, <2>3
      <3>2. n \in 2 .. 1 + m /\ n - 1 \in 1 .. m
        BY <1>0, <3>1
      <3>3. r[n - 1] = c[k]
        BY <1>5, <2>3, <3>2
      <3>4. n - 1 = 1
        BY <1>4, <3>2, <3>3
      <3> QED BY <3>2, <3>4
    <2> QED BY <1>5, <2>1, <2>2, <2>3
  <1>7. PlaceOf(d, c[k]) = 2 /\ c[k] \in ToSet(d)
    BY <1>6 DEF PlaceOf, ToSet
  <1>8. Instead(d, c[k], <<>>) = (SubSeq(d, 1, 1) \o <<>>) \o SubSeq(d, 3, Len(d))
    <2>1. Len(<<c[k]>>) = 1
      OBVIOUS
    <2> QED BY <1>7, <2>1 DEF Instead, ReplaceSubSeqAt
  <1>9. SubSeq(d, 1, 1) = w
    <2>1. 1 \in 1 .. Len(d)
      BY <1>0, <1>5
    <2>2. SubSeq(d, 1, 1) \in Seq(Node) /\ Len(SubSeq(d, 1, 1)) = 1 /\ SubSeq(d, 1, 1)[1] = d[1]
      BY <1>5, <2>1
    <2> DEFINE u == SubSeq(d, 1, 1)
    <2>3. u \in Seq(Node) /\ Len(u) = 1 /\ u[1] = x
      BY <1>5, <2>2
    <2> HIDE DEF u
    <2>4. u = [n \in 1 .. Len(u) |-> u[n]] /\ w = [n \in 1 .. Len(w) |-> w[n]]
      BY <1>2, <2>3, ByIndex
    <2>5. u = w
      BY <1>2, <2>3, <2>4
    <2> QED BY <2>5 DEF u
  <1>10. SubSeq(d, 3, Len(d)) = e
    <2>1. Len(d) + 1 - 3 = Len(r) + 1 - 2 /\ 3 \in 1 .. Len(d) + 1 /\ 2 \in 1 .. Len(r) + 1
          /\ Len(d) + 1 - 3 = m - 1
      BY <1>0, <1>1, <1>5
    <2>2. ASSUME NEW n \in 1 .. m - 1 PROVE d[3 + n - 1] = r[2 + n - 1]
      <3>1. 3 + n - 1 \in 2 .. 1 + m /\ (3 + n - 1) - 1 = 2 + n - 1
        BY <1>0
      <3> QED BY <1>5, <3>1
    <2>3. Agree(d, 3, r, 2)
      BY <2>1, <2>2 DEF Agree
    <2>4. SubSeq(d, 3, Len(d)) = SubSeq(r, 2, Len(r))
      BY <1>1, <1>5, <2>3, RestSame
    <2> QED BY <1>1, <1>3, <2>4, TailIsSubSeq
  <1>11. w \o <<>> = w
    BY <1>2, ConcatEmptySeq
  <1> QED BY <1>8, <1>9, <1>10, <1>11 DEF d, w, r, e

-----------------------------------------------------------------------------
(* k_list_empty_careful, and the loops. *)

\* A field that was loaded still points at the entry.
LookInv ==
    look # NULL => /\ look \in [entry : Node, left : SUBSET careful_fields]
                   /\ \A f \in careful_fields \ look.left : ring[f][look.entry] = look.entry

LoopInv == loop # NULL => deleting = NULL /\ LoopStands(loop, seq)

\* The entry of a look that has loaded a field is in no ring.
LEMMA LookedAway ==
    ASSUME HoldAll(ring, seq), LookInv, look # NULL, look.entry \in Entries(seq)
    PROVE  careful_fields \ look.left = {}
  <1>1. ring.next[look.entry] # look.entry /\ ring.prev[look.entry] # look.entry
    BY TakenType
  <1> QED BY <1>1 DEF LookInv, careful_fields

LEMMA LookKept ==
    ASSUME HoldAll(ring, seq), LookInv, Tidy, look' = look
    PROVE  LookInv'
  <1> SUFFICES ASSUME look # NULL
      PROVE  \A f \in careful_fields \ look.left : ring'[f][look.entry] = look.entry
    BY DEF LookInv, careful_fields
  <1>1. look.entry \in Node
    BY DEF LookInv
  <1>2. CASE look.entry \in Entries(seq)
    BY <1>2, LookedAway
  <1>3. CASE look.entry \notin Entries(seq)
    <2>1. PICK E : Edited(ring, ring', seq', E) /\ \A x \in E : x \in Entries(seq) \/ MayGo(x)
      BY DEF Tidy
    <2>2. look.entry \notin E
      BY <1>3, <2>1 DEF MayGo
    <2>3. ring'.next[look.entry] = ring.next[look.entry] /\ ring'.prev[look.entry] = ring.prev[look.entry]
      BY <1>1, <2>1, <2>2 DEF Edited, Apart
    <2> QED BY <2>3 DEF LookInv, careful_fields
  <1> QED BY <1>2, <1>3

\* A store of the deletion either makes its entry point at itself, or is to a neighbour,
\* which was pointing at the entry.
LEMMA LookStored ==
    ASSUME RingsInv, LookInv, StoreDelInit
    PROVE  LookInv'
  <1> SUFFICES ASSUME look # NULL
      PROVE  \A f \in careful_fields \ look.left : ring'[f][look.entry] = look.entry
    BY DEF LookInv, careful_fields, StoreDelInit
  <1> DEFINE d == deleting
             e == d.entry
             left == d.left
             y == look.entry
  <1>1. d \in Deletion
    BY DEF RingsInv, StoreDelInit
  <1>2. PICK l : Begun(l, ring, seq, d)
    BY DEF RingsInv, StoreDelInit
  <1>3. PICK s \in Ready(left) : ring' = Stored(ring, s, d)
    BY StoreIs
  <1>4. left \in Remaining
    BY <1>1 DEF Deletion
  <1>5. y \in Node /\ y \in Place
    BY DEF LookInv, Place
  <1>6. \A f \in careful_fields \ look.left : ring[f][y] = y
    BY DEF LookInv
  <1> HIDE DEF d, e, left, y
  <1>7. s \in Store /\ s \in left
    BY <1>3, <1>4, InOrder
  <1>8. /\ HoldAll(l, seq) /\ ring \in Memory
        /\ e \in Entries(seq) /\ d.prev = l.prev[e] /\ d.next = l.next[e]
        /\ ring.next[y] = IF y = e THEN (IF "e.next" \in left THEN l.next[y] ELSE y)
                          ELSE IF y = d.prev /\ "prev.next" \notin left THEN d.next ELSE l.next[y]
        /\ ring.prev[y] = IF y = e THEN (IF "e.prev" \in left THEN l.prev[y] ELSE y)
                          ELSE IF y = d.next /\ "next.prev" \notin left THEN d.prev ELSE l.prev[y]
    BY <1>2, <1>5 DEF Begun, e, left
  <1>9. d.next # e /\ d.prev # e /\ e \in Node
    BY <1>8, EntryNeighbours
  <1>10. /\ ring'.next[y] = IF s = "prev.next" /\ y = d.prev THEN d.next
                                   ELSE IF s = "e.next" /\ y = e THEN y ELSE ring.next[y]
         /\ ring'.prev[y] = IF s = "next.prev" /\ y = d.next THEN d.prev
                                   ELSE IF s = "e.prev" /\ y = e THEN y ELSE ring.prev[y]
    BY <1>1, <1>3, <1>5, <1>7, <1>8, StoreSteps DEF e
  <1>11. /\ y = d.prev => l.next[y] = e
         /\ y = d.next => l.prev[y] = e
    <2>1. PICK g, k : Found(l, seq, e, g, k)
      BY <1>8, FindEntry
    <2>2. /\ g \in RingHead /\ k \in 1 .. Len(seq[g]) /\ seq[g][k] = e
          /\ l.prev[e] = At(seq[g], g, k - 1) /\ l.next[e] = At(seq[g], g, k + 1)
      BY <2>1 DEF Found
    <2>3. /\ Len(seq[g]) \in Nat /\ At(seq[g], g, k) = seq[g][k]
          /\ \A c \in 0 .. Len(seq[g]) : /\ l.next[At(seq[g], g, c)] = At(seq[g], g, c + 1)
                                         /\ l.prev[At(seq[g], g, c + 1)] = At(seq[g], g, c)
      <3>1. HoldAll(l, seq) /\ g \in RingHead /\ k \in 1 .. Len(seq[g])
        BY <1>8, <2>2
      <3>2. Len(seq[g]) \in Nat /\ At(seq[g], g, k) = seq[g][k]
        BY <3>1, RingNodes
      <3>3. Holds(l, g, seq[g])
        BY <3>1 DEF HoldAll
      <3> QED BY <3>2, <3>3 DEF Holds
    <2>4. k - 1 \in 0 .. Len(seq[g]) /\ (k - 1) + 1 = k /\ k \in 0 .. Len(seq[g])
      BY <2>2, <2>3
    <2> QED BY <1>8, <2>2, <2>3, <2>4
  <1>12. "next" \notin look.left => ring'.next[y] = y
    <2> SUFFICES ASSUME "next" \notin look.left PROVE ring'.next[y] = y
      OBVIOUS
    <2>1. ring.next[y] = y
      BY <1>6 DEF careful_fields
    <2>2. ~(s = "prev.next" /\ y = d.prev)
      BY <1>7, <1>8, <1>9, <1>11, <2>1
    <2> QED BY <1>10, <2>1, <2>2
  <1>13. "prev" \notin look.left => ring'.prev[y] = y
    <2> SUFFICES ASSUME "prev" \notin look.left PROVE ring'.prev[y] = y
      OBVIOUS
    <2>1. ring.prev[y] = y
      BY <1>6 DEF careful_fields
    <2>2. ~(s = "next.prev" /\ y = d.next)
      BY <1>7, <1>8, <1>9, <1>11, <2>1
    <2> QED BY <1>10, <2>1, <2>2
  <1> QED BY <1>12, <1>13 DEF careful_fields, y

\* When the answer is yes, the entry is in no ring and is not the one of a deletion.
LEMMA YesMeansOff ==
    ASSUME RingsInv, LookInv, SaidEmpty
    PROVE  CarefulMeansDone
  <1> DEFINE y == look.entry
  <1>1. ring.next[y] = y /\ ring.prev[y] = y /\ y \in Node /\ y \in Place
    BY DEF LookInv, SaidEmpty, careful_fields, Place
  <1>2. CASE deleting = NULL
    <2>1. y \notin Entries(seq)
      BY <1>1, <1>2, TakenType DEF RingsInv
    <2> QED BY <1>2, <2>1, ListedIs DEF CarefulMeansDone
  <1>3. CASE deleting # NULL
    <2> DEFINE d == deleting
               e == d.entry
               left == d.left
    <2>1. PICK l : Begun(l, ring, seq, d)
      BY <1>3 DEF RingsInv
    <2>2. d \in Deletion
      BY <1>3 DEF RingsInv
    <2> HIDE DEF d
    <2>3. /\ HoldAll(l, seq) /\ e \in Entries(seq) /\ d.prev = l.prev[e] /\ d.next = l.next[e]
          /\ ring.next[y] = IF y = e THEN (IF "e.next" \in left THEN l.next[y] ELSE y)
                            ELSE IF y = d.prev /\ "prev.next" \notin left THEN d.next ELSE l.next[y]
          /\ ring.prev[y] = IF y = e THEN (IF "e.prev" \in left THEN l.prev[y] ELSE y)
                            ELSE IF y = d.next /\ "next.prev" \notin left THEN d.prev ELSE l.prev[y]
      BY <1>1, <2>1 DEF Begun
    <2>4. /\ d.next = d.prev => d.next \notin Node
          /\ l.next[e] # e /\ l.prev[e] # e
      BY <2>3, EntryNeighbours
    <2>5. "e.next" \in left \/ "e.prev" \in left
      BY <2>2 DEF Deletion, Remaining, Store
    <2>6. y # e
      BY <1>1, <2>3, <2>4, <2>5
    <2>7. y \notin Entries(seq)
      <3> SUFFICES ASSUME y \in Entries(seq) PROVE FALSE
        OBVIOUS
      <3>1. l.next[y] # y /\ l.prev[y] # y
        BY <2>3, EntryNeighbours
      <3>2. d.next = y /\ d.prev = y
        BY <1>1, <2>3, <2>6, <3>1
      <3> QED BY <1>1, <2>4, <3>2
    <2> QED BY <2>6, <2>7, ListedIs DEF CarefulMeansDone, d
  <1> QED BY <1>2, <1>3

-----------------------------------------------------------------------------
(* The invariant. *)

RingInv == RingsInv /\ LookInv /\ LoopInv

RingVars == <<ring, seq, deleting, look, loop>>

LEMMA InitRings ==
    ASSUME Init PROVE RingInv
  <1>1. ring \in Memory
    BY DEF Init, Memory, Place, Poison
  <1>2. seq \in [RingHead -> Seq(Node)] /\ \A h \in RingHead : seq[h] = <<>>
    BY DEF Init
  <1>3. \A h \in RingHead : ring.next[h] = h /\ ring.prev[h] = h
    BY DEF Init, Place
  <1>4. \A h \in RingHead : Holds(ring, h, seq[h])
    BY <1>2, <1>3 DEF Holds, At, IsInjective
  <1>5. HoldAll(ring, seq)
    BY <1>1, <1>2, <1>4 DEF HoldAll, ToSet
  <1> QED BY <1>5 DEF RingInv, RingsInv, LookInv, LoopInv, Init

LEMMA SameRings ==
    ASSUME RingInv, UNCHANGED RingVars PROVE RingInv'
  BY DEF RingInv, RingVars, RingsInv, LookInv, LoopInv, Begun

LEMMA CallKeeps ==
    ASSUME RingInv, RingCall, Tidy PROVE RingInv'
  <1>1. HoldAll(ring, seq) /\ look' = look /\ deleting' = NULL /\ loop' = NULL
    BY DEF RingInv, RingsInv, RingCall, rings
  <1>2. HoldAll(ring', seq')
    BY DEF Tidy, Edited
  <1>3. LookInv'
    BY <1>1, LookKept DEF RingInv
  <1> QED BY <1>1, <1>2, <1>3 DEF RingInv, RingsInv, LoopInv

\* The body of a loop takes its entry out: the loop's next entry needs no more reading.
LEMMA LoopRemoveKeeps ==
    ASSUME RingInv, LoopRemove PROVE RingInv'
  <1> DEFINE p == loop.pos
             g == loop.head
  <1>1. /\ HoldAll(ring, seq) /\ loop # NULL /\ LoopStands(loop, seq)
        /\ look' = look /\ loop' = loop /\ deleting' = NULL /\ p \in ToSet(seq[g])
    BY DEF RingInv, RingsInv, LoopInv, LoopRemove, rings
  <1>2. g \in RingHead
    BY <1>1 DEF LoopStands, LoopRecord
  <1>3. Tidy
    BY <1>1, <1>2, TidyRemove
  <1>4. HoldAll(ring', seq')
    BY <1>3 DEF Tidy, Edited
  <1>5. LookInv'
    BY <1>1, <1>3, LookKept DEF RingInv
  <1>6. p \in Entries(seq)
    BY <1>1, <1>2 DEF Entries
  <1>7. /\ Without(seq, p) \in [RingHead -> Seq(Node)]
        /\ Entries(Without(seq, p)) = Entries(seq) \ {p}
    BY <1>1, <1>6, Left
  <1>8. seq'[g] = Without(seq, p)[g]
    <2>1. CASE seq' = Without(seq, p)
      BY <2>1
    <2>2. CASE \E h \in RingHead \ {g} : seq' = Behind(Without(seq, p), h, <<p>>)
      <3>1. PICK h \in RingHead \ {g} : seq' = Behind(Without(seq, p), h, <<p>>)
        BY <2>2
      <3> DEFINE t == Without(seq, p)
      <3>2. seq' = [t EXCEPT ![h] = <<p>> \o @]
        BY <1>7, <3>1 DEF Behind
      <3> HIDE DEF t
      <3> QED BY <1>2, <1>7, <3>1, <3>2 DEF t
    <2>3. seq' = Without(seq, p) \/ \E h \in RingHead \ {g} : seq' = Behind(Without(seq, p), h, <<p>>)
      BY DEF LoopRemove, Edit
    <2> QED BY <2>1, <2>2, <2>3
  <1>9. p \notin ToSet(seq'[g])
    BY <1>2, <1>7, <1>8 DEF Entries
  <1>10. LoopStands(loop, seq')
    BY <1>1, <1>4, <1>8, <1>9, LoopLost
  <1> QED BY <1>1, <1>4, <1>5, <1>10 DEF RingInv, RingsInv, LoopInv

\* The body takes the entry behind its own out, and reads the one behind that.
LEMMA LoopRemoveNextKeeps ==
    ASSUME RingInv, LoopRemoveNext PROVE RingInv'
  <1> DEFINE h == loop.head
             x == loop.pos
             y == loop.n
             c == seq[h]
             d == seq'[h]
  <1>1. /\ HoldAll(ring, seq) /\ loop # NULL /\ LoopStands(loop, seq)
        /\ look' = look /\ deleting' = NULL /\ loop.dir = "next" /\ loop.dir \in {"next", "prev"}
        /\ x \in ToSet(c) /\ y # h
        /\ loop' = [loop EXCEPT !.n = ring'.next[loop.pos], !.due = Instead(@, loop.n, <<>>)]
        /\ Edit(k_list_del(ring, y), Without(seq, y))
    BY DEF RingInv, RingsInv, LoopInv, LoopRemoveNext, k_list_safe_reset_next
  <1>2. h \in RingHead /\ loop \in LoopRecord
    BY <1>1 DEF LoopStands, LoopRecord
  <1>3. x \in Node /\ x \notin RingHead
    BY <1>1, <1>2, RingNodes, Addresses
  <1>4. PICK k : Stands(loop, c, k)
    BY <1>1, <1>3 DEF LoopStands, CourseOf
  <1>5. Runs(ring, seq, h, "next", c)
    <2>1. c = CourseOf(seq, h, "next")
      BY DEF CourseOf
    <2> QED BY <1>1, <1>2, <2>1, CourseRuns
  <1>6. /\ c \in Seq(Node) /\ Len(c) \in Nat /\ IsInjective(c) /\ DOMAIN c = 1 .. Len(c)
        /\ At(c, h, 0) = h /\ At(c, h, Len(c) + 1) = h
        /\ \A n \in 1 .. Len(c) : At(c, h, n) = c[n] /\ c[n] \in ToSet(c)
        /\ \A n \in 0 .. Len(c) : ring.next[At(c, h, n)] = At(c, h, n + 1)
    BY <1>5 DEF Runs
  <1>7. /\ k \in 1 .. Len(c) + 1 /\ y = At(c, h, k) /\ loop.due = <<x>> \o SubSeq(c, k, Len(c))
        /\ x = At(c, h, k - 1)
    BY <1>1, <1>4 DEF Stands
  <1>8. k \in 1 .. Len(c) /\ k - 1 \in 1 .. Len(c) /\ k - 1 \in 0 .. Len(c) /\ (k - 1) + 1 = k
    <2>1. k # Len(c) + 1
      BY <1>1, <1>6, <1>7
    <2>2. k - 1 # 0
      BY <1>2, <1>3, <1>6, <1>7
    <2>3. k \in 1 .. Len(c) + 1 /\ Len(c) \in Nat
      BY <1>6, <1>7
    <2> QED BY <2>1, <2>2, <2>3
  <1>9. y = c[k] /\ x = c[k - 1] /\ y \in ToSet(c)
    BY <1>6, <1>7, <1>8
  <1>10. x # y
    <2>1. k - 1 # k
      BY <1>8
    <2> QED BY <1>6, <1>8, <1>9, <2>1 DEF IsInjective
  <1>11. y = ring.next[x]
    BY <1>6, <1>7, <1>8
  <1>12. Tidy
    BY <1>1, <1>2, <1>11, TidyRemoveNext
  <1>13. HoldAll(ring', seq')
    BY <1>12 DEF Tidy, Edited
  <1>14. LookInv'
    BY <1>1, <1>12, LookKept DEF RingInv
  <1>15. d = Lost(c, k)
    <2>1. PICK i \in 1 .. Len(c) : c[i] = y /\ Without(seq, y)[h] = Lost(c, i)
      <3>1. \E i \in 1 .. Len(CourseOf(seq, h, "next")) :
              /\ CourseOf(seq, h, "next")[i] = y
              /\ CourseOf(Without(seq, y), h, "next") = Lost(CourseOf(seq, h, "next"), i)
        BY <1>1, <1>2, <1>9, CourseLoses
      <3> QED BY <3>1 DEF CourseOf
    <2>2. i = k
      BY <1>6, <1>8, <1>9, <2>1 DEF IsInjective
    <2> QED BY <1>1, <2>1, <2>2 DEF Edit
  <1>16. Runs(ring', seq', h, "next", d)
    <2>1. d = CourseOf(seq', h, "next")
      BY DEF CourseOf
    <2> QED BY <1>2, <1>13, <2>1, CourseRuns
  <1> HIDE DEF c, d
  <1>17. /\ Len(d) = Len(c) - 1 /\ \A n \in 0 .. k - 1 : At(d, h, n) = At(c, h, n)
         /\ \A n \in k .. Len(c) : SubSeq(d, n, Len(c) - 1) = SubSeq(c, n + 1, Len(c))
    BY <1>6, <1>8, <1>15, LostIs, LostTail
  <1>18. /\ k - 1 \in 0 .. Len(d) /\ k \in 1 .. Len(d) + 1 /\ k - 1 \in 0 .. k - 1 /\ k \in k .. Len(c)
    BY <1>6, <1>8, <1>17
  <1>19. At(d, h, k - 1) = x /\ ring'.next[x] = At(d, h, k) /\ SubSeq(d, k, Len(d)) = SubSeq(c, k + 1, Len(c))
    <2>1. At(d, h, k - 1) = x
      BY <1>7, <1>17, <1>18
    <2>2. ring'.next[At(d, h, k - 1)] = At(d, h, (k - 1) + 1)
      BY <1>16, <1>18 DEF Runs
    <2> QED BY <1>8, <1>17, <1>18, <2>1, <2>2
  <1>20. Instead(loop.due, y, <<>>) = <<x>> \o SubSeq(d, k, Len(d))
    <2>1. Instead(<<x>> \o SubSeq(c, k, Len(c)), c[k], <<>>) = <<x>> \o SubSeq(c, k + 1, Len(c))
      BY <1>3, <1>6, <1>8, <1>9, <1>10, DueLost
    <2> QED BY <1>7, <1>9, <1>19, <2>1
  <1> DEFINE p == loop'
  <1>21. /\ p.head = h /\ p.dir = "next" /\ p.pos = x /\ p.n = ring'.next[x]
         /\ p.due = <<x>> \o SubSeq(d, k, Len(d))
    BY <1>1, <1>2, <1>20 DEF LoopRecord
  <1>22. p \in LoopRecord
    <2>1. ring'.next[x] \in Place
      <3>1. k \in 0 .. Len(d) + 1
        BY <1>18
      <3> QED BY <1>2, <1>16, <1>19, <3>1, CourseNodes
    <2>2. <<x>> \o SubSeq(d, k, Len(d)) \in Seq(Node)
      <3>1. SubSeq(d, k, Len(d)) \in Seq(Node)
        BY <1>16, <1>18, RestIs DEF Runs
      <3> QED BY <1>3, <3>1
    <2> QED BY <1>1, <1>2, <1>20, <2>1, <2>2 DEF LoopRecord
  <1>23. Stands(p, d, k)
    BY <1>18, <1>19, <1>21 DEF Stands
  <1>24. LoopStands(p, seq')
    BY <1>2, <1>3, <1>21, <1>22, <1>23 DEF LoopStands, CourseOf, d
  <1> QED BY <1>1, <1>13, <1>14, <1>24 DEF RingInv, RingsInv, LoopInv

LEMMA OtherKeeps ==
    ASSUME RingInv, LookBegin \/ LookField \/ LookEnd \/ LoopStart \/ LoopNext \/ LoopEnd
    PROVE  RingInv'
  <1>1. CASE LookBegin
    BY <1>1 DEF LookBegin, RingInv, RingsInv, LookInv, LoopInv, careful_fields
  <1>2. CASE LookField
    <2>1. /\ look # NULL /\ ring' = ring /\ seq' = seq /\ deleting' = deleting /\ loop' = loop
          /\ look \in [entry : Node, left : SUBSET careful_fields]
          /\ \A f \in careful_fields \ look.left : ring[f][look.entry] = look.entry
      BY <1>2 DEF LookField, RingInv, LookInv
    <2>2. PICK f \in look.left :
             look' = IF ring[f][look.entry] = look.entry
                     THEN [look EXCEPT !.left = @ \ {f}] ELSE NULL
      BY <1>2 DEF LookField
    <2>3. ASSUME look' # NULL
          PROVE  /\ look' \in [entry : Node, left : SUBSET careful_fields]
                 /\ \A g \in careful_fields \ look'.left : ring[g][look'.entry] = look'.entry
      <3>1. ring[f][look.entry] = look.entry /\ look' = [look EXCEPT !.left = @ \ {f}]
        BY <2>2, <2>3
      <3>2. look'.entry = look.entry /\ look'.left = look.left \ {f}
        BY <2>1, <3>1
      <3> QED BY <2>1, <3>1, <3>2
    <2>4. LookInv'
      BY <2>1, <2>3 DEF LookInv
    <2> QED BY <2>1, <2>4 DEF RingInv, RingsInv, LoopInv
  <1>3. CASE LookEnd
    BY <1>3 DEF LookEnd, RingInv, RingsInv, LookInv, LoopInv
  <1>4. CASE LoopStart
    <2>1. HoldAll(ring, seq) /\ deleting = NULL
      BY <1>4 DEF LoopStart, RingInv, RingsInv
    <2>2. LoopStands(loop', seq)
      BY <1>4, <2>1, LoopStarted
    <2> QED BY <1>4, <2>1, <2>2 DEF LoopStart, RingInv, RingsInv, LookInv, LoopInv
  <1>5. CASE LoopNext
    <2>1. HoldAll(ring, seq) /\ deleting = NULL /\ LoopStands(loop, seq)
      BY <1>5 DEF LoopNext, RingInv, RingsInv, LoopInv
    <2>2. LoopStands(loop', seq)
      BY <1>5, <2>1, LoopWent
    <2> QED BY <1>5, <2>1, <2>2 DEF LoopNext, RingInv, RingsInv, LookInv, LoopInv
  <1>6. CASE LoopEnd
    BY <1>6 DEF LoopEnd, RingInv, RingsInv, LookInv, LoopInv
  <1> QED BY <1>1, <1>2, <1>3, <1>4, <1>5, <1>6

RingStep ==
    \/ RingAdd \/ RingDel \/ RingDelRange \/ RingReplace \/ RingMove \/ RingCut \/ RingSplice
    \/ BeginDelInit \/ StoreDelInit \/ LookBegin \/ LookField \/ LookEnd
    \/ LoopStart \/ LoopRemove \/ LoopRemoveNext \/ LoopNext \/ LoopEnd

ChainStep ==
    \/ HashAdd \/ AddFake \/ HashDel \/ MoveList
    \/ ScanStart \/ ScanRemove \/ ScanNext \/ ScanBucket \/ ScanEnd

LEMMA StepsOf == Next <=> RingStep \/ ChainStep
  BY Zenon DEF Next, RingStep, ChainStep

LEMMA ChainKeepsRings == ChainStep => UNCHANGED RingVars
  <1>1. HashAdd \/ AddFake \/ HashDel \/ MoveList => UNCHANGED RingVars
    BY DEF HashAdd, AddFake, HashDel, MoveList, ChainCall, rings, RingVars
  <1>2. ScanStart \/ ScanRemove \/ ScanNext \/ ScanBucket \/ ScanEnd => UNCHANGED RingVars
    BY DEF ScanStart, ScanRemove, ScanNext, ScanBucket, ScanEnd, rings, RingVars
  <1> QED BY <1>1, <1>2 DEF ChainStep

LEMMA RingStepKeeps ==
    ASSUME RingInv, RingStep PROVE RingInv'
  <1>1. CASE RingAdd \/ RingDel \/ RingDelRange \/ RingReplace \/ RingMove \/ RingCut \/ RingSplice
    <2>1. RingCall
      BY <1>1 DEF RingAdd, RingDel, RingDelRange, RingReplace, RingMove, RingCut, RingSplice
    <2>2. HoldAll(ring, seq)
      BY <2>1 DEF RingCall, RingInv, RingsInv
    <2>3. Tidy
      BY <1>1, <2>2, TidyAdd, TidyDel, TidyDelRange, TidyReplace, TidyMove, TidyCut, TidySplice
    <2> QED BY <2>1, <2>3, CallKeeps
  <1>2. CASE BeginDelInit
    <2>1. HoldAll(ring, seq) /\ loop = NULL
      BY <1>2 DEF BeginDelInit, RingInv, RingsInv
    <2>2. RingsInv'
      BY <1>2, <2>1, BeginKeeps
    <2> QED BY <1>2, <2>1, <2>2 DEF BeginDelInit, RingInv, LookInv, LoopInv
  <1>3. CASE StoreDelInit
    <2>1. RingsInv' /\ LookInv'
      BY <1>3, StoreKeeps, LookStored DEF RingInv
    <2>2. loop' = NULL
      BY <1>3 DEF StoreDelInit, RingInv, RingsInv
    <2> QED BY <2>1, <2>2 DEF RingInv, LoopInv
  <1>4. CASE LookBegin \/ LookField \/ LookEnd \/ LoopStart \/ LoopNext \/ LoopEnd
    BY <1>4, OtherKeeps
  <1>5. CASE LoopRemove \/ LoopRemoveNext
    BY <1>5, LoopRemoveKeeps, LoopRemoveNextKeeps
  <1> QED BY <1>1, <1>2, <1>3, <1>4, <1>5 DEF RingStep

LEMMA RingsTogether == Spec => []RingInv
  <1>1. Init => RingInv
    BY InitRings
  <1>2. RingInv /\ [Next]_vars => RingInv'
    <2> SUFFICES ASSUME RingInv, [Next]_vars PROVE RingInv'
      OBVIOUS
    <2>1. CASE RingStep
      BY <2>1, RingStepKeeps
    <2>2. CASE ChainStep
      BY <2>2, ChainKeepsRings, SameRings
    <2>3. CASE UNCHANGED vars
      BY <2>3, SameRings DEF vars, RingVars
    <2> QED BY <2>1, <2>2, <2>3, StepsOf
  <1> QED BY <1>1, <1>2, PTL DEF Spec

\* Whatever the interleaving with a deletion, a yes of k_list_empty_careful means that
\* the deletion is over and that the entry is in no ring.
THEOREM DeletedWhenSaid == Spec => []CarefulMeansDone
  <1>1. RingInv => CarefulMeansDone
    BY YesMeansOff DEF RingInv, CarefulMeansDone
  <1> QED BY <1>1, RingsTogether, PTL

\* Every operation on rings does what it should to every ring, for any number of rings
\* and of entries.
THEOREM RingsHold == Spec => []RingsHoldTheirSequences
  <1>1. RingInv => RingsHoldTheirSequences
    <2> SUFFICES ASSUME RingInv, deleting = NULL, NEW h \in RingHead
        PROVE  LET q == seq[h] IN
        /\ k_list_walk(ring.next, h, N) = q /\ k_list_walk(ring.prev, h, N) = Reverse(q)
        /\ \A i \in DOMAIN q :
              /\ k_list_from(ring.next, q[i], h, N) = SubSeq(q, i, Len(q))
              /\ k_list_continue(ring.prev, q[i], h, N) = Reverse(SubSeq(q, 1, i - 1))
              /\ k_list_is_last(ring, q[i], h) <=> i = Len(q)
        /\ k_list_empty(ring, h) <=> q = <<>>
        /\ k_list_is_singular(ring, h) <=> Len(q) = 1
        /\ k_list_first_or_null(ring, h) = IF q = <<>> THEN NULL ELSE Head(q)
        /\ k_list_last_or_null(ring, h) = IF q = <<>> THEN NULL ELSE Last(q)
      BY DEF RingsHoldTheirSequences
    <2> DEFINE q == seq[h]
    <2>1. HoldAll(ring, seq)
      BY DEF RingInv, RingsInv
    <2>2. /\ q \in Seq(Node) /\ Len(q) \in Nat /\ DOMAIN q = 1 .. Len(q) /\ IsInjective(q)
          /\ At(q, h, 0) = h /\ At(q, h, Len(q) + 1) = h
          /\ \A k \in 1 .. Len(q) : At(q, h, k) = q[k] /\ q[k] \in ToSet(q)
          /\ h \notin Node /\ Differ(q, h)
      BY <2>1, RingNodes
    <2>3. /\ ring.next \in [Place -> Place \cup Poison] /\ ring.prev \in [Place -> Place \cup Poison]
          /\ h \in Place /\ Node \subseteq Place \ {h}
      BY <2>1, <2>2 DEF HoldAll, Memory, Place
    <2>4. Holds(ring, h, q)
      BY <2>1 DEF HoldAll
    <2>5. /\ N \in Nat /\ Len(q) <= N
      BY <2>2, LengthBound, NodeAssumption DEF N
    <2> HIDE DEF q
    <2>6. q \in Seq(Place \ {h})
      BY <2>2, <2>3
    <2>7. k_list_walk(ring.next, h, N) = q /\ k_list_walk(ring.prev, h, N) = Reverse(q)
      BY <2>3, <2>4, <2>5, <2>6, BothWalks
    <2>8. \A k \in 0 .. Len(q) : ring.next[At(q, h, k)] = At(q, h, k + 1) /\ ring.prev[At(q, h, k + 1)] = At(q, h, k)
      BY <2>4 DEF Holds
    <2>14. ring.next[h] = At(q, h, 1) /\ ring.prev[h] = At(q, h, Len(q))
      <3>1. 0 \in 0 .. Len(q) /\ Len(q) \in 0 .. Len(q)
        BY <2>2
      <3> QED BY <2>2, <2>8, <3>1
    <2>15. q # <<>> => /\ 1 \in 1 .. Len(q) /\ Len(q) \in 1 .. Len(q)
                       /\ ring.next[h] = q[1] /\ ring.prev[h] = q[Len(q)] /\ q[1] # h /\ q[Len(q)] # h
      BY <2>2, <2>14, EmptySeq
    <2>16. q = <<>> => ring.next[h] = h
      BY <2>2, <2>14 DEF At
    <2>9. ASSUME NEW i \in DOMAIN q
          PROVE  /\ k_list_from(ring.next, q[i], h, N) = SubSeq(q, i, Len(q))
                 /\ k_list_continue(ring.prev, q[i], h, N) = Reverse(SubSeq(q, 1, i - 1))
                 /\ k_list_is_last(ring, q[i], h) <=> i = Len(q)
      <3>0. i \in 1 .. Len(q) /\ q[i] \in Node /\ q[i] # h /\ i \in Nat
        BY <2>2
      <3>1. k_list_from(ring.next, q[i], h, N) = SubSeq(q, i, Len(q))
        <4>1. k_list_continue(ring.next, q[i], h, N) = SubSeq(q, i + 1, Len(q))
          <5> DEFINE pointer == ring.next
          <5>1. Leads(pointer, h, q) /\ h \in DOMAIN pointer /\ q \in Seq(DOMAIN pointer \ {h})
            <6>1. DOMAIN pointer = Place
              BY <2>3
            <6> QED BY <2>3, <2>6, <2>8, <6>1 DEF Leads
          <5> HIDE DEF pointer
          <5>2. \A j \in DOMAIN q : k_list_continue(pointer, q[j], h, N) = SubSeq(q, j + 1, Len(q))
            BY <2>5, <5>1, WalkMeets
          <5> QED BY <5>2 DEF pointer
        <4>2. Len(q) \in i .. Len(q)
          BY <2>2, <3>0
        <4> QED BY <2>2, <3>0, <4>1, <4>2, SubSeqRecursiveFirst DEF k_list_from
      <3>2. k_list_continue(ring.prev, q[i], h, N) = Reverse(SubSeq(q, 1, i - 1))
        <4> DEFINE pointer == ring.prev
                   r == Reverse(q)
                   j == Len(q) + 1 - i
        <4>1. /\ r \in Seq(Node) /\ Len(r) = Len(q) /\ DOMAIN r = 1 .. Len(q)
              /\ \A n \in 1 .. Len(q) : r[n] = q[Len(q) + 1 - n]
              /\ \A n \in 0 .. Len(q) + 1 : At(r, h, n) = At(q, h, Len(q) + 1 - n)
          BY <2>2, Reversed
        <4> HIDE DEF r
        <4>2. DOMAIN pointer = Place /\ r \in Seq(Place \ {h}) /\ Len(r) <= N
          BY <2>3, <2>5, <4>1
        <4>3. Leads(pointer, h, r)
          <5> SUFFICES ASSUME NEW n \in 0 .. Len(r) PROVE pointer[At(r, h, n)] = At(r, h, n + 1)
            BY DEF Leads
          <5>0. n \in 0 .. Len(q) /\ Len(q) \in Nat
            BY <2>2, <4>1
          <5>1. /\ n \in 0 .. Len(q) + 1 /\ n + 1 \in 0 .. Len(q) + 1 /\ Len(q) - n \in 0 .. Len(q)
                /\ Len(q) + 1 - n = (Len(q) - n) + 1 /\ Len(q) + 1 - (n + 1) = Len(q) - n
            BY <5>0
          <5>2. At(r, h, n) = At(q, h, (Len(q) - n) + 1) /\ At(r, h, n + 1) = At(q, h, Len(q) - n)
            BY <4>1, <5>1
          <5> QED BY <2>8, <5>1, <5>2
        <4>4. j \in DOMAIN r /\ r[j] = q[i] /\ j + 1 \in 1 .. Len(q) + 1 /\ j + 1 = Len(q) + 2 - i
          <5>1. j \in 1 .. Len(q) /\ Len(q) + 1 - j = i /\ j + 1 \in 1 .. Len(q) + 1 /\ j + 1 = Len(q) + 2 - i
            BY <2>2, <3>0
          <5> HIDE DEF j
          <5> QED BY <4>1, <5>1
        <4> HIDE DEF j, pointer
        <4>5. k_list_continue(pointer, r[j], h, N) = SubSeq(r, j + 1, Len(r))
          <5>1. h \in DOMAIN pointer /\ r \in Seq(DOMAIN pointer \ {h}) /\ Len(r) <= N /\ N \in Nat
            BY <2>3, <2>5, <4>2
          <5> QED BY <4>3, <4>4, <5>1, WalkMeets
        <4>6. SubSeq(r, Len(q) + 2 - i, Len(q)) = Reverse(SubSeq(q, 1, i - 1))
          BY <2>2, <3>0, ReversedFront DEF r
        <4> QED BY <4>1, <4>4, <4>5, <4>6 DEF pointer
      <3>3. k_list_is_last(ring, q[i], h) <=> i = Len(q)
        <4>1. ring.next[q[i]] = At(q, h, i + 1)
          <5>1. i \in 0 .. Len(q)
            BY <2>2, <3>0
          <5> QED BY <2>2, <2>8, <3>0, <5>1
        <4>2. CASE i = Len(q)
          BY <2>2, <4>1, <4>2 DEF k_list_is_last
        <4>3. CASE i # Len(q)
          <5>1. i + 1 \in 1 .. Len(q)
            BY <2>2, <3>0, <4>3
          <5> QED BY <2>2, <4>1, <4>3, <5>1 DEF k_list_is_last
        <4> QED BY <4>2, <4>3
      <3> QED BY <3>1, <3>2, <3>3
    <2>10. k_list_empty(ring, h) <=> q = <<>>
      BY <2>15, <2>16 DEF k_list_empty
    <2>11. k_list_is_singular(ring, h) <=> Len(q) = 1
      <3>1. CASE q = <<>>
        BY <2>16, <3>1 DEF k_list_is_singular, k_list_empty
      <3>2. CASE q # <<>>
        <4>1. q[1] = q[Len(q)] <=> Len(q) = 1
          BY <2>2, <2>15, <3>2 DEF IsInjective
        <4> QED BY <2>15, <3>2, <4>1 DEF k_list_is_singular, k_list_empty
      <3> QED BY <3>1, <3>2
    <2>12. k_list_first_or_null(ring, h) = IF q = <<>> THEN NULL ELSE Head(q)
      BY <2>2, <2>10, <2>15 DEF k_list_first_or_null, k_list_first
    <2>13. k_list_last_or_null(ring, h) = IF q = <<>> THEN NULL ELSE Last(q)
      BY <2>2, <2>10, <2>15 DEF k_list_last_or_null, k_list_last, Last
    <2> QED BY <2>7, <2>9, <2>10, <2>11, <2>12, <2>13 DEF q
  <1> QED BY <1>1, RingsTogether, PTL

-----------------------------------------------------------------------------
(* Chains. *)

LEMMA Slots ==
    /\ Node \cap Bucket = {} /\ NULL \notin Slot /\ LIST_POISON1 \notin Slot /\ LIST_POISON2 \notin Slot
    /\ NULL # LIST_POISON1 /\ NULL # LIST_POISON2 /\ Node \subseteq Slot /\ Bucket \subseteq Slot
  BY NodeAssumption, PoisonAssumption DEF Slot, Poison

\* Slot x points at y, and y knows it.
Follows(c, x, y) == c.link[x] = y /\ (y # NULL => c.pprev[y] = x)

\* The chain of bucket b is q.
ChainIs(c, b, q) ==
    /\ IsInjective(q)
    /\ \A i \in 0 .. Len(q) : Follows(c, At(q, b, i), At(q, NULL, i + 1))

\* What is between the i-th and the j-th node of chain q is r in m, and the rest is as it was.
Rechained(m, b, q, i, r, j) ==
    /\ \A k \in 1 .. Len(r) - 1 : Follows(m, r[k], r[k + 1])
    /\ r = <<>> => Follows(m, At(q, b, i), At(q, NULL, j))
    /\ r # <<>> => Follows(m, At(q, b, i), r[1]) /\ Follows(m, r[Len(r)], At(q, NULL, j))
    /\ \A k \in 0 .. i - 1 \cup j .. Len(q) : Follows(m, At(q, b, k), At(q, NULL, k + 1))

LEMMA ChainSpliced ==
    ASSUME NEW q \in Seq(Node), IsInjective(q), NEW r \in Seq(Node), NEW b,
           NEW i \in 0 .. Len(q), NEW j \in i + 1 .. Len(q) + 1, Fits(q, i, r, j),
           NEW m, Rechained(m, b, q, i, r, j)
    PROVE  ChainIs(m, b, Spliced(q, i, r, j))
  <1> DEFINE t == Spliced(q, i, r, j)
             n == i + Len(r)
  <1>0. /\ Len(q) \in Nat /\ Len(r) \in Nat /\ i \in Nat /\ j \in Nat /\ i <= Len(q) /\ i < j
        /\ j <= Len(q) + 1
    OBVIOUS
  <1>1. \A h : /\ Len(t) \in Nat /\ Len(t) = n + Len(q) + 1 - j
               /\ \A k \in 0 .. i : At(t, h, k) = At(q, h, k)
               /\ \A k \in 1 .. Len(r) : At(t, h, i + k) = r[k]
               /\ \A k \in j .. Len(q) + 1 : At(t, h, n + 1 + k - j) = At(q, h, k)
    <2> SUFFICES ASSUME NEW h
        PROVE  /\ Len(t) \in Nat /\ Len(t) = n + Len(q) + 1 - j
               /\ \A k \in 0 .. i : At(t, h, k) = At(q, h, k)
               /\ \A k \in 1 .. Len(r) : At(t, h, i + k) = r[k]
               /\ \A k \in j .. Len(q) + 1 : At(t, h, n + 1 + k - j) = At(q, h, k)
      OBVIOUS
    <2>1. Nodes(t, h, q, i, r, j)
      BY SplicedAt
    <2> HIDE DEF t
    <2> QED BY <2>1 DEF Nodes
  <1>2. IsInjective(t)
    BY SplicedInjective
  <1> HIDE DEF t
  <1>3. ASSUME NEW k \in 0 .. Len(t) PROVE Follows(m, At(t, b, k), At(t, NULL, k + 1))
    <2>0. Len(t) \in Nat /\ Len(t) = n + Len(q) + 1 - j
      BY <1>1
    <2>1. CASE k < i
      <3>1. k \in 0 .. i /\ k + 1 \in 0 .. i /\ k \in 0 .. i - 1
        BY <1>0, <2>1
      <3>2. At(t, b, k) = At(q, b, k) /\ At(t, NULL, k + 1) = At(q, NULL, k + 1)
        BY <1>1, <3>1
      <3> QED BY <3>1, <3>2 DEF Rechained
    <2>2. CASE k = i /\ r = <<>>
      <3>1. k + 1 = n + 1 + j - j /\ j \in j .. Len(q) + 1 /\ k \in 0 .. i
        BY <1>0, <2>2
      <3>2. At(t, NULL, k + 1) = At(q, NULL, j)
        BY <1>1, <3>1
      <3>3. At(t, b, k) = At(q, b, i)
        BY <1>1, <3>1, <2>2
      <3> QED BY <2>2, <3>2, <3>3 DEF Rechained
    <2>3. CASE k = i /\ r # <<>>
      <3>1. Len(r) # 0 /\ 1 \in 1 .. Len(r) /\ k \in 0 .. i
        BY <1>0, <2>3, EmptySeq
      <3> QED BY <1>1, <2>3, <3>1 DEF Rechained
    <2>4. CASE i < k /\ k < n
      <3> DEFINE a == k - i
      <3>1. a \in 1 .. Len(r) - 1 /\ a \in 1 .. Len(r) /\ a + 1 \in 1 .. Len(r) /\ i + a = k /\ i + (a + 1) = k + 1
        BY <1>0, <2>4
      <3>2. At(t, b, i + a) = r[a] /\ At(t, NULL, i + (a + 1)) = r[a + 1]
        BY <1>1, <3>1
      <3>3. Follows(m, r[a], r[a + 1])
        BY <3>1 DEF Rechained
      <3> QED BY <3>1, <3>2, <3>3
    <2>5. CASE k = n /\ n > i
      <3>1. r # <<>> /\ Len(r) \in 1 .. Len(r) /\ j \in j .. Len(q) + 1 /\ n + 1 + j - j = k + 1
        BY <1>0, <2>5
      <3>2. At(t, b, k) = r[Len(r)] /\ At(t, NULL, k + 1) = At(q, NULL, j)
        <4>1. At(t, NULL, n + 1 + j - j) = At(q, NULL, j)
          BY <1>1, <3>1
        <4>2. At(t, b, i + Len(r)) = r[Len(r)]
          BY <1>1, <3>1
        <4> QED BY <2>5, <3>1, <4>1, <4>2
      <3> QED BY <3>1, <3>2 DEF Rechained
    <2>6. CASE k > n
      <3> DEFINE a == k - n - 1 + j
      <3>1. /\ a \in j .. Len(q) /\ a \in j .. Len(q) + 1 /\ a + 1 \in j .. Len(q) + 1
            /\ n + 1 + a - j = k /\ n + 1 + (a + 1) - j = k + 1
        BY <1>0, <2>0, <2>6
      <3>2. At(t, b, n + 1 + a - j) = At(q, b, a) /\ At(t, NULL, n + 1 + (a + 1) - j) = At(q, NULL, a + 1)
        BY <1>1, <3>1
      <3>3. Follows(m, At(q, b, a), At(q, NULL, a + 1))
        BY <3>1 DEF Rechained
      <3>4. At(t, b, k) = At(q, b, a) /\ At(t, NULL, k + 1) = At(q, NULL, a + 1)
        BY <3>1, <3>2
      <3> QED BY <3>3, <3>4
    <2>7. k \in Int /\ n \in Int /\ n >= i
      BY <1>0, <2>0
    <2>8. k < i \/ k = i \/ (i < k /\ k < n) \/ (k = n /\ n > i) \/ k > n
      BY <1>0, <2>7
    <2> QED BY <2>1, <2>2, <2>3, <2>4, <2>5, <2>6, <2>8, Zenon
  <1> QED BY <1>2, <1>3 DEF ChainIs, t

ChainMemory ==
    [link : [Slot -> Node \cup {NULL, LIST_POISON1}], pprev : [Node -> Slot \cup {NULL, LIST_POISON2}]]

Members(s) == UNION {ToSet(s[b]) : b \in Bucket}

\* A node in no chain: initialised, poisoned, or a fake.
OffTable(c, e) ==
    c.pprev[e] \in {NULL, LIST_POISON2, e} /\ (c.pprev[e] = e => c.link[e] = NULL)

\* Each chain of the table is its sequence, and no two have a node in common.
Table(c, s) ==
    /\ c \in ChainMemory /\ s \in [Bucket -> Seq(Node)]
    /\ \A b \in Bucket : ChainIs(c, b, s[b])
    /\ \A a, b \in Bucket : a # b => ToSet(s[a]) \cap ToSet(s[b]) = {}
    /\ \A e \in Node \ Members(s) : OffTable(c, e)

\* The nodes of a chain.
LEMMA ChainNodes ==
    ASSUME NEW c, NEW s, Table(c, s), NEW b \in Bucket
    PROVE  /\ s[b] \in Seq(Node) /\ Len(s[b]) \in Nat /\ DOMAIN s[b] = 1 .. Len(s[b])
           /\ At(s[b], b, 0) = b /\ At(s[b], NULL, Len(s[b]) + 1) = NULL
           /\ \A k \in 1 .. Len(s[b]) : /\ At(s[b], b, k) = s[b][k] /\ At(s[b], NULL, k) = s[b][k]
                                        /\ s[b][k] \in ToSet(s[b]) /\ s[b][k] \in Node
           /\ ToSet(s[b]) \subseteq Node /\ ToSet(s[b]) \subseteq Members(s) /\ b \notin Node
           /\ IsInjective(s[b])
  <1> DEFINE q == s[b]
  <1>1. q \in Seq(Node) /\ IsInjective(q)
    BY DEF Table, ChainIs
  <1>2. ToSet(q) \subseteq Members(s)
    BY DEF Members
  <1> HIDE DEF q
  <1>3. /\ Len(q) \in Nat /\ DOMAIN q = 1 .. Len(q) /\ \A k \in 1 .. Len(q) : q[k] \in Node
    BY <1>1
  <1>4. At(q, b, 0) = b /\ At(q, NULL, Len(q) + 1) = NULL
    BY <1>3 DEF At
  <1>5. \A k \in 1 .. Len(q) : At(q, b, k) = q[k] /\ At(q, NULL, k) = q[k] /\ q[k] \in ToSet(q)
    BY <1>3 DEF At, ToSet
  <1>6. ToSet(q) \subseteq Node
    BY <1>3 DEF ToSet
  <1> QED BY <1>1, <1>2, <1>3, <1>4, <1>5, <1>6, Slots DEF q

\* From c to m, the part of chain b between the i-th and the j-th node becomes r, and no
\* other pointer of the table changes.
TableRelinks(c, m, s, b, i, r, j) ==
    /\ IsInjective(r)
    /\ ToSet(r) \cap Members(s) \subseteq Part(s[b], i, j)
    /\ \A k \in 1 .. Len(r) - 1 : Follows(m, r[k], r[k + 1])
    /\ r = <<>> => Follows(m, At(s[b], b, i), At(s[b], NULL, j))
    /\ r # <<>> => /\ Follows(m, At(s[b], b, i), r[1])
                   /\ Follows(m, r[Len(r)], At(s[b], NULL, j))
    /\ \A x \in (Members(s) \cup Bucket) \ (ToSet(r) \cup Part(s[b], i, j)) :
          x # At(s[b], b, i) => m.link[x] = c.link[x]
    /\ \A x \in Members(s) \ (ToSet(r) \cup Part(s[b], i, j)) :
          x # At(s[b], NULL, j) => m.pprev[x] = c.pprev[x]
    /\ \A e \in Node \ (Members(s) \cup ToSet(r)) : m.link[e] = c.link[e] /\ m.pprev[e] = c.pprev[e]
    /\ \A e \in Part(s[b], i, j) \ ToSet(r) : OffTable(m, e)

\* A chain that is left alone.
LEMMA ChainKept ==
    ASSUME NEW c, NEW s, Table(c, s), NEW b \in Bucket, NEW m,
           \A x \in ToSet(s[b]) \cup {b} : m.link[x] = c.link[x],
           \A x \in ToSet(s[b]) : m.pprev[x] = c.pprev[x]
    PROVE  ChainIs(m, b, s[b])
  <1> DEFINE q == s[b]
  <1>1. /\ Len(q) \in Nat /\ At(q, b, 0) = b /\ At(q, NULL, Len(q) + 1) = NULL
        /\ \A k \in 1 .. Len(q) : At(q, b, k) = q[k] /\ At(q, NULL, k) = q[k] /\ q[k] \in ToSet(q)
    BY ChainNodes
  <1>2. ChainIs(c, b, q)
    BY DEF Table
  <1> HIDE DEF q
  <1>3. ASSUME NEW k \in 0 .. Len(q) PROVE Follows(m, At(q, b, k), At(q, NULL, k + 1))
    <2>1. At(q, b, k) \in ToSet(q) \cup {b}
      <3>1. k = 0 \/ k \in 1 .. Len(q)
        BY <1>1
      <3> QED BY <1>1, <3>1
    <2>2. At(q, NULL, k + 1) \in ToSet(q) \cup {NULL}
      <3>1. k + 1 = Len(q) + 1 \/ k + 1 \in 1 .. Len(q)
        BY <1>1
      <3> QED BY <1>1, <3>1
    <2>3. Follows(c, At(q, b, k), At(q, NULL, k + 1))
      BY <1>2 DEF ChainIs
    <2> QED BY <2>1, <2>2, <2>3 DEF Follows, q
  <1> QED BY <1>2, <1>3 DEF ChainIs, q

\* One part of one chain has changed: that chain is its sequence.
LEMMA Rechaining ==
    ASSUME NEW c, NEW s, Table(c, s), NEW b \in Bucket, NEW m, NEW r \in Seq(Node),
           NEW i \in 0 .. Len(s[b]), NEW j \in i + 1 .. Len(s[b]) + 1,
           TableRelinks(c, m, s, b, i, r, j)
    PROVE  Rechained(m, b, s[b], i, r, j) /\ Fits(s[b], i, r, j)
  <1> DEFINE q == s[b]
  <1>0. /\ Len(q) \in Nat /\ i \in Nat /\ j \in Nat /\ i <= Len(q) /\ i < j /\ j <= Len(q) + 1
    BY ChainNodes
  <1>1. /\ At(q, b, 0) = b /\ At(q, NULL, Len(q) + 1) = NULL
        /\ \A k \in 1 .. Len(q) : At(q, b, k) = q[k] /\ At(q, NULL, k) = q[k] /\ q[k] \in ToSet(q)
        /\ ToSet(q) \subseteq Node /\ b \notin Node /\ ToSet(q) \subseteq Members(s)
        /\ NULL \notin Node
    BY ChainNodes, Slots
  <1>2. \A x, y \in 1 .. Len(q) : q[x] = q[y] => x = y
    BY ChainNodes DEF IsInjective
  <1>3. \A k \in 1 .. Len(r) : r[k] \in Node
    OBVIOUS
  <1>4. ToSet(r) = {r[k] : k \in 1 .. Len(r)} /\ DOMAIN r = 1 .. Len(r)
    BY DEF ToSet
  <1>5. \A k \in 1 .. i \cup j .. Len(q) : q[k] \notin Part(q, i, j) /\ k \in 1 .. Len(q)
    <2> SUFFICES ASSUME NEW k \in 1 .. i \cup j .. Len(q)
        PROVE  q[k] \notin Part(q, i, j) /\ k \in 1 .. Len(q)
      OBVIOUS
    <2>1. k \in 1 .. Len(q) /\ \A x \in i + 1 .. j - 1 : x \in 1 .. Len(q) /\ x # k
      BY <1>0
    <2> HIDE DEF q
    <2>2. \A x \in i + 1 .. j - 1 : q[x] # q[k]
      BY <1>2, <2>1
    <2> QED BY <2>1, <2>2 DEF Part
  <1>6. \A k \in 1 .. i \cup j .. Len(q) : q[k] \notin ToSet(r)
    BY <1>1, <1>5 DEF TableRelinks
  <1> DEFINE Stay == (Members(s) \cup Bucket) \ (ToSet(r) \cup Part(q, i, j))
  <1>7. b \in Stay
    <2>1. Part(q, i, j) \subseteq Node
      <3>1. \A k \in i + 1 .. j - 1 : k \in 1 .. Len(q)
        BY <1>0
      <3> QED BY <1>1, <3>1 DEF Part
    <2> QED BY <1>1, <1>3, <1>4, <2>1
  <1>8. \A k \in 1 .. i \cup j .. Len(q) : q[k] \in Stay \ Bucket
    BY <1>1, <1>5, <1>6, Slots
  <1>9. /\ \A x \in Stay : x # At(q, b, i) => m.link[x] = c.link[x]
        /\ \A x \in Stay \ Bucket : x # At(q, NULL, j) => m.pprev[x] = c.pprev[x]
    BY DEF TableRelinks
  <1> HIDE DEF Stay
  <1>10. ASSUME NEW k \in 0 .. i - 1 \cup j .. Len(q)
         PROVE  Follows(m, At(q, b, k), At(q, NULL, k + 1))
    <2>1. k \in 0 .. Len(q) /\ (k = 0 \/ k \in 1 .. i \cup j .. Len(q)) /\ k # i
      BY <1>0
    <2>2. At(q, b, k) \in Stay
      BY <1>1, <1>5, <1>7, <1>8, <2>1
    <2>3. At(q, b, k) # At(q, b, i)
      <3>1. i = 0 \/ i \in 1 .. Len(q)
        BY <1>0
      <3>2. k = 0 \/ k \in 1 .. Len(q)
        BY <1>5, <2>1
      <3> QED BY <1>1, <1>2, <2>1, <3>1, <3>2
    <2>4. Follows(c, At(q, b, k), At(q, NULL, k + 1))
      BY <2>1 DEF Table, ChainIs
    <2>5. m.link[At(q, b, k)] = At(q, NULL, k + 1)
      BY <1>9, <2>2, <2>3, <2>4 DEF Follows
    <2>6. CASE k = Len(q)
      BY <1>1, <2>5, <2>6 DEF Follows
    <2>7. CASE k # Len(q)
      <3>1. k + 1 \in 1 .. i \cup j .. Len(q) /\ k + 1 \in 1 .. Len(q) /\ k + 1 # j
        BY <1>0, <2>7
      <3>2. q[k + 1] \in Stay \ Bucket
        BY <1>8, <3>1
      <3>3. q[k + 1] # At(q, NULL, j)
        <4>1. j = Len(q) + 1 \/ j \in 1 .. Len(q)
          BY <1>0
        <4> QED BY <1>1, <1>2, <3>1, <4>1
      <3>4. m.pprev[q[k + 1]] = At(q, b, k)
        BY <1>1, <1>9, <2>4, <3>1, <3>2, <3>3 DEF Follows
      <3> QED BY <1>1, <2>5, <3>1, <3>4 DEF Follows
    <2> QED BY <2>6, <2>7
  <1>11. Rechained(m, b, q, i, r, j)
    BY <1>10 DEF Rechained, TableRelinks
  <1>12. Fits(q, i, r, j)
    BY <1>4, <1>6 DEF Fits, TableRelinks
  <1> QED BY <1>11, <1>12

\* One part of one chain has changed: the table holds its sequences.
LEMMA TableRelinked ==
    ASSUME NEW c, NEW s, Table(c, s), NEW b \in Bucket, NEW m \in ChainMemory,
           NEW r \in Seq(Node), NEW i \in 0 .. Len(s[b]), NEW j \in i + 1 .. Len(s[b]) + 1,
           TableRelinks(c, m, s, b, i, r, j)
    PROVE  /\ Table(m, [s EXCEPT ![b] = Spliced(s[b], i, r, j)])
           /\ Members([s EXCEPT ![b] = Spliced(s[b], i, r, j)])
                 = (Members(s) \ Part(s[b], i, j)) \cup ToSet(r)
  <1> DEFINE t == [s EXCEPT ![b] = Spliced(s[b], i, r, j)]
             P == Part(s[b], i, j)
  <1>1. s[b] \in Seq(Node) /\ IsInjective(s[b]) /\ s \in [Bucket -> Seq(Node)]
    BY ChainNodes DEF Table
  <1>2. t[b] = Spliced(s[b], i, r, j) /\ \A a \in Bucket \ {b} : t[a] = s[a]
    BY <1>1
  <1>3. t \in [Bucket -> Seq(Node)]
    BY <1>1, SplicedIs
  <1>4. ToSet(t[b]) = (ToSet(s[b]) \ P) \cup ToSet(r)
    BY <1>1, <1>2, SplicedEntries
  <1>5. ChainIs(m, b, t[b])
    <2>1. Rechained(m, b, s[b], i, r, j) /\ Fits(s[b], i, r, j)
      BY Rechaining
    <2>2. ChainIs(m, b, Spliced(s[b], i, r, j))
      BY <1>1, <2>1, ChainSpliced
    <2> QED BY <1>2, <2>2
  <1> HIDE DEF t
  <1>6. P \subseteq ToSet(s[b])
    <2>1. \A k \in i + 1 .. j - 1 : k \in 1 .. Len(s[b])
      BY ChainNodes
    <2> QED BY <2>1, ChainNodes DEF Part
  <1>7. ASSUME NEW a \in Bucket \ {b} PROVE ToSet(s[a]) \cap (ToSet(r) \cup ToSet(s[b])) = {}
    <2>1. ToSet(s[a]) \cap ToSet(s[b]) = {}
      BY DEF Table
    <2>2. ToSet(s[a]) \cap ToSet(r) \subseteq P
      BY DEF TableRelinks, Members
    <2> QED BY <1>6, <2>1, <2>2
  <1>8. ASSUME NEW a \in Bucket \ {b} PROVE ChainIs(m, a, t[a])
    <2>1. /\ ToSet(s[a]) \subseteq Members(s) \ (ToSet(r) \cup P \cup ToSet(s[b]))
          /\ ToSet(s[a]) \subseteq Node /\ ToSet(s[b]) \subseteq Node /\ Bucket \cap Node = {}
          /\ a \notin ToSet(r) \cup P \cup ToSet(s[b]) \cup {b}
      <3>1. ToSet(s[a]) \subseteq Members(s) /\ ToSet(s[a]) \subseteq Node /\ a \notin Node
        BY ChainNodes
      <3>2. ToSet(s[b]) \subseteq Node
        BY ChainNodes
      <3>3. ToSet(r) \subseteq Node
        BY DEF ToSet
      <3> QED BY <1>6, <1>7, <3>1, <3>2, <3>3, Slots
    <2>2. At(s[b], b, i) \in ToSet(s[b]) \cup {b} /\ At(s[b], NULL, j) \in ToSet(s[b]) \cup {NULL}
      <3>1. Len(s[b]) \in Nat
        BY ChainNodes
      <3>2. i = 0 \/ i \in 1 .. Len(s[b])
        BY <3>1
      <3>3. j = Len(s[b]) + 1 \/ j \in 1 .. Len(s[b])
        BY <3>1
      <3>4. At(s[b], b, i) \in ToSet(s[b]) \cup {b}
        BY <3>2, ChainNodes
      <3>5. At(s[b], NULL, j) \in ToSet(s[b]) \cup {NULL}
        BY <3>3, ChainNodes
      <3> QED BY <3>4, <3>5
    <2>3. \A x \in ToSet(s[a]) \cup {a} : m.link[x] = c.link[x]
      BY <2>1, <2>2 DEF TableRelinks
    <2>4. \A x \in ToSet(s[a]) : m.pprev[x] = c.pprev[x]
      BY <2>1, <2>2, Slots DEF TableRelinks
    <2>5. ChainIs(m, a, s[a])
      BY <2>3, <2>4, ChainKept
    <2> QED BY <1>2, <2>5
  <1>9. \A a, d \in Bucket : a # d => ToSet(t[a]) \cap ToSet(t[d]) = {}
    <2>1. \A a, d \in Bucket \ {b} : a # d => ToSet(t[a]) \cap ToSet(t[d]) = {}
      BY <1>2 DEF Table
    <2>2. \A a \in Bucket \ {b} : ToSet(t[a]) \cap ToSet(t[b]) = {}
      BY <1>2, <1>4, <1>7
    <2> QED BY <2>1, <2>2
  <1>10. Members(t) = (Members(s) \ P) \cup ToSet(r)
    <2> DEFINE U == UNION {ToSet(s[a]) : a \in Bucket \ {b}}
    <2>1. Members(t) = ToSet(t[b]) \cup U
      BY <1>2 DEF Members
    <2>2. Members(s) = ToSet(s[b]) \cup U
      BY DEF Members
    <2>3. U \cap P = {}
      <3>1. \A a \in Bucket \ {b} : ToSet(s[a]) \cap P = {}
        BY <1>6, <1>7
      <3> QED BY <3>1
    <2> HIDE DEF U
    <2> QED BY <1>4, <2>1, <2>2, <2>3
  <1>11. ASSUME NEW e \in Node \ Members(t) PROVE OffTable(m, e)
    <2>1. e \in P \ ToSet(r) \/ e \in Node \ (Members(s) \cup ToSet(r))
      BY <1>10
    <2>2. CASE e \in P \ ToSet(r)
      BY <2>2 DEF TableRelinks
    <2>3. CASE e \in Node \ (Members(s) \cup ToSet(r))
      <3>1. m.link[e] = c.link[e] /\ m.pprev[e] = c.pprev[e]
        BY <2>3 DEF TableRelinks
      <3>2. OffTable(c, e)
        BY <2>3 DEF Table
      <3> QED BY <3>1, <3>2 DEF OffTable
    <2> QED BY <2>1, <2>2, <2>3
  <1>12. Table(m, t)
    <2>1. \A a \in Bucket : ChainIs(m, a, t[a])
      BY <1>5, <1>8
    <2> QED BY <1>3, <1>9, <1>11, <2>1 DEF Table
  <1> QED BY <1>10, <1>12 DEF t

\* Node x is the k-th of chain b.
Chained(c, s, x, b, k) ==
    /\ b \in Bucket /\ k \in 1 .. Len(s[b]) /\ s[b][k] = x
    /\ Follows(c, At(s[b], b, k - 1), x) /\ Follows(c, x, At(s[b], NULL, k + 1))
    /\ x \in ToSet(s[b]) /\ PlaceOf(s[b], x) = k
    /\ \A r \in Seq(Node) : InsteadOf(s, x, r) = [s EXCEPT ![b] = Spliced(s[b], k - 1, r, k + 1)]

\* Every node of the table is somewhere.
LEMMA FindNode ==
    ASSUME NEW c, NEW s, Table(c, s), NEW x \in Members(s)
    PROVE  \E b, k : Chained(c, s, x, b, k)
  <1>1. PICK b \in Bucket : x \in ToSet(s[b])
    BY DEF Members
  <1>2. /\ s[b] \in Seq(Node) /\ Len(s[b]) \in Nat /\ DOMAIN s[b] = 1 .. Len(s[b])
        /\ \A k \in 1 .. Len(s[b]) : At(s[b], b, k) = s[b][k] /\ At(s[b], NULL, k) = s[b][k]
        /\ IsInjective(s[b]) /\ s \in [Bucket -> Seq(Node)]
    BY ChainNodes DEF Table
  <1>3. PICK k \in 1 .. Len(s[b]) : s[b][k] = x
    BY <1>1, <1>2 DEF ToSet
  <1>4. PlaceOf(s[b], x) = k
    BY <1>2, <1>3 DEF PlaceOf, IsInjective
  <1>5. Follows(c, At(s[b], b, k - 1), x) /\ Follows(c, x, At(s[b], NULL, k + 1))
    <2>1. k \in 0 .. Len(s[b]) /\ k - 1 \in 0 .. Len(s[b]) /\ (k - 1) + 1 = k
      BY <1>2
    <2>2. \A n \in 0 .. Len(s[b]) : Follows(c, At(s[b], b, n), At(s[b], NULL, n + 1))
      BY DEF Table, ChainIs
    <2>3. At(s[b], b, k) = x /\ At(s[b], NULL, k) = x
      BY <1>2, <1>3
    <2> QED BY <2>1, <2>2, <2>3
  <1>6. \A a \in Bucket \ {b} : x \notin ToSet(s[a])
    BY <1>1 DEF Table
  <1>7. ASSUME NEW r \in Seq(Node)
        PROVE  InsteadOf(s, x, r) = [s EXCEPT ![b] = Spliced(s[b], k - 1, r, k + 1)]
    <2>1. Instead(s[b], x, r) = Spliced(s[b], k - 1, r, k + 1)
      <3>1. Len(<<x>>) = 1
        OBVIOUS
      <3> QED BY <1>1, <1>4, <3>1 DEF Instead, ReplaceSubSeqAt, Spliced
    <2>2. \A a \in Bucket \ {b} : Instead(s[a], x, r) = s[a]
      BY <1>6 DEF Instead
    <2> QED BY <1>2, <2>1, <2>2 DEF InsteadOf
  <1>8. Chained(c, s, x, b, k)
    BY <1>1, <1>3, <1>4, <1>5, <1>7 DEF Chained
  <1> QED BY <1>8

\* Slot a and node y, or NULL, are the i-th and the next of chain b.
ChainGap(c, s, b, i, a, y) ==
    /\ b \in Bucket /\ i \in 0 .. Len(s[b])
    /\ a = At(s[b], b, i) /\ y = At(s[b], NULL, i + 1)
    /\ Follows(c, a, y)

LEMMA GapBehind ==
    ASSUME NEW c, NEW s, Table(c, s), NEW x \in Members(s) \cup Bucket
    PROVE  \E b, i : /\ ChainGap(c, s, b, i, x, c.link[x])
                     /\ \A r \in Seq(Node) : Behind(s, x, r) = Filled(s, b, i, r)
  <1>0. DOMAIN s = Bucket /\ s \in [Bucket -> Seq(Node)]
    BY DEF Table
  <1>1. \A b \in Bucket : \A n \in 0 .. Len(s[b]) : Follows(c, At(s[b], b, n), At(s[b], NULL, n + 1))
    BY DEF Table, ChainIs
  <1>2. CASE x \in Bucket
    <2>1. 0 \in 0 .. Len(s[x]) /\ At(s[x], x, 0) = x
      BY <1>2, ChainNodes
    <2>2. ChainGap(c, s, x, 0, x, c.link[x])
      BY <1>1, <1>2, <2>1 DEF ChainGap, Follows
    <2>3. ASSUME NEW r \in Seq(Node) PROVE Behind(s, x, r) = Filled(s, x, 0, r)
      <3>1. Spliced(s[x], 0, r, 1) = r \o s[x]
        BY <1>0, <1>2, SpliceEnds
      <3>2. 0 + 1 = 1
        OBVIOUS
      <3> QED BY <1>0, <1>2, <3>1, <3>2, Zenon DEF Behind, Filled
    <2> QED BY <2>2, <2>3
  <1>3. CASE x \notin Bucket
    <2>1. PICK b, k : Chained(c, s, x, b, k)
      BY <1>3, FindNode
    <2>2. /\ b \in Bucket /\ k \in 1 .. Len(s[b]) /\ k \in 0 .. Len(s[b]) /\ s[b][k] = x
          /\ s[b] \in Seq(Node) /\ At(s[b], b, k) = x
      BY <2>1, ChainNodes DEF Chained
    <2>3. ChainGap(c, s, b, k, x, c.link[x])
      BY <1>1, <2>2 DEF ChainGap, Follows
    <2>4. ASSUME NEW r \in Seq(Node) PROVE Behind(s, x, r) = Filled(s, b, k, r)
      <3>1. <<x>> \o r \in Seq(Node)
        BY <2>2
      <3>2. Spliced(s[b], k - 1, <<x>> \o r, k + 1) = Spliced(s[b], k, r, k + 1)
        BY <2>2, SpliceBehind
      <3>3. InsteadOf(s, x, <<x>> \o r) = [s EXCEPT ![b] = Spliced(s[b], k - 1, <<x>> \o r, k + 1)]
        BY <2>1, <3>1 DEF Chained
      <3> QED BY <1>0, <1>3, <3>2, <3>3 DEF Behind, Filled
    <2> QED BY <2>3, <2>4
  <1> QED BY <1>2, <1>3

LEMMA GapBefore ==
    ASSUME NEW c, NEW s, Table(c, s), NEW x \in Members(s)
    PROVE  \E b, i : /\ ChainGap(c, s, b, i, c.pprev[x], x)
                     /\ \A r \in Seq(Node) : Before(s, x, r) = Filled(s, b, i, r)
  <1>0. DOMAIN s = Bucket /\ s \in [Bucket -> Seq(Node)]
    BY DEF Table
  <1>1. \A b \in Bucket : \A n \in 0 .. Len(s[b]) : Follows(c, At(s[b], b, n), At(s[b], NULL, n + 1))
    BY DEF Table, ChainIs
  <1>2. PICK b, k : Chained(c, s, x, b, k)
    BY FindNode
  <1>3. /\ b \in Bucket /\ k \in 1 .. Len(s[b]) /\ s[b][k] = x /\ s[b] \in Seq(Node)
        /\ At(s[b], NULL, k) = x /\ x \in Node /\ x \notin Bucket /\ x # NULL
    BY <1>2, ChainNodes, Slots DEF Chained
  <1>4. k - 1 \in 0 .. Len(s[b]) /\ (k - 1) + 1 = k
    BY <1>3
  <1>5. ChainGap(c, s, b, k - 1, c.pprev[x], x)
    BY <1>1, <1>2, <1>3, <1>4 DEF ChainGap, Follows, Chained
  <1>6. ASSUME NEW r \in Seq(Node) PROVE Before(s, x, r) = Filled(s, b, k - 1, r)
    <2>1. r \o <<x>> \in Seq(Node)
      BY <1>3
    <2>2. Spliced(s[b], k - 1, r \o <<x>>, k + 1) = Spliced(s[b], k - 1, r, k)
      BY <1>3, SpliceBefore
    <2>3. InsteadOf(s, x, r \o <<x>>) = [s EXCEPT ![b] = Spliced(s[b], k - 1, r \o <<x>>, k + 1)]
      BY <1>2, <2>1 DEF Chained
    <2> QED BY <1>0, <1>3, <1>4, <2>2, <2>3 DEF Before, Filled
  <1> QED BY <1>5, <1>6

\* The nodes on both sides of a gap.
LEMMA GapSlots ==
    ASSUME NEW c, NEW s, Table(c, s), NEW b, NEW i, NEW a, NEW y, ChainGap(c, s, b, i, a, y)
    PROVE  a \in Members(s) \cup Bucket /\ y \in Members(s) \cup {NULL} /\ Members(s) \subseteq Node
  <1>1. b \in Bucket /\ Len(s[b]) \in Nat /\ i \in 0 .. Len(s[b])
    BY ChainNodes DEF ChainGap
  <1>2. i = 0 \/ i \in 1 .. Len(s[b])
    BY <1>1
  <1>3. i + 1 = Len(s[b]) + 1 \/ i + 1 \in 1 .. Len(s[b])
    BY <1>1
  <1>4. a \in Members(s) \cup Bucket
    BY <1>1, <1>2, ChainNodes DEF ChainGap
  <1>5. y \in Members(s) \cup {NULL}
    BY <1>1, <1>3, ChainNodes DEF ChainGap
  <1>6. Members(s) \subseteq Node
    BY ChainNodes DEF Members
  <1> QED BY <1>4, <1>5, <1>6

\* From c to m, node e goes between slot a and y.
Hooks(c, m, e, a, y) ==
    /\ m \in ChainMemory
    /\ \A z \in Slot : m.link[z] = IF z = e THEN y ELSE IF z = a THEN e ELSE c.link[z]
    /\ \A z \in Node : m.pprev[z] = IF z = e THEN a ELSE IF z = y THEN e ELSE c.pprev[z]

LEMMA Hooked ==
    ASSUME NEW c, NEW s, Table(c, s), NEW b, NEW i, NEW a, NEW y, ChainGap(c, s, b, i, a, y),
           NEW e \in Node \ Members(s), NEW m, Hooks(c, m, e, a, y)
    PROVE  Table(m, Filled(s, b, i, <<e>>))
  <1> DEFINE r == <<e>>
  <1>1. /\ b \in Bucket /\ Len(s[b]) \in Nat /\ i \in 0 .. Len(s[b]) /\ i + 1 \in i + 1 .. Len(s[b]) + 1
        /\ a = At(s[b], b, i) /\ y = At(s[b], NULL, i + 1)
    BY ChainNodes DEF ChainGap
  <1>2. /\ r \in Seq(Node) /\ IsInjective(r) /\ ToSet(r) = {e} /\ Len(r) = 1 /\ r[1] = e /\ r # <<>>
    BY DEF ToSet, IsInjective
  <1>3. Part(s[b], i, i + 1) = {}
    <2>1. i + 1 .. (i + 1) - 1 = {}
      BY <1>1
    <2> QED BY <2>1 DEF Part
  <1>4. a \in Members(s) \cup Bucket /\ y \in Members(s) \cup {NULL} /\ Members(s) \subseteq Node
    BY GapSlots
  <1>5. a # e /\ y # e /\ a \in Slot /\ e \in Slot /\ Members(s) \cup Bucket \subseteq Slot
    BY <1>4, Slots
  <1>6. Follows(m, a, e) /\ Follows(m, e, y)
    BY <1>4, <1>5 DEF Follows, Hooks
  <1>7. TableRelinks(c, m, s, b, i, r, i + 1)
    <2>1. \A k \in 1 .. Len(r) - 1 : Follows(m, r[k], r[k + 1])
      BY <1>2
    <2>2. ToSet(r) \cap Members(s) = {}
      BY <1>2
    <2>3. \A x \in Members(s) \cup Bucket : x # a => m.link[x] = c.link[x]
      BY <1>5, Slots DEF Hooks
    <2>4. \A x \in Members(s) : x # y => m.pprev[x] = c.pprev[x]
      BY <1>4 DEF Hooks
    <2>5. \A x \in Node \ (Members(s) \cup ToSet(r)) : m.link[x] = c.link[x] /\ m.pprev[x] = c.pprev[x]
      BY <1>2, <1>4, <1>5, Slots DEF Hooks
    <2>6. Follows(m, a, r[1]) /\ Follows(m, r[Len(r)], y)
      BY <1>2, <1>6
    <2> HIDE DEF r
    <2> QED BY <1>1, <1>2, <1>3, <2>1, <2>2, <2>3, <2>4, <2>5, <2>6 DEF TableRelinks
  <1>8. m \in ChainMemory
    BY DEF Hooks
  <1> HIDE DEF r
  <1>9. Table(m, [s EXCEPT ![b] = Spliced(s[b], i, r, i + 1)])
    BY <1>1, <1>2, <1>7, <1>8, TableRelinked
  <1> QED BY <1>9 DEF Filled, r

\* From c to m, node x is taken out from between slot a and y.
Unhooks(c, m, x, a, y) ==
    /\ m \in ChainMemory /\ OffTable(m, x)
    /\ \A z \in Slot \ {x} : m.link[z] = IF z = a THEN y ELSE c.link[z]
    /\ \A z \in Node \ {x} : m.pprev[z] = IF z = y THEN a ELSE c.pprev[z]

LEMMA ChainDropped ==
    ASSUME NEW c, NEW s, Table(c, s), NEW b \in Bucket, NEW m \in ChainMemory,
           NEW i \in 0 .. Len(s[b]), NEW j \in i + 1 .. Len(s[b]) + 1,
           TableRelinks(c, m, s, b, i, <<>>, j)
    PROVE  /\ Table(m, [s EXCEPT ![b] = Spliced(s[b], i, <<>>, j)])
           /\ Members([s EXCEPT ![b] = Spliced(s[b], i, <<>>, j)]) = Members(s) \ Part(s[b], i, j)
  <1>1. <<>> \in Seq(Node) /\ ToSet(<<>>) = {}
    BY DEF ToSet
  <1> DEFINE r == <<>>
  <1> HIDE DEF r
  <1>2. r \in Seq(Node) /\ TableRelinks(c, m, s, b, i, r, j) /\ ToSet(r) = {}
    BY <1>1 DEF r
  <1>3. Table(m, [s EXCEPT ![b] = Spliced(s[b], i, r, j)])
    BY <1>2, TableRelinked
  <1>4. Members([s EXCEPT ![b] = Spliced(s[b], i, r, j)])
           = (Members(s) \ Part(s[b], i, j)) \cup ToSet(r)
    BY <1>2, TableRelinked
  <1> QED BY <1>2, <1>3, <1>4 DEF r

LEMMA Unhooked ==
    ASSUME NEW c, NEW s, Table(c, s), NEW x \in Members(s),
           NEW m, Unhooks(c, m, x, c.pprev[x], c.link[x])
    PROVE  Table(m, Without(s, x)) /\ Members(Without(s, x)) = Members(s) \ {x}
  <1>1. PICK b, k : Chained(c, s, x, b, k)
    BY FindNode
  <1>2. /\ b \in Bucket /\ k \in 1 .. Len(s[b]) /\ s[b][k] = x /\ Len(s[b]) \in Nat
        /\ x \in Node /\ x # NULL
    BY <1>1, ChainNodes, Slots DEF Chained
  <1> DEFINE i == k - 1
             j == k + 1
  <1>3. i \in 0 .. Len(s[b]) /\ j \in i + 1 .. Len(s[b]) + 1 /\ i + 1 .. j - 1 = {k}
    BY <1>2
  <1>4. c.pprev[x] = At(s[b], b, i) /\ c.link[x] = At(s[b], NULL, j)
    BY <1>1, <1>2 DEF Chained, Follows
  <1>5. Without(s, x) = [s EXCEPT ![b] = Spliced(s[b], i, <<>>, j)]
    <2>1. <<>> \in Seq(Node)
      OBVIOUS
    <2> QED BY <1>1, <2>1 DEF Chained, Without
  <1> HIDE DEF i, j
  <1>6. Part(s[b], i, j) = {x}
    BY <1>2, <1>3 DEF Part
  <1> DEFINE a == c.pprev[x]
             y == c.link[x]
  <1>7. /\ a \in (Members(s) \cup Bucket) \ {x} /\ y \in (Members(s) \cup {NULL}) \ {x}
        /\ Members(s) \subseteq Node
    <2>1. \A n, l \in 1 .. Len(s[b]) : s[b][n] = s[b][l] => n = l
      BY <1>2, ChainNodes DEF IsInjective
    <2>2. i = 0 \/ (i \in 1 .. Len(s[b]) /\ i # k)
      BY <1>2 DEF i
    <2>3. j = Len(s[b]) + 1 \/ (j \in 1 .. Len(s[b]) /\ j # k)
      BY <1>2 DEF j
    <2>4. a \in (Members(s) \cup Bucket) \ {x}
      BY <1>2, <1>4, <2>1, <2>2, ChainNodes, Slots
    <2>5. y \in (Members(s) \cup {NULL}) \ {x}
      BY <1>2, <1>4, <2>1, <2>3, ChainNodes
    <2>6. Members(s) \subseteq Node
      BY ChainNodes DEF Members
    <2> QED BY <2>4, <2>5, <2>6
  <1> HIDE DEF a, y
  <1>8. /\ m \in ChainMemory /\ OffTable(m, x)
        /\ \A z \in Slot \ {x} : m.link[z] = IF z = a THEN y ELSE c.link[z]
        /\ \A z \in Node \ {x} : m.pprev[z] = IF z = y THEN a ELSE c.pprev[z]
    BY DEF Unhooks, a, y
  <1>9. Members(s) \cup Bucket \subseteq Slot /\ Node \subseteq Slot /\ x \notin Bucket
    BY <1>2, <1>7, Slots
  <1>10. Follows(m, a, y)
    BY <1>7, <1>8, <1>9 DEF Follows
  <1> DEFINE r == <<>>
  <1>11. r \in Seq(Node) /\ IsInjective(r) /\ ToSet(r) = {} /\ Len(r) = 0
    BY DEF ToSet, IsInjective
  <1>12. TableRelinks(c, m, s, b, i, r, j)
    <2>1. \A n \in 1 .. Len(r) - 1 : Follows(m, r[n], r[n + 1])
      BY <1>11
    <2>2. \A z \in (Members(s) \cup Bucket) \ {x} : z # a => m.link[z] = c.link[z]
      BY <1>8, <1>9
    <2>3. \A z \in Members(s) \ {x} : z # y => m.pprev[z] = c.pprev[z]
      BY <1>7, <1>8
    <2>4. \A z \in Node \ Members(s) : m.link[z] = c.link[z] /\ m.pprev[z] = c.pprev[z]
      <3>1. \A z \in Node \ Members(s) : z # a /\ z # y /\ z # x /\ z \in Slot
        BY <1>7, <1>9, Slots
      <3> QED BY <1>8, <3>1
    <2>5. r = <<>>
      OBVIOUS
    <2>6. a = At(s[b], b, i) /\ y = At(s[b], NULL, j)
      BY <1>4 DEF a, y
    <2> HIDE DEF r
    <2> QED BY <1>6, <1>8, <1>10, <1>11, <2>1, <2>2, <2>3, <2>4, <2>5, <2>6 DEF TableRelinks
  <1>13. Table(m, [s EXCEPT ![b] = Spliced(s[b], i, <<>>, j)])
    BY <1>2, <1>3, <1>8, <1>12, ChainDropped
  <1>14. Members([s EXCEPT ![b] = Spliced(s[b], i, <<>>, j)]) = Members(s) \ Part(s[b], i, j)
    BY <1>2, <1>3, <1>8, <1>12, ChainDropped
  <1> QED BY <1>5, <1>6, <1>13, <1>14

-----------------------------------------------------------------------------
(* Calls on chains. *)

\* What the calls store.
LEMMA HookStores ==
    ASSUME NEW c \in ChainMemory, NEW e \in Node
    PROVE  /\ \A a \in Slot \ {e} : c.link[a] \in (Node \cup {NULL}) \ {e} =>
                 /\ Hooks(c, hlist_add_head(c, e, a), e, a, c.link[a])
                 /\ Hooks(c, hlist_add_behind(c, e, a), e, a, c.link[a])
           /\ \A y \in Node \ {e} : c.pprev[y] \in Slot \ {e} =>
                 Hooks(c, hlist_add_before(c, e, y), e, c.pprev[y], y)
  <1>0. e \in Slot /\ NULL \notin Node /\ Node \subseteq Slot
    BY Slots
  <1>1. ASSUME NEW a \in Slot \ {e}, c.link[a] \in (Node \cup {NULL}) \ {e}
        PROVE  Hooks(c, hlist_add_head(c, e, a), e, a, c.link[a])
    <2> DEFINE m == hlist_add_head(c, e, a)
    <2>1. CASE c.link[a] = NULL
      <3>1. m = [link |-> [c.link EXCEPT ![e] = NULL, ![a] = e], pprev |-> [c.pprev EXCEPT ![e] = a]]
        BY <2>1 DEF hlist_add_head
      <3> HIDE DEF m
      <3>2. m \in ChainMemory
        BY <1>0, <3>1 DEF ChainMemory
      <3>3. \A z \in Slot : m.link[z] = IF z = e THEN NULL ELSE IF z = a THEN e ELSE c.link[z]
        BY <1>0, <3>1 DEF ChainMemory
      <3>4. \A z \in Node : m.pprev[z] = IF z = e THEN a ELSE IF z = NULL THEN e ELSE c.pprev[z]
        BY <1>0, <3>1 DEF ChainMemory
      <3> QED BY <2>1, <3>2, <3>3, <3>4 DEF Hooks, m
    <2>2. CASE c.link[a] # NULL
      <3> DEFINE y == c.link[a]
      <3>1. m = [link |-> [c.link EXCEPT ![e] = y, ![a] = e], pprev |-> [c.pprev EXCEPT ![y] = e, ![e] = a]]
        BY <2>2 DEF hlist_add_head
      <3>2. y \in Node \ {e}
        BY <1>1, <2>2
      <3> HIDE DEF m, y
      <3>3. m \in ChainMemory
        BY <1>0, <3>1, <3>2 DEF ChainMemory
      <3>4. \A z \in Slot : m.link[z] = IF z = e THEN y ELSE IF z = a THEN e ELSE c.link[z]
        BY <1>0, <3>1, <3>2 DEF ChainMemory
      <3>5. \A z \in Node : m.pprev[z] = IF z = e THEN a ELSE IF z = y THEN e ELSE c.pprev[z]
        BY <1>0, <3>1, <3>2 DEF ChainMemory
      <3> QED BY <3>3, <3>4, <3>5 DEF Hooks, m, y
    <2> QED BY <2>1, <2>2
  <1>2. ASSUME NEW a \in Slot \ {e}, c.link[a] \in (Node \cup {NULL}) \ {e}
        PROVE  Hooks(c, hlist_add_behind(c, e, a), e, a, c.link[a])
    <2>1. hlist_add_behind(c, e, a).link = hlist_add_head(c, e, a).link
      BY DEF hlist_add_behind, hlist_add_head
    <2>2. hlist_add_behind(c, e, a).pprev = hlist_add_head(c, e, a).pprev
      BY <1>0, <1>2 DEF hlist_add_behind, hlist_add_head, ChainMemory
    <2>3. hlist_add_behind(c, e, a) = hlist_add_head(c, e, a)
      BY <2>1, <2>2 DEF hlist_add_behind, hlist_add_head
    <2> QED BY <1>1, <1>2, <2>3
  <1>3. ASSUME NEW y \in Node \ {e}, c.pprev[y] \in Slot \ {e}
        PROVE  Hooks(c, hlist_add_before(c, e, y), e, c.pprev[y], y)
    <2> DEFINE m == hlist_add_before(c, e, y)
               a == c.pprev[y]
    <2>1. m = [link |-> [c.link EXCEPT ![e] = y, ![a] = e], pprev |-> [c.pprev EXCEPT ![e] = a, ![y] = e]]
      BY DEF hlist_add_before
    <2>2. a \in Slot \ {e}
      BY <1>3
    <2> HIDE DEF m, a
    <2>3. m \in ChainMemory
      BY <1>0, <2>1, <2>2 DEF ChainMemory
    <2>4. \A z \in Slot : m.link[z] = IF z = e THEN y ELSE IF z = a THEN e ELSE c.link[z]
      BY <1>0, <2>1, <2>2 DEF ChainMemory
    <2>5. \A z \in Node : m.pprev[z] = IF z = e THEN a ELSE IF z = y THEN e ELSE c.pprev[z]
      BY <1>0, <2>1, <2>2 DEF ChainMemory
    <2> QED BY <2>3, <2>4, <2>5 DEF Hooks, m, a
  <1> QED BY <1>1, <1>2, <1>3

\* The three ways in.
LEMMA ChainAdded ==
    ASSUME NEW c, NEW s, Table(c, s), NEW e \in Node \ Members(s)
    PROVE  /\ \A b \in Bucket : Table(hlist_add_head(c, e, b), Behind(s, b, <<e>>))
           /\ \A x \in Members(s) : /\ Table(hlist_add_before(c, e, x), Before(s, x, <<e>>))
                                    /\ Table(hlist_add_behind(c, e, x), Behind(s, x, <<e>>))
  <1>1. c \in ChainMemory /\ <<e>> \in Seq(Node)
    BY DEF Table
  <1>2. e \in Slot /\ e \notin Bucket /\ Node \subseteq Slot /\ Bucket \subseteq Slot /\ NULL \notin Node
    BY Slots
  <1>3. ASSUME NEW x \in Members(s) \cup Bucket
        PROVE  /\ x \in Bucket => Table(hlist_add_head(c, e, x), Behind(s, x, <<e>>))
               /\ Table(hlist_add_behind(c, e, x), Behind(s, x, <<e>>))
    <2>1. PICK b, i : /\ ChainGap(c, s, b, i, x, c.link[x])
                      /\ \A r \in Seq(Node) : Behind(s, x, r) = Filled(s, b, i, r)
      BY GapBehind
    <2>2. c.link[x] \in Members(s) \cup {NULL} /\ Members(s) \subseteq Node
      BY <2>1, GapSlots
    <2>3. x \in Slot \ {e} /\ c.link[x] \in (Node \cup {NULL}) \ {e}
      BY <1>2, <2>2
    <2>4. /\ Hooks(c, hlist_add_head(c, e, x), e, x, c.link[x])
          /\ Hooks(c, hlist_add_behind(c, e, x), e, x, c.link[x])
      BY <1>1, <2>3, HookStores
    <2>5. Table(hlist_add_head(c, e, x), Filled(s, b, i, <<e>>))
      BY <2>1, <2>4, Hooked
    <2>6. Table(hlist_add_behind(c, e, x), Filled(s, b, i, <<e>>))
      BY <2>1, <2>4, Hooked
    <2>7. Behind(s, x, <<e>>) = Filled(s, b, i, <<e>>)
      BY <1>1, <2>1
    <2> QED BY <2>5, <2>6, <2>7
  <1>4. ASSUME NEW x \in Members(s) PROVE Table(hlist_add_before(c, e, x), Before(s, x, <<e>>))
    <2>1. PICK b, i : /\ ChainGap(c, s, b, i, c.pprev[x], x)
                      /\ \A r \in Seq(Node) : Before(s, x, r) = Filled(s, b, i, r)
      BY GapBefore
    <2>2. c.pprev[x] \in Members(s) \cup Bucket /\ Members(s) \subseteq Node
      BY <2>1, GapSlots
    <2>3. x \in Node \ {e} /\ c.pprev[x] \in Slot \ {e}
      BY <1>2, <2>2
    <2>4. Hooks(c, hlist_add_before(c, e, x), e, c.pprev[x], x)
      BY <1>1, <2>3, HookStores
    <2>5. Table(hlist_add_before(c, e, x), Filled(s, b, i, <<e>>))
      BY <2>1, <2>4, Hooked
    <2>6. Before(s, x, <<e>>) = Filled(s, b, i, <<e>>)
      BY <1>1, <2>1
    <2> QED BY <2>5, <2>6
  <1> QED BY <1>3, <1>4

\* What deletion stores, of a node between slot a and y.
LEMMA UnhookStores ==
    ASSUME NEW c \in ChainMemory, NEW x \in Node,
           c.pprev[x] \in Slot \ {x}, c.link[x] \in (Node \cup {NULL}) \ {x}
    PROVE  /\ Unhooks(c, hlist_del(c, x), x, c.pprev[x], c.link[x])
           /\ Unhooks(c, hlist_del_init(c, x), x, c.pprev[x], c.link[x])
  <1> DEFINE g == hlist_unlink(c, x)
             a == c.pprev[x]
             y == c.link[x]
  <1>0. x \in Slot /\ NULL \notin Node /\ Node \subseteq Slot /\ NULL \notin Slot
    BY Slots
  <1>1. /\ g.link = [c.link EXCEPT ![a] = y]
        /\ g.pprev = IF y = NULL THEN c.pprev ELSE [c.pprev EXCEPT ![y] = a]
    BY DEF hlist_unlink
  <1>2. a \in Slot \ {x} /\ y \in (Node \cup {NULL}) \ {x}
    OBVIOUS
  <1>3. hlist_del(c, x) = [link |-> [g.link EXCEPT ![x] = LIST_POISON1],
                           pprev |-> [g.pprev EXCEPT ![x] = LIST_POISON2]]
    BY DEF hlist_del
  <1>4. hlist_del_init(c, x) = [link |-> [g.link EXCEPT ![x] = NULL],
                                pprev |-> [g.pprev EXCEPT ![x] = NULL]]
    BY <1>0 DEF hlist_del_init, hlist_unhashed, hlist_init_node
  <1> HIDE DEF g, a, y
  <1>5. g.link \in [Slot -> Node \cup {NULL, LIST_POISON1}]
    BY <1>1, <1>2 DEF ChainMemory
  <1>6. g.pprev \in [Node -> Slot \cup {NULL, LIST_POISON2}]
    BY <1>1, <1>2 DEF ChainMemory
  <1>7. \A z \in Slot : g.link[z] = IF z = a THEN y ELSE c.link[z]
    BY <1>1, <1>2 DEF ChainMemory
  <1>8. \A z \in Node : g.pprev[z] = IF z = y THEN a ELSE c.pprev[z]
    BY <1>0, <1>1, <1>2 DEF ChainMemory
  <1>9. ASSUME NEW p \in {NULL, LIST_POISON1}, NEW o \in {NULL, LIST_POISON2}
        PROVE  Unhooks(c, [link |-> [g.link EXCEPT ![x] = p], pprev |-> [g.pprev EXCEPT ![x] = o]],
                       x, a, y)
    <2> DEFINE m == [link |-> [g.link EXCEPT ![x] = p], pprev |-> [g.pprev EXCEPT ![x] = o]]
    <2>1. m \in ChainMemory
      BY <1>5, <1>6 DEF ChainMemory
    <2>2. \A z \in Slot \ {x} : m.link[z] = IF z = a THEN y ELSE c.link[z]
      BY <1>5, <1>7
    <2>3. \A z \in Node \ {x} : m.pprev[z] = IF z = y THEN a ELSE c.pprev[z]
      BY <1>6, <1>8
    <2>4. m.link[x] = p /\ m.pprev[x] = o
      BY <1>0, <1>5, <1>6
    <2> HIDE DEF m
    <2>5. OffTable(m, x)
      BY <2>4, Slots DEF OffTable
    <2>6. Unhooks(c, m, x, a, y)
      BY <2>1, <2>2, <2>3, <2>5 DEF Unhooks
    <2> QED BY <2>6 DEF m
  <1> QED BY <1>3, <1>4, <1>9 DEF a, y

\* The two ways out.
LEMMA ChainLost ==
    ASSUME NEW c, NEW s, Table(c, s), NEW x \in Members(s)
    PROVE  /\ Table(hlist_del(c, x), Without(s, x)) /\ Table(hlist_del_init(c, x), Without(s, x))
           /\ Members(Without(s, x)) = Members(s) \ {x}
           /\ Unhooks(c, hlist_del(c, x), x, c.pprev[x], c.link[x])
           /\ Unhooks(c, hlist_del_init(c, x), x, c.pprev[x], c.link[x])
  <1>1. PICK b, k : Chained(c, s, x, b, k)
    BY FindNode
  <1>2. /\ b \in Bucket /\ k \in 1 .. Len(s[b]) /\ s[b][k] = x /\ Len(s[b]) \in Nat /\ x \in Node
        /\ c.pprev[x] = At(s[b], b, k - 1) /\ c.link[x] = At(s[b], NULL, k + 1)
    BY <1>1, ChainNodes, Slots DEF Chained, Follows
  <1>3. \A n, l \in 1 .. Len(s[b]) : s[b][n] = s[b][l] => n = l
    BY <1>2, ChainNodes DEF IsInjective
  <1>4. c.pprev[x] \in Slot \ {x}
    <2>1. k - 1 = 0 \/ (k - 1 \in 1 .. Len(s[b]) /\ k - 1 # k)
      BY <1>2
    <2> QED BY <1>2, <1>3, <2>1, ChainNodes, Slots
  <1>5. c.link[x] \in (Node \cup {NULL}) \ {x}
    <2>1. k + 1 = Len(s[b]) + 1 \/ (k + 1 \in 1 .. Len(s[b]) /\ k + 1 # k)
      BY <1>2
    <2> QED BY <1>2, <1>3, <2>1, ChainNodes, Slots
  <1>6. c \in ChainMemory
    BY DEF Table
  <1>7. /\ Unhooks(c, hlist_del(c, x), x, c.pprev[x], c.link[x])
        /\ Unhooks(c, hlist_del_init(c, x), x, c.pprev[x], c.link[x])
    BY <1>2, <1>4, <1>5, <1>6, UnhookStores
  <1> QED BY <1>7, Unhooked

\* Only a node off the table has changed.
LEMMA TableLoose ==
    ASSUME NEW c, NEW s, Table(c, s), NEW e \in Node \ Members(s), NEW m \in ChainMemory,
           OffTable(m, e), \A z \in Slot \ {e} : m.link[z] = c.link[z],
           \A z \in Node \ {e} : m.pprev[z] = c.pprev[z]
    PROVE  Table(m, s)
  <1>1. ASSUME NEW b \in Bucket PROVE ChainIs(m, b, s[b])
    <2>1. ToSet(s[b]) \subseteq Node \ {e} /\ b # e /\ b \in Slot /\ Node \subseteq Slot
      BY ChainNodes, Slots
    <2>2. /\ \A x \in ToSet(s[b]) \cup {b} : m.link[x] = c.link[x]
          /\ \A x \in ToSet(s[b]) : m.pprev[x] = c.pprev[x]
      BY <2>1
    <2> QED BY <2>2, ChainKept
  <1>2. ASSUME NEW x \in Node \ Members(s) PROVE OffTable(m, x)
    <2>1. x # e => OffTable(c, x) /\ m.link[x] = c.link[x] /\ m.pprev[x] = c.pprev[x]
      BY Slots DEF Table
    <2> QED BY <2>1 DEF OffTable
  <1> QED BY <1>1, <1>2 DEF Table

\* A node off the table is in none of its sequences.
LEMMA WithoutOff ==
    ASSUME NEW c, NEW s, Table(c, s), NEW e \in Node \ Members(s)
    PROVE  Without(s, e) = s
  <1>1. \A b \in Bucket : Instead(s[b], e, <<>>) = s[b]
    BY DEF Instead, Members
  <1>2. s \in [Bucket -> Seq(Node)]
    BY DEF Table
  <1> QED BY <1>1, <1>2 DEF Without, InsteadOf

\* Deletion of a fake, and initialised deletion of a node off the table.
LEMMA LooseLost ==
    ASSUME NEW c, NEW s, Table(c, s), NEW e \in Node \ Members(s)
    PROVE  /\ hlist_fake(c, e) => Table(hlist_del(c, e), Without(s, e))
           /\ c.pprev[e] # LIST_POISON2 => Table(hlist_del_init(c, e), Without(s, e))
  <1>1. /\ Without(s, e) = s /\ c \in ChainMemory /\ OffTable(c, e)
        /\ e \in Slot /\ Node \subseteq Slot
    BY WithoutOff, Slots DEF Table
  <1>2. ASSUME NEW p \in {NULL, LIST_POISON1}, NEW o \in {NULL, LIST_POISON2}
        PROVE  Table([link |-> [c.link EXCEPT ![e] = p], pprev |-> [c.pprev EXCEPT ![e] = o]], s)
    <2> DEFINE m == [link |-> [c.link EXCEPT ![e] = p], pprev |-> [c.pprev EXCEPT ![e] = o]]
    <2>1. m \in ChainMemory
      BY <1>1 DEF ChainMemory
    <2>2. m.link[e] = p /\ m.pprev[e] = o
      BY <1>1 DEF ChainMemory
    <2>3. /\ \A z \in Slot \ {e} : m.link[z] = c.link[z]
          /\ \A z \in Node \ {e} : m.pprev[z] = c.pprev[z]
      BY <1>1 DEF ChainMemory
    <2> HIDE DEF m
    <2>4. OffTable(m, e)
      BY <2>2, Slots DEF OffTable
    <2>5. Table(m, s)
      BY <2>1, <2>3, <2>4, TableLoose
    <2> QED BY <2>5 DEF m
  <1>3. ASSUME hlist_fake(c, e)
        PROVE  /\ hlist_unlink(c, e).link = [c.link EXCEPT ![e] = NULL]
               /\ hlist_unlink(c, e).pprev = c.pprev
    <2>1. c.pprev[e] = e /\ c.link[e] = NULL
      BY <1>1, <1>3 DEF hlist_fake, OffTable
    <2> QED BY <2>1 DEF hlist_unlink
  <1>4. ASSUME hlist_fake(c, e), NEW p
        PROVE  [hlist_unlink(c, e).link EXCEPT ![e] = p] = [c.link EXCEPT ![e] = p]
    BY <1>1, <1>3, <1>4 DEF ChainMemory
  <1>5. ASSUME hlist_fake(c, e) PROVE Table(hlist_del(c, e), s)
    <2>1. hlist_del(c, e) = [link |-> [c.link EXCEPT ![e] = LIST_POISON1],
                             pprev |-> [c.pprev EXCEPT ![e] = LIST_POISON2]]
      BY <1>3, <1>4, <1>5 DEF hlist_del
    <2> QED BY <1>2, <2>1
  <1>6. ASSUME c.pprev[e] # LIST_POISON2 PROVE Table(hlist_del_init(c, e), s)
    <2>1. CASE c.pprev[e] = NULL
      BY <2>1 DEF hlist_del_init, hlist_unhashed
    <2>2. CASE c.pprev[e] = e
      <3>1. hlist_del_init(c, e) = [link |-> [c.link EXCEPT ![e] = NULL],
                                    pprev |-> [c.pprev EXCEPT ![e] = NULL]]
        <4>1. hlist_fake(c, e) /\ e # NULL
          BY <2>2, Slots DEF hlist_fake
        <4> QED BY <1>3, <1>4, <2>2, <4>1 DEF hlist_del_init, hlist_unhashed, hlist_init_node
      <3> QED BY <1>2, <3>1
    <2> QED BY <1>1, <1>6, <2>1, <2>2 DEF OffTable
  <1> QED BY <1>1, <1>5, <1>6

\* A chain moves to an empty bucket.
LEMMA ChainMoved ==
    ASSUME NEW c, NEW s, Table(c, s), NEW old \in Bucket, NEW new \in Bucket, old # new,
           s[new] = <<>>
    PROVE  Table(hlist_move_list(c, old, new), [s EXCEPT ![new] = s[old], ![old] = <<>>])
  <1> DEFINE m == hlist_move_list(c, old, new)
             t == [s EXCEPT ![new] = s[old], ![old] = <<>>]
             q == s[old]
             first == c.link[old]
  <1>1. /\ Len(q) \in Nat /\ At(q, old, 0) = old /\ At(q, NULL, Len(q) + 1) = NULL
        /\ \A k \in 1 .. Len(q) : /\ At(q, old, k) = q[k] /\ At(q, NULL, k) = q[k]
                                  /\ q[k] \in ToSet(q)
        /\ ToSet(q) \subseteq Node /\ ToSet(q) \subseteq Members(s) /\ IsInjective(q)
        /\ q \in Seq(Node) /\ DOMAIN q = 1 .. Len(q)
    BY ChainNodes
  <1>2. ChainIs(c, old, q) /\ c \in ChainMemory /\ s \in [Bucket -> Seq(Node)]
    BY DEF Table
  <1>3. first = At(q, NULL, 1)
    <2>1. 0 \in 0 .. Len(q) /\ 0 + 1 = 1
      BY <1>1
    <2> QED BY <1>1, <1>2, <2>1 DEF ChainIs, Follows
  <1>4. first \in ToSet(q) \cup {NULL}
    <2>1. 1 = Len(q) + 1 \/ 1 \in 1 .. Len(q)
      BY <1>1
    <2> QED BY <1>1, <1>3, <2>1
  <1>5. /\ m.link = [c.link EXCEPT ![new] = first, ![old] = NULL]
        /\ m.pprev = IF first = NULL THEN c.pprev ELSE [c.pprev EXCEPT ![first] = new]
        /\ m = [link |-> m.link, pprev |-> m.pprev]
    BY DEF hlist_move_list
  <1>6. t[old] = <<>> /\ t[new] = q /\ \A b \in Bucket \ {old, new} : t[b] = s[b]
    BY <1>2
  <1>7. t \in [Bucket -> Seq(Node)]
    BY <1>1, <1>2
  <1>8. /\ Node \cap Bucket = {} /\ NULL \notin Slot /\ NULL \notin Node /\ Node \subseteq Slot
        /\ Bucket \subseteq Slot
    BY Slots
  <1> HIDE DEF m, t, q, first
  <1>9. m \in ChainMemory
    <2>6. /\ c.link \in [Slot -> Node \cup {NULL, LIST_POISON1}]
          /\ c.pprev \in [Node -> Slot \cup {NULL, LIST_POISON2}]
      BY <1>2 DEF ChainMemory
    <2>7. first \in Node \cup {NULL} /\ new \in Slot /\ old \in Slot
      BY <1>1, <1>4, <1>8
    <2>1. m.link \in [Slot -> Node \cup {NULL, LIST_POISON1}]
      <3>1. [c.link EXCEPT ![new] = first] \in [Slot -> Node \cup {NULL, LIST_POISON1}]
        BY <2>6, <2>7
      <3>2. m.link = [[c.link EXCEPT ![new] = first] EXCEPT ![old] = NULL]
        BY <1>5
      <3> QED BY <2>7, <3>1, <3>2
    <2>2. m.pprev \in [Node -> Slot \cup {NULL, LIST_POISON2}]
      <3>1. first \in Node => [c.pprev EXCEPT ![first] = new] \in [Node -> Slot \cup {NULL, LIST_POISON2}]
        BY <2>6, <2>7
      <3> QED BY <1>5, <2>6, <2>7, <3>1
    <2>3. \A f, g : f \in [Slot -> Node \cup {NULL, LIST_POISON1}]
                   /\ g \in [Node -> Slot \cup {NULL, LIST_POISON2}]
                      => [link |-> f, pprev |-> g] \in ChainMemory
      BY DEF ChainMemory
    <2>4. [link |-> m.link, pprev |-> m.pprev] \in ChainMemory
      BY <2>1, <2>2, <2>3, Zenon
    <2>5. m = [link |-> m.link, pprev |-> m.pprev]
      BY <1>5
    <2> QED BY <2>4, <2>5, Zenon
  <1>10. \A z \in Slot : m.link[z] = IF z = old THEN NULL ELSE IF z = new THEN first ELSE c.link[z]
    BY <1>2, <1>5, <1>8 DEF ChainMemory
  <1>11. \A z \in Node : m.pprev[z] = IF z = first THEN new ELSE c.pprev[z]
    BY <1>1, <1>2, <1>4, <1>5, <1>8 DEF ChainMemory
  <1>12. ChainIs(m, new, t[new])
    <2>1. ASSUME NEW k \in 0 .. Len(q) PROVE Follows(m, At(q, new, k), At(q, NULL, k + 1))
      <3>0. Follows(c, At(q, old, k), At(q, NULL, k + 1))
        BY <1>2 DEF ChainIs
      <3>1. CASE k = 0
        <4>1. At(q, new, k) = new /\ k + 1 = 1
          BY <1>1, <3>1 DEF At
        <4> QED BY <1>1, <1>3, <1>4, <1>8, <1>10, <1>11, <4>1 DEF Follows
      <3>2. CASE k # 0
        <4>1. k \in 1 .. Len(q) /\ k + 1 # 1 /\ (k + 1 = Len(q) + 1 \/ k + 1 \in 1 .. Len(q))
          BY <1>1, <3>2
        <4>2. At(q, new, k) = q[k] /\ At(q, old, k) = q[k] /\ q[k] \in Node
          BY <1>1, <4>1 DEF At
        <4>3. m.link[q[k]] = At(q, NULL, k + 1)
          BY <1>8, <1>10, <3>0, <4>2 DEF Follows
        <4>4. CASE k + 1 \in 1 .. Len(q)
          <5>1. 1 \in 1 .. Len(q) /\ 1 # k + 1
            BY <1>1, <4>1
          <5>2. q[k + 1] # first /\ q[k + 1] \in Node /\ At(q, NULL, k + 1) = q[k + 1]
            BY <1>1, <1>3, <4>4, <5>1 DEF IsInjective
          <5>3. m.pprev[q[k + 1]] = q[k]
            BY <1>8, <1>11, <3>0, <4>2, <5>2 DEF Follows
          <5> QED BY <4>2, <4>3, <5>2, <5>3 DEF Follows
        <4>5. CASE k + 1 = Len(q) + 1
          BY <1>1, <4>2, <4>3, <4>5 DEF Follows
        <4> QED BY <4>1, <4>4, <4>5
      <3> QED BY <3>1, <3>2
    <2> QED BY <1>1, <1>6, <2>1 DEF ChainIs
  <1>13. ChainIs(m, old, t[old])
    <2> DEFINE e == <<>>
    <2>1. Len(e) = 0 /\ IsInjective(e) /\ At(e, old, 0) = old /\ At(e, NULL, 1) = NULL
      BY DEF IsInjective, At
    <2>2. m.link[old] = NULL
      BY <1>8, <1>10
    <2>3. Follows(m, At(e, old, 0), At(e, NULL, 0 + 1))
      BY <2>1, <2>2 DEF Follows
    <2>4. t[old] = e
      BY <1>6
    <2> HIDE DEF e
    <2>5. \A k \in 0 .. Len(e) : k = 0
      BY <2>1
    <2> QED BY <2>1, <2>3, <2>4, <2>5 DEF ChainIs
  <1>14. ASSUME NEW b \in Bucket \ {old, new} PROVE ChainIs(m, b, t[b])
    <2>1. ToSet(s[b]) \subseteq Node /\ b \in Slot
      BY <1>8, ChainNodes
    <2>2. ToSet(s[b]) \cap ToSet(q) = {}
      BY DEF Table, q
    <2>3. \A x \in ToSet(s[b]) \cup {b} : m.link[x] = c.link[x]
      BY <1>8, <1>10, <2>1
    <2>4. \A x \in ToSet(s[b]) : m.pprev[x] = c.pprev[x]
      BY <1>4, <1>8, <1>11, <2>1, <2>2
    <2>5. ChainIs(m, b, s[b])
      BY <2>3, <2>4, ChainKept
    <2> QED BY <1>6, <2>5
  <1>15. \A b \in Bucket : ChainIs(m, b, t[b])
    BY <1>12, <1>13, <1>14
  <1>16. ToSet(t[old]) = {} /\ ToSet(s[new]) = {}
    BY <1>6 DEF ToSet
  <1>17. \A a, b \in Bucket : a # b => ToSet(t[a]) \cap ToSet(t[b]) = {}
    <2>1. \A a, b \in Bucket \ {old, new} : a # b => ToSet(t[a]) \cap ToSet(t[b]) = {}
      BY <1>6 DEF Table
    <2>2. \A a \in Bucket \ {old, new} : ToSet(t[a]) \cap ToSet(t[new]) = {}
      BY <1>6 DEF Table, q
    <2> QED BY <1>16, <2>1, <2>2
  <1>18. Members(t) = Members(s)
    <2> DEFINE U == UNION {ToSet(s[a]) : a \in Bucket \ {old, new}}
    <2>1. Members(t) = ToSet(t[old]) \cup ToSet(t[new]) \cup U
      BY <1>6 DEF Members
    <2>2. Members(s) = ToSet(s[old]) \cup ToSet(s[new]) \cup U
      BY DEF Members
    <2> HIDE DEF U
    <2> QED BY <1>6, <1>16, <2>1, <2>2 DEF q
  <1>19. ASSUME NEW e \in Node \ Members(s) PROVE OffTable(m, e)
    <2>1. OffTable(c, e)
      BY DEF Table
    <2>2. m.link[e] = c.link[e] /\ m.pprev[e] = c.pprev[e]
      BY <1>1, <1>4, <1>8, <1>10, <1>11
    <2> QED BY <2>1, <2>2 DEF OffTable
  <1>20. Table(m, t)
    BY <1>7, <1>9, <1>15, <1>17, <1>18, <1>19 DEF Table
  <1> QED BY <1>20 DEF m, t, q

-----------------------------------------------------------------------------
(* The scan. *)

LEMMA InTableIs == InTable = Members(chainSeq)
  BY DEF InTable, Members

ScanRecord ==
    [bkt : Bucket, obj : Node \cup {NULL}, tmp : Node \cup {NULL}, due : [Bucket -> Seq(Node)]]

\* The scan owes its object and what its chain holds from the k-th node on, which is the
\* one it has read; the node it is at, unless its body took it out, is the one before.
Meets(p, s, k) ==
    /\ k \in 1 .. Len(s[p.bkt]) + 1 /\ p.tmp = At(s[p.bkt], NULL, k)
    /\ p.due[p.bkt] = <<p.obj>> \o SubSeq(s[p.bkt], k, Len(s[p.bkt]))
    /\ p.obj \in Members(s) => p.obj = At(s[p.bkt], p.bkt, k - 1)

ScanStands(p, s) ==
    /\ p \in ScanRecord
    /\ \A b \in Bucket : (b < p.bkt => p.due[b] = <<>>) /\ (b > p.bkt => p.due[b] = s[b])
    /\ p.obj = NULL => p.due[p.bkt] = <<>>
    /\ p.obj # NULL => \E k : Meets(p, s, k)

\* A scan is at o, the i-th node of the chain of bucket b or its end.
GoesTo(c, s, b, i, o, u, d) ==
    /\ b \in Bucket /\ i \in 1 .. Len(s[b]) + 1
    /\ o = At(s[b], NULL, i) /\ u \in Node \cup {NULL} /\ (o # NULL => u = c.link[o])
    /\ d \in [Bucket -> Seq(Node)] /\ d[b] = SubSeq(s[b], i, Len(s[b]))
    /\ \A a \in Bucket : (a < b => d[a] = <<>>) /\ (a > b => d[a] = s[a])

LEMMA ScanGoes ==
    ASSUME NEW c, NEW s, Table(c, s), NEW b, NEW i, NEW o, NEW u, NEW d, GoesTo(c, s, b, i, o, u, d)
    PROVE  ScanStands([bkt |-> b, obj |-> o, due |-> d, tmp |-> u], s)
  <1>0. /\ b \in Bucket /\ i \in 1 .. Len(s[b]) + 1
        /\ o = At(s[b], NULL, i) /\ u \in Node \cup {NULL} /\ (o # NULL => u = c.link[o])
        /\ d \in [Bucket -> Seq(Node)] /\ d[b] = SubSeq(s[b], i, Len(s[b]))
        /\ \A a \in Bucket : (a < b => d[a] = <<>>) /\ (a > b => d[a] = s[a])
    BY DEF GoesTo
  <1> DEFINE p == [bkt |-> b, obj |-> o, due |-> d, tmp |-> u]
             q == s[b]
  <1>1. /\ Len(q) \in Nat /\ At(q, NULL, Len(q) + 1) = NULL /\ q \in Seq(Node)
        /\ \A k \in 1 .. Len(q) : At(q, b, k) = q[k] /\ At(q, NULL, k) = q[k] /\ q[k] \in Node
        /\ NULL \notin Node
    BY <1>0, ChainNodes, Slots
  <1>2. p.bkt = b /\ p.obj = o /\ p.due = d /\ p.tmp = u
    OBVIOUS
  <1>3. CASE i = Len(q) + 1
    <2>1. o = NULL
      BY <1>0, <1>1, <1>3
    <2>2. d[b] = <<>>
      BY <1>0, <1>1, <1>3, SubSeqEmpty
    <2>3. p \in ScanRecord
      BY <1>0, <2>1 DEF ScanRecord
    <2> QED BY <1>0, <2>1, <2>2, <2>3 DEF ScanStands
  <1>4. CASE i # Len(q) + 1
    <2>1. i \in 1 .. Len(q) /\ i \in 0 .. Len(q)
      BY <1>0, <1>1, <1>4
    <2>2. o = q[i] /\ o \in Node /\ o = At(q, b, i) /\ o # NULL
      BY <1>0, <1>1, <2>1
    <2>3. u = At(q, NULL, i + 1)
      <3>1. Follows(c, At(q, b, i), At(q, NULL, i + 1))
        BY <1>0, <2>1 DEF Table, ChainIs
      <3> QED BY <1>0, <2>2, <3>1 DEF Follows
    <2>4. p \in ScanRecord
      BY <1>0, <2>2 DEF ScanRecord
    <2>5. d[b] = <<o>> \o SubSeq(q, i + 1, Len(q))
      <3>1. SubSeq(q, i, Len(q)) = <<q[i]>> \o SubSeq(q, i + 1, Len(q))
        <4>1. Len(q) \in i .. Len(q)
          BY <1>1, <2>1
        <4> HIDE DEF q
        <4> QED BY <1>1, <2>1, <4>1, SubSeqRecursiveFirst
      <3> QED BY <1>0, <2>2, <3>1
    <2>6. i + 1 \in 1 .. Len(q) + 1 /\ (i + 1) - 1 = i
      BY <1>1, <2>1
    <2>7. Meets(p, s, i + 1)
      BY <1>2, <2>2, <2>3, <2>5, <2>6 DEF Meets
    <2> QED BY <1>0, <1>2, <2>2, <2>4, <2>7 DEF ScanStands
  <1> QED BY <1>3, <1>4

\* The head of a bucket points at the first node of its chain.
LEMMA FirstNode ==
    ASSUME NEW c, NEW s, Table(c, s), NEW b \in Bucket
    PROVE  /\ 1 \in 1 .. Len(s[b]) + 1 /\ c.link[b] = At(s[b], NULL, 1)
           /\ s[b] = SubSeq(s[b], 1, Len(s[b]))
           /\ c.link[b] # NULL <=> s[b] # <<>>
  <1>1. /\ Len(s[b]) \in Nat /\ At(s[b], b, 0) = b /\ At(s[b], NULL, Len(s[b]) + 1) = NULL
        /\ s[b] \in Seq(Node) /\ NULL \notin Node
        /\ \A k \in 1 .. Len(s[b]) : At(s[b], NULL, k) = s[b][k] /\ s[b][k] \in Node
    BY ChainNodes, Slots
  <1>2. 0 \in 0 .. Len(s[b]) /\ 0 + 1 = 1
    BY <1>1
  <1>3. c.link[b] = At(s[b], NULL, 1)
    BY <1>1, <1>2 DEF Table, ChainIs, Follows
  <1>4. s[b] = SubSeq(s[b], 1, Len(s[b]))
    BY <1>1, SubSeqFull
  <1>5. CASE s[b] = <<>>
    BY <1>1, <1>2, <1>3, <1>4, <1>5
  <1>6. CASE s[b] # <<>>
    <2>1. Len(s[b]) # 0
      BY <1>1, <1>6, EmptySeq
    <2>2. 1 \in 1 .. Len(s[b]) /\ 1 \in 1 .. Len(s[b]) + 1
      BY <1>1, <2>1
    <2> QED BY <1>1, <1>3, <1>4, <1>6, <2>2
  <1> QED BY <1>5, <1>6

\* Every link of the table is a node or NULL.
LEMMA LinkType ==
    ASSUME NEW c, NEW s, Table(c, s), NEW x \in Members(s) \cup Bucket
    PROVE  c.link[x] \in Members(s) \cup {NULL} /\ Members(s) \subseteq Node
  <1>1. PICK b, i : ChainGap(c, s, b, i, x, c.link[x])
    BY GapBehind
  <1> QED BY <1>1, GapSlots

LEMMA ScanStarted ==
    ASSUME Table(chain, chainSeq), ScanStart
    PROVE  ScanStands(scan', chainSeq)
  <1> DEFINE o == chain.link[0]
             u == IF o = NULL THEN NULL ELSE chain.link[o]
  <1>1. /\ 0 \in Bucket /\ Bucket \subseteq Nat /\ chainSeq \in [Bucket -> Seq(Node)]
    BY BucketAssumption DEF Table
  <1>2. /\ 1 \in 1 .. Len(chainSeq[0]) + 1 /\ o = At(chainSeq[0], NULL, 1)
        /\ chainSeq[0] = SubSeq(chainSeq[0], 1, Len(chainSeq[0]))
    BY <1>1, FirstNode
  <1>3. u \in Node \cup {NULL} /\ (o # NULL => u = chain.link[o])
    <2>1. o \in Members(chainSeq) \cup {NULL} /\ Members(chainSeq) \subseteq Node
      BY <1>1, LinkType
    <2>2. o # NULL => chain.link[o] \in Members(chainSeq) \cup {NULL}
      BY <2>1, LinkType
    <2> QED BY <2>1, <2>2
  <1>4. scan' = [bkt |-> 0, obj |-> o, due |-> chainSeq, tmp |-> u]
    BY DEF ScanStart
  <1>5. \A a \in Bucket : (a < 0 => chainSeq[a] = <<>>) /\ (a > 0 => chainSeq[a] = chainSeq[a])
    BY <1>1
  <1> HIDE DEF o, u
  <1>6. ScanStands([bkt |-> 0, obj |-> o, due |-> chainSeq, tmp |-> u], chainSeq)
    <2>1. GoesTo(chain, chainSeq, 0, 1, o, u, chainSeq)
      BY <1>1, <1>2, <1>3, <1>5 DEF GoesTo
    <2> QED BY <2>1, ScanGoes
  <1> QED BY <1>4, <1>6

LEMMA ScanMoved ==
    ASSUME Table(chain, chainSeq), ScanStands(scan, chainSeq), ScanBucket
    PROVE  ScanStands(scan', chainSeq)
  <1> DEFINE b == scan.bkt + 1
             o == chain.link[b]
             u == IF o = NULL THEN scan.tmp ELSE chain.link[o]
             d == scan.due
  <1>1. /\ b \in Bucket /\ Bucket \subseteq Nat /\ scan \in ScanRecord /\ d[scan.bkt] = <<>>
        /\ \A a \in Bucket : (a < scan.bkt => d[a] = <<>>) /\ (a > scan.bkt => d[a] = chainSeq[a])
    BY BucketAssumption DEF ScanBucket, ScanStands
  <1>2. /\ scan.bkt \in Bucket /\ d \in [Bucket -> Seq(Node)] /\ scan.tmp \in Node \cup {NULL}
    BY <1>1 DEF ScanRecord
  <1>3. scan' = [bkt |-> b, obj |-> o, due |-> d, tmp |-> u]
    BY DEF ScanBucket, ScanAt
  <1>4. \A a \in Bucket : (a < b => d[a] = <<>>) /\ (a > b => d[a] = chainSeq[a])
    <2>1. \A a \in Bucket : (a < b => a < scan.bkt \/ a = scan.bkt) /\ (a > b => a > scan.bkt)
      <3> SUFFICES ASSUME NEW a \in Bucket
          PROVE  (a < b => a < scan.bkt \/ a = scan.bkt) /\ (a > b => a > scan.bkt)
        OBVIOUS
      <3>1. a \in Nat /\ scan.bkt \in Nat
        BY <1>1, <1>2
      <3> QED BY <3>1
    <2> QED BY <1>1, <2>1
  <1>5. d[b] = chainSeq[b]
    <2>2. scan.bkt \in Nat
      BY <1>1, <1>2
    <2>1. b > scan.bkt
      BY <2>2
    <2>3. b \in Bucket /\ \A a \in Bucket : a > scan.bkt => d[a] = chainSeq[a]
      BY <1>1
    <2> HIDE DEF b, d
    <2> QED BY <2>1, <2>3
  <1> HIDE DEF b, d
  <1>6. u \in Node \cup {NULL} /\ (o # NULL => u = chain.link[o])
    <2>1. o \in Members(chainSeq) \cup {NULL} /\ Members(chainSeq) \subseteq Node
      BY <1>1, LinkType
    <2>2. o # NULL => chain.link[o] \in Members(chainSeq) \cup {NULL}
      BY <2>1, LinkType
    <2> QED BY <1>2, <2>1, <2>2
  <1>7. /\ 1 \in 1 .. Len(chainSeq[b]) + 1 /\ o = At(chainSeq[b], NULL, 1)
        /\ chainSeq[b] = SubSeq(chainSeq[b], 1, Len(chainSeq[b]))
    BY <1>1, FirstNode
  <1>8. d[b] = SubSeq(chainSeq[b], 1, Len(chainSeq[b]))
    BY <1>5, <1>7
  <1> HIDE DEF o, u
  <1>9. ScanStands([bkt |-> b, obj |-> o, due |-> d, tmp |-> u], chainSeq)
    <2>1. GoesTo(chain, chainSeq, b, 1, o, u, d)
      BY <1>1, <1>2, <1>4, <1>6, <1>7, <1>8 DEF GoesTo
    <2> QED BY <2>1, ScanGoes
  <1> QED BY <1>3, <1>9

LEMMA ScanWent ==
    ASSUME Table(chain, chainSeq), ScanStands(scan, chainSeq), ScanNext
    PROVE  ScanStands(scan', chainSeq)
  <1> DEFINE b == scan.bkt
             q == chainSeq[b]
             o == scan.tmp
             u == IF o = NULL THEN scan.tmp ELSE chain.link[o]
             d == [scan.due EXCEPT ![b] = Tail(@)]
  <1>1. /\ scan \in ScanRecord /\ scan.obj # NULL
        /\ \A a \in Bucket : (a < b => scan.due[a] = <<>>) /\ (a > b => scan.due[a] = chainSeq[a])
    BY DEF ScanNext, ScanStands
  <1>2. /\ b \in Bucket /\ scan.due \in [Bucket -> Seq(Node)] /\ scan.tmp \in Node \cup {NULL}
        /\ scan.obj \in Node
    BY <1>1 DEF ScanRecord
  <1>3. PICK k : Meets(scan, chainSeq, k)
    BY <1>1 DEF ScanStands
  <1>4. k \in 1 .. Len(q) + 1 /\ o = At(q, NULL, k) /\ scan.due[b] = <<scan.obj>> \o SubSeq(q, k, Len(q))
    BY <1>3 DEF Meets
  <1>5. /\ q \in Seq(Node) /\ Len(q) \in Nat /\ At(q, NULL, Len(q) + 1) = NULL
        /\ \A n \in 1 .. Len(q) : At(q, NULL, n) = q[n] /\ q[n] \in ToSet(q)
        /\ ToSet(q) \subseteq Members(chainSeq)
    BY <1>2, ChainNodes
  <1> HIDE DEF q
  <1>6. SubSeq(q, k, Len(q)) \in Seq(Node)
    BY <1>4, <1>5, RestIs
  <1>7. Tail(scan.due[b]) = SubSeq(q, k, Len(q))
    <2> DEFINE r == SubSeq(q, k, Len(q))
    <2>1. \A r2 \in Seq(Node) : Tail(<<scan.obj>> \o r2) = r2
      BY <1>2
    <2> HIDE DEF r
    <2> QED BY <1>4, <1>6, <2>1 DEF r
  <1>8. /\ d \in [Bucket -> Seq(Node)] /\ d[b] = SubSeq(q, k, Len(q))
        /\ \A a \in Bucket \ {b} : d[a] = scan.due[a]
    <2> DEFINE r == SubSeq(q, k, Len(q))
    <2> HIDE DEF r
    <2>1. r \in Seq(Node) /\ Tail(scan.due[b]) = r
      BY <1>6, <1>7 DEF r
    <2>2. d = [scan.due EXCEPT ![b] = r]
      BY <2>1
    <2> QED BY <1>2, <2>1, <2>2 DEF r
  <1>9. \A a \in Bucket : (a < b => d[a] = <<>>) /\ (a > b => d[a] = chainSeq[a])
    <2>1. \A a \in Bucket : a < b \/ a > b => a # b
      BY <1>2, BucketAssumption
    <2> QED BY <1>1, <1>8, <2>1
  <1>10. u \in Node \cup {NULL} /\ (o # NULL => u = chain.link[o])
    <2>1. o \in Members(chainSeq) \cup {NULL}
      <3>1. k = Len(q) + 1 \/ k \in 1 .. Len(q)
        BY <1>4, <1>5
      <3> QED BY <1>4, <1>5, <3>1
    <2>2. o # NULL => chain.link[o] \in Members(chainSeq) \cup {NULL} /\ Members(chainSeq) \subseteq Node
      BY <2>1, LinkType
    <2> QED BY <2>1, <2>2
  <1>11. scan' = [bkt |-> b, obj |-> o, due |-> d, tmp |-> u]
    BY DEF ScanNext, ScanAt
  <1> HIDE DEF b, o, u, d
  <1>12. k \in 1 .. Len(chainSeq[b]) + 1 /\ o = At(chainSeq[b], NULL, k)
         /\ d[b] = SubSeq(chainSeq[b], k, Len(chainSeq[b])) /\ b \in Bucket
    BY <1>2, <1>4, <1>8 DEF q, b
  <1>13. ScanStands([bkt |-> b, obj |-> o, due |-> d, tmp |-> u], chainSeq)
    <2>1. GoesTo(chain, chainSeq, b, k, o, u, d)
      BY <1>8, <1>9, <1>10, <1>12 DEF GoesTo
    <2> QED BY <2>1, ScanGoes
  <1> QED BY <1>11, <1>13

\* The body of the scan takes its object out of the table.
LEMMA ScanLost ==
    ASSUME NEW p, Table(chain, chainSeq), ScanStands(p, chainSeq), p.obj \in Members(chainSeq)
    PROVE  ScanStands(p, Without(chainSeq, p.obj))
  <1> DEFINE x == p.obj
             b == p.bkt
             q == chainSeq[b]
             t == Without(chainSeq, x)
  <1>1. /\ p \in ScanRecord
        /\ \A a \in Bucket : (a < b => p.due[a] = <<>>) /\ (a > b => p.due[a] = chainSeq[a])
    BY DEF ScanStands
  <1>2. b \in Bucket /\ x \in Node /\ x # NULL
    BY LinkType, Slots DEF ScanStands, ScanRecord
  <1>3. PICK k : Meets(p, chainSeq, k)
    BY <1>2 DEF ScanStands
  <1>4. /\ k \in 1 .. Len(q) + 1 /\ p.tmp = At(q, NULL, k) /\ p.due[b] = <<x>> \o SubSeq(q, k, Len(q))
        /\ x = At(q, b, k - 1)
    BY <1>3 DEF Meets
  <1>5. PICK a, n : Chained(chain, chainSeq, x, a, n)
    BY FindNode
  <1>6. /\ a \in Bucket /\ n \in 1 .. Len(chainSeq[a]) /\ chainSeq[a][n] = x /\ x \in ToSet(chainSeq[a])
        /\ t = [chainSeq EXCEPT ![a] = Spliced(chainSeq[a], n - 1, <<>>, n + 1)]
    <2>1. <<>> \in Seq(Node)
      OBVIOUS
    <2> QED BY <1>5, <2>1 DEF Chained, Without
  <1>7. /\ q \in Seq(Node) /\ Len(q) \in Nat /\ At(q, b, 0) = b /\ b \notin Node
        /\ \A i \in 1 .. Len(q) : At(q, b, i) = q[i] /\ q[i] \in ToSet(q)
        /\ IsInjective(q) /\ DOMAIN q = 1 .. Len(q)
    BY <1>2, ChainNodes
  <1>8. k - 1 \in 1 .. Len(q) /\ x = q[k - 1]
    <2>1. k - 1 # 0
      BY <1>2, <1>4, <1>7
    <2>2. k - 1 \in 1 .. Len(q)
      BY <1>4, <1>7, <2>1
    <2> QED BY <1>4, <1>7, <2>2
  <1>9. a = b
    BY <1>2, <1>6, <1>7, <1>8 DEF Table
  <1>10. n = k - 1
    BY <1>6, <1>7, <1>8, <1>9 DEF IsInjective
  <1>11. t[b] = Lost(q, n) /\ \A g \in Bucket \ {b} : t[g] = chainSeq[g]
    <2>1. chainSeq \in [Bucket -> Seq(Node)]
      BY DEF Table
    <2> QED BY <1>2, <1>6, <1>9, <2>1 DEF Lost
  <1>12. Members(t) = Members(chainSeq) \ {x}
    BY ChainLost
  <1>13. n \in 1 .. Len(q) /\ n \in n .. Len(q) /\ n + 1 = k /\ n \in 1 .. (Len(q) - 1) + 1
    BY <1>7, <1>8, <1>10, <1>4
  <1> HIDE DEF q, t, b, x
  <1>14. /\ Len(Lost(q, n)) = Len(q) - 1
         /\ \A i \in n .. Len(q) : At(Lost(q, n), NULL, i) = At(q, NULL, i + 1)
         /\ \A i \in n .. Len(q) : SubSeq(Lost(q, n), i, Len(q) - 1) = SubSeq(q, i + 1, Len(q))
    BY <1>7, <1>13, LostIs, LostTail
  <1>15. /\ At(t[b], NULL, n) = At(q, NULL, k) /\ SubSeq(t[b], n, Len(t[b])) = SubSeq(q, k, Len(q))
         /\ n \in 1 .. Len(t[b]) + 1
    BY <1>11, <1>13, <1>14
  <1>16. Meets(p, t, n)
    BY <1>4, <1>12, <1>15 DEF Meets, x, b
  <1>17. \A g \in Bucket : (g < b => p.due[g] = <<>>) /\ (g > b => p.due[g] = t[g])
    <2>1. \A g \in Bucket : g > b => g # b
      BY <1>2, BucketAssumption
    <2> QED BY <1>1, <1>11, <2>1 DEF b
  <1>18. p.obj # NULL
    BY <1>2 DEF x
  <1>19. ScanStands(p, t)
    BY <1>1, <1>16, <1>17, <1>18 DEF ScanStands, b
  <1> QED BY <1>19 DEF t, x

-----------------------------------------------------------------------------
(* Chains and sequences together. *)

ChainInv ==
    /\ Table(chain, chainSeq)
    /\ scan # NULL => ScanStands(scan, chainSeq)

LEMMA InitChains ==
    ASSUME Init PROVE ChainInv
  <1> DEFINE e == <<>>
  <1>1. e \in Seq(Node) /\ Len(e) = 0 /\ IsInjective(e) /\ ToSet(e) = {}
    BY DEF IsInjective, ToSet
  <1>2. \A b \in Bucket : At(e, b, 0) = b /\ At(e, NULL, 0 + 1) = NULL
    BY DEF At
  <1>3. chainSeq = [b \in Bucket |-> e] /\ scan = NULL
    BY DEF Init
  <1> HIDE DEF e
  <1>4. /\ \A s \in Slot : chain.link[s] = NULL
        /\ \A x \in Node : chain.pprev[x] = NULL
        /\ chain \in ChainMemory
    BY DEF Init, ChainMemory
  <1>5. ASSUME NEW b \in Bucket PROVE ChainIs(chain, b, chainSeq[b])
    <2>1. chainSeq[b] = e
      BY <1>3
    <2>2. Follows(chain, At(e, b, 0), At(e, NULL, 0 + 1))
      BY <1>2, <1>4, Slots DEF Follows
    <2>3. \A i \in 0 .. Len(e) : i = 0
      BY <1>1
    <2> QED BY <1>1, <2>1, <2>2, <2>3 DEF ChainIs
  <1>6. chainSeq \in [Bucket -> Seq(Node)] /\ \A b \in Bucket : ToSet(chainSeq[b]) = {}
    BY <1>1, <1>3
  <1>7. \A x \in Node : OffTable(chain, x)
    BY <1>4, Slots DEF OffTable
  <1>8. Table(chain, chainSeq)
    BY <1>4, <1>5, <1>6, <1>7 DEF Table
  <1> QED BY <1>3, <1>8 DEF ChainInv

ChainVars == <<chain, chainSeq, scan>>

LEMMA SameChains ==
    ASSUME ChainInv, UNCHANGED ChainVars PROVE ChainInv'
  <1>1. chain' = chain /\ chainSeq' = chainSeq /\ scan' = scan
    BY DEF ChainVars
  <1>2. Table(chain', chainSeq') /\ (scan' # NULL => ScanStands(scan', chainSeq'))
    BY <1>1 DEF ChainInv
  <1> QED BY <1>2 DEF ChainInv

LEMMA RingKeepsChains == RingStep => UNCHANGED ChainVars
  BY DEF RingStep, ChainVars, chains, rings, RingCall, RingAdd, RingDel, RingDelRange, RingReplace,
     RingMove, RingCut, RingSplice, BeginDelInit, StoreDelInit, LookBegin, LookField, LookEnd,
     LoopStart, LoopRemove, LoopRemoveNext, LoopNext, LoopEnd

\* Between scans, a call leaves a table.
LEMMA TableCalls ==
    ASSUME Table(chain, chainSeq), HashAdd \/ AddFake \/ HashDel \/ MoveList
    PROVE  Table(chain', chainSeq') /\ scan = NULL /\ scan' = NULL
  <1>0. /\ Members(chainSeq) = InTable /\ chain \in ChainMemory
        /\ \A x \in Node \ Members(chainSeq) : OffTable(chain, x)
    BY InTableIs DEF Table
  <1>1. CASE HashAdd
    <2>1. PICK e \in Loose :
            \/ \E b \in Bucket :
                  EditChain(hlist_add_head(chain, e, b), Behind(chainSeq, b, <<e>>))
            \/ \E x \in InTable :
                  \/ EditChain(hlist_add_before(chain, e, x), Before(chainSeq, x, <<e>>))
                  \/ EditChain(hlist_add_behind(chain, e, x), Behind(chainSeq, x, <<e>>))
      BY <1>1 DEF HashAdd
    <2>2. e \in Node \ Members(chainSeq)
      BY <1>0 DEF Loose
    <2>3. /\ \A b \in Bucket : Table(hlist_add_head(chain, e, b), Behind(chainSeq, b, <<e>>))
          /\ \A x \in Members(chainSeq) :
                /\ Table(hlist_add_before(chain, e, x), Before(chainSeq, x, <<e>>))
                /\ Table(hlist_add_behind(chain, e, x), Behind(chainSeq, x, <<e>>))
      BY <2>2, ChainAdded
    <2>4. Table(chain', chainSeq')
      BY <1>0, <2>1, <2>3 DEF EditChain
    <2> QED BY <1>1, <2>4 DEF HashAdd, ChainCall
  <1>2. CASE AddFake
    <2>1. PICK e \in Loose : chain.link[e] = NULL /\ EditChain(hlist_add_fake(chain, e), chainSeq)
      BY <1>2 DEF AddFake
    <2>2. e \in Node \ Members(chainSeq) /\ e \in Slot
      BY <1>0, Slots DEF Loose
    <2> DEFINE m == hlist_add_fake(chain, e)
    <2>3. /\ m \in ChainMemory /\ m.link = chain.link /\ m.pprev[e] = e
          /\ \A z \in Node \ {e} : m.pprev[z] = chain.pprev[z]
      BY <1>0, <2>2 DEF hlist_add_fake, ChainMemory
    <2> HIDE DEF m
    <2>4. OffTable(m, e)
      BY <2>1, <2>3 DEF OffTable
    <2>5. Table(m, chainSeq)
      BY <2>2, <2>3, <2>4, TableLoose
    <2> QED BY <1>2, <2>1, <2>5 DEF AddFake, ChainCall, EditChain, m
  <1>3. CASE HashDel
    <2> SUFFICES Table(chain', chainSeq')
      BY <1>3 DEF HashDel, ChainCall
    <2>1. CASE \E e \in InTable \cup Fakes : EditChain(hlist_del(chain, e), Without(chainSeq, e))
      <3>1. PICK e \in InTable \cup Fakes : EditChain(hlist_del(chain, e), Without(chainSeq, e))
        BY <2>1
      <3>2. CASE e \in Members(chainSeq)
        BY <3>1, <3>2, ChainLost DEF EditChain
      <3>3. CASE e \notin Members(chainSeq)
        <4>1. e \in Node /\ hlist_fake(chain, e)
          BY <1>0, <3>3 DEF Fakes
        <4> QED BY <3>1, <3>3, <4>1, LooseLost DEF EditChain
      <3> QED BY <3>2, <3>3
    <2>2. CASE \E e \in Node : /\ chain.pprev[e] # LIST_POISON2
                               /\ EditChain(hlist_del_init(chain, e), Without(chainSeq, e))
      <3>1. PICK e \in Node : /\ chain.pprev[e] # LIST_POISON2
                              /\ EditChain(hlist_del_init(chain, e), Without(chainSeq, e))
        BY <2>2
      <3>2. CASE e \in Members(chainSeq)
        BY <3>1, <3>2, ChainLost DEF EditChain
      <3>3. CASE e \notin Members(chainSeq)
        BY <3>1, <3>3, LooseLost DEF EditChain
      <3> QED BY <3>2, <3>3
    <2> QED BY <1>3, <2>1, <2>2 DEF HashDel
  <1>4. CASE MoveList
    <2>1. PICK old \in Bucket, new \in Bucket :
            /\ old # new /\ chainSeq[new] = <<>>
            /\ EditChain(hlist_move_list(chain, old, new),
                         [chainSeq EXCEPT ![new] = chainSeq[old], ![old] = <<>>])
      BY <1>4 DEF MoveList
    <2>2. Table(chain', chainSeq')
      BY <2>1, ChainMoved DEF EditChain
    <2> QED BY <1>4, <2>2 DEF MoveList, ChainCall
  <1> QED BY <1>1, <1>2, <1>3, <1>4

LEMMA ScanRemoveKeeps ==
    ASSUME ChainInv, ScanRemove PROVE ChainInv'
  <1>1. /\ Table(chain, chainSeq) /\ scan # NULL /\ ScanStands(scan, chainSeq)
        /\ scan.obj \in Members(chainSeq) /\ scan' = scan
    BY InTableIs DEF ChainInv, ScanRemove
  <1>2. /\ chainSeq' = Without(chainSeq, scan.obj)
        /\ chain' \in {hlist_del(chain, scan.obj), hlist_del_init(chain, scan.obj)}
    BY DEF ScanRemove, EditChain
  <1>3. Table(chain', chainSeq')
    BY <1>1, <1>2, ChainLost
  <1>4. ScanStands(scan, Without(chainSeq, scan.obj))
    BY <1>1, ScanLost
  <1>5. ScanStands(scan', chainSeq')
    BY <1>1, <1>2, <1>4
  <1> QED BY <1>3, <1>5 DEF ChainInv

LEMMA ScanKeeps ==
    ASSUME ChainInv, ScanStart \/ ScanNext \/ ScanBucket \/ ScanEnd PROVE ChainInv'
  <1>1. Table(chain, chainSeq)
    BY DEF ChainInv
  <1>2. chain' = chain /\ chainSeq' = chainSeq
    BY DEF ScanStart, ScanNext, ScanBucket, ScanEnd
  <1>3. ScanStands(scan', chainSeq) \/ scan' = NULL
    BY ScanStarted, ScanWent, ScanMoved DEF ChainInv, ScanNext, ScanBucket, ScanEnd
  <1>4. Table(chain', chainSeq')
    BY <1>1, <1>2
  <1>5. scan' # NULL => ScanStands(scan', chainSeq')
    BY <1>2, <1>3
  <1> QED BY <1>4, <1>5 DEF ChainInv

LEMMA ChainStepKeeps ==
    ASSUME ChainInv, ChainStep PROVE ChainInv'
  <1>1. CASE HashAdd \/ AddFake \/ HashDel \/ MoveList
    BY <1>1, TableCalls DEF ChainInv
  <1>2. CASE ScanRemove
    BY <1>2, ScanRemoveKeeps
  <1>3. CASE ScanStart \/ ScanNext \/ ScanBucket \/ ScanEnd
    BY <1>3, ScanKeeps
  <1> QED BY <1>1, <1>2, <1>3 DEF ChainStep

LEMMA ChainsTogether == Spec => []ChainInv
  <1>1. Init => ChainInv
    BY InitChains
  <1>2. ChainInv /\ [Next]_vars => ChainInv'
    <2> SUFFICES ASSUME ChainInv, [Next]_vars PROVE ChainInv'
      OBVIOUS
    <2>1. CASE RingStep
      BY <2>1, RingKeepsChains, SameChains
    <2>2. CASE ChainStep
      BY <2>2, ChainStepKeeps
    <2>3. CASE UNCHANGED vars
      BY <2>3, SameChains DEF vars, ChainVars
    <2> QED BY <2>1, <2>2, <2>3, StepsOf
  <1> QED BY <1>1, <1>2, PTL DEF Spec

\* What a table says of a node.
LEMMA NodeSays ==
    ASSUME NEW c, NEW s, Table(c, s), NEW e \in Node
    PROVE  /\ e \in Members(s) => c.pprev[e] \in Slot \ {e}
           /\ e \notin Members(s) => c.pprev[e] \in {NULL, LIST_POISON2, e}
  <1>1. CASE e \in Members(s)
    <2>1. PICK b, k : Chained(c, s, e, b, k)
      BY <1>1, FindNode
    <2>2. /\ b \in Bucket /\ k \in 1 .. Len(s[b]) /\ s[b][k] = e /\ Len(s[b]) \in Nat
          /\ c.pprev[e] = At(s[b], b, k - 1)
      BY <2>1, ChainNodes, Slots DEF Chained, Follows
    <2>3. \A n, l \in 1 .. Len(s[b]) : s[b][n] = s[b][l] => n = l
      BY <2>2, ChainNodes DEF IsInjective
    <2>4. k - 1 = 0 \/ (k - 1 \in 1 .. Len(s[b]) /\ k - 1 # k)
      BY <2>2
    <2>5. c.pprev[e] \in Slot \ {e}
      BY <2>2, <2>3, <2>4, ChainNodes, Slots
    <2> QED BY <1>1, <2>5
  <1>2. CASE e \notin Members(s)
    BY <1>2 DEF Table, OffTable
  <1> QED BY <1>1, <1>2

\* Every operation on chains does what it should to every chain, for any table and any
\* number of nodes.
THEOREM ChainsHold == Spec => []ChainsHoldTheirSequences
  <1>1. ChainInv => ChainsHoldTheirSequences
    <2> SUFFICES ASSUME Table(chain, chainSeq) PROVE ChainsHoldTheirSequences
      BY DEF ChainInv
    <2>1. ASSUME NEW b \in Bucket
          PROVE  LET slots == <<b>> \o chainSeq[b] IN
                 /\ \A i \in DOMAIN chainSeq[b] :
                       chain.link[slots[i]] = slots[i + 1] /\ chain.pprev[slots[i + 1]] = slots[i]
                 /\ chain.link[Last(slots)] = NULL
      <3> DEFINE q == chainSeq[b]
                 slots == <<b>> \o q
      <3>1. /\ q \in Seq(Node) /\ Len(q) \in Nat /\ DOMAIN q = 1 .. Len(q)
            /\ At(q, b, 0) = b /\ At(q, NULL, Len(q) + 1) = NULL
            /\ \A k \in 1 .. Len(q) : /\ At(q, b, k) = q[k] /\ At(q, NULL, k) = q[k]
                                      /\ q[k] \in Node
        BY ChainNodes
      <3>2. \A i \in 0 .. Len(q) : Follows(chain, At(q, b, i), At(q, NULL, i + 1))
        BY DEF Table, ChainIs
      <3> HIDE DEF q
      <3>3. Len(slots) = Len(q) + 1 /\ \A i \in 1 .. Len(q) + 1 : slots[i] = At(q, b, i - 1)
        <4>1. q \in Seq(Node \cup {b}) /\ <<b>> \in Seq(Node \cup {b}) /\ Len(<<b>>) = 1 /\ <<b>>[1] = b
          BY <3>1
        <4>2. /\ Len(slots) = Len(q) + 1
              /\ \A i \in 1 .. Len(q) + 1 : slots[i] = IF i = 1 THEN b ELSE q[i - 1]
          BY <3>1, <4>1
        <4> HIDE DEF slots
        <4>3. \A i \in 1 .. Len(q) + 1 : slots[i] = At(q, b, i - 1)
          <5> SUFFICES ASSUME NEW i \in 1 .. Len(q) + 1 PROVE slots[i] = At(q, b, i - 1)
            OBVIOUS
          <5>1. CASE i = 1
            BY <3>1, <4>2, <5>1
          <5>2. CASE i # 1
            <6>1. i - 1 \in 1 .. Len(q)
              BY <3>1, <5>2
            <6> QED BY <3>1, <4>2, <5>2, <6>1
          <5> QED BY <5>1, <5>2
        <4> QED BY <4>2, <4>3
      <3> HIDE DEF slots
      <3>4. ASSUME NEW i \in DOMAIN q
            PROVE  chain.link[slots[i]] = slots[i + 1] /\ chain.pprev[slots[i + 1]] = slots[i]
        <4>1. /\ i \in 1 .. Len(q) + 1 /\ i + 1 \in 1 .. Len(q) + 1 /\ i - 1 \in 0 .. Len(q)
              /\ (i - 1) + 1 = i /\ (i + 1) - 1 = i /\ i \in 1 .. Len(q)
          BY <3>1
        <4>2. slots[i] = At(q, b, i - 1) /\ slots[i + 1] = At(q, b, i)
          BY <3>3, <4>1
        <4>3. Follows(chain, At(q, b, i - 1), At(q, NULL, i))
          BY <3>2, <4>1
        <4>4. At(q, b, i) = At(q, NULL, i) /\ At(q, NULL, i) # NULL
          BY <3>1, <4>1, Slots
        <4> QED BY <4>2, <4>3, <4>4 DEF Follows
      <3>5. chain.link[Last(slots)] = NULL
        <4>1. /\ Len(q) + 1 \in 1 .. Len(q) + 1 /\ (Len(q) + 1) - 1 = Len(q) /\ Len(q) \in 0 .. Len(q)
          BY <3>1
        <4>2. Last(slots) = At(q, b, Len(q))
          BY <3>3, <4>1 DEF Last
        <4> QED BY <3>1, <3>2, <4>1, <4>2 DEF Follows
      <3> QED BY <3>4, <3>5 DEF slots, q
    <2>2. hash_empty(chain, Bucket) <=> InTable = {}
      <3>1. \A b \in Bucket : chain.link[b] = NULL <=> chainSeq[b] = <<>>
        BY FirstNode
      <3>2. \A b \in Bucket : chainSeq[b] = <<>> <=> ToSet(chainSeq[b]) = {}
        <4>1. ASSUME NEW b \in Bucket PROVE chainSeq[b] # <<>> => ToSet(chainSeq[b]) # {}
          <5>1. chainSeq[b] # <<>> => 1 \in 1 .. Len(chainSeq[b])
            BY ChainNodes, EmptySeq
          <5> QED BY <5>1, ChainNodes
        <4>2. ToSet(<<>>) = {}
          BY DEF ToSet
        <4> QED BY <4>1, <4>2
      <3> QED BY <3>1, <3>2 DEF hash_empty, hlist_empty, InTable
    <2>3. ASSUME NEW e \in Node, chain.pprev[e] # LIST_POISON2
          PROVE  hash_hashed(chain, e) <=> e \in InTable \cup Fakes
      BY <2>3, NodeSays, InTableIs, Slots DEF hash_hashed, hlist_unhashed, Fakes, hlist_fake
    <2>4. Fakes \cap InTable = {}
      BY NodeSays, InTableIs DEF Fakes, hlist_fake
    <2> QED BY <2>1, <2>2, <2>3, <2>4 DEF ChainsHoldTheirSequences
  <1> QED BY <1>1, ChainsTogether, PTL

\* The two entries that a walk owes next, which is at x, has read the k-th of q and ends at e.
Owed(q, x, k, e, ends) ==
    LET t == (<<x>> \o SubSeq(q, k, Len(q))) \o ends IN t[1] = x /\ t[2] = At(q, e, k)

LEMMA NextTwo ==
    ASSUME NEW S, NEW q \in Seq(S), NEW x \in S, NEW k \in 1 .. Len(q) + 1, NEW e \in S
    PROVE  Owed(q, x, k, e, <<e>>) /\ Owed(q, x, k, e, <<e, e>>)
  <1> DEFINE r == SubSeq(q, k, Len(q))
  <1>1. /\ r \in Seq(S) /\ Len(r) = Len(q) + 1 - k
        /\ \A n \in 1 .. Len(q) + 1 - k : r[n] = q[k + n - 1]
    BY SubSeqProperties
  <1> HIDE DEF r
  <1>2. Len(q) \in Nat /\ DOMAIN q = 1 .. Len(q) /\ k \in Nat
    OBVIOUS
  <1>3. CASE k = Len(q) + 1
    <2>1. Len(r) = 0 /\ At(q, e, k) = e
      BY <1>1, <1>2, <1>3 DEF At
    <2>2. r = <<>>
      BY <1>1, <2>1, EmptySeq
    <2> QED BY <2>1, <2>2 DEF r, Owed
  <1>4. CASE k # Len(q) + 1
    <2>1. k \in DOMAIN q /\ 1 \in 1 .. Len(q) + 1 - k /\ k + 1 - 1 = k
      BY <1>2, <1>4
    <2>2. r[1] = At(q, e, k) /\ Len(r) >= 1 /\ Len(r) \in Nat
      BY <1>1, <1>2, <2>1 DEF At
    <2>3. <<x>> \in Seq(S) /\ <<e>> \in Seq(S) /\ <<e, e>> \in Seq(S)
      OBVIOUS
    <2>4. /\ <<x>> \o r \in Seq(S) /\ Len(<<x>> \o r) >= 2 /\ Len(<<x>> \o r) \in Nat
          /\ (<<x>> \o r)[1] = x /\ (<<x>> \o r)[2] = r[1]
      BY <1>1, <2>2, <2>3
    <2> DEFINE t == <<x>> \o r
    <2> HIDE DEF t
    <2>5. t \in Seq(S) /\ Len(t) \in Nat /\ Len(t) >= 2 /\ t[1] = x /\ t[2] = r[1]
      BY <2>4 DEF t
    <2>6. \A u \in Seq(S) : (t \o u)[1] = t[1] /\ (t \o u)[2] = t[2]
      BY <2>5
    <2>7. /\ (t \o <<e>>)[1] = x /\ (t \o <<e>>)[2] = At(q, e, k)
          /\ (t \o <<e, e>>)[1] = x /\ (t \o <<e, e>>)[2] = At(q, e, k)
      BY <2>2, <2>3, <2>5, <2>6
    <2> QED BY <2>7 DEF t, r, Owed
  <1> QED BY <1>3, <1>4

\* Whatever the bodies of the loops take out, the loops meet the rest.
THEOREM SafeLoopsMeet == Spec => []SafeLoopMeetsTheRest
  <1>1. ASSUME RingInv, loop # NULL
        PROVE  LET rest == Append(loop.due, loop.head) IN
               loop.pos = rest[1] /\ (loop.pos # loop.head => loop.n = rest[2])
    <2> DEFINE h == loop.head
               q == CourseOf(seq, h, loop.dir)
    <2>1. /\ loop \in LoopRecord /\ HoldAll(ring, seq)
          /\ loop.pos \in RingHead => loop.pos = h /\ loop.due = <<>>
          /\ loop.pos \in Node => \E k : Stands(loop, q, k)
      BY <1>1 DEF RingInv, RingsInv, LoopInv, LoopStands
    <2>2. h \in RingHead /\ loop.dir \in {"next", "prev"} /\ loop.pos \in Node \cup RingHead
          /\ loop.due \in Seq(Node)
      BY <2>1 DEF LoopRecord, Place
    <2>3. CASE loop.pos \in RingHead
      <3>1. loop.due = <<>> /\ loop.pos = h
        BY <2>1, <2>3
      <3>2. \A y : Append(<<>>, y)[1] = y
        OBVIOUS
      <3> QED BY <3>1, <3>2
    <2>4. CASE loop.pos \in Node
      <3>1. PICK k : Stands(loop, q, k)
        BY <2>1, <2>4
      <3>2. q \in Seq(Node) /\ Node \subseteq Place /\ h \in Place
        BY <2>1, <2>2, CourseRuns DEF Runs, Place
      <3> HIDE DEF q
      <3>3. k \in 1 .. Len(q) + 1 /\ loop.n = At(q, h, k) /\ loop.due = <<loop.pos>> \o SubSeq(q, k, Len(q))
        BY <3>1 DEF Stands
      <3>4. q \in Seq(Place) /\ loop.pos \in Place
        BY <2>4, <3>2
      <3> DEFINE rest == loop.due \o <<h>>
      <3>5. rest[1] = loop.pos /\ rest[2] = At(q, h, k)
        <4> DEFINE t == <<loop.pos>> \o SubSeq(q, k, Len(q))
        <4>1. (t \o <<h>>)[1] = loop.pos /\ (t \o <<h>>)[2] = At(q, h, k)
          <5>1. Owed(q, loop.pos, k, h, <<h>>)
            BY <3>2, <3>3, <3>4, NextTwo
          <5> QED BY <5>1 DEF Owed
        <4>2. loop.due = t
          BY <3>3
        <4> HIDE DEF t
        <4> QED BY <4>1, <4>2
      <3>6. Append(loop.due, h) = loop.due \o <<h>>
        <4>1. loop.due \in Seq(Place)
          BY <2>2, <3>2
        <4> QED BY <3>2, <4>1, AppendIsConcat
      <3> QED BY <3>3, <3>5, <3>6
    <2> QED BY <2>2, <2>3, <2>4
  <1>2. ASSUME ChainInv, scan # NULL
        PROVE  LET rest == scan.due[scan.bkt] \o <<NULL, NULL>>
               IN  /\ scan.obj = rest[1] /\ (scan.obj # NULL => scan.tmp = rest[2])
                   /\ \A b \in Bucket : b < scan.bkt => scan.due[b] = <<>>
    <2> DEFINE rest == scan.due[scan.bkt] \o <<NULL, NULL>>
    <2>1. /\ scan \in ScanRecord /\ Table(chain, chainSeq)
          /\ \A b \in Bucket : b < scan.bkt => scan.due[b] = <<>>
          /\ scan.obj = NULL => scan.due[scan.bkt] = <<>>
          /\ scan.obj # NULL => \E k : Meets(scan, chainSeq, k)
      BY <1>2 DEF ChainInv, ScanStands
    <2>2. scan.bkt \in Bucket /\ scan.obj \in Node \cup {NULL}
      BY <2>1 DEF ScanRecord
    <2>3. CASE scan.obj = NULL
      <3>1. scan.due[scan.bkt] = <<>>
        BY <2>1, <2>3
      <3>2. (<<>> \o <<NULL, NULL>>)[1] = NULL
        OBVIOUS
      <3> QED BY <2>1, <2>3, <3>1, <3>2
    <2>4. CASE scan.obj # NULL
      <3>1. PICK k : Meets(scan, chainSeq, k)
        BY <2>1, <2>4
      <3> DEFINE q == chainSeq[scan.bkt]
                 S == Node \cup {NULL}
      <3>2. q \in Seq(S) /\ scan.obj \in S /\ NULL \in S
        BY <2>1, <2>2, ChainNodes
      <3> HIDE DEF q, S
      <3>3. /\ k \in 1 .. Len(q) + 1 /\ scan.tmp = At(q, NULL, k)
            /\ scan.due[scan.bkt] = <<scan.obj>> \o SubSeq(q, k, Len(q))
        BY <3>1 DEF Meets, q
      <3>4. rest[1] = scan.obj /\ rest[2] = At(q, NULL, k)
        <4> DEFINE t == <<scan.obj>> \o SubSeq(q, k, Len(q))
        <4>1. (t \o <<NULL, NULL>>)[1] = scan.obj /\ (t \o <<NULL, NULL>>)[2] = At(q, NULL, k)
          <5>1. Owed(q, scan.obj, k, NULL, <<NULL, NULL>>)
            BY <3>2, <3>3, NextTwo
          <5> QED BY <5>1 DEF Owed
        <4>2. scan.due[scan.bkt] = t
          BY <3>3
        <4> HIDE DEF t
        <4> QED BY <4>1, <4>2
      <3> QED BY <2>1, <3>3, <3>4
    <2> QED BY <2>3, <2>4
  <1>3. RingInv /\ ChainInv => SafeLoopMeetsTheRest
    BY <1>1, <1>2 DEF SafeLoopMeetsTheRest
  <1> QED BY <1>3, RingsTogether, ChainsTogether, PTL
==============================================================================
