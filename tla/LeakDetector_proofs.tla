------------------------- MODULE LeakDetector_proofs -------------------------
(***************************************************************************)
(* What the leak detector knows, for any number of blocks and nodes.       *)
(***************************************************************************)
EXTENDS LeakDetectorProps, KListWalk_lemmas

Place == Node \cup {StaticHead}

Address == Block \cup {NULL}

ListType == [next : [Place -> Place \cup {NULL}], prev : [Place -> Place \cup {NULL}]]

TypeOK ==
    /\ live \subseteq Block /\ untracked \subseteq live
    /\ flag \in BOOLEAN
    /\ list \in ListType /\ nodes \subseteq Node
    /\ addr \in [Node -> Address]
    /\ tracked \in Seq(Address)
    /\ pc \in {"idle", "report", "not_opened", "closed", "crashed"}

\* A ring l with nodes N and addresses a: it holds the nodes s, whose addresses are t.
Tracks(l, N, a, s, t) ==
    /\ l \in ListType /\ a \in [Node -> Address]
    /\ s \in Seq(Node) /\ Holds(l, StaticHead, s) /\ Range(s) = N
    /\ t \in Seq(Address) /\ t = [i \in DOMAIN s |-> a[s[i]]]

\* No block is told twice.
Once(t) == \A i, j \in DOMAIN t : t[i] = t[j] => i = j \/ t[i] = NULL

\* Before the first add the ring is two NULL pointers.
RingOK ==
    /\ ~flag => nodes = {} /\ list.next[StaticHead] = NULL
    /\ flag => Tracks(list, nodes, addr, Nodes, Addresses)

ToldOK ==
    /\ Addresses = tracked
    /\ Range(tracked) \ {NULL} = live \ untracked
    /\ Once(tracked)

\* The report has written the addresses of the first i - 1 nodes, and is at the i-th.
ReportOK ==
    /\ pc = "report" /\ flag =>
          \E i \in 1 .. Len(Nodes) + 1 :
             /\ cur = At(Nodes, StaticHead, i) /\ (i <= Len(Nodes) \/ Nodes = <<>>)
             /\ reported = SubSeq(tracked, 1, i - 1)
    /\ pc = "report" /\ ~flag => cur = NULL
    /\ pc = "closed" => ReportsAllButTheNewest

DetectorInv ==
    /\ TypeOK
    /\ RingOK
    /\ pc # "crashed" => ToldOK
    /\ ReportOK

-----------------------------------------------------------------------------
(* The ring and what it tracks. *)

LEMMA Places ==
    /\ IsFiniteSet(Node) /\ StaticHead \notin Node /\ Place \ {StaticHead} = Node
    /\ StaticHead \in Place /\ NULL \notin Place /\ Node \subseteq Place
  BY DetectorAssumption DEF Place

\* The walks of a ring meet the nodes it holds.
LEMMA TracksWalks ==
    ASSUME NEW l, NEW N, NEW a, NEW s, NEW t, Tracks(l, N, a, s, t)
    PROVE  /\ k_list_walk(l.next, StaticHead, Cardinality(Node)) = s
           /\ k_list_walk(l.prev, StaticHead, Cardinality(Node)) = Reverse(s)
           /\ IsInjective(s) /\ DOMAIN l.next = Place /\ DOMAIN l.prev = Place
           /\ s \in Seq(Place \ {StaticHead})
           /\ Len(s) \in Nat /\ DOMAIN s = 1 .. Len(s) /\ Len(t) = Len(s)
           /\ DOMAIN t = DOMAIN s /\ \A i \in DOMAIN s : t[i] = a[s[i]] /\ s[i] \in Node
  <1>1. /\ l \in ListType /\ s \in Seq(Node) /\ Holds(l, StaticHead, s)
        /\ t \in Seq(Address) /\ t = [i \in DOMAIN s |-> a[s[i]]]
    BY DEF Tracks
  <1>2. DOMAIN l.next = Place /\ DOMAIN l.prev = Place
    BY <1>1 DEF ListType
  <1>3. IsInjective(s) /\ s \in Seq(Place \ {StaticHead})
    BY <1>1, Places DEF Holds
  <1>4. Len(s) <= Cardinality(Node) /\ Cardinality(Node) \in Nat
    BY <1>1, <1>3, Places, LengthBound
  <1>5. /\ k_list_walk(l.next, StaticHead, Cardinality(Node)) = s
        /\ k_list_walk(l.prev, StaticHead, Cardinality(Node)) = Reverse(s)
    BY <1>1, <1>2, <1>3, <1>4, Places, BothWalks
  <1>6. Len(s) \in Nat /\ DOMAIN s = 1 .. Len(s) /\ \A i \in DOMAIN s : s[i] \in Node
    BY <1>1
  <1>7. DOMAIN t = DOMAIN s /\ \A i \in DOMAIN s : t[i] = a[s[i]]
    BY <1>1
  <1>8. Len(t) = Len(s)
    BY <1>1, <1>6, <1>7
  <1> QED BY <1>2, <1>3, <1>5, <1>6, <1>7, <1>8

\* add_mem_info puts the address at the end.
LEMMA AddTracks ==
    ASSUME NEW l, NEW N, NEW a, NEW s, NEW t, Tracks(l, N, a, s, t),
           NEW n \in Node \ N, NEW p \in Address
    PROVE  Tracks(memleak_add_list_tail(l, n), N \cup {n}, [a EXCEPT ![n] = p],
                  Append(s, n), Append(t, p))
  <1> DEFINE m == memleak_add_list_tail(l, n)
             c == [a EXCEPT ![n] = p]
  <1>1. /\ l \in ListType /\ a \in [Node -> Address] /\ s \in Seq(Node) /\ Holds(l, StaticHead, s)
        /\ Range(s) = N /\ t \in Seq(Address) /\ t = [i \in DOMAIN s |-> a[s[i]]]
    BY DEF Tracks
  <1>2. /\ DOMAIN l.next = Place /\ DOMAIN l.prev = Place /\ s \in Seq(Place \ {StaticHead})
        /\ Len(s) \in Nat /\ DOMAIN s = 1 .. Len(s) /\ Len(t) = Len(s)
        /\ DOMAIN t = DOMAIN s /\ \A i \in DOMAIN s : t[i] = a[s[i]] /\ s[i] \in Node
    BY TracksWalks
  <1>3. n \in Place \ {StaticHead} /\ \A i \in DOMAIN s : s[i] # n
    BY <1>1, Places DEF Range
  <1>4. m = k_list_add_tail(l, n, StaticHead)
    BY DEF memleak_add_list_tail, k_list_add_tail
  <1>5. Holds(m, StaticHead, Append(s, n))
    <2>1. Holds(k_list_add_tail(l, n, StaticHead), StaticHead, Append(s, n))
      BY <1>1, <1>2, <1>3, Places, AddedAtEnd
    <2> QED BY <1>4, <2>1
  <1>6. m \in ListType
    <2>1. l.prev[StaticHead] \in Place
      <3>1. 0 \in 0 .. Len(s) /\ Len(s) \in 0 .. Len(s) /\ At(s, StaticHead, Len(s) + 1) = StaticHead
        BY <1>2 DEF At
      <3>2. l.prev[StaticHead] = At(s, StaticHead, Len(s))
        BY <1>1, <3>1 DEF Holds
      <3> QED BY <1>2, <3>2, Places DEF At
    <2> QED BY <1>1, <1>3, <2>1, Places DEF memleak_add_list_tail, list_add_between, ListType
  <1>7. c \in [Node -> Address] /\ c[n] = p /\ \A i \in DOMAIN s : c[s[i]] = a[s[i]]
    BY <1>1, <1>2, <1>3
  <1>8. /\ Append(s, n) \in Seq(Node) /\ Range(Append(s, n)) = N \cup {n}
        /\ Append(t, p) \in Seq(Address)
    <2>1. Range(Append(s, n)) = Range(s) \cup {n}
      BY <1>1, Appended
    <2>2. Append(s, n) \in Seq(Node) /\ Append(t, p) \in Seq(Address)
      BY <1>1
    <2> QED BY <1>1, <2>1, <2>2
  <1> HIDE DEF c, m
  <1>9. Append(t, p) = [i \in DOMAIN Append(s, n) |-> c[Append(s, n)[i]]]
    <2> DEFINE u == Append(s, n)
               v == Append(t, p)
    <2>1. /\ Len(u) = Len(s) + 1 /\ u[Len(s) + 1] = n /\ \A i \in 1 .. Len(s) : u[i] = s[i]
          /\ u \in Seq(Node)
      BY <1>1
    <2>2. /\ Len(v) = Len(s) + 1 /\ v[Len(s) + 1] = p /\ \A i \in 1 .. Len(s) : v[i] = t[i]
          /\ v \in Seq(Address)
      BY <1>1, <1>2
    <2> HIDE DEF u, v
    <2>3. DOMAIN u = 1 .. Len(s) + 1 /\ v = [i \in 1 .. Len(s) + 1 |-> v[i]]
      BY <2>1, <2>2, ByIndex
    <2>4. \A i \in 1 .. Len(s) + 1 : i = Len(s) + 1 \/ i \in 1 .. Len(s)
      BY <1>2
    <2>5. \A i \in 1 .. Len(s) + 1 : v[i] = c[u[i]]
      BY <1>2, <1>7, <2>1, <2>2, <2>4
    <2>6. v = [i \in DOMAIN u |-> c[u[i]]]
      BY <2>3, <2>5
    <2> QED BY <2>6 DEF u, v
  <1> QED BY <1>5, <1>6, <1>7, <1>8, <1>9 DEF Tracks, c, m
\* remove_mem_info takes out the first node of the address, and leaves the ring
\* alone when there is none.
LEMMA RemoveTracks ==
    ASSUME NEW t, Tracks(list, nodes, addr, Nodes, t), NEW p
    PROVE  \E s : Tracks(RingWithout(p), nodes \ Match(p), AddrWithout(p), s, RemoveFirst(t, p))
  <1> DEFINE s == Nodes
             I == {i \in DOMAIN s : addr[s[i]] = p}
  <1>1. /\ list \in ListType /\ addr \in [Node -> Address] /\ s \in Seq(Node)
        /\ Holds(list, StaticHead, s) /\ Range(s) = nodes /\ t \in Seq(Address)
    BY DEF Tracks
  <1>2. /\ DOMAIN list.next = Place /\ DOMAIN list.prev = Place /\ s \in Seq(Place \ {StaticHead})
        /\ Len(s) \in Nat /\ DOMAIN s = 1 .. Len(s) /\ Len(t) = Len(s) /\ IsInjective(s)
        /\ DOMAIN t = DOMAIN s /\ \A i \in DOMAIN s : t[i] = addr[s[i]] /\ s[i] \in Node
    BY TracksWalks
  <1>3. I = {i \in DOMAIN t : t[i] = p}
    BY <1>2
  <1>4. Match(p) = IF I = {} THEN {} ELSE {s[Min(I)]}
    BY DEF Match
  <1> HIDE DEF s, I
  <1>5. CASE I = {}
    <2>1. Match(p) = {} /\ RemoveFirst(t, p) = t
      BY <1>1, <1>3, <1>4, <1>5, FirstRemoved
    <2>2. RingWithout(p) = list /\ nodes \ Match(p) = nodes
      BY <2>1 DEF RingWithout
    <2>3. AddrWithout(p) = addr
      BY <1>1, <2>1 DEF AddrWithout
    <2> QED BY <2>1, <2>2, <2>3
  <1>6. CASE I # {}
    <2> DEFINE i == Min(I)
               m == del_memleak_list(list, s[i])
               c == AddrWithout(p)
               u == Less(s, i)
    <2>1. i \in I /\ RemoveFirst(t, p) = Less(t, i)
      BY <1>1, <1>3, <1>6, FirstRemoved
    <2>2. i \in 1 .. Len(s) /\ s[i] \in Node
      BY <1>2, <1>3, <2>1
    <2>3. Match(p) = {s[i]}
      BY <1>4, <1>6
    <2> HIDE DEF i
    <2>4. RingWithout(p) = m
      BY <2>3 DEF RingWithout
    <2>5. Holds(m, StaticHead, u)
      <3>1. StaticHead \in Place
        BY Places
      <3> QED BY <1>1, <1>2, <2>2, <3>1, Unlinked DEF del_memleak_list
    <2>6. m \in ListType
      <3>1. i \in 0 .. Len(s) /\ i - 1 \in 0 .. Len(s) /\ (i - 1) + 1 = i /\ At(s, StaticHead, i) = s[i]
        BY <1>2, <2>2 DEF At
      <3>2. list.next[s[i]] = At(s, StaticHead, i + 1) /\ list.prev[s[i]] = At(s, StaticHead, i - 1)
        BY <1>1, <3>1 DEF Holds
      <3>3. \A j : At(s, StaticHead, j) \in Place
        BY <1>2, Places DEF At
      <3>4. list.next[s[i]] \in Place /\ list.prev[s[i]] \in Place
        BY <3>2, <3>3
      <3>5. s[i] \in Place
        BY <2>2, Places
      <3> HIDE DEF m
      <3>6. m.next = [list.next EXCEPT ![list.prev[s[i]]] = list.next[s[i]], ![s[i]] = NULL]
            /\ m.prev = [list.prev EXCEPT ![list.next[s[i]]] = list.prev[s[i]], ![s[i]] = NULL]
            /\ m = [next |-> m.next, prev |-> m.prev]
        BY DEF m, del_memleak_list, list_del_between
      <3> QED BY <1>1, <3>4, <3>5, <3>6 DEF ListType
    <2>7. /\ u \in Seq(Node) /\ Len(u) = Len(s) - 1 /\ Range(u) = nodes \ Match(p)
      <3>1. u \in Seq(Node) /\ Len(u) = Len(s) - 1
        BY <1>1, <1>2, <2>2, LessType
      <3>2. Range(u) = Range(s) \ {s[i]}
        BY <1>1, <1>2, <2>2, Popped
      <3> QED BY <1>1, <1>2, <2>2, <2>3, <3>1, <3>2
    <2>8. c \in [Node -> Address] /\ \A n \in Node : n # s[i] => c[n] = addr[n]
      BY <1>1, <2>3 DEF AddrWithout, Address
    <2>9. Less(t, i) \in Seq(Address)
      BY <1>1, <1>2, <2>2, LessType
    <2>10. Less(t, i) = [j \in DOMAIN u |-> c[u[j]]]
      <3>1. \A j, k \in DOMAIN s : s[j] = s[k] => j = k
        BY <1>2 DEF IsInjective
      <3>2. ASSUME NEW j \in 1 .. Len(s) - 1
            PROVE  c[u[j]] = IF j < i THEN t[j] ELSE t[j + 1]
        <4>1. j \in DOMAIN s /\ j + 1 \in DOMAIN s /\ (j < i => j # i) /\ (~(j < i) => j + 1 # i)
          BY <1>2, <2>2
        <4>2. u[j] = IF j < i THEN s[j] ELSE s[j + 1]
          BY DEF Less
        <4>3. /\ j < i => s[j] # s[i]
              /\ ~(j < i) => s[j + 1] # s[i]
          BY <1>2, <2>2, <3>1, <4>1
        <4> QED BY <1>2, <2>8, <4>1, <4>2, <4>3
      <3>3. DOMAIN u = 1 .. Len(s) - 1
        BY DEF Less
      <3> HIDE DEF u, c
      <3> QED BY <1>2, <3>2, <3>3 DEF Less
    <2>11. Tracks(m, nodes \ Match(p), c, u, Less(t, i))
      <3> HIDE DEF m, c, u
      <3> QED BY <2>5, <2>6, <2>7, <2>8, <2>9, <2>10 DEF Tracks
    <2> QED BY <2>1, <2>4, <2>11 DEF i
  <1> QED BY <1>5, <1>6

\* What is left in the record of the live blocks.
LEMMA LessOnce ==
    ASSUME NEW t \in Seq(Address), Once(t), NEW i \in 1 .. Len(t)
    PROVE  /\ Once(Less(t, i))
           /\ Range(Less(t, i)) \ {NULL} = (Range(t) \ {NULL}) \ {t[i]}
  <1> DEFINE u == Less(t, i)
  <1>1. /\ \A j \in DOMAIN u : /\ Was(i, j) \in DOMAIN t /\ Was(i, j) # i /\ u[j] = t[Was(i, j)]
                               /\ \A k \in DOMAIN u : j # k => Was(i, j) # Was(i, k)
        /\ \A j \in DOMAIN t : j # i => \E k \in DOMAIN u : Was(i, k) = j
    BY LessIs
  <1>2. i \in DOMAIN t
    OBVIOUS
  <1> HIDE DEF u
  <1>3. Once(u)
    <2>1. ASSUME NEW j \in DOMAIN u, NEW k \in DOMAIN u, u[j] = u[k], j # k PROVE u[j] = NULL
      <3>1. /\ Was(i, j) \in DOMAIN t /\ Was(i, k) \in DOMAIN t /\ Was(i, j) # Was(i, k)
            /\ t[Was(i, j)] = t[Was(i, k)] /\ u[j] = t[Was(i, j)]
        BY <1>1, <2>1
      <3> QED BY <3>1 DEF Once
    <2> QED BY <2>1 DEF Once
  <1>4. ASSUME NEW x \in Range(u), x # NULL PROVE x \in Range(t) /\ x # t[i]
    <2>1. PICK j \in DOMAIN u : x = u[j]
      BY DEF Range
    <2>2. Was(i, j) \in DOMAIN t /\ Was(i, j) # i /\ x = t[Was(i, j)]
      BY <1>1, <2>1
    <2> QED BY <1>2, <1>4, <2>2 DEF Once, Range
  <1>5. ASSUME NEW x \in Range(t), x # t[i] PROVE x \in Range(u)
    <2>1. PICK j \in DOMAIN t : x = t[j] /\ j # i
      BY <1>5 DEF Range
    <2> QED BY <1>1, <2>1 DEF Range
  <1> QED BY <1>3, <1>4, <1>5 DEF u

LEMMA RemoveOnce ==
    ASSUME NEW t \in Seq(Address), Once(t), NEW p \in Address
    PROVE  /\ RemoveFirst(t, p) \in Seq(Address) /\ Once(RemoveFirst(t, p))
           /\ Range(RemoveFirst(t, p)) \ {NULL} = (Range(t) \ {NULL}) \ {p}
  <1> DEFINE I == {i \in DOMAIN t : t[i] = p}
             u == RemoveFirst(t, p)
  <1>1. CASE I = {}
    <2>1. u = t
      BY <1>1, FirstRemoved
    <2>2. p \notin Range(t)
      BY <1>1 DEF Range
    <2> HIDE DEF u
    <2> QED BY <2>1, <2>2 DEF u
  <1>2. CASE I # {}
    <2>1. Min(I) \in I /\ u = Less(t, Min(I))
      BY <1>2, FirstRemoved
    <2> DEFINE m == Min(I)
    <2> HIDE DEF u, m
    <2>2. PICK i \in 1 .. Len(t) : t[i] = p /\ u = Less(t, i)
      <3>1. m \in 1 .. Len(t) /\ t[m] = p /\ u = Less(t, m)
        BY <2>1 DEF m
      <3> QED BY <3>1
    <2>3. u \in Seq(Address)
      BY <2>2, LessType
    <2>4. Once(u) /\ Range(u) \ {NULL} = (Range(t) \ {NULL}) \ {t[i]}
      BY <2>2, LessOnce
    <2> QED BY <2>2, <2>3, <2>4 DEF u
  <1> QED BY <1>1, <1>2

LEMMA AddOnce ==
    ASSUME NEW t \in Seq(Address), Once(t), NEW b \in Address, b = NULL \/ b \notin Range(t)
    PROVE  /\ Append(t, b) \in Seq(Address) /\ Once(Append(t, b))
           /\ Range(Append(t, b)) \ {NULL} = (Range(t) \ {NULL}) \cup ({b} \ {NULL})
  <1>1. Append(t, b) \in Seq(Address) /\ Range(Append(t, b)) = Range(t) \cup {b}
    <2>1. Range(Append(t, b)) = Range(t) \cup {b}
      BY Appended
    <2> QED BY <2>1
  <1>2. Once(Append(t, b))
    <2> DEFINE u == Append(t, b)
    <2>1. /\ Len(t) \in Nat /\ DOMAIN t = 1 .. Len(t)
          /\ DOMAIN u = 1 .. Len(t) + 1 /\ u[Len(t) + 1] = b /\ \A i \in 1 .. Len(t) : u[i] = t[i]
      OBVIOUS
    <2> HIDE DEF u
    <2>2. \A i \in DOMAIN u : i = Len(t) + 1 \/ i \in DOMAIN t
      BY <2>1
    <2>3. \A i \in DOMAIN t : t[i] = b => b = NULL
      BY DEF Range
    <2>4. ASSUME NEW i \in DOMAIN u, NEW j \in DOMAIN u, u[i] = u[j], i # j PROVE u[i] = NULL
      <3>1. CASE i \in DOMAIN t /\ j \in DOMAIN t
        BY <2>1, <2>4, <3>1 DEF Once
      <3>2. CASE i = Len(t) + 1 /\ j \in DOMAIN t
        BY <2>1, <2>3, <2>4, <3>2
      <3>3. CASE j = Len(t) + 1 /\ i \in DOMAIN t
        BY <2>1, <2>3, <2>4, <3>3
      <3> QED BY <2>2, <2>4, <3>1, <3>2, <3>3
    <2> QED BY <2>4 DEF Once, u
  <1> QED BY <1>1, <1>2

-----------------------------------------------------------------------------
(* The calls. *)

\* While nothing is added the walks meet nothing; the first add starts the ring.
LEMMA StartTracks ==
    ASSUME TypeOK, RingOK
    PROVE  /\ Tracks(initialised(list), nodes, addr, Nodes, Addresses)
           /\ ~flag => Nodes = <<>> /\ Addresses = <<>>
           /\ Nodes \in Seq(Node) /\ Addresses \in Seq(Address)
  <1>1. CASE flag
    BY <1>1 DEF RingOK, initialised, Tracks
  <1>2. CASE ~flag
    <2> DEFINE l == initialised(list)
    <2>1. l = K_INIT_LIST_HEAD(list, StaticHead) /\ list \in ListType
      BY <1>2 DEF TypeOK, initialised
    <2>2. DOMAIN list.next = Place /\ DOMAIN list.prev = Place
      BY <2>1 DEF ListType
    <2>3. Nodes = <<>>
      <3>1. list.next[StaticHead] \notin Place \ {StaticHead}
        BY <1>2, Places DEF RingOK
      <3>2. Cardinality(Node) \in Nat
        BY Places, FS_CardinalityType
      <3> QED BY <2>2, <3>1, <3>2, Places, NothingMet DEF Nodes
    <2>4. Addresses = <<>> /\ Addresses = [i \in DOMAIN Nodes |-> addr[Nodes[i]]]
      BY <2>3 DEF Addresses
    <2>5. Holds(l, StaticHead, <<>>)
      BY <2>1, <2>2, Places, Started
    <2>6. l \in ListType
      BY <2>1, Places DEF K_INIT_LIST_HEAD, ListType
    <2>7. nodes = {} /\ addr \in [Node -> Address]
      BY <1>2 DEF RingOK, TypeOK
    <2>8. <<>> \in Seq(Node) /\ <<>> \in Seq(Address) /\ Range(<<>>) = {}
      BY DEF Range
    <2> HIDE DEF l
    <2> QED BY <2>3, <2>4, <2>5, <2>6, <2>7, <2>8 DEF Tracks, l
  <1> QED BY <1>1, <1>2

LEMMA TracksNext ==
    ASSUME NEW s, NEW t, Tracks(list', nodes', addr', s, t)
    PROVE  Nodes' = s /\ Addresses' = t /\ Tracks(list', nodes', addr', Nodes', Addresses')
  <1>1. Nodes' = s
    BY TracksWalks DEF Nodes
  <1>2. t = [i \in DOMAIN s |-> addr'[s[i]]]
    BY DEF Tracks
  <1>3. Addresses' = t
    BY <1>1, <1>2 DEF Addresses
  <1> QED BY <1>1, <1>3

LEMMA SameRing ==
    ASSUME UNCHANGED ring
    PROVE  Nodes' = Nodes /\ Addresses' = Addresses /\ (RingOK => RingOK')
  BY DEF ring, Nodes, Addresses, RingOK

\* An add that returns tracks the address; one whose malloc fails does not return.
LEMMA AddDoes ==
    ASSUME NEW l, NEW N \in SUBSET Node, NEW a, NEW s, NEW t, Tracks(initialised(l), N, a, s, t),
           NEW p \in Address, add(l, N, a, p), pc' # "crashed"
    PROVE  /\ flag' = TRUE /\ pc' = pc /\ nodes' \subseteq Node
           /\ Tracks(list', nodes', addr', Nodes', Addresses') /\ Addresses' = Append(t, p)
  <1>1. PICK n \in Node \ N :
           /\ nodes' = N \cup {n} /\ addr' = [a EXCEPT ![n] = p]
           /\ list' = memleak_add_list_tail(initialised(l), n)
           /\ flag' = TRUE /\ pc' = pc
    BY DEF add
  <1>2. Tracks(list', nodes', addr', Append(s, n), Append(t, p))
    <2>1. Tracks(memleak_add_list_tail(initialised(l), n), N \cup {n}, [a EXCEPT ![n] = p],
                 Append(s, n), Append(t, p))
      BY AddTracks
    <2> QED BY <1>1, <2>1
  <1> QED BY <1>1, <1>2, TracksNext

LEMMA AddRing ==
    ASSUME NEW l, NEW N \in SUBSET Node, NEW a, NEW s, NEW t, Tracks(initialised(l), N, a, s, t),
           NEW p \in Address, add(l, N, a, p), pc = "idle", TypeOK, RingOK
    PROVE  /\ flag' \in BOOLEAN /\ list' \in ListType /\ nodes' \subseteq Node
           /\ addr' \in [Node -> Address] /\ pc' \in {"idle", "crashed"} /\ RingOK'
           /\ pc' # "crashed" => Addresses' = Append(t, p)
  <1>1. CASE pc' # "crashed"
    <2>1. /\ flag' = TRUE /\ pc' = pc /\ nodes' \subseteq Node
          /\ Tracks(list', nodes', addr', Nodes', Addresses') /\ Addresses' = Append(t, p)
      BY <1>1, AddDoes
    <2>2. list' \in ListType /\ addr' \in [Node -> Address]
      BY <2>1 DEF Tracks
    <2>3. RingOK'
      BY <2>1 DEF RingOK
    <2> QED BY <2>1, <2>2, <2>3
  <1>2. CASE pc' = "crashed"
    <2>1. CASE UNCHANGED ring
      <3>1. RingOK'
        BY <2>1, SameRing
      <3> QED BY <1>2, <2>1, <3>1 DEF ring, TypeOK
    <2>2. CASE UNCHANGED pc
      BY <1>2, <2>2
    <2> QED BY <2>1, <2>2 DEF add
  <1> QED BY <1>1, <1>2

LEMMA InitInv == Init => DetectorInv
  <1> SUFFICES ASSUME Init PROVE DetectorInv
    OBVIOUS
  <1>1. TypeOK
    <2>1. list \in ListType /\ addr \in [Node -> Address]
      BY DEF Init, ListType, Place, Address
    <2>2. <<>> \in Seq(Address)
      OBVIOUS
    <2> QED BY <2>1, <2>2 DEF Init, TypeOK
  <1>2. RingOK
    BY DEF Init, RingOK
  <1>3. Addresses = <<>>
    BY <1>1, <1>2, StartTracks DEF Init
  <1>4. ToldOK
    BY <1>3 DEF Init, ToldOK, Once, Range
  <1> QED BY <1>1, <1>2, <1>4 DEF Init, DetectorInv, ReportOK

LEMMA MallocInv ==
    ASSUME DetectorInv, xmalloc
    PROVE  DetectorInv'
  <1>1. pc = "idle" /\ UNCHANGED <<reported, cur, untracked>> /\ TypeOK /\ RingOK /\ ToldOK
    BY DEF xmalloc, DetectorInv
  <1>2. CASE UNCHANGED <<live, ring, tracked, pc>>
    <2>1. RingOK' /\ Addresses' = Addresses
      BY <1>1, <1>2, SameRing
    <2> QED BY <1>1, <1>2, <2>1 DEF DetectorInv, TypeOK, ToldOK, ReportOK, ring
  <1>3. ASSUME NEW b \in Block \ live, live' = live \cup {b}, tracked' = Append(tracked, b),
               add(list, nodes, addr, b)
        PROVE  DetectorInv'
    <2>1. Tracks(initialised(list), nodes, addr, Nodes, tracked) /\ tracked \in Seq(Address)
      BY <1>1, StartTracks DEF ToldOK
    <2>2. b \in Address /\ b # NULL /\ nodes \in SUBSET Node
      BY <1>1, DetectorAssumption DEF Address, TypeOK
    <2>3. /\ flag' \in BOOLEAN /\ list' \in ListType /\ nodes' \subseteq Node
          /\ addr' \in [Node -> Address] /\ pc' \in {"idle", "crashed"} /\ RingOK'
          /\ pc' # "crashed" => Addresses' = Append(tracked, b)
      BY <1>1, <1>3, <2>1, <2>2, AddRing
    <2>4. /\ Append(tracked, b) \in Seq(Address) /\ Once(Append(tracked, b))
          /\ Range(Append(tracked, b)) \ {NULL} = (Range(tracked) \ {NULL}) \cup ({b} \ {NULL})
      <3>1. Once(tracked) /\ b \notin Range(tracked)
        BY <1>1, <1>3, <2>2 DEF ToldOK
      <3> QED BY <2>1, <2>2, <3>1, AddOnce
    <2>5. Range(tracked') \ {NULL} = live' \ untracked'
      BY <1>1, <1>3, <2>2, <2>4 DEF ToldOK, TypeOK
    <2>6. pc' # "crashed" => ToldOK'
      BY <1>3, <2>3, <2>4, <2>5 DEF ToldOK
    <2>7. TypeOK'
      BY <1>1, <1>3, <2>3, <2>4 DEF TypeOK
    <2> QED BY <2>3, <2>6, <2>7 DEF DetectorInv, ReportOK
  <1> QED BY <1>2, <1>3 DEF xmalloc

\* A call that tells the detector nothing.
LEMMA UntrackedInv ==
    ASSUME DetectorInv, Untracked
    PROVE  DetectorInv'
  <1>1. /\ pc = "idle" /\ UNCHANGED <<ring, reported, cur, pc, tracked>>
        /\ TypeOK /\ RingOK /\ ToldOK
    BY DEF Untracked, DetectorInv
  <1>2. RingOK' /\ Addresses' = Addresses
    BY <1>1, SameRing
  <1>3. PICK b \in Block \ live : live' = live \cup {b} /\ untracked' = untracked \cup {b}
    BY DEF Untracked
  <1>4. TypeOK'
    BY <1>1, <1>3 DEF TypeOK, ring
  <1>5. live' \ untracked' = live \ untracked
    BY <1>1, <1>3 DEF TypeOK
  <1>6. ToldOK'
    BY <1>1, <1>2, <1>5 DEF ToldOK
  <1> QED BY <1>1, <1>2, <1>4, <1>6 DEF DetectorInv, ReportOK

\* Once the detector has been told of a block, free and realloc find their ring.
LEMMA RemoveDoes ==
    ASSUME DetectorInv, pc = "idle", flag, NEW p \in Address
    PROVE  /\ \E s : Tracks(RingWithout(p), nodes \ Match(p), AddrWithout(p), s,
                            RemoveFirst(tracked, p))
           /\ RemoveFirst(tracked, p) \in Seq(Address) /\ Once(RemoveFirst(tracked, p))
           /\ Range(RemoveFirst(tracked, p)) \ {NULL} = (live \ untracked) \ {p}
  <1>1. /\ Tracks(list, nodes, addr, Nodes, tracked) /\ tracked \in Seq(Address) /\ Once(tracked)
        /\ Range(tracked) \ {NULL} = live \ untracked
    BY DEF DetectorInv, RingOK, ToldOK, TypeOK
  <1>2. \E s : Tracks(RingWithout(p), nodes \ Match(p), AddrWithout(p), s, RemoveFirst(tracked, p))
    BY <1>1, RemoveTracks
  <1>3. /\ RemoveFirst(tracked, p) \in Seq(Address) /\ Once(RemoveFirst(tracked, p))
        /\ Range(RemoveFirst(tracked, p)) \ {NULL} = (Range(tracked) \ {NULL}) \ {p}
    BY <1>1, RemoveOnce
  <1> QED BY <1>1, <1>2, <1>3

\* A crash leaves everything but the program's counter.
LEMMA CrashInv ==
    ASSUME DetectorInv, Crash
    PROVE  DetectorInv'
  <1>1. RingOK' /\ pc' = "crashed" /\ UNCHANGED <<live, ring, history>>
    BY SameRing DEF Crash, DetectorInv
  <1> QED BY <1>1 DEF DetectorInv, TypeOK, ReportOK, ring, history

LEMMA FreeInv ==
    ASSUME DetectorInv, xfree
    PROVE  DetectorInv'
  <1>1. pc = "idle"
    BY DEF xfree
  <1>2. CASE Crash
    BY <1>2, CrashInv
  <1>3. ASSUME NEW p \in live \cup {NULL}, flag, list' = RingWithout(p), nodes' = nodes \ Match(p),
               addr' = AddrWithout(p), live' = live \ {p}, tracked' = RemoveFirst(tracked, p),
               untracked' = untracked \ {p}, UNCHANGED <<flag, pc>>
        PROVE  DetectorInv'
    <2>1. p \in Address /\ TypeOK
      BY DEF DetectorInv, TypeOK, Address
    <2>2. PICK s : Tracks(list', nodes', addr', s, tracked')
      BY <1>1, <1>3, <2>1, RemoveDoes
    <2>3. /\ tracked' \in Seq(Address) /\ Once(tracked')
          /\ Range(tracked') \ {NULL} = (live \ untracked) \ {p}
      BY <1>1, <1>3, <2>1, RemoveDoes
    <2>4. Addresses' = tracked' /\ Tracks(list', nodes', addr', Nodes', Addresses')
      BY <2>2, TracksNext
    <2>5. RingOK'
      BY <1>3, <2>4 DEF RingOK
    <2>6. ToldOK'
      BY <1>3, <2>3, <2>4 DEF ToldOK
    <2>7. TypeOK'
      <3>1. list' \in ListType /\ addr' \in [Node -> Address]
        BY <2>4 DEF Tracks
      <3> QED BY <1>3, <2>1, <2>3, <3>1 DEF TypeOK
    <2> QED BY <1>1, <1>3, <2>5, <2>6, <2>7 DEF DetectorInv, ReportOK
  <1> QED BY <1>2, <1>3 DEF xfree

LEMMA ReallocInv ==
    ASSUME DetectorInv, xrealloc
    PROVE  DetectorInv'
  <1>1. pc = "idle" /\ TypeOK /\ RingOK
    BY DEF xrealloc, DetectorInv
  <1>2. CASE Crash
    BY <1>2, CrashInv
  <1>3. ASSUME NEW p \in live \cup {NULL}, flag, NEW b \in Block \cup {NULL}, NEW moved \in BOOLEAN,
               b \notin live \ {p}, b # NULL => moved, moved /\ b = NULL => p # NULL,
               live' = IF moved THEN (live \ {p}) \cup ({b} \ {NULL}) ELSE live,
               untracked' = IF moved \/ p = NULL THEN untracked \ {p} ELSE untracked \cup {p},
               tracked' = Append(RemoveFirst(tracked, p), b),
               add(RingWithout(p), nodes \ Match(p), AddrWithout(p), b)
        PROVE  DetectorInv'
    <2> DEFINE t == RemoveFirst(tracked, p)
    <2>1. p \in Address /\ b \in Address /\ NULL \notin live
      BY <1>1, DetectorAssumption DEF TypeOK, Address
    <2>2. PICK s : Tracks(RingWithout(p), nodes \ Match(p), AddrWithout(p), s, t)
      BY <1>1, <1>3, <2>1, RemoveDoes
    <2>3. t \in Seq(Address) /\ Once(t) /\ Range(t) \ {NULL} = (live \ untracked) \ {p}
      BY <1>1, <1>3, <2>1, RemoveDoes
    <2> HIDE DEF t
    <2>4. Tracks(initialised(RingWithout(p)), nodes \ Match(p), AddrWithout(p), s, t)
      <3>1. initialised(RingWithout(p)) = RingWithout(p)
        BY <1>3 DEF initialised
      <3> QED BY <2>2, <3>1
    <2>5. nodes \ Match(p) \in SUBSET Node
      BY <1>1 DEF TypeOK
    <2>6. /\ flag' \in BOOLEAN /\ list' \in ListType /\ nodes' \subseteq Node
          /\ addr' \in [Node -> Address] /\ pc' \in {"idle", "crashed"} /\ RingOK'
          /\ pc' # "crashed" => Addresses' = Append(t, b)
      BY <1>1, <1>3, <2>1, <2>4, <2>5, AddRing
    <2>7. /\ Append(t, b) \in Seq(Address) /\ Once(Append(t, b))
          /\ Range(Append(t, b)) \ {NULL} = (Range(t) \ {NULL}) \cup ({b} \ {NULL})
      <3>1. b = NULL \/ b \notin Range(t)
        BY <1>3, <2>3
      <3> QED BY <2>1, <2>3, <3>1, AddOnce
    <2>8. tracked' = Append(t, b)
      BY <1>3 DEF t
    <2>9. Range(tracked') \ {NULL} = live' \ untracked'
      <3>1. Range(tracked') \ {NULL} = ((live \ untracked) \ {p}) \cup ({b} \ {NULL})
        BY <2>3, <2>7, <2>8
      <3>2. CASE moved
        BY <1>1, <1>3, <3>1, <3>2 DEF TypeOK
      <3>3. CASE ~moved
        BY <1>1, <1>3, <2>1, <3>1, <3>3 DEF TypeOK
      <3> QED BY <3>2, <3>3
    <2>10. pc' # "crashed" => ToldOK'
      BY <2>6, <2>7, <2>8, <2>9 DEF ToldOK
    <2>11. TypeOK'
      <3>1. live' \subseteq Block /\ untracked' \subseteq live'
        BY <1>1, <1>3 DEF TypeOK
      <3> QED BY <2>6, <2>7, <2>8, <3>1 DEF TypeOK
    <2> QED BY <2>6, <2>10, <2>11 DEF DetectorInv, ReportOK
  <1> QED BY <1>2, <1>3 DEF xrealloc

-----------------------------------------------------------------------------
(* The report. *)

\* The ring as the loop of the report reads it.
LEMMA ReportReads ==
    ASSUME DetectorInv, flag, pc # "crashed"
    PROVE  /\ Len(Nodes) \in Nat /\ DOMAIN Nodes = 1 .. Len(Nodes) /\ Len(tracked) = Len(Nodes)
           /\ list.next[StaticHead] = At(Nodes, StaticHead, 1)
           /\ \A i \in 1 .. Len(Nodes) : /\ At(Nodes, StaticHead, i) = Nodes[i]
                                         /\ Nodes[i] # StaticHead /\ Nodes[i] # NULL
                                         /\ list.next[Nodes[i]] = At(Nodes, StaticHead, i + 1)
                                         /\ addr[Nodes[i]] = tracked[i]
           /\ At(Nodes, StaticHead, Len(Nodes) + 1) = StaticHead
  <1> DEFINE s == Nodes
  <1>1. Tracks(list, nodes, addr, s, tracked) /\ Holds(list, StaticHead, s)
    BY DEF DetectorInv, RingOK, ToldOK, Tracks
  <1>2. /\ Len(s) \in Nat /\ DOMAIN s = 1 .. Len(s) /\ Len(tracked) = Len(s)
        /\ \A i \in DOMAIN s : tracked[i] = addr[s[i]] /\ s[i] \in Node
    BY <1>1, TracksWalks
  <1> HIDE DEF s
  <1>3. /\ At(s, StaticHead, 0) = StaticHead /\ At(s, StaticHead, Len(s) + 1) = StaticHead
        /\ \A i \in 1 .. Len(s) : At(s, StaticHead, i) = s[i]
    BY <1>2 DEF At
  <1>4. list.next[StaticHead] = At(s, StaticHead, 1)
    <2>1. 0 \in 0 .. Len(s) /\ 0 + 1 = 1
      BY <1>2
    <2> QED BY <1>1, <1>3, <2>1 DEF Holds
  <1>5. \A i \in 1 .. Len(s) : list.next[s[i]] = At(s, StaticHead, i + 1)
    <2>1. \A i \in 1 .. Len(s) : i \in 0 .. Len(s)
      BY <1>2
    <2> QED BY <1>1, <1>3, <2>1 DEF Holds
  <1>6. \A i \in 1 .. Len(s) : s[i] # StaticHead /\ s[i] # NULL
    BY <1>2, DetectorAssumption
  <1> QED BY <1>2, <1>3, <1>4, <1>5, <1>6 DEF s

LEMMA ReportInv ==
    ASSUME DetectorInv, Report
    PROVE  DetectorInv'
  <1>1. /\ pc = "idle" /\ reported' = <<>> /\ UNCHANGED <<live, ring, history>>
        /\ \/ pc' = "not_opened"
           \/ pc' = "report" /\ cur' = list.next[StaticHead]
    BY DEF Report
  <1>2. RingOK' /\ Nodes' = Nodes /\ Addresses' = Addresses
    BY <1>1, SameRing DEF DetectorInv
  <1>3. ToldOK' /\ TypeOK'
    BY <1>1, <1>2 DEF DetectorInv, ToldOK, TypeOK, ring, history
  <1>4. ReportOK'
    <2>1. CASE pc' = "not_opened"
      BY <2>1 DEF ReportOK
    <2>2. CASE pc' = "report"
      <3>1. cur' = list.next[StaticHead] /\ flag' = flag /\ list' = list
        BY <1>1, <2>2 DEF ring
      <3>2. ASSUME flag
            PROVE  /\ 1 \in 1 .. Len(Nodes) + 1
                   /\ cur' = At(Nodes, StaticHead, 1) /\ (1 <= Len(Nodes) \/ Nodes = <<>>)
                   /\ reported' = SubSeq(tracked, 1, 1 - 1)
        <4>1. Len(Nodes) \in Nat /\ cur' = At(Nodes, StaticHead, 1)
          BY <1>1, <3>1, <3>2, ReportReads
        <4>2. Nodes \in Seq(Node) /\ tracked \in Seq(Address)
          BY StartTracks DEF DetectorInv, TypeOK
        <4>3. SubSeq(tracked, 1, 1 - 1) = <<>>
          BY <4>2
        <4>4. 1 <= Len(Nodes) \/ Nodes = <<>>
          BY <4>2
        <4> QED BY <1>1, <4>1, <4>3, <4>4
      <3>3. ~flag => cur' = NULL
        BY <3>1 DEF DetectorInv, RingOK
      <3>4. tracked' = tracked
        BY <1>1 DEF history
      <3>5. flag => \E i \in 1 .. Len(Nodes) + 1 :
                       /\ cur' = At(Nodes, StaticHead, i) /\ (i <= Len(Nodes) \/ Nodes = <<>>)
                       /\ reported' = SubSeq(tracked, 1, i - 1)
        BY <3>2
      <3> QED BY <1>2, <2>2, <3>1, <3>3, <3>4, <3>5 DEF ReportOK
    <2> QED BY <1>1, <2>1, <2>2
  <1> QED BY <1>2, <1>3, <1>4 DEF DetectorInv

LEMMA ReportEntryInv ==
    ASSUME DetectorInv, ReportEntry
    PROVE  DetectorInv'
  <1>1. pc = "report" /\ UNCHANGED <<live, ring, history>>
    BY DEF ReportEntry
  <1>2. RingOK' /\ Nodes' = Nodes /\ Addresses' = Addresses
    BY <1>1, SameRing DEF DetectorInv
  <1>3. pc' \in {"report", "crashed"}
    BY <1>1 DEF ReportEntry
  <1>4. ToldOK' /\ TypeOK'
    BY <1>1, <1>2, <1>3 DEF DetectorInv, ToldOK, TypeOK, ring, history
  <1>5. ReportOK'
    <2>1. CASE pc' = "crashed"
      BY <2>1 DEF ReportOK
    <2>2. CASE pc' # "crashed"
      <3>1. /\ cur # NULL /\ list.next[cur] # StaticHead /\ pc' = pc
            /\ reported' = Append(reported, addr[cur]) /\ cur' = list.next[cur]
        BY <2>2 DEF ReportEntry
      <3>2. flag
        BY <1>1, <3>1 DEF DetectorInv, ReportOK
      <3>3. PICK i \in 1 .. Len(Nodes) + 1 :
               /\ cur = At(Nodes, StaticHead, i) /\ (i <= Len(Nodes) \/ Nodes = <<>>)
               /\ reported = SubSeq(tracked, 1, i - 1)
        BY <1>1, <3>2 DEF DetectorInv, ReportOK
      <3>4. /\ Len(Nodes) \in Nat /\ Len(tracked) = Len(Nodes)
            /\ list.next[StaticHead] = At(Nodes, StaticHead, 1)
            /\ \A j \in 1 .. Len(Nodes) : /\ At(Nodes, StaticHead, j) = Nodes[j]
                                          /\ list.next[Nodes[j]] = At(Nodes, StaticHead, j + 1)
                                          /\ addr[Nodes[j]] = tracked[j]
            /\ At(Nodes, StaticHead, Len(Nodes) + 1) = StaticHead
        BY <1>1, <3>2, ReportReads
      <3>5. i \in 1 .. Len(Nodes)
        <4>1. CASE Nodes = <<>>
          <5>1. Len(Nodes) = 0
            BY <4>1
          <5>2. cur = StaticHead /\ list.next[StaticHead] = StaticHead
            BY <3>3, <3>4, <5>1
          <5> QED BY <3>1, <5>2
        <4>2. CASE Nodes # <<>>
          BY <3>3, <3>4, <4>2
        <4> QED BY <4>1, <4>2
      <3>6. cur' = At(Nodes, StaticHead, i + 1) /\ addr[cur] = tracked[i]
        BY <3>1, <3>3, <3>4, <3>5
      <3>7. i + 1 \in 1 .. Len(Nodes) + 1 /\ i + 1 <= Len(Nodes)
        <4>1. i # Len(Nodes)
          BY <3>1, <3>4, <3>6
        <4> QED BY <3>4, <3>5, <4>1
      <3>8. reported' = SubSeq(tracked, 1, (i + 1) - 1)
        <4>1. tracked \in Seq(Address)
          BY DEF DetectorInv, TypeOK
        <4>2. SubSeq(tracked, 1, i) = Append(SubSeq(tracked, 1, i - 1), tracked[i])
          BY <3>4, <3>5, <4>1
        <4> QED BY <3>1, <3>3, <3>5, <3>6, <4>2
      <3>9. tracked' = tracked /\ flag' = flag
        BY <1>1 DEF history, ring
      <3> QED BY <1>1, <1>2, <3>1, <3>2, <3>6, <3>7, <3>8, <3>9 DEF ReportOK
    <2> QED BY <2>1, <2>2
  <1> QED BY <1>2, <1>3, <1>4, <1>5 DEF DetectorInv

LEMMA ReportEndInv ==
    ASSUME DetectorInv, ReportEnd
    PROVE  DetectorInv'
  <1>1. /\ pc = "report" /\ pc' = "closed" /\ cur # NULL /\ list.next[cur] = StaticHead
        /\ UNCHANGED <<live, ring, reported, history>>
    BY DEF ReportEnd
  <1>2. RingOK' /\ Nodes' = Nodes /\ Addresses' = Addresses
    BY <1>1, SameRing DEF DetectorInv
  <1>3. ToldOK' /\ TypeOK'
    BY <1>1, <1>2 DEF DetectorInv, ToldOK, TypeOK, ring, history
  <1>4. tracked # <<>> => reported = Front(tracked)
    <2> SUFFICES ASSUME tracked # <<>> PROVE reported = Front(tracked)
      OBVIOUS
    <2>1. flag
      BY <1>1 DEF DetectorInv, ReportOK
    <2>2. PICK i \in 1 .. Len(Nodes) + 1 :
             /\ cur = At(Nodes, StaticHead, i) /\ (i <= Len(Nodes) \/ Nodes = <<>>)
             /\ reported = SubSeq(tracked, 1, i - 1)
      BY <1>1, <2>1 DEF DetectorInv, ReportOK
    <2>3. /\ Len(Nodes) \in Nat /\ Len(tracked) = Len(Nodes)
          /\ \A j \in 1 .. Len(Nodes) : /\ At(Nodes, StaticHead, j) = Nodes[j]
                                        /\ Nodes[j] # StaticHead
                                        /\ list.next[Nodes[j]] = At(Nodes, StaticHead, j + 1)
      BY <1>1, <2>1, ReportReads
    <2>4. Nodes # <<>>
      <3>1. tracked \in Seq(Address)
        BY DEF DetectorInv, TypeOK
      <3>2. Len(tracked) # 0
        BY <3>1
      <3> QED BY <2>3, <3>2
    <2>5. i \in 1 .. Len(Nodes) /\ At(Nodes, StaticHead, i + 1) = StaticHead
      BY <1>1, <2>2, <2>3, <2>4
    <2>6. i = Len(Nodes)
      <3>1. ASSUME i # Len(Nodes) PROVE FALSE
        <4>1. i + 1 \in 1 .. Len(Nodes)
          BY <2>3, <2>5, <3>1
        <4> QED BY <2>3, <2>5, <4>1
      <3> QED BY <3>1
    <2> QED BY <2>2, <2>3, <2>6 DEF Front
  <1>5. ReportOK'
    BY <1>1, <1>4 DEF ReportOK, ReportsAllButTheNewest, history
  <1> QED BY <1>2, <1>3, <1>5 DEF DetectorInv

LEMMA ClearInv ==
    ASSUME DetectorInv, clear
    PROVE  DetectorInv'
  <1>1. /\ pc \in {"not_opened", "closed"} /\ pc' \in {"idle", "crashed"}
        /\ UNCHANGED <<live, ring, reported, cur, history>>
    BY DEF clear
  <1>2. RingOK' /\ Addresses' = Addresses
    BY <1>1, SameRing DEF DetectorInv
  <1>3. ToldOK' /\ TypeOK'
    BY <1>1, <1>2 DEF DetectorInv, ToldOK, TypeOK, ring, history
  <1> QED BY <1>1, <1>2, <1>3 DEF DetectorInv, ReportOK

LEMMA StutterInv ==
    ASSUME DetectorInv, UNCHANGED vars
    PROVE  DetectorInv'
  <1>1. RingOK' /\ Nodes' = Nodes /\ Addresses' = Addresses
    BY SameRing DEF DetectorInv, vars, ring
  <1> QED BY <1>1 DEF vars, DetectorInv, TypeOK, ToldOK, ReportOK, ReportsAllButTheNewest

LEMMA NextInv == DetectorInv /\ [Next]_vars => DetectorInv'
  BY MallocInv, ReallocInv, FreeInv, UntrackedInv, ReportInv, ReportEntryInv, ReportEndInv,
     ClearInv, StutterInv DEF Next

LEMMA Invariance == Spec => []DetectorInv
  BY InitInv, NextInv, PTL DEF Spec

-----------------------------------------------------------------------------
\* Whatever is allocated and freed, and in whatever order: the ring goes both ways
\* round through the nodes that are allocated, add and remove_mem_info never reach a
\* freed one.
THEOREM DetectorRing == Spec => []RingHoldsTheNodes
  <1>1. DetectorInv => RingHoldsTheNodes
    <2> SUFFICES ASSUME DetectorInv, flag
                 PROVE  Backward = Reverse(Nodes) /\ IsInjective(Nodes) /\ Range(Nodes) = nodes
      BY DEF RingHoldsTheNodes
    <2>1. Tracks(list, nodes, addr, Nodes, Addresses)
      BY DEF DetectorInv, RingOK
    <2>2. Backward = Reverse(Nodes) /\ IsInjective(Nodes)
      BY <2>1, TracksWalks DEF Backward
    <2> QED BY <2>1, <2>2 DEF Tracks
  <1> QED BY <1>1, Invariance, PTL

\* The detector knows the blocks that are live and that it was told of, once each, in
\* the order of their allocation; a remove finds its block wherever it is in the ring.
THEOREM DetectorTracks == Spec => []TracksWhatIsLive
  <1>1. DetectorInv => TracksWhatIsLive
    BY DEF DetectorInv, ToldOK, Once, TracksWhatIsLive
  <1> QED BY <1>1, Invariance, PTL

\* The report writes every address the detector has but the last.
THEOREM DetectorReports == Spec => []ReportsAllButTheNewest
  <1>1. DetectorInv => ReportsAllButTheNewest
    BY DEF DetectorInv, ReportOK, ReportsAllButTheNewest
  <1> QED BY <1>1, Invariance, PTL

==============================================================================
