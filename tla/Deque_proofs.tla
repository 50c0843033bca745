----------------------------- MODULE Deque_proofs -----------------------------
(***************************************************************************)
(* What deque.c keeps true, for a deque of any number of entries.          *)
(*                                                                         *)
(* The ring holds a sequence, which is what its walks meet; each call puts *)
(* an entry at one of its ends, or takes one from there.                   *)
(***************************************************************************)
EXTENDS DequeProps, KListWalk_lemmas

Node == Entry \cup {ListHead}

ListType == [next : [Node -> Node \cup Poison], prev : [Node -> Node \cup Poison]]

TypeOK ==
    /\ deq \in {NULL, Deq}
    /\ mem \subseteq Entry /\ out \subseteq mem
    /\ list \in ListType
    /\ size \in Int
    /\ data \in [Entry -> Data \cup {NULL}]
    /\ pc \in {"idle", "free", "crashed", "astray"}

\* The entries of s are those that are allocated and not the caller's.
OwnEntries(s) ==
    s \in Seq(Entry) /\ mem = Range(s) \cup out /\ Range(s) \cap out = {}

\* deq_free has yet to free the entries of s: cur is the first and tmp the second.
ToFree(s) ==
    /\ OwnEntries(s) /\ IsInjective(s)
    /\ cur = At(s, ListHead, 1)
    /\ s # <<>> => tmp = At(s, ListHead, 2)
    /\ \A i \in 1 .. Len(s) : list.next[s[i]] = At(s, ListHead, i + 1)

DequeInv ==
    /\ TypeOK
    /\ deq = NULL => pc = "idle" /\ mem = out
    /\ Sound => OwnEntries(Forward) /\ Holds(list, ListHead, Forward)
    /\ pc = "free" => \E s \in Seq(Entry) : ToFree(s)

-----------------------------------------------------------------------------
\* The sequence that a ring holds is what its walks meet.
LEMMA WalksAre ==
    ASSUME list \in ListType, NEW s \in Seq(Entry), Holds(list, ListHead, s)
    PROVE  Forward = s /\ Backward = Reverse(s)
  <1>1. IsFiniteSet(Entry) /\ ListHead \notin Entry
    BY DequeAssumption
  <1>2. Node \ {ListHead} = Entry /\ ListHead \in Node
    BY <1>1 DEF Node
  <1>3. Len(s) <= Cardinality(Entry) /\ Cardinality(Entry) \in Nat
    BY <1>1, LengthBound DEF Holds
  <1>4. DOMAIN list.next = Node /\ DOMAIN list.prev = Node
    BY DEF ListType
  <1>5. s \in Seq(Node \ {ListHead})
    BY <1>2
  <1> QED BY <1>2, <1>3, <1>4, <1>5, BothWalks DEF Forward, Backward

LEMMA WalksAreNext ==
    ASSUME list' \in ListType, NEW s \in Seq(Entry), Holds(list', ListHead, s)
    PROVE  Forward' = s /\ Backward' = Reverse(s)
  <1>1. IsFiniteSet(Entry) /\ ListHead \notin Entry
    BY DequeAssumption
  <1>2. Node \ {ListHead} = Entry /\ ListHead \in Node
    BY <1>1 DEF Node
  <1>3. Len(s) <= Cardinality(Entry) /\ Cardinality(Entry) \in Nat
    BY <1>1, LengthBound DEF Holds
  <1>4. DOMAIN list'.next = Node /\ DOMAIN list'.prev = Node
    BY DEF ListType
  <1>5. s \in Seq(Node \ {ListHead})
    BY <1>2
  <1> QED BY <1>2, <1>3, <1>4, <1>5, BothWalks DEF Forward, Backward

\* The ends of a ring that holds s.
LEMMA Ends ==
    ASSUME NEW s \in Seq(Entry), Holds(list, ListHead, s), NEW tail \in BOOLEAN
    PROVE  /\ s = <<>> => End(tail) = ListHead
           /\ s # <<>> => /\ End(tail) = IF tail THEN s[Len(s)] ELSE s[1]
                          /\ 1 \in 1 .. Len(s) /\ Len(s) \in 1 .. Len(s)
                          /\ End(tail) \in Entry /\ End(tail) \in Range(s) /\ End(tail) # ListHead
  <1>1. Len(s) \in Nat /\ DOMAIN s = 1 .. Len(s) /\ \A i \in DOMAIN s : s[i] \in Entry
    OBVIOUS
  <1>2. list.next[ListHead] = At(s, ListHead, 1) /\ list.prev[ListHead] = At(s, ListHead, Len(s))
    <2>1. 0 \in 0 .. Len(s) /\ Len(s) \in 0 .. Len(s) /\ 0 + 1 = 1
      BY <1>1
    <2>2. At(s, ListHead, 0) = ListHead /\ At(s, ListHead, Len(s) + 1) = ListHead
      BY <1>1 DEF At
    <2> QED BY <2>1, <2>2 DEF Holds
  <1>3. CASE s = <<>>
    <2>1. Len(s) = 0 /\ DOMAIN s = {}
      BY <1>3
    <2> QED BY <1>2, <1>3, <2>1 DEF At, End, k_list_last, k_list_first
  <1>4. CASE s # <<>>
    <2>1. 1 \in 1 .. Len(s) /\ Len(s) \in 1 .. Len(s)
      BY <1>4
    <2>2. End(tail) = IF tail THEN s[Len(s)] ELSE s[1]
      BY <1>1, <1>2, <2>1 DEF At, End, k_list_last, k_list_first
    <2>3. End(tail) \in Entry /\ End(tail) \in Range(s)
      BY <1>1, <2>1, <2>2 DEF Range
    <2>4. ListHead \notin Entry
      BY DequeAssumption
    <2> QED BY <1>4, <2>1, <2>2, <2>3, <2>4
  <1> QED BY <1>3, <1>4

-----------------------------------------------------------------------------
(* The calls keep the ring. *)

\* While the deque is there its walks meet the entries of the ring.
LEMMA SoundRing ==
    ASSUME DequeInv, deq # NULL, pc = "idle"
    PROVE  /\ Forward \in Seq(Entry) /\ Holds(list, ListHead, Forward) /\ IsInjective(Forward)
           /\ mem = Range(Forward) \cup out /\ Range(Forward) \cap out = {}
           /\ Forward \in Seq(Node \ {ListHead}) /\ ListHead \in Node
           /\ list \in ListType /\ DOMAIN list.next = Node /\ DOMAIN list.prev = Node
           /\ Len(Forward) \in Nat
  <1>1. ListHead \notin Entry
    BY DequeAssumption
  <1>2. Node \ {ListHead} = Entry /\ ListHead \in Node
    BY <1>1 DEF Node
  <1>3. Forward \in Seq(Entry) /\ Holds(list, ListHead, Forward) /\ OwnEntries(Forward)
        /\ list \in ListType
    BY DEF DequeInv, Sound, TypeOK, OwnEntries
  <1> QED BY <1>2, <1>3 DEF OwnEntries, ListType, Holds

LEMMA InitInv == Init => DequeInv
  <1> SUFFICES ASSUME Init PROVE DequeInv
    OBVIOUS
  <1>1. list \in ListType
    BY DEF Init, ListType, Node, Poison
  <1> QED BY <1>1 DEF Init, DequeInv, TypeOK, Sound

\* An operation on the list keeps its type.
LEMMA ListOps ==
    ASSUME NEW l \in ListType
    PROVE  /\ K_INIT_LIST_HEAD(l, ListHead) \in ListType
           /\ \A e \in Entry : l.prev[ListHead] \in Node => k_list_add_tail(l, e, ListHead) \in ListType
           /\ \A e \in Entry : l.next[ListHead] \in Node => k_list_add(l, e, ListHead) \in ListType
           /\ \A e \in Node : l.next[e] \in Node /\ l.prev[e] \in Node => k_list_del(l, e) \in ListType
  <1>1. ListHead \in Node /\ \A e \in Entry : e \in Node
    BY DEF Node
  <1>2. ASSUME NEW e \in Node, NEW p \in Node, NEW n \in Node
        PROVE  list_add_between(l, e, p, n) \in ListType
    BY <1>2 DEF list_add_between, ListType
  <1>3. ASSUME NEW e \in Node, l.next[e] \in Node, l.prev[e] \in Node
        PROVE  k_list_del(l, e) \in ListType
    BY <1>3 DEF k_list_del, list_del_between, ListType, Poison
  <1> QED BY <1>1, <1>2, <1>3 DEF K_INIT_LIST_HEAD, k_list_add_tail, k_list_add, ListType

\* A new deque holds nothing.
LEMMA CreateDoes ==
    ASSUME DequeInv, deque_create, list' = K_INIT_LIST_HEAD(list, ListHead)
    PROVE  list' \in ListType /\ Holds(list', ListHead, <<>>) /\ Forward' = <<>>
  <1>1. list \in ListType /\ list' \in ListType
    BY ListOps DEF DequeInv, TypeOK
  <1>2. Holds(list', ListHead, <<>>)
    <2>1. DOMAIN list.next = Node /\ DOMAIN list.prev = Node /\ ListHead \in Node
      BY <1>1 DEF ListType, Node
    <2> QED BY <2>1, Started
  <1>3. <<>> \in Seq(Entry)
    OBVIOUS
  <1> QED BY <1>1, <1>2, <1>3, WalksAreNext

LEMMA CreateInv ==
    ASSUME DequeInv, deque_create
    PROVE  DequeInv'
  <1> USE DEF deque_create, Call
  <1>1. CASE UNCHANGED <<deq, list, size>>
    BY <1>1 DEF DequeInv, TypeOK, Sound, ToFree, OwnEntries
  <1>2. CASE deq' = Deq /\ list' = K_INIT_LIST_HEAD(list, ListHead) /\ size' \in Garbage
    <2>1. list' \in ListType /\ Holds(list', ListHead, <<>>) /\ Forward' = <<>> /\ size' \in Int
      BY <1>2, CreateDoes, DequeAssumption
    <2>2. OwnEntries(<<>>)' /\ deq' # NULL
      BY <1>2, DequeAssumption DEF DequeInv, OwnEntries, Range
    <2> QED BY <1>2, <2>1, <2>2 DEF DequeInv, TypeOK, Sound, OwnEntries
  <1> QED BY <1>1, <1>2

\* A push puts its entry at its end of the sequence.
LEMMA PushDoes ==
    ASSUME DequeInv, NEW tail \in BOOLEAN, Push(tail), pc' # "crashed",
           NEW e \in Entry \ mem,
           list' = IF tail THEN k_list_add_tail(list, e, ListHead) ELSE k_list_add(list, e, ListHead)
    PROVE  /\ Forward' = IF tail THEN Append(Forward, e) ELSE <<e>> \o Forward
           /\ Backward' = Reverse(Forward')
           /\ Forward' \in Seq(Entry) /\ Holds(list', ListHead, Forward')
           /\ Range(Forward') = Range(Forward) \cup {e} /\ list' \in ListType
           /\ Len(Forward') = Len(Forward) + 1
  <1> DEFINE s == Forward
             t == IF tail THEN Append(s, e) ELSE <<e>> \o s
  <1>1. deq # NULL /\ pc = "idle"
    BY DEF Push, Call
  <1>2. e \in Node \ {ListHead} /\ \A i \in DOMAIN s : s[i] # e
    <2>1. e \notin Range(s)
      BY <1>1, SoundRing
    <2>2. e \in Node \ {ListHead}
      BY DequeAssumption DEF Node
    <2> QED BY <2>1, <2>2 DEF Range
  <1>3. Holds(list', ListHead, t)
    <2>1. /\ Holds(k_list_add_tail(list, e, ListHead), ListHead, Append(s, e))
          /\ Holds(k_list_add(list, e, ListHead), ListHead, <<e>> \o s)
      BY <1>1, <1>2, SoundRing, AddedAtEnd
    <2> QED BY <2>1
  <1>4. t \in Seq(Entry) /\ Range(t) = Range(s) \cup {e} /\ Len(t) = Len(s) + 1
    <2>1. s \in Seq(Entry) /\ Len(s) \in Nat
      BY <1>1, SoundRing
    <2>2. Len(Append(s, e)) = Len(s) + 1 /\ Len(<<e>> \o s) = Len(s) + 1
      BY <2>1
    <2> QED BY <2>1, <2>2, Appended, Prepended
  <1>5. list' \in ListType
    <2>1. list.next[ListHead] \in Node /\ list.prev[ListHead] \in Node
      <3>1. End(TRUE) \in Node /\ End(FALSE) \in Node
        BY <1>1, SoundRing, Ends DEF Node
      <3> QED BY <3>1 DEF End, k_list_first, k_list_last
    <2> QED BY <1>1, <2>1, SoundRing, ListOps
  <1>6. Forward' = t /\ Backward' = Reverse(t)
    BY <1>3, <1>4, <1>5, WalksAreNext
  <1> QED BY <1>3, <1>4, <1>5, <1>6

LEMMA PushInv ==
    ASSUME DequeInv, NEW tail \in BOOLEAN, Push(tail)
    PROVE  DequeInv'
  <1> USE DEF Push, Call
  <1>1. CASE pc' = "crashed" /\ UNCHANGED <<mem, list, data>>
    BY <1>1 DEF DequeInv, TypeOK, Sound
  <1>2. ASSUME NEW e \in Entry \ mem, NEW v \in Data, mem' = mem \cup {e},
               data' = [data EXCEPT ![e] = v],
               list' = IF tail THEN k_list_add_tail(list, e, ListHead)
                       ELSE k_list_add(list, e, ListHead),
               UNCHANGED pc
        PROVE  DequeInv'
    <2>1. pc' # "crashed" /\ pc = "idle" /\ deq # NULL
      BY <1>2
    <2>2. /\ Forward' \in Seq(Entry) /\ Holds(list', ListHead, Forward')
          /\ Range(Forward') = Range(Forward) \cup {e} /\ list' \in ListType
      BY <1>2, <2>1, PushDoes
    <2>3. OwnEntries(Forward)' /\ mem' \subseteq Entry /\ out' \subseteq mem'
      <3>1. out' = out /\ e \notin mem /\ out \subseteq mem /\ mem \subseteq Entry
        BY <1>2 DEF DequeInv, TypeOK
      <3> QED BY <1>2, <2>1, <2>2, <3>1, SoundRing DEF OwnEntries
    <2> QED BY <1>2, <2>1, <2>2, <2>3 DEF DequeInv, TypeOK, Sound
  <1> QED BY <1>1, <1>2

\* A pop takes the entry at its end of the sequence.
LEMMA PopDoes ==
    ASSUME DequeInv, NEW tail \in BOOLEAN, Pop(tail), ~deq_isempty, End(tail) # ListHead
    PROVE  LET i == IF tail THEN Len(Forward) ELSE 1
           IN  /\ i \in 1 .. Len(Forward) /\ End(tail) = Forward[i] /\ Forward # <<>>
               /\ Forward' = Less(Forward, i) /\ Backward' = Reverse(Forward')
               /\ Forward' \in Seq(Entry) /\ Holds(list', ListHead, Forward')
               /\ Range(Forward') = Range(Forward) \ {Forward[i]}
               /\ Forward[i] \in Range(Forward) /\ Forward[i] \in Entry
               /\ Len(Forward') = Len(Forward) - 1 /\ list' \in ListType
  <1> DEFINE s == Forward
             i == IF tail THEN Len(s) ELSE 1
  <1>1. deq # NULL /\ pc = "idle" /\ list' = k_list_del(list, End(tail))
    BY DEF Pop, Call
  <1>2. /\ s \in Seq(Entry) /\ Holds(list, ListHead, s) /\ IsInjective(s)
        /\ s \in Seq(Node \ {ListHead}) /\ ListHead \in Node
        /\ list \in ListType /\ DOMAIN list.next = Node /\ DOMAIN list.prev = Node
    BY <1>1, SoundRing
  <1> HIDE DEF s
  <1>3. /\ s # <<>> /\ i \in 1 .. Len(s) /\ End(tail) = s[i] /\ s[i] \in Entry
    BY <1>2, Ends
  <1>4. Holds(list', ListHead, Less(s, i))
    BY <1>1, <1>2, <1>3, Deleted
  <1>5. /\ Less(s, i) \in Seq(Entry) /\ Len(Less(s, i)) = Len(s) - 1
        /\ Range(Less(s, i)) = Range(s) \ {s[i]} /\ s[i] \in Range(s)
    <2>1. Less(s, i) \in Seq(Entry) /\ Len(Less(s, i)) = Len(s) - 1
      BY <1>2, <1>3, LessType
    <2>2. Range(Less(s, i)) = Range(s) \ {s[i]}
      BY <1>2, <1>3, Popped
    <2>3. s[i] \in Range(s)
      BY <1>2, <1>3 DEF Range
    <2> QED BY <2>1, <2>2, <2>3
  <1>6. list' \in ListType
    <2>1. i \in 0 .. Len(s) /\ i - 1 \in 0 .. Len(s) /\ (i - 1) + 1 = i /\ At(s, ListHead, i) = s[i]
      BY <1>2, <1>3 DEF At
    <2>2. list.next[s[i]] = At(s, ListHead, i + 1) /\ list.prev[s[i]] = At(s, ListHead, i - 1)
      BY <1>2, <2>1 DEF Holds
    <2>3. \A j : At(s, ListHead, j) \in Node
      BY <1>2 DEF At
    <2>4. s[i] \in Node /\ list.next[s[i]] \in Node /\ list.prev[s[i]] \in Node
      BY <1>3, <2>2, <2>3 DEF Node
    <2> QED BY <1>1, <1>2, <1>3, <2>4, ListOps
  <1>7. Forward' = Less(s, i) /\ Backward' = Reverse(Less(s, i))
    BY <1>4, <1>5, <1>6, WalksAreNext
  <1> QED BY <1>3, <1>4, <1>5, <1>6, <1>7 DEF s

LEMMA PopInv ==
    ASSUME DequeInv, NEW tail \in BOOLEAN, Pop(tail)
    PROVE  DequeInv'
  <1>0. deq # NULL /\ pc = "idle" /\ UNCHANGED <<deq, mem, data, cur, tmp>>
    BY DEF Pop, Call
  <1>1. CASE UNCHANGED <<list, size, out, pc>>
    <2>1. Forward' = Forward
      BY <1>1 DEF Forward
    <2> QED BY <1>0, <1>1, <2>1 DEF DequeInv, TypeOK, Sound, OwnEntries
  <1>2. ASSUME ~deq_isempty, list' = k_list_del(list, End(tail)), size' = size - 1,
               End(tail) = ListHead, pc' = "astray", UNCHANGED out
        PROVE  DequeInv'
    <2>1. list' \in ListType
      <3>1. Forward = <<>>
        BY <1>0, <1>2, SoundRing, Ends
      <3>2. list.next[ListHead] = ListHead /\ list.prev[ListHead] = ListHead
        <4>1. End(TRUE) = ListHead /\ End(FALSE) = ListHead
          BY <1>0, <3>1, SoundRing, Ends
        <4> QED BY <4>1 DEF End, k_list_first, k_list_last
      <3> QED BY <1>0, <1>2, <3>2, SoundRing, ListOps
    <2> QED BY <1>0, <1>2, <2>1 DEF DequeInv, TypeOK, Sound
  <1>3. ASSUME ~deq_isempty, list' = k_list_del(list, End(tail)), size' = size - 1,
               End(tail) # ListHead, out' = out \cup {End(tail)}, UNCHANGED pc
        PROVE  DequeInv'
    <2> DEFINE e == End(tail)
    <2>1. /\ Forward' \in Seq(Entry) /\ Holds(list', ListHead, Forward')
          /\ Range(Forward') = Range(Forward) \ {e} /\ e \in Range(Forward)
          /\ e \in Entry /\ list' \in ListType
      BY <1>3, PopDoes
    <2>2. mem = Range(Forward) \cup out /\ Range(Forward) \cap out = {}
      BY <1>0, SoundRing
    <2> HIDE DEF e
    <2>3. OwnEntries(Forward)' /\ out' \subseteq mem'
      BY <1>0, <1>3, <2>1, <2>2 DEF OwnEntries, e
    <2> QED BY <1>0, <1>3, <2>1, <2>3 DEF DequeInv, TypeOK, Sound
  <1> QED BY <1>1, <1>2, <1>3 DEF Pop

LEMMA GetInv ==
    ASSUME DequeInv, NEW tail \in BOOLEAN, Get(tail)
    PROVE  DequeInv'
  <1>1. Forward' = Forward
    BY DEF Get, Forward
  <1> QED BY <1>1 DEF DequeInv, TypeOK, Sound, OwnEntries, Get, Call

LEMMA FreePoppedInv ==
    ASSUME DequeInv, FreePopped
    PROVE  DequeInv'
  <1>1. Forward' = Forward
    BY DEF FreePopped, Forward
  <1> QED BY <1>1 DEF DequeInv, TypeOK, Sound, OwnEntries, FreePopped

-----------------------------------------------------------------------------
(* deq_free frees what the ring holds, and nothing else. *)

LEMMA FreeInv ==
    ASSUME DequeInv, Free
    PROVE  DequeInv'
  <1>1. deq # NULL /\ pc = "idle" /\ pc' = "free"
        /\ cur' = list.next[ListHead] /\ tmp' = list.next[list.next[ListHead]]
        /\ UNCHANGED <<deq, mem, out, list, size, data>>
    BY DEF Free, Call
  <1>0. PICK s \in Seq(Entry) : s = Forward
    BY <1>1, SoundRing
  <1>2. /\ s \in Seq(Entry) /\ Holds(list, ListHead, s) /\ IsInjective(s)
        /\ mem = Range(s) \cup out /\ Range(s) \cap out = {}
        /\ Len(s) \in Nat /\ DOMAIN s = 1 .. Len(s)
    BY <1>0, <1>1, SoundRing
  <1>3. list.next[ListHead] = At(s, ListHead, 1)
    <2>1. At(s, ListHead, 0) = ListHead /\ 0 \in 0 .. Len(s) /\ 0 + 1 = 1
      BY <1>2 DEF At
    <2> QED BY <1>2, <2>1 DEF Holds
  <1>4. \A i \in 1 .. Len(s) : list.next[s[i]] = At(s, ListHead, i + 1)
    <2>1. \A i \in 1 .. Len(s) : i \in 0 .. Len(s) /\ At(s, ListHead, i) = s[i]
      BY <1>2 DEF At
    <2> QED BY <1>2, <2>1 DEF Holds
  <1>5. s # <<>> => list.next[list.next[ListHead]] = At(s, ListHead, 2)
    <2>1. s # <<>> => 1 \in 1 .. Len(s) /\ At(s, ListHead, 1) = s[1] /\ 1 + 1 = 2
      BY <1>2 DEF At
    <2> QED BY <1>3, <1>4, <2>1
  <1>6. ToFree(s)'
    BY <1>1, <1>2, <1>3, <1>4, <1>5 DEF ToFree, OwnEntries
  <1> QED BY <1>1, <1>2, <1>6 DEF DequeInv, TypeOK, Sound

\* While deq_free has entries to free, the item is the first of them.
LEMMA NextToFree ==
    ASSUME NEW s \in Seq(Entry), ToFree(s)
    PROVE  /\ Len(s) \in Nat /\ DOMAIN s = 1 .. Len(s)
           /\ cur = ListHead <=> s = <<>>
           /\ s # <<>> => /\ 1 \in 1 .. Len(s) /\ cur = s[1] /\ cur \in Entry
                          /\ cur \in Range(s) /\ tmp \in Range(s) \cup {ListHead}
  <1>1. Len(s) \in Nat /\ DOMAIN s = 1 .. Len(s) /\ \A i \in DOMAIN s : s[i] \in Entry
    OBVIOUS
  <1>2. ListHead \notin Entry
    BY DequeAssumption
  <1>3. s # <<>> => 1 \in 1 .. Len(s)
    BY <1>1
  <1>4. s = <<>> => DOMAIN s = {}
    OBVIOUS
  <1>5. s # <<>> => /\ cur = s[1] /\ tmp \in Range(s) \cup {ListHead}
    BY <1>1, <1>3 DEF ToFree, At, Range
  <1>6. s = <<>> => cur = ListHead
    BY <1>4 DEF ToFree, At
  <1> QED BY <1>1, <1>2, <1>3, <1>5, <1>6 DEF Range

LEMMA FreeItemInv ==
    ASSUME DequeInv, FreeItem
    PROVE  DequeInv'
  <1>1. pc = "free" /\ cur # ListHead /\ mem' = mem \ {cur} /\ cur' = tmp /\ tmp' = list.next[tmp]
        /\ UNCHANGED <<deq, out, list, size, data, pc>>
    BY DEF FreeItem
  <1>2. PICK s \in Seq(Entry) : ToFree(s)
    BY <1>1 DEF DequeInv
  <1>3. /\ Len(s) \in Nat /\ DOMAIN s = 1 .. Len(s) /\ s # <<>> /\ 1 \in 1 .. Len(s)
        /\ cur = s[1] /\ cur \in Range(s)
    BY <1>1, <1>2, NextToFree
  <1>4. /\ mem = Range(s) \cup out /\ Range(s) \cap out = {} /\ IsInjective(s)
        /\ tmp = At(s, ListHead, 2)
        /\ \A i \in 1 .. Len(s) : list.next[s[i]] = At(s, ListHead, i + 1)
    BY <1>2, <1>3 DEF ToFree, OwnEntries
  <1> DEFINE t == Less(s, 1)
  <1>5. t \in Seq(Entry) /\ Len(t) = Len(s) - 1 /\ Range(t) = Range(s) \ {s[1]}
    BY <1>3, <1>4, Popped, LessType
  <1>6. DOMAIN t = 1 .. Len(s) - 1 /\ \A i \in 1 .. Len(s) - 1 : t[i] = s[i + 1]
    BY <1>3 DEF Less
  <1>7. IsInjective(t)
    <2>1. \A i, j \in 1 .. Len(s) : s[i] = s[j] => i = j
      BY <1>3, <1>4 DEF IsInjective
    <2>2. ASSUME NEW i \in 1 .. Len(s) - 1, NEW j \in 1 .. Len(s) - 1, t[i] = t[j]
          PROVE  i = j
      <3>1. i + 1 \in 1 .. Len(s) /\ j + 1 \in 1 .. Len(s) /\ s[i + 1] = s[j + 1]
        BY <1>3, <1>6, <2>2
      <3>2. i + 1 = j + 1
        BY <2>1, <3>1
      <3> QED BY <3>2
    <2> QED BY <1>6, <2>2 DEF IsInjective
  <1> HIDE DEF t
  <1>8. \A i \in 1 .. Len(s) : At(t, ListHead, i) = At(s, ListHead, i + 1)
    <2>1. ASSUME NEW i \in 1 .. Len(s) PROVE At(t, ListHead, i) = At(s, ListHead, i + 1)
      <3>1. CASE i \in 1 .. Len(s) - 1
        <4>1. i + 1 \in DOMAIN s
          BY <1>3, <3>1
        <4> QED BY <1>6, <3>1, <4>1 DEF At
      <3>2. CASE i \notin 1 .. Len(s) - 1
        <4>1. i + 1 \notin DOMAIN s
          BY <1>3, <3>2
        <4> QED BY <1>6, <3>2, <4>1 DEF At
      <3> QED BY <3>1, <3>2
    <2> QED BY <2>1
  <1>9. tmp = At(t, ListHead, 1)
    <2>1. 1 + 1 = 2
      OBVIOUS
    <2> QED BY <1>3, <1>4, <1>8, <2>1
  <1>10. ASSUME NEW i \in 1 .. Len(t) PROVE list.next[t[i]] = At(t, ListHead, i + 1)
    <2>1. i \in 1 .. Len(s) - 1 /\ i + 1 \in 1 .. Len(s) /\ t[i] = s[i + 1]
      BY <1>3, <1>5, <1>6, <1>10
    <2> QED BY <1>4, <1>8, <2>1
  <1>11. t # <<>> => list.next[tmp] = At(t, ListHead, 2)
    <2>1. t # <<>> => 1 \in 1 .. Len(t) /\ 1 \in DOMAIN t /\ 1 + 1 = 2
      BY <1>5
    <2> QED BY <1>9, <1>10, <2>1 DEF At
  <1>12. mem' = Range(t) \cup out' /\ Range(t) \cap out' = {}
    BY <1>1, <1>3, <1>4, <1>5
  <1>13. ToFree(t)'
    BY <1>1, <1>5, <1>7, <1>9, <1>10, <1>11, <1>12 DEF ToFree, OwnEntries
  <1>14. mem' \subseteq Entry /\ out' \subseteq mem'
    BY <1>1, <1>12 DEF DequeInv, TypeOK
  <1> QED BY <1>1, <1>5, <1>13, <1>14 DEF DequeInv, TypeOK, Sound

LEMMA FreeDequeInv ==
    ASSUME DequeInv, FreeDeque
    PROVE  DequeInv'
  <1>1. pc = "free" /\ cur = ListHead /\ deq' = NULL /\ pc' = "idle"
        /\ UNCHANGED <<mem, out, list, size, data>>
    BY DEF FreeDeque
  <1>2. PICK s \in Seq(Entry) : ToFree(s)
    BY <1>1 DEF DequeInv
  <1>3. s = <<>>
    BY <1>1, <1>2, NextToFree
  <1>4. mem = out
    BY <1>2, <1>3 DEF ToFree, OwnEntries, Range
  <1> QED BY <1>1, <1>4 DEF DequeInv, TypeOK, Sound

LEMMA StutterInv ==
    ASSUME DequeInv, UNCHANGED vars
    PROVE  DequeInv'
  <1>1. Forward' = Forward
    BY DEF vars, Forward
  <1> QED BY <1>1 DEF vars, DequeInv, TypeOK, Sound, OwnEntries, ToFree

LEMMA NextInv == DequeInv /\ [Next]_vars => DequeInv'
  BY CreateInv, PushInv, PopInv, GetInv, FreePoppedInv, FreeInv, FreeItemInv, FreeDequeInv, StutterInv
     DEF Next

LEMMA Invariance == Spec => []DequeInv
  BY InitInv, NextInv, PTL DEF Spec

-----------------------------------------------------------------------------
\* After any calls on either end the ring is sound both ways round: k_list_add,
\* k_list_add_tail and k_list_del, as _deq_push and _deq_pop call them.
THEOREM DequeRing == Spec => []RingBothWays
  <1>1. DequeInv => RingBothWays
    <2> SUFFICES ASSUME DequeInv, Sound
                 PROVE  Backward = Reverse(Forward) /\ IsInjective(Forward)
      BY DEF RingBothWays
    <2>1. /\ Forward \in Seq(Entry) /\ Holds(list, ListHead, Forward) /\ IsInjective(Forward)
          /\ list \in ListType
      BY SoundRing DEF Sound
    <2> QED BY <2>1, WalksAre
  <1> QED BY <1>1, Invariance, PTL

\* No call leaks an entry or gives one away that the ring still holds, whatever
\* size holds, and deq_free steps on allocated entries only.
THEOREM DequeHeap == Spec => []HeapExact
  <1>1. DequeInv => HeapExact
    <2> SUFFICES ASSUME DequeInv PROVE HeapExact
      OBVIOUS
    <2>1. pc = "free" /\ cur # ListHead => cur \in mem \ out /\ tmp \in (mem \ out) \cup {ListHead}
      <3> SUFFICES ASSUME pc = "free", cur # ListHead
                   PROVE  cur \in mem \ out /\ tmp \in (mem \ out) \cup {ListHead}
        OBVIOUS
      <3>1. PICK s \in Seq(Entry) : ToFree(s)
        BY DEF DequeInv
      <3>2. mem = Range(s) \cup out /\ Range(s) \cap out = {}
        BY <3>1 DEF ToFree, OwnEntries
      <3>3. cur \in Range(s) /\ tmp \in Range(s) \cup {ListHead}
        BY <3>1, NextToFree
      <3> QED BY <3>2, <3>3
    <2> QED BY <2>1 DEF DequeInv, HeapExact, OwnEntries
  <1> QED BY <1>1, Invariance, PTL

-----------------------------------------------------------------------------
(* The counter, when malloc's memory holds 0 where size is. *)

LEMMA SizeInit == Init => SizeExact
  BY DEF Init, SizeExact, Sound

LEMMA SizeNext ==
    ASSUME Garbage = {0}
    PROVE  DequeInv /\ SizeExact /\ [Next]_vars => SizeExact'
  <1> SUFFICES ASSUME DequeInv, SizeExact, [Next]_vars PROVE SizeExact'
    OBVIOUS
  <1>1. CASE deque_create
    <2>1. CASE UNCHANGED <<deq, list, size>>
      BY <1>1, <2>1 DEF deque_create, Call, SizeExact, Sound
    <2>2. CASE deq' = Deq /\ list' = K_INIT_LIST_HEAD(list, ListHead) /\ size' \in Garbage
      <3>1. Forward' = <<>> /\ size' = 0
        BY <1>1, <2>2, CreateDoes
      <3> QED BY <1>1, <3>1 DEF deque_create, Call, SizeExact
    <2> QED BY <1>1, <2>1, <2>2 DEF deque_create
  <1>2. ASSUME NEW tail \in BOOLEAN, Push(tail) PROVE SizeExact'
    <2>0. deq # NULL /\ pc = "idle" /\ size' = size + 1
      BY <1>2 DEF Push, Call
    <2>1. CASE pc' = "crashed"
      BY <2>1 DEF SizeExact, Sound
    <2>2. ASSUME pc' # "crashed" PROVE SizeExact'
      <3>1. Len(Forward') = Len(Forward) + 1
        <4>1. PICK e \in Entry \ mem :
                 list' = IF tail THEN k_list_add_tail(list, e, ListHead)
                         ELSE k_list_add(list, e, ListHead)
          BY <1>2, <2>2 DEF Push
        <4> QED BY <1>2, <2>2, <4>1, PushDoes
      <3>2. pc' = pc
        BY <1>2, <2>2 DEF Push
      <3> QED BY <2>0, <3>1, <3>2 DEF SizeExact, Sound
    <2> QED BY <2>1, <2>2
  <1>3. ASSUME NEW tail \in BOOLEAN, Pop(tail) PROVE SizeExact'
    <2>0. deq # NULL /\ pc = "idle" /\ Sound /\ size = Len(Forward)
      BY <1>3 DEF Pop, Call, Sound, SizeExact
    <2>1. CASE deq_isempty
      <3>1. UNCHANGED <<deq, list, size, pc>>
        BY <1>3, <2>1 DEF Pop
      <3>2. Forward' = Forward
        BY <3>1 DEF Forward
      <3> QED BY <2>0, <3>1, <3>2 DEF SizeExact
    <2>2. CASE ~deq_isempty
      <3>1. End(tail) # ListHead
        <4>1. Forward # <<>>
          BY <2>0, <2>2 DEF deq_isempty
        <4> QED BY <2>0, <4>1, SoundRing, Ends
      <3>2. size' = size - 1 /\ pc' = pc
        BY <1>3, <2>2, <3>1 DEF Pop
      <3>3. Len(Forward') = Len(Forward) - 1
        BY <1>3, <2>2, <3>1, PopDoes
      <3> QED BY <2>0, <3>2, <3>3 DEF SizeExact
    <2> QED BY <2>1, <2>2
  <1>4. ASSUME NEW tail \in BOOLEAN, Get(tail) PROVE SizeExact'
    <2>0. deq # NULL /\ pc = "idle" /\ Sound /\ size = Len(Forward) /\ UNCHANGED <<deq, list, size>>
      BY <1>4 DEF Get, Call, Sound, SizeExact
    <2>1. ret' # ListHead
      <3>1. CASE deq_isempty
        BY <1>4, <3>1, DequeAssumption DEF Get
      <3>2. CASE ~deq_isempty
        <4>1. Forward # <<>>
          BY <2>0, <3>2 DEF deq_isempty
        <4>2. End(tail) # ListHead
          BY <2>0, <4>1, SoundRing, Ends
        <4> QED BY <1>4, <3>2, <4>2 DEF Get
      <3> QED BY <3>1, <3>2
    <2>2. pc' = pc
      BY <1>4, <2>1 DEF Get
    <2>3. Forward' = Forward
      BY <2>0 DEF Forward
    <2> QED BY <2>0, <2>2, <2>3 DEF SizeExact
  <1>5. CASE FreePopped \/ UNCHANGED vars
    <2>1. UNCHANGED <<deq, list, size, pc>>
      BY <1>5 DEF FreePopped, vars
    <2>2. Forward' = Forward
      BY <2>1 DEF Forward
    <2> QED BY <2>1, <2>2 DEF SizeExact, Sound
  <1>6. CASE Free \/ FreeItem \/ FreeDeque
    BY <1>6 DEF Free, FreeItem, FreeDeque, SizeExact, Sound
  <1> QED BY <1>1, <1>2, <1>3, <1>4, <1>5, <1>6 DEF Next

\* deq->size counts the ring, so that no pop or get takes the head of the list for
\* an entry, provided that the memory of the new deque holds 0 where size is.
THEOREM DequeSize ==
    ASSUME Garbage = {0}
    PROVE  Spec => []SizeExact
  <1>1. DequeInv /\ SizeExact /\ [Next]_vars => SizeExact'
    BY SizeNext
  <1> QED BY <1>1, SizeInit, Invariance, PTL DEF Spec

-----------------------------------------------------------------------------
(* The abstract deque. *)

ItemsOf(s, d) == [i \in DOMAIN s |-> [id |-> s[i], data |-> d[s[i]]]]

ItemRecord == [id : Entry, data : Data \cup {NULL}]

\* An operation on a sequence of entries is one on the sequence of their items.
LEMMA ItemsFollow ==
    ASSUME NEW s \in Seq(Entry), NEW d \in [Entry -> Data \cup {NULL}]
    PROVE  /\ ItemsOf(s, d) \in Seq(ItemRecord) /\ Len(ItemsOf(s, d)) = Len(s)
           /\ DOMAIN ItemsOf(s, d) = DOMAIN s
           /\ ItemsOf(s, d) = <<>> <=> s = <<>>
           /\ \A i \in 1 .. Len(s) : ItemsOf(Less(s, i), d) = Less(ItemsOf(s, d), i)
  <1>1. Len(s) \in Nat /\ DOMAIN s = 1 .. Len(s) /\ \A i \in DOMAIN s : s[i] \in Entry
    OBVIOUS
  <1>2. ItemsOf(s, d) \in [1 .. Len(s) -> ItemRecord]
    BY <1>1 DEF ItemsOf, ItemRecord
  <1>3. ItemsOf(s, d) \in Seq(ItemRecord) /\ Len(ItemsOf(s, d)) = Len(s)
    BY <1>1, <1>2
  <1>4. ASSUME NEW i \in 1 .. Len(s) PROVE ItemsOf(Less(s, i), d) = Less(ItemsOf(s, d), i)
    <2>1. DOMAIN Less(s, i) = 1 .. Len(s) - 1
      BY DEF Less
    <2>2. \A j \in 1 .. Len(s) - 1 : j \in DOMAIN s /\ j + 1 \in DOMAIN s
      BY <1>1
    <2>3. \A j \in 1 .. Len(s) - 1 :
             [id |-> Less(s, i)[j], data |-> d[Less(s, i)[j]]]
                = IF j < i THEN ItemsOf(s, d)[j] ELSE ItemsOf(s, d)[j + 1]
      BY <2>2 DEF Less, ItemsOf
    <2> QED BY <1>3, <2>1, <2>3 DEF Less, ItemsOf
  <1> QED BY <1>1, <1>2, <1>3, <1>4

LEMMA ItemsPushed ==
    ASSUME NEW s \in Seq(Entry), NEW d \in [Entry -> Data \cup {NULL}],
           NEW e \in Entry, e \notin Range(s), NEW v \in Data
    PROVE  LET x == [id |-> e, data |-> v]
           IN  /\ ItemsOf(Append(s, e), [d EXCEPT ![e] = v]) = Append(ItemsOf(s, d), x)
               /\ ItemsOf(<<e>> \o s, [d EXCEPT ![e] = v]) = <<x>> \o ItemsOf(s, d)
               /\ \A i \in DOMAIN ItemsOf(s, d) : ItemsOf(s, d)[i].id # e
  <1> DEFINE x == [id |-> e, data |-> v]
             c == [d EXCEPT ![e] = v]
             t == ItemsOf(s, d)
  <1>1. /\ Len(s) \in Nat /\ DOMAIN s = 1 .. Len(s)
        /\ \A i \in DOMAIN s : s[i] \in Entry /\ s[i] # e
    BY DEF Range
  <1>2. /\ t \in Seq(ItemRecord) /\ Len(t) = Len(s) /\ DOMAIN t = 1 .. Len(s)
        /\ x \in ItemRecord
    BY <1>1, ItemsFollow DEF ItemRecord
  <1>3. \A i \in 1 .. Len(s) : t[i] = [id |-> s[i], data |-> c[s[i]]] /\ t[i].id # e
    BY <1>1 DEF ItemsOf
  <1>4. c[e] = v
    OBVIOUS
  <1> HIDE DEF t, c
  <1>5. ItemsOf(Append(s, e), c) = Append(t, x)
    <2> DEFINE a == Append(s, e)
               b == Append(t, x)
    <2>1. /\ a \in Seq(Entry) /\ Len(a) = Len(s) + 1 /\ a[Len(s) + 1] = e
          /\ \A i \in 1 .. Len(s) : a[i] = s[i]
      OBVIOUS
    <2>2. /\ b \in Seq(ItemRecord) /\ Len(b) = Len(s) + 1 /\ b[Len(s) + 1] = x
          /\ \A i \in 1 .. Len(s) : b[i] = t[i]
      BY <1>2
    <2> HIDE DEF a, b
    <2>3. DOMAIN a = 1 .. Len(s) + 1 /\ b = [i \in 1 .. Len(s) + 1 |-> b[i]]
      BY <2>1, <2>2, ByIndex
    <2>4. \A i \in 1 .. Len(s) + 1 : i = Len(s) + 1 \/ i \in 1 .. Len(s)
      BY <1>1
    <2>5. \A i \in 1 .. Len(s) + 1 : [id |-> a[i], data |-> c[a[i]]] = b[i]
      BY <1>3, <1>4, <2>1, <2>2, <2>4
    <2>6. ItemsOf(a, c) = b
      BY <2>3, <2>5 DEF ItemsOf
    <2> QED BY <2>6 DEF a, b
  <1>6. ItemsOf(<<e>> \o s, c) = <<x>> \o t
    <2> DEFINE a == <<e>> \o s
               b == <<x>> \o t
    <2>1. /\ a \in Seq(Entry) /\ Len(a) = 1 + Len(s) /\ a[1] = e
          /\ \A i \in 2 .. 1 + Len(s) : a[i] = s[i - 1]
      <3>1. <<e>> \in Seq(Entry) /\ Len(<<e>>) = 1 /\ <<e>>[1] = e
        OBVIOUS
      <3> QED BY <1>1, <3>1, ConcatProperties
    <2>2. /\ b \in Seq(ItemRecord) /\ Len(b) = 1 + Len(s) /\ b[1] = x
          /\ \A i \in 2 .. 1 + Len(s) : b[i] = t[i - 1]
      <3>1. <<x>> \in Seq(ItemRecord) /\ Len(<<x>>) = 1 /\ <<x>>[1] = x
        BY <1>2
      <3> QED BY <1>1, <1>2, <3>1, ConcatProperties
    <2> HIDE DEF a, b
    <2>3. DOMAIN a = 1 .. 1 + Len(s) /\ b = [i \in 1 .. 1 + Len(s) |-> b[i]]
      BY <2>1, <2>2, ByIndex
    <2>4. \A i \in 1 .. 1 + Len(s) : i = 1 \/ (i \in 2 .. 1 + Len(s) /\ i - 1 \in 1 .. Len(s))
      BY <1>1
    <2>5. \A i \in 1 .. 1 + Len(s) : [id |-> a[i], data |-> c[a[i]]] = b[i]
      BY <1>3, <1>4, <2>1, <2>2, <2>4
    <2>6. ItemsOf(a, c) = b
      BY <2>3, <2>5 DEF ItemsOf
    <2> QED BY <2>6 DEF a, b
  <1> QED BY <1>2, <1>3, <1>5, <1>6 DEF t, c

\* What the abstract deque sees.
Exists == deq # NULL /\ pc # "free"
Items  == IF deq = NULL \/ pc = "free" THEN <<>> ELSE [i \in DOMAIN Forward |-> Item(Forward[i])]
Result == IF ret = NULL THEN NULL ELSE Item(ret)

LEMMA ItemsAre ==
    /\ Exists => Items = ItemsOf(Forward, data)
    /\ Exists' => Items' = ItemsOf(Forward', data')
    /\ ~Exists => Items = <<>>
    /\ ~Exists' => Items' = <<>>
  BY DEF Exists, Items, ItemsOf, Item

\* The entry at an end of the ring is that of the item at that end of the sequence.
LEMMA EndItem ==
    ASSUME DequeInv, SizeExact, deq # NULL, pc = "idle", NEW tail \in BOOLEAN
    PROVE  /\ deq_isempty <=> Items = <<>>
           /\ deq_isempty <=> Forward = <<>>
           /\ ~deq_isempty => /\ End(tail) \in Entry /\ End(tail) # NULL /\ End(tail) # ListHead
                              /\ [id |-> End(tail), data |-> data[End(tail)]]
                                    = IF tail THEN Items[Len(Items)] ELSE Items[1]
  <1>1. Forward \in Seq(Entry) /\ Holds(list, ListHead, Forward) /\ size = Len(Forward)
    BY SoundRing DEF SizeExact, Sound
  <1>2. Items = ItemsOf(Forward, data) /\ data \in [Entry -> Data \cup {NULL}]
    BY ItemsAre DEF Exists, DequeInv, TypeOK
  <1> DEFINE s == Forward
  <1>3. s \in Seq(Entry) /\ Holds(list, ListHead, s) /\ size = Len(s) /\ Items = ItemsOf(s, data)
    BY <1>1, <1>2
  <1> HIDE DEF s
  <1>4. deq_isempty <=> s = <<>>
    BY <1>3 DEF deq_isempty
  <1>5. Items = <<>> <=> s = <<>>
    BY <1>2, <1>3, ItemsFollow
  <1>6. ASSUME s # <<>>
        PROVE  /\ End(tail) \in Entry /\ End(tail) # NULL /\ End(tail) # ListHead
               /\ [id |-> End(tail), data |-> data[End(tail)]]
                     = IF tail THEN Items[Len(Items)] ELSE Items[1]
    <2>1. /\ End(tail) = IF tail THEN s[Len(s)] ELSE s[1]
          /\ 1 \in 1 .. Len(s) /\ Len(s) \in 1 .. Len(s) /\ DOMAIN s = 1 .. Len(s)
          /\ End(tail) \in Entry /\ End(tail) # ListHead
      BY <1>3, <1>6, Ends
    <2>2. End(tail) # NULL
      BY <2>1, DequeAssumption
    <2>3. Len(Items) = Len(s)
      BY <1>2, <1>3, ItemsFollow
    <2> QED BY <1>3, <2>1, <2>2, <2>3 DEF ItemsOf
  <1> QED BY <1>4, <1>5, <1>6 DEF s

-----------------------------------------------------------------------------
(* Each step of the deque is one of the abstract deque, or none. *)

AbsVars == <<Exists, Items, op, Result>>

LEMMA CreateStep ==
    ASSUME DequeInv, deque_create
    PROVE  Abs!Create
  <1>1. deq = NULL /\ pc = "idle" /\ pc' = pc /\ ret' = NULL /\ op' = [f |-> "create", tail |-> FALSE]
    BY DEF deque_create, Call
  <1>2. Items = <<>> /\ Items' = <<>>
    <2>1. CASE UNCHANGED <<deq, list, size>>
      BY <1>1, <2>1 DEF Items
    <2>2. CASE list' = K_INIT_LIST_HEAD(list, ListHead)
      <3>1. Forward' = <<>>
        BY <2>2, CreateDoes
      <3> QED BY <1>1, <3>1 DEF Items
    <2> QED BY <2>1, <2>2 DEF deque_create
  <1> QED BY <1>1, <1>2 DEF Abs!Create, Abs!Call, Items

LEMMA PushStep ==
    ASSUME DequeInv, NEW tail \in BOOLEAN, Push(tail), pc' # "crashed"
    PROVE  Abs!Push(tail)
  <1>1. /\ deq # NULL /\ pc = "idle" /\ pc' = pc /\ deq' = deq /\ ret' = NULL
        /\ op' = [f |-> "push", tail |-> tail]
    BY DEF Push, Call
  <1>2. PICK e \in Entry \ mem, v \in Data :
           /\ data' = [data EXCEPT ![e] = v]
           /\ list' = IF tail THEN k_list_add_tail(list, e, ListHead)
                      ELSE k_list_add(list, e, ListHead)
    BY DEF Push
  <1>3. Forward' = IF tail THEN Append(Forward, e) ELSE <<e>> \o Forward
    BY <1>2, PushDoes
  <1>4. Forward \in Seq(Entry) /\ e \notin Range(Forward) /\ data \in [Entry -> Data \cup {NULL}]
    BY <1>1, SoundRing DEF DequeInv, TypeOK
  <1>5. Exists /\ Exists'
    BY <1>1 DEF Exists
  <1>6. LET x == [id |-> e, data |-> v]
        IN  /\ Items' = IF tail THEN Append(Items, x) ELSE <<x>> \o Items
            /\ \A i \in DOMAIN Items : Items[i].id # e
    <2>1. Items = ItemsOf(Forward, data) /\ Items' = ItemsOf(Forward', data')
      BY <1>5, ItemsAre
    <2>2. LET x == [id |-> e, data |-> v]
          IN  /\ ItemsOf(Append(Forward, e), data') = Append(Items, x)
              /\ ItemsOf(<<e>> \o Forward, data') = <<x>> \o Items
              /\ \A i \in DOMAIN Items : Items[i].id # e
      <3>1. LET x == [id |-> e, data |-> v]
            IN  /\ ItemsOf(Append(Forward, e), [data EXCEPT ![e] = v]) = Append(ItemsOf(Forward, data), x)
                /\ ItemsOf(<<e>> \o Forward, [data EXCEPT ![e] = v]) = <<x>> \o ItemsOf(Forward, data)
                /\ \A i \in DOMAIN ItemsOf(Forward, data) : ItemsOf(Forward, data)[i].id # e
        BY <1>4, ItemsPushed
      <3> QED BY <1>2, <2>1, <3>1, Zenon
    <2>3. /\ tail => Items' = ItemsOf(Append(Forward, e), data')
          /\ ~tail => Items' = ItemsOf(<<e>> \o Forward, data')
      BY <1>3, <2>1
    <2> QED BY <2>2, <2>3
  <1> QED BY <1>1, <1>5, <1>6 DEF Abs!Push, Abs!Call, Items, Exists

LEMMA PopStep ==
    ASSUME DequeInv, SizeExact, NEW tail \in BOOLEAN, Pop(tail)
    PROVE  Abs!Pop(tail)
  <1>1. /\ deq # NULL /\ pc = "idle" /\ deq' = deq /\ data' = data
        /\ op' = [f |-> "pop", tail |-> tail]
    BY DEF Pop, Call
  <1>2. /\ Forward \in Seq(Entry) /\ data \in [Entry -> Data \cup {NULL}]
        /\ Items = ItemsOf(Forward, data) /\ Exists
    BY <1>1, SoundRing, ItemsAre DEF DequeInv, TypeOK, Exists
  <1>3. CASE deq_isempty
    <2>1. ret' = NULL /\ list' = list /\ pc' = pc /\ Items = <<>>
      BY <1>1, <1>3, EndItem DEF Pop
    <2>2. Forward' = Forward
      BY <2>1 DEF Forward
    <2>3. Items' = <<>> /\ Exists'
      <3>1. Exists'
        BY <1>1, <2>1 DEF Exists
      <3>2. Items' = ItemsOf(Forward, data)
        BY <1>1, <2>2, <3>1, ItemsAre
      <3> QED BY <1>2, <2>1, <3>1, <3>2
    <2> QED BY <1>1, <1>2, <2>1, <2>3 DEF Abs!Pop, Abs!Call, Abs!At, Items, Exists
  <1>4. CASE ~deq_isempty
    <2> DEFINE i == IF tail THEN Len(Forward) ELSE 1
    <2>1. /\ End(tail) # NULL /\ End(tail) # ListHead /\ Items # <<>> /\ End(tail) \in Entry
          /\ [id |-> End(tail), data |-> data[End(tail)]]
                = IF tail THEN Items[Len(Items)] ELSE Items[1]
      BY <1>1, <1>4, EndItem
    <2>2. ret' = End(tail) /\ pc' = pc
      BY <1>4, <2>1 DEF Pop
    <2>3. Forward' = Less(Forward, i) /\ i \in 1 .. Len(Forward)
      BY <1>4, <2>1, PopDoes
    <2>4. Exists'
      BY <1>1, <2>2 DEF Exists
    <2>5. Items' = Less(Items, i) /\ Items \in Seq(ItemRecord) /\ Len(Items) = Len(Forward)
      <3>1. Items' = ItemsOf(Less(Forward, i), data)
        BY <1>1, <2>3, <2>4, ItemsAre
      <3> QED BY <1>2, <2>3, <3>1, ItemsFollow
    <2>6. Items' = IF tail THEN SubSeq(Items, 1, Len(Items) - 1) ELSE Tail(Items)
      BY <2>1, <2>5, LessAtEnd
    <2>7. Result' = IF tail THEN Items[Len(Items)] ELSE Items[1]
      <3>1. Result' = [id |-> End(tail), data |-> data[End(tail)]]
        BY <1>1, <2>1, <2>2 DEF Result, Item
      <3> QED BY <2>1, <3>1
    <2> QED BY <1>1, <1>2, <2>1, <2>4, <2>6, <2>7 DEF Abs!Pop, Abs!Call, Abs!At, Items, Exists, Result
  <1> QED BY <1>3, <1>4

LEMMA GetStep ==
    ASSUME DequeInv, SizeExact, NEW tail \in BOOLEAN, Get(tail)
    PROVE  Abs!Get(tail)
  <1>1. /\ deq # NULL /\ pc = "idle" /\ UNCHANGED <<deq, data, list>>
        /\ op' = [f |-> "get", tail |-> tail]
        /\ ret' = IF deq_isempty THEN NULL ELSE End(tail)
        /\ pc' = IF ret' = ListHead THEN "astray" ELSE pc
    BY DEF Get, Call
  <1>2. ret' # ListHead
    BY <1>1, EndItem, DequeAssumption
  <1>3. Items' = Items /\ Exists /\ Exists'
    <2>1. Forward' = Forward
      BY <1>1 DEF Forward
    <2> QED BY <1>1, <1>2, <2>1 DEF Items, Exists, Item
  <1>4. Result' = Abs!At(tail)
    <2>1. CASE deq_isempty
      <3>1. ret' = NULL /\ Items = <<>>
        BY <1>1, <2>1, EndItem
      <3> QED BY <3>1 DEF Result, Items, Abs!At
    <2>2. CASE ~deq_isempty
      <3>1. /\ End(tail) # NULL /\ Items # <<>>
            /\ [id |-> End(tail), data |-> data[End(tail)]]
                  = IF tail THEN Items[Len(Items)] ELSE Items[1]
        BY <1>1, <2>2, EndItem
      <3>2. Result' = [id |-> End(tail), data |-> data[End(tail)]]
        BY <1>1, <2>2, <3>1 DEF Result, Item
      <3> QED BY <3>1, <3>2 DEF Items, Abs!At
    <2> QED BY <2>1, <2>2
  <1> QED BY <1>1, <1>3, <1>4 DEF Abs!Get, Abs!Call, Exists, Items, Result

LEMMA FreeStep ==
    ASSUME DequeInv, Free
    PROVE  Abs!Free
  BY DEF Free, Call, Abs!Free, Abs!Call

\* The caller's frees, and those of deq_free, are not seen.
LEMMA SilentStep ==
    ASSUME FreePopped \/ FreeItem \/ FreeDeque \/ UNCHANGED vars
    PROVE  UNCHANGED AbsVars
  <1>1. CASE FreePopped \/ UNCHANGED vars
    <2>1. UNCHANGED <<deq, list, data, pc, op, ret>>
      BY <1>1 DEF FreePopped, vars
    <2>2. Forward' = Forward
      BY <2>1 DEF Forward
    <2> QED BY <2>1, <2>2 DEF AbsVars, Exists, Items, Result, Item
  <1>2. CASE FreeItem
    BY <1>2 DEF FreeItem, AbsVars, Exists, Items, Result, Item
  <1>3. CASE FreeDeque
    BY <1>3 DEF FreeDeque, AbsVars, Exists, Items, Result, Item
  <1> QED BY <1>1, <1>2, <1>3

\* The calls of the deque are those of a sequence of items, provided that the memory
\* of the new deque holds 0 where size is.
THEOREM DequeRefines ==
    ASSUME Garbage = {0}
    PROVE  Spec => ImplementsDequeSpec
  <1>1. Init => Abs!Init
    BY DEF Init, Abs!Init
  <1>2. DequeInv /\ SizeExact /\ [Next]_vars => [pc' = "crashed" \/ Abs!Next]_(Abs!vars)
    <2> SUFFICES ASSUME DequeInv, SizeExact, [Next]_vars
                 PROVE  pc' = "crashed" \/ Abs!Next \/ UNCHANGED Abs!vars
      OBVIOUS
    <2>1. ASSUME NEW tail \in BOOLEAN, Push(tail) \/ Pop(tail) \/ Get(tail)
          PROVE  pc' = "crashed" \/ Abs!Next
      <3>1. Push(tail) /\ pc' # "crashed" => Abs!Push(tail)
        BY PushStep
      <3>2. (Pop(tail) => Abs!Pop(tail)) /\ (Get(tail) => Abs!Get(tail))
        BY PopStep, GetStep
      <3> QED BY <2>1, <3>1, <3>2 DEF Abs!Next
    <2>2. ASSUME deque_create \/ Free PROVE Abs!Next
      BY <2>2, CreateStep, FreeStep DEF Abs!Next
    <2>3. ASSUME FreePopped \/ FreeItem \/ FreeDeque \/ UNCHANGED vars PROVE UNCHANGED Abs!vars
      <3>1. UNCHANGED AbsVars
        BY <2>3, SilentStep
      <3> QED BY <3>1 DEF AbsVars, Abs!vars, Exists, Items, Result
    <2> QED BY <2>1, <2>2, <2>3 DEF Next
  <1>3. Spec => [](DequeInv /\ SizeExact)
    BY Invariance, DequeSize, PTL
  <1> QED BY <1>1, <1>2, <1>3, PTL DEF Spec, ImplementsDequeSpec

===============================================================================
